----------------------------- MODULE Connection -----------------------------
(***************************************************************************)
(* Both ends of a connection that may break off or not answer, side by     *)
(* side.  A behaviour is a checked apply that waits for its confirmation   *)
(* (ApplyDialog), a page that comes up from the class files it has to      *)
(* fetch, or waits for the device to come back from a restart (Boot), or a *)
(* program of the server that reads the reply to a request (HttpBody).     *)
(***************************************************************************)
EXTENDS Integers, Sequences

CONSTANTS RollbackTime, Holdoff, Timeout, Delay, MaxOutages, Horizon,
          Classes, Core, Preload, Views, MaxLost,
          Replies, Limit, MaxAttempts

VARIABLES now, link, upSince, outages, server, expiry, dialog, deadline, next, request, stray,
          needs, class, chain, base, boot, lost,
          device, slow, waiting, pings,
          reader, reply, rest, open, off, code, buffer, phase, te, out, attempts,
          truncated, leaked, claimed

Dialog == INSTANCE ApplyDialog
Page == INSTANCE Boot
Reading == INSTANCE HttpBody

ASSUME ConnectionAssumption ==
  Dialog!TimesAssumption /\ Page!BootAssumption /\ Reading!RepliesAssumption

dialogVars == <<now, link, upSince, outages, server, expiry, dialog, deadline, next, request, stray>>
pageVars == <<needs, class, chain, base, boot, lost>>
restartVars == <<device, slow, waiting, pings>>
readingVars == <<reader, reply, rest, open, off, code, buffer, phase, te, out, attempts,
                 truncated, leaked, claimed>>
vars == <<dialogVars, pageVars, restartVars, readingVars>>

Init ==
  \/ Dialog!Init /\ Page!Unused /\ Page!NoRestart /\ Reading!Unused
  \/ Dialog!Unused /\ Page!Init /\ Page!NoRestart /\ Reading!Unused
  \/ Dialog!Unused /\ Page!Unused /\ Page!RebootInit /\ Reading!Unused
  \/ Dialog!Unused /\ Page!Unused /\ Page!NoRestart /\ Reading!Init

Next ==
  \/ Dialog!Next /\ UNCHANGED <<pageVars, restartVars, readingVars>>
  \/ Page!Next /\ UNCHANGED <<dialogVars, restartVars, readingVars>>
  \/ Page!RebootNext /\ UNCHANGED <<dialogVars, pageVars, readingVars>>
  \/ Reading!Next /\ UNCHANGED <<dialogVars, pageVars, restartVars>>

Fairness == /\ Dialog!Fairness /\ Page!Fairness
            /\ Page!RebootFairness /\ Reading!Fairness
FairSpec == Init /\ [][Next]_vars /\ Fairness

-----------------------------------------------------------------------------
\* On a link that never breaks a dialog ends with "applied", and does not
\* show it before the server has kept the configuration (ui.js:4231-4290).
\* What is said of a part includes that its state has its type.
GoodLinkApplies == Dialog!GoodLinkApplies
GoodLinkTellsTheTruth == Dialog!TypeOK /\ Dialog!GoodLinkTellsTheTruth
\* A device the browser can reach is not rolled back (ApplyDialog).
ReachableIsKept == Dialog!ReachableIsKept

\* A class that is there has all it depends on, directly or not (Boot).
OnlyWhole == Page!TypeOK /\ Page!OnlyWhole
\* Whoever asks for a class is answered, and a page whose core classes are
\* there comes up, whatever becomes of the others, and a page that asked
\* for a restart is taken to the device again (Boot).
PagesComeUp ==
  /\ Page!RequireIsAnswered /\ Page!PageComesUp
  /\ []Page!RebootTypeOK /\ Page!PageComesBack

\* Replies are passed on in order (HttpBody).
ResponseInOrder == []Reading!TypeOK /\ Reading!ResponseInOrder
\* Readers stop, unless a chunked reply breaks off, and a reply that was sent
\* in full is passed on as a whole (HttpBody).
ReaderStops == Reading!ReaderStops
CompleteIsPassedOn == Reading!CompleteIsPassedOn
=============================================================================
