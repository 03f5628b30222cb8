------------------------------ MODULE Changes ------------------------------
(***************************************************************************)
(* The indicator "Unsaved Changes" and the dialog behind it: ui.changes of *)
(* ui.js.  Each time a configuration is loaded the page asks for the list  *)
(* of staged changes; the answers come in any order.  Reverting is one     *)
(* request; its answer may be lost.  Saves are those of UciForm, another   *)
(* tab has its own.  Apply is modelled in ApplyDialog.                     *)
(***************************************************************************)
EXTENDS Naturals, SequencesExt

CONSTANTS Unread,     \* the server has not come to a request yet
          MaxAsked,   \* bound: requests for the list that are under way
          MaxStaged,  \* bound: number of staged changes
          MaxTries    \* bound: saves, reverts and what others do

ChangesAssumption == MaxStaged \in Nat \ {0} /\ MaxAsked \in Nat \ {0} /\ MaxTries \in Nat

VARIABLES
  staged,     \* how many changes are staged on the server
  asked,      \* the requests that are under way: for each, in the order they
              \* were sent, the number the server answers with, or Unread
  indicator,  \* the number shown; 0 when there is no indicator
  list,       \* how many changes this.changes has
  box,        \* the modal dialog
  excused,    \* since the page was loaded: has a request failed, an answer
              \* been overtaken, or another tab staged something?
  tries

changesVars == <<staged, asked, indicator, list, box, excused, tries>>

ChangesTypeOK ==
  /\ {staged, indicator, list} \subseteq 0 .. MaxStaged
  /\ asked \in Seq(0 .. MaxStaged \cup {Unread}) /\ Len(asked) <= MaxAsked
  /\ box \in {"none", "changes", "reverting", "reverted", "refused"}
  /\ excused \in BOOLEAN /\ tries \in 0 .. MaxTries

Try == tries < MaxTries /\ tries' = tries + 1

\* init, at the event luci-loaded: the list is asked for.
ChangesInit ==
  /\ staged \in 0 .. 1 /\ asked = <<Unread>>
  /\ indicator = 0 /\ list = 0 /\ box = "none"
  /\ excused = FALSE /\ tries = 0

\* A form is saved; as it is loaded again, the event uci-loaded asks anew.
\* A save that fails half-way has staged something, but loads nothing.
Saved ==
  /\ Try /\ box = "none" /\ staged < MaxStaged
  /\ staged' = staged + 1
  /\ \/ Len(asked) < MaxAsked /\ asked' = Append(asked, Unread) /\ UNCHANGED excused
     \/ excused' = TRUE /\ UNCHANGED asked
  /\ UNCHANGED <<indicator, list, box>>

Abroad(n) ==
  /\ Try
  /\ staged' = n /\ n # staged
  /\ excused' = TRUE
  /\ UNCHANGED <<asked, indicator, list, box>>

Serve(i) ==
  /\ asked[i] = Unread
  /\ asked' = [asked EXCEPT ![i] = staged]
  /\ UNCHANGED <<staged, indicator, list, box, excused, tries>>

\* renderChangeIndicator: the list is kept and its changes are counted.
Arrive(i) ==
  /\ asked[i] # Unread
  /\ asked' = RemoveAt(asked, i)
  /\ list' = asked[i] /\ indicator' = asked[i]
  /\ excused' = (excused \/ i > 1)
  /\ UNCHANGED <<staged, box, tries>>

\* uci.changes() fails: nothing happens.
Lost(i) ==
  /\ Try
  /\ asked' = RemoveAt(asked, i)
  /\ excused' = TRUE
  /\ UNCHANGED <<staged, indicator, list, box>>

\* displayChanges, by a click on the indicator; and Close.
DisplayChanges ==
  /\ box = "none" /\ indicator > 0
  /\ box' = "changes"
  /\ UNCHANGED <<staged, asked, indicator, list, excused, tries>>

Close ==
  /\ box = "changes"
  /\ box' = "none"
  /\ UNCHANGED <<staged, asked, indicator, list, excused, tries>>

\* revert: the dialog says so until there is an answer, and nobody handles
\* the rejection if there is none: then it stays.
Revert ==
  /\ Try
  /\ box = "changes" /\ box' = "reverting"
  /\ UNCHANGED <<staged, asked, indicator, list, excused>>

Reverted ==
  /\ box = "reverting"
  /\ staged' = 0
  /\ box' = "reverted" /\ indicator' = 0
  /\ excused' = (excused \/ asked # <<>>)
  /\ UNCHANGED <<asked, list, tries>>

\* The server reverts, or does not, and the answer is lost.
RevertUnheard ==
  /\ Try
  /\ box = "reverting" /\ UNCHANGED box
  /\ staged' \in {0, staged}
  /\ excused' = TRUE
  /\ UNCHANGED <<asked, indicator, list>>

\* Another status than 200: a warning for some seconds.
RevertRefused ==
  /\ Try
  /\ box = "reverting" /\ box' = "refused"
  /\ UNCHANGED <<staged, asked, indicator, list, excused>>

\* After some seconds the page is loaded again, or the warning taken away.
Timeout ==
  /\ UNCHANGED <<staged, tries>>
  /\ \/ /\ box = "reverted" /\ box' = "none"
        /\ asked' = <<Unread>> /\ indicator' = 0 /\ list' = 0 /\ excused' = FALSE
     \/ box = "refused" /\ box' = "none" /\ UNCHANGED <<asked, indicator, list, excused>>

ChangesNext ==
  \/ Saved \/ DisplayChanges \/ Close \/ Revert \/ Reverted
  \/ RevertUnheard \/ RevertRefused \/ Timeout
  \/ \E n \in 0 .. MaxStaged : Abroad(n)
  \/ \E i \in DOMAIN asked : Serve(i) \/ Arrive(i) \/ Lost(i)

ChangesSpec == ChangesInit /\ [][ChangesNext]_changesVars

-----------------------------------------------------------------------------
(* Properties.                                                             *)

\* Once the list is there, the indicator shows the number of staged changes,
\* and the dialog it opens lists as many: but not after a save that failed
\* half-way, after answers that overtook each other (ui.js:3977 takes them as
\* they come), or while another tab stages changes.
IndicatorCounts ==
  /\ ~excused /\ asked = <<>> => indicator = staged
  /\ box = "changes" \/ (box = "none" /\ indicator > 0) => list = indicator
=============================================================================
