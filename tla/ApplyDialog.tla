---------------------------- MODULE ApplyDialog ----------------------------
(***************************************************************************)
(* The browser's side of a checked apply, ui.js changes.apply, confirm and *)
(* rollback, against the server's timer, with a clock in seconds and a     *)
(* link that may break.  The server is the abstract one of CheckedApply:   *)
(* one apply that is pending until it is confirmed or its timer rolls it   *)
(* back (UciApply.tla has its steps).                                      *)
(***************************************************************************)
EXTENDS Naturals

CONSTANTS RollbackTime,  \* luci.apply.rollback, the server's sleep and the
                         \* browser's deadline
          Holdoff,       \* luci.apply.holdoff: pause before the first confirm
          Timeout,       \* luci.apply.timeout of one confirm request
          Delay,         \* bound: how long a message travels on a good link
          MaxOutages,    \* bound: how often the link breaks
          Horizon        \* bound: length of a behaviour in seconds

TimesAssumption ==
  /\ {RollbackTime, Timeout} \subseteq Nat \ {0}
  /\ {Holdoff, Delay, MaxOutages, Horizon} \subseteq Nat
  /\ 2 * Delay < Timeout

VARIABLES
  now,       \* the clock
  link,      \* "up" or "down"
  upSince,   \* when the link last came up
  outages,   \* how often it has gone down
  server,    \* "clean", "pending", "kept" or "rolledback"
  expiry,    \* when the server's sleep is over
  dialog,    \* what the modal dialog is doing
  deadline,  \* the browser's deadline for confirming
  next,      \* when the hold-off before the first confirm is over
  request,   \* the request the browser waits for
  stray      \* a timed out confirm that may still reach the server

browserVars == <<dialog, deadline, next, request, stray>>
serverVars  == <<server, expiry>>
linkVars    == <<link, upSince, outages>>
vars == <<now, linkVars, serverVars, browserVars>>

None == [kind |-> "none"]

\* A request on its way ("sent"), or a reply on its way back ("answered").
Sent(kind)          == [kind |-> kind, leg |-> "sent", at |-> now, since |-> now]
Answered(r, status) == [kind |-> r.kind, leg |-> "answered", at |-> r.at,
                        since |-> now, status |-> status]

Statuses == {200, 204}
Kinds == {"apply", "confirm", "query"}
Time == 0 .. Horizon + RollbackTime + Holdoff

TypeOK ==
  /\ now \in 0 .. Horizon
  /\ link \in {"up", "down"} /\ upSince \in Time /\ outages \in 0 .. MaxOutages
  /\ server \in {"clean", "pending", "kept", "rolledback"}
  /\ expiry \in Time /\ deadline \in Time /\ next \in Time
  /\ dialog \in {"starting", "confirming", "applied", "waiting", "undone"}
  /\ \/ request = None
     \/ request \in [kind : Kinds, leg : {"sent"}, at : Time, since : Time]
     \/ request \in [kind : Kinds, leg : {"answered"}, at : Time, since : Time,
                     status : Statuses]
  /\ stray \in BOOLEAN

\* apply(true) posts admin/uci/apply_rollback.
Init ==
  /\ now = 0
  /\ link = "up" /\ upSince = 0 /\ outages = 0
  /\ server = "clean" /\ expiry = 0
  /\ dialog = "starting" /\ deadline = 0 /\ next = 0
  /\ request = Sent("apply")
  /\ stray = FALSE

\* No apply is under way, or ever will be.
Unused ==
  /\ now = Horizon
  /\ link = "up" /\ upSince = 0 /\ outages = MaxOutages
  /\ server = "kept" /\ expiry = 0
  /\ dialog = "applied" /\ deadline = 0 /\ next = 0
  /\ request = None /\ stray = FALSE

Waiting(leg) == request # None /\ request.leg = leg

-----------------------------------------------------------------------------
(* Faulty variants of the steps below, one per property: each breaks it.   *)

\* The timer does not look for the confirm file.
TimerBlind ==
  /\ server \in {"pending", "kept"}
  /\ now >= expiry
  /\ server' = "rolledback"
  /\ UNCHANGED <<now, linkVars, expiry, browserVars>>

\* The deadline is counted from the hold-off.
ApplyReplyShort ==
  /\ Waiting("answered") /\ request.kind = "apply" /\ link = "up"
  /\ dialog' = "confirming"
  /\ deadline' = now + Holdoff
  /\ next' = now + Holdoff
  /\ request' = None
  /\ UNCHANGED <<now, linkVars, serverVars, stray>>

-----------------------------------------------------------------------------
(* The server.                                                             *)

\* apply has committed, reloaded and forked its timer; the token goes back.
HandleApply ==
  /\ link = "up"
  /\ Waiting("sent") /\ request.kind = "apply"
  /\ server' = "pending"
  /\ expiry' = now + RollbackTime
  /\ request' = Answered(request, 200)
  /\ UNCHANGED <<now, linkVars, dialog, deadline, next, stray>>

ConfirmStatus == IF server = "pending" THEN 200 ELSE 204

\* action_confirm with the token of the apply.
HandleConfirm ==
  /\ link = "up"
  /\ Waiting("sent") /\ request.kind = "confirm"
  /\ request' = Answered(request, ConfirmStatus)
  /\ server' = IF server = "pending" THEN "kept" ELSE server
  /\ UNCHANGED <<now, linkVars, expiry, dialog, deadline, next, stray>>

HandleStray ==
  /\ link = "up"
  /\ stray
  /\ stray' = FALSE
  /\ server' = IF server = "pending" THEN "kept" ELSE server
  /\ UNCHANGED <<now, linkVars, expiry, dialog, deadline, next, request>>

\* action_confirm with the browser's security token, which names no apply.
HandleQuery ==
  /\ link = "up"
  /\ Waiting("sent") /\ request.kind = "query"
  /\ request' = Answered(request, 204)
  /\ UNCHANGED <<now, linkVars, serverVars, dialog, deadline, next, stray>>

\* uci_rollback.lua wakes up and finds the confirm file.
TimerFires ==
  /\ server = "pending"
  /\ now >= expiry
  /\ server' = "rolledback"
  /\ UNCHANGED <<now, linkVars, expiry, browserVars>>

-----------------------------------------------------------------------------
(* The browser.                                                            *)

\* The reply to the apply: confirm(true, now + rollback), whose first call
\* comes after the hold-off.
ApplyReply ==
  /\ Waiting("answered") /\ request.kind = "apply" /\ link = "up"
  /\ dialog' = "confirming"
  /\ deadline' = now + RollbackTime
  /\ next' = now + Holdoff
  /\ request' = None
  /\ UNCHANGED <<now, linkVars, serverVars, stray>>

\* A request fails: its connection breaks or it times out.  The apply
\* request has no time-out and nobody handles its failure, and neither does
\* anybody handle the failure of a request of rollback().
Fails ==
  \/ link = "down" /\ now > request.at
  \/ request.kind # "apply" /\ now >= request.at + Timeout

\* Faulty variant of ConfirmCall: a failed request is not retried before the
\* deadline.
ConfirmCallOnce ==
  /\ dialog = "confirming"
  /\ LET arrived == Waiting("answered") /\ link = "up"
         failed  == request # None /\ ~arrived /\ Fails
     IN  /\ (request = None /\ now >= next) \/ arrived \/ failed
         /\ dialog' = IF arrived THEN "applied" ELSE "confirming"
         /\ request' = IF request = None THEN Sent("confirm") ELSE None
         /\ next' = IF failed THEN deadline ELSE next
  /\ stray' = (stray \/ Waiting("sent"))
  /\ UNCHANGED <<now, linkVars, serverVars, deadline>>

\* confirm's call(): the deadline comes first, then the status.  It runs when
\* the hold-off is over, when a request fails (which is retried at once) and
\* when a reply arrives; 200 and 204 both count as confirmed.
ConfirmCall ==
  /\ dialog = "confirming"
  /\ LET arrived == Waiting("answered") /\ link = "up"
     IN  /\ (request = None /\ now >= next) \/ arrived \/ (request # None /\ Fails)
         /\ \/ /\ now >= deadline
               /\ dialog' = "waiting" /\ request' = Sent("query")
            \/ /\ now < deadline /\ arrived
               /\ dialog' = "applied" /\ request' = None
            \/ /\ now < deadline /\ ~arrived
               /\ request' = Sent("confirm") /\ UNCHANGED dialog
  /\ stray' = (stray \/ Waiting("sent"))
  /\ UNCHANGED <<now, linkVars, serverVars, deadline, next>>

\* rollback's call(): status 204 means rolled back.
QueryReply ==
  /\ dialog = "waiting"
  /\ Waiting("answered") /\ link = "up"
  /\ dialog' = "undone"
  /\ request' = None
  /\ UNCHANGED <<now, linkVars, serverVars, deadline, next, stray>>

\* A failed apply or query request rejects a promise nobody handles.
Unhandled ==
  /\ dialog \in {"starting", "waiting"}
  /\ request # None /\ Fails
  /\ request' = None
  /\ UNCHANGED <<now, linkVars, serverVars, dialog, deadline, next, stray>>

-----------------------------------------------------------------------------
(* Time and the link.                                                      *)

Drop ==
  /\ link = "up"
  /\ outages < MaxOutages
  /\ link' = "down"
  /\ outages' = outages + 1
  /\ UNCHANGED <<now, upSince, serverVars, browserVars>>

Restore ==
  /\ link = "down"
  /\ link' = "up"
  /\ upSince' = now
  /\ UNCHANGED <<now, outages, serverVars, browserVars>>

\* The clock does not pass a moment at which something is due: a good link
\* delivers within Delay, time-outs and timers go off.
Due ==
  \/ server = "pending" /\ now > expiry
  \/ dialog = "confirming" /\ request = None /\ now >= next
  \/ request # None /\ request.kind # "apply" /\ now >= request.at + Timeout
  \/ /\ request # None /\ link = "up"
     /\ now >= request.since + Delay /\ now >= upSince + Delay

Tick ==
  /\ now < Horizon
  /\ ~Due
  /\ now' = now + 1
  /\ UNCHANGED <<linkVars, serverVars, browserVars>>

Server == HandleApply \/ HandleConfirm \/ HandleStray \/ HandleQuery
Browser == ApplyReply \/ ConfirmCall \/ QueryReply \/ Unhandled

Next == Server \/ TimerFires \/ Browser \/ Drop \/ Restore \/ Tick

\* Server, timer and browser run, and a broken link is repaired.
Fairness == /\ WF_vars(Server) /\ WF_vars(TimerFires) /\ WF_vars(Browser)
            /\ WF_vars(Restore) /\ WF_vars(Tick)

Spec == Init /\ [][Next]_vars
FairSpec == Spec /\ Fairness

-----------------------------------------------------------------------------
(* Properties.                                                             *)

\* On a link that never breaks the dialog ends with "applied" and the server
\* keeps the configuration.
GoodLinkApplies ==
  [](outages = 0) => <>[](dialog = "applied" /\ server = "kept")

\* How long after an outage the server has certainly seen a confirm: the
\* request that was under way times out, the next one arrives.
Grace == Timeout + Delay

\* A device the browser can reach is not rolled back: when the timer fires
\* on an unconfirmed apply whose token the browser has, the link was down or
\* has only just come back.
ReachableIsKept ==
  [][server = "pending" /\ server' = "rolledback" /\ dialog = "confirming"
     /\ now >= deadline - RollbackTime + Holdoff + Grace
       => link = "down" \/ now < upSince + Grace]_vars

\* "Configuration changes applied." is shown while the server has not kept the
\* configuration only if the link has failed once.
GoodLinkTellsTheTruth ==
  outages = 0 => (dialog = "applied" => server = "kept")
                 /\ (dialog = "undone" => server = "rolledback")

\* "Configuration changes applied." is only shown for a configuration that
\* the device has kept.
AppliedIsKept == dialog = "applied" => server = "kept"
=============================================================================
