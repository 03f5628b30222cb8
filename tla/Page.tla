-------------------------------- MODULE Page --------------------------------
(***************************************************************************)
(* A page at work: the functions its poll loop calls make ubus calls, and  *)
(* the promise of such a function settles with its call.  JavaScript runs  *)
(* one task at a time, so replies and animation frames wait for a step of  *)
(* the loop to end.  A call that finds the session ended stops the loop.   *)
(***************************************************************************)
EXTENDS Integers, Sequences

CONSTANTS Fns, Intervals, Effects, Cycle, MaxDialogs,
          NoBatch, Denied, Fatal, MayLose,
          MaxEvents   \* bound: what users, views, sessions and links do in a behaviour

VARIABLES queue, timer, tick, loop, indicator, missed,
          modal, flow, wasPolling, dialogs, held,
          call, requests, frame, visible, xhrs, executed, got, alive, trouble,
          events      \* such events so far

Poll == INSTANCE Poll
Rpc == INSTANCE RpcBatch WITH Calls <- Fns, queue <- requests

ASSUME PollAssumption ==
  /\ Intervals \subseteq Nat \ {0}
  /\ Cycle \in Nat \ {0} /\ \A i \in Intervals : Cycle % i = 0
  /\ Effects \subseteq Poll!AllEffects
  /\ MaxDialogs \in Nat /\ MaxEvents \in Nat

ASSUME RpcAssumption ==
  /\ NoBatch \subseteq Fns /\ Denied \subseteq Fns /\ Fatal \subseteq Fns
  /\ MayLose \in BOOLEAN

pollVars == <<queue, timer, tick, loop, indicator, missed,
              modal, flow, wasPolling, dialogs, held>>
rpcVars == <<call, requests, frame, visible, xhrs, executed, got, alive, trouble>>
vars == <<pollVars, rpcVars, events>>

TypeOK == Poll!TypeOK /\ Rpc!TypeOK /\ events \in 0 .. MaxEvents
Init == Poll!Init /\ Rpc!Init /\ events = 0

Event == events < MaxEvents /\ events' = events + 1

\* The loop calls its next function, which makes its call and then returns,
\* unless it throws.  A function that was removed and added again waits for
\* the call it has under way.
CallEntry(effect, f, i) ==
  /\ Poll!CallEntry(effect, f, i)
  /\ LET g == queue[loop.at].fn
     IN  IF effect = "throw" \/ call[Rpc!Id(g)] # "idle" THEN UNCHANGED rpcVars
         ELSE Rpc!Make(g)
  /\ IF effect = "return" THEN UNCHANGED events ELSE Event

Step ==
  /\ Poll!PageReady \/ Poll!IntervalFires \/ Poll!SkipEntry \/ Poll!EndStep
  /\ UNCHANGED <<rpcVars, events>>

\* Views and users.
Act ==
  /\ \/ \E f \in Fns : Poll!Remove(f) \/ \E i \in Intervals : Poll!Add(f, i)
     \/ Poll!Click \/ Poll!ShowStatus \/ Poll!HideStatus
  /\ pollVars' # pollVars
  /\ Event
  /\ UNCHANGED rpcVars

\* The call of a function is settled, and with it the promise the loop holds.
Settle(f) ==
  /\ Poll!Idle
  /\ Rpc!Forget(f)
  /\ IF \E k \in DOMAIN queue : queue[k].fn = f /\ queue[k].r = Poll!Pending
     THEN \E k \in DOMAIN queue : queue[k].fn = f /\ Poll!Settle(k)
     ELSE UNCHANGED pollVars
  /\ UNCHANGED events

\* Faulty variant of ExpiryNoticed: a denied call is reason enough.
DenialNoticed(x) == \E i \in Rpc!Within(x) : call'[i] = "asking"

\* notifySessionExpiry: a probe has failed, for whatever reason.
ExpiryNoticed(x) == \E i \in Rpc!Within(x) : i.probe /\ call'[i] = "rejected"

\* The outcome of a request is handled between two tasks.
Handle(x) ==
  /\ Poll!Idle
  /\ \/ Rpc!Receive(x) /\ UNCHANGED events
     \/ Rpc!Lose(x) /\ Event
  /\ IF ExpiryNoticed(x) THEN Poll!Expire ELSE UNCHANGED pollVars

Flush == Poll!Idle /\ Rpc!Flush /\ UNCHANGED <<pollVars, events>>

Server(x) ==
  /\ Rpc!Serve(x) \/ Rpc!ServeFatal(x) \/ Rpc!Respond(x)
  /\ UNCHANGED <<pollVars, events>>

Outside ==
  /\ \/ (Rpc!EndSession \/ Rpc!HideTab) /\ Event
     \/ Rpc!ShowTab /\ UNCHANGED events
  /\ UNCHANGED pollVars

Next ==
  \/ \E effect \in Effects, f \in Fns, i \in Intervals : CallEntry(effect, f, i)
  \/ Step \/ Act
  \/ \E f \in Fns : Settle(f)
  \/ \E x \in xhrs : Handle(x) \/ Server(x)
  \/ Flush \/ Outside

Spec == Init /\ [][Next]_vars

-----------------------------------------------------------------------------
(* Properties; those of the parts are explained there.                     *)

StopSticks == Poll!StopSticks
IndicatorTruthful == Poll!IndicatorTruthful
NobodyPassedBy == Poll!NobodyPassedBy

\* "Session expired" is shown only when the session has ended, unless some
\* request has failed as a whole.
ExpiryIsReal == modal = "expired" => ~alive \/ trouble

\* A promise that has not settled is somebody's business: a queued call waits
\* for a frame that was requested, a sent one for a request the browser has
\* open, one that asks about its session for its probe, and a function the
\* loop takes for pending has a call.
NothingIsForgotten ==
  /\ \A i \in Rpc!Ids :
       /\ call[i] = "queued" => frame /\ \E k \in DOMAIN requests : requests[k] = i
       /\ call[i] = "sent" => \E x \in xhrs : x.open /\ i \in Rpc!Within(x)
       /\ call[i] = "asking" => call[Rpc!Probe(i.for)] \in {"queued", "sent"}
  /\ \A k \in DOMAIN queue :
       queue[k].r = Poll!Pending => call[Rpc!Id(queue[k].fn)] # "idle"

\* Everything has its type; each call is given its own reply, none is carried
\* out twice and none is forgotten.
EachCallOnce == TypeOK /\ Rpc!RightReply /\ Rpc!AtMostOnce /\ NothingIsForgotten

\* The page under the "Session expired" dialog does not poll again, unless the
\* last function had been removed, or a function stopped the loop, before.
ExpiredPageIsQuiet ==
  [][modal = "expired" /\ modal' = "expired" /\ ~flow /\ ~timer /\ timer'
       => tick # Poll!Undefined]_vars
=============================================================================
