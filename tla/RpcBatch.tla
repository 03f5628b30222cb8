------------------------------ MODULE RpcBatch ------------------------------
(***************************************************************************)
(* How a page calls ubus methods: rpc.js and the request queue of luci.js  *)
(* on one side, action_ubus of controller/admin/index.lua on the other.    *)
(* Calls made between two animation frames travel in one request, whose    *)
(* reply is an array matched to the calls by position.  A call that is     *)
(* denied asks session.access whether the session has ended (setupDOM's    *)
(* interceptor) before it is rejected.  Requests time out, and a request   *)
(* nobody waits for any more may still be carried out.                     *)
(***************************************************************************)
EXTENDS Naturals, Sequences, FiniteSets

CONSTANTS Calls,    \* the calls a page makes, each again after it is settled
          NoBatch,  \* those a view may declare with nobatch
          Denied,   \* those the session's access rights may not cover
          Fatal,    \* those that may raise an error in the server
          MayLose   \* may requests time out or break?

VARIABLES
  call,      \* what has become of each call and each probe
  queue,     \* requestQueue
  frame,     \* has an animation frame been requested?
  visible,   \* is the tab visible?
  xhrs,      \* requests the browser waits for or the server works on
  executed,  \* how often the server has carried out each call since it was made
  got,       \* whose reply each call was given
  alive,     \* is the session alive?
  trouble    \* has a request ever failed as a whole?

browser == <<call, queue, frame, got>>
vars == <<browser, visible, xhrs, executed, alive, trouble>>

\* A probe is the session.access call made for a denied call.
Ids == [for : Calls, probe : BOOLEAN]
Id(c) == [for |-> c, probe |-> FALSE]
Probe(c) == [for |-> c, probe |-> TRUE]
Nobody == [for |-> "nobody", probe |-> FALSE]

Waiting == {"queued", "sent", "asking"}
Settled == {"resolved", "rejected"}

\* A reply: the call it belongs to and whether it was granted.
Replies == [id : Ids, granted : BOOLEAN]

\* A request: the calls in it, those the server has left, its replies, where
\* it is and whether the browser still waits for it.
Request(ids) == [ids |-> ids, todo |-> ids, replies |-> <<>>,
                 leg |-> "out", open |-> TRUE]

TypeOK ==
  /\ call \in [Ids -> {"idle"} \cup Waiting \cup Settled]
  /\ \A k \in DOMAIN queue : queue[k] \in Ids
  /\ frame \in BOOLEAN /\ visible \in BOOLEAN /\ alive \in BOOLEAN
  /\ trouble \in BOOLEAN
  /\ \A x \in xhrs : x.leg \in {"out", "back", "error"}
                     /\ \A k \in DOMAIN x.replies : x.replies[k] \in Replies
  /\ executed \in [Ids -> 0 .. 2]
  /\ got \in [Ids -> Ids \cup {Nobody}]

Init ==
  /\ call = [i \in Ids |-> "idle"]
  /\ queue = <<>> /\ frame = FALSE /\ visible = TRUE
  /\ xhrs = {}
  /\ executed = [i \in Ids |-> 0]
  /\ got = [i \in Ids |-> Nobody]
  /\ alive = TRUE /\ trouble = FALSE

Within(x) == {x.ids[k] : k \in DOMAIN x.ids}
UnderWay(i) == \E x \in xhrs : i \in Within(x)

\* The server is at the next call of x; what access says of a call.
Working(x) == x \in xhrs /\ x.leg = "out" /\ x.todo # <<>>
Verdicts(i) == IF ~alive THEN {FALSE}
               ELSE IF i.for \in Denied /\ ~i.probe THEN BOOLEAN ELSE {TRUE}

-----------------------------------------------------------------------------
(* Faulty variants of the steps below, one per property: each breaks it.   *)

\* A denied call leaves no entry in the array of replies.
ServeGranted(x) ==
  /\ Working(x)
  /\ \E granted \in Verdicts(Head(x.todo)) :
       LET i == Head(x.todo)
           reply == IF granted THEN <<[id |-> i, granted |-> TRUE]>> ELSE <<>>
       IN  /\ executed' = [executed EXCEPT ![i] = @ + (IF granted THEN 1 ELSE 0)]
           /\ xhrs' = (xhrs \ {x}) \cup
                {[x EXCEPT !.todo = Tail(@), !.replies = @ \o reply]}
  /\ UNCHANGED <<browser, visible, alive, trouble>>

-----------------------------------------------------------------------------
(* Making a call.                                                          *)

\* A page does not make the same call again before it is settled, and (a
\* bound of the model) not before the server is done with it.
Make(c) ==
  /\ call[Id(c)] = "idle" /\ ~UnderWay(Id(c)) /\ ~UnderWay(Probe(c))
  /\ executed' = [executed EXCEPT ![Id(c)] = 0, ![Probe(c)] = 0]
  /\ \/ /\ c \in NoBatch
        /\ call' = [call EXCEPT ![Id(c)] = "sent", ![Probe(c)] = "idle"]
        /\ xhrs' = xhrs \cup {Request(<<Id(c)>>)}
        /\ UNCHANGED <<queue, frame>>
     \/ /\ call' = [call EXCEPT ![Id(c)] = "queued", ![Probe(c)] = "idle"]
        /\ queue' = Append(queue, Id(c))
        /\ frame' = TRUE
        /\ UNCHANGED xhrs
  /\ got' = [got EXCEPT ![Id(c)] = Nobody, ![Probe(c)] = Nobody]
  /\ UNCHANGED <<visible, alive, trouble>>

\* flushRequestQueue, in an animation frame; a hidden tab has none.
Flush ==
  /\ frame /\ visible
  /\ frame' = FALSE
  /\ queue' = <<>>
  /\ xhrs' = IF queue = <<>> THEN xhrs ELSE xhrs \cup {Request(queue)}
  /\ call' = [i \in Ids |-> IF call[i] = "queued" THEN "sent" ELSE call[i]]
  /\ UNCHANGED <<got, visible, executed, alive, trouble>>

-----------------------------------------------------------------------------
(* The server: one process per request.                                    *)

\* ubus_request for the next call of a request: access first, then the call.
Serve(x) ==
  /\ Working(x)
  /\ \E granted \in Verdicts(Head(x.todo)) :
       LET i == Head(x.todo)
       IN  /\ executed' = [executed EXCEPT ![i] = @ + (IF granted THEN 1 ELSE 0)]
           /\ xhrs' = (xhrs \ {x}) \cup
                {[x EXCEPT !.todo = Tail(@),
                           !.replies = Append(@, [id |-> i, granted |-> granted])]}
  /\ UNCHANGED <<browser, visible, alive, trouble>>

\* The call raises an error: the dispatcher answers 500 for the whole request.
ServeFatal(x) ==
  /\ Working(x)
  /\ alive /\ ~Head(x.todo).probe /\ Head(x.todo).for \in Fatal
  /\ executed' = [executed EXCEPT ![Head(x.todo)] = @ + 1]
  /\ xhrs' = (xhrs \ {x}) \cup
       (IF x.open THEN {[x EXCEPT !.leg = "error", !.todo = <<>>]} ELSE {})
  /\ UNCHANGED <<browser, visible, alive, trouble>>

\* The reply is written; nobody may be there to read it.
Respond(x) ==
  /\ x \in xhrs /\ x.leg = "out" /\ x.todo = <<>>
  /\ xhrs' = (xhrs \ {x}) \cup (IF x.open THEN {[x EXCEPT !.leg = "back"]} ELSE {})
  /\ UNCHANGED <<browser, visible, executed, alive, trouble>>

EndSession ==
  /\ alive
  /\ alive' = FALSE
  /\ UNCHANGED <<browser, visible, xhrs, executed, trouble>>

-----------------------------------------------------------------------------
(* The reply.                                                              *)

\* The reply a call of x is given: the one at its position, if there is one.
ReplyTo(x, i) ==
  LET k == CHOOSE k \in DOMAIN x.ids : x.ids[k] = i
  IN  IF x.leg = "back" /\ k \in DOMAIN x.replies
      THEN x.replies[k] ELSE [id |-> Nobody, granted |-> FALSE]

\* What becomes of the call i when the outcome of x is known: a denied call
\* asks first, and is rejected whatever its probe brings.
Outcome(x, i) ==
  LET reply == ReplyTo(x, i)
      asks(c) == Id(c) \in Within(x) /\ LET r == ReplyTo(x, Id(c))
                                        IN  r.id # Nobody /\ ~r.granted
  IN  IF i \in Within(x)
      THEN IF reply.granted THEN "resolved"
           ELSE IF ~i.probe /\ asks(i.for) THEN "asking" ELSE "rejected"
      ELSE IF ~i.probe /\ Probe(i.for) \in Within(x) THEN "rejected"
      ELSE IF i.probe /\ asks(i.for) THEN "queued"
      ELSE call[i]

\* The denied calls, by their position, and their probes in the same order.
Asking(x) == {k \in DOMAIN x.ids : Outcome(x, x.ids[k]) = "asking"}
InOrder(S) == CHOOSE s \in [1 .. Cardinality(S) -> S] :
                \A j, k \in DOMAIN s : j < k => s[j] < s[k]
Probes(x) == LET s == InOrder(Asking(x))
             IN  [j \in DOMAIN s |-> Probe(x.ids[s[j]].for)]

\* The handlers of the batch settle its calls in order.
Deliver(x) ==
  /\ call' = [i \in Ids |-> Outcome(x, i)]
  /\ got' = [i \in Ids |-> IF i \in Within(x) THEN ReplyTo(x, i).id ELSE got[i]]
  /\ queue' = queue \o Probes(x)
  /\ frame' = (frame \/ Asking(x) # {})
  /\ trouble' = (trouble \/ x.leg = "error")
  /\ UNCHANGED <<visible, executed, alive>>

Receive(x) ==
  /\ x \in xhrs /\ x.open /\ x.leg \in {"back", "error"}
  /\ xhrs' = xhrs \ {x}
  /\ Deliver(x)

\* The request times out or breaks; the server may not notice.
Lose(x) ==
  /\ MayLose
  /\ x \in xhrs /\ x.open
  /\ xhrs' = (xhrs \ {x}) \cup
       (IF x.leg = "out" THEN {[x EXCEPT !.open = FALSE]} ELSE {})
  /\ Deliver([x EXCEPT !.leg = "error"])

HideTab ==
  /\ visible /\ visible' = FALSE
  /\ UNCHANGED <<browser, xhrs, executed, alive, trouble>>

ShowTab ==
  /\ ~visible /\ visible' = TRUE
  /\ UNCHANGED <<browser, xhrs, executed, alive, trouble>>

\* The caller is done with the outcome.
Forget(c) ==
  /\ call[Id(c)] \in Settled
  /\ call' = [call EXCEPT ![Id(c)] = "idle", ![Probe(c)] = "idle"]
  /\ got' = [got EXCEPT ![Id(c)] = Nobody, ![Probe(c)] = Nobody]
  /\ executed' = [i \in Ids |-> IF i.for = c /\ ~UnderWay(i) THEN 0 ELSE executed[i]]
  /\ UNCHANGED <<queue, frame, visible, xhrs, alive, trouble>>

-----------------------------------------------------------------------------
(* Properties.                                                             *)

\* A call that resolves was carried out, exactly once, and the data it
\* resolves with is its own, however many calls shared the request.
RightReply ==
  \A i \in Ids : call[i] = "resolved" => got[i] = i /\ executed[i] = 1

\* No call is carried out twice, also when its request was given up.
AtMostOnce == \A i \in Ids : executed[i] <= 1
=============================================================================
