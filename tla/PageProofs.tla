---------------------------- MODULE PageProofs ------------------------------
(***************************************************************************)
(* Proofs about Page, for any functions, intervals, effects, access rights *)
(* and numbers of events.  First the poll loop: the header does not lie,   *)
(* a pause lasts, no function is passed by.  Then the calls: whatever is   *)
(* batched, denied, lost or given up, each call is given its own reply,    *)
(* none is carried out twice and none is forgotten.                        *)
(***************************************************************************)
EXTENDS Page, FiniteSets, FiniteSetTheorems, WellFoundedInduction, TLAPS

-----------------------------------------------------------------------------
(* The poll loop.                                                          *)

Steps == [at : Nat \ {0}, by : {"timer", "start"}, cut : BOOLEAN]

\* What is relied on of the loop, whatever is in its queue.
LoopInv ==
  /\ {timer, missed, flow, wasPolling, held} \subseteq BOOLEAN
  /\ dialogs \in Nat
  /\ loop \in Steps \cup {Poll!NotStepping}
  /\ Poll!Idle \/ loop.by = "timer" =>
       (~missed /\ indicator # "none" => (timer <=> indicator = "refreshing"))

\* Only a dialog that found the loop running starts a paused one, and no
\* dialog comes after the one that did.
HeldInv ==
  /\ held => Poll!Idle /\ ~timer /\ tick = Poll!Undefined /\ indicator # "none"
  /\ flow \/ wasPolling => dialogs >= 1
  /\ flow => modal # "none"
  /\ held /\ wasPolling => ~flow

LEMMA StepsMove ==
  /\ Poll!NotStepping \notin Steps
  /\ \A l \in Steps : /\ [l EXCEPT !.at = @ + 1] \in Steps
                      /\ [l EXCEPT !.at = @ + 1].by = l.by
  /\ \A l \in Steps : /\ [l EXCEPT !.cut = TRUE] \in Steps
                      /\ [l EXCEPT !.cut = TRUE].by = l.by
<1>1. Poll!NotStepping \notin Steps
  BY DEF Steps, Poll!NotStepping
<1>2. ASSUME NEW l \in Steps
      PROVE  /\ [l EXCEPT !.at = @ + 1] \in Steps
             /\ [l EXCEPT !.at = @ + 1].by = l.by
  BY DEF Steps
<1>3. ASSUME NEW l \in Steps
      PROVE  /\ [l EXCEPT !.cut = TRUE] \in Steps
             /\ [l EXCEPT !.cut = TRUE].by = l.by
  BY DEF Steps
<1>. QED
  BY <1>1, <1>2, <1>3

LEMMA FirstSteps ==
  \A caller \in {"timer", "start"} :
    /\ Poll!Stepping(caller) \in Steps
    /\ Poll!Stepping(caller).by = caller
BY DEF Steps, Poll!Stepping

\* What the methods that start and stop the loop preserve.
LEMMA StartKeepsLoop ==
  ASSUME LoopInv, NEW q, Poll!Idle, Poll!Start(q),
         {flow', wasPolling', held'} \subseteq BOOLEAN, dialogs' \in Nat
  PROVE  LoopInv'
BY StepsMove, FirstSteps DEF LoopInv, Poll!Idle, Poll!Start

LEMMA StopKeepsLoop ==
  ASSUME LoopInv, NEW t, Poll!StopAt(t), UNCHANGED loop,
         {flow', wasPolling', held'} \subseteq BOOLEAN, dialogs' \in Nat
  PROVE  LoopInv'
BY DEF LoopInv, Poll!Idle, Poll!StopAt

\* What a step of the page does to the loop.
LEMMA PollSteps ==
  ASSUME [Next]_vars
  PROVE  \/ UNCHANGED pollVars
         \/ \E effect, f, i : Poll!CallEntry(effect, f, i)
         \/ Poll!PageReady \/ Poll!IntervalFires \/ Poll!SkipEntry \/ Poll!EndStep
         \/ \E f : Poll!Remove(f) \/ \E i : Poll!Add(f, i)
         \/ Poll!Click \/ Poll!ShowStatus \/ Poll!HideStatus \/ Poll!Expire
         \/ \E k : Poll!Settle(k)
BY DEF Next, vars, CallEntry, Step, Act, Settle, Handle, Server, Flush, Outside

LEMMA LoopStep ==
  ASSUME LoopInv, [Next]_vars
  PROVE  LoopInv'
<1>. USE DEF LoopInv, Poll!Idle, Poll!dialogVars
<1>1. CASE UNCHANGED pollVars
  BY <1>1 DEF pollVars
<1>2. ASSUME NEW effect, NEW f, NEW i, Poll!CallEntry(effect, f, i)
      PROVE  LoopInv'
  <2>. DEFINE next == [loop EXCEPT !.at = @ + 1]
              cut == [next EXCEPT !.cut = TRUE]
  <2>1. /\ loop \in Steps /\ next \in Steps /\ next.by = loop.by
        /\ cut \in Steps /\ cut.by = loop.by
        /\ UNCHANGED <<flow, wasPolling, held, dialogs>>
    BY <1>2, StepsMove DEF Poll!CallEntry
  <2>2. CASE loop' = next /\ UNCHANGED <<timer, indicator, missed>>
    BY <2>1, <2>2, StepsMove
  <2>3. CASE /\ loop' = Poll!NotStepping
             /\ missed' = (missed \/ loop.by = "start")
             /\ UNCHANGED <<timer, indicator>>
    <3>1. missed' \in BOOLEAN /\ (~missed' => ~missed /\ loop.by # "start")
      BY <2>3
    <3>. QED
      BY <2>1, <2>3, <3>1, StepsMove DEF Steps
  <2>4. CASE loop' = cut /\ UNCHANGED <<timer, indicator, missed>>
    BY <2>1, <2>4, StepsMove
  <2>5. CASE loop' = cut /\ Poll!StopAt(0)
    BY <2>1, <2>5, StepsMove DEF Poll!StopAt
  <2>6. CASE loop' = next /\ Poll!StopAt(Poll!Undefined)
    BY <2>1, <2>6, StepsMove DEF Poll!StopAt
  <2>. QED
    BY <1>2, <2>2, <2>3, <2>4, <2>5, <2>6 DEF Poll!CallEntry, Poll!Stop
<1>3. CASE Poll!PageReady
  BY <1>3, StartKeepsLoop DEF Poll!PageReady
<1>a. CASE Poll!IntervalFires
  BY <1>a, StepsMove, FirstSteps DEF Poll!IntervalFires
<1>b. CASE Poll!SkipEntry
  BY <1>b, StepsMove DEF Poll!SkipEntry
<1>c. CASE Poll!EndStep
  <2>1. loop' = Poll!NotStepping /\ loop \in Steps
        /\ UNCHANGED <<timer, flow, wasPolling, held, dialogs>>
    BY <1>c DEF Poll!EndStep
  <2>2. CASE loop.by = "start"
    <3>1. indicator' = "refreshing" /\ missed' = ~timer
      BY <1>c, <2>2 DEF Poll!EndStep
    <3>. QED
      BY <2>1, <3>1
  <2>3. CASE loop.by # "start"
    <3>1. UNCHANGED <<indicator, missed>> /\ loop.by = "timer"
      BY <1>c, <2>1, <2>3 DEF Poll!EndStep, Steps
    <3>. QED
      BY <2>1, <3>1
  <2>. QED
    BY <2>2, <2>3
<1>4. ASSUME NEW f, Poll!Remove(f) \/ \E i : Poll!Add(f, i)
      PROVE  LoopInv'
  BY <1>4, StartKeepsLoop, StopKeepsLoop
  DEF Poll!Remove, Poll!RemoveFrom, Poll!Add, Poll!AddTo, Poll!polling
<1>5. CASE Poll!Click
  BY <1>5, StartKeepsLoop, StopKeepsLoop DEF Poll!Click, Poll!Stop, Poll!dialogVars
<1>d. CASE Poll!ShowStatus
  BY <1>d, StopKeepsLoop DEF Poll!ShowStatus, Poll!Stop
<1>e. CASE Poll!HideStatus
  BY <1>e, StartKeepsLoop DEF Poll!HideStatus, Poll!polling
<1>f. CASE Poll!Expire
  BY <1>f, StopKeepsLoop DEF Poll!Expire, Poll!Stop
<1>6. ASSUME NEW k, Poll!Settle(k)
      PROVE  LoopInv'
  BY <1>6 DEF Poll!Settle
<1>. QED
  BY <1>1, <1>2, <1>3, <1>4, <1>5, <1>6, <1>a, <1>b, <1>c, <1>d, <1>e, <1>f, PollSteps

LEMMA HeldStep ==
  ASSUME MaxDialogs <= 1, LoopInv, HeldInv, [Next]_vars
  PROVE  HeldInv'
<1>. USE PollAssumption DEF LoopInv, HeldInv, Poll!Idle, Poll!dialogVars, Poll!Undefined
<1>1. CASE UNCHANGED pollVars
  BY <1>1 DEF pollVars
<1>2. CASE \/ \E effect, f, i : Poll!CallEntry(effect, f, i)
           \/ Poll!SkipEntry \/ Poll!EndStep
  <2>1. ~held /\ UNCHANGED <<flow, wasPolling, held, dialogs, modal>>
    BY <1>2 DEF Poll!CallEntry, Poll!SkipEntry, Poll!EndStep
  <2>. QED
    BY <2>1
<1>a. CASE Poll!IntervalFires
  <2>1. ~held /\ UNCHANGED <<flow, wasPolling, held, dialogs, modal>>
    BY <1>a DEF Poll!IntervalFires
  <2>. QED
    BY <2>1
<1>3. CASE Poll!PageReady
  BY <1>3 DEF Poll!PageReady, Poll!Start
<1>4. ASSUME NEW f, Poll!Remove(f)
      PROVE  HeldInv'
  <2>1. UNCHANGED <<loop, flow, wasPolling, held, dialogs, modal>>
    BY <1>4 DEF Poll!Remove
  <2>2. ~timer => UNCHANGED <<timer, tick, indicator>>
    BY <1>4 DEF Poll!Remove, Poll!RemoveFrom, Poll!StopAt
  <2>. QED
    BY <2>1, <2>2
<1>b. ASSUME NEW f, NEW i, Poll!Add(f, i)
      PROVE  HeldInv'
  <2>1. UNCHANGED <<flow, wasPolling, held, dialogs, modal>>
    BY <1>b DEF Poll!Add
  <2>2. tick = Poll!Undefined => UNCHANGED <<loop, timer, tick, indicator>>
    BY <1>b DEF Poll!Add, Poll!AddTo, Poll!polling
  <2>. QED
    BY <2>1, <2>2
<1>5. CASE Poll!Click
  BY <1>5 DEF Poll!Click, Poll!Stop, Poll!StopAt, Poll!Start
<1>6. CASE Poll!ShowStatus
  <2>1. /\ flow \/ dialogs < MaxDialogs
        /\ modal' = "status" /\ flow' = TRUE
        /\ dialogs' = IF flow THEN dialogs ELSE dialogs + 1
        /\ UNCHANGED <<queue, loop, held>>
    BY <1>6 DEF Poll!ShowStatus
  <2>2. CASE wasPolling
    <3>1. UNCHANGED <<wasPolling, timer, tick, indicator>>
      BY <1>6, <2>2 DEF Poll!ShowStatus
    <3>. QED
      BY <2>1, <2>2, <3>1
  <2>3. CASE ~wasPolling
    <3>1. wasPolling' = timer /\ Poll!StopAt(Poll!Undefined)
      BY <1>6, <2>3 DEF Poll!ShowStatus, Poll!Stop
    <3>2. held => timer' = timer /\ tick' = tick /\ indicator' = indicator
      BY <3>1 DEF Poll!StopAt
    <3>. QED
      BY <2>1, <2>3, <3>1, <3>2
  <2>. QED
    BY <2>2, <2>3
<1>7. CASE Poll!HideStatus
  BY <1>7 DEF Poll!HideStatus, Poll!Start, Poll!polling
<1>8. CASE Poll!Expire
  BY <1>8 DEF Poll!Expire, Poll!Stop, Poll!StopAt
<1>9. ASSUME NEW k, Poll!Settle(k)
      PROVE  HeldInv'
  BY <1>9 DEF Poll!Settle
<1>. QED
  BY <1>1, <1>2, <1>3, <1>4, <1>5, <1>6, <1>7, <1>8, <1>9, <1>a, <1>b, PollSteps

LEMMA PollStart == Init => LoopInv /\ HeldInv
<1>1. Init => LoopInv
  <2>. SUFFICES ASSUME Init PROVE LoopInv
    OBVIOUS
  <2>1. ~timer /\ ~missed /\ ~flow /\ ~wasPolling /\ ~held
        /\ {timer, missed, flow, wasPolling, held} \subseteq BOOLEAN
    BY DEF Init, Poll!Init
  <2>2. dialogs = 0 /\ loop = Poll!NotStepping /\ indicator = "none"
    BY DEF Init, Poll!Init
  <2>. QED
    BY <2>1, <2>2 DEF LoopInv
<1>2. Init => HeldInv
  BY DEF Init, Poll!Init, HeldInv
<1>. QED
  BY <1>1, <1>2

-----------------------------------------------------------------------------
(* The queue of the poll loop.                                             *)

\* No function is in it twice.
IsQueue(q) ==
  /\ q \in Seq(Poll!Entries)
  /\ \A j, k \in DOMAIN q : q[j].fn = q[k].fn => j = k

PollTypes ==
  /\ IsQueue(queue)
  /\ loop \in Steps => loop.at <= Len(queue) + 2
  /\ tick \in {Poll!Undefined, Poll!NaN} \cup 0 .. Cycle - 1
  /\ indicator \in {"none", "refreshing", "paused"}
  /\ modal \in {"none", "status", "expired"}
  /\ dialogs \in 0 .. MaxDialogs

LEMMA EntryFacts ==
  /\ \A e \in Poll!Entries : e.fn \in Fns
  /\ \A e \in Poll!Entries, r \in {Poll!Ready, Poll!Pending, Poll!Dead} :
       /\ [e EXCEPT !.r = r] \in Poll!Entries
       /\ [e EXCEPT !.r = r].fn = e.fn /\ [e EXCEPT !.r = r].r = r
  /\ \A f \in Fns, i \in Intervals :
       /\ [fn |-> f, i |-> i, r |-> Poll!Ready] \in Poll!Entries
       /\ [fn |-> f, i |-> i, r |-> Poll!Ready].fn = f
BY DEF Poll!Entries

LEMMA MarkedQueue ==
  ASSUME NEW q, IsQueue(q), NEW n \in DOMAIN q,
         NEW r \in {Poll!Ready, Poll!Pending, Poll!Dead}
  PROVE  LET m == [q EXCEPT ![n].r = r]
         IN  /\ IsQueue(m) /\ DOMAIN m = DOMAIN q /\ Len(m) = Len(q)
             /\ m[n].r = r
             /\ \A k \in DOMAIN q : m[k].fn = q[k].fn /\ (k # n => m[k] = q[k])
<1>0. PICK d : d = q[n]
  OBVIOUS
<1>1. PICK e : e = [d EXCEPT !.r = r]
  OBVIOUS
<1>2. d \in Poll!Entries
  BY <1>0 DEF IsQueue
<1>3. e \in Poll!Entries /\ e.fn = d.fn /\ e.r = r
  BY <1>1, <1>2, EntryFacts
<1>4. PICK m : m = [q EXCEPT ![n] = e]
  OBVIOUS
<1>5. m = [q EXCEPT ![n].r = r]
  BY <1>0, <1>1, <1>4
<1>6. q \in Seq(Poll!Entries) /\ \A j, k \in DOMAIN q : q[j].fn = q[k].fn => j = k
  BY DEF IsQueue
<1>7. m \in Seq(Poll!Entries) /\ DOMAIN m = DOMAIN q /\ Len(m) = Len(q)
  BY <1>3, <1>4, <1>6
<1>8. m[n] = e /\ \A k \in DOMAIN q : k # n => m[k] = q[k]
  BY <1>4, <1>6
<1>9. \A k \in DOMAIN q : m[k].fn = q[k].fn
  BY <1>0, <1>3, <1>8
<1>a. IsQueue(m)
  BY <1>6, <1>7, <1>9 DEF IsQueue
<1>. QED
  BY <1>3, <1>5, <1>7, <1>8, <1>9, <1>a

LEMMA LongerQueue ==
  ASSUME NEW q, IsQueue(q), NEW f \in Fns, NEW i \in Intervals,
         f \notin Poll!Registered(q)
  PROVE  LET m == Append(q, [fn |-> f, i |-> i, r |-> Poll!Ready])
         IN  /\ IsQueue(m) /\ Len(m) = Len(q) + 1
             /\ \A k \in DOMAIN m : m[k].r = Poll!Ready \/ (k \in DOMAIN q /\ m[k] = q[k])
             /\ \A k \in DOMAIN q : m[k] = q[k]
<1>1. PICK e : e = [fn |-> f, i |-> i, r |-> Poll!Ready]
  OBVIOUS
<1>2. e \in Poll!Entries /\ e.fn = f /\ e.r = Poll!Ready
  BY <1>1, EntryFacts
<1>3. PICK m : m = Append(q, e)
  OBVIOUS
<1>4. q \in Seq(Poll!Entries) /\ \A j, k \in DOMAIN q : q[j].fn = q[k].fn => j = k
  BY DEF IsQueue
<1>5. m \in Seq(Poll!Entries) /\ Len(m) = Len(q) + 1 /\ Len(q) \in Nat
      /\ DOMAIN q = 1 .. Len(q) /\ DOMAIN m = 1 .. Len(m)
  BY <1>2, <1>3, <1>4
<1>6. m[Len(q) + 1] = e /\ \A k \in DOMAIN q : m[k] = q[k]
  BY <1>2, <1>3, <1>4, <1>5
<1>7. \A k \in DOMAIN m : k \in DOMAIN q \/ k = Len(q) + 1
  BY <1>5
<1>8. \A k \in DOMAIN q : q[k].fn # f
  BY DEF Poll!Registered
<1>9. IsQueue(m)
  <2>1. \A j, k \in DOMAIN m : m[j].fn = m[k].fn => j = k
    BY <1>2, <1>4, <1>6, <1>7, <1>8
  <2>. QED
    BY <1>5, <2>1 DEF IsQueue
<1>. QED
  BY <1>1, <1>2, <1>3, <1>5, <1>6, <1>7, <1>9

LEMMA ShorterQueue ==
  ASSUME NEW q, IsQueue(q), NEW f
  PROVE  LET m == Poll!Without(q, f)
         IN  /\ IsQueue(m) /\ Len(m) >= Len(q) - 1 /\ (q # <<>> => Len(m) + 1 >= 1)
             /\ \A k \in DOMAIN m : \E j \in DOMAIN q : m[k] = q[j]
<1>1. /\ q \in Seq(Poll!Entries) /\ Len(q) \in Nat /\ DOMAIN q = 1 .. Len(q)
      /\ \A j, k \in DOMAIN q : q[j].fn = q[k].fn => j = k
  BY DEF IsQueue
<1>2. CASE f \notin Poll!Registered(q)
  BY <1>1, <1>2 DEF Poll!Without
<1>3. CASE f \in Poll!Registered(q)
  <2>1. PICK a : a = CHOOSE k \in DOMAIN q : q[k].fn = f
    OBVIOUS
  <2>2. a \in DOMAIN q
    BY <1>3, <2>1 DEF Poll!Registered
  <2>3. PICK n \in Nat : n = Len(q)
    BY <1>1
  <2>4. PICK m : m = [k \in 1 .. n - 1 |-> q[IF k < a THEN k ELSE k + 1]]
    OBVIOUS
  <2>5. m = Poll!Without(q, f)
    BY <1>3, <2>1, <2>3, <2>4 DEF Poll!Without
  <2>6. n - 1 \in Nat /\ a \in 1 .. n /\ DOMAIN q = 1 .. n
    BY <1>1, <2>2, <2>3
  <2>7. \A k \in 1 .. n - 1 : /\ (IF k < a THEN k ELSE k + 1) \in 1 .. n
    BY <2>6
  <2>8. \A k \in 1 .. n - 1 : m[k] = q[IF k < a THEN k ELSE k + 1]
    BY <2>4
  <2>9. \A k \in 1 .. n - 1 : m[k] \in Poll!Entries
    BY <1>1, <2>6, <2>7, <2>8
  <2>a. DOMAIN m = 1 .. n - 1 /\ m \in Seq(Poll!Entries) /\ Len(m) = n - 1
    <3>1. m \in [1 .. n - 1 -> Poll!Entries]
      BY <2>4, <2>9
    <3>. QED
      BY <2>6, <3>1
  <2>b. \A j, k \in 1 .. n - 1 : m[j].fn = m[k].fn => j = k
    <3>. SUFFICES ASSUME NEW j \in 1 .. n - 1, NEW k \in 1 .. n - 1, m[j].fn = m[k].fn
                  PROVE  j = k
      OBVIOUS
    <3>1. PICK b \in 1 .. n : b = IF j < a THEN j ELSE j + 1
      BY <2>7
    <3>2. PICK d \in 1 .. n : d = IF k < a THEN k ELSE k + 1
      BY <2>7
    <3>3. q[b].fn = q[d].fn
      BY <2>8, <3>1, <3>2
    <3>4. b = d
      BY <1>1, <2>6, <3>3
    <3>. QED
      BY <2>6, <3>1, <3>2, <3>4
  <2>c. IsQueue(m)
    BY <2>a, <2>b DEF IsQueue
  <2>. QED
    BY <2>3, <2>5, <2>6, <2>7, <2>8, <2>a, <2>c
<1>. QED
  BY <1>2, <1>3

\* What a step of the page does to the loop, with what it is given.
LEMMA PollStepsTyped ==
  ASSUME [Next]_vars
  PROVE  \/ UNCHANGED pollVars
         \/ \E effect \in Effects, f \in Fns, i \in Intervals : CallEntry(effect, f, i)
         \/ Poll!PageReady \/ Poll!IntervalFires \/ Poll!SkipEntry \/ Poll!EndStep
         \/ \E f \in Fns : Poll!Remove(f) \/ \E i \in Intervals : Poll!Add(f, i)
         \/ Poll!Click \/ Poll!ShowStatus \/ Poll!HideStatus \/ Poll!Expire
         \/ \E k : Poll!Settle(k)
BY DEF Next, vars, Step, Act, Settle, Handle, Server, Flush, Outside

LEMMA StartKeepsTypes ==
  ASSUME PollTypes, Poll!Idle, NEW q, IsQueue(q), Poll!Start(q),
         modal' \in {"none", "status", "expired"}, dialogs' \in 0 .. MaxDialogs
  PROVE  PollTypes'
<1>1. /\ queue' = q /\ indicator' = indicator
      /\ \/ UNCHANGED <<tick, loop>>
         \/ tick' = 0 /\ (loop' = loop \/ loop' = Poll!Stepping("start"))
  BY DEF Poll!Start
<1>2. loop \notin Steps
  BY StepsMove DEF Poll!Idle
<1>3. Poll!Stepping("start").at = 1 /\ Len(q) \in Nat
  BY DEF Poll!Stepping, IsQueue
<1>4. loop' \in Steps => loop'.at <= Len(queue') + 2
  BY <1>1, <1>2, <1>3
<1>5. 0 \in 0 .. Cycle - 1
  BY PollAssumption
<1>6. tick' \in {Poll!Undefined, Poll!NaN} \cup 0 .. Cycle - 1
  BY <1>1, <1>5 DEF PollTypes
<1>7. IsQueue(queue)'
  BY <1>1 DEF IsQueue
<1>. QED
  BY <1>1, <1>4, <1>6, <1>7 DEF PollTypes

LEMMA StopKeepsTypes ==
  ASSUME PollTypes, IsQueue(queue)', loop' \in Steps => loop'.at <= Len(queue') + 2,
         \/ UNCHANGED <<tick, indicator>>
         \/ Poll!StopAt(0) \/ Poll!StopAt(Poll!Undefined),
         modal' \in {"none", "status", "expired"}, dialogs' \in 0 .. MaxDialogs
  PROVE  PollTypes'
<1>1. 0 \in 0 .. Cycle - 1
  BY PollAssumption
<1>2. tick' \in {tick, 0, Poll!Undefined} /\ indicator' \in {indicator, "paused"}
  BY DEF Poll!StopAt
<1>. QED
  BY <1>1, <1>2 DEF PollTypes

LEMMA PollTypesStep ==
  ASSUME LoopInv, PollTypes, [Next]_vars
  PROVE  PollTypes'
<1>. USE DEF Poll!Idle, Poll!dialogVars
<1>0. /\ IsQueue(queue) /\ Len(queue) \in Nat /\ DOMAIN queue = 1 .. Len(queue)
      /\ modal \in {"none", "status", "expired"} /\ dialogs \in 0 .. MaxDialogs
      /\ Poll!NotStepping \notin Steps
      /\ ~Poll!Idle => loop \in Steps
  BY StepsMove DEF PollTypes, IsQueue, LoopInv
<1>1. CASE UNCHANGED pollVars
  <2>1. UNCHANGED <<queue, loop, tick, indicator, modal, dialogs>>
    BY <1>1 DEF pollVars
  <2>2. IsQueue(queue)'
    BY <1>0, <2>1 DEF IsQueue
  <2>. QED
    BY <1>0, <2>1, <2>2 DEF PollTypes
<1>2. ASSUME NEW effect \in Effects, NEW f \in Fns, NEW i \in Intervals,
             CallEntry(effect, f, i)
      PROVE  PollTypes'
  <2>. DEFINE n == loop.at
              called == [queue EXCEPT ![n].r = Poll!Pending]
              next == [loop EXCEPT !.at = @ + 1]
              cut == [next EXCEPT !.cut = TRUE]
  <2>1. /\ loop \in Steps /\ n \in 1 .. Len(queue)
        /\ next \in Steps /\ next.at = n + 1
        /\ cut \in Steps /\ cut.at = n + 1
    <3>1. ~Poll!Idle /\ n <= Len(queue) /\ loop \in Steps
      BY <1>0, <1>2 DEF CallEntry, Poll!CallEntry
    <3>2. n \in Nat \ {0} /\ next.at = n + 1 /\ next \in Steps
      BY <3>1 DEF Steps
    <3>3. cut \in Steps /\ cut.at = next.at
      BY <3>2, StepsMove DEF Steps
    <3>. QED
      BY <1>0, <3>1, <3>2, <3>3
  <2>2. UNCHANGED <<modal, dialogs>>
    BY <1>2 DEF CallEntry, Poll!CallEntry
  <2>3. IsQueue(called) /\ Len(called) = Len(queue)
    <3>1. Poll!Pending \in {Poll!Ready, Poll!Pending, Poll!Dead} /\ n \in DOMAIN queue
      BY <1>0, <2>1
    <3>. HIDE DEF n
    <3>. QED
      BY <1>0, <3>1, MarkedQueue
  <2>4. \/ /\ queue' = called /\ loop' = next
           /\ UNCHANGED <<tick, indicator>> \/ Poll!StopAt(Poll!Undefined)
        \/ /\ queue' = [queue EXCEPT ![n].r = Poll!Dead] /\ loop' = Poll!NotStepping
           /\ UNCHANGED <<tick, indicator>>
        \/ /\ queue' = Poll!Without(called, f) /\ loop' = cut
           /\ UNCHANGED <<tick, indicator>> \/ Poll!StopAt(0)
        \/ /\ queue' = Append(called, [fn |-> f, i |-> i, r |-> Poll!Ready]) /\ loop' = next
           /\ f \notin Poll!Registered(queue)
           /\ UNCHANGED <<tick, indicator>>
    BY <1>2 DEF CallEntry, Poll!CallEntry, Poll!Stop
  <2>5. CASE queue' = called /\ loop' = next
             /\ (UNCHANGED <<tick, indicator>> \/ Poll!StopAt(Poll!Undefined))
    <3>1. IsQueue(queue)' /\ Len(queue') = Len(queue) /\ loop'.at <= Len(queue') + 2
      <4>. HIDE DEF called, next, n
      <4>1. IsQueue(queue)'
        BY <2>3, <2>5 DEF IsQueue
      <4>. QED
        BY <1>0, <2>1, <2>3, <2>5, <4>1
    <3>. QED
      BY <1>0, <2>2, <2>5, <3>1, StopKeepsTypes
  <2>6. CASE queue' = [queue EXCEPT ![n].r = Poll!Dead] /\ loop' = Poll!NotStepping
             /\ UNCHANGED <<tick, indicator>>
    <3>1. Poll!Dead \in {Poll!Ready, Poll!Pending, Poll!Dead} /\ n \in DOMAIN queue
      BY <1>0, <2>1
    <3>. HIDE DEF n
    <3>2. PICK m : m = [queue EXCEPT ![n].r = Poll!Dead]
      OBVIOUS
    <3>3. IsQueue(m)
      BY <1>0, <3>1, <3>2, MarkedQueue
    <3>4. IsQueue(queue)'
      BY <2>6, <3>2, <3>3 DEF IsQueue
    <3>. QED
      BY <1>0, <2>2, <2>6, <3>4, StopKeepsTypes
  <2>7. CASE queue' = Poll!Without(called, f) /\ loop' = cut
             /\ (UNCHANGED <<tick, indicator>> \/ Poll!StopAt(0))
    <3>. HIDE DEF called, cut, next, n
    <3>1. PICK m : m = Poll!Without(called, f)
      OBVIOUS
    <3>2. IsQueue(m) /\ Len(m) >= Len(called) - 1 /\ Len(m) \in Nat
      <4>1. IsQueue(m) /\ Len(m) >= Len(called) - 1
        BY <2>3, <3>1, ShorterQueue
      <4>. QED
        BY <4>1 DEF IsQueue
    <3>3. IsQueue(queue)' /\ queue' = m
      BY <2>7, <3>1, <3>2 DEF IsQueue
    <3>4. loop'.at <= Len(queue') + 2
      BY <1>0, <2>1, <2>3, <2>7, <3>2, <3>3
    <3>. QED
      BY <1>0, <2>2, <2>7, <3>3, <3>4, StopKeepsTypes
  <2>8. CASE queue' = Append(called, [fn |-> f, i |-> i, r |-> Poll!Ready]) /\ loop' = next
             /\ f \notin Poll!Registered(queue)
             /\ UNCHANGED <<tick, indicator>>
    <3>1. f \notin Poll!Registered(called)
      <4>1. Poll!Pending \in {Poll!Ready, Poll!Pending, Poll!Dead} /\ n \in DOMAIN queue
        BY <1>0, <2>1
      <4>. HIDE DEF n
      <4>2. DOMAIN called = DOMAIN queue /\ \A k \in DOMAIN queue : called[k].fn = queue[k].fn
        BY <1>0, <4>1, MarkedQueue
      <4>. HIDE DEF called
      <4>. QED
        BY <2>8, <4>2 DEF Poll!Registered
    <3>. HIDE DEF called, next, n
    <3>2. PICK m : m = Append(called, [fn |-> f, i |-> i, r |-> Poll!Ready])
      OBVIOUS
    <3>3. IsQueue(m) /\ Len(m) = Len(called) + 1
      BY <2>3, <3>1, <3>2, LongerQueue
    <3>4. IsQueue(queue)' /\ queue' = m
      BY <2>8, <3>2, <3>3 DEF IsQueue
    <3>5. loop'.at <= Len(queue') + 2
      BY <1>0, <2>1, <2>3, <2>8, <3>3, <3>4
    <3>. QED
      BY <1>0, <2>2, <2>8, <3>4, <3>5, StopKeepsTypes
  <2>. QED
    BY <2>4, <2>5, <2>6, <2>7, <2>8
<1>3. CASE Poll!PageReady
  BY <1>0, <1>3, StartKeepsTypes DEF Poll!PageReady
<1>4. CASE Poll!IntervalFires
  <2>1. /\ loop'.at = 1 /\ UNCHANGED <<queue, tick, indicator, modal, dialogs>>
    BY <1>4 DEF Poll!IntervalFires, Poll!Stepping
  <2>. QED
    BY <1>0, <2>1 DEF PollTypes, IsQueue
<1>5. CASE Poll!SkipEntry
  <2>1. /\ loop \in Steps /\ loop.at <= Len(queue) /\ loop'.at = loop.at + 1
        /\ UNCHANGED <<queue, tick, indicator, modal, dialogs>>
    BY <1>0, <1>5 DEF Poll!SkipEntry, Steps
  <2>2. loop'.at <= Len(queue') + 2
    BY <1>0, <2>1 DEF Steps
  <2>. QED
    BY <1>0, <2>1, <2>2 DEF PollTypes, IsQueue
<1>6. CASE Poll!EndStep
  <2>1. /\ loop' \notin Steps /\ UNCHANGED <<queue, modal, dialogs>>
        /\ tick' = (IF tick < 0 THEN Poll!NaN ELSE (tick + 1) % Cycle)
        /\ indicator' \in {indicator, "refreshing"}
    BY <1>0, <1>6 DEF Poll!EndStep
  <2>2. \A t \in Nat : t % Cycle \in 0 .. Cycle - 1
    BY PollAssumption
  <2>3. tick' \in {Poll!Undefined, Poll!NaN} \cup 0 .. Cycle - 1
    BY PollAssumption, <2>1, <2>2 DEF PollTypes, Poll!Undefined, Poll!NaN
  <2>. QED
    BY <1>0, <2>1, <2>3 DEF PollTypes, IsQueue
<1>7. ASSUME NEW f \in Fns, Poll!Remove(f)
      PROVE  PollTypes'
  <2>1. /\ Poll!Idle /\ queue' = Poll!Without(queue, f)
        /\ UNCHANGED <<tick, indicator>> \/ Poll!StopAt(0)
        /\ UNCHANGED <<loop, modal, dialogs>>
    BY <1>7 DEF Poll!Remove, Poll!RemoveFrom
  <2>2. IsQueue(queue)'
    <3>1. PICK m : m = Poll!Without(queue, f)
      OBVIOUS
    <3>2. IsQueue(m)
      BY <1>0, <3>1, ShorterQueue
    <3>. QED
      BY <2>1, <3>1, <3>2 DEF IsQueue
  <2>. QED
    BY <1>0, <2>1, <2>2, StopKeepsTypes
<1>8. ASSUME NEW f \in Fns, NEW i \in Intervals, Poll!Add(f, i)
      PROVE  PollTypes'
  <2>1. PICK m : m = Append(queue, [fn |-> f, i |-> i, r |-> Poll!Ready])
    OBVIOUS
  <2>2. /\ Poll!Idle /\ UNCHANGED <<modal, dialogs>>
        /\ \/ UNCHANGED <<queue, tick, indicator, loop>>
           \/ f \notin Poll!Registered(queue) /\ Poll!Start(m)
           \/ /\ f \notin Poll!Registered(queue) /\ queue' = m
              /\ UNCHANGED <<tick, indicator, loop>>
    BY <1>8, <2>1 DEF Poll!Add, Poll!AddTo, Poll!polling
  <2>3. CASE UNCHANGED <<queue, tick, indicator, loop>>
    BY <1>0, <2>2, <2>3 DEF PollTypes, IsQueue
  <2>4. CASE f \notin Poll!Registered(queue) /\ Poll!Start(m)
    <3>1. IsQueue(m)
      BY <1>0, <2>1, <2>4, LongerQueue
    <3>. QED
      BY <1>0, <2>2, <2>4, <3>1, StartKeepsTypes
  <2>5. CASE /\ f \notin Poll!Registered(queue) /\ queue' = m
             /\ UNCHANGED <<tick, indicator, loop>>
    <3>1. IsQueue(m)
      BY <1>0, <2>1, <2>5, LongerQueue
    <3>2. IsQueue(queue)'
      BY <2>5, <3>1 DEF IsQueue
    <3>. QED
      BY <1>0, <2>2, <2>5, <3>2, StopKeepsTypes
  <2>. QED
    BY <2>2, <2>3, <2>4, <2>5
<1>9. CASE Poll!Click
  <2>1. /\ Poll!Idle /\ UNCHANGED <<modal, dialogs>>
        /\ Poll!Start(queue) \/ (Poll!StopAt(Poll!Undefined) /\ UNCHANGED <<queue, loop>>)
    BY <1>9 DEF Poll!Click, Poll!Stop
  <2>2. CASE Poll!Start(queue)
    BY <1>0, <2>1, <2>2, StartKeepsTypes
  <2>3. CASE Poll!StopAt(Poll!Undefined) /\ UNCHANGED <<queue, loop>>
    <3>1. IsQueue(queue)'
      BY <1>0, <2>3 DEF IsQueue
    <3>. QED
      BY <1>0, <2>1, <2>3, <3>1, StopKeepsTypes
  <2>. QED
    BY <2>1, <2>2, <2>3
<1>a. CASE Poll!ShowStatus
  <2>1. /\ Poll!Idle /\ modal' = "status" /\ dialogs' \in {dialogs, dialogs + 1}
        /\ dialogs' # dialogs => dialogs < MaxDialogs
        /\ UNCHANGED <<tick, indicator>> \/ Poll!StopAt(Poll!Undefined)
        /\ UNCHANGED <<queue, loop>>
    BY <1>a DEF Poll!ShowStatus, Poll!Stop
  <2>2. dialogs' \in 0 .. MaxDialogs
    BY <1>0, <2>1, PollAssumption
  <2>3. IsQueue(queue)'
    BY <1>0, <2>1 DEF IsQueue
  <2>. QED
    BY <1>0, <2>1, <2>2, <2>3, StopKeepsTypes
<1>b. CASE Poll!HideStatus
  <2>1. /\ Poll!Idle /\ modal' = "none" /\ dialogs' = dialogs
        /\ Poll!Start(queue) \/ UNCHANGED <<queue, tick, indicator, loop>>
    BY <1>b DEF Poll!HideStatus, Poll!polling
  <2>2. CASE Poll!Start(queue)
    BY <1>0, <2>1, <2>2, StartKeepsTypes
  <2>3. CASE UNCHANGED <<queue, tick, indicator, loop>>
    BY <1>0, <2>1, <2>3 DEF PollTypes, IsQueue
  <2>. QED
    BY <2>1, <2>2, <2>3
<1>c. CASE Poll!Expire
  <2>1. /\ Poll!Idle /\ modal' = "expired" /\ UNCHANGED <<queue, loop, dialogs>>
        /\ Poll!StopAt(Poll!Undefined)
    BY <1>c DEF Poll!Expire, Poll!Stop
  <2>2. IsQueue(queue)'
    BY <1>0, <2>1 DEF IsQueue
  <2>. QED
    BY <1>0, <2>1, <2>2, StopKeepsTypes
<1>d. ASSUME NEW k, Poll!Settle(k)
      PROVE  PollTypes'
  <2>1. /\ Poll!Idle /\ k \in DOMAIN queue
        /\ queue' = [queue EXCEPT ![k].r = Poll!Ready]
        /\ UNCHANGED <<loop, tick, indicator, modal, dialogs>>
    BY <1>d DEF Poll!Settle
  <2>2. PICK m : m = [queue EXCEPT ![k].r = Poll!Ready]
    OBVIOUS
  <2>3. Poll!Ready \in {Poll!Ready, Poll!Pending, Poll!Dead}
    OBVIOUS
  <2>4. IsQueue(m)
    BY <1>0, <2>1, <2>2, <2>3, MarkedQueue
  <2>5. IsQueue(queue)'
    BY <2>1, <2>2, <2>4 DEF IsQueue
  <2>. QED
    BY <1>0, <2>1, <2>5, StopKeepsTypes
<1>. QED
  BY <1>1, <1>2, <1>3, <1>4, <1>5, <1>6, <1>7, <1>8, <1>9, <1>a, <1>b, <1>c, <1>d, PollStepsTyped

\* "Refreshing" is shown while the loop runs and "Paused" while it does not,
\* whatever views, users and dialogs start and stop it and whatever the called
\* functions do; unless one threw or stopped the loop in its first step.
THEOREM IndicatorIsRight == Spec => []IndicatorTruthful
<1>1. LoopInv => IndicatorTruthful
  BY DEF LoopInv, IndicatorTruthful, Poll!IndicatorTruthful
<1>. QED
  BY <1>1, PollStart, LoopStep, PTL DEF Spec

\* With one apply or revert dialog in the life of the page, a loop that the
\* user has paused does not run until the user starts it again, whatever views
\* register meanwhile.  (A second dialog breaks it: was_polling is never reset.)
THEOREM PauseStays == MaxDialogs <= 1 => (Spec => []StopSticks)
<1>. SUFFICES ASSUME MaxDialogs <= 1 PROVE Spec => []StopSticks
  OBVIOUS
<1>1. LoopInv /\ HeldInv /\ [Next]_vars => LoopInv' /\ HeldInv'
  BY LoopStep, HeldStep
<1>2. HeldInv => StopSticks
  BY DEF HeldInv, StopSticks, Poll!StopSticks
<1>. QED
  BY <1>1, <1>2, PollStart, PTL DEF Spec

\* The entries that a step has gone past, and none of them cut out, are not
\* due: they were not, or they have been called.
PassInv ==
  ~Poll!Idle /\ tick >= 0 /\ ~loop.cut
    => \A k \in DOMAIN queue : k < loop.at => ~Poll!Due(queue[k])

LEMMA PassStep ==
  ASSUME LoopInv, PollTypes, PassInv, [Next]_vars
  PROVE  PassInv'
<1>. USE DEF Poll!Idle
<1>0. /\ IsQueue(queue) /\ Len(queue) \in Nat /\ DOMAIN queue = 1 .. Len(queue)
      /\ IsQueue(queue)' /\ DOMAIN queue' \subseteq Nat \ {0}
      /\ ~Poll!Idle => loop \in Steps
  BY PollTypesStep DEF PollTypes, IsQueue, LoopInv
<1>1. ASSUME loop' = Poll!NotStepping \/ loop'.at = 1
      PROVE  PassInv'
  BY <1>0, <1>1 DEF PassInv
<1>2. ASSUME NEW effect \in Effects, NEW f \in Fns, NEW i \in Intervals,
             CallEntry(effect, f, i)
      PROVE  PassInv'
  <2>1. /\ loop \in Steps /\ loop.at \in DOMAIN queue
    <3>1. ~Poll!Idle /\ loop.at <= Len(queue)
      BY <1>2 DEF CallEntry, Poll!CallEntry
    <3>. QED
      BY <1>0, <3>1 DEF Steps
  <2>2. PICK n \in DOMAIN queue : n = loop.at
    BY <2>1
  <2>3. PICK called : called = [queue EXCEPT ![n].r = Poll!Pending]
    OBVIOUS
  <2>4. PICK next \in Steps : /\ next = [loop EXCEPT !.at = @ + 1]
                              /\ next.at = n + 1 /\ next.cut = loop.cut
    <3>1. PICK l : l = [loop EXCEPT !.at = @ + 1]
      OBVIOUS
    <3>2. l \in Steps
      BY <2>1, <3>1, StepsMove
    <3>3. l.at = n + 1 /\ l.cut = loop.cut
      BY <2>1, <2>2, <3>1 DEF Steps
    <3>. QED
      BY <3>1, <3>2, <3>3
  <2>5. \/ /\ queue' = called /\ loop' = next
           /\ tick' = tick \/ tick' = Poll!Undefined
        \/ loop' = Poll!NotStepping
        \/ loop' = [next EXCEPT !.cut = TRUE]
        \/ /\ queue' = Append(called, [fn |-> f, i |-> i, r |-> Poll!Ready]) /\ loop' = next
           /\ f \notin Poll!Registered(queue) /\ tick' = tick
    BY <1>2, <2>2, <2>3, <2>4 DEF CallEntry, Poll!CallEntry, Poll!Stop, Poll!StopAt
  <2>6. /\ IsQueue(called) /\ DOMAIN called = DOMAIN queue
        /\ called[n].r = Poll!Pending
        /\ \A k \in DOMAIN queue : /\ called[k].fn = queue[k].fn
                                   /\ k # n => called[k] = queue[k]
    <3>1. Poll!Pending \in {Poll!Ready, Poll!Pending, Poll!Dead}
      OBVIOUS
    <3>. QED
      BY <1>0, <2>3, <3>1, MarkedQueue
  <2>7. /\ Poll!Undefined = -1 /\ Poll!Pending # Poll!Ready
    BY DEF Poll!Undefined, Poll!Pending, Poll!Ready
  <2>8. ASSUME loop' = next, tick' = tick, tick >= 0, ~loop.cut,
               NEW k \in DOMAIN queue', k < n + 1, k \in DOMAIN queue, queue'[k] = called[k]
        PROVE  ~Poll!Due(queue[k])'
    <3>1. CASE k = n
      BY <2>6, <2>7, <2>8, <3>1 DEF Poll!Due
    <3>2. CASE k # n
      <4>1. k < n /\ loop # Poll!NotStepping
        BY <1>0, <2>1, <2>8, <3>2, StepsMove
      <4>2. ~Poll!Due(queue[k])
        BY <2>2, <2>8, <4>1 DEF PassInv
      <4>3. queue'[k] = queue[k]
        BY <2>6, <2>8, <3>2
      <4>. QED
        BY <2>8, <4>2, <4>3 DEF Poll!Due
    <3>. QED
      BY <3>1, <3>2
  <2>9. CASE queue' = called /\ loop' = next /\ (tick' = tick \/ tick' = Poll!Undefined)
    BY <2>4, <2>6, <2>7, <2>8, <2>9 DEF PassInv
  <2>a. CASE loop' = [next EXCEPT !.cut = TRUE]
    <3>1. loop'.cut
      BY <2>4, <2>a DEF Steps
    <3>. QED
      BY <3>1 DEF PassInv
  <2>b. CASE /\ queue' = Append(called, [fn |-> f, i |-> i, r |-> Poll!Ready]) /\ loop' = next
             /\ f \notin Poll!Registered(queue) /\ tick' = tick
    <3>1. f \notin Poll!Registered(called)
      BY <2>6, <2>b DEF Poll!Registered
    <3>2. \A k \in DOMAIN queue : queue'[k] = called[k]
      BY <2>6, <2>b, <3>1, LongerQueue
    <3>3. \A k \in DOMAIN queue' : k < n + 1 => k \in DOMAIN queue
      BY <1>0
    <3>. QED
      BY <2>4, <2>8, <2>b, <3>2, <3>3 DEF PassInv
  <2>. QED
    BY <1>1, <2>5, <2>9, <2>a, <2>b
<1>3. CASE Poll!SkipEntry
  <2>1. /\ loop \in Steps /\ ~Poll!Due(queue[loop.at])
        /\ loop'.at = loop.at + 1 /\ loop'.cut = loop.cut
        /\ UNCHANGED <<queue, tick>> /\ loop # Poll!NotStepping
    BY <1>0, <1>3, StepsMove DEF Poll!SkipEntry, Steps
  <2>2. ASSUME tick >= 0, ~loop.cut, NEW k \in DOMAIN queue, k < loop.at + 1
        PROVE  ~Poll!Due(queue[k])
    <3>1. k = loop.at \/ k < loop.at
      BY <1>0, <2>1, <2>2 DEF Steps
    <3>. QED
      BY <2>1, <2>2, <3>1 DEF PassInv
  <2>. QED
    BY <2>1, <2>2 DEF PassInv, Poll!Due
<1>4. CASE UNCHANGED pollVars
  BY <1>4 DEF pollVars, PassInv, Poll!Due
<1>5. CASE Poll!IntervalFires \/ Poll!EndStep
  BY <1>1, <1>5 DEF Poll!IntervalFires, Poll!EndStep, Poll!Stepping
<1>6. ASSUME NEW q, Poll!Idle, Poll!Start(q)
      PROVE  PassInv'
  BY <1>1, <1>6 DEF Poll!Start, Poll!Stepping
<1>7. ASSUME Poll!Idle, loop' = loop
      PROVE  PassInv'
  BY <1>1, <1>7
<1>8. CASE Poll!PageReady
  BY <1>6, <1>8 DEF Poll!PageReady
<1>9. ASSUME NEW f, Poll!Remove(f) \/ \E i : Poll!Add(f, i)
      PROVE  PassInv'
  BY <1>6, <1>7, <1>9 DEF Poll!Remove, Poll!Add, Poll!AddTo, Poll!polling
<1>a. CASE Poll!Click
  BY <1>6, <1>7, <1>a DEF Poll!Click
<1>b. CASE Poll!ShowStatus \/ Poll!Expire
  BY <1>7, <1>b DEF Poll!ShowStatus, Poll!Expire
<1>c. CASE Poll!HideStatus
  BY <1>6, <1>7, <1>c DEF Poll!HideStatus, Poll!polling
<1>d. ASSUME NEW k, Poll!Settle(k)
      PROVE  PassInv'
  BY <1>7, <1>d DEF Poll!Settle
<1>. QED
  BY <1>2, <1>3, <1>4, <1>5, <1>8, <1>9, <1>a, <1>b, <1>c, <1>d, PollStepsTyped

\* So a step that ends at the end of the queue has passed nobody by.
LEMMA PassedNobody ==
  ASSUME LoopInv, PollTypes, PassInv, ~Poll!Idle, loop.at > Len(queue), tick >= 0, ~loop.cut
  PROVE  \A k \in DOMAIN queue : ~Poll!Due(queue[k])
<1>1. /\ Len(queue) \in Nat /\ DOMAIN queue = 1 .. Len(queue) /\ loop.at \in Nat
  BY DEF PollTypes, IsQueue, LoopInv, Steps, Poll!Idle
<1>2. \A k \in DOMAIN queue : k < loop.at
  BY <1>1
<1>. QED
  BY <1>2 DEF PassInv

-----------------------------------------------------------------------------
(* The sequence of a set of positions (RpcBatch!InOrder).                  *)

LEMMA LeastNatural ==
  ASSUME NEW T \in SUBSET Nat, T # {}
  PROVE  \E n \in T : \A m \in T : n <= m
<1>. DEFINE R == OpToRel(<, Nat)
<1>1. IsWellFoundedOn(R, Nat)
  BY NatLessThanWellFounded
<1>2. \A m, n \in Nat : m < n => <<m, n>> \in R
  BY DEF OpToRel
<1>. HIDE DEF R
<1>3. \E n \in T : \A m \in T : ~(<<m, n>> \in R)
  BY <1>1, WFMin
<1>4. PICK n \in T : \A m \in T : ~(<<m, n>> \in R)
  BY <1>3
<1>5. ASSUME NEW m \in T PROVE n <= m
  <2>1. m \in Nat /\ n \in Nat /\ <<m, n>> \notin R
    BY <1>4
  <2>2. m < n => <<m, n>> \in R
    BY <1>2, <2>1
  <2>. QED
    BY <2>1, <2>2
<1>. QED
  BY <1>5

Enumerates(s, n, S) ==
  /\ s \in [1 .. n -> S]
  /\ \A j, k \in 1 .. n : j < k => s[j] < s[k]
  /\ \A k \in S : \E j \in 1 .. n : s[j] = k

LEMMA EnumerationExists ==
  \A m \in Nat : \A S \in SUBSET (1 .. m) : \E n \in Nat : \E s : Enumerates(s, n, S)
<1>. DEFINE Bad == {m \in Nat : \E S \in SUBSET (1 .. m) : \A n \in Nat : \A s : ~Enumerates(s, n, S)}
<1>. SUFFICES ASSUME Bad # {} PROVE FALSE
  OBVIOUS
<1>1. PICK m \in Bad : \A l \in Bad : m <= l
  BY LeastNatural
<1>2. PICK S \in SUBSET (1 .. m) : \A n \in Nat : \A s : ~Enumerates(s, n, S)
  OBVIOUS
<1>3. CASE m = 0
  <2>1. Enumerates([j \in 1 .. 0 |-> 0], 0, S)
    BY <1>3 DEF Enumerates
  <2>. QED
    BY <1>2, <2>1
<1>4. CASE m # 0
  <2>1. m - 1 \in Nat /\ m - 1 \notin Bad
    BY <1>1, <1>4
  <2>2. S \ {m} \in SUBSET (1 .. m - 1)
    OBVIOUS
  <2>a. PICK n \in Nat : \E s : Enumerates(s, n, S \ {m})
    BY <2>1, <2>2
  <2>3. PICK s : Enumerates(s, n, S \ {m})
    BY <2>a
  <2>4. CASE m \notin S
    <3>1. S \ {m} = S
      BY <2>4
    <3>. QED
      BY <1>2, <2>3, <3>1
  <2>5. CASE m \in S
    <3>. DEFINE t == [j \in 1 .. n + 1 |-> IF j = n + 1 THEN m ELSE s[j]]
    <3>1. \A j \in 1 .. n : t[j] = s[j] /\ s[j] \in S \ {m} /\ s[j] < m
      <4>1. \A j \in 1 .. n : s[j] \in S \ {m}
        BY <2>3 DEF Enumerates
      <4>2. \A j \in 1 .. n : j # n + 1 /\ j \in 1 .. n + 1
        OBVIOUS
      <4>3. \A k \in S \ {m} : k < m
        BY <2>2
      <4>. QED
        BY <4>1, <4>2, <4>3
    <3>2. t \in [1 .. n + 1 -> S] /\ t[n + 1] = m
      BY <2>5, <3>1
    <3>3. \A j, k \in 1 .. n + 1 : j < k => t[j] < t[k]
      <4>1. ASSUME NEW j \in 1 .. n + 1, NEW k \in 1 .. n + 1, j < k
            PROVE  t[j] < t[k]
        <5>1. j \in 1 .. n /\ (k \in 1 .. n \/ k = n + 1)
          BY <4>1
        <5>2. k \in 1 .. n => s[j] < s[k]
          BY <2>3, <4>1, <5>1 DEF Enumerates
        <5>. HIDE DEF t
        <5>. QED
          BY <3>1, <3>2, <5>1, <5>2
      <4>. QED
        BY <4>1
    <3>4. \A k \in S : \E j \in 1 .. n + 1 : t[j] = k
      <4>1. \A k \in S \ {m} : \E j \in 1 .. n : s[j] = k
        BY <2>3 DEF Enumerates
      <4>2. n + 1 \in 1 .. n + 1 /\ \A j \in 1 .. n : j \in 1 .. n + 1
        OBVIOUS
      <4>. HIDE DEF t
      <4>. QED
        BY <3>1, <3>2, <4>1, <4>2
    <3>. HIDE DEF t
    <3>5. Enumerates(t, n + 1, S)
      BY <3>2, <3>3, <3>4 DEF Enumerates
    <3>. QED
      BY <1>2, <3>5
  <2>. QED
    BY <2>4, <2>5
<1>. QED
  BY <1>3, <1>4

LEMMA SameCardinality == \A S : Rpc!Cardinality(S) = Cardinality(S)
BY DEF Rpc!Cardinality, Cardinality

LEMMA EnumerationIsOnto ==
  ASSUME NEW m \in Nat, NEW S \in SUBSET (1 .. m)
  PROVE  /\ Cardinality(S) \in Nat
         /\ Enumerates(Rpc!InOrder(S), Cardinality(S), S)
<1>a. PICK n \in Nat : \E t : Enumerates(t, n, S)
  BY EnumerationExists
<1>1. PICK t : Enumerates(t, n, S)
  BY <1>a
<1>2. t \in Bijection(1 .. n, S)
  <2>1. \A j, k \in 1 .. n : t[j] = t[k] => j = k
    <3>. SUFFICES ASSUME NEW j \in 1 .. n, NEW k \in 1 .. n, t[j] = t[k], j # k PROVE FALSE
      OBVIOUS
    <3>1. t[j] \in Nat /\ t[k] \in Nat
      <4>1. t[j] \in S /\ t[k] \in S
        BY <1>1 DEF Enumerates
      <4>2. \A i \in S : i \in Nat
        OBVIOUS
      <4>. QED
        BY <4>1, <4>2
    <3>. QED
      <4>1. \A a, b \in 1 .. n : a < b => t[a] < t[b]
        BY <1>1 DEF Enumerates
      <4>2. j < k \/ k < j
        OBVIOUS
      <4>. QED
        BY <3>1, <4>1, <4>2
  <2>2. t \in [1 .. n -> S] /\ \A k \in S : \E j \in 1 .. n : t[j] = k
    BY <1>1 DEF Enumerates
  <2>3. t \in Injection(1 .. n, S)
    BY <2>1, <2>2 DEF Injection, IsInjective
  <2>4. t \in Surjection(1 .. n, S)
    BY <2>2 DEF Surjection
  <2>. QED
    BY <2>3, <2>4 DEF Bijection
<1>3. Cardinality(S) = n
  BY <1>2, FS_CountingElements DEF ExistsBijection
<1>4. PICK s : /\ s = Rpc!InOrder(S) /\ s \in [1 .. n -> S]
                /\ \A j, k \in 1 .. n : j < k => s[j] < s[k]
  BY <1>1, <1>3, SameCardinality DEF Rpc!InOrder, Enumerates
<1>5. s \in Injection(1 .. n, S)
  <2>1. \A j \in 1 .. n : s[j] \in Nat
    <3>1. \A j \in 1 .. n : s[j] \in S
      BY <1>4
    <3>2. \A k \in S : k \in Nat
      OBVIOUS
    <3>. QED
      BY <3>1, <3>2
  <2>2. \A j, k \in 1 .. n : s[j] = s[k] => j = k
    <3>. SUFFICES ASSUME NEW j \in 1 .. n, NEW k \in 1 .. n, s[j] = s[k], j # k PROVE FALSE
      OBVIOUS
    <3>1. j < k \/ k < j
      OBVIOUS
    <3>. QED
      BY <1>4, <2>1, <3>1
  <2>. QED
    BY <1>4, <2>2 DEF Injection, IsInjective
<1>6. s \in Surjection(1 .. n, S)
  <2>1. IsFiniteSet(1 .. n) /\ Cardinality(1 .. n) = n
    BY FS_Interval
  <2>2. IsFiniteSet(S)
    <3>1. IsFiniteSet(1 .. m)
      BY FS_Interval
    <3>. QED
      BY <3>1, FS_Subset
  <2>. QED
    BY <1>3, <1>5, <2>1, <2>2, FS_Injection
<1>. QED
  BY <1>3, <1>4, <1>6 DEF Enumerates, Surjection

-----------------------------------------------------------------------------
(* The inductive invariant.                                                *)

Requests == [ids : Seq(Rpc!Ids), todo : Seq(Rpc!Ids), replies : Seq(Rpc!Replies),
             leg : {"out", "back", "error"}, open : BOOLEAN]

IsQueued(i) == \E k \in DOMAIN requests : requests[k] = i
IsSent(i) == \E x \in xhrs : x.open /\ i \in Rpc!Within(x)
Injective(s) == \A j, k \in DOMAIN s : s[j] = s[k] => j = k

\* The replies of a request belong to its first calls, in order, and say what
\* became of them; the server has not begun with the rest.
Answered(x) ==
  \A k \in DOMAIN x.replies :
    /\ x.replies[k].id = x.ids[k]
    /\ executed[x.ids[k]] = IF x.replies[k].granted THEN 1 ELSE 0
    /\ ~x.replies[k].granted /\ x.ids[k].probe => ~alive

RequestInv(x) ==
  /\ x.ids # <<>> /\ Injective(x.ids)
  /\ Len(x.replies) <= Len(x.ids)
  /\ Answered(x)
  /\ x.leg = "out" => /\ Len(x.todo) + Len(x.replies) = Len(x.ids)
                      /\ \A k \in DOMAIN x.todo : /\ x.todo[k] = x.ids[Len(x.replies) + k]
                                                  /\ executed[x.todo[k]] = 0
  /\ x.leg # "out" => x.todo = <<>> /\ x.open
  /\ x.leg = "back" => Len(x.replies) = Len(x.ids)

\* A call waits where its state says, and only there.
CallInv(i) ==
  /\ executed[i] \in {0, 1}
  /\ call[i] = "queued" <=> IsQueued(i)
  /\ call[i] = "queued" => frame /\ executed[i] = 0 /\ ~Rpc!UnderWay(i)
  /\ call[i] = "sent" <=> IsSent(i)
  /\ call[i] = "resolved" => got[i] = i /\ executed[i] = 1 /\ ~Rpc!UnderWay(i)

\* A call asks exactly while its probe is on its way, and comes before it.
ProbeInv(c) ==
  LET i == Rpc!Id(c)
      p == Rpc!Probe(c)
  IN  /\ call[p] # "asking"
      /\ call[i] = "asking" <=> call[p] \in {"queued", "sent"}
      /\ call[i] \in {"queued", "sent"} =>
           call[p] = "idle" /\ executed[p] = 0 /\ ~Rpc!UnderWay(p)

\* No call is in two requests.
Apart == \A x, y \in xhrs : \A i \in Rpc!Within(x) \cap Rpc!Within(y) : x = y

RpcTypes ==
  /\ call \in [Rpc!Ids -> {"idle"} \cup Rpc!Waiting \cup Rpc!Settled]
  /\ requests \in Seq(Rpc!Ids)
  /\ {frame, visible, alive, trouble} \subseteq BOOLEAN
  /\ xhrs \subseteq Requests
  /\ executed \in [Rpc!Ids -> Nat]
  /\ got \in [Rpc!Ids -> Rpc!Ids \cup {Rpc!Nobody}]

RpcInv ==
  /\ RpcTypes
  /\ Injective(requests)
  /\ \A x \in xhrs : RequestInv(x)
  /\ Apart
  /\ \A i \in Rpc!Ids : CallInv(i)
  /\ \A c \in Fns : ProbeInv(c)

-----------------------------------------------------------------------------
(* Calls and the requests they are in.                                     *)

LEMMA IdFacts ==
  /\ \A c \in Fns : /\ Rpc!Id(c) \in Rpc!Ids /\ Rpc!Id(c).for = c /\ ~Rpc!Id(c).probe
                    /\ Rpc!Probe(c) \in Rpc!Ids /\ Rpc!Probe(c).for = c /\ Rpc!Probe(c).probe
  /\ \A i \in Rpc!Ids : /\ i.for \in Fns /\ i.probe \in BOOLEAN
                        /\ i.probe => i = Rpc!Probe(i.for)
                        /\ ~i.probe => i = Rpc!Id(i.for)
BY DEF Rpc!Ids, Rpc!Id, Rpc!Probe

LEMMA RequestTypes ==
  ASSUME NEW x \in Requests
  PROVE  /\ x.ids \in Seq(Rpc!Ids) /\ Len(x.ids) \in Nat /\ DOMAIN x.ids = 1 .. Len(x.ids)
         /\ x.todo \in Seq(Rpc!Ids) /\ Len(x.todo) \in Nat /\ DOMAIN x.todo = 1 .. Len(x.todo)
         /\ x.replies \in Seq(Rpc!Replies) /\ Len(x.replies) \in Nat
         /\ DOMAIN x.replies = 1 .. Len(x.replies)
         /\ x.leg \in {"out", "back", "error"} /\ x.open \in BOOLEAN
         /\ \A i : i \in Rpc!Within(x) <=> \E k \in DOMAIN x.ids : i = x.ids[k]
         /\ \A i \in Rpc!Within(x) : i \in Rpc!Ids
<1>1. /\ x.ids \in Seq(Rpc!Ids) /\ x.todo \in Seq(Rpc!Ids) /\ x.replies \in Seq(Rpc!Replies)
      /\ x.leg \in {"out", "back", "error"} /\ x.open \in BOOLEAN
  BY DEF Requests
<1>2. /\ Len(x.ids) \in Nat /\ DOMAIN x.ids = 1 .. Len(x.ids)
      /\ Len(x.todo) \in Nat /\ DOMAIN x.todo = 1 .. Len(x.todo)
  BY <1>1
<1>3. Len(x.replies) \in Nat /\ DOMAIN x.replies = 1 .. Len(x.replies)
  BY <1>1
<1>4. \A i : i \in Rpc!Within(x) <=> \E k \in DOMAIN x.ids : i = x.ids[k]
  BY DEF Rpc!Within
<1>5. \A k \in DOMAIN x.ids : x.ids[k] \in Rpc!Ids
  BY <1>1
<1>. QED
  BY <1>1, <1>2, <1>3, <1>4, <1>5

\* What a request says is a matter of its own calls.
LEMMA RequestStays ==
  ASSUME NEW x \in Requests, RequestInv(x), alive' => alive,
         \A i \in Rpc!Within(x) : executed'[i] = executed[i]
  PROVE  RequestInv(x)'
<1>1. \A k \in DOMAIN x.ids : executed'[x.ids[k]] = executed[x.ids[k]]
  BY DEF Rpc!Within
<1>2. /\ DOMAIN x.ids = 1 .. Len(x.ids) /\ Len(x.ids) \in Nat
      /\ DOMAIN x.todo = 1 .. Len(x.todo) /\ Len(x.todo) \in Nat
      /\ DOMAIN x.replies = 1 .. Len(x.replies) /\ Len(x.replies) \in Nat
      /\ Len(x.replies) <= Len(x.ids)
  BY RequestTypes DEF RequestInv
<1>3. Answered(x)'
  <2>1. \A k \in DOMAIN x.replies : k \in DOMAIN x.ids
    BY <1>2
  <2>. QED
    BY <1>1, <2>1 DEF RequestInv, Answered
<1>4. x.leg = "out" => \A k \in DOMAIN x.todo : executed'[x.todo[k]] = 0
  <2>. SUFFICES ASSUME x.leg = "out", NEW k \in DOMAIN x.todo
                PROVE  executed'[x.todo[k]] = 0
    OBVIOUS
  <2>a. Len(x.todo) + Len(x.replies) = Len(x.ids)
    BY DEF RequestInv
  <2>b. k \in 1 .. Len(x.todo)
    BY <1>2
  <2>c. \A r, t, n \in Nat : \A j \in 1 .. t : t + r = n => r + j \in 1 .. n
    OBVIOUS
  <2>d. Len(x.replies) + k \in 1 .. Len(x.ids)
    BY <1>2, <2>a, <2>b, <2>c
  <2>1. Len(x.replies) + k \in DOMAIN x.ids
    BY <1>2, <2>d
  <2>. QED
    BY <1>1, <2>1 DEF RequestInv
<1>. QED
  BY <1>3, <1>4 DEF RequestInv

\* A step of the server: a request moves on, or ends when nobody waits for it.
LEMMA RequestEvolves ==
  ASSUME RpcInv, NEW x \in xhrs, NEW Z \in SUBSET Requests,
         \A z \in Z : z.ids = x.ids /\ z.open = x.open /\ RequestInv(z)',
         \A y, z \in Z : y = z, Z = {} => ~x.open,
         xhrs' = (xhrs \ {x}) \cup Z,
         executed' \in [Rpc!Ids -> Nat],
         \A i \in Rpc!Ids : executed'[i] # executed[i] =>
                              i \in Rpc!Within(x) /\ executed'[i] = 1,
         UNCHANGED <<call, requests, frame, visible, got, alive, trouble>>
  PROVE  RpcInv'
<1>1. x \in Requests /\ x.open \in BOOLEAN
  BY DEF RpcInv, RpcTypes, Requests
<1>2. \A z \in Z : Rpc!Within(z) = Rpc!Within(x)
  BY DEF Rpc!Within
<1>3. \A i : IsSent(i)' <=> IsSent(i)
  BY <1>1, <1>2 DEF IsSent
<1>4. \A i : Rpc!UnderWay(i)' => Rpc!UnderWay(i)
  BY <1>2 DEF Rpc!UnderWay
<1>5. RpcTypes'
  BY DEF RpcInv, RpcTypes
<1>6. \A y \in xhrs' : RequestInv(y)'
  <2>. SUFFICES ASSUME NEW y \in xhrs, y # x PROVE RequestInv(y)'
    OBVIOUS
  <2>1. y \in Requests /\ RequestInv(y)
    BY DEF RpcInv, RpcTypes
  <2>2. \A i \in Rpc!Within(y) : i \in Rpc!Ids /\ i \notin Rpc!Within(x)
    BY <2>1, RequestTypes DEF RpcInv, Apart
  <2>. QED
    BY <2>1, <2>2, RequestStays
<1>7. Apart'
  BY <1>2 DEF RpcInv, Apart
<1>8. ASSUME NEW i \in Rpc!Ids
      PROVE  CallInv(i)'
  <2>1. CallInv(i) /\ (i \in Rpc!Within(x) => Rpc!UnderWay(i))
    BY DEF RpcInv, Rpc!UnderWay
  <2>2. IsQueued(i)' <=> IsQueued(i)
    BY DEF IsQueued
  <2>. QED
    BY <1>3, <1>4, <2>1, <2>2 DEF CallInv
<1>9. ASSUME NEW c \in Fns
      PROVE  ProbeInv(c)'
  <2>1. /\ ProbeInv(c) /\ Rpc!Probe(c) \in Rpc!Ids
        /\ Rpc!Probe(c) \in Rpc!Within(x) => Rpc!UnderWay(Rpc!Probe(c))
    BY IdFacts DEF RpcInv, Rpc!UnderWay
  <2>. QED
    BY <1>4, <2>1 DEF ProbeInv
<1>. QED
  BY <1>5, <1>6, <1>7, <1>8, <1>9 DEF RpcInv, Injective

LEMMA RequestMoves ==
  ASSUME RpcInv, NEW x \in xhrs, NEW z \in Requests,
         z.ids = x.ids, z.open = x.open, RequestInv(z)',
         xhrs' = (xhrs \ {x}) \cup {z},
         executed' \in [Rpc!Ids -> Nat],
         \A i \in Rpc!Ids : executed'[i] # executed[i] =>
                              i \in Rpc!Within(x) /\ executed'[i] = 1,
         UNCHANGED <<call, requests, frame, visible, got, alive, trouble>>
  PROVE  RpcInv'
<1>. DEFINE Z == {z}
<1>1. Z \in SUBSET Requests /\ xhrs' = (xhrs \ {x}) \cup Z /\ Z # {}
      /\ (\A y \in Z : y = z)
  OBVIOUS
<1>. HIDE DEF Z
<1>. QED
  BY <1>1, RequestEvolves

LEMMA RequestLeaves ==
  ASSUME RpcInv, NEW x \in xhrs, ~x.open, xhrs' = xhrs \ {x},
         executed' \in [Rpc!Ids -> Nat],
         \A i \in Rpc!Ids : executed'[i] # executed[i] =>
                              i \in Rpc!Within(x) /\ executed'[i] = 1,
         UNCHANGED <<call, requests, frame, visible, got, alive, trouble>>
  PROVE  RpcInv'
<1>. DEFINE Z == {}
<1>1. Z \in SUBSET Requests /\ xhrs' = (xhrs \ {x}) \cup Z /\ (\A z \in Z : FALSE)
  OBVIOUS
<1>. HIDE DEF Z
<1>. QED
  BY <1>1, RequestEvolves

\* The next call of a request is in the place behind the replies.
LEMMA NextCall ==
  ASSUME RpcInv, NEW x \in xhrs, Rpc!Working(x)
  PROVE  /\ x \in Requests /\ RequestInv(x)
         /\ Len(x.replies) + 1 \in DOMAIN x.ids
         /\ Head(x.todo) = x.ids[Len(x.replies) + 1]
         /\ Head(x.todo) \in Rpc!Within(x) /\ Head(x.todo) \in Rpc!Ids
         /\ executed[Head(x.todo)] = 0
         /\ Len(x.todo) \in Nat \ {0}
<1>1. x \in Requests /\ RequestInv(x) /\ x.leg = "out" /\ x.todo # <<>>
  BY DEF RpcInv, RpcTypes, Rpc!Working
<1>2. Len(x.todo) \in Nat \ {0} /\ 1 \in DOMAIN x.todo /\ Head(x.todo) = x.todo[1]
  BY <1>1, RequestTypes
<1>3. Len(x.todo) + Len(x.replies) = Len(x.ids)
      /\ x.todo[1] = x.ids[Len(x.replies) + 1] /\ executed[x.todo[1]] = 0
  BY <1>1, <1>2 DEF RequestInv
<1>4. \A r, t, n \in Nat : t + r = n /\ t # 0 => r + 1 \in 1 .. n
  OBVIOUS
<1>5. Len(x.replies) + 1 \in DOMAIN x.ids
  BY <1>1, <1>2, <1>3, <1>4, RequestTypes
<1>6. Head(x.todo) \in Rpc!Within(x) /\ Head(x.todo) \in Rpc!Ids
  BY <1>1, <1>2, <1>3, <1>5, RequestTypes
<1>. QED
  BY <1>1, <1>2, <1>3, <1>5, <1>6

LEMMA ServeStep ==
  ASSUME RpcInv, NEW x \in xhrs, Rpc!Serve(x)
  PROVE  RpcInv'
<1>. DEFINE i == Head(x.todo)
            n == Len(x.replies)
<1>1. /\ x \in Requests /\ RequestInv(x) /\ x.leg = "out"
      /\ n + 1 \in DOMAIN x.ids /\ i = x.ids[n + 1]
      /\ i \in Rpc!Within(x) /\ i \in Rpc!Ids /\ executed[i] = 0
      /\ Len(x.todo) \in Nat \ {0} /\ executed \in [Rpc!Ids -> Nat]
      /\ UNCHANGED <<call, requests, frame, visible, got, alive, trouble>>
  BY NextCall DEF Rpc!Serve, Rpc!Working, Rpc!browser, RpcInv, RpcTypes
<1>2. PICK granted \in Rpc!Verdicts(i) :
        /\ executed' = [executed EXCEPT ![i] = @ + (IF granted THEN 1 ELSE 0)]
        /\ xhrs' = (xhrs \ {x}) \cup
             {[x EXCEPT !.todo = Tail(@),
                        !.replies = Append(@, [id |-> i, granted |-> granted])]}
  BY DEF Rpc!Serve
<1>. DEFINE r == [id |-> i, granted |-> granted]
            z == [x EXCEPT !.todo = Tail(@), !.replies = Append(@, r)]
<1>3. granted \in BOOLEAN /\ (~granted /\ i.probe => ~alive)
  BY <1>2 DEF Rpc!Verdicts
<1>4. r \in Rpc!Replies /\ r.id = i /\ r.granted = granted
  BY <1>1, <1>3 DEF Rpc!Replies
<1>5. /\ z \in Requests
      /\ z.ids = x.ids /\ z.open = x.open /\ z.leg = "out"
      /\ z.todo = Tail(x.todo) /\ z.replies = Append(x.replies, r)
  <2>. HIDE DEF r
  <2>1. Tail(x.todo) \in Seq(Rpc!Ids) /\ Append(x.replies, r) \in Seq(Rpc!Replies)
    BY <1>1, <1>4, RequestTypes
  <2>. QED
    BY <1>1, <2>1 DEF Requests
<1>6. xhrs' = (xhrs \ {x}) \cup {z}
  BY <1>2
<1>7. executed' = [executed EXCEPT ![i] = IF granted THEN 1 ELSE 0]
  BY <1>1, <1>2, <1>3
<1>. HIDE DEF r, z, i, n
<1>8. RequestInv(z)'
  <2>1. /\ n \in Nat /\ Len(x.ids) \in Nat /\ Len(x.todo) \in Nat \ {0} /\ DOMAIN x.ids = 1 .. Len(x.ids)
        /\ DOMAIN x.replies = 1 .. n /\ DOMAIN x.todo = 1 .. Len(x.todo)
        /\ x.replies \in Seq(Rpc!Replies) /\ x.todo \in Seq(Rpc!Ids) /\ x.todo # <<>>
        /\ \A k \in DOMAIN x.ids : x.ids[k] \in Rpc!Ids
    BY <1>1, RequestTypes DEF n
  <2>2. /\ Len(z.replies) = n + 1 /\ DOMAIN z.replies = 1 .. n + 1
        /\ \A k \in 1 .. n : z.replies[k] = x.replies[k]
        /\ z.replies[n + 1] = r
    BY <1>4, <1>5, <2>1 DEF n
  <2>3. /\ Len(z.todo) = Len(x.todo) - 1 /\ DOMAIN z.todo = 1 .. Len(x.todo) - 1
        /\ \A k \in 1 .. Len(x.todo) - 1 : z.todo[k] = x.todo[k + 1]
    BY <1>5, <2>1
  <2>4. \A k \in DOMAIN x.ids : k # n + 1 => executed'[x.ids[k]] = executed[x.ids[k]]
    BY <1>1, <1>7, <2>1 DEF RequestInv, Injective
  <2>5. executed'[i] = IF granted THEN 1 ELSE 0
    BY <1>1, <1>7
  <2>6. /\ Len(x.todo) + n = Len(x.ids)
        /\ \A k \in DOMAIN x.todo : x.todo[k] = x.ids[n + k] /\ executed[x.todo[k]] = 0
    BY <1>1 DEF RequestInv, n
  <2>7. Answered(z)'
    <3>1. ASSUME NEW k \in 1 .. n
          PROVE  /\ z.replies[k].id = z.ids[k]
                 /\ executed'[z.ids[k]] = IF z.replies[k].granted THEN 1 ELSE 0
                 /\ ~z.replies[k].granted /\ z.ids[k].probe => ~alive
      <4>1. z.replies[k] = x.replies[k] /\ k \in DOMAIN x.ids /\ k # n + 1
        BY <2>1, <2>2, <2>6
      <4>2. /\ x.replies[k].id = x.ids[k]
            /\ executed[x.ids[k]] = IF x.replies[k].granted THEN 1 ELSE 0
            /\ ~x.replies[k].granted /\ x.ids[k].probe => ~alive
        BY <1>1, <2>1 DEF RequestInv, Answered
      <4>. QED
        BY <1>5, <2>4, <4>1, <4>2
    <3>2. /\ z.replies[n + 1].id = z.ids[n + 1]
          /\ executed'[z.ids[n + 1]] = IF z.replies[n + 1].granted THEN 1 ELSE 0
          /\ ~z.replies[n + 1].granted /\ z.ids[n + 1].probe => ~alive
      BY <1>1, <1>3, <1>4, <1>5, <2>2, <2>5
    <3>3. \A k \in 1 .. n + 1 : k \in 1 .. n \/ k = n + 1
      BY <2>1
    <3>. QED
      BY <1>1, <2>2, <3>1, <3>2, <3>3 DEF Answered
  <2>8. \A k \in DOMAIN z.todo : z.todo[k] = z.ids[Len(z.replies) + k] /\ executed'[z.todo[k]] = 0
    <3>. SUFFICES ASSUME NEW k \in 1 .. Len(x.todo) - 1
                  PROVE  /\ z.todo[k] = z.ids[Len(z.replies) + k]
                         /\ executed'[z.todo[k]] = 0
      BY <2>3
    <3>1. k + 1 \in DOMAIN x.todo /\ n + (k + 1) \in 1 .. Len(x.ids) /\ n + (k + 1) # n + 1
      BY <1>1, <2>1, <2>6
    <3>2. z.todo[k] = x.ids[n + (k + 1)] /\ executed[z.todo[k]] = 0
      BY <2>3, <2>6, <3>1
    <3>3. n + (k + 1) = Len(z.replies) + k
      BY <2>1, <2>2
    <3>. QED
      BY <1>5, <2>1, <2>4, <3>1, <3>2, <3>3
  <2>9. Len(z.replies) <= Len(z.ids) /\ Len(z.todo) + Len(z.replies) = Len(z.ids)
    <3>1. \A t, m, l \in Nat : t # 0 /\ t + m = l => m + 1 <= l /\ (t - 1) + (m + 1) = l
      OBVIOUS
    <3>2. Len(z.ids) = Len(x.ids) /\ Len(z.replies) = n + 1 /\ Len(z.todo) = Len(x.todo) - 1
      BY <1>5, <2>2, <2>3
    <3>3. n + 1 <= Len(x.ids) /\ (Len(x.todo) - 1) + (n + 1) = Len(x.ids)
      BY <2>1, <2>6, <3>1
    <3>. QED
      BY <3>2, <3>3
  <2>a. z.ids # <<>> /\ Injective(z.ids)
    BY <1>1, <1>5 DEF RequestInv
  <2>. QED
    BY <1>5, <2>7, <2>8, <2>9, <2>a DEF RequestInv
<1>9. /\ executed' \in [Rpc!Ids -> Nat]
      /\ \A j \in Rpc!Ids : executed'[j] # executed[j] => j \in Rpc!Within(x) /\ executed'[j] = 1
  BY <1>1, <1>7
<1>. QED
  BY <1>1, <1>5, <1>6, <1>8, <1>9, RequestMoves

LEMMA ServeFatalStep ==
  ASSUME RpcInv, NEW x \in xhrs, Rpc!ServeFatal(x)
  PROVE  RpcInv'
<1>. DEFINE i == Head(x.todo)
            n == Len(x.replies)
            z == [x EXCEPT !.leg = "error", !.todo = <<>>]
<1>1. /\ x \in Requests /\ RequestInv(x) /\ x.leg = "out"
      /\ n + 1 \in DOMAIN x.ids /\ i = x.ids[n + 1]
      /\ i \in Rpc!Within(x) /\ i \in Rpc!Ids /\ executed[i] = 0
      /\ executed \in [Rpc!Ids -> Nat]
      /\ UNCHANGED <<call, requests, frame, visible, got, alive, trouble>>
  BY NextCall DEF Rpc!ServeFatal, Rpc!Working, Rpc!browser, RpcInv, RpcTypes
<1>2. /\ executed' = [executed EXCEPT ![i] = 1]
      /\ xhrs' = (xhrs \ {x}) \cup (IF x.open THEN {z} ELSE {})
  BY <1>1 DEF Rpc!ServeFatal
<1>3. CASE x.open
  <2>1. /\ z \in Requests
        /\ z.ids = x.ids /\ z.open = x.open /\ z.leg = "error"
        /\ z.todo = <<>> /\ z.replies = x.replies
    <3>1. <<>> \in Seq(Rpc!Ids)
      OBVIOUS
    <3>. QED
      BY <1>1, <3>1 DEF Requests
  <2>2. xhrs' = (xhrs \ {x}) \cup {z}
    BY <1>2, <1>3
  <2>. HIDE DEF z, n, i
  <2>3. /\ n \in Nat /\ DOMAIN x.ids = 1 .. Len(x.ids) /\ Len(x.ids) \in Nat
        /\ DOMAIN x.replies = 1 .. n
        /\ \A k \in DOMAIN x.ids : x.ids[k] \in Rpc!Ids
    BY <1>1, RequestTypes DEF n
  <2>4. \A k \in DOMAIN x.ids : k # n + 1 => executed'[x.ids[k]] = executed[x.ids[k]]
    BY <1>1, <1>2, <2>3 DEF RequestInv, Injective
  <2>5. \A k \in DOMAIN x.replies : k \in DOMAIN x.ids /\ k # n + 1
    BY <1>1, <2>3
  <2>6. Answered(z)'
    BY <1>1, <2>1, <2>4, <2>5 DEF RequestInv, Answered
  <2>7. RequestInv(z)'
    BY <1>1, <1>3, <2>1, <2>6 DEF RequestInv
  <2>8. /\ executed' \in [Rpc!Ids -> Nat]
        /\ \A j \in Rpc!Ids : executed'[j] # executed[j] => j \in Rpc!Within(x) /\ executed'[j] = 1
    BY <1>1, <1>2
  <2>. QED
    BY <1>1, <2>1, <2>2, <2>7, <2>8, RequestMoves
<1>4. CASE ~x.open
  <2>1. xhrs' = xhrs \ {x}
    BY <1>2, <1>4
  <2>2. /\ executed' \in [Rpc!Ids -> Nat]
        /\ \A j \in Rpc!Ids : executed'[j] # executed[j] => j \in Rpc!Within(x) /\ executed'[j] = 1
    BY <1>1, <1>2
  <2>. QED
    BY <1>1, <1>4, <2>1, <2>2, RequestLeaves
<1>. QED
  BY <1>3, <1>4

LEMMA RespondStep ==
  ASSUME RpcInv, NEW x \in xhrs, Rpc!Respond(x)
  PROVE  RpcInv'
<1>. DEFINE z == [x EXCEPT !.leg = "back"]
<1>1. /\ x \in Requests /\ RequestInv(x) /\ x.leg = "out" /\ x.todo = <<>>
      /\ xhrs' = (xhrs \ {x}) \cup (IF x.open THEN {z} ELSE {})
      /\ UNCHANGED <<call, requests, frame, visible, got, alive, trouble, executed>>
  BY DEF Rpc!Respond, Rpc!browser, RpcInv, RpcTypes
<1>2. executed' \in [Rpc!Ids -> Nat] /\ \A j \in Rpc!Ids : executed'[j] = executed[j]
  BY <1>1 DEF RpcInv, RpcTypes
<1>3. CASE x.open
  <2>1. /\ z \in Requests
        /\ z.ids = x.ids /\ z.open = x.open /\ z.leg = "back"
        /\ z.todo = <<>> /\ z.replies = x.replies
    BY <1>1 DEF Requests
  <2>2. xhrs' = (xhrs \ {x}) \cup {z}
    BY <1>1, <1>3
  <2>. HIDE DEF z
  <2>3. Len(x.replies) = Len(x.ids)
    <3>1. Len(<<>>) = 0 /\ Len(x.replies) \in Nat
      BY <1>1, RequestTypes
    <3>2. Len(x.todo) + Len(x.replies) = Len(x.ids)
      BY <1>1 DEF RequestInv
    <3>. QED
      BY <1>1, <3>1, <3>2
  <2>4. Answered(z)'
    BY <1>1, <2>1 DEF RequestInv, Answered
  <2>5. RequestInv(z)'
    BY <1>1, <1>3, <2>1, <2>3, <2>4 DEF RequestInv
  <2>. QED
    BY <1>1, <1>2, <2>1, <2>2, <2>5, RequestMoves
<1>4. CASE ~x.open
  <2>1. xhrs' = xhrs \ {x}
    BY <1>1, <1>4
  <2>. QED
    BY <1>1, <1>2, <1>4, <2>1, RequestLeaves
<1>. QED
  BY <1>3, <1>4

\* A step that leaves the requests alone.
LEMMA RequestsStay ==
  ASSUME RpcInv, UNCHANGED xhrs, alive' => alive,
         \A i \in Rpc!Ids : Rpc!UnderWay(i) => executed'[i] = executed[i]
  PROVE  /\ \A x \in xhrs' : RequestInv(x)'
         /\ Apart'
         /\ \A i : (IsSent(i)' <=> IsSent(i)) /\ (Rpc!UnderWay(i)' <=> Rpc!UnderWay(i))
<1>1. ASSUME NEW x \in xhrs PROVE RequestInv(x)'
  <2>1. x \in Requests /\ RequestInv(x)
    BY DEF RpcInv, RpcTypes
  <2>2. \A i \in Rpc!Within(x) : i \in Rpc!Ids /\ Rpc!UnderWay(i)
    BY <2>1, RequestTypes DEF Rpc!UnderWay
  <2>. QED
    BY <2>1, <2>2, RequestStays
<1>2. Apart'
  BY DEF RpcInv, Apart
<1>3. \A i : (IsSent(i)' <=> IsSent(i)) /\ (Rpc!UnderWay(i)' <=> Rpc!UnderWay(i))
  BY DEF IsSent, Rpc!UnderWay
<1>. QED
  BY <1>1, <1>2, <1>3

\* Calls that are in no request are sent in a new one.
LEMMA RequestStarts ==
  ASSUME RpcInv, NEW s \in Seq(Rpc!Ids), s # <<>>, Injective(s), alive' => alive,
         \A k \in DOMAIN s : executed'[s[k]] = 0 /\ ~Rpc!UnderWay(s[k]),
         \A i \in Rpc!Ids : Rpc!UnderWay(i) => executed'[i] = executed[i],
         xhrs' = xhrs \cup {Rpc!Request(s)}
  PROVE  /\ xhrs' \subseteq Requests
         /\ \A x \in xhrs' : RequestInv(x)'
         /\ Apart'
         /\ \A i : IsSent(i)' <=> IsSent(i) \/ \E k \in DOMAIN s : s[k] = i
         /\ \A i : Rpc!UnderWay(i)' <=> Rpc!UnderWay(i) \/ \E k \in DOMAIN s : s[k] = i
<1>1. PICK z : z = Rpc!Request(s)
  OBVIOUS
<1>2. /\ z.ids = s /\ z.todo = s /\ z.replies = <<>> /\ z.leg = "out" /\ z.open
      /\ z \in Requests
  <2>1. <<>> \in Seq(Rpc!Replies)
    OBVIOUS
  <2>. QED
    BY <1>1, <2>1 DEF Rpc!Request, Requests
<1>3. xhrs' = xhrs \cup {z} /\ xhrs \subseteq Requests
  BY <1>1 DEF RpcInv, RpcTypes
<1>4. \A i : i \in Rpc!Within(z) <=> \E k \in DOMAIN s : s[k] = i
  BY <1>2 DEF Rpc!Within
<1>5. RequestInv(z)'
  <2>1. Len(s) \in Nat /\ Len(z.replies) = 0 /\ DOMAIN z.replies = {}
    BY <1>2
  <2>2. Answered(z)'
    BY <2>1 DEF Answered
  <2>3. Len(z.replies) <= Len(z.ids) /\ Len(z.todo) + Len(z.replies) = Len(z.ids)
    BY <1>2, <2>1
  <2>4. \A k \in DOMAIN z.todo : z.todo[k] = z.ids[Len(z.replies) + k] /\ executed'[z.todo[k]] = 0
    <3>1. \A k \in DOMAIN s : k \in Nat /\ 0 + k = k
      OBVIOUS
    <3>. QED
      BY <1>2, <2>1, <3>1
  <2>. QED
    BY <1>2, <2>2, <2>3, <2>4 DEF RequestInv
<1>6. ASSUME NEW x \in xhrs PROVE RequestInv(x)'
  <2>1. x \in Requests /\ RequestInv(x)
    BY DEF RpcInv, RpcTypes
  <2>2. \A i \in Rpc!Within(x) : i \in Rpc!Ids /\ Rpc!UnderWay(i)
    BY <2>1, RequestTypes DEF Rpc!UnderWay
  <2>. QED
    BY <2>1, <2>2, RequestStays
<1>7. Apart'
  <2>1. \A x \in xhrs : Rpc!Within(x) \cap Rpc!Within(z) = {}
    BY <1>4 DEF Rpc!UnderWay
  <2>2. Apart
    BY DEF RpcInv
  <2>. QED
    BY <1>3, <2>1, <2>2 DEF Apart
<1>8. \A i : IsSent(i)' <=> IsSent(i) \/ \E k \in DOMAIN s : s[k] = i
  BY <1>2, <1>3, <1>4 DEF IsSent
<1>9. \A i : Rpc!UnderWay(i)' <=> Rpc!UnderWay(i) \/ \E k \in DOMAIN s : s[k] = i
  BY <1>3, <1>4 DEF Rpc!UnderWay
<1>. QED
  BY <1>2, <1>3, <1>5, <1>6, <1>7, <1>8, <1>9

LEMMA MakeStep ==
  ASSUME RpcInv, NEW c \in Fns, Rpc!Make(c)
  PROVE  RpcInv'
<1>. DEFINE i == Rpc!Id(c)
            p == Rpc!Probe(c)
<1>1. /\ i \in Rpc!Ids /\ p \in Rpc!Ids /\ i # p
      /\ \A d \in Fns : d # c => {Rpc!Id(d), Rpc!Probe(d)} \cap {i, p} = {}
  BY IdFacts
<1>2. /\ call[i] = "idle" /\ ~Rpc!UnderWay(i) /\ ~Rpc!UnderWay(p)
      /\ executed' = [executed EXCEPT ![i] = 0, ![p] = 0]
      /\ got' = [got EXCEPT ![i] = Rpc!Nobody, ![p] = Rpc!Nobody]
      /\ UNCHANGED <<visible, alive, trouble>>
  BY DEF Rpc!Make
<1>3. \/ /\ call' = [call EXCEPT ![i] = "sent", ![p] = "idle"]
         /\ xhrs' = xhrs \cup {Rpc!Request(<<i>>)}
         /\ UNCHANGED <<requests, frame>>
      \/ /\ call' = [call EXCEPT ![i] = "queued", ![p] = "idle"]
         /\ requests' = Append(requests, i)
         /\ frame' = TRUE
         /\ UNCHANGED xhrs
  BY DEF Rpc!Make
<1>. HIDE DEF i, p
<1>4. /\ CallInv(i) /\ CallInv(p) /\ RpcTypes
      /\ call[p] \notin {"queued", "sent"}
      /\ ~IsQueued(i) /\ ~IsSent(i) /\ ~IsQueued(p) /\ ~IsSent(p)
  <2>1. ProbeInv(c) /\ CallInv(i) /\ CallInv(p) /\ RpcTypes
    BY <1>1 DEF RpcInv
  <2>. QED
    BY <1>2, <2>1 DEF CallInv, ProbeInv, i, p
<1>5. /\ executed' \in [Rpc!Ids -> Nat] /\ executed'[i] = 0 /\ executed'[p] = 0
      /\ got' \in [Rpc!Ids -> Rpc!Ids \cup {Rpc!Nobody}]
      /\ \A j \in Rpc!Ids \ {i, p} : executed'[j] = executed[j] /\ got'[j] = got[j]
      /\ \A j \in Rpc!Ids : Rpc!UnderWay(j) => executed'[j] = executed[j]
  BY <1>1, <1>2, <1>4 DEF RpcTypes
<1>6. ASSUME NEW s \in {"queued", "sent"},
             call' = [call EXCEPT ![i] = s, ![p] = "idle"],
             \A j \in Rpc!Ids : IsQueued(j)' <=> IsQueued(j) \/ (s = "queued" /\ j = i),
             \A j \in Rpc!Ids : IsSent(j)' <=> IsSent(j) \/ (s = "sent" /\ j = i),
             \A j \in Rpc!Ids : Rpc!UnderWay(j)' <=> Rpc!UnderWay(j) \/ (s = "sent" /\ j = i),
             s = "queued" => frame', frame => frame'
      PROVE  /\ \A j \in Rpc!Ids : CallInv(j)'
             /\ \A d \in Fns : ProbeInv(d)'
  <2>1. /\ call'[i] = s /\ call'[p] = "idle"
        /\ \A j \in Rpc!Ids \ {i, p} : call'[j] = call[j]
    BY <1>1, <1>4, <1>6 DEF RpcTypes
  <2>2. CallInv(i)'
    BY <1>1, <1>2, <1>4, <1>5, <1>6, <2>1 DEF CallInv
  <2>3. CallInv(p)'
    BY <1>1, <1>2, <1>4, <1>5, <1>6, <2>1 DEF CallInv
  <2>4. ASSUME NEW j \in Rpc!Ids \ {i, p} PROVE CallInv(j)'
    <3>1. CallInv(j)
      BY DEF RpcInv
    <3>2. /\ executed'[j] = executed[j] /\ got'[j] = got[j] /\ call'[j] = call[j]
          /\ (IsQueued(j)' <=> IsQueued(j)) /\ (IsSent(j)' <=> IsSent(j))
          /\ (Rpc!UnderWay(j)' <=> Rpc!UnderWay(j)) /\ (frame => frame')
      BY <1>5, <1>6, <2>1
    <3>. QED
      BY <3>1, <3>2 DEF CallInv
  <2>5. ProbeInv(c)'
    <3>1. /\ call'[Rpc!Id(c)] = s /\ call'[Rpc!Probe(c)] = "idle"
          /\ executed'[Rpc!Probe(c)] = 0 /\ ~Rpc!UnderWay(Rpc!Probe(c))'
      BY <1>1, <1>2, <1>5, <1>6, <2>1 DEF i, p
    <3>. QED
      BY <3>1 DEF ProbeInv
  <2>6. ASSUME NEW d \in Fns, d # c PROVE ProbeInv(d)'
    <3>1. ProbeInv(d) /\ Rpc!Id(d) \in Rpc!Ids \ {i, p} /\ Rpc!Probe(d) \in Rpc!Ids \ {i, p}
      BY <1>1, <2>6, IdFacts DEF RpcInv
    <3>. QED
      BY <1>5, <1>6, <2>1, <3>1 DEF ProbeInv
  <2>. QED
    BY <2>2, <2>3, <2>4, <2>5, <2>6
<1>7. CASE /\ call' = [call EXCEPT ![i] = "sent", ![p] = "idle"]
           /\ xhrs' = xhrs \cup {Rpc!Request(<<i>>)}
           /\ UNCHANGED <<requests, frame>>
  <2>1. PICK s : s = <<i>>
    OBVIOUS
  <2>2. s \in Seq(Rpc!Ids) /\ s # <<>> /\ DOMAIN s = {1} /\ s[1] = i
    BY <1>1, <2>1
  <2>3. /\ Injective(s)
        /\ \A k \in DOMAIN s : executed'[s[k]] = 0 /\ ~Rpc!UnderWay(s[k])
        /\ \A j : (\E k \in DOMAIN s : s[k] = j) <=> j = i
    BY <1>2, <1>5, <2>2 DEF Injective
  <2>4. xhrs' = xhrs \cup {Rpc!Request(s)}
    BY <1>7, <2>1
  <2>5. /\ xhrs' \subseteq Requests
        /\ \A x \in xhrs' : RequestInv(x)'
        /\ Apart'
        /\ \A j : IsSent(j)' <=> IsSent(j) \/ j = i
        /\ \A j : Rpc!UnderWay(j)' <=> Rpc!UnderWay(j) \/ j = i
    BY <1>2, <1>5, <2>2, <2>3, <2>4, RequestStarts
  <2>6. \A j : IsQueued(j)' <=> IsQueued(j)
    BY <1>7 DEF IsQueued
  <2>7. (\A j \in Rpc!Ids : CallInv(j)') /\ (\A d \in Fns : ProbeInv(d)')
    <3>1. PICK w : w = "sent"
      OBVIOUS
    <3>2. /\ w \in {"queued", "sent"} /\ call' = [call EXCEPT ![i] = w, ![p] = "idle"]
          /\ \A j \in Rpc!Ids : IsQueued(j)' <=> IsQueued(j) \/ (w = "queued" /\ j = i)
          /\ \A j \in Rpc!Ids : IsSent(j)' <=> IsSent(j) \/ (w = "sent" /\ j = i)
          /\ \A j \in Rpc!Ids : Rpc!UnderWay(j)' <=> Rpc!UnderWay(j) \/ (w = "sent" /\ j = i)
          /\ (w = "queued" => frame') /\ (frame => frame')
      BY <1>7, <2>5, <2>6, <3>1
    <3>. QED
      BY <1>6, <3>2
  <2>8. RpcTypes'
    BY <1>1, <1>2, <1>4, <1>5, <1>7, <2>5 DEF RpcTypes, Rpc!Waiting
  <2>. QED
    BY <1>7, <2>5, <2>7, <2>8 DEF RpcInv, Injective
<1>8. CASE /\ call' = [call EXCEPT ![i] = "queued", ![p] = "idle"]
           /\ requests' = Append(requests, i)
           /\ frame' = TRUE
           /\ UNCHANGED xhrs
  <2>1. /\ \A x \in xhrs' : RequestInv(x)'
        /\ Apart'
        /\ \A j : (IsSent(j)' <=> IsSent(j)) /\ (Rpc!UnderWay(j)' <=> Rpc!UnderWay(j))
    BY <1>2, <1>5, <1>8, RequestsStay
  <2>2. /\ requests' \in Seq(Rpc!Ids) /\ Len(requests) \in Nat
        /\ DOMAIN requests = 1 .. Len(requests) /\ DOMAIN requests' = 1 .. Len(requests) + 1
        /\ \A k \in 1 .. Len(requests) : requests'[k] = requests[k]
        /\ requests'[Len(requests) + 1] = i
    BY <1>1, <1>4, <1>8 DEF RpcTypes
  <2>3. \A k \in 1 .. Len(requests) + 1 : k \in 1 .. Len(requests) \/ k = Len(requests) + 1
    BY <2>2
  <2>4. \A j : IsQueued(j)' <=> IsQueued(j) \/ j = i
    BY <2>2, <2>3 DEF IsQueued
  <2>5. Injective(requests)'
    <3>1. Injective(requests) /\ \A k \in 1 .. Len(requests) : requests[k] # i
      BY <1>4, <2>2 DEF RpcInv, IsQueued
    <3>. QED
      BY <2>2, <2>3, <3>1 DEF Injective
  <2>6. (\A j \in Rpc!Ids : CallInv(j)') /\ (\A d \in Fns : ProbeInv(d)')
    <3>1. PICK w : w = "queued"
      OBVIOUS
    <3>2. /\ w \in {"queued", "sent"} /\ call' = [call EXCEPT ![i] = w, ![p] = "idle"]
          /\ \A j \in Rpc!Ids : IsQueued(j)' <=> IsQueued(j) \/ (w = "queued" /\ j = i)
          /\ \A j \in Rpc!Ids : IsSent(j)' <=> IsSent(j) \/ (w = "sent" /\ j = i)
          /\ \A j \in Rpc!Ids : Rpc!UnderWay(j)' <=> Rpc!UnderWay(j) \/ (w = "sent" /\ j = i)
          /\ (w = "queued" => frame') /\ (frame => frame')
      BY <1>8, <2>1, <2>4, <3>1
    <3>. QED
      BY <1>6, <3>2
  <2>7. RpcTypes'
    BY <1>1, <1>2, <1>4, <1>5, <1>8, <2>2 DEF RpcTypes, Rpc!Waiting
  <2>. QED
    BY <2>1, <2>5, <2>6, <2>7 DEF RpcInv
<1>. QED
  BY <1>3, <1>7, <1>8

LEMMA FlushStep ==
  ASSUME RpcInv, Rpc!Flush
  PROVE  RpcInv'
<1>1. /\ requests' = <<>> /\ frame' = FALSE
      /\ xhrs' = IF requests = <<>> THEN xhrs ELSE xhrs \cup {Rpc!Request(requests)}
      /\ call' = [i \in Rpc!Ids |-> IF call[i] = "queued" THEN "sent" ELSE call[i]]
      /\ UNCHANGED <<got, visible, executed, alive, trouble>>
  BY DEF Rpc!Flush
<1>2. RpcTypes /\ \A i \in Rpc!Ids : CallInv(i)
  BY DEF RpcInv
<1>3. /\ \A x \in xhrs' : RequestInv(x)'
      /\ Apart' /\ xhrs' \subseteq Requests
      /\ \A i : IsSent(i)' <=> IsSent(i) \/ IsQueued(i)
      /\ \A i : Rpc!UnderWay(i)' <=> Rpc!UnderWay(i) \/ IsQueued(i)
  <2>1. CASE requests = <<>>
    <3>1. UNCHANGED xhrs /\ (\A i : ~IsQueued(i)) /\ xhrs' \subseteq Requests
      BY <1>1, <1>2, <2>1 DEF IsQueued, RpcTypes
    <3>. QED
      BY <1>1, <3>1, RequestsStay
  <2>2. CASE requests # <<>>
    <3>1. PICK s : s = requests
      OBVIOUS
    <3>2. /\ s \in Seq(Rpc!Ids) /\ s # <<>> /\ Injective(s)
          /\ \A k \in DOMAIN s : s[k] \in Rpc!Ids /\ IsQueued(s[k])
          /\ \A i : IsQueued(i) <=> \E k \in DOMAIN s : s[k] = i
          /\ xhrs' = xhrs \cup {Rpc!Request(s)}
      BY <1>1, <1>2, <2>2, <3>1 DEF RpcInv, RpcTypes, IsQueued
    <3>3. \A k \in DOMAIN s : executed'[s[k]] = 0 /\ ~Rpc!UnderWay(s[k])
      BY <1>1, <1>2, <3>2 DEF CallInv
    <3>. QED
      BY <1>1, <3>2, <3>3, RequestStarts
  <2>. QED
    BY <2>1, <2>2
<1>4. \A i : ~IsQueued(i)'
  BY <1>1 DEF IsQueued
<1>5. \A i \in Rpc!Ids : call'[i] = IF call[i] = "queued" THEN "sent" ELSE call[i]
  BY <1>1
<1>6. ASSUME NEW i \in Rpc!Ids PROVE CallInv(i)'
  BY <1>1, <1>2, <1>3, <1>4, <1>5 DEF CallInv
<1>7. ASSUME NEW c \in Fns PROVE ProbeInv(c)'
  <2>1. /\ ProbeInv(c) /\ Rpc!Id(c) \in Rpc!Ids /\ Rpc!Probe(c) \in Rpc!Ids
        /\ CallInv(Rpc!Probe(c))
    BY IdFacts, <1>2 DEF RpcInv
  <2>2. /\ (Rpc!UnderWay(Rpc!Probe(c))' <=> Rpc!UnderWay(Rpc!Probe(c)) \/ IsQueued(Rpc!Probe(c)))
        /\ executed'[Rpc!Probe(c)] = executed[Rpc!Probe(c)]
        /\ IsQueued(Rpc!Probe(c)) => call[Rpc!Probe(c)] = "queued"
    BY <1>1, <1>3, <2>1 DEF CallInv
  <2>. QED
    BY <1>5, <2>1, <2>2 DEF ProbeInv
<1>8. RpcTypes'
  <2>1. call' \in [Rpc!Ids -> {"idle"} \cup Rpc!Waiting \cup Rpc!Settled]
    BY <1>1, <1>2 DEF RpcTypes, Rpc!Waiting
  <2>2. requests' \in Seq(Rpc!Ids) /\ {frame', visible', alive', trouble'} \subseteq BOOLEAN
    <3>1. <<>> \in Seq(Rpc!Ids)
      OBVIOUS
    <3>2. ~frame' /\ {visible', alive', trouble'} \subseteq BOOLEAN
      BY <1>1, <1>2 DEF RpcTypes
    <3>. QED
      BY <1>1, <3>1, <3>2
  <2>3. executed' \in [Rpc!Ids -> Nat] /\ got' \in [Rpc!Ids -> Rpc!Ids \cup {Rpc!Nobody}]
    BY <1>1, <1>2 DEF RpcTypes
  <2>. QED
    BY <1>3, <2>1, <2>2, <2>3 DEF RpcTypes
<1>9. Injective(requests)'
  BY <1>1 DEF Injective
<1>. QED
  BY <1>3, <1>6, <1>7, <1>8, <1>9 DEF RpcInv

LEMMA ForgetStep ==
  ASSUME RpcInv, NEW c \in Fns, Rpc!Forget(c)
  PROVE  RpcInv'
<1>. DEFINE i == Rpc!Id(c)
            p == Rpc!Probe(c)
<1>1. /\ i \in Rpc!Ids /\ p \in Rpc!Ids /\ i # p
      /\ \A j \in Rpc!Ids : j.for = c => j = i \/ j = p
      /\ \A d \in Fns : d # c => {Rpc!Id(d), Rpc!Probe(d)} \cap {i, p} = {}
  BY IdFacts
<1>2. /\ call[i] \in Rpc!Settled
      /\ call' = [call EXCEPT ![i] = "idle", ![p] = "idle"]
      /\ got' = [got EXCEPT ![i] = Rpc!Nobody, ![p] = Rpc!Nobody]
      /\ executed' = [j \in Rpc!Ids |-> IF j.for = c /\ ~Rpc!UnderWay(j) THEN 0 ELSE executed[j]]
      /\ UNCHANGED <<requests, frame, visible, xhrs, alive, trouble>>
  BY DEF Rpc!Forget
<1>. HIDE DEF i, p
<1>3. RpcTypes /\ CallInv(i) /\ CallInv(p) /\ call[i] \notin Rpc!Waiting
      /\ call[p] \notin Rpc!Waiting
  <2>1. ProbeInv(c) /\ RpcTypes /\ CallInv(i) /\ CallInv(p)
    BY <1>1 DEF RpcInv
  <2>. QED
    BY <1>2, <2>1 DEF ProbeInv, Rpc!Settled, Rpc!Waiting, i, p
<1>4. /\ executed' \in [Rpc!Ids -> Nat]
      /\ \A j \in Rpc!Ids : executed'[j] \in {0, executed[j]}
      /\ \A j \in Rpc!Ids \ {i, p} : executed'[j] = executed[j]
      /\ \A j \in Rpc!Ids : Rpc!UnderWay(j) => executed'[j] = executed[j]
  BY <1>1, <1>2, <1>3 DEF RpcTypes
<1>5. /\ call' \in [Rpc!Ids -> {"idle"} \cup Rpc!Waiting \cup Rpc!Settled]
      /\ got' \in [Rpc!Ids -> Rpc!Ids \cup {Rpc!Nobody}]
      /\ call'[i] = "idle" /\ call'[p] = "idle"
      /\ \A j \in Rpc!Ids \ {i, p} : call'[j] = call[j] /\ got'[j] = got[j]
  BY <1>1, <1>2, <1>3 DEF RpcTypes
<1>6. /\ \A x \in xhrs' : RequestInv(x)'
      /\ Apart'
      /\ \A j : (IsSent(j)' <=> IsSent(j)) /\ (Rpc!UnderWay(j)' <=> Rpc!UnderWay(j))
  BY <1>2, <1>4, RequestsStay
<1>7. \A j : IsQueued(j)' <=> IsQueued(j)
  BY <1>2 DEF IsQueued
<1>8. ASSUME NEW j \in Rpc!Ids PROVE CallInv(j)'
  <2>1. CallInv(j) /\ executed'[j] \in {0, executed[j]}
        /\ (IsSent(j)' <=> IsSent(j)) /\ (Rpc!UnderWay(j)' <=> Rpc!UnderWay(j))
        /\ (IsQueued(j)' <=> IsQueued(j)) /\ frame' = frame
    BY <1>2, <1>4, <1>6, <1>7 DEF RpcInv
  <2>2. CASE j \in {i, p}
    <3>1. call'[j] = "idle" /\ call[j] \notin {"queued", "sent"}
      BY <1>3, <1>5, <2>2 DEF Rpc!Waiting
    <3>. QED
      BY <2>1, <3>1 DEF CallInv
  <2>3. CASE j \notin {i, p}
    <3>1. call'[j] = call[j] /\ got'[j] = got[j] /\ executed'[j] = executed[j]
      BY <1>4, <1>5, <2>3
    <3>. QED
      BY <2>1, <3>1 DEF CallInv
  <2>. QED
    BY <2>2, <2>3
<1>9. ASSUME NEW d \in Fns PROVE ProbeInv(d)'
  <2>1. CASE d = c
    BY <1>5, <2>1 DEF ProbeInv, i, p
  <2>2. CASE d # c
    <3>1. ProbeInv(d) /\ Rpc!Id(d) \in Rpc!Ids \ {i, p} /\ Rpc!Probe(d) \in Rpc!Ids \ {i, p}
      BY <1>1, <2>2, IdFacts DEF RpcInv
    <3>. QED
      BY <1>4, <1>5, <1>6, <3>1 DEF ProbeInv
  <2>. QED
    BY <2>1, <2>2
<1>. QED
  BY <1>2, <1>3, <1>4, <1>5, <1>6, <1>8, <1>9 DEF RpcInv, RpcTypes, Injective

LEMMA EndSessionStep ==
  ASSUME RpcInv, Rpc!EndSession
  PROVE  RpcInv'
<1>1. alive' = FALSE /\ UNCHANGED <<call, requests, frame, visible, xhrs, executed, got, trouble>>
  BY DEF Rpc!EndSession, Rpc!browser
<1>2. /\ \A x \in xhrs' : RequestInv(x)'
      /\ Apart'
      /\ \A i : (IsSent(i)' <=> IsSent(i)) /\ (Rpc!UnderWay(i)' <=> Rpc!UnderWay(i))
  BY <1>1, RequestsStay
<1>3. \A i \in Rpc!Ids : CallInv(i)'
  BY <1>1, <1>2 DEF RpcInv, CallInv, IsQueued
<1>4. \A c \in Fns : ProbeInv(c)'
  BY <1>1, <1>2 DEF RpcInv, ProbeInv
<1>. QED
  BY <1>1, <1>2, <1>3, <1>4 DEF RpcInv, RpcTypes, Injective

LEMMA TabStep ==
  ASSUME RpcInv, Rpc!HideTab \/ Rpc!ShowTab
  PROVE  RpcInv'
<1>1. visible' \in BOOLEAN
      /\ UNCHANGED <<call, requests, frame, xhrs, executed, got, alive, trouble>>
  BY DEF Rpc!HideTab, Rpc!ShowTab, Rpc!browser
<1>2. /\ \A x \in xhrs' : RequestInv(x)'
      /\ Apart'
      /\ \A i : (IsSent(i)' <=> IsSent(i)) /\ (Rpc!UnderWay(i)' <=> Rpc!UnderWay(i))
  BY <1>1, RequestsStay
<1>3. \A i \in Rpc!Ids : CallInv(i)'
  BY <1>1, <1>2 DEF RpcInv, CallInv, IsQueued
<1>4. \A c \in Fns : ProbeInv(c)'
  BY <1>1, <1>2 DEF RpcInv, ProbeInv
<1>. QED
  BY <1>1, <1>2, <1>3, <1>4 DEF RpcInv, RpcTypes, Injective

-----------------------------------------------------------------------------
(* The outcome of a request.                                               *)

\* What a joined sequence holds.
LEMMA Joined ==
  ASSUME NEW S, NEW s \in Seq(S), NEW t \in Seq(S)
  PROVE  /\ s \o t \in Seq(S)
         /\ \A e : (\E k \in DOMAIN (s \o t) : (s \o t)[k] = e)
                     <=> (\E k \in DOMAIN s : s[k] = e) \/ (\E k \in DOMAIN t : t[k] = e)
         /\ Injective(s) /\ Injective(t)
              /\ (\A j \in DOMAIN s, k \in DOMAIN t : s[j] # t[k]) => Injective(s \o t)
<1>. DEFINE u == s \o t
            m == Len(s)
            n == Len(t)
<1>1. /\ u \in Seq(S) /\ m \in Nat /\ n \in Nat /\ Len(u) = m + n
      /\ DOMAIN u = 1 .. m + n /\ DOMAIN s = 1 .. m /\ DOMAIN t = 1 .. n
      /\ \A k \in 1 .. m : u[k] = s[k]
      /\ \A k \in 1 .. n : u[m + k] = t[k]
  OBVIOUS
<1>2. \A k \in 1 .. m + n : k \in 1 .. m \/ (k - m \in 1 .. n /\ u[k] = t[k - m] /\ k = m + (k - m))
  BY <1>1
<1>3. (\A k \in 1 .. m : k \in 1 .. m + n) /\ (\A k \in 1 .. n : m + k \in 1 .. m + n)
  BY <1>1
<1>. HIDE DEF u, m, n
<1>4. \A e : (\E k \in DOMAIN u : u[k] = e)
               <=> (\E k \in DOMAIN s : s[k] = e) \/ (\E k \in DOMAIN t : t[k] = e)
  BY <1>1, <1>2, <1>3
<1>5. ASSUME Injective(s), Injective(t), \A j \in DOMAIN s, k \in DOMAIN t : s[j] # t[k]
      PROVE  Injective(u)
  <2>. SUFFICES ASSUME NEW j \in 1 .. m + n, NEW k \in 1 .. m + n, u[j] = u[k]
                PROVE  j = k
    BY <1>1 DEF Injective
  <2>1. CASE j \in 1 .. m /\ k \in 1 .. m
    BY <1>1, <1>5, <2>1 DEF Injective
  <2>2. CASE j \notin 1 .. m /\ k \notin 1 .. m
    <3>1. /\ j - m \in 1 .. n /\ u[j] = t[j - m] /\ k - m \in 1 .. n /\ u[k] = t[k - m]
          /\ j = m + (j - m) /\ k = m + (k - m)
      BY <1>2, <2>2
    <3>2. j - m = k - m
      BY <1>1, <1>5, <3>1 DEF Injective
    <3>. QED
      BY <3>1, <3>2
  <2>3. ASSUME NEW a \in 1 .. m + n, NEW b \in 1 .. m + n, a \in 1 .. m, b \notin 1 .. m
        PROVE  u[a] # u[b]
    <3>1. u[a] = s[a] /\ a \in DOMAIN s /\ b - m \in DOMAIN t /\ u[b] = t[b - m]
      BY <1>1, <1>2, <2>3
    <3>. QED
      BY <1>5, <3>1
  <2>. QED
    BY <2>1, <2>2, <2>3
<1>. QED
  BY <1>1, <1>4, <1>5 DEF u

\* The outcome z of a request x: what the server said, or that it failed.
IsOutcome(x, z) ==
  /\ z \in Requests /\ z.ids = x.ids /\ z.replies = x.replies
  /\ z.leg = "back" => x.leg = "back"

LEMMA ReplyFacts ==
  ASSUME RpcInv, NEW x \in xhrs, NEW z, IsOutcome(x, z), NEW i \in Rpc!Within(x)
  PROVE  /\ i \in Rpc!Within(z)
         /\ Rpc!ReplyTo(z, i).granted \in BOOLEAN
         /\ z.leg # "back" => Rpc!ReplyTo(z, i).id = Rpc!Nobody /\ ~Rpc!ReplyTo(z, i).granted
         /\ z.leg = "back" =>
              /\ Rpc!ReplyTo(z, i).id = i
              /\ Rpc!ReplyTo(z, i).granted => executed[i] = 1
              /\ ~Rpc!ReplyTo(z, i).granted /\ i.probe => ~alive
<1>1. /\ x \in Requests /\ RequestInv(x) /\ z \in Requests
      /\ z.ids = x.ids /\ z.replies = x.replies
      /\ z.leg = "back" => x.leg = "back"
  BY DEF RpcInv, RpcTypes, IsOutcome
<1>2. PICK k : k = CHOOSE j \in DOMAIN z.ids : z.ids[j] = i
  OBVIOUS
<1>3. k \in DOMAIN x.ids /\ x.ids[k] = i /\ i \in Rpc!Within(z)
  <2>1. \E j \in DOMAIN z.ids : z.ids[j] = i
    BY <1>1, RequestTypes
  <2>. QED
    BY <1>1, <1>2, <2>1, RequestTypes
<1>4. Rpc!ReplyTo(z, i) = IF z.leg = "back" /\ k \in DOMAIN z.replies
                          THEN z.replies[k] ELSE [id |-> Rpc!Nobody, granted |-> FALSE]
  BY <1>2 DEF Rpc!ReplyTo
<1>5. CASE z.leg = "back"
  <2>1. DOMAIN x.replies = DOMAIN x.ids
    <3>1. Len(x.replies) = Len(x.ids)
      BY <1>1, <1>5 DEF RequestInv
    <3>. QED
      BY <1>1, <3>1, RequestTypes
  <2>2. Rpc!ReplyTo(z, i) = x.replies[k] /\ x.replies[k] \in Rpc!Replies
    <3>1. x.replies \in Seq(Rpc!Replies) /\ k \in DOMAIN x.replies
      BY <1>1, <1>3, <2>1, RequestTypes
    <3>2. x.replies[k] \in Rpc!Replies
      BY <3>1
    <3>. QED
      BY <1>1, <1>4, <1>5, <3>1, <3>2
  <2>3. /\ x.replies[k].id = i /\ x.replies[k].granted \in BOOLEAN
        /\ executed[i] = IF x.replies[k].granted THEN 1 ELSE 0
        /\ ~x.replies[k].granted /\ i.probe => ~alive
    BY <1>1, <1>3, <2>1, <2>2 DEF RequestInv, Answered, Rpc!Replies
  <2>. QED
    BY <1>3, <1>5, <2>2, <2>3
<1>6. CASE z.leg # "back"
  BY <1>3, <1>4, <1>6
<1>. QED
  BY <1>5, <1>6

\* What becomes of a call and its probe.
LEMMA OutcomeFacts ==
  ASSUME RpcInv, NEW x \in xhrs, NEW z, IsOutcome(x, z), NEW c \in Fns
  PROVE  LET i == Rpc!Id(c)
             p == Rpc!Probe(c)
             W == Rpc!Within(x)
         IN  /\ i \in W => /\ Rpc!Outcome(z, i) \in {"resolved", "asking", "rejected"}
                           /\ Rpc!Outcome(z, i) = "resolved" => Rpc!ReplyTo(z, i).granted
             /\ p \in W => /\ Rpc!Outcome(z, p) \in {"resolved", "rejected"}
                           /\ Rpc!Outcome(z, p) = "resolved" <=> Rpc!ReplyTo(z, p).granted
             /\ i \notin W => Rpc!Outcome(z, i) = IF p \in W THEN "rejected" ELSE call[i]
             /\ p \notin W => Rpc!Outcome(z, p) = IF i \in W /\ Rpc!Outcome(z, i) = "asking"
                                                  THEN "queued" ELSE call[p]
<1>. DEFINE i == Rpc!Id(c)
            p == Rpc!Probe(c)
            W == Rpc!Within(x)
            asks == i \in W /\ Rpc!ReplyTo(z, i).id # Rpc!Nobody /\ ~Rpc!ReplyTo(z, i).granted
<1>1. Rpc!Within(z) = W
  BY DEF IsOutcome, Rpc!Within
<1>2. ~i.probe /\ p.probe /\ i.for = c /\ p.for = c /\ i \in Rpc!Ids /\ p \in Rpc!Ids
  BY IdFacts
<1>3. \A j \in {i, p} :
        Rpc!Outcome(z, j) =
          IF j \in W
          THEN IF Rpc!ReplyTo(z, j).granted THEN "resolved"
               ELSE IF ~j.probe /\ asks THEN "asking" ELSE "rejected"
          ELSE IF ~j.probe /\ p \in W THEN "rejected"
          ELSE IF j.probe /\ asks THEN "queued"
          ELSE call[j]
  BY <1>1, <1>2 DEF Rpc!Outcome
<1>. HIDE DEF asks
<1>4. asks => i \in W /\ ~Rpc!ReplyTo(z, i).granted
  BY DEF asks
<1>. HIDE DEF i, p, W
<1>5. /\ i \in W => Rpc!Outcome(z, i) = IF Rpc!ReplyTo(z, i).granted THEN "resolved"
                                        ELSE IF asks THEN "asking" ELSE "rejected"
      /\ p \in W => Rpc!Outcome(z, p) = IF Rpc!ReplyTo(z, p).granted THEN "resolved" ELSE "rejected"
      /\ i \notin W => Rpc!Outcome(z, i) = IF p \in W THEN "rejected" ELSE call[i]
      /\ p \notin W => Rpc!Outcome(z, p) = IF asks THEN "queued" ELSE call[p]
  BY <1>2, <1>3
<1>6. asks <=> i \in W /\ Rpc!Outcome(z, i) = "asking"
  BY <1>4, <1>5
<1>7. /\ i \in W => /\ Rpc!Outcome(z, i) \in {"resolved", "asking", "rejected"}
                    /\ Rpc!Outcome(z, i) = "resolved" => Rpc!ReplyTo(z, i).granted
      /\ p \in W => /\ Rpc!Outcome(z, p) \in {"resolved", "rejected"}
                    /\ Rpc!Outcome(z, p) = "resolved" <=> Rpc!ReplyTo(z, p).granted
      /\ i \notin W => Rpc!Outcome(z, i) = IF p \in W THEN "rejected" ELSE call[i]
      /\ p \notin W => Rpc!Outcome(z, p) = IF i \in W /\ Rpc!Outcome(z, i) = "asking"
                                           THEN "queued" ELSE call[p]
  BY <1>5, <1>6
<1>. QED
  BY <1>7 DEF i, p, W

\* The probes of a request are those of its calls that ask, each once.
LEMMA ProbesFacts ==
  ASSUME RpcInv, NEW x \in xhrs, NEW z, IsOutcome(x, z)
  PROVE  /\ Rpc!Probes(z) \in Seq(Rpc!Ids)
         /\ Injective(Rpc!Probes(z))
         /\ \A i : (\E k \in DOMAIN Rpc!Probes(z) : Rpc!Probes(z)[k] = i)
                     <=> \E c \in Fns : /\ i = Rpc!Probe(c) /\ Rpc!Id(c) \in Rpc!Within(x)
                                        /\ Rpc!Outcome(z, Rpc!Id(c)) = "asking"
         /\ Rpc!Asking(z) # {} <=> \E c \in Fns : /\ Rpc!Id(c) \in Rpc!Within(x)
                                                  /\ Rpc!Outcome(z, Rpc!Id(c)) = "asking"
<1>. DEFINE A == Rpc!Asking(z)
            n == Cardinality(A)
            s == Rpc!InOrder(A)
            q == Rpc!Probes(z)
<1>1. /\ x \in Requests /\ RequestInv(x) /\ z \in Requests /\ z.ids = x.ids
      /\ Len(x.ids) \in Nat /\ DOMAIN x.ids = 1 .. Len(x.ids)
      /\ \A k \in DOMAIN x.ids : x.ids[k] \in Rpc!Ids /\ x.ids[k] \in Rpc!Within(x)
      /\ \A i \in Rpc!Within(x) : \E k \in DOMAIN x.ids : x.ids[k] = i
  <2>1. x \in Requests /\ RequestInv(x) /\ z \in Requests /\ z.ids = x.ids
    BY DEF RpcInv, RpcTypes, IsOutcome
  <2>. QED
    BY <2>1, RequestTypes
<1>2. A = {k \in DOMAIN x.ids : Rpc!Outcome(z, x.ids[k]) = "asking"}
  BY <1>1 DEF Rpc!Asking
<1>3. A \in SUBSET (1 .. Len(x.ids))
  BY <1>1, <1>2
<1>4. n \in Nat /\ Enumerates(s, n, A)
  BY <1>1, <1>3, EnumerationIsOnto
<1>5. q = [j \in DOMAIN s |-> Rpc!Probe(x.ids[s[j]].for)]
  BY <1>1 DEF Rpc!Probes
<1>. HIDE DEF A, n, s, q
<1>6. /\ DOMAIN s = 1 .. n /\ \A j \in 1 .. n : s[j] \in A
      /\ \A j, k \in 1 .. n : j < k => s[j] < s[k]
      /\ \A k \in A : \E j \in 1 .. n : s[j] = k
  BY <1>4 DEF Enumerates
<1>7. ASSUME NEW k \in A
      PROVE  /\ k \in DOMAIN x.ids /\ x.ids[k].for \in Fns
             /\ x.ids[k] = Rpc!Id(x.ids[k].for)
             /\ Rpc!Outcome(z, x.ids[k]) = "asking"
  <2>1. k \in DOMAIN x.ids /\ Rpc!Outcome(z, x.ids[k]) = "asking"
        /\ x.ids[k] \in Rpc!Ids /\ x.ids[k] \in Rpc!Within(x)
    BY <1>1, <1>2
  <2>2. ~x.ids[k].probe
    <3>. SUFFICES ASSUME x.ids[k].probe PROVE FALSE
      OBVIOUS
    <3>1. x.ids[k].for \in Fns /\ x.ids[k] = Rpc!Probe(x.ids[k].for)
      BY <2>1, IdFacts
    <3>2. Rpc!Outcome(z, x.ids[k]) \in {"resolved", "rejected"}
      BY <2>1, <3>1, OutcomeFacts
    <3>. QED
      BY <2>1, <3>2
  <2>. QED
    BY <2>1, <2>2, IdFacts
<1>8. /\ DOMAIN q = 1 .. n
      /\ \A j \in 1 .. n : q[j] = Rpc!Probe(x.ids[s[j]].for) /\ q[j] \in Rpc!Ids
  BY <1>5, <1>6, <1>7, IdFacts
<1>9. q \in Seq(Rpc!Ids)
  BY <1>4, <1>5, <1>6, <1>8
<1>a. Injective(q)
  <2>. SUFFICES ASSUME NEW j \in 1 .. n, NEW k \in 1 .. n, q[j] = q[k]
                PROVE  j = k
    BY <1>8 DEF Injective
  <2>1. s[j] \in A /\ s[k] \in A
    BY <1>6
  <2>2. /\ x.ids[s[j]].for \in Fns /\ x.ids[s[k]].for \in Fns
        /\ x.ids[s[j]] = Rpc!Id(x.ids[s[j]].for) /\ x.ids[s[k]] = Rpc!Id(x.ids[s[k]].for)
        /\ s[j] \in DOMAIN x.ids /\ s[k] \in DOMAIN x.ids
    BY <1>7, <2>1
  <2>3. x.ids[s[j]].for = x.ids[s[k]].for
    BY <1>8, <2>2, IdFacts
  <2>4. s[j] = s[k]
    BY <1>1, <2>2, <2>3 DEF RequestInv, Injective
  <2>5. s[j] \in Nat /\ j \in Nat /\ k \in Nat
    BY <1>1, <1>4, <2>2
  <2>. QED
    BY <1>6, <2>4, <2>5
<1>b. ASSUME NEW c \in Fns
      PROVE  (\E k \in A : x.ids[k] = Rpc!Id(c))
                <=> Rpc!Id(c) \in Rpc!Within(x) /\ Rpc!Outcome(z, Rpc!Id(c)) = "asking"
  BY <1>1, <1>2
<1>c. ASSUME NEW i
      PROVE  (\E k \in DOMAIN q : q[k] = i)
                <=> \E c \in Fns : i = Rpc!Probe(c) /\ \E k \in A : x.ids[k] = Rpc!Id(c)
  <2>1. ASSUME NEW k \in DOMAIN q, q[k] = i
        PROVE  \E c \in Fns : i = Rpc!Probe(c) /\ \E l \in A : x.ids[l] = Rpc!Id(c)
    BY <1>6, <1>7, <1>8, <2>1
  <2>2. ASSUME NEW c \in Fns, i = Rpc!Probe(c), NEW k \in A, x.ids[k] = Rpc!Id(c)
        PROVE  \E l \in DOMAIN q : q[l] = i
    <3>1. PICK l \in 1 .. n : s[l] = k
      BY <1>6
    <3>2. x.ids[k].for = c
      BY <2>2, IdFacts
    <3>. QED
      BY <1>8, <2>2, <3>1, <3>2
  <2>. QED
    BY <2>1, <2>2
<1>d. A # {} <=> \E c \in Fns : \E k \in A : x.ids[k] = Rpc!Id(c)
  BY <1>7
<1>. QED
  BY <1>9, <1>a, <1>b, <1>c, <1>d DEF q, A

\* The browser learns the outcome z of the request x, which it has open.  A
\* request that it gives up may stay with the server.
LEMMA DeliverStep ==
  ASSUME RpcInv, NEW x \in xhrs, x.open, NEW z, IsOutcome(x, z), Rpc!Deliver(z),
         \/ xhrs' = xhrs \ {x}
         \/ /\ x.leg = "out" /\ z.leg = "error"
            /\ xhrs' = (xhrs \ {x}) \cup {[x EXCEPT !.open = FALSE]}
  PROVE  RpcInv'
<1>. DEFINE W == Rpc!Within(x)
            asking(c) == Rpc!Id(c) \in W /\ Rpc!Outcome(z, Rpc!Id(c)) = "asking"
<1>1. /\ RpcTypes /\ \A i \in Rpc!Ids : CallInv(i)
      /\ \A c \in Fns : ProbeInv(c)
      /\ x \in Requests /\ RequestInv(x)
      /\ \A i \in W : i \in Rpc!Ids
  <2>1. x \in Requests
    BY DEF RpcInv, RpcTypes
  <2>. QED
    BY <2>1, RequestTypes DEF RpcInv
<1>2. /\ call' = [i \in Rpc!Ids |-> Rpc!Outcome(z, i)]
      /\ got' = [i \in Rpc!Ids |-> IF i \in W THEN Rpc!ReplyTo(z, i).id ELSE got[i]]
      /\ requests' = requests \o Rpc!Probes(z)
      /\ frame' = (frame \/ Rpc!Asking(z) # {})
      /\ trouble' = (trouble \/ z.leg = "error")
      /\ UNCHANGED <<visible, executed, alive>>
  BY DEF Rpc!Deliver, Rpc!Within, IsOutcome
<1>. HIDE DEF W
\* The requests.
<1>3. PICK X \in SUBSET Requests :
        /\ xhrs' = (xhrs \ {x}) \cup X
        /\ \A y \in X : y.ids = x.ids /\ ~y.open /\ RequestInv(y)
        /\ \A y1, y2 \in X : y1 = y2
        /\ z.leg # "error" => X = {}
  <2>1. CASE xhrs' = xhrs \ {x}
    <3>. DEFINE none == {}
    <3>1. none \in SUBSET Requests /\ (\A y \in none : FALSE)
          /\ xhrs' = (xhrs \ {x}) \cup none /\ none = {}
      BY <2>1
    <3>. HIDE DEF none
    <3>. QED
      BY <3>1
  <2>2. CASE /\ x.leg = "out" /\ z.leg = "error"
             /\ xhrs' = (xhrs \ {x}) \cup {[x EXCEPT !.open = FALSE]}
    <3>1. PICK y : y = [x EXCEPT !.open = FALSE]
      OBVIOUS
    <3>2. /\ y \in Requests /\ y.ids = x.ids /\ ~y.open /\ y.leg = "out"
          /\ y.todo = x.todo /\ y.replies = x.replies
      BY <1>1, <2>2, <3>1 DEF Requests
    <3>3. Answered(y)
      BY <1>1, <3>2 DEF RequestInv, Answered
    <3>4. RequestInv(y)
      BY <1>1, <2>2, <3>2, <3>3 DEF RequestInv
    <3>. DEFINE one == {y}
    <3>5. /\ one \in SUBSET Requests /\ (\A w \in one : w = y)
          /\ xhrs' = (xhrs \ {x}) \cup one
      BY <2>2, <3>1, <3>2
    <3>. HIDE DEF one
    <3>. QED
      BY <2>2, <3>2, <3>4, <3>5
  <2>. QED
    BY <2>1, <2>2
<1>4. xhrs' \subseteq Requests
  BY <1>1, <1>3 DEF RpcTypes
<1>5. ASSUME NEW y \in xhrs' PROVE RequestInv(y)'
  <2>1. y \in Requests /\ RequestInv(y)
    BY <1>3, <1>4 DEF RpcInv
  <2>. QED
    BY <1>2, <2>1, RequestStays
<1>6. \A y \in X : Rpc!Within(y) = W
  BY <1>3 DEF W, Rpc!Within
<1>7. \A y \in xhrs : y # x => \A i \in Rpc!Within(y) : i \notin W
  BY DEF RpcInv, Apart, W
<1>8. Apart'
  <2>1. Apart
    BY DEF RpcInv
  <2>. QED
    BY <1>3, <1>6, <1>7, <2>1 DEF Apart
<1>9. \A i : IsSent(i)' <=> IsSent(i) /\ i \notin W
  BY <1>3, <1>6, <1>7 DEF IsSent, W
<1>a. \A i : /\ Rpc!UnderWay(i)' => Rpc!UnderWay(i)
             /\ z.leg = "back" /\ i \in W => ~Rpc!UnderWay(i)'
             /\ i \notin W => (Rpc!UnderWay(i)' <=> Rpc!UnderWay(i))
  BY <1>3, <1>6, <1>7 DEF Rpc!UnderWay, W
<1>b. \A i \in W : call[i] = "sent" /\ IsSent(i)
  <2>1. \A i \in W : IsSent(i)
    BY DEF IsSent, W
  <2>. QED
    BY <1>1, <2>1 DEF CallInv
\* The queue.
<1>p. /\ requests \in Seq(Rpc!Ids) /\ Injective(requests)
      /\ Rpc!Probes(z) \in Seq(Rpc!Ids) /\ Injective(Rpc!Probes(z))
      /\ \A i : (\E k \in DOMAIN Rpc!Probes(z) : Rpc!Probes(z)[k] = i)
                  <=> \E c \in Fns : i = Rpc!Probe(c) /\ asking(c)
      /\ Rpc!Asking(z) # {} <=> \E c \in Fns : asking(c)
  <2>1. requests \in Seq(Rpc!Ids) /\ Injective(requests)
    BY DEF RpcInv, RpcTypes
  <2>2. Rpc!Probes(z) \in Seq(Rpc!Ids) /\ Injective(Rpc!Probes(z))
    BY ProbesFacts
  <2>3. /\ \A i : (\E k \in DOMAIN Rpc!Probes(z) : Rpc!Probes(z)[k] = i)
                     <=> \E c \in Fns : /\ i = Rpc!Probe(c) /\ Rpc!Id(c) \in Rpc!Within(x)
                                        /\ Rpc!Outcome(z, Rpc!Id(c)) = "asking"
        /\ Rpc!Asking(z) # {} <=> \E c \in Fns : /\ Rpc!Id(c) \in Rpc!Within(x)
                                                  /\ Rpc!Outcome(z, Rpc!Id(c)) = "asking"
    BY ProbesFacts
  <2>4. \A c : asking(c) <=> /\ Rpc!Id(c) \in Rpc!Within(x)
                             /\ Rpc!Outcome(z, Rpc!Id(c)) = "asking"
    BY DEF W
  <2>. HIDE DEF asking
  <2>. QED
    BY <2>1, <2>2, <2>3, <2>4
<1>c. /\ requests' \in Seq(Rpc!Ids)
      /\ \A i : IsQueued(i)' <=> IsQueued(i) \/ \E c \in Fns : i = Rpc!Probe(c) /\ asking(c)
      /\ \A c \in Fns : asking(c) => frame'
      /\ frame => frame'
  <2>0. requests \in Seq(Rpc!Ids) /\ Rpc!Probes(z) \in Seq(Rpc!Ids)
    BY <1>p
  <2>1. /\ requests \o Rpc!Probes(z) \in Seq(Rpc!Ids)
        /\ \A i : (\E k \in DOMAIN (requests \o Rpc!Probes(z)) : (requests \o Rpc!Probes(z))[k] = i)
                    <=> \/ \E k \in DOMAIN requests : requests[k] = i
                        \/ \E k \in DOMAIN Rpc!Probes(z) : Rpc!Probes(z)[k] = i
    BY <2>0, Joined
  <2>. HIDE DEF asking
  <2>2. \A i : IsQueued(i)' <=> IsQueued(i) \/ \E c \in Fns : i = Rpc!Probe(c) /\ asking(c)
    BY <1>2, <1>p, <2>1 DEF IsQueued
  <2>. QED
    BY <1>2, <1>p, <2>1, <2>2
<1>d. ASSUME NEW c \in Fns, asking(c)
      PROVE  /\ Rpc!Probe(c) \notin W /\ call[Rpc!Probe(c)] = "idle"
             /\ ~IsQueued(Rpc!Probe(c)) /\ ~IsSent(Rpc!Probe(c))
             /\ executed[Rpc!Probe(c)] = 0 /\ ~Rpc!UnderWay(Rpc!Probe(c))
  <2>1. /\ ProbeInv(c) /\ CallInv(Rpc!Probe(c)) /\ Rpc!Id(c) \in W
        /\ call[Rpc!Id(c)] = "sent"
    BY <1>1, <1>b, <1>d, IdFacts
  <2>2. /\ call[Rpc!Probe(c)] = "idle" /\ executed[Rpc!Probe(c)] = 0
        /\ ~Rpc!UnderWay(Rpc!Probe(c))
    BY <2>1 DEF ProbeInv
  <2>. QED
    BY <1>b, <2>1, <2>2 DEF CallInv
<1>e. Injective(requests)'
  <2>. HIDE DEF asking
  <2>2. \A j \in DOMAIN requests, k \in DOMAIN Rpc!Probes(z) : requests[j] # Rpc!Probes(z)[k]
    <3>. SUFFICES ASSUME NEW j \in DOMAIN requests, NEW k \in DOMAIN Rpc!Probes(z),
                         requests[j] = Rpc!Probes(z)[k]
                  PROVE  FALSE
      OBVIOUS
    <3>1. PICK c \in Fns : Rpc!Probes(z)[k] = Rpc!Probe(c) /\ asking(c)
      BY <1>p
    <3>2. ~IsQueued(Rpc!Probe(c))
      BY <1>d, <3>1
    <3>. QED
      BY <3>1, <3>2 DEF IsQueued
  <2>3. Injective(requests \o Rpc!Probes(z))
    BY <1>p, <2>2, Joined
  <2>. QED
    BY <1>2, <2>3 DEF Injective

\* The calls.
<1>f. \A i \in Rpc!Ids : /\ call'[i] = Rpc!Outcome(z, i)
                         /\ got'[i] = IF i \in W THEN Rpc!ReplyTo(z, i).id ELSE got[i]
                         /\ executed'[i] = executed[i]
  BY <1>2
<1>g. \A i \in W : /\ Rpc!ReplyTo(z, i).granted =>
                        z.leg = "back" /\ Rpc!ReplyTo(z, i).id = i /\ executed[i] = 1
                   /\ Rpc!ReplyTo(z, i).id \in Rpc!Ids \cup {Rpc!Nobody}
  BY <1>1, ReplyFacts DEF W
<1>h. ASSUME NEW c \in Fns
      PROVE  /\ CallInv(Rpc!Id(c))' /\ CallInv(Rpc!Probe(c))' /\ ProbeInv(c)'
             /\ call'[Rpc!Id(c)] \in {call[Rpc!Id(c)], "resolved", "asking", "rejected"}
             /\ call'[Rpc!Probe(c)] \in {call[Rpc!Probe(c)], "resolved", "queued", "rejected"}
  <2>. DEFINE i == Rpc!Id(c)
              p == Rpc!Probe(c)
  <2>1. /\ i \in Rpc!Ids /\ p \in Rpc!Ids
        /\ CallInv(i) /\ CallInv(p) /\ ProbeInv(c)
        /\ \A d \in Fns : p = Rpc!Probe(d) => d = c
        /\ \A d \in Fns : i # Rpc!Probe(d)
    BY <1>1, IdFacts
  <2>2. /\ i \in W => /\ Rpc!Outcome(z, i) \in {"resolved", "asking", "rejected"}
                      /\ Rpc!Outcome(z, i) = "resolved" => Rpc!ReplyTo(z, i).granted
        /\ p \in W => /\ Rpc!Outcome(z, p) \in {"resolved", "rejected"}
                      /\ Rpc!Outcome(z, p) = "resolved" => Rpc!ReplyTo(z, p).granted
        /\ i \notin W => Rpc!Outcome(z, i) = IF p \in W THEN "rejected" ELSE call[i]
        /\ p \notin W => Rpc!Outcome(z, p) = IF i \in W /\ Rpc!Outcome(z, i) = "asking"
                                             THEN "queued" ELSE call[p]
    BY OutcomeFacts DEF W
  <2>3. /\ IsQueued(i)' <=> IsQueued(i)
        /\ IsQueued(p)' <=> IsQueued(p) \/ asking(c)
    <3>. HIDE DEF asking
    <3>. QED
      BY <1>c, <2>1
  <2>4. /\ call[p] # "asking" /\ (call[i] = "asking" <=> call[p] \in {"queued", "sent"})
        /\ call[i] \in {"queued", "sent"} =>
             call[p] = "idle" /\ executed[p] = 0 /\ ~Rpc!UnderWay(p)
    BY <2>1 DEF ProbeInv
  <2>5. asking(c) <=> i \in W /\ call'[i] = "asking"
    BY <1>f, <2>1
  <2>6. asking(c) => frame'
    BY <1>c
  <2>. HIDE DEF asking, i, p
  <2>7. CASE i \in W
    <3>1. call[i] = "sent" /\ p \notin W /\ call[p] = "idle"
      BY <1>b, <2>4, <2>7
    <3>2. /\ call'[i] \in {"resolved", "asking", "rejected"}
          /\ call'[i] = "resolved" => /\ z.leg = "back" /\ got'[i] = i /\ executed[i] = 1
                                      /\ ~Rpc!UnderWay(i)'
          /\ call'[p] = IF call'[i] = "asking" THEN "queued" ELSE "idle"
          /\ ~IsQueued(i)'
      BY <1>a, <1>f, <1>g, <2>1, <2>2, <2>3, <2>7, <3>1 DEF CallInv
    <3>3. ~IsSent(i)' /\ ~IsSent(p)' /\ ~IsQueued(p) /\ executed[p] = 0 /\ ~Rpc!UnderWay(p)
          /\ ~Rpc!UnderWay(p)'
      BY <1>9, <1>a, <2>1, <2>4, <2>7, <3>1 DEF CallInv
    <3>4. CallInv(i)'
      BY <1>f, <2>1, <3>2, <3>3 DEF CallInv
    <3>5. CallInv(p)'
      BY <1>f, <2>1, <2>3, <2>5, <2>6, <2>7, <3>2, <3>3 DEF CallInv
    <3>6. ProbeInv(c)'
      BY <3>2 DEF ProbeInv, i, p
    <3>. QED
      BY <3>2, <3>4, <3>5, <3>6, <3>1 DEF i, p
  <2>8. CASE i \notin W /\ p \in W
    <3>1. call[p] = "sent" /\ call[i] = "asking" /\ ~asking(c)
      BY <1>b, <2>4, <2>5, <2>8
    <3>2. /\ call'[i] = "rejected"
          /\ call'[p] \in {"resolved", "rejected"}
          /\ call'[p] = "resolved" => /\ z.leg = "back" /\ got'[p] = p /\ executed[p] = 1
                                      /\ ~Rpc!UnderWay(p)'
      BY <1>a, <1>f, <1>g, <2>1, <2>2, <2>8
    <3>3. /\ ~IsSent(i)' /\ ~IsSent(p)' /\ ~IsQueued(i)' /\ ~IsQueued(p)'
      BY <1>9, <2>1, <2>3, <2>8, <3>1 DEF CallInv
    <3>4. CallInv(i)'
      BY <1>f, <2>1, <3>2, <3>3 DEF CallInv
    <3>5. CallInv(p)'
      BY <1>f, <2>1, <3>2, <3>3 DEF CallInv
    <3>6. ProbeInv(c)'
      BY <3>2 DEF ProbeInv, i, p
    <3>. QED
      BY <3>2, <3>4, <3>5, <3>6 DEF i, p
  <2>9. CASE i \notin W /\ p \notin W
    <3>1. ~asking(c) /\ call'[i] = call[i] /\ call'[p] = call[p]
      BY <1>f, <2>1, <2>2, <2>5, <2>9
    <3>2. /\ (IsQueued(i)' <=> IsQueued(i)) /\ (IsQueued(p)' <=> IsQueued(p))
          /\ (IsSent(i)' <=> IsSent(i)) /\ (IsSent(p)' <=> IsSent(p))
          /\ (Rpc!UnderWay(i)' <=> Rpc!UnderWay(i)) /\ (Rpc!UnderWay(p)' <=> Rpc!UnderWay(p))
          /\ executed'[i] = executed[i] /\ executed'[p] = executed[p]
          /\ got'[i] = got[i] /\ got'[p] = got[p] /\ (frame => frame')
      BY <1>9, <1>a, <1>c, <1>f, <2>1, <2>3, <2>9, <3>1
    <3>3. CallInv(i)'
      BY <2>1, <3>1, <3>2 DEF CallInv
    <3>4. CallInv(p)'
      BY <2>1, <3>1, <3>2 DEF CallInv
    <3>5. ProbeInv(c)'
      BY <2>4, <3>1, <3>2 DEF ProbeInv, i, p
    <3>. QED
      BY <3>1, <3>3, <3>4, <3>5 DEF i, p
  <2>. QED
    BY <2>7, <2>8, <2>9
<1>i. ASSUME NEW i \in Rpc!Ids
      PROVE  CallInv(i)' /\ call'[i] \in {"idle"} \cup Rpc!Waiting \cup Rpc!Settled
  <2>1. call[i] \in {"idle"} \cup Rpc!Waiting \cup Rpc!Settled
    BY <1>1 DEF RpcTypes
  <2>2. PICK c \in Fns : i = Rpc!Id(c) \/ i = Rpc!Probe(c)
    BY IdFacts
  <2>3. CallInv(i)' /\ call'[i] \in {call[i], "resolved", "asking", "rejected", "queued"}
    BY <1>h, <2>2
  <2>. QED
    BY <2>1, <2>3 DEF Rpc!Waiting, Rpc!Settled
<1>j. RpcTypes'
  <2>1. call' \in [Rpc!Ids -> {"idle"} \cup Rpc!Waiting \cup Rpc!Settled]
    BY <1>2, <1>f, <1>i
  <2>2. got' \in [Rpc!Ids -> Rpc!Ids \cup {Rpc!Nobody}]
    BY <1>1, <1>2, <1>g DEF RpcTypes
  <2>3. {frame', visible', alive', trouble'} \subseteq BOOLEAN
    BY <1>1, <1>2 DEF RpcTypes
  <2>4. executed' \in [Rpc!Ids -> Nat]
    BY <1>1, <1>2 DEF RpcTypes
  <2>. QED
    BY <1>4, <1>c, <2>1, <2>2, <2>3, <2>4 DEF RpcTypes
<1>. QED
  BY <1>5, <1>8, <1>e, <1>h, <1>i, <1>j DEF RpcInv

LEMMA ReceiveStep ==
  ASSUME RpcInv, NEW x \in xhrs, Rpc!Receive(x)
  PROVE  RpcInv'
<1>1. x.open /\ xhrs' = xhrs \ {x} /\ Rpc!Deliver(x)
  BY DEF Rpc!Receive
<1>2. IsOutcome(x, x)
  BY DEF RpcInv, RpcTypes, IsOutcome
<1>. QED
  BY <1>1, <1>2, DeliverStep

LEMMA LoseStep ==
  ASSUME RpcInv, NEW x \in xhrs, Rpc!Lose(x)
  PROVE  RpcInv'
<1>1. PICK z : z = [x EXCEPT !.leg = "error"]
  OBVIOUS
<1>2. /\ x \in Requests /\ x.open /\ Rpc!Deliver(z)
      /\ xhrs' = (xhrs \ {x}) \cup (IF x.leg = "out" THEN {[x EXCEPT !.open = FALSE]} ELSE {})
  BY <1>1 DEF Rpc!Lose, RpcInv, RpcTypes
<1>3. IsOutcome(x, z) /\ z.leg = "error"
  BY <1>1, <1>2 DEF IsOutcome, Requests
<1>4. CASE x.leg = "out"
  <2>1. xhrs' = (xhrs \ {x}) \cup {[x EXCEPT !.open = FALSE]}
    BY <1>2, <1>4
  <2>. QED
    BY <1>2, <1>3, <1>4, <2>1, DeliverStep
<1>5. CASE x.leg # "out"
  <2>1. xhrs' = xhrs \ {x}
    BY <1>2, <1>5
  <2>. QED
    BY <1>2, <1>3, <2>1, DeliverStep
<1>. QED
  BY <1>4, <1>5

-----------------------------------------------------------------------------
(* The two together.                                                       *)

\* What a step of the page does to the calls; a function the loop calls is in
\* its queue.
LEMMA RpcSteps ==
  ASSUME LoopInv, PollTypes, [Next]_vars
  PROVE  \/ UNCHANGED rpcVars
         \/ \E c \in Fns : Rpc!Make(c) \/ Rpc!Forget(c)
         \/ Rpc!Flush \/ Rpc!EndSession \/ Rpc!HideTab \/ Rpc!ShowTab
         \/ \E x \in xhrs : \/ Rpc!Serve(x) \/ Rpc!ServeFatal(x) \/ Rpc!Respond(x)
                            \/ Rpc!Receive(x) \/ Rpc!Lose(x)
<1>1. CASE UNCHANGED vars
  BY <1>1 DEF vars
<1>2. ASSUME NEW effect, NEW f, NEW i, CallEntry(effect, f, i)
      PROVE  UNCHANGED rpcVars \/ \E c \in Fns : Rpc!Make(c)
  <2>1. /\ loop \in Steps /\ loop.at <= Len(queue)
    BY <1>2 DEF CallEntry, Poll!CallEntry, LoopInv, Poll!Idle
  <2>2. loop.at \in DOMAIN queue /\ queue \in Seq(Poll!Entries)
    BY <2>1 DEF PollTypes, IsQueue, Steps
  <2>3. queue[loop.at].fn \in Fns
    <3>1. queue[loop.at] \in Poll!Entries
      BY <2>2
    <3>. QED
      BY <3>1, EntryFacts
  <2>. QED
    BY <1>2, <2>3 DEF CallEntry
<1>3. CASE Step \/ Act
  BY <1>3 DEF Step, Act
<1>4. ASSUME NEW f \in Fns, Settle(f)
      PROVE  Rpc!Forget(f)
  BY <1>4 DEF Settle
<1>5. ASSUME NEW x \in xhrs, Handle(x) \/ Server(x)
      PROVE  \/ Rpc!Serve(x) \/ Rpc!ServeFatal(x) \/ Rpc!Respond(x)
             \/ Rpc!Receive(x) \/ Rpc!Lose(x)
  BY <1>5 DEF Handle, Server
<1>6. CASE Flush \/ Outside
  BY <1>6 DEF Flush, Outside
<1>. QED
  BY <1>1, <1>2, <1>3, <1>4, <1>5, <1>6 DEF Next

LEMMA RpcStep ==
  ASSUME RpcInv, LoopInv, PollTypes, [Next]_vars
  PROVE  RpcInv'
<1>1. CASE UNCHANGED rpcVars
  <2>1. UNCHANGED <<call, requests, frame, visible, xhrs, executed, got, alive, trouble>>
    BY <1>1 DEF rpcVars
  <2>2. /\ \A x \in xhrs' : RequestInv(x)'
        /\ Apart'
        /\ \A i : (IsSent(i)' <=> IsSent(i)) /\ (Rpc!UnderWay(i)' <=> Rpc!UnderWay(i))
    BY <2>1, RequestsStay
  <2>3. \A i \in Rpc!Ids : CallInv(i)'
    BY <2>1, <2>2 DEF RpcInv, CallInv, IsQueued
  <2>4. \A c \in Fns : ProbeInv(c)'
    BY <2>1, <2>2 DEF RpcInv, ProbeInv
  <2>. QED
    BY <2>1, <2>2, <2>3, <2>4 DEF RpcInv, RpcTypes, Injective
<1>. QED
  BY <1>1, RpcSteps, MakeStep, ForgetStep, FlushStep, EndSessionStep, TabStep,
     ServeStep, ServeFatalStep, RespondStep, ReceiveStep, LoseStep

\* A request the browser is done with has an outcome, which it delivers.
LEMMA OutcomeKnown ==
  ASSUME RpcInv, NEW x \in xhrs, Rpc!Receive(x) \/ Rpc!Lose(x)
  PROVE  \E z : IsOutcome(x, z) /\ Rpc!Deliver(z) /\ (z.leg = "back" \/ trouble')
<1>1. x \in Requests
  BY DEF RpcInv, RpcTypes
<1>2. CASE Rpc!Receive(x)
  <2>1. IsOutcome(x, x) /\ Rpc!Deliver(x)
    BY <1>1, <1>2 DEF Rpc!Receive, IsOutcome
  <2>2. x.leg = "back" \/ trouble'
    BY <1>2 DEF Rpc!Receive, Rpc!Deliver
  <2>. QED
    BY <2>1, <2>2
<1>3. CASE Rpc!Lose(x)
  <2>1. PICK z : z = [x EXCEPT !.leg = "error"]
    OBVIOUS
  <2>2. Rpc!Deliver(z) /\ IsOutcome(x, z)
    BY <1>1, <1>3, <2>1 DEF Rpc!Lose, IsOutcome, Requests
  <2>3. z.leg = "error"
    BY <1>1, <2>1 DEF Requests
  <2>4. trouble'
    BY <2>2, <2>3 DEF Rpc!Deliver
  <2>. QED
    BY <2>2, <2>4
<1>. QED
  BY <1>2, <1>3

\* A call that has been made stays made until its caller is done with it.
LEMMA CallsStay ==
  ASSUME RpcInv, NEW c \in Fns, call[Rpc!Id(c)] # "idle",
         \/ UNCHANGED call
         \/ \E d \in Fns : Rpc!Make(d)
         \/ Rpc!Flush
         \/ \E x \in xhrs : Rpc!Receive(x) \/ Rpc!Lose(x)
  PROVE  call'[Rpc!Id(c)] # "idle"
<1>. DEFINE i == Rpc!Id(c)
<1>1. /\ call \in [Rpc!Ids -> {"idle"} \cup Rpc!Waiting \cup Rpc!Settled] /\ i \in Rpc!Ids
      /\ \A d \in Fns : d # c => Rpc!Id(d) # i
      /\ \A d \in Fns : Rpc!Probe(d) # i
  BY IdFacts DEF RpcInv, RpcTypes
<1>2. CASE UNCHANGED call
  BY <1>2
<1>3. ASSUME NEW d \in Fns, Rpc!Make(d)
      PROVE  call'[i] # "idle"
  <2>1. \/ call' = [call EXCEPT ![Rpc!Id(d)] = "sent", ![Rpc!Probe(d)] = "idle"]
        \/ call' = [call EXCEPT ![Rpc!Id(d)] = "queued", ![Rpc!Probe(d)] = "idle"]
    BY <1>3 DEF Rpc!Make
  <2>2. call[Rpc!Id(d)] = "idle"
    BY <1>3 DEF Rpc!Make
  <2>3. call'[i] = call[i]
    BY <1>1, <2>1, <2>2
  <2>. QED
    BY <2>3
<1>4. CASE Rpc!Flush
  <2>1. call' = [j \in Rpc!Ids |-> IF call[j] = "queued" THEN "sent" ELSE call[j]]
    BY <1>4 DEF Rpc!Flush
  <2>. QED
    BY <1>1, <2>1
<1>5. ASSUME NEW x \in xhrs, Rpc!Receive(x) \/ Rpc!Lose(x)
      PROVE  call'[i] # "idle"
  <2>1. PICK z : IsOutcome(x, z) /\ Rpc!Deliver(z)
    BY <1>5, OutcomeKnown
  <2>2. call'[i] = Rpc!Outcome(z, i)
    BY <1>1, <2>1 DEF Rpc!Deliver
  <2>3. Rpc!Outcome(z, i) \in {"resolved", "asking", "rejected", call[i]}
    BY <2>1, OutcomeFacts
  <2>. QED
    BY <2>2, <2>3
<1>. QED
  BY <1>2, <1>3, <1>4, <1>5

\* A function the loop takes for pending has a call.
PendingInv ==
  \A k \in DOMAIN queue :
    queue[k].r = Poll!Pending => call[Rpc!Id(queue[k].fn)] # "idle"

\* Steps that leave the entries of the queue as they are, whatever they add
\* or remove, and no call is forgotten.
LEMMA PendingStays ==
  ASSUME RpcInv, PollTypes, PendingInv,
         \A k \in DOMAIN queue' : \/ queue'[k].r # Poll!Pending
                                  \/ \E j \in DOMAIN queue : queue'[k] = queue[j],
         \/ UNCHANGED call
         \/ Rpc!Flush
         \/ \E x \in xhrs : Rpc!Receive(x) \/ Rpc!Lose(x)
  PROVE  PendingInv'
<1>. SUFFICES ASSUME NEW k \in DOMAIN queue', queue'[k].r = Poll!Pending
              PROVE  call'[Rpc!Id(queue'[k].fn)] # "idle"
  BY DEF PendingInv
<1>1. PICK j \in DOMAIN queue : queue'[k] = queue[j]
  OBVIOUS
<1>2. queue[j].fn \in Fns
  <2>1. queue[j] \in Poll!Entries
    BY DEF PollTypes, IsQueue
  <2>. QED
    BY <2>1, EntryFacts
<1>3. call[Rpc!Id(queue[j].fn)] # "idle"
  BY <1>1 DEF PendingInv
<1>. QED
  BY <1>1, <1>2, <1>3, CallsStay

LEMMA PendingStep ==
  ASSUME RpcInv, LoopInv, PollTypes, PendingInv, [Next]_vars
  PROVE  PendingInv'
<1>. USE DEF Poll!Ready, Poll!Pending, Poll!Dead
<1>0. /\ IsQueue(queue) /\ Len(queue) \in Nat /\ DOMAIN queue = 1 .. Len(queue)
      /\ \A k \in DOMAIN queue : queue[k].fn \in Fns
  <2>1. IsQueue(queue) /\ queue \in Seq(Poll!Entries)
    BY DEF PollTypes, IsQueue
  <2>. QED
    BY <2>1, EntryFacts
<1>1. CASE UNCHANGED <<queue, call>>
  BY <1>1, PendingStays
<1>2. ASSUME NEW effect \in Effects, NEW f \in Fns, NEW i \in Intervals,
             CallEntry(effect, f, i)
      PROVE  PendingInv'
  <2>1. PICK n : n = loop.at
    OBVIOUS
  <2>2. n \in DOMAIN queue
    <3>1. loop \in Steps /\ n <= Len(queue)
      BY <1>2, <2>1 DEF CallEntry, Poll!CallEntry, LoopInv, Poll!Idle
    <3>. QED
      BY <1>0, <2>1, <3>1 DEF Steps
  <2>3. PICK called : called = [queue EXCEPT ![n].r = Poll!Pending]
    OBVIOUS
  <2>4. /\ IsQueue(called) /\ DOMAIN called = DOMAIN queue
        /\ \A k \in DOMAIN queue : called[k].fn = queue[k].fn
                                   /\ (k # n => called[k] = queue[k])
    BY <1>0, <2>2, <2>3, MarkedQueue
  <2>5. PICK g : g = queue[n].fn
    OBVIOUS
  <2>6. g \in Fns
    BY <1>0, <2>2, <2>5
  <2>7. IF effect = "throw" \/ call[Rpc!Id(g)] # "idle" THEN UNCHANGED call ELSE Rpc!Make(g)
    BY <1>2, <2>1, <2>5 DEF CallEntry, rpcVars
  <2>8. CASE effect = "throw"
    <3>1. queue' = [queue EXCEPT ![n].r = Poll!Dead]
      BY <1>2, <2>1, <2>8 DEF CallEntry, Poll!CallEntry
    <3>2. PICK dead : dead = [queue EXCEPT ![n].r = Poll!Dead]
      OBVIOUS
    <3>3. /\ DOMAIN dead = DOMAIN queue /\ dead[n].r = Poll!Dead
          /\ \A k \in DOMAIN queue : k # n => dead[k] = queue[k]
      BY <1>0, <2>2, <3>2, MarkedQueue
    <3>4. \A k \in DOMAIN queue' : \/ queue'[k].r # Poll!Pending
                                   \/ \E j \in DOMAIN queue : queue'[k] = queue[j]
      BY <3>1, <3>2, <3>3
    <3>. QED
      BY <2>7, <2>8, <3>4, PendingStays
  <2>9. CASE effect # "throw"
    <3>1. call'[Rpc!Id(g)] # "idle"
      <4>1. CASE call[Rpc!Id(g)] # "idle"
        BY <2>7, <2>9, <4>1
      <4>2. CASE call[Rpc!Id(g)] = "idle"
        <5>1. \/ call' = [call EXCEPT ![Rpc!Id(g)] = "sent", ![Rpc!Probe(g)] = "idle"]
              \/ call' = [call EXCEPT ![Rpc!Id(g)] = "queued", ![Rpc!Probe(g)] = "idle"]
          BY <2>7, <2>9, <4>2 DEF Rpc!Make
        <5>2. /\ Rpc!Id(g) # Rpc!Probe(g) /\ Rpc!Id(g) \in Rpc!Ids
              /\ call \in [Rpc!Ids -> {"idle"} \cup Rpc!Waiting \cup Rpc!Settled]
          BY <2>6, IdFacts DEF RpcInv, RpcTypes
        <5>. QED
          BY <5>1, <5>2
      <4>. QED
        BY <4>1, <4>2
    <3>2. ASSUME NEW k \in DOMAIN called, called[k].r = Poll!Pending
          PROVE  call'[Rpc!Id(called[k].fn)] # "idle"
      <4>1. CASE k = n
        BY <2>2, <2>4, <2>5, <3>1, <4>1
      <4>2. CASE k # n
        <5>1. called[k] = queue[k] /\ k \in DOMAIN queue
          BY <2>4, <4>2
        <5>2. queue[k].fn \in Fns /\ call[Rpc!Id(queue[k].fn)] # "idle"
          BY <1>0, <3>2, <5>1 DEF PendingInv
        <5>3. UNCHANGED call \/ \E d \in Fns : Rpc!Make(d)
          BY <2>6, <2>7
        <5>4. call'[Rpc!Id(queue[k].fn)] # "idle"
          BY <5>2, <5>3, CallsStay
        <5>. QED
          BY <5>1, <5>4
      <4>. QED
        BY <4>1, <4>2
    <3>3. \/ queue' = called
          \/ queue' = Poll!Without(called, f)
          \/ /\ f \notin Poll!Registered(queue)
             /\ queue' = Append(called, [fn |-> f, i |-> i, r |-> Poll!Ready])
      BY <1>2, <2>1, <2>3, <2>9 DEF CallEntry, Poll!CallEntry
    <3>4. f \notin Poll!Registered(queue) => f \notin Poll!Registered(called)
      BY <2>4 DEF Poll!Registered
    <3>5. \A k \in DOMAIN queue' : \/ queue'[k].r # Poll!Pending
                                   \/ \E j \in DOMAIN called : queue'[k] = called[j]
      <4>1. CASE queue' = called
        BY <4>1
      <4>2. CASE queue' = Poll!Without(called, f)
        <5>1. PICK m : m = Poll!Without(called, f)
          OBVIOUS
        <5>2. \A k \in DOMAIN m : \E j \in DOMAIN called : m[k] = called[j]
          BY <2>4, <5>1, ShorterQueue
        <5>. QED
          BY <4>2, <5>1, <5>2
      <4>3. CASE /\ f \notin Poll!Registered(queue)
                 /\ queue' = Append(called, [fn |-> f, i |-> i, r |-> Poll!Ready])
        <5>1. PICK m : m = Append(called, [fn |-> f, i |-> i, r |-> Poll!Ready])
          OBVIOUS
        <5>2. f \notin Poll!Registered(called)
          BY <3>4, <4>3
        <5>3. \A k \in DOMAIN m : m[k].r = Poll!Ready \/ (k \in DOMAIN called /\ m[k] = called[k])
          BY <2>4, <5>1, <5>2, LongerQueue
        <5>. QED
          BY <4>3, <5>1, <5>3
      <4>. QED
        BY <3>3, <4>1, <4>2, <4>3
    <3>. QED
      BY <3>2, <3>5 DEF PendingInv
  <2>. QED
    BY <2>8, <2>9
<1>3. ASSUME NEW f \in Fns, Settle(f)
      PROVE  PendingInv'
  <2>1. Rpc!Forget(f)
    BY <1>3 DEF Settle
  <2>2. \A c \in Fns : c # f => call'[Rpc!Id(c)] = call[Rpc!Id(c)]
    <3>1. call' = [call EXCEPT ![Rpc!Id(f)] = "idle", ![Rpc!Probe(f)] = "idle"]
      BY <2>1 DEF Rpc!Forget
    <3>2. call \in [Rpc!Ids -> {"idle"} \cup Rpc!Waiting \cup Rpc!Settled]
      BY DEF RpcInv, RpcTypes
    <3>3. \A c \in Fns : c # f => Rpc!Id(c) # Rpc!Id(f) /\ Rpc!Id(c) # Rpc!Probe(f)
                                  /\ Rpc!Id(c) \in Rpc!Ids
      BY IdFacts
    <3>. QED
      BY <3>1, <3>2, <3>3
  <2>3. \A k \in DOMAIN queue' :
          queue'[k].r = Poll!Pending => k \in DOMAIN queue /\ queue'[k] = queue[k]
                                        /\ queue[k].fn # f
    <3>1. CASE \E k \in DOMAIN queue : queue[k].fn = f /\ queue[k].r = Poll!Pending
      <4>1. PICK j \in DOMAIN queue : queue[j].fn = f /\ Poll!Settle(j)
        BY <1>3, <3>1 DEF Settle
      <4>2. queue' = [queue EXCEPT ![j].r = Poll!Ready]
        BY <4>1 DEF Poll!Settle
      <4>3. PICK m : m = [queue EXCEPT ![j].r = Poll!Ready]
        OBVIOUS
      <4>4. /\ DOMAIN m = DOMAIN queue /\ m[j].r = Poll!Ready
            /\ \A k \in DOMAIN queue : k # j => m[k] = queue[k]
        BY <1>0, <4>1, <4>3, MarkedQueue
      <4>5. \A k \in DOMAIN queue : k # j => queue[k].fn # f
        BY <1>0, <4>1 DEF IsQueue
      <4>. QED
        BY <4>2, <4>3, <4>4, <4>5
    <3>2. CASE ~(\E k \in DOMAIN queue : queue[k].fn = f /\ queue[k].r = Poll!Pending)
      <4>1. UNCHANGED queue
        BY <1>3, <3>2 DEF Settle, pollVars
      <4>. QED
        BY <3>2, <4>1
    <3>. QED
      BY <3>1, <3>2
  <2>. QED
    BY <1>0, <2>2, <2>3 DEF PendingInv
<1>4. ASSUME NEW f \in Fns, Poll!Remove(f), UNCHANGED call
      PROVE  PendingInv'
  <2>1. PICK m : m = Poll!Without(queue, f)
    OBVIOUS
  <2>2. \A k \in DOMAIN m : \E j \in DOMAIN queue : m[k] = queue[j]
    BY <1>0, <2>1, ShorterQueue
  <2>3. queue' = m
    BY <1>4, <2>1 DEF Poll!Remove, Poll!RemoveFrom
  <2>. QED
    BY <1>4, <2>2, <2>3, PendingStays
<1>5. ASSUME NEW f \in Fns, NEW i \in Intervals, Poll!Add(f, i), UNCHANGED call
      PROVE  PendingInv'
  <2>1. PICK m : m = Append(queue, [fn |-> f, i |-> i, r |-> Poll!Ready])
    OBVIOUS
  <2>2. queue' = queue \/ (f \notin Poll!Registered(queue) /\ queue' = m)
    BY <1>5, <2>1 DEF Poll!Add, Poll!AddTo, Poll!Start, Poll!polling
  <2>3. f \notin Poll!Registered(queue) =>
          \A k \in DOMAIN m : m[k].r = Poll!Ready \/ (k \in DOMAIN queue /\ m[k] = queue[k])
    BY <1>0, <2>1, LongerQueue
  <2>4. \A k \in DOMAIN queue' : \/ queue'[k].r # Poll!Pending
                                 \/ \E j \in DOMAIN queue : queue'[k] = queue[j]
    BY <2>2, <2>3
  <2>. QED
    BY <1>5, <2>4, PendingStays
<1>6. CASE (Poll!Click \/ Poll!ShowStatus \/ Poll!HideStatus) /\ UNCHANGED call
  <2>1. UNCHANGED queue
    BY <1>6 DEF Poll!Click, Poll!ShowStatus, Poll!HideStatus, Poll!Start, Poll!polling
  <2>. QED
    BY <1>6, <2>1, PendingStays
<1>7. CASE Step
  <2>1. UNCHANGED <<queue, call>>
    BY <1>7 DEF Step, rpcVars, Poll!PageReady, Poll!IntervalFires, Poll!SkipEntry,
                Poll!EndStep, Poll!Start
  <2>. QED
    BY <1>1, <2>1
<1>8. ASSUME NEW x \in xhrs, Handle(x)
      PROVE  PendingInv'
  <2>1. Rpc!Receive(x) \/ Rpc!Lose(x)
    BY <1>8 DEF Handle
  <2>2. UNCHANGED queue
    BY <1>8 DEF Handle, Poll!Expire, pollVars
  <2>. QED
    BY <2>1, <2>2, PendingStays
<1>9. CASE Flush
  BY <1>9, PendingStays DEF Flush, pollVars
<1>a. CASE (\E x \in xhrs : Server(x)) \/ Outside
  <2>1. UNCHANGED <<queue, call>>
    BY <1>a DEF Server, Outside, pollVars, Rpc!EndSession, Rpc!HideTab, Rpc!ShowTab, Rpc!Serve,
                Rpc!ServeFatal, Rpc!Respond, Rpc!browser
  <2>. QED
    BY <1>1, <2>1
<1>b. CASE Act
  <2>1. UNCHANGED call
    BY <1>b DEF Act, rpcVars
  <2>. QED
    BY <1>4, <1>5, <1>6, <1>b, <2>1 DEF Act
<1>c. CASE UNCHANGED vars
  BY <1>1, <1>c DEF vars, pollVars, rpcVars
<1>. QED
  BY <1>2, <1>3, <1>7, <1>8, <1>9, <1>a, <1>b, <1>c DEF Next

-----------------------------------------------------------------------------
(* The page under the "Session expired" dialog.                            *)

\* A page that has not started has nothing under way that could expire it.
NewPageInv ==
  tick = Poll!Undefined /\ indicator = "none"
    => Poll!Idle /\ ~timer /\ modal # "expired" /\ xhrs = {} /\ ~frame

LEMMA NewPageStep ==
  ASSUME NewPageInv, PollTypes, [Next]_vars
  PROVE  NewPageInv'
<1>. SUFFICES ASSUME tick' = Poll!Undefined, indicator' = "none"
              PROVE  (Poll!Idle /\ ~timer /\ modal # "expired" /\ xhrs = {} /\ ~frame)'
  BY DEF NewPageInv
<1>. USE DEF Poll!Undefined, Poll!NaN
<1>1. UNCHANGED <<tick, indicator>>
  <2>1. ASSUME NEW q, Poll!Start(q)
        PROVE  UNCHANGED <<tick, indicator>>
    BY <2>1 DEF Poll!Start
  <2>2. ASSUME NEW t, Poll!StopAt(t)
        PROVE  UNCHANGED <<tick, indicator>>
    BY <2>2 DEF Poll!StopAt
  <2>3. CASE \E effect, f, i : Poll!CallEntry(effect, f, i)
    BY <2>2, <2>3 DEF Poll!CallEntry, Poll!Stop
  <2>4. CASE Poll!EndStep
    <3>1. \A t \in Nat : t % Cycle \in Nat
      BY PollAssumption
    <3>2. tick \in Nat => (tick + 1) % Cycle \in Nat
      BY <3>1
    <3>. QED
      BY <2>4, <3>2, PollAssumption DEF Poll!EndStep, PollTypes
  <2>5. CASE UNCHANGED pollVars \/ Poll!IntervalFires \/ Poll!SkipEntry
             \/ \E k : Poll!Settle(k)
    BY <2>5 DEF pollVars, Poll!IntervalFires, Poll!SkipEntry, Poll!Settle
  <2>6. CASE \E f : Poll!Remove(f) \/ \E i : Poll!Add(f, i)
    BY <2>1, <2>2, <2>6 DEF Poll!Remove, Poll!RemoveFrom, Poll!Add, Poll!AddTo, Poll!polling
  <2>7. CASE Poll!PageReady \/ Poll!Click \/ Poll!ShowStatus \/ Poll!HideStatus \/ Poll!Expire
    BY <2>1, <2>2, <2>7 DEF Poll!PageReady, Poll!Click, Poll!ShowStatus, Poll!HideStatus,
      Poll!Expire, Poll!Stop, Poll!polling
  <2>. QED
    BY <2>3, <2>4, <2>5, <2>6, <2>7, PollSteps
<1>2. Poll!Idle /\ ~timer /\ modal # "expired" /\ xhrs = {} /\ ~frame
  BY <1>1 DEF NewPageInv
<1>3. UNCHANGED <<xhrs, frame>>
  BY <1>2 DEF Next, vars, rpcVars, CallEntry, Poll!CallEntry, Step, Act, Settle, Rpc!Forget,
    Flush, Rpc!Flush, Outside, Rpc!EndSession, Rpc!HideTab, Rpc!ShowTab, Rpc!browser
<1>4. modal' # "expired"
  <2>1. modal' \in {modal, "none", "status"}
    BY <1>2 DEF Next, vars, pollVars, CallEntry, Poll!CallEntry, Step, Act, Settle, Flush,
      Outside, Poll!PageReady, Poll!IntervalFires, Poll!SkipEntry, Poll!EndStep, Poll!Remove,
      Poll!Add, Poll!Click, Poll!ShowStatus, Poll!HideStatus, Poll!Settle, Poll!dialogVars
  <2>. QED
    BY <1>2, <2>1
<1>5. UNCHANGED <<timer, loop>>
  <2>1. ASSUME NEW q, Poll!Start(q)
        PROVE  UNCHANGED <<timer, loop>>
    BY <1>1, <1>2, <2>1 DEF Poll!Start
  <2>2. ASSUME NEW t, Poll!StopAt(t)
        PROVE  UNCHANGED timer
    BY <1>2, <2>2 DEF Poll!StopAt
  <2>3. CASE UNCHANGED pollVars \/ \E k : Poll!Settle(k)
    BY <2>3 DEF pollVars, Poll!Settle
  <2>4. CASE \E f : Poll!Remove(f) \/ \E i : Poll!Add(f, i)
    BY <2>1, <2>2, <2>4 DEF Poll!Remove, Poll!RemoveFrom, Poll!Add, Poll!AddTo, Poll!polling
  <2>5. CASE Poll!PageReady \/ Poll!Click \/ Poll!ShowStatus \/ Poll!HideStatus \/ Poll!Expire
    BY <2>1, <2>2, <2>5 DEF Poll!PageReady, Poll!Click, Poll!ShowStatus, Poll!HideStatus,
      Poll!Expire, Poll!Stop, Poll!polling
  <2>. QED
    BY <1>2, <2>3, <2>4, <2>5, PollSteps
    DEF Poll!CallEntry, Poll!IntervalFires, Poll!SkipEntry, Poll!EndStep
<1>. QED
  BY <1>2, <1>3, <1>4, <1>5 DEF Poll!Idle

\* Under the dialog only a view that registers a function starts the loop, and
\* only if the loop has not been stopped.
LEMMA QuietStep ==
  ASSUME NewPageInv, [Next]_vars,
         modal = "expired", modal' = "expired", ~flow, ~timer, timer'
  PROVE  tick # Poll!Undefined
<1>1. ASSUME NEW t, Poll!StopAt(t)
      PROVE  FALSE
  BY <1>1 DEF Poll!StopAt
<1>3. CASE Poll!PageReady
  BY <1>3 DEF Poll!PageReady, NewPageInv
<1>4. ASSUME NEW f, Poll!Remove(f)
      PROVE  FALSE
  BY <1>1, <1>4 DEF Poll!Remove, Poll!RemoveFrom
<1>5. ASSUME NEW f, NEW i, Poll!Add(f, i)
      PROVE  tick # Poll!Undefined
  BY <1>5 DEF Poll!Add, Poll!AddTo, Poll!polling
<1>6. CASE Poll!Click \/ Poll!ShowStatus \/ Poll!HideStatus \/ Poll!Expire
  BY <1>1, <1>6 DEF Poll!Click, Poll!ShowStatus, Poll!HideStatus, Poll!Expire, Poll!Stop
<1>7. CASE \/ UNCHANGED pollVars \/ Poll!IntervalFires \/ Poll!SkipEntry \/ Poll!EndStep
           \/ \E k : Poll!Settle(k)
  BY <1>7 DEF pollVars, Poll!IntervalFires, Poll!SkipEntry, Poll!EndStep, Poll!Settle
<1>8. CASE \E effect, f, i : Poll!CallEntry(effect, f, i)
  BY <1>1, <1>8 DEF Poll!CallEntry, Poll!Stop
<1>. QED
  BY <1>3, <1>4, <1>5, <1>6, <1>7, <1>8, PollSteps

\* "Session expired" is shown when a probe was denied, which happens only to an
\* ended session, or when a request failed as a whole.
LEMMA ExpiryStep ==
  ASSUME RpcInv, LoopInv, PollTypes, ExpiryIsReal, [Next]_vars
  PROVE  ExpiryIsReal'
<1>0. {alive, trouble} \subseteq BOOLEAN
  BY DEF RpcInv, RpcTypes
<1>1. (~alive => ~alive') /\ (trouble => trouble')
  <2>1. ASSUME NEW x \in xhrs, Rpc!Receive(x) \/ Rpc!Lose(x)
        PROVE  (~alive => ~alive') /\ (trouble => trouble')
    <3>1. \E z : Rpc!Deliver(z)
      BY <2>1 DEF Rpc!Receive, Rpc!Lose
    <3>2. alive' = alive
      BY <3>1 DEF Rpc!Deliver
    <3>3. \E z : trouble' = (trouble \/ z.leg = "error")
      BY <3>1 DEF Rpc!Deliver
    <3>4. trouble => trouble'
      BY <3>3
    <3>. QED
      BY <3>2, <3>4
  <2>2. CASE Rpc!EndSession
    BY <2>2 DEF Rpc!EndSession
  <2>3. CASE \/ UNCHANGED rpcVars \/ Rpc!Flush \/ Rpc!HideTab \/ Rpc!ShowTab
             \/ \E c \in Fns : Rpc!Make(c) \/ Rpc!Forget(c)
             \/ \E x \in xhrs : Rpc!Serve(x) \/ Rpc!ServeFatal(x) \/ Rpc!Respond(x)
    <3>1. UNCHANGED <<alive, trouble>>
      BY <2>3 DEF rpcVars, Rpc!Flush, Rpc!HideTab, Rpc!ShowTab, Rpc!Make, Rpc!Forget,
                  Rpc!Serve, Rpc!ServeFatal, Rpc!Respond
    <3>. QED
      BY <3>1
  <2>. QED
    BY <2>1, <2>2, <2>3, RpcSteps
<1>2. ASSUME modal' # "expired" \/ modal' = modal
      PROVE  ExpiryIsReal'
  BY <1>0, <1>1, <1>2 DEF ExpiryIsReal
<1>3. ASSUME NEW x \in xhrs, Handle(x), ExpiryNoticed(x)
      PROVE  ExpiryIsReal'
  <2>1. PICK i \in Rpc!Within(x) : i.probe /\ call'[i] = "rejected"
    BY <1>3 DEF ExpiryNoticed
  <2>2. PICK z : IsOutcome(x, z) /\ Rpc!Deliver(z) /\ (z.leg = "back" \/ trouble')
    BY <1>3, OutcomeKnown DEF Handle
  <2>3. CASE trouble'
    BY <2>3 DEF ExpiryIsReal
  <2>4. CASE z.leg = "back"
    <3>1. i \in Rpc!Ids
      <4>1. x \in Requests
        BY DEF RpcInv, RpcTypes
      <4>. QED
        BY <2>1, <4>1, RequestTypes
    <3>2. i.for \in Fns /\ i = Rpc!Probe(i.for)
      BY <2>1, <3>1, IdFacts
    <3>3. Rpc!Outcome(z, i) = "rejected"
      BY <2>1, <2>2, <3>1 DEF Rpc!Deliver
    <3>4. ~Rpc!ReplyTo(z, i).granted
      BY <2>1, <2>2, <3>2, <3>3, OutcomeFacts
    <3>5. ~alive
      BY <2>1, <2>2, <2>4, <3>4, ReplyFacts
    <3>. QED
      BY <1>1, <3>5 DEF ExpiryIsReal
  <2>. QED
    BY <2>2, <2>3, <2>4
<1>4. ASSUME NEW x \in xhrs, Handle(x), ~ExpiryNoticed(x)
      PROVE  ExpiryIsReal'
  BY <1>2, <1>4 DEF Handle, pollVars
<1>5. CASE \E effect \in Effects, f \in Fns, i \in Intervals : CallEntry(effect, f, i)
  BY <1>2, <1>5 DEF CallEntry, Poll!CallEntry, Poll!dialogVars
<1>6. CASE Step \/ Act
  BY <1>2, <1>6 DEF Step, Act, Poll!PageReady, Poll!IntervalFires, Poll!SkipEntry,
    Poll!EndStep, Poll!Remove, Poll!Add, Poll!Click, Poll!ShowStatus, Poll!HideStatus,
    Poll!dialogVars
<1>7. CASE \E f \in Fns : Settle(f)
  BY <1>2, <1>7 DEF Settle, Poll!Settle, Poll!dialogVars, pollVars
<1>8. CASE Flush \/ Outside \/ (\E x \in xhrs : Server(x)) \/ UNCHANGED vars
  BY <1>2, <1>8 DEF Flush, Outside, Server, vars, pollVars
<1>. QED
  BY <1>3, <1>4, <1>5, <1>6, <1>7, <1>8 DEF Next

LEMMA EventsStep ==
  ASSUME events \in 0 .. MaxEvents, [Next]_vars
  PROVE  events' \in 0 .. MaxEvents
<1>1. UNCHANGED events \/ Event
  BY DEF Next, vars, CallEntry, Step, Act, Settle, Handle, Server, Flush, Outside
<1>. QED
  BY <1>1, PollAssumption DEF Event

-----------------------------------------------------------------------------
(* The theorems.                                                           *)

CallsInv == RpcInv /\ LoopInv /\ PollTypes /\ PendingInv /\ events \in 0 .. MaxEvents

LEMMA CallsStart == Init => CallsInv /\ ExpiryIsReal
<1>. SUFFICES ASSUME Init PROVE CallsInv /\ ExpiryIsReal
  OBVIOUS
<1>1. /\ call = [i \in Rpc!Ids |-> "idle"] /\ requests = <<>> /\ frame = FALSE
      /\ visible = TRUE /\ xhrs = {} /\ executed = [i \in Rpc!Ids |-> 0]
      /\ got = [i \in Rpc!Ids |-> Rpc!Nobody] /\ alive = TRUE /\ trouble = FALSE
      /\ events = 0
  BY DEF Init, Rpc!Init
<1>2. /\ queue = <<>> /\ tick = Poll!Undefined /\ loop = Poll!NotStepping
      /\ indicator = "none" /\ modal = "none" /\ dialogs = 0
  BY DEF Init, Poll!Init
<1>3. /\ DOMAIN requests = {} /\ requests \in Seq(Rpc!Ids)
      /\ DOMAIN queue = {} /\ queue \in Seq(Poll!Entries)
  BY <1>1, <1>2
<1>4. RpcTypes
  BY <1>1, <1>3 DEF RpcTypes
<1>5. (\A i : ~IsQueued(i) /\ ~IsSent(i) /\ ~Rpc!UnderWay(i))
  BY <1>1, <1>3 DEF IsQueued, IsSent, Rpc!UnderWay
<1>6. \A i \in Rpc!Ids : CallInv(i)
  BY <1>1, <1>5 DEF CallInv
<1>7. \A c \in Fns : ProbeInv(c)
  BY <1>1, <1>5, IdFacts DEF ProbeInv
<1>8. RpcInv
  BY <1>1, <1>3, <1>4, <1>6, <1>7 DEF RpcInv, Injective, Apart
<1>9. PollTypes
  BY <1>2, <1>3, StepsMove, PollAssumption DEF PollTypes, IsQueue
<1>a. PendingInv
  BY <1>3 DEF PendingInv
<1>b. LoopInv /\ events \in 0 .. MaxEvents /\ ExpiryIsReal
  BY <1>1, <1>2, PollStart, PollAssumption DEF ExpiryIsReal
<1>. QED
  BY <1>8, <1>9, <1>a, <1>b DEF CallsInv

LEMMA CallsStep == CallsInv /\ [Next]_vars => CallsInv'
BY RpcStep, LoopStep, PollTypesStep, PendingStep, EventsStep DEF CallsInv

LEMMA CallsEachOnce == CallsInv => EachCallOnce
<1>. SUFFICES ASSUME CallsInv PROVE EachCallOnce
  OBVIOUS
<1>1. /\ RpcInv /\ RpcTypes /\ LoopInv /\ PollTypes /\ PendingInv
      /\ (\A i \in Rpc!Ids : CallInv(i)) /\ (\A c \in Fns : ProbeInv(c))
      /\ events \in 0 .. MaxEvents
  BY DEF CallsInv, RpcInv
<1>2. Rpc!TypeOK
  <2>1. \A x \in xhrs : /\ x.leg \in {"out", "back", "error"}
                        /\ \A k \in DOMAIN x.replies : x.replies[k] \in Rpc!Replies
    <3>. SUFFICES ASSUME NEW x \in xhrs
                  PROVE  /\ x.leg \in {"out", "back", "error"}
                         /\ \A k \in DOMAIN x.replies : x.replies[k] \in Rpc!Replies
      OBVIOUS
    <3>1. x \in Requests
      BY <1>1 DEF RpcTypes
    <3>2. x.leg \in {"out", "back", "error"} /\ x.replies \in Seq(Rpc!Replies)
      BY <3>1, RequestTypes
    <3>. QED
      BY <3>2
  <2>2. executed \in [Rpc!Ids -> 0 .. 2]
    BY <1>1 DEF RpcTypes, CallInv
  <2>3. \A k \in DOMAIN requests : requests[k] \in Rpc!Ids
    BY <1>1 DEF RpcTypes
  <2>. QED
    BY <1>1, <2>1, <2>2, <2>3 DEF RpcTypes, Rpc!TypeOK
<1>3. Poll!TypeOK
  <2>1. \A k \in DOMAIN queue : queue[k] \in Poll!Entries
    BY <1>1 DEF PollTypes, IsQueue
  <2>2. \A j, k \in DOMAIN queue : j # k => queue[j].fn # queue[k].fn
    BY <1>1 DEF PollTypes, IsQueue
  <2>3. \/ loop = Poll!NotStepping
        \/ loop.at \in 1 .. Len(queue) + 2 /\ loop.by \in {"timer", "start"}
    <3>1. Len(queue) \in Nat
      BY <1>1 DEF PollTypes, IsQueue
    <3>2. CASE loop \in Steps
      <4>1. loop.at \in Nat \ {0} /\ loop.by \in {"timer", "start"} /\ loop.at <= Len(queue) + 2
        BY <1>1, <3>2 DEF PollTypes, Steps
      <4>. QED
        BY <3>1, <4>1
    <3>. QED
      BY <1>1, <3>2 DEF LoopInv
  <2>4. {timer, missed, flow, wasPolling, held} \subseteq BOOLEAN
    BY <1>1 DEF LoopInv
  <2>5. /\ tick \in {Poll!Undefined, Poll!NaN} \cup 0 .. Cycle - 1
        /\ indicator \in {"none", "refreshing", "paused"}
        /\ modal \in {"none", "status", "expired"}
        /\ dialogs \in 0 .. MaxDialogs
    BY <1>1 DEF PollTypes
  <2>. QED
    BY <2>1, <2>2, <2>3, <2>4, <2>5 DEF Poll!TypeOK
<1>4. Rpc!RightReply
  BY <1>1 DEF CallInv, Rpc!RightReply
<1>5. Rpc!AtMostOnce
  BY <1>1 DEF CallInv, Rpc!AtMostOnce
<1>6. NothingIsForgotten
  <2>1. ASSUME NEW i \in Rpc!Ids
        PROVE  /\ call[i] = "queued" => frame /\ \E k \in DOMAIN requests : requests[k] = i
               /\ call[i] = "sent" => \E x \in xhrs : x.open /\ i \in Rpc!Within(x)
    BY <1>1 DEF CallInv, IsQueued, IsSent
  <2>2. ASSUME NEW i \in Rpc!Ids, call[i] = "asking"
        PROVE  call[Rpc!Probe(i.for)] \in {"queued", "sent"}
    <3>1. i.for \in Fns /\ ProbeInv(i.for)
      BY <1>1, IdFacts
    <3>2. ~i.probe
      BY <2>2, <3>1, IdFacts DEF ProbeInv
    <3>3. i = Rpc!Id(i.for)
      BY <3>2, IdFacts
    <3>. QED
      BY <2>2, <3>1, <3>3 DEF ProbeInv
  <2>. QED
    BY <1>1, <2>1, <2>2 DEF NothingIsForgotten, PendingInv
<1>. QED
  BY <1>1, <1>2, <1>3, <1>4, <1>5, <1>6 DEF EachCallOnce, TypeOK

\* Each call of a page is carried out at most once and is given its own reply,
\* and none is forgotten, however calls are batched, denied, lost, given up or
\* made again, for any functions, access rights and numbers of events.
THEOREM EachCallIsMadeOnce == Spec => []EachCallOnce
BY CallsStart, CallsStep, CallsEachOnce, PTL DEF Spec

\* "Session expired" is shown only when the session has ended, unless some
\* request has failed as a whole.
THEOREM ExpiryHasAReason == Spec => []ExpiryIsReal
<1>1. CallsInv /\ ExpiryIsReal /\ [Next]_vars => ExpiryIsReal'
  BY ExpiryStep DEF CallsInv
<1>. QED
  BY <1>1, CallsStart, CallsStep, PTL DEF Spec

\* A step of the poll loop that runs to its end passes no function by that is
\* ready and due, whatever the functions it calls add or stop, unless one has
\* been cut out of the queue before it.
THEOREM NoFunctionIsPassedBy == Spec => NobodyPassedBy
<1>1. Init => PassInv
  BY DEF Init, Poll!Init, PassInv, Poll!Idle
<1>2. CallsInv /\ PassInv /\ [Next]_vars => PassInv'
  BY PassStep DEF CallsInv
<1>3. CallsInv /\ PassInv /\ [Next]_vars
        => [~Poll!Idle /\ Poll!Idle' /\ loop.at > Len(queue) /\ tick >= 0 /\ ~loop.cut
              => \A k \in DOMAIN queue : ~Poll!Due(queue[k])]_Poll!vars
  BY PassedNobody DEF CallsInv
<1>. QED
  BY <1>1, <1>2, <1>3, CallsStart, CallsStep, PTL DEF Spec, NobodyPassedBy, Poll!NobodyPassedBy

\* Under the "Session expired" dialog the loop is started by nothing but a view
\* that registers a function, and by that only if the loop was ready to start.
THEOREM ExpiredPagesAreQuiet == Spec => ExpiredPageIsQuiet
<1>1. Init => NewPageInv
  BY DEF Init, Poll!Init, Rpc!Init, NewPageInv, Poll!Idle
<1>2. CallsInv /\ NewPageInv /\ [Next]_vars => NewPageInv'
  BY NewPageStep DEF CallsInv
<1>3. NewPageInv /\ [Next]_vars
        => [modal = "expired" /\ modal' = "expired" /\ ~flow /\ ~timer /\ timer'
              => tick # Poll!Undefined]_vars
  BY QuietStep
<1>. QED
  BY <1>1, <1>2, <1>3, CallsStart, CallsStep, PTL DEF Spec, ExpiredPageIsQuiet
=============================================================================
