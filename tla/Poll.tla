-------------------------------- MODULE Poll --------------------------------
(***************************************************************************)
(* The poll loop of luci-base/htdocs/luci-static/resources/luci.js and its *)
(* users on a page: views that add and remove functions, the indicator     *)
(* that shows and toggles it, the modal dialogs of ui.js that suspend it   *)
(* and the expiry of the session.  JavaScript is single threaded, so a     *)
(* step of the loop runs to its end, but the functions it calls may add,   *)
(* remove, stop or throw on the way.                                       *)
(***************************************************************************)
EXTENDS Integers, Sequences

CONSTANTS Fns,         \* functions the views register
          Intervals,   \* the intervals they ask for, in seconds
          Effects,     \* what a called function may do
          Cycle,       \* the tick counter modulo the intervals
          MaxDialogs   \* bound: dialogs opened in a behaviour

AllEffects == {"return", "throw", "remove", "stop", "add"}

VARIABLES
  queue,       \* the registered functions, in the order they are called
  timer,       \* is the interval timer set?
  tick,        \* seconds since start
  loop,        \* the step that is running: its position, its caller and
               \* whether a function has cut an entry out of the queue
  indicator,   \* what the header shows
  missed,      \* has a poll-start been left out or come too late?
  modal,       \* the modal dialog that covers the page
  flow,        \* is an apply or revert dialog under way?
  wasPolling,  \* did a dialog find the loop running?
  dialogs,     \* dialogs opened so far
  held         \* has the user paused the loop?

polling == <<queue, timer, tick, loop, indicator, missed>>
dialogVars == <<modal, flow, wasPolling, dialogs>>
vars == <<polling, dialogVars, held>>

Undefined == -1   \* tick after delete
NaN == -2         \* and what undefined + 1 makes of it

\* r of an entry is true when it is ready; a call that threw never resets it.
Ready == "ready"  Pending == "pending"  Dead == "dead"
Entries == [fn : Fns, i : Intervals, r : {Ready, Pending, Dead}]
NotStepping == [at |-> 0, by |-> "nobody", cut |-> FALSE]
Stepping(caller) == [at |-> 1, by |-> caller, cut |-> FALSE]

Registered(q) == {q[k].fn : k \in DOMAIN q}
\* No function is registered twice.
Without(q, f) ==
  IF f \notin Registered(q) THEN q
  ELSE LET at == CHOOSE k \in DOMAIN q : q[k].fn = f
       IN  [k \in 1 .. Len(q) - 1 |-> q[IF k < at THEN k ELSE k + 1]]

TypeOK ==
  /\ \A k \in DOMAIN queue : queue[k] \in Entries
  /\ \A j, k \in DOMAIN queue : j # k => queue[j].fn # queue[k].fn
  /\ timer \in BOOLEAN
  /\ tick \in {Undefined, NaN} \cup 0 .. Cycle - 1
  /\ \/ loop = NotStepping
     \/ loop.at \in 1 .. Len(queue) + 2 /\ loop.by \in {"timer", "start"}
  /\ indicator \in {"none", "refreshing", "paused"}
  /\ modal \in {"none", "status", "expired"}
  /\ {flow, wasPolling, held, missed} \subseteq BOOLEAN
  /\ dialogs \in 0 .. MaxDialogs

Init ==
  /\ queue = <<>> /\ timer = FALSE /\ tick = Undefined
  /\ loop = NotStepping /\ indicator = "none" /\ missed = FALSE
  /\ modal = "none" /\ flow = FALSE /\ wasPolling = FALSE /\ dialogs = 0
  /\ held = FALSE

Idle == loop = NotStepping

-----------------------------------------------------------------------------
(* The methods of Poll, as relations on its state.                         *)

\* start(): a running loop is left alone, an empty queue only sets the tick.
\* The first step runs at once; poll-start is dispatched after it.
Start(q) ==
  /\ queue' = q
  /\ IF timer THEN UNCHANGED <<timer, tick, loop>>
     ELSE /\ tick' = 0
          /\ timer' = (q # <<>>)
          /\ loop' = IF q = <<>> THEN loop ELSE Stepping("start")
  /\ UNCHANGED <<indicator, missed>>

\* stop(), with the tick it leaves behind.
StopAt(t) ==
  IF timer THEN /\ timer' = FALSE /\ tick' = t
                /\ indicator' = "paused" /\ missed' = FALSE
  ELSE UNCHANGED <<timer, tick, indicator, missed>>
\* (Faulty variant of Stop: the tick survives.)
StopKeepsTick == StopAt(tick)
Stop == StopAt(Undefined)

\* (Faulty variant of AddTo: it starts the loop whenever it does not run.)
AddStarts(f, i) ==
  IF f \in Registered(queue) THEN UNCHANGED polling
  ELSE Start(Append(queue, [fn |-> f, i |-> i, r |-> Ready]))

\* add(f, i): start() unless the loop was stopped and not started since.
AddTo(f, i) ==
  LET q == Append(queue, [fn |-> f, i |-> i, r |-> Ready])
  IN  IF f \in Registered(queue) THEN UNCHANGED polling
      ELSE IF tick # Undefined THEN Start(q)
      ELSE queue' = q /\ UNCHANGED <<timer, tick, loop, indicator, missed>>

\* (Faulty variant of RemoveFrom: the timer is cleared, but nobody is told.)
RemoveSilently(f) ==
  /\ queue' = Without(queue, f)
  /\ timer' = (timer /\ queue' # <<>>)
  /\ UNCHANGED <<tick, indicator, missed>>

\* remove(f): without functions the loop stops, but stays ready to start.
RemoveFrom(f) ==
  /\ queue' = Without(queue, f)
  /\ IF queue' = <<>> THEN StopAt(0) ELSE UNCHANGED <<timer, tick, indicator, missed>>

-----------------------------------------------------------------------------
(* Faulty variant of SkipEntry below.                                      *)

\* An entry that is not due ends the step.
SkipRest ==
  /\ ~Idle
  /\ loop.at <= Len(queue)
  /\ loop' = [loop EXCEPT !.at = Len(queue) + 1]
  /\ UNCHANGED <<queue, timer, tick, indicator, missed, dialogVars, held>>

-----------------------------------------------------------------------------
(* A step of the loop.                                                     *)

Due(e) == tick >= 0 /\ tick % e.i = 0 /\ e.r = Ready

IntervalFires ==
  /\ Idle /\ timer
  /\ loop' = Stepping("timer")
  /\ UNCHANGED <<queue, timer, tick, indicator, missed, dialogVars, held>>

SkipEntry ==
  /\ ~Idle
  /\ loop.at <= Len(queue) /\ ~Due(queue[loop.at])
  /\ loop' = [loop EXCEPT !.at = @ + 1]
  /\ UNCHANGED <<queue, timer, tick, indicator, missed, dialogVars, held>>

\* The entry is called; the call has the given effect before it returns.
CallEntry(effect, f, i) ==
  /\ ~Idle
  /\ loop.at <= Len(queue) /\ Due(queue[loop.at])
  /\ LET called == [queue EXCEPT ![loop.at].r = Pending]
         next == [loop EXCEPT !.at = @ + 1]
     IN  \/ /\ effect = "return"
            /\ queue' = called /\ loop' = next
            /\ UNCHANGED <<timer, tick, indicator, missed>>
         \/ /\ effect = "throw"
            /\ queue' = [queue EXCEPT ![loop.at].r = Dead]
            /\ loop' = NotStepping
            /\ missed' = (missed \/ loop.by = "start")
            /\ UNCHANGED <<timer, tick, indicator>>
         \/ /\ effect = "remove" /\ f \in Registered(queue)
            /\ queue' = Without(called, f)
            /\ loop' = [next EXCEPT !.cut = TRUE]
            /\ IF queue' = <<>> THEN StopAt(0)
               ELSE UNCHANGED <<timer, tick, indicator, missed>>
         \/ /\ effect = "stop"
            /\ queue' = called /\ loop' = next
            /\ Stop
         \/ /\ effect = "add" /\ f \notin Registered(queue)
            /\ queue' = Append(called, [fn |-> f, i |-> i, r |-> Ready])
            /\ loop' = next
            /\ UNCHANGED <<timer, tick, indicator, missed>>
  /\ UNCHANGED <<dialogVars, held>>

\* The end of a step; start dispatches poll-start even if a function has
\* stopped the loop meanwhile.
EndStep ==
  /\ ~Idle
  /\ loop.at > Len(queue)
  /\ tick' = IF tick < 0 THEN NaN ELSE (tick + 1) % Cycle
  /\ IF loop.by = "start" THEN indicator' = "refreshing" /\ missed' = ~timer
     ELSE UNCHANGED <<indicator, missed>>
  /\ loop' = NotStepping
  /\ UNCHANGED <<queue, timer, dialogVars, held>>

\* The promise of a call settles.
Settle(k) ==
  /\ Idle
  /\ k \in DOMAIN queue
  /\ queue[k].r = Pending
  /\ queue' = [queue EXCEPT ![k].r = Ready]
  /\ UNCHANGED <<timer, tick, loop, indicator, missed, dialogVars, held>>

-----------------------------------------------------------------------------
(* The page.                                                               *)

\* initDOM, once the page is set up; the tick tells whether that has been.
PageReady ==
  /\ Idle /\ tick = Undefined /\ indicator = "none"
  /\ Start(queue)
  /\ UNCHANGED <<dialogVars, held>>

Add(f, i) ==
  /\ Idle
  /\ AddTo(f, i)
  /\ UNCHANGED <<dialogVars, held>>

Remove(f) ==
  /\ Idle
  /\ RemoveFrom(f)
  /\ UNCHANGED <<loop, dialogVars, held>>

\* The user clicks on the indicator; a dialog covers it.
Click ==
  /\ Idle /\ indicator # "none" /\ modal = "none"
  /\ held' = timer
  /\ IF timer THEN Stop /\ UNCHANGED <<queue, loop>> ELSE Start(queue)
  /\ UNCHANGED dialogVars

\* notifySessionExpiry: its dialog takes the place of any other and has no
\* way back to the page.
Expire ==
  /\ Idle
  /\ modal' = "expired"
  /\ Stop
  /\ UNCHANGED <<queue, loop, flow, wasPolling, dialogs, held>>

\* displayStatus opens a dialog or shows the next text of the one under way.
ShowStatus ==
  /\ Idle
  /\ flow \/ (modal = "none" /\ dialogs < MaxDialogs)
  /\ modal' = "status" /\ flow' = TRUE
  /\ dialogs' = IF flow THEN dialogs ELSE dialogs + 1
  /\ IF wasPolling THEN UNCHANGED <<wasPolling, timer, tick, indicator, missed>>
     ELSE wasPolling' = timer /\ Stop
  /\ UNCHANGED <<queue, loop, held>>

\* displayStatus(false), whichever dialog is shown by then.
HideStatus ==
  /\ Idle /\ flow
  /\ modal' = "none" /\ flow' = FALSE
  /\ IF wasPolling THEN Start(queue) ELSE UNCHANGED polling
  /\ UNCHANGED <<wasPolling, dialogs, held>>

-----------------------------------------------------------------------------
(* Properties.                                                             *)

\* A loop that the user has paused does not run until the user starts it
\* again, whatever views register and dialogs come and go meanwhile.
StopSticks == held => ~timer

\* The header shows "Refreshing" while the loop runs and "Paused" while it
\* does not, unless a function threw or stopped the loop in its first step.
IndicatorTruthful ==
  Idle /\ ~missed /\ indicator # "none" => (timer <=> indicator = "refreshing")

\* A step that runs to its end passes no function by that is ready and due,
\* unless a function has been cut out of the queue before it.
NobodyPassedBy ==
  [][~Idle /\ Idle' /\ loop.at > Len(queue) /\ tick >= 0 /\ ~loop.cut
      => \A k \in DOMAIN queue : ~Due(queue[k])]_vars
=============================================================================
