----------------------------- MODULE ClassSystem -----------------------------
(***************************************************************************)
(* The classes of luci.js: extend makes a class whose prototype inherits   *)
(* from its base's, super calls a method as an ancestor defines it.  How   *)
(* far a call has climbed is kept in superContext, under the class of the  *)
(* object: all objects of a class share the slot.                          *)
(*                                                                         *)
(* One method of one name; its bodies may call super, call methods of      *)
(* other objects, throw, and go on in a callback once the stack is empty.  *)
(***************************************************************************)
EXTENDS Integers, SequencesExt

CONSTANTS Base,      \* Base[c]: the class that c extends, 0 for none
          Objects,
          ClassOf,   \* ClassOf[o]: the class of an object
          MaxDepth,  \* calls on the stack
          MaxSends   \* calls altogether

Classes == DOMAIN Base

ASSUME ClassAssumption ==
  /\ Base \in Seq(Nat) /\ \A c \in Classes : Base[c] \in 0 .. c - 1
  /\ ClassOf \in [Objects -> Classes]

VARIABLES
  defines,  \* the classes that define the method
  stack,    \* the calls, the running one last
  context,  \* superContext[c]: the classes reached by super, the last first
  pending,  \* callbacks that will go on with a method
  soiled,   \* the classes whose context a thrown error left behind
  sends     \* calls so far

classVars == <<defines, stack, context, pending, soiled, sends>>

-----------------------------------------------------------------------------
Ancestors[c \in Classes] == IF Base[c] = 0 THEN {} ELSE {Base[c]} \cup Ancestors[Base[c]]

\* The nearest class above c that defines the method; 0 if there is none.
NextAbove(c) ==
  LET owners == Ancestors[c] \cap defines
  IN  IF owners = {} THEN 0 ELSE CHOOSE d \in owners : \A e \in owners : e <= d

Frame(o, level, via, first) == [obj |-> o, level |-> level, via |-> via, first |-> first]
BySuper(frame) == frame.via \in {"new", "super"}
Running == Last(stack)
Room == Len(stack) < MaxDepth /\ sends < MaxSends

\* A slot of superContext.  Faulty variant: by the name of the method only.
SlotOfName(o) == 1
Slot(o) == ClassOf[o]

\* Where super starts to climb.
ReachedBy(o) == IF context[Slot(o)] = <<>> THEN ClassOf[o] ELSE Head(context[Slot(o)])

Push(frame) == stack' = Append(stack, frame) /\ sends' = sends + 1

\* An event or another method calls the method of an object.
Call(o) ==
  LET level == IF ClassOf[o] \in defines THEN ClassOf[o] ELSE NextAbove(ClassOf[o])
  IN  /\ Room /\ level # 0
      /\ Push(Frame(o, level, "call", FALSE))
      /\ UNCHANGED <<defines, context, pending, soiled>>

Super(o, via) ==
  LET level == NextAbove(ReachedBy(o))
  IN  /\ Room /\ level # 0     \* otherwise super is null
      /\ Push(Frame(o, level, via, context[Slot(o)] = <<>>))
      /\ context' = [context EXCEPT ![Slot(o)] = <<level>> \o @]
      /\ UNCHANGED <<defines, pending, soiled>>

CallSuper == stack # <<>> /\ Super(Running.obj, "super")

\* The constructor of a class without an __init__ of its own.
Construct(o) == ClassOf[o] \notin defines /\ Super(o, "new")

Left(frame, ctx) == IF ~frame.first /\ Len(ctx) > 1 THEN Tail(ctx) ELSE <<>>

Return ==
  LET slot == Slot(Running.obj)
  IN  /\ stack # <<>>
      /\ stack' = Front(stack)
      /\ IF BySuper(Running)
           THEN /\ context' = [context EXCEPT ![slot] = Left(Running, @)]
                /\ soiled' = IF context'[slot] = <<>> THEN soiled \ {slot} ELSE soiled
           ELSE UNCHANGED <<context, soiled>>
      /\ UNCHANGED <<defines, pending, sends>>

\* An error leaves the n innermost calls; nothing is tidied up.
Throw(n) ==
  /\ n <= Len(stack)
  /\ stack' = SubSeq(stack, 1, Len(stack) - n)
  /\ soiled' = soiled \cup {Slot(stack[i].obj) : i \in {j \in Len(stack) - n + 1 .. Len(stack) : BySuper(stack[j])}}
  /\ UNCHANGED <<defines, context, pending, sends>>

\* The method leaves the rest to a callback.
Defer ==
  /\ stack # <<>>
  /\ pending' = pending \cup {[obj |-> Running.obj, level |-> Running.level]}
  /\ UNCHANGED <<defines, stack, context, soiled, sends>>

Resume(job) ==
  /\ stack = <<>> /\ Room
  /\ pending' = pending \ {job}
  /\ Push(Frame(job.obj, job.level, "later", FALSE))
  /\ UNCHANGED <<defines, context, soiled>>

-----------------------------------------------------------------------------
ClassInit ==
  /\ defines \in SUBSET Classes
  /\ stack = <<>> /\ context = [c \in Classes |-> <<>>]
  /\ pending = {} /\ soiled = {} /\ sends = 0

ClassNext ==
  \/ \E o \in Objects : Call(o) \/ Construct(o)
  \/ CallSuper \/ Return \/ Defer
  \/ \E n \in 1 .. MaxDepth : Throw(n)
  \/ \E job \in pending : Resume(job)

ClassSpec == ClassInit /\ [][ClassNext]_classVars

-----------------------------------------------------------------------------
\* Type correctness.
ClassTypeOK ==
  /\ defines \in SUBSET Classes /\ soiled \in SUBSET Classes
  /\ \A i \in DOMAIN stack : stack[i].obj \in Objects /\ stack[i].level \in defines
  /\ \A c \in Classes : Range(context[c]) \subseteq defines
  /\ \A job \in pending : job.level \in defines

\* The call in which the chain of supers to frame i began.
Began(i) == CHOOSE b \in 1 .. i : stack[b].via # "super" /\ \A j \in b + 1 .. i : stack[j].via = "super"

\* No other call of an object of this class has climbed yet.
Alone(i) == \A j \in 1 .. i - 1 : BySuper(stack[j]) => ClassOf[stack[j].obj] # ClassOf[stack[i].obj]

\* super reaches the nearest ancestor that defines the method, whatever other
\* objects do meanwhile: when the call began in the object's own class (also in
\* a callback) or its constructor, no other object of the class is climbing and
\* no error has cut a climb short.  Refers to super (luci.js).
SuperReaches ==
  \A i \in DOMAIN stack :
    BySuper(stack[i]) /\ ClassOf[stack[i].obj] \notin soiled =>
      LET b == Began(i)
      IN  /\ Alone(b)
          /\ stack[b].via = "new" \/ stack[b].level = ClassOf[stack[b].obj]
          => stack[i].level = NextAbove(IF i = b THEN ClassOf[stack[i].obj] ELSE stack[i - 1].level)

\* Once every call has returned no climb is remembered, or it was cut short by
\* an error.  Refers to super (luci.js).
NothingIsLeft == stack = <<>> => \A c \in Classes : context[c] # <<>> => c \in soiled
=============================================================================
