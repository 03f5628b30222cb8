----------------------------- MODULE FormsProofs -----------------------------
(***************************************************************************)
(* Proofs about the form of Forms, its cache and its saves, for any number *)
(* of sections, options and buttons; about its fields that depend on each  *)
(* other, for any number of fields and dependencies; and about the order   *)
(* of the sections in a table, for any number of them.                     *)
(***************************************************************************)
EXTENDS Forms, Integers, SequenceTheorems, FiniteSetTheorems, WellFoundedInduction, TLAPS

LEMMA NoneIsNoSection == None \notin Sections
BY FormAssumption DEF Sections, Inputs

-----------------------------------------------------------------------------
(* What set does to one option of a cache.                                 *)

SetWorks(k, r, s, o, v) ==
  /\ Created(k, s) =>
       /\ r.creates[s][o] = v
       /\ r.changes = k.changes /\ r.deletes = k.deletes /\ r.noted = k.noted
  /\ ~Created(k, s) =>
       /\ r.creates = k.creates
       /\ v # None /\ (Dropped(k, s) \/ ~Known(k, s)) => r = k
       /\ v # None /\ ~Dropped(k, s) /\ Known(k, s) =>
            r.changes[s][o] = v /\ r.deletes[s] = k.deletes[s] \ {o} /\ r.noted
       /\ v = None =>
            /\ r.changes[s][o] = None
            /\ ~Known(k, s) \/ k.values[s][o] = None =>
                 r.deletes = k.deletes /\ r.noted = k.noted
            /\ Known(k, s) /\ k.values[s][o] # None =>
                 /\ r.noted
                 /\ r.deletes[s] = IF Dropped(k, s) THEN Whole ELSE k.deletes[s] \cup {o}

LEMMA SetEffect ==
  ASSUME NEW k \in Caches, NEW s \in Sids, NEW o \in Opts, NEW v \in Vals \cup {None}
  PROVE  SetWorks(k, Set(k, s, o, v), s, o, v)
<1>. USE DEF Caches, Configs, Sections, Created, Known, Dropped
<1>1. CASE Created(k, s)
  BY <1>1 DEF Set, SetWorks
<1>2. CASE ~Created(k, s) /\ v # None
  BY <1>2 DEF Set, SetValue, SetWorks
<1>3. CASE ~Created(k, s) /\ v = None
  BY <1>3 DEF Set, Unset, SetWorks
<1>. QED  BY <1>1, <1>2, <1>3

-----------------------------------------------------------------------------
(* What parse does to each option of a cache.                              *)

ShownType == shown \in [Sids -> [Opts -> Inputs] \cup {None}]

CleanAt(k, s) ==
  /\ k.creates[s] = None /\ k.deletes[s] = {}
  /\ \A o \in Opts : k.changes[s][o] = None

\* The cache after the option o of s alone has been parsed.
After(k, s, o) == IF s \in Rows(k) THEN ParseOption(k, s, o) ELSE k

OptionWorks(k, r, s, o) ==
  /\ k.creates[s] # None => r.creates[s][o] \in Vals \cup {None}
  /\ r.changes[s][o] \in Vals \cup {None}
  /\ (k.changes[s][o] # None => ~Dropped(k, s) /\ o \notin k.deletes[s])
     => (r.changes[s][o] # None => ~Dropped(k, s) /\ o \notin r.deletes[s])
  /\ ~r.noted => /\ ~k.noted
                 /\ CleanAt(k, s) => r.changes[s][o] = None /\ r.deletes[s] = {}

LEMMA InputToValue ==
  ASSUME ShownType, NEW s \in Sids, NEW o \in Opts, Writes(s, o)
  PROVE  shown[s][o] \in Vals
BY FormAssumption DEF ShownType, Writes, Active, Inputs

LEMMA OptionEffect ==
  ASSUME NEW k \in Caches, ShownType, NEW s \in Sids, NEW o \in Opts
  PROVE  OptionWorks(k, After(k, s, o), s, o)
<1>1. OptionWorks(k, k, s, o)
  BY DEF OptionWorks, Caches, Configs, Sections, CleanAt
<1>2. ASSUME NEW v \in Vals \cup {None}, NEW r, SetWorks(k, r, s, o, v)
      PROVE  OptionWorks(k, r, s, o)
  <2>. USE <1>2, FormAssumption
  <2>1. CASE Created(k, s)
    BY <2>1 DEF SetWorks, OptionWorks, Caches, Configs, Sections, CleanAt, Created, Dropped
  <2>2. CASE ~Created(k, s) /\ v # None /\ (Dropped(k, s) \/ ~Known(k, s))
    BY <1>1, <2>2 DEF SetWorks
  <2>3. CASE ~Created(k, s) /\ v # None /\ ~Dropped(k, s) /\ Known(k, s)
    BY <2>3 DEF SetWorks, OptionWorks, Created, CleanAt
  <2>4. CASE ~Created(k, s) /\ v = None
    BY <2>4 DEF SetWorks, OptionWorks, Created, CleanAt
  <2>. QED  BY <2>1, <2>2, <2>3, <2>4
<1>3. CASE s \in Rows(k) /\ Writes(s, o)
  BY <1>2, <1>3, SetEffect, InputToValue DEF After, ParseOption
<1>4. CASE s \in Rows(k) /\ ~Writes(s, o) /\ Removes(s, o)
  BY <1>2, <1>4, SetEffect DEF After, ParseOption
<1>5. CASE ~(s \in Rows(k) /\ (Writes(s, o) \/ Removes(s, o)))
  BY <1>1, <1>5 DEF After, ParseOption
<1>. QED  BY <1>3, <1>4, <1>5

\* In a section that exists and has no differences yet, what is written is a
\* change, what is removed is deleted if it is there, the rest stays.
LEMMA CleanOption ==
  ASSUME NEW k \in Caches, ShownType, NEW s \in Sids, NEW o \in Opts,
         CleanAt(k, s), Known(k, s), s \in Rows(k)
  PROVE  LET r == After(k, s, o)
         IN  /\ Writes(s, o) => r.changes[s][o] = shown[s][o] /\ o \notin r.deletes[s]
             /\ ~Writes(s, o) => r.changes[s][o] = None
             /\ ~Writes(s, o) /\ Removes(s, o) =>
                  (o \in r.deletes[s] <=> k.values[s][o] # None)
             /\ ~Writes(s, o) /\ ~Removes(s, o) => o \notin r.deletes[s]
<1>. ~Created(k, s) /\ ~Dropped(k, s)
  BY FormAssumption DEF CleanAt, Created, Dropped
<1>1. CASE Writes(s, o)
  <2>1. SetWorks(k, After(k, s, o), s, o, shown[s][o])
    BY <1>1, SetEffect, InputToValue DEF After, ParseOption
  <2>. QED  BY <1>1, <2>1, InputToValue, FormAssumption DEF SetWorks, CleanAt
<1>2. CASE ~Writes(s, o) /\ Removes(s, o)
  <2>1. SetWorks(k, After(k, s, o), s, o, None)
    BY <1>2, SetEffect DEF After, ParseOption
  <2>. QED  BY <1>2, <2>1 DEF SetWorks, CleanAt
<1>3. CASE ~Writes(s, o) /\ ~Removes(s, o)
  BY <1>3 DEF After, ParseOption, CleanAt
<1>. QED  BY <1>1, <1>2, <1>3

ParseWorks(k, p) ==
  /\ p \in Caches
  /\ p.values = k.values
  /\ p.noted <=> k.noted \/ \E s \in Sids, o \in Opts : After(k, s, o).noted
  /\ \A s \in Sids :
       /\ p.creates[s] = None <=> k.creates[s] = None
       /\ Dropped(p, s) <=> Dropped(k, s)
       /\ \A o \in Opts :
            /\ p.changes[s][o] = After(k, s, o).changes[s][o]
            /\ ~Dropped(k, s) => (o \in p.deletes[s] <=> o \in After(k, s, o).deletes[s])

LEMMA ParseEffect ==
  ASSUME NEW k \in Caches, ShownType
  PROVE  ParseWorks(k, Parse(k))
<1>. DEFINE p == Parse(k)
            creates == [s \in Sids |-> IF k.creates[s] = None THEN None
                          ELSE [o \in Opts |-> After(k, s, o).creates[s][o]]]
            changes == [s \in Sids |-> [o \in Opts |-> After(k, s, o).changes[s][o]]]
            deletes == [s \in Sids |-> IF k.deletes[s] = Whole THEN Whole
                          ELSE {o \in Opts : o \in After(k, s, o).deletes[s]}]
            noted == k.noted \/ \E s \in Sids, o \in Opts : After(k, s, o).noted
<1>1. p = [values |-> k.values, creates |-> creates, changes |-> changes,
           deletes |-> deletes, noted |-> noted]
  BY Zenon DEF Parse, After
<1>2. /\ p.values = k.values /\ p.creates = creates /\ p.changes = changes
      /\ p.deletes = deletes /\ p.noted = noted
  <2>. HIDE DEF p, creates, changes, deletes, noted
  <2>. QED  BY <1>1
<1>3. \A s \in Sids, o \in Opts : OptionWorks(k, After(k, s, o), s, o)
  BY OptionEffect
<1>4. creates \in Configs
  BY <1>3 DEF OptionWorks, Configs, Sections, Caches
<1>5. changes \in [Sids -> Sections]
  BY <1>3 DEF OptionWorks, Sections
<1>6. deletes \in [Sids -> (SUBSET Opts) \cup {Whole}]
  OBVIOUS
<1>7. noted \in BOOLEAN
  OBVIOUS
<1>8. p \in Caches
  <2>. k.values \in Configs \cup {None}
    BY DEF Caches
  <2>. HIDE DEF p, creates, changes, deletes, noted
  <2>. QED  BY <1>1, <1>4, <1>5, <1>6, <1>7 DEF Caches
<1>9. ASSUME NEW s \in Sids
      PROVE  /\ p.creates[s] = None <=> k.creates[s] = None
             /\ Dropped(p, s) <=> Dropped(k, s)
             /\ \A o \in Opts :
                  /\ p.changes[s][o] = After(k, s, o).changes[s][o]
                  /\ ~Dropped(k, s) =>
                       (o \in p.deletes[s] <=> o \in After(k, s, o).deletes[s])
  <2>1. creates[s] = None <=> k.creates[s] = None
    <3>1. CASE k.creates[s] # None
      <4>1. creates[s] \in Sections
        BY <1>3, <3>1 DEF OptionWorks, Sections
      <4>. QED  BY <3>1, <4>1, NoneIsNoSection
    <3>. QED  BY <3>1
  <2>2. deletes[s] = Whole <=> k.deletes[s] = Whole
    BY FormAssumption
  <2>. QED  BY <1>2, <2>1, <2>2 DEF Dropped
<1>. QED  BY <1>2, <1>8, <1>9 DEF ParseWorks

-----------------------------------------------------------------------------
(* The differences of a cache stay free of contradictions, and are empty   *)
(* as long as none is noted.                                               *)

CleanUnlessNoted(k) == k.noted \/ \A s \in Sids : CleanAt(k, s)

CacheOK(k) == k \in Caches /\ Consistent(k) /\ CleanUnlessNoted(k)

LEMMA ParseKeeps ==
  ASSUME NEW k, CacheOK(k), ShownType
  PROVE  CacheOK(Parse(k))
<1>. DEFINE p == Parse(k)
<1>1. ParseWorks(k, p)
  BY ParseEffect DEF CacheOK
<1>2. \A s \in Sids, o \in Opts : OptionWorks(k, After(k, s, o), s, o)
  BY OptionEffect DEF CacheOK
<1>. HIDE DEF p
<1>3. Consistent(p)
  BY <1>1, <1>2 DEF CacheOK, Consistent, ParseWorks, OptionWorks
<1>4. ASSUME ~p.noted, NEW s \in Sids  PROVE  CleanAt(p, s)
  <2>1. ~k.noted /\ CleanAt(k, s) /\ \A o \in Opts : ~After(k, s, o).noted
    BY <1>1, <1>4 DEF ParseWorks, CacheOK, CleanUnlessNoted
  <2>2. \A o \in Opts : After(k, s, o).changes[s][o] = None /\ After(k, s, o).deletes[s] = {}
    BY <1>2, <2>1 DEF OptionWorks
  <2>3. ~Dropped(k, s) /\ k.creates[s] = None
    BY <2>1, FormAssumption DEF CleanAt, Dropped
  <2>4. p.deletes[s] \in SUBSET Opts
    BY <1>1, <2>3 DEF ParseWorks, Caches, Dropped
  <2>5. p.deletes[s] = {}
    BY <1>1, <2>2, <2>3, <2>4 DEF ParseWorks
  <2>6. p.creates[s] = None /\ \A o \in Opts : p.changes[s][o] = None
    BY <1>1, <2>2, <2>3 DEF ParseWorks
  <2>. QED  BY <2>5, <2>6 DEF CleanAt
<1>. QED  BY <1>1, <1>3, <1>4 DEF CacheOK, ParseWorks, CleanUnlessNoted, p

LEMMA AddKeeps ==
  ASSUME NEW k, CacheOK(k), NEW s \in Sids
  PROVE  CacheOK(Add(k, s))
BY DEF CacheOK, Add, Caches, Configs, Sections, NoOptions, Consistent, Dropped, CleanUnlessNoted

LEMMA RemoveKeeps ==
  ASSUME NEW k, CacheOK(k), NEW s \in Sids
  PROVE  CacheOK(RemoveSid(k, s))
<1>. USE DEF CacheOK, RemoveSid, Caches, Consistent, Dropped, CleanUnlessNoted
<1>1. CASE Created(k, s)
  BY <1>1 DEF Configs, Sections, Created, CleanAt
<1>2. CASE ~Created(k, s) /\ Known(k, s)
  BY <1>2 DEF NoOptions, Sections
<1>3. CASE ~Created(k, s) /\ ~Known(k, s)
  BY <1>3
<1>. QED  BY <1>1, <1>2, <1>3

LEMMA GetType ==
  ASSUME NEW k \in Caches, NEW s \in Sids, NEW o \in Opts
  PROVE  Get(k, s, o) \in Vals \cup {None}
BY DEF Get, Created, Known, Caches, Configs, Sections

\* Reading a section as a whole changes nothing but what counts as loaded.
LEMMA PeekEffect ==
  ASSUME NEW k \in Caches
  PROVE  /\ Peeked(k) \in Caches
         /\ Peeked(k).values = None <=> k.values = None
         /\ k.values # None => \A s \in Sids :
              /\ Peeked(k).values[s] = None <=> k.values[s] = None
              /\ CleanAt(k, s) => Peeked(k).values[s] = k.values[s]
         /\ Peeked(k).creates = k.creates /\ Peeked(k).changes = k.changes
         /\ Peeked(k).deletes = k.deletes /\ Peeked(k).noted = k.noted
<1>. DEFINE merged == [s \in Sids |-> IF s \in Named THEN Peek(k, s).values[s] ELSE k.values[s]]
            values == IF k.values = None THEN None ELSE merged
<1>1. Peeked(k) = [k EXCEPT !.values = values]
  BY DEF Peeked, Caches
<1>2. ASSUME k.values # None, NEW s \in Sids
      PROVE  /\ merged[s] \in Sections \cup {None}
             /\ merged[s] = None <=> k.values[s] = None
             /\ CleanAt(k, s) => merged[s] = k.values[s]
  <2>1. k.values[s] \in Sections \cup {None}
    BY <1>2 DEF Caches, Configs
  <2>2. CASE s \notin Named \/ Created(k, s) \/ ~Known(k, s) \/ Dropped(k, s)
    BY <2>1, <2>2 DEF Peek
  <2>3. CASE s \in Named /\ ~Created(k, s) /\ Known(k, s) /\ ~Dropped(k, s)
    <3>1. merged[s] = [o \in Opts |-> Get(k, s, o)]
      <4>1. Peek(k, s) = [k EXCEPT !.values[s] = [o \in Opts |-> Get(k, s, o)]]
        BY <2>3 DEF Peek
      <4>2. k.values \in Configs
        BY <1>2 DEF Caches
      <4>. QED  BY <2>3, <4>1, <4>2 DEF Caches, Configs
    <3>2. merged[s] \in Sections
      BY <3>1, GetType DEF Sections
    <3>3. k.values[s] \in Sections
      BY <2>1, <2>3 DEF Known
    <3>4. ASSUME CleanAt(k, s)  PROVE  merged[s] = k.values[s]
      <4>1. \A o \in Opts : Get(k, s, o) = k.values[s][o]
        BY <2>3, <3>4 DEF CleanAt, Get
      <4>. QED  BY <3>1, <3>3, <4>1 DEF Sections
    <3>. QED  BY <3>2, <3>3, <3>4, NoneIsNoSection
  <2>. QED  BY <2>2, <2>3
<1>3. values \in Configs \cup {None}
  BY <1>2 DEF Configs
<1>4. values = None <=> k.values = None
  BY <1>3, FormAssumption, <1>2 DEF Configs
<1>. HIDE DEF values
<1>5. /\ Peeked(k) \in Caches /\ Peeked(k).values = values
      /\ Peeked(k).creates = k.creates /\ Peeked(k).changes = k.changes
      /\ Peeked(k).deletes = k.deletes /\ Peeked(k).noted = k.noted
  BY <1>1, <1>3 DEF Caches
<1>6. k.values # None => values = merged
  BY DEF values
<1>. QED  BY <1>2, <1>4, <1>5, <1>6

LEMMA PeekKeeps ==
  ASSUME NEW k, CacheOK(k)
  PROVE  CacheOK(Peeked(k))
BY PeekEffect DEF CacheOK, Consistent, CleanUnlessNoted, CleanAt, Dropped

-----------------------------------------------------------------------------
(* Types.                                                                  *)

SaveShapes ==
  /\ save = [b \in Buttons |-> save[b]]
  /\ \A b \in Buttons :
       /\ "phase" \in DOMAIN save[b]
       /\ save[b].phase = "sent" =>
            /\ save[b].calls \in Caches
            /\ save[b].form \in [Sids -> [Opts -> Inputs] \cup {None}]
       /\ save[b].phase = "fetched" => save[b].values \in Configs

TypeInv == FormTypeOK /\ SaveShapes /\ CacheOK(cache)

LEMMA ContentsType ==
  ASSUME NEW k \in Caches, NEW c \in Configs
  PROVE  Contents(k, c) \in Configs
BY GetType DEF Contents, Configs, Sections

LEMMA WidgetsType ==
  ASSUME NEW k, NEW c \in Configs
  PROVE  Widgets(k, c) \in [Sids -> [Opts -> Inputs] \cup {None}]
BY DEF Widgets, Configs, Sections, Inputs

LEMMA LoadedOK ==
  ASSUME NEW c \in Configs \cup {None}
  PROVE  CacheOK(Loaded(c)) /\ Loaded(c).values = c /\ ~Loaded(c).noted
         /\ \A s \in Sids : CleanAt(Loaded(c), s)
BY DEF CacheOK, Loaded, Caches, Configs, Sections, NoOptions, NoSections, Consistent,
       CleanUnlessNoted, CleanAt

LEMMA TypeInit ==
  ASSUME FormInit
  PROVE  TypeInv
<1>1. server \in Configs
  BY DEF FormInit
<1>2. CacheOK(cache)
  BY <1>1, LoadedOK DEF FormInit
<1>3. cfg \in Configs
  BY <1>2, ContentsType DEF FormInit, CacheOK, NoSections, Configs
<1>4. shown \in [Sids -> [Opts -> Inputs] \cup {None}]
  BY <1>3, WidgetsType DEF FormInit
<1>5. SaveShapes /\ \A b \in Buttons : save[b].phase \in Phases
  BY DEF FormInit, SaveShapes, Ready, Phases
<1>6. /\ typed \subseteq Fields /\ foreign \subseteq Fields
      /\ {broken, failed, crossed} \subseteq BOOLEAN /\ events \in 0 .. MaxEvents
  <2>1. /\ typed = {} /\ broken = FALSE /\ foreign = {} /\ failed = FALSE
        /\ crossed = FALSE /\ events = 0
    BY DEF FormInit
  <2>2. MaxEvents \in Nat
    BY FormAssumption
  <2>3. {broken, failed, crossed} \subseteq BOOLEAN
    BY <2>1, Zenon
  <2>4. typed \subseteq Fields /\ foreign \subseteq Fields
    BY <2>1
  <2>5. events \in 0 .. MaxEvents
    BY <2>1, <2>2
  <2>. QED  BY <2>3, <2>4, <2>5
<1>. QED
  BY <1>1, <1>2, <1>3, <1>4, <1>5, <1>6 DEF TypeInv, FormTypeOK, CacheOK

\* What a save finds in the cache and what it leaves there.
LEMMA SaveType ==
  ASSUME TypeInv, NEW b \in Buttons, NEW k, CacheOK(k), Save(b, k)
  PROVE  TypeInv'
<1>1. CacheOK(Parse(k))
  BY ParseKeeps DEF TypeInv, FormTypeOK, ShownType
<1>2. cache' = Parse(k) /\ UNCHANGED <<server, cfg, shown, typed, broken, foreign>>
  BY DEF Save
<1>3. events' \in 0 .. MaxEvents /\ {broken', failed', crossed'} \subseteq BOOLEAN
  <2>1. events' \in 0 .. MaxEvents
    BY FormAssumption DEF Save, Event, TypeInv, FormTypeOK
  <2>2. failed' \in {failed, TRUE} /\ broken' = broken
    BY DEF Save
  <2>3. crossed' \in BOOLEAN
    BY DEF Save
  <2>. QED  BY <2>1, <2>2, <2>3 DEF TypeInv, FormTypeOK
<1>4. \/ save' = [save EXCEPT ![b] = Ready]
      \/ save' = [save EXCEPT ![b] = [phase |-> "sent", calls |-> Parse(k), form |-> shown,
                                     typed |-> typed, failed |-> failed]]
      \/ save' = [save EXCEPT ![b] = [phase |-> "joining"]]
      \/ save' = [save EXCEPT ![b] = [phase |-> "access"]]
  BY DEF Save, Done
<1>5. SaveShapes' /\ \A c \in Buttons : save'[c].phase \in Phases
  <2>. USE <1>1, <1>2 DEF TypeInv, FormTypeOK, SaveShapes, CacheOK, Phases
  <2>1. CASE save' = [save EXCEPT ![b] = Ready]
    BY <2>1 DEF Ready
  <2>2. CASE save' = [save EXCEPT ![b] = [phase |-> "sent", calls |-> Parse(k), form |-> shown,
                                          typed |-> typed, failed |-> failed]]
    BY <2>2
  <2>3. CASE save' = [save EXCEPT ![b] = [phase |-> "joining"]]
    BY <2>3
  <2>4. CASE save' = [save EXCEPT ![b] = [phase |-> "access"]]
    BY <2>4
  <2>. QED  BY <1>4, <2>1, <2>2, <2>3, <2>4
<1>. QED
  BY <1>1, <1>2, <1>3, <1>5 DEF TypeInv, FormTypeOK, CacheOK

LEMMA TypeStep ==
  ASSUME TypeInv, FormNext
  PROVE  TypeInv'
<1>. USE DEF TypeInv
<1>1. ASSUME NEW s \in Sids, NEW o \in Opts, NEW v \in Inputs, Type(s, o, v)
      PROVE  TypeInv'
  <2>1. shown' \in [Sids -> [Opts -> Inputs] \cup {None}]
    BY <1>1 DEF Type, FormTypeOK
  <2>2. typed' \subseteq Fields
    BY <1>1 DEF Type, FormTypeOK, Fields
  <2>. QED
    BY <1>1, <2>1, <2>2, FormAssumption DEF Type, FormTypeOK, Event, SaveShapes, CacheOK, ghosts
<1>2. ASSUME Reset  PROVE  TypeInv'
  <2>1. CacheOK(cache')
    BY <1>2, PeekKeeps DEF Reset, Draw
  <2>2. shown' \in [Sids -> [Opts -> Inputs] \cup {None}]
    BY <1>2, WidgetsType DEF Reset, Draw, FormTypeOK
  <2>. QED
    BY <1>2, <2>1, <2>2, FormAssumption DEF Reset, Draw, FormTypeOK, Event, SaveShapes, CacheOK, ghosts
<1>3. ASSUME NEW b \in Buttons, ClickSave(b)  PROVE  TypeInv'
  BY <1>3, SaveType DEF ClickSave
<1>4. ASSUME NEW b \in Buttons, NEW s \in Sids, ClickAdd(b, s)  PROVE  TypeInv'
  BY <1>4, SaveType, AddKeeps DEF ClickAdd
<1>5. ASSUME NEW b \in Buttons, NEW s \in Sids, ClickRemove(b, s)  PROVE  TypeInv'
  BY <1>5, SaveType, RemoveKeeps DEF ClickRemove
<1>6. ASSUME NEW b \in Buttons, Store(b)  PROVE  TypeInv'
  <2>1. Execute(server, save[b].calls) \in Configs
    BY <1>6 DEF Store, FormTypeOK, SaveShapes, Execute, CallSet, CallDelete, Configs, Sections, Caches
  <2>2. SaveShapes' /\ \A c \in Buttons : save'[c].phase \in Phases
    BY <1>6 DEF Store, Goto, FormTypeOK, SaveShapes, Phases
  <2>. QED
    BY <1>6, <2>1, <2>2 DEF Store, FormTypeOK, CacheOK, ghosts
<1>7. ASSUME NEW b \in Buttons, Stored(b)  PROVE  TypeInv'
  <2>1. CacheOK(cache')
    BY <1>7, LoadedOK DEF Stored, Unloaded
  <2>2. SaveShapes' /\ \A c \in Buttons : save'[c].phase \in Phases
    BY <1>7 DEF Stored, FormTypeOK, SaveShapes, Phases
  <2>. QED
    BY <1>7, <2>1, <2>2 DEF Stored, FormTypeOK, CacheOK, ghosts
<1>8. ASSUME NEW b \in Buttons, Fetch(b)  PROVE  TypeInv'
  <2>1. SaveShapes' /\ \A c \in Buttons : save'[c].phase \in Phases
    BY <1>8 DEF Fetch, FormTypeOK, SaveShapes, Phases
  <2>. QED
    BY <1>8, <2>1 DEF Fetch, FormTypeOK, CacheOK
<1>9. ASSUME NEW b \in Buttons, Fetched(b)  PROVE  TypeInv'
  <2>1. CacheOK(cache')
    BY <1>9 DEF Fetched, CacheOK, SaveShapes, Caches, Consistent, Dropped, CleanUnlessNoted, CleanAt
  <2>2. SaveShapes' /\ \A c \in Buttons : save'[c].phase \in Phases
    BY <1>9 DEF Fetched, FormTypeOK, SaveShapes, Phases
  <2>. QED
    BY <1>9, <2>1, <2>2 DEF Fetched, ghosts, FormTypeOK, CacheOK, Caches
<1>10. ASSUME NEW b \in Buttons, Drawn(b)  PROVE  TypeInv'
  <2>1. CacheOK(cache')
    BY <1>10, PeekKeeps DEF Drawn, Draw
  <2>2. cfg' \in Configs
    BY <1>10, ContentsType DEF Drawn, FormTypeOK, CacheOK
  <2>3. shown' \in [Sids -> [Opts -> Inputs] \cup {None}]
    BY <1>10, <2>2, WidgetsType DEF Drawn, Draw
  <2>4. SaveShapes' /\ \A c \in Buttons : save'[c].phase \in Phases
    BY <1>10 DEF Drawn, Done, Ready, FormTypeOK, SaveShapes, Phases
  <2>. QED
    BY <1>10, <2>1, <2>2, <2>3, <2>4 DEF Drawn, Draw, FormTypeOK, CacheOK, ghosts
<1>11. ASSUME NEW b \in Buttons, Fails(b)  PROVE  TypeInv'
  <2>1. SaveShapes' /\ \A c \in Buttons : save'[c].phase \in Phases
    BY <1>11 DEF Fails, Ready, FormTypeOK, SaveShapes, Phases
  <2>. QED
    BY <1>11, <2>1, FormAssumption DEF Fails, Event, FormTypeOK, CacheOK
<1>12. ASSUME NEW s \in Sids, NEW o \in Opts, NEW v \in Vals \cup {None}, Foreign(s, o, v)
       PROVE  TypeInv'
  <2>1. server' \in Configs /\ foreign' \subseteq Fields
    BY <1>12 DEF Foreign, FormTypeOK, Configs, Sections, Fields
  <2>. QED
    BY <1>12, <2>1, FormAssumption DEF Foreign, Event, FormTypeOK, SaveShapes, CacheOK
<1>. QED
  BY <1>1, <1>2, <1>3, <1>4, <1>5, <1>6, <1>7, <1>8, <1>9, <1>10, <1>11, <1>12 DEF FormNext

-----------------------------------------------------------------------------
(* The invariant.  What a save will do is settled when it is pressed, so   *)
(* it is stated of the save that is under way; what makes it so is how     *)
(* form, cache and server relate while nobody saves.                       *)

Busy(b) == save[b].phase # "ready"
OneAtATime == ~crossed => \A b, c \in Buttons : Busy(b) /\ Busy(c) => b = c

\* v is what the server has, except for what others have changed since.
Agrees(v) ==
  /\ v # None
  /\ \A s \in Sids :
       /\ v[s] = None <=> server[s] = None
       /\ server[s] # None =>
            \A o \in Opts : <<s, o>> \notin foreign => v[s][o] = server[s][o]

AtRest == ~failed /\ ~crossed /\ \A b \in Buttons : save[b].phase \in {"ready", "access"}
\* Differences are left in the cache by a failure, or about to be sent.
NotedIsDue ==
  cache.noted => failed \/ \E b \in Buttons : save[b].phase \in {"sent", "stored"}
RestIsCurrent == AtRest => ~cache.noted /\ Agrees(cache.values)
FetchedIsCurrent ==
  ~crossed => \A b \in Buttons : save[b].phase = "fetched" => Agrees(save[b].values)

\* A section that exists is drawn as it was loaded, but for what was typed.
DrawnAt(s) ==
  /\ cfg[s] = cache.values[s] /\ shown[s] # None
  /\ \A o \in Opts : <<s, o>> \notin typed /\ o \notin Flags => shown[s][o] = cfg[s][o]
FormIsLoaded ==
  Quiet /\ ~failed /\ ~crossed => \A s \in Sids : server[s] # None => DrawnAt(s)

Meant(form, s, o) ==
  IF Needs[o] # None /\ form[s][Needs[o]] # On THEN None ELSE form[s][o]
Stands(b, s) ==
  server[s] # None /\ save[b].form[s] # None /\ save[b].calls.deletes[s] # Whole
StoresForm(b) ==
  \A s \in Sids, o \in Opts : Stands(b, s) /\ <<s, o>> \notin foreign =>
    Execute(server, save[b].calls)[s][o] = Meant(save[b].form, s, o)
LeavesRest(b) ==
  \A s \in Sids, o \in Opts :
    Stands(b, s) /\ <<s, o>> \notin save[b].typed /\ o \notin Flags /\ Needs[o] = None =>
      save[b].calls.changes[s][o] = None /\ o \notin save[b].calls.deletes[s]
Aimed(b) == save[b].phase = "sent" /\ ~save[b].failed /\ ~crossed
SentIsMeant == \A b \in Buttons : Aimed(b) => StoresForm(b) /\ LeavesRest(b)

FormInv ==
  /\ TypeInv /\ OneAtATime /\ NotedIsDue
  /\ RestIsCurrent /\ FetchedIsCurrent /\ FormIsLoaded /\ SentIsMeant

-----------------------------------------------------------------------------
(* A save.                                                                 *)

LEMMA ExecuteEffect ==
  ASSUME NEW config \in Configs, NEW k \in Caches, NEW s \in Sids, NEW o \in Opts,
         config[s] # None, ~Dropped(k, s)
  PROVE  Execute(config, k)[s][o] =
           IF k.changes[s][o] # None THEN k.changes[s][o]
           ELSE IF o \in k.deletes[s] THEN None ELSE config[s][o]
<1>. DEFINE left == CallDelete(config, s, k.deletes[s])
            section == [q \in Opts |-> IF q \in k.deletes[s] THEN None ELSE config[s][q]]
<1>1. left = [config EXCEPT ![s] = section]
  BY DEF CallDelete, Dropped, Configs
<1>2. left[s] = section /\ section \in Sections
  BY <1>1 DEF Configs, Sections
<1>3. left[s] # None
  BY <1>2, NoneIsNoSection
<1>. HIDE DEF left
<1>4. CallSet(left, s, k.changes[s])[s] =
        [q \in Opts |-> IF k.changes[s][q] # None THEN k.changes[s][q] ELSE left[s][q]]
  <2>1. left \in Configs
    BY <1>1, <1>2 DEF Configs
  <2>. QED  BY <1>3, <2>1 DEF CallSet, Configs
<1>5. Execute(config, k)[s] = CallSet(left, s, k.changes[s])[s]
  BY DEF Execute, left
<1>. QED  BY <1>2, <1>4, <1>5

\* What the buttons make of the cache before they save.
Pressed(k) ==
  \/ k = cache
  \/ \E s \in Sids : shown[s] = None /\ k = Add(cache, s)
  \/ \E s \in Sids : k = RemoveSid(cache, s)

LEMMA PressedBasis ==
  ASSUME TypeInv, NEW k, Pressed(k)
  PROVE  /\ CacheOK(k) /\ k.values = cache.values
         /\ ~cache.noted => \A s \in Sids :
              shown[s] # None /\ ~Dropped(k, s) => CleanAt(k, s)
<1>1. CASE k = cache
  BY <1>1 DEF TypeInv, CacheOK, CleanUnlessNoted
<1>2. ASSUME NEW s \in Sids, shown[s] = None, k = Add(cache, s)
      PROVE  /\ CacheOK(k) /\ k.values = cache.values
             /\ ~cache.noted => \A t \in Sids :
                  shown[t] # None /\ ~Dropped(k, t) => CleanAt(k, t)
  <2>1. CacheOK(k)
    BY <1>2, AddKeeps DEF TypeInv
  <2>2. /\ k.values = cache.values /\ k.deletes = cache.deletes /\ k.changes = cache.changes
        /\ \A t \in Sids \ {s} : k.creates[t] = cache.creates[t]
    BY <1>2 DEF Add, TypeInv, CacheOK, Caches, Configs
  <2>. QED  BY <1>2, <2>1, <2>2 DEF TypeInv, CacheOK, CleanUnlessNoted, CleanAt
<1>3. ASSUME NEW s \in Sids, k = RemoveSid(cache, s)
      PROVE  /\ CacheOK(k) /\ k.values = cache.values
             /\ ~cache.noted => \A t \in Sids :
                  shown[t] # None /\ ~Dropped(k, t) => CleanAt(k, t)
  <2>1. CacheOK(k)
    BY <1>3, RemoveKeeps DEF TypeInv
  <2>2. k.values = cache.values
    BY <1>3 DEF RemoveSid, TypeInv, CacheOK, Caches
  <2>3. ASSUME ~cache.noted, NEW t \in Sids, ~Dropped(k, t)  PROVE  CleanAt(k, t)
    <3>1. \A q \in Sids : CleanAt(cache, q)
      BY <2>3 DEF TypeInv, CacheOK, CleanUnlessNoted
    <3>2. ~Created(cache, s)
      BY <3>1 DEF CleanAt, Created
    <3>3. CASE Known(cache, s)
      BY <1>3, <2>3, <3>1, <3>2, <3>3
      DEF RemoveSid, CleanAt, Dropped, TypeInv, CacheOK, Caches
    <3>4. CASE ~Known(cache, s)
      BY <1>3, <3>1, <3>2, <3>4 DEF RemoveSid
    <3>. QED  BY <3>3, <3>4
  <2>. QED  BY <2>1, <2>2, <2>3
<1>. QED  BY <1>1, <1>2, <1>3 DEF Pressed

\* A save that is pressed while all is quiet, and does not refuse, is going to
\* store what the form shows, and nothing that was not typed.
LEMMA SaveAims ==
  ASSUME FormInv, Quiet, ~failed, ~crossed, NEW k, Pressed(k), Valid(k),
         NEW s \in Sids, NEW o \in Opts, server[s] # None, shown[s] # None, ~Dropped(k, s)
  PROVE  LET p == Parse(k)
         IN  /\ <<s, o>> \notin foreign => Execute(server, p)[s][o] = Meant(shown, s, o)
             /\ <<s, o>> \notin typed /\ o \notin Flags /\ Needs[o] = None =>
                  p.changes[s][o] = None /\ o \notin p.deletes[s]
<1>. DEFINE p == Parse(k)
            r == After(k, s, o)
<1>1. ~cache.noted /\ Agrees(cache.values)
  BY DEF FormInv, RestIsCurrent, AtRest, Quiet
<1>2. CacheOK(k) /\ k.values = cache.values /\ CleanAt(k, s)
  BY <1>1, PressedBasis DEF FormInv
<1>3. Known(k, s) /\ s \in Rows(k)
  BY <1>1, <1>2 DEF Agrees, Known, Rows, Listed
<1>4. ShownType /\ ParseWorks(k, p)
  BY <1>2, ParseEffect DEF FormInv, TypeInv, FormTypeOK, ShownType, CacheOK
<1>5. DrawnAt(s)
  BY DEF FormInv, FormIsLoaded
<1>6. /\ Writes(s, o) => r.changes[s][o] = shown[s][o] /\ o \notin r.deletes[s]
      /\ ~Writes(s, o) => r.changes[s][o] = None
      /\ ~Writes(s, o) /\ Removes(s, o) => (o \in r.deletes[s] <=> k.values[s][o] # None)
      /\ ~Writes(s, o) /\ ~Removes(s, o) => o \notin r.deletes[s]
  BY <1>2, <1>3, <1>4, CleanOption DEF CacheOK
<1>7. p.changes[s][o] = r.changes[s][o] /\ (o \in p.deletes[s] <=> o \in r.deletes[s])
  BY <1>4 DEF ParseWorks
<1>8. p \in Caches /\ ~Dropped(p, s)
  BY <1>4 DEF ParseWorks
<1>9. server \in Configs
  BY DEF FormInv, TypeInv, FormTypeOK
<1>10. Active(s, o) => shown[s][o] # Bad
  BY <1>3 DEF Valid
<1>11. Active(s, o) <=> (Needs[o] # None => shown[s][Needs[o]] = On)
  BY DEF Active
<1>12. cfg[s] # None /\ cfg[s] = k.values[s]
  BY <1>1, <1>2, <1>5 DEF Agrees, DrawnAt
<1>. HIDE DEF p, r
<1>13. Execute(server, p)[s][o] = IF p.changes[s][o] # None THEN p.changes[s][o]
                                  ELSE IF o \in p.deletes[s] THEN None ELSE server[s][o]
  BY <1>8, <1>9, ExecuteEffect
<1>14. ASSUME <<s, o>> \notin foreign
       PROVE  Execute(server, p)[s][o] = Meant(shown, s, o)
  <2>1. k.values[s][o] = server[s][o]
    BY <1>1, <1>2, <1>14 DEF Agrees
  <2>2. CASE Writes(s, o)
    BY <1>6, <1>7, <1>11, <1>13, <2>2 DEF Writes, Meant
  <2>3. CASE ~Writes(s, o) /\ Removes(s, o)
    BY <1>6, <1>7, <1>11, <1>13, <2>1, <2>3 DEF Removes, Meant
  <2>4. CASE ~Writes(s, o) /\ ~Removes(s, o)
    BY <1>6, <1>7, <1>10, <1>11, <1>12, <1>13, <2>1, <2>4 DEF Writes, Removes, Meant
  <2>. QED  BY <2>2, <2>3, <2>4
<1>15. ASSUME <<s, o>> \notin typed, o \notin Flags, Needs[o] = None
       PROVE  p.changes[s][o] = None /\ o \notin p.deletes[s]
  <2>1. shown[s][o] = cfg[s][o] /\ Active(s, o)
    BY <1>5, <1>11, <1>15 DEF DrawnAt
  <2>2. ~Writes(s, o)
    BY <1>12, <1>15, <2>1 DEF Writes
  <2>. QED  BY <1>6, <1>7, <1>12, <2>1, <2>2 DEF Removes
<1>. QED  BY <1>14, <1>15 DEF p

LEMMA SaveStep ==
  ASSUME FormInv, NEW b \in Buttons, NEW k, Pressed(k), Save(b, k)
  PROVE  FormInv'
<1>. DEFINE p == Parse(k)
            sent == [phase |-> "sent", calls |-> p, form |-> shown,
                     typed |-> typed, failed |-> failed]
<1>1. CacheOK(k) /\ k.values = cache.values
  BY PressedBasis DEF FormInv
<1>2. TypeInv'
  BY <1>1, SaveType DEF FormInv
<1>3. CacheOK(p) /\ p.values = k.values
  BY <1>1, ParseKeeps, ParseEffect DEF FormInv, TypeInv, FormTypeOK, ShownType, CacheOK, ParseWorks
<1>4. /\ cache' = p /\ UNCHANGED <<server, cfg, shown, typed, broken, foreign>>
      /\ save[b].phase = "ready"
      /\ crossed' <=> crossed \/ ~Quiet
  BY DEF Save
<1>5. \/ failed' /\ save' = [save EXCEPT ![b] = Ready]
      \/ /\ failed' = failed /\ Valid(k)
         /\ \/ p.noted /\ save' = [save EXCEPT ![b] = sent]
            \/ ~p.noted /\ save' = [save EXCEPT ![b] = [phase |-> "joining"]]
            \/ ~p.noted /\ save' = [save EXCEPT ![b] = [phase |-> "access"]]
  BY DEF Save, Done
<1>6. /\ \A c \in Buttons \ {b} : save'[c] = save[c]
      /\ \/ failed' /\ save'[b].phase = "ready"
         \/ /\ failed' = failed /\ Valid(k)
            /\ \/ save'[b] = sent
               \/ ~p.noted /\ save'[b].phase \in {"joining", "access"}
  <2>. save = [c \in Buttons |-> save[c]]
    BY DEF FormInv, TypeInv, SaveShapes
  <2>1. CASE failed' /\ save' = [save EXCEPT ![b] = Ready]
    BY <2>1 DEF Ready
  <2>2. CASE failed' = failed /\ Valid(k) /\ save' = [save EXCEPT ![b] = sent]
    <3>. HIDE DEF sent
    <3>. QED  BY <2>2
  <2>3. CASE failed' = failed /\ Valid(k) /\ ~p.noted /\ save' = [save EXCEPT ![b] = [phase |-> "joining"]]
    <3>. HIDE DEF sent, p
    <3>. QED  BY <2>3
  <2>4. CASE failed' = failed /\ Valid(k) /\ ~p.noted /\ save' = [save EXCEPT ![b] = [phase |-> "access"]]
    <3>. HIDE DEF sent, p
    <3>. QED  BY <2>4
  <2>. QED  BY <1>5, <2>1, <2>2, <2>3, <2>4
<1>. HIDE DEF p
<1>7. ~crossed' => Quiet /\ ~crossed
  BY <1>4
<1>8. OneAtATime'
  BY <1>6, <1>7 DEF OneAtATime, Quiet, Busy
<1>9. RestIsCurrent'
  <2>1. SUFFICES ASSUME AtRest'  PROVE (~cache.noted /\ Agrees(cache.values))'
    BY DEF RestIsCurrent
  <2>2. ~failed' /\ ~crossed' /\ save'[b].phase \in {"ready", "access"}
    BY <2>1 DEF AtRest
  <2>3. ~p.noted /\ ~failed
    BY <1>6, <2>2
  <2>4. Agrees(cache.values)
    BY <1>7, <2>2, <2>3 DEF FormInv, RestIsCurrent, AtRest, Quiet
  <2>. QED  BY <1>1, <1>3, <1>4, <2>3, <2>4 DEF Agrees
<1>10. FetchedIsCurrent'
  <2>1. SUFFICES ASSUME ~crossed', NEW c \in Buttons, save'[c].phase = "fetched"
                 PROVE  FALSE
    BY DEF FetchedIsCurrent
  <2>2. save'[b].phase # "fetched"
    BY <1>6
  <2>. QED  BY <1>6, <1>7, <2>1, <2>2 DEF Quiet
<1>11. FormIsLoaded'
  BY <1>6 DEF FormIsLoaded, Quiet
<1>12. SentIsMeant'
  <2>1. SUFFICES ASSUME NEW c \in Buttons, Aimed(c)'  PROVE StoresForm(c)' /\ LeavesRest(c)'
    BY DEF SentIsMeant
  <2>2. ~crossed' /\ save'[c].phase = "sent" /\ ~save'[c].failed
    BY <2>1 DEF Aimed
  <2>3. c = b
    BY <1>6, <1>7, <2>2 DEF Quiet
  <2>4. save'[b] = sent /\ Valid(k)
    BY <1>6, <2>2, <2>3
  <2>5. ~failed /\ Quiet /\ ~crossed
    BY <1>7, <2>2, <2>3, <2>4
  <2>6. /\ save'[b].calls = p /\ save'[b].form = shown /\ save'[b].typed = typed
        /\ server' = server /\ foreign' = foreign
    BY <1>4, <2>4
  <2>7. ASSUME NEW s \in Sids, NEW o \in Opts, Stands(b, s)'
        PROVE  /\ <<s, o>> \notin foreign => Execute(server, p)[s][o] = Meant(shown, s, o)
               /\ <<s, o>> \notin typed /\ o \notin Flags /\ Needs[o] = None =>
                    p.changes[s][o] = None /\ o \notin p.deletes[s]
    <3>1. server[s] # None /\ shown[s] # None /\ p.deletes[s] # Whole
      BY <2>6, <2>7 DEF Stands
    <3>2. ~Dropped(k, s)
      BY <1>1, <3>1, ParseEffect
      DEF FormInv, TypeInv, FormTypeOK, ShownType, CacheOK, ParseWorks, Dropped, p
    <3>. QED  BY <2>4, <2>5, <3>1, <3>2, SaveAims DEF p
  <2>8. StoresForm(b)'
    BY <2>6, <2>7 DEF StoresForm, Meant
  <2>9. LeavesRest(b)'
    BY <2>6, <2>7 DEF LeavesRest
  <2>. QED  BY <2>3, <2>8, <2>9
<1>13. NotedIsDue'
  <2>1. CASE failed'
    BY <2>1 DEF NotedIsDue
  <2>2. CASE save'[b] = sent
    BY <2>2 DEF NotedIsDue
  <2>3. CASE ~p.noted
    BY <1>4, <2>3 DEF NotedIsDue
  <2>. QED  BY <1>6, <2>1, <2>2, <2>3
<1>. QED
  BY <1>2, <1>8, <1>13, <1>9, <1>10, <1>11, <1>12 DEF FormInv

-----------------------------------------------------------------------------
(* The other steps.                                                        *)

\* Drawing from a clean cache that agrees with the server.
LEMMA DrawEffect ==
  ASSUME TypeInv, ~cache.noted, Agrees(cache.values), NEW c \in Configs, Draw(c)
  PROVE  /\ ~cache'.noted /\ cache'.values # None
         /\ \A s \in Sids : cache'.values[s] = cache.values[s]
         /\ \A s \in Sids :
              server[s] # None /\ c[s] = cache.values[s] =>
                /\ shown'[s] # None
                /\ \A o \in Opts : o \notin Flags => shown'[s][o] = c[s][o]
<1>1. \A s \in Sids : CleanAt(cache, s)
  BY DEF TypeInv, CacheOK, CleanUnlessNoted
<1>2. /\ ~cache'.noted /\ cache'.values # None
      /\ \A s \in Sids : cache'.values[s] = cache.values[s]
  BY <1>1, PeekEffect DEF Draw, Agrees, TypeInv, CacheOK
<1>3. ASSUME NEW s \in Sids, server[s] # None, c[s] = cache.values[s]
      PROVE  /\ shown'[s] # None
             /\ \A o \in Opts : o \notin Flags => shown'[s][o] = c[s][o]
  <2>1. c[s] # None
    BY <1>3 DEF Agrees
  <2>2. s \in Listed(cache)
    BY <1>1, <1>3, <2>1, FormAssumption DEF Listed, Known, Dropped, CleanAt, Agrees
  <2>3. shown'[s] = [o \in Opts |-> IF c[s] = None \/ (o \in Flags /\ c[s][o] # On)
                                    THEN None ELSE c[s][o]]
    BY <2>2 DEF Draw, Widgets
  <2>4. shown'[s] \in [Opts -> Inputs]
    <3>1. c[s] \in Sections
      BY <2>1 DEF Configs
    <3>. QED  BY <2>3, <3>1 DEF Sections, Inputs
  <2>5. shown'[s] # None
    BY <2>4, FormAssumption
  <2>. QED  BY <2>1, <2>3, <2>5
<1>. QED  BY <1>2, <1>3

\* What does not concern the saves that are sent leaves them as they are.
LEMMA SentStays ==
  ASSUME SentIsMeant, UNCHANGED <<server, foreign>>, ~crossed' => ~crossed,
         \A c \in Buttons : save'[c].phase = "sent" => save'[c] = save[c]
  PROVE  SentIsMeant'
<1>1. ASSUME NEW c \in Buttons, Aimed(c)'  PROVE StoresForm(c)' /\ LeavesRest(c)'
  <2>1. save'[c] = save[c] /\ Aimed(c)
    BY <1>1 DEF Aimed
  <2>2. StoresForm(c) /\ LeavesRest(c)
    BY <2>1 DEF SentIsMeant
  <2>3. StoresForm(c)'
    BY <2>1, <2>2 DEF StoresForm, Stands
  <2>4. LeavesRest(c)'
    BY <2>1, <2>2 DEF LeavesRest, Stands
  <2>. QED  BY <2>3, <2>4
<1>. QED  BY <1>1 DEF SentIsMeant

LEMMA FormStart ==
  ASSUME FormInit
  PROVE  FormInv
<1>1. TypeInv
  BY TypeInit
<1>2. /\ server \in Configs /\ cache = Loaded(server) /\ cfg = Contents(cache, NoSections)
      /\ shown = Widgets(cache, cfg) /\ Quiet
  BY DEF FormInit, Quiet, Ready
<1>3. cache.values = server /\ ~cache.noted /\ \A s \in Sids : CleanAt(cache, s)
  BY <1>2, LoadedOK
<1>4. Agrees(cache.values)
  BY <1>2, <1>3, FormAssumption DEF Agrees
<1>5. FormIsLoaded
  <2>1. SUFFICES ASSUME NEW s \in Sids, server[s] # None  PROVE  DrawnAt(s)
    BY DEF FormIsLoaded
  <2>2. s \in Listed(cache)
    BY <1>3, <1>4, <2>1, FormAssumption DEF Listed, Known, Dropped, CleanAt, Agrees
  <2>3. cfg[s] = [o \in Opts |-> Get(cache, s, o)]
    BY <1>2, <2>2 DEF Contents, Rows
  <2>4. \A o \in Opts : Get(cache, s, o) = server[s][o]
    BY <1>3, <1>4, <2>1, FormAssumption DEF Get, CleanAt, Created, Dropped, Known, Agrees
  <2>5. server[s] \in Sections
    BY <1>2, <2>1 DEF Configs
  <2>6. cfg[s] = server[s]
    BY <2>3, <2>4, <2>5 DEF Sections
  <2>7. shown[s] = [o \in Opts |-> IF cfg[s] = None \/ (o \in Flags /\ cfg[s][o] # On)
                                   THEN None ELSE cfg[s][o]]
    BY <1>2, <2>2 DEF Widgets
  <2>8. shown[s] \in [Opts -> Inputs]
    BY <2>5, <2>6, <2>7 DEF Sections, Inputs
  <2>9. shown[s] # None
    BY <2>8, FormAssumption
  <2>. QED  BY <1>3, <2>1, <2>6, <2>7, <2>9 DEF DrawnAt
<1>. QED
  BY <1>1, <1>2, <1>3, <1>4, <1>5
  DEF FormInv, OneAtATime, NotedIsDue, RestIsCurrent, FetchedIsCurrent, SentIsMeant, Busy, Quiet, Aimed

\* What the form reads when it is drawn from a cache at rest.
LEMMA ContentsEffect ==
  ASSUME TypeInv, ~cache.noted, Agrees(cache.values), NEW s \in Sids, server[s] # None
  PROVE  Contents(cache, cfg)[s] = cache.values[s]
<1>1. \A t \in Sids : CleanAt(cache, t)
  BY DEF TypeInv, CacheOK, CleanUnlessNoted
<1>2. s \in Listed(cache)
  BY <1>1, FormAssumption DEF Listed, Known, Dropped, CleanAt, Agrees
<1>3. \A o \in Opts : Get(cache, s, o) = cache.values[s][o]
  BY <1>1, FormAssumption DEF Get, CleanAt, Created, Dropped, Known, Agrees
<1>4. cache.values[s] \in Sections
  BY DEF TypeInv, CacheOK, Caches, Configs, Agrees
<1>. QED  BY <1>2, <1>3, <1>4 DEF Contents, Rows, Sections

LEMMA TypeKeeps ==
  ASSUME FormInv, NEW s \in Sids, NEW o \in Opts, NEW v \in Inputs, Type(s, o, v), TypeInv'
  PROVE  FormInv'
<1>1. UNCHANGED <<server, cache, cfg, save, foreign, failed, crossed>>
  BY DEF Type, ghosts
<1>2. FormIsLoaded'
  <2>1. ASSUME NEW t \in Sids, DrawnAt(t)  PROVE  DrawnAt(t)'
    <3>1. shown' = [shown EXCEPT ![s][o] = v] /\ <<s, o>> \in typed' /\ typed \subseteq typed'
      BY DEF Type
    <3>2. shown \in [Sids -> [Opts -> Inputs] \cup {None}] /\ shown[s] # None
      BY DEF FormInv, TypeInv, FormTypeOK, Type
    <3>3. shown'[t] # None
      <4>1. CASE t = s
        <5>1. shown'[s] \in [Opts -> Inputs]
          BY <3>1, <3>2
        <5>. QED  BY <4>1, <5>1, FormAssumption
      <4>2. CASE t # s
        BY <2>1, <3>1, <3>2, <4>2 DEF DrawnAt
      <4>. QED  BY <4>1, <4>2
    <3>4. ASSUME NEW q \in Opts, <<t, q>> \notin typed', q \notin Flags
          PROVE  shown'[t][q] = cfg[t][q]
      <4>1. ~(t = s /\ q = o) /\ <<t, q>> \notin typed
        BY <3>1, <3>4
      <4>2. shown'[t][q] = shown[t][q]
        BY <3>1, <3>2, <4>1
      <4>. QED  BY <2>1, <3>4, <4>1, <4>2 DEF DrawnAt
    <3>. QED  BY <1>1, <2>1, <3>3, <3>4 DEF DrawnAt
  <2>. QED  BY <1>1, <2>1 DEF FormInv, FormIsLoaded, Quiet
<1>3. SentIsMeant'
  BY <1>1, SentStays DEF FormInv
<1>. QED
  BY <1>1, <1>2, <1>3 DEF FormInv, NotedIsDue, OneAtATime, Busy, RestIsCurrent, AtRest, Agrees, FetchedIsCurrent

LEMMA ResetKeeps ==
  ASSUME FormInv, Reset, TypeInv'
  PROVE  FormInv'
<1>1. UNCHANGED <<server, cfg, save, foreign, failed, crossed>> /\ Draw(cfg) /\ typed' = {}
  BY DEF Reset, ghosts, Draw
<1>2. AtRest => /\ ~cache.noted /\ Agrees(cache.values) /\ ~cache'.noted /\ cache'.values # None
                /\ \A s \in Sids : cache'.values[s] = cache.values[s]
                /\ \A s \in Sids :
                     server[s] # None /\ cfg[s] = cache.values[s] =>
                       /\ shown'[s] # None
                       /\ \A o \in Opts : o \notin Flags => shown'[s][o] = cfg[s][o]
  <2>. SUFFICES ASSUME AtRest  PROVE  ~cache.noted /\ Agrees(cache.values)
    BY <1>1, DrawEffect DEF FormInv, TypeInv, FormTypeOK
  <2>. QED  BY DEF FormInv, RestIsCurrent
<1>3. RestIsCurrent'
  BY <1>1, <1>2 DEF RestIsCurrent, AtRest, Agrees
<1>4. FormIsLoaded'
  <2>1. SUFFICES ASSUME Quiet', ~failed', ~crossed', NEW s \in Sids, server'[s] # None
                 PROVE  DrawnAt(s)'
    BY DEF FormIsLoaded
  <2>2. AtRest /\ Quiet
    BY <1>1, <2>1 DEF AtRest, Quiet
  <2>3. cfg[s] = cache.values[s]
    BY <1>1, <2>1, <2>2 DEF FormInv, FormIsLoaded, DrawnAt
  <2>. QED  BY <1>1, <1>2, <2>1, <2>2, <2>3 DEF DrawnAt
<1>5. SentIsMeant'
  BY <1>1, SentStays DEF FormInv
<1>6. NotedIsDue'
  <2>1. cache'.noted = cache.noted
    BY <1>1, PeekEffect DEF Draw, FormInv, TypeInv, CacheOK
  <2>. QED  BY <1>1, <2>1 DEF FormInv, NotedIsDue
<1>. QED
  BY <1>1, <1>3, <1>4, <1>5, <1>6 DEF FormInv, OneAtATime, Busy, Agrees, FetchedIsCurrent

LEMMA StoreKeeps ==
  ASSUME FormInv, NEW b \in Buttons, Store(b), TypeInv'
  PROVE  FormInv'
<1>1. /\ save[b].phase = "sent" /\ UNCHANGED <<cache, cfg, foreign, failed, crossed>>
      /\ save'[b].phase = "stored" /\ \A c \in Buttons \ {b} : save'[c] = save[c]
  BY DEF Store, Goto, ghosts, FormInv, TypeInv, SaveShapes
<1>2. ~crossed => \A c \in Buttons \ {b} : save'[c].phase = "ready"
  BY <1>1 DEF FormInv, OneAtATime, Busy
<1>3. OneAtATime'
  BY <1>1, <1>2 DEF OneAtATime, Busy
<1>4. RestIsCurrent' /\ FormIsLoaded'
  BY <1>1 DEF RestIsCurrent, AtRest, FormIsLoaded, Quiet
<1>5. FetchedIsCurrent' /\ SentIsMeant'
  BY <1>1, <1>2 DEF FetchedIsCurrent, SentIsMeant, Aimed
<1>6. NotedIsDue'
  BY <1>1 DEF FormInv, NotedIsDue
<1>. QED  BY <1>3, <1>4, <1>5, <1>6 DEF FormInv

LEMMA LoadKeeps ==
  ASSUME FormInv, NEW b \in Buttons, Stored(b), TypeInv'
  PROVE  FormInv'
<1>1. /\ save[b].phase = "stored" /\ UNCHANGED <<server, cfg, foreign, crossed>>
      /\ save'[b].phase = "loading" /\ \A c \in Buttons \ {b} : save'[c] = save[c]
  BY DEF Stored, FormInv, TypeInv, SaveShapes
<1>2. OneAtATime'
  BY <1>1 DEF FormInv, OneAtATime, Busy
<1>3. RestIsCurrent' /\ FormIsLoaded'
  BY <1>1 DEF RestIsCurrent, AtRest, FormIsLoaded, Quiet
<1>4. FetchedIsCurrent'
  BY <1>1 DEF FormInv, FetchedIsCurrent, Agrees
<1>5. SentIsMeant'
  BY <1>1, SentStays DEF FormInv
<1>6. NotedIsDue'
  BY LoadedOK DEF Stored, Unloaded, NotedIsDue
<1>. QED  BY <1>2, <1>3, <1>4, <1>5, <1>6 DEF FormInv

LEMMA FetchKeeps ==
  ASSUME FormInv, NEW b \in Buttons, Fetch(b), TypeInv'
  PROVE  FormInv'
<1>1. /\ save[b].phase = "loading" /\ UNCHANGED <<server, cache, cfg, failed>>
      /\ save'[b].phase = "fetched" /\ save'[b].values = server
      /\ \A c \in Buttons \ {b} : save'[c] = save[c]
      /\ foreign' = {}
      /\ crossed' <=> crossed /\ \E c \in Buttons \ {b} : save[c].phase # "ready"
  BY DEF Fetch, FormInv, TypeInv, SaveShapes
<1>2. ~crossed' => \A c \in Buttons \ {b} : save'[c].phase = "ready"
  BY <1>1 DEF FormInv, OneAtATime, Busy
<1>3. OneAtATime'
  BY <1>1, <1>2 DEF OneAtATime, Busy
<1>4. RestIsCurrent' /\ FormIsLoaded'
  BY <1>1 DEF RestIsCurrent, AtRest, FormIsLoaded, Quiet
<1>5. FetchedIsCurrent'
  <2>1. Agrees(server)'
    BY <1>1, FormAssumption DEF Agrees, FormInv, TypeInv, FormTypeOK
  <2>. QED  BY <1>1, <1>2, <2>1 DEF FetchedIsCurrent, Agrees
<1>6. SentIsMeant'
  BY <1>1, <1>2 DEF SentIsMeant, Aimed
<1>7. NotedIsDue'
  BY <1>1 DEF FormInv, NotedIsDue
<1>. QED  BY <1>3, <1>4, <1>5, <1>6, <1>7 DEF FormInv

LEMMA FetchedKeeps ==
  ASSUME FormInv, NEW b \in Buttons, Fetched(b), TypeInv'
  PROVE  FormInv'
<1>1. /\ save[b].phase = "fetched" /\ UNCHANGED <<server, cfg, foreign, failed, crossed>>
      /\ save'[b].phase = "access"
      /\ \A c \in Buttons : \/ save'[c].phase = "access" /\ Busy(c)
                            \/ save'[c] = save[c]
  BY DEF Fetched, ghosts, FormInv, TypeInv, SaveShapes, Busy
<1>2. cache'.noted = cache.noted /\ cache'.values = save[b].values
  BY DEF Fetched, FormInv, TypeInv, CacheOK, Caches
<1>3. OneAtATime'
  BY <1>1 DEF FormInv, OneAtATime, Busy
<1>4. RestIsCurrent'
  <2>1. SUFFICES ASSUME AtRest'  PROVE  (~cache.noted /\ Agrees(cache.values))'
    BY DEF RestIsCurrent
  <2>2. ~failed /\ ~crossed
    BY <1>1, <2>1 DEF AtRest
  <2>3. \A c \in Buttons : save[c].phase \notin {"sent", "stored"}
    BY <1>1, <2>2 DEF FormInv, OneAtATime, Busy
  <2>4. ~cache.noted
    BY <2>2, <2>3 DEF FormInv, NotedIsDue
  <2>5. Agrees(save[b].values)
    BY <1>1, <2>2 DEF FormInv, FetchedIsCurrent
  <2>. QED  BY <1>1, <1>2, <2>4, <2>5 DEF Agrees
<1>5. FormIsLoaded'
  BY <1>1 DEF FormIsLoaded, Quiet
<1>6. FetchedIsCurrent'
  BY <1>1 DEF FormInv, FetchedIsCurrent, Agrees
<1>7. SentIsMeant'
  BY <1>1, SentStays DEF FormInv
<1>8. NotedIsDue'
  BY <1>1, <1>2 DEF FormInv, NotedIsDue, Fetched
<1>. QED  BY <1>3, <1>4, <1>5, <1>6, <1>7, <1>8 DEF FormInv

LEMMA DrawnKeeps ==
  ASSUME FormInv, NEW b \in Buttons, Drawn(b), TypeInv'
  PROVE  FormInv'
<1>1. /\ save[b].phase = "access" /\ UNCHANGED <<server, foreign, failed, crossed>>
      /\ save'[b].phase = "ready" /\ \A c \in Buttons \ {b} : save'[c] = save[c]
      /\ cfg' = Contents(cache, cfg) /\ Draw(cfg')
  BY DEF Drawn, Done, Ready, ghosts, FormInv, TypeInv, SaveShapes
<1>2. AtRest => /\ ~cache.noted /\ Agrees(cache.values) /\ ~cache'.noted /\ cache'.values # None
                /\ \A s \in Sids : cache'.values[s] = cache.values[s]
                /\ \A s \in Sids :
                     server[s] # None /\ cfg'[s] = cache.values[s] =>
                       /\ shown'[s] # None
                       /\ \A o \in Opts : o \notin Flags => shown'[s][o] = cfg'[s][o]
  <2>1. SUFFICES ASSUME AtRest  PROVE  ~cache.noted /\ Agrees(cache.values)
    <3>. cfg' \in Configs
      BY DEF TypeInv, FormTypeOK
    <3>. QED  BY <1>1, <2>1, DrawEffect DEF FormInv
  <2>. QED  BY <2>1 DEF FormInv, RestIsCurrent
<1>3. AtRest' => AtRest
  BY <1>1 DEF AtRest
<1>4. RestIsCurrent'
  BY <1>1, <1>2, <1>3 DEF RestIsCurrent, Agrees
<1>5. FormIsLoaded'
  <2>1. SUFFICES ASSUME Quiet', ~failed', ~crossed', NEW s \in Sids, server'[s] # None
                 PROVE  DrawnAt(s)'
    BY DEF FormIsLoaded
  <2>2. AtRest
    BY <1>3, <2>1 DEF AtRest, Quiet
  <2>3. cfg'[s] = cache.values[s]
    BY <1>1, <1>2, <2>1, <2>2, ContentsEffect DEF FormInv
  <2>. QED  BY <1>1, <1>2, <2>1, <2>2, <2>3 DEF DrawnAt
<1>6. OneAtATime'
  BY <1>1 DEF FormInv, OneAtATime, Busy
<1>7. FetchedIsCurrent'
  BY <1>1 DEF FormInv, FetchedIsCurrent, Agrees
<1>8. SentIsMeant'
  BY <1>1, SentStays DEF FormInv
<1>9. NotedIsDue'
  <2>1. cache'.noted = cache.noted
    BY <1>1, PeekEffect DEF Draw, FormInv, TypeInv, CacheOK
  <2>. QED  BY <1>1, <2>1 DEF FormInv, NotedIsDue
<1>. QED  BY <1>4, <1>5, <1>6, <1>7, <1>8, <1>9 DEF FormInv

LEMMA FailsKeeps ==
  ASSUME FormInv, NEW b \in Buttons, Fails(b), TypeInv'
  PROVE  FormInv'
<1>1. /\ UNCHANGED <<server, cache, cfg, foreign, crossed>> /\ failed'
      /\ \A c \in Buttons : save'[c].phase = "ready" \/ save'[c] = save[c]
  BY DEF Fails, Ready, FormInv, TypeInv, SaveShapes
<1>2. OneAtATime'
  BY <1>1 DEF FormInv, OneAtATime, Busy
<1>3. RestIsCurrent' /\ FormIsLoaded'
  BY <1>1 DEF RestIsCurrent, AtRest, FormIsLoaded
<1>4. FetchedIsCurrent'
  BY <1>1 DEF FormInv, FetchedIsCurrent, Agrees
<1>5. SentIsMeant'
  BY <1>1, SentStays DEF FormInv
<1>6. NotedIsDue'
  BY <1>1 DEF NotedIsDue
<1>. QED  BY <1>2, <1>3, <1>4, <1>5, <1>6 DEF FormInv

LEMMA ForeignKeeps ==
  ASSUME FormInv, NEW s \in Sids, NEW o \in Opts, NEW v \in Vals \cup {None},
         Foreign(s, o, v), TypeInv'
  PROVE  FormInv'
<1>1. /\ UNCHANGED <<cache, cfg, shown, save, typed, failed, crossed>>
      /\ server' = [server EXCEPT ![s][o] = v] /\ foreign' = foreign \cup {<<s, o>>}
      /\ server[s] # None
  BY DEF Foreign
<1>2. server \in Configs /\ server' \in Configs
  BY DEF FormInv, TypeInv, FormTypeOK
<1>3. server'[s] # None
  <2>1. server'[s] \in Sections
    BY <1>1, <1>2 DEF Configs, Sections
  <2>. QED  BY <2>1, NoneIsNoSection
<1>4. \A t \in Sids : server'[t] = None <=> server[t] = None
  BY <1>1, <1>2, <1>3 DEF Configs
<1>5. \A t \in Sids, q \in Opts :
        <<t, q>> \notin foreign' => <<t, q>> \notin foreign /\ server'[t][q] = server[t][q]
  BY <1>1, <1>2 DEF Configs, Sections
<1>6. OneAtATime'
  BY <1>1 DEF FormInv, OneAtATime, Busy
<1>7. RestIsCurrent'
  BY <1>1, <1>4, <1>5 DEF FormInv, RestIsCurrent, AtRest, Agrees
<1>8. FetchedIsCurrent'
  BY <1>1, <1>4, <1>5 DEF FormInv, FetchedIsCurrent, Agrees
<1>9. FormIsLoaded'
  BY <1>1, <1>4 DEF FormInv, FormIsLoaded, Quiet, DrawnAt
<1>10. SentIsMeant'
  <2>1. SUFFICES ASSUME NEW c \in Buttons, Aimed(c)'  PROVE StoresForm(c)' /\ LeavesRest(c)'
    BY DEF SentIsMeant
  <2>2. StoresForm(c) /\ LeavesRest(c)
    BY <1>1, <2>1 DEF FormInv, SentIsMeant, Aimed
  <2>3. \A t \in Sids : Stands(c, t)' => Stands(c, t)
    BY <1>1, <1>4 DEF Stands
  <2>4. LeavesRest(c)'
    BY <1>1, <2>2, <2>3 DEF LeavesRest
  <2>5. save[c].calls \in Caches
    BY <1>1, <2>1 DEF Aimed, FormInv, TypeInv, SaveShapes
  <2>6. ASSUME NEW t \in Sids, NEW q \in Opts, Stands(c, t)', <<t, q>> \notin foreign'
        PROVE  Execute(server', save[c].calls)[t][q] = Meant(save[c].form, t, q)
    <3>1. server[t] # None /\ server'[t] # None /\ ~Dropped(save[c].calls, t)
      BY <1>4, <2>3, <2>6 DEF Stands, Dropped
    <3>2. Execute(server', save[c].calls)[t][q] = Execute(server, save[c].calls)[t][q]
      <4>. DEFINE k == save[c].calls
      <4>1. Execute(server, k)[t][q] =
              IF k.changes[t][q] # None THEN k.changes[t][q]
              ELSE IF q \in k.deletes[t] THEN None ELSE server[t][q]
        BY <1>2, <2>5, <3>1, ExecuteEffect
      <4>2. Execute(server', k)[t][q] =
              IF k.changes[t][q] # None THEN k.changes[t][q]
              ELSE IF q \in k.deletes[t] THEN None ELSE server'[t][q]
        <5>. HIDE DEF k
        <5>1. \A config \in Configs : config[t] # None =>
                Execute(config, k)[t][q] =
                  IF k.changes[t][q] # None THEN k.changes[t][q]
                  ELSE IF q \in k.deletes[t] THEN None ELSE config[t][q]
          BY <2>5, <3>1, ExecuteEffect DEF k
        <5>. QED  BY <1>2, <3>1, <5>1
      <4>. QED  BY <1>5, <2>6, <4>1, <4>2
    <3>. QED  BY <1>5, <2>2, <2>3, <2>6, <3>2 DEF StoresForm
  <2>7. StoresForm(c)'
    BY <1>1, <2>6 DEF StoresForm, Meant
  <2>. QED  BY <2>4, <2>7
<1>11. NotedIsDue'
  BY <1>1 DEF FormInv, NotedIsDue
<1>. QED  BY <1>6, <1>7, <1>8, <1>9, <1>10, <1>11 DEF FormInv

LEMMA FormStep ==
  ASSUME FormInv, FormNext
  PROVE  FormInv'
<1>. TypeInv'
  BY TypeStep DEF FormInv
<1>1. ASSUME NEW s \in Sids, NEW o \in Opts, NEW v \in Inputs, Type(s, o, v)
      PROVE  FormInv'
  BY <1>1, TypeKeeps
<1>2. CASE Reset
  BY <1>2, ResetKeeps
<1>3. ASSUME NEW b \in Buttons, ClickSave(b)  PROVE  FormInv'
  BY <1>3, SaveStep DEF ClickSave, Pressed
<1>4. ASSUME NEW b \in Buttons, NEW s \in Sids, ClickAdd(b, s)  PROVE  FormInv'
  BY <1>4, SaveStep DEF ClickAdd, Pressed
<1>5. ASSUME NEW b \in Buttons, NEW s \in Sids, ClickRemove(b, s)  PROVE  FormInv'
  BY <1>5, SaveStep DEF ClickRemove, Pressed
<1>6. ASSUME NEW b \in Buttons,
             Store(b) \/ Stored(b) \/ Fetch(b) \/ Fetched(b) \/ Drawn(b) \/ Fails(b)
      PROVE  FormInv'
  BY <1>6, StoreKeeps, LoadKeeps, FetchKeeps, FetchedKeeps, DrawnKeeps, FailsKeeps
<1>7. ASSUME NEW s \in Sids, NEW o \in Opts, NEW v \in Vals \cup {None}, Foreign(s, o, v)
      PROVE  FormInv'
  BY <1>7, ForeignKeeps
<1>. QED  BY <1>1, <1>2, <1>3, <1>4, <1>5, <1>6, <1>7 DEF FormNext

LEMMA FormStutter ==
  ASSUME FormInv, UNCHANGED formVars
  PROVE  FormInv'
<1>1. UNCHANGED <<server, cache, cfg, shown, save, typed, broken, foreign, failed, crossed, events>>
  BY DEF formVars, ghosts
<1>2. TypeInv'
  BY <1>1 DEF FormInv, TypeInv, FormTypeOK, SaveShapes
<1>3. SentIsMeant'
  BY <1>1, SentStays DEF FormInv
<1>. QED
  BY <1>1, <1>2, <1>3
  DEF FormInv, NotedIsDue, OneAtATime, Busy, RestIsCurrent, AtRest, Agrees, FetchedIsCurrent, FormIsLoaded,
      Quiet, DrawnAt

\* Only the request itself takes a save from "sent" to "stored".
LEMMA OnlyStore ==
  ASSUME FormInv, FormNext, NEW b \in Buttons, Storing(b)
  PROVE  server' = Execute(server, save[b].calls)
<1>. save[b].phase = "sent" /\ save'[b].phase = "stored" /\ save = [c \in Buttons |-> save[c]]
     /\ \A c \in Buttons : "phase" \in DOMAIN save[c]
  BY DEF Storing, FormInv, TypeInv, SaveShapes
<1>1. ASSUME UNCHANGED save  PROVE FALSE
  BY <1>1
<1>2. ASSUME NEW s \in Sids, NEW o \in Opts, NEW v \in Inputs, Type(s, o, v)  PROVE FALSE
  BY <1>1, <1>2 DEF Type
<1>3. ASSUME Reset  PROVE FALSE
  BY <1>1, <1>3 DEF Reset
<1>4. ASSUME NEW c \in Buttons, NEW k, Save(c, k)  PROVE FALSE
  <2>1. \/ save' = [save EXCEPT ![c] = Ready]
        \/ save' = [save EXCEPT ![c] = [phase |-> "sent", calls |-> Parse(k), form |-> shown,
                                       typed |-> typed, failed |-> failed]]
        \/ save' = [save EXCEPT ![c] = [phase |-> "joining"]]
        \/ save' = [save EXCEPT ![c] = [phase |-> "access"]]
    BY <1>4 DEF Save, Done
  <2>2. save[c].phase = "ready"
    BY <1>4 DEF Save
  <2>. QED  BY <2>1, <2>2
<1>5. ASSUME NEW c \in Buttons, c # b, Store(c)  PROVE FALSE
  BY <1>5 DEF Store, Goto
<1>6. ASSUME NEW c \in Buttons, Stored(c) \/ Fetch(c) \/ Fetched(c)  PROVE FALSE
  BY <1>6 DEF Stored, Fetch, Fetched
<1>7. ASSUME NEW c \in Buttons, Drawn(c) \/ Fails(c)  PROVE FALSE
  BY <1>7 DEF Drawn, Done, Fails, Ready
<1>8. ASSUME NEW s \in Sids, NEW o \in Opts, NEW v \in Vals \cup {None}, Foreign(s, o, v)
      PROVE  FALSE
  BY <1>1, <1>8 DEF Foreign
<1>9. Store(b)
  BY <1>2, <1>3, <1>4, <1>5, <1>6, <1>7, <1>8
  DEF FormNext, ClickSave, ClickAdd, ClickRemove
<1>. QED  BY <1>9 DEF Store

LEMMA KeptStands ==
  ASSUME NEW b \in Buttons, NEW f \in Kept(b)
  PROVE  /\ f[1] \in Sids /\ f[2] \in Opts /\ f = <<f[1], f[2]>>
         /\ Stands(b, f[1])
BY DEF Kept, Fields, Stands

LEMMA StoredAsShown ==
  ASSUME FormInv, FormNext
  PROVE  SavedIsShown
<1>1. ASSUME NEW b \in Buttons, Storing(b), ~crossed, ~save[b].failed, NEW f \in Kept(b) \ foreign
      PROVE  server'[f[1]][f[2]] = Meant(save[b].form, f[1], f[2])
  <2>1. StoresForm(b)
    BY <1>1 DEF FormInv, SentIsMeant, Aimed, Storing
  <2>2. Execute(server, save[b].calls)[f[1]][f[2]] = Meant(save[b].form, f[1], f[2])
    BY <1>1, <2>1, KeptStands DEF StoresForm
  <2>. QED  BY <1>1, <2>2, OnlyStore
<1>. QED  BY <1>1 DEF SavedIsShown, Meant

LEMMA RestIsLeft ==
  ASSUME FormInv, FormNext
  PROVE  UntouchedStays
<1>1. ASSUME NEW b \in Buttons, Storing(b), ~crossed, ~save[b].failed, NEW f \in Kept(b),
             f \notin save[b].typed, f[2] \notin Flags, Needs[f[2]] = None
      PROVE  server'[f[1]][f[2]] = server[f[1]][f[2]]
  <2>1. LeavesRest(b)
    BY <1>1 DEF FormInv, SentIsMeant, Aimed, Storing
  <2>2. /\ save[b].calls.changes[f[1]][f[2]] = None /\ f[2] \notin save[b].calls.deletes[f[1]]
        /\ server[f[1]] # None /\ ~Dropped(save[b].calls, f[1])
    BY <1>1, <2>1, KeptStands DEF LeavesRest, Stands, Dropped
  <2>3. server \in Configs /\ save[b].calls \in Caches
    BY <1>1 DEF FormInv, TypeInv, FormTypeOK, SaveShapes, Storing
  <2>4. Execute(server, save[b].calls)[f[1]][f[2]] = server[f[1]][f[2]]
    BY <1>1, <2>2, <2>3, KeptStands, ExecuteEffect
  <2>. QED  BY <1>1, <2>4, OnlyStore
<1>. QED  BY <1>1 DEF UntouchedStays

-----------------------------------------------------------------------------
(* The theorems.                                                           *)

Inv == part = "form" => FormInv

LEMMA InvInit == Init => Inv
BY FormStart DEF Init, Inv

LEMMA InvStep == Inv /\ [Next]_vars => Inv'
<1>. SUFFICES ASSUME Inv, [Next]_vars, part' = "form"  PROVE  FormInv'
  BY DEF Inv
<1>1. CASE part = "form" /\ FormNext
  BY <1>1, FormStep DEF Inv
<1>2. CASE part = "form" /\ UNCHANGED formVars
  BY <1>2, FormStutter DEF Inv
<1>. QED  BY <1>1, <1>2 DEF Next, vars

LEMMA InvHolds == Spec => []Inv
BY InvInit, InvStep, PTL DEF Spec

\* The differences that the browser keeps of a configuration (uci.js:462-599)
\* never contradict each other, and everything in a form has its type, however
\* many buttons save while others type, add, remove, reset, fail and reload.
THEOREM DifferencesNeverContradict == Spec => []CacheAgrees
<1>1. Inv => CacheAgrees
  BY DEF Inv, FormInv, TypeInv, CacheOK, CacheAgrees, DifferencesAgree
<1>. QED  BY <1>1, InvHolds, PTL

\* A form that nobody is saving shows what the server has, and has nothing left
\* to send, unless a save has failed or two were under way at a time
\* (form.js:553-716).
THEOREM QuietFormsAreCurrent == Spec => []QuietFormIsCurrent
<1>1. ASSUME Inv  PROVE QuietFormIsCurrent
  <2>1. SUFFICES ASSUME FormInv, Quiet, ~failed, ~crossed
                 PROVE  /\ ~cache.noted
                        /\ \A s \in Listed(cache), o \in Opts :
                             <<s, o>> \notin foreign => cfg[s][o] = server[s][o]
    BY <1>1 DEF Inv, QuietFormIsCurrent, QuietIsCurrent
  <2>2. ~cache.noted /\ Agrees(cache.values)
    BY <2>1 DEF FormInv, RestIsCurrent, AtRest, Quiet
  <2>3. ASSUME NEW s \in Listed(cache), NEW o \in Opts, <<s, o>> \notin foreign
        PROVE  cfg[s][o] = server[s][o]
    <3>1. s \in Sids /\ CleanAt(cache, s)
      BY <2>1, <2>2 DEF FormInv, TypeInv, CacheOK, CleanUnlessNoted, Listed
    <3>2. server[s] # None
      BY <2>2, <2>3, <3>1 DEF Listed, Created, Known, CleanAt, Agrees
    <3>3. cfg[s] = cache.values[s]
      BY <2>1, <3>1, <3>2 DEF FormInv, FormIsLoaded, DrawnAt
    <3>. QED  BY <2>2, <2>3, <3>1, <3>2, <3>3 DEF Agrees
  <2>. QED  BY <2>2, <2>3
<1>. QED  BY <1>1, InvHolds, PTL

\* A save that is alone and follows no failed one stores what the form showed
\* when it was pressed (form.js:579, 1991-2016, uci.js:867), except where others
\* have changed the same option, and whatever the user does meanwhile.
THEOREM SavesStoreWhatIsShown == Spec => SaveStoresWhatIsShown
<1>1. Inv /\ [Next]_vars => [part = "form" => SavedIsShown]_vars
  BY StoredAsShown DEF Inv, Next
<1>. QED  BY <1>1, InvHolds, PTL DEF Spec, SaveStoresWhatIsShown

\* Such a save leaves alone what the user has not typed: the value that
\* another tab has stored meanwhile survives it (form.js:2001-2004).
THEOREM SavesLeaveTheRest == Spec => SaveLeavesUntouched
<1>1. Inv /\ [Next]_vars => [part = "form" => UntouchedStays]_vars
  BY RestIsLeft DEF Inv, Next
<1>. QED  BY <1>1, InvHolds, PTL DEF Spec, SaveLeavesUntouched

-----------------------------------------------------------------------------
(* The fields: facts about numbers, and folds as functions.                *)

LEMMA LeastNatural ==
  ASSUME NEW n \in Nat, NEW T \in SUBSET (1 .. n), T # {}
  PROVE  \E m \in T : \A k \in T : m <= k
<1>1. \A k \in T : k \in Nat
  OBVIOUS
<1>. DEFINE R == OpToRel(<, Nat)
<1>2. IsWellFoundedOn(R, Nat)
  BY NatLessThanWellFounded
<1>3. \A i, j \in Nat : i < j => <<i, j>> \in R
  BY DEF OpToRel
<1>. HIDE DEF R
<1>4. PICK m \in T : \A k \in T : ~(<<k, m>> \in R)
  BY <1>1, <1>2, WFMin
<1>5. ASSUME NEW k \in T  PROVE m <= k
  <2>1. k \in Nat /\ m \in Nat
    BY <1>1
  <2>2. ~(k < m)
    BY <1>3, <1>4, <2>1
  <2>. QED  BY <2>1, <2>2
<1>. QED  BY <1>5

LEMMA GreatestNatural ==
  ASSUME NEW n \in Nat, NEW T \in SUBSET (1 .. n), T # {}
  PROVE  \E m \in T : \A k \in T : k <= m
<1>. DEFINE U == {k \in 1 .. n : n + 1 - k \in T}
<1>1. \A k \in T : n + 1 - k \in U
  OBVIOUS
<1>2. PICK m \in U : \A k \in U : m <= k
  BY <1>1, LeastNatural
<1>. QED  BY <1>1, <1>2

\* Induction, for a set.
LEMMA Upward ==
  ASSUME NEW n \in Nat, NEW S, 0 \in S, \A i \in 1 .. n : i - 1 \in S => i \in S
  PROVE  \A i \in 0 .. n : i \in S
<1>. DEFINE T == {i \in 1 .. n : i \notin S}
<1>1. ASSUME T # {}  PROVE FALSE
  <2>1. PICK m \in T : \A i \in T : m <= i
    BY <1>1, LeastNatural
  <2>2. m \in 1 .. n /\ m \notin S /\ m - 1 \notin S
    OBVIOUS
  <2>3. m # 1
    BY <2>2
  <2>4. m - 1 \in 1 .. n /\ ~(m <= m - 1)
    BY <2>2, <2>3
  <2>. QED  BY <2>1, <2>2, <2>4
<1>2. \A i \in 0 .. n : i = 0 \/ i \in 1 .. n
  OBVIOUS
<1>. QED  BY <1>1, <1>2

-----------------------------------------------------------------------------
(* What a fold over a sequence computes, step by step.                     *)

LEMMA MaxIs ==
  ASSUME NEW n \in Nat, NEW s \in SUBSET (1 .. n), s # {}
  PROVE  Max(s) \in s /\ \A k \in s : k <= Max(s)
<1>1. \E m \in s : \A k \in s : k <= m
  BY GreatestNatural
<1>2. s \subseteq Nat
  OBVIOUS
<1>3. \E m \in s : \A k \in s : m >= k
  BY <1>1, <1>2
<1>4. Max(s) \in s /\ \A k \in s : Max(s) >= k
  BY <1>3 DEF Max
<1>. QED  BY <1>2, <1>4

LEMMA MaxOfAll ==
  ASSUME NEW i \in Nat, i # 0
  PROVE  Max(1 .. i) = i /\ (1 .. i) \ {Max(1 .. i)} = 1 .. i - 1
<1>1. i \in 1 .. i /\ 1 .. i \in SUBSET (1 .. i) /\ 1 .. i # {}
  OBVIOUS
<1>2. Max(1 .. i) \in 1 .. i /\ i <= Max(1 .. i)
  BY <1>1, MaxIs
<1>3. Max(1 .. i) = i
  BY <1>2
<1>. QED  BY <1>3

FoldEqn(it, base, G, n) ==
  \A s \in SUBSET (1 .. n) : it[s] = IF s = {} THEN base ELSE G[<<it[s \ {Max(s)}], Max(s)>>]

LEMMA FoldExists ==
  ASSUME NEW n \in Nat, NEW X, NEW base \in X, NEW G \in [X \X (1 .. n) -> X]
  PROVE  \E it \in [SUBSET (1 .. n) -> X] : FoldEqn(it, base, G, n)
<1>. DEFINE Has(k) == \E it \in [SUBSET (1 .. k) -> X] : FoldEqn(it, base, G, k)
<1>1. Has(0)
  <2>. DEFINE it == [s \in SUBSET (1 .. 0) |-> base]
  <2>1. \A s \in SUBSET (1 .. 0) : s = {}
    OBVIOUS
  <2>2. it \in [SUBSET (1 .. 0) -> X] /\ \A s \in SUBSET (1 .. 0) : it[s] = base
    OBVIOUS
  <2>. HIDE DEF it
  <2>3. FoldEqn(it, base, G, 0)
    BY <2>1, <2>2 DEF FoldEqn
  <2>. QED  BY <2>2, <2>3
<1>2. ASSUME NEW k \in 1 .. n, Has(k - 1)  PROVE Has(k)
  <2>1. PICK f \in [SUBSET (1 .. k - 1) -> X] : FoldEqn(f, base, G, k - 1)
    BY <1>2
  <2>. DEFINE g == [s \in SUBSET (1 .. k) |-> IF k \in s THEN G[<<f[s \ {k}], k>>] ELSE f[s]]
  <2>2. \A s \in SUBSET (1 .. k) : s \ {k} \in SUBSET (1 .. k - 1)
    OBVIOUS
  <2>3. \A s \in SUBSET (1 .. k) : k \notin s => s \in SUBSET (1 .. k - 1)
    BY <2>2
  <2>4. g \in [SUBSET (1 .. k) -> X]
    BY <2>2, <2>3
  <2>5. \A s \in SUBSET (1 .. k - 1) : k \notin s /\ s \in SUBSET (1 .. k)
    OBVIOUS
  <2>6. \A s \in SUBSET (1 .. k - 1) : g[s] = f[s]
    BY <2>5
  <2>7. ASSUME NEW s \in SUBSET (1 .. k)
        PROVE  g[s] = IF s = {} THEN base ELSE G[<<g[s \ {Max(s)}], Max(s)>>]
    <3>1. CASE k \in s
      <4>1. Max(s) = k
        <5>1. k \in Nat
          OBVIOUS
        <5>2. PICK m \in s : m = Max(s) /\ k <= m
          BY <3>1, <5>1, MaxIs
        <5>3. m \in 1 .. k
          BY <5>2
        <5>. QED  BY <5>2, <5>3
      <4>2. g[s \ {k}] = f[s \ {k}]
        BY <2>2, <2>6
      <4>. QED  BY <3>1, <4>1, <4>2
    <3>2. CASE k \notin s
      <4>1. s \in SUBSET (1 .. k - 1) /\ g[s] = f[s]
        BY <2>3, <2>6, <3>2
      <4>2. s \ {Max(s)} \in SUBSET (1 .. k - 1)
        BY <4>1
      <4>3. g[s \ {Max(s)}] = f[s \ {Max(s)}]
        BY <2>6, <4>2
      <4>. QED  BY <2>1, <4>1, <4>3 DEF FoldEqn
    <3>. QED  BY <3>1, <3>2
  <2>. HIDE DEF g
  <2>. QED  BY <2>4, <2>7 DEF FoldEqn
<1>. DEFINE S == {k \in 0 .. n : Has(k)}
<1>. HIDE DEF Has
<1>3. 0 \in S /\ \A k \in 1 .. n : k - 1 \in S => k \in S
  BY <1>1, <1>2
<1>4. \A k \in 0 .. n : k \in S
  <2>. HIDE DEF S
  <2>. QED  BY ONLY <1>3, n \in Nat, Upward
<1>5. Has(n)
  BY <1>4
<1>. QED  BY <1>5 DEF Has

\* The steps of a fold, from whatever function meets its equation.
Folds(c, base, G, n, X) ==
  /\ c[{}] = base
  /\ \A s \in SUBSET (1 .. n) :
       s # {} /\ c[s \ {Max(s)}] \in X => c[s] = G[<<c[s \ {Max(s)}], Max(s)>>]
Run(w, base, G, n, X) == w \in [0 .. n -> X] /\ w[0] = base /\ \A i \in 1 .. n : w[i] = G[<<w[i - 1], i>>]
HasRun(c, base, G, n, X) == \E w : Run(w, base, G, n, X) /\ w[n] = c[1 .. n]

LEMMA FoldRuns ==
  ASSUME NEW n \in Nat, NEW X, NEW base \in X, NEW G \in [X \X (1 .. n) -> X],
         NEW c, Folds(c, base, G, n, X)
  PROVE  HasRun(c, base, G, n, X)
<1>. DEFINE w == [i \in 0 .. n |-> c[1 .. i]]
            S == {i \in 0 .. n : w[i] \in X}
<1>1. ASSUME NEW i \in 1 .. n
      PROVE  /\ 1 .. i \in SUBSET (1 .. n) /\ 1 .. i # {} /\ i - 1 \in 0 .. n /\ i \in 0 .. n
             /\ Max(1 .. i) = i /\ (1 .. i) \ {Max(1 .. i)} = 1 .. i - 1
  <2>1. i \in Nat /\ i # 0 /\ i <= n
    OBVIOUS
  <2>2. 1 .. i \in SUBSET (1 .. n) /\ 1 .. i # {} /\ i - 1 \in 0 .. n /\ i \in 0 .. n
    BY <2>1
  <2>. QED  BY <2>1, <2>2, MaxOfAll
<1>2. w[0] = base /\ w[n] = c[1 .. n]
  <2>1. 0 \in 0 .. n /\ n \in 0 .. n /\ 1 .. 0 = {}
    OBVIOUS
  <2>. QED  BY <2>1 DEF Folds
<1>3. ASSUME NEW i \in 1 .. n, w[i - 1] \in X  PROVE w[i] = G[<<w[i - 1], i>>] /\ w[i] \in X
  <2>1. w[i] = c[1 .. i] /\ w[i - 1] = c[1 .. i - 1]
    BY <1>1
  <2>. HIDE DEF w
  <2>2. w[i] = G[<<w[i - 1], i>>]
    BY <1>1, <1>3, <2>1 DEF Folds
  <2>. QED  BY <1>3, <2>2
<1>4. w = [i \in 0 .. n |-> w[i]]
  OBVIOUS
<1>. HIDE DEF w
<1>5. 0 \in S /\ \A i \in 1 .. n : i - 1 \in S => i \in S
  <2>1. 0 \in 0 .. n /\ w[0] \in X
    BY <1>2
  <2>. QED  BY <1>1, <1>3, <2>1
<1>6. \A i \in 0 .. n : i \in S
  <2>. HIDE DEF S
  <2>. QED  BY ONLY <1>5, n \in Nat, Upward
<1>7. \A i \in 1 .. n : i - 1 \in 0 .. n
  BY <1>1
<1>. QED  BY <1>2, <1>3, <1>4, <1>6, <1>7 DEF Run, HasRun

-----------------------------------------------------------------------------
(* Depends: one field, and one round.                                      *)

DependsOK == Dependent!DependsAssumption /\ Dependent!ShapeOK(shape)
ValuesOfFields == Entries \cup {Empty, Absent, Off}
Dependents == {f \in Dependent!Controls : shape.deps[f] # {}}
PagesOfShape ==
  [input  : [Dependent!Controls -> ValuesOfFields], hidden : SUBSET Dependents,
   default : [Dependent!Controls -> ValuesOfFields], loaded : [Dependent!Options -> ValuesOfFields],
   edited : SUBSET Dependent!Controls]

\* Does a field take its default value?
Takes(p, f) ==
  /\ Dependent!IsDependencySatisfied(p, shape.deps[f])
  /\ shape.defaults[f] # <<>> /\ Dependent!DefaultOf(p, f) # Absent
  /\ f \notin p.edited /\ p.loaded[shape.option[f]] = Absent
Same(p, q, f) == p.input[f] = q.input[f] /\ (Dependent!Shown(p, f) <=> Dependent!Shown(q, f))

\* q has decided f by what was to be read from p.
Decided(p, q, f) ==
  /\ Dependent!Shown(q, f) <=> Dependent!IsDependencySatisfied(p, shape.deps[f])
  /\ Takes(p, f) => q.input[f] = Dependent!DefaultOf(p, f)
  /\ ~Takes(p, f) => q.input[f] = p.input[f]

LEMMA DefaultIsValue ==
  ASSUME DependsOK, NEW p, NEW f \in Dependent!Controls
  PROVE  Dependent!DefaultOf(p, f) \in ValuesOfFields
<1>. DEFINE list == shape.defaults[f]
            plain == {i \in DOMAIN list : list[i].deps = {}}
            met == {i \in DOMAIN list \ plain : Dependent!IsDependencySatisfied(p, list[i].deps)}
<1>1. list \in Seq(Range(list)) /\ \A d \in Range(list) : d.value \in Entries
  BY DEF DependsOK, Dependent!ShapeOK, Dependent!DefaultsOK, Dependent!Range, Range
<1>2. PICK n \in Nat : DOMAIN list = 1 .. n
  BY <1>1
<1>3. \A i \in DOMAIN list : list[i] \in Range(list)
  BY DEF Range
<1>4. \A i \in DOMAIN list : list[i].value \in Entries
  BY <1>1, <1>3
<1>5. met \in SUBSET (1 .. n) /\ plain \in SUBSET (1 .. n)
  BY <1>2
<1>6. met # {} => Min(met) \in met
  <2>1. ASSUME met # {}  PROVE \E m \in met : \A k \in met : m <= k
    BY <1>5, <2>1, LeastNatural
  <2>. HIDE DEF met
  <2>. QED  BY <2>1 DEF Min
<1>7. plain # {} => Max(plain) \in plain
  BY <1>5, MaxIs
<1>8. Dependent!DefaultOf(p, f) = IF met # {} THEN list[Min(met)].value
                        ELSE IF plain # {} THEN list[Max(plain)].value ELSE Absent
  BY DEF Dependent!DefaultOf, Dependent!Max, Max, Dependent!Min, Min
<1>9. met \subseteq DOMAIN list /\ plain \subseteq DOMAIN list
  OBVIOUS
<1>. HIDE DEF met, plain
<1>. QED  BY <1>4, <1>6, <1>7, <1>8, <1>9 DEF ValuesOfFields

LEMMA CheckFieldIs ==
  ASSUME DependsOK, NEW p \in PagesOfShape, NEW f \in Dependent!Controls,
         NEW q, q = Dependent!CheckField(p, f)
  PROVE  /\ q \in PagesOfShape /\ q.loaded = p.loaded /\ q.edited = p.edited
         /\ \A g \in Dependent!Controls \ {f} : Same(p, q, g)
         /\ IF shape.deps[f] = {} THEN q = p ELSE Decided(p, q, f)
<1>. DEFINE sat == Dependent!IsDependencySatisfied(p, shape.deps[f])
            u == IF sat THEN Dependent!UpdateDefaultValue(p, f) ELSE p
<1>1. CASE shape.deps[f] = {}
  BY <1>1 DEF Dependent!CheckField, Same
<1>2. CASE shape.deps[f] # {}
  <2>1. /\ u \in PagesOfShape /\ u.loaded = p.loaded /\ u.edited = p.edited /\ u.hidden = p.hidden
        /\ \A g \in Dependent!Controls \ {f} : u.input[g] = p.input[g]
        /\ Takes(p, f) => u.input[f] = Dependent!DefaultOf(p, f)
        /\ ~Takes(p, f) => u.input[f] = p.input[f]
    <3>1. CASE sat /\ shape.defaults[f] # <<>>
      <4>. DEFINE d == Dependent!DefaultOf(p, f)
                  v == IF f \notin p.edited /\ d # Absent /\ p.loaded[shape.option[f]] = Absent
                       THEN d ELSE p.input[f]
      <4>1. u = [p EXCEPT !.default[f] = d, !.input[f] = v]
        BY <3>1 DEF Dependent!UpdateDefaultValue
      <4>2. d \in ValuesOfFields /\ v \in ValuesOfFields
        BY DefaultIsValue DEF PagesOfShape
      <4>3. (Takes(p, f) => v = d) /\ (~Takes(p, f) => v = p.input[f])
        BY <3>1 DEF Takes
      <4>. HIDE DEF d, v, u, sat
      <4>4. u \in PagesOfShape
        BY <4>1, <4>2 DEF PagesOfShape
      <4>. QED  BY <4>1, <4>3, <4>4 DEF PagesOfShape, d
    <3>2. CASE ~(sat /\ shape.defaults[f] # <<>>)
      BY <3>2 DEF Dependent!UpdateDefaultValue, Takes
    <3>. QED  BY <3>1, <3>2
  <2>2. q = IF sat = Dependent!Shown(p, f) THEN u
            ELSE [u EXCEPT !.hidden = IF sat THEN @ \ {f} ELSE @ \cup {f}]
    BY <1>2 DEF Dependent!CheckField
  <2>3. sat \in BOOLEAN /\ Dependent!Shown(p, f) \in BOOLEAN
    BY DEF Dependent!IsDependencySatisfied, Dependent!Shown
  <2>. HIDE DEF u
  <2>4. f \in Dependents
    BY <1>2 DEF Dependents
  <2>5. q \in PagesOfShape /\ q.loaded = u.loaded /\ q.edited = u.edited /\ q.input = u.input
    BY <2>1, <2>2, <2>4 DEF PagesOfShape
  <2>6. (Dependent!Shown(q, f) <=> sat) /\ \A g \in Dependent!Controls \ {f} : Dependent!Shown(q, g) <=> Dependent!Shown(p, g)
    BY <2>1, <2>2, <2>3 DEF PagesOfShape, Dependent!Shown
  <2>. QED  BY <1>2, <2>1, <2>5, <2>6 DEF Same, Decided
<1>. QED  BY <1>1, <1>2

\* What a round makes of p: it decides each field by a page on which those
\* before it are as they will be, and the others as they were.
Between(p, q, r, f) ==
  /\ r.edited = p.edited /\ r.loaded = p.loaded
  /\ \A g \in Dependent!Controls : IF Dependent!Precedes(g, f) THEN Same(r, q, g) ELSE Same(r, p, g)
Round(p, q) ==
  /\ q \in PagesOfShape /\ q.edited = p.edited /\ q.loaded = p.loaded
  /\ \A f \in Dependent!Controls :
       IF shape.deps[f] = {} THEN Same(p, q, f)
       ELSE \E r \in PagesOfShape : Between(p, q, r, f) /\ Decided(r, q, f)

Checks(w, p, n) == w[0] = p /\ \A i \in 1 .. n : w[i] = Dependent!CheckField(w[i - 1], FieldOrder[i])

LEMMA CheckAllIs ==
  ASSUME DependsOK, NEW p \in PagesOfShape, NEW n \in Nat, n = Len(FieldOrder)
  PROVE  \E w \in [0 .. n -> PagesOfShape] : Checks(w, p, n) /\ Dependent!CheckAll(p) = w[n]
<1>. DEFINE X == PagesOfShape
            G == [x \in X \X (1 .. n) |-> Dependent!CheckField(x[1], FieldOrder[x[2]])]
            Eqn(it) == it = [s \in SUBSET DOMAIN FieldOrder |->
                               IF s = {} THEN p ELSE Dependent!CheckField(it[s \ {Max(s)}], FieldOrder[Max(s)])]
<1>1. FieldOrder \in Seq(Dependent!Controls) /\ DOMAIN FieldOrder = 1 .. n
  BY DEF DependsOK, Dependent!DependsAssumption
<1>2. \A i \in 1 .. n : FieldOrder[i] \in Dependent!Controls
  BY <1>1
<1>3. \A x \in X, i \in 1 .. n : Dependent!CheckField(x, FieldOrder[i]) \in X
  BY <1>2, CheckFieldIs
<1>4. G \in [X \X (1 .. n) -> X] /\ \A x \in X, i \in 1 .. n : G[<<x, i>>] = Dependent!CheckField(x, FieldOrder[i])
  BY <1>3
<1>5. PICK it \in [SUBSET (1 .. n) -> X] : FoldEqn(it, p, G, n)
  <2>. HIDE DEF X, G
  <2>. QED  BY <1>4, FoldExists DEF X
<1>. HIDE DEF G
<1>6. Eqn(it)
  <2>1. ASSUME NEW s \in SUBSET (1 .. n), s # {}
        PROVE  it[s] = Dependent!CheckField(it[s \ {Max(s)}], FieldOrder[Max(s)])
    <3>1. Max(s) \in 1 .. n /\ s \ {Max(s)} \in SUBSET (1 .. n)
      BY <2>1, MaxIs
    <3>. QED  BY <1>4, <1>5, <2>1, <3>1 DEF FoldEqn
  <2>2. it[{}] = p
    BY <1>5 DEF FoldEqn
  <2>. QED  BY <1>1, <1>5, <2>1, <2>2
<1>. DEFINE c == CHOOSE f : Eqn(f)
<1>7. Eqn(c)
  BY <1>6
<1>8. Dependent!CheckAll(p) = c[DOMAIN FieldOrder]
  BY DEF Dependent!CheckAll, Dependent!FoldLeft, Dependent!MapThenFoldSet, Dependent!Max, Max
<1>. HIDE DEF c
<1>9. Folds(c, p, G, n, X)
  <2>1. /\ c[{}] = p
        /\ \A s \in SUBSET (1 .. n) : s # {} => c[s] = Dependent!CheckField(c[s \ {Max(s)}], FieldOrder[Max(s)])
    BY <1>1, <1>7
  <2>2. \A s \in SUBSET (1 .. n) : s # {} => Max(s) \in 1 .. n
    BY MaxIs
  <2>. QED  BY <1>4, <2>1, <2>2 DEF Folds
<1>10. PICK w : Run(w, p, G, n, X) /\ w[n] = c[1 .. n]
  <2>1. p \in X /\ n \in Nat
    OBVIOUS
  <2>2. HasRun(c, p, G, n, X)
    <3>. HIDE DEF X
    <3>. QED  BY ONLY <1>4, <1>9, <2>1, FoldRuns
  <2>. QED  BY <2>2 DEF HasRun
<1>11. \A i \in 1 .. n : i - 1 \in 0 .. n
  BY ONLY n \in Nat
<1>12. w \in [0 .. n -> X] /\ w[0] = p /\ \A i \in 1 .. n : w[i] = G[<<w[i - 1], i>>]
  BY <1>10 DEF Run
<1>13. \A i \in 1 .. n : w[i] = Dependent!CheckField(w[i - 1], FieldOrder[i])
  <2>. HIDE DEF X
  <2>. QED  BY <1>4, <1>11, <1>12
<1>14. Checks(w, p, n)
  BY <1>12, <1>13 DEF Checks
<1>. QED  BY <1>1, <1>8, <1>10, <1>12, <1>14

LEMMA RoundIs ==
  ASSUME DependsOK, NEW p \in PagesOfShape
  PROVE  Round(p, Dependent!CheckAll(p))
<1>. DEFINE n == Len(FieldOrder)
            F == FieldOrder
<1>1. F \in Seq(Dependent!Controls) /\ n \in Nat /\ DOMAIN F = 1 .. n
  BY DEF DependsOK, Dependent!DependsAssumption
<1>2. \A i \in 1 .. n : F[i] \in Dependent!Controls
  BY <1>1
<1>3. \A i, j \in 1 .. n : F[i] = F[j] => i = j
  BY <1>1 DEF DependsOK, Dependent!DependsAssumption, Dependent!IsInjective
<1>4. \A f \in Dependent!Controls : \E i \in 1 .. n : f = F[i]
  BY <1>1 DEF Dependent!Controls, Dependent!Range
<1>5. PICK w \in [0 .. n -> PagesOfShape] : Checks(w, p, n) /\ Dependent!CheckAll(p) = w[n]
  BY <1>1, CheckAllIs
<1>. DEFINE q == Dependent!CheckAll(p)
<1>. HIDE DEF n, F, q
<1>6. ASSUME NEW i \in 1 .. n
      PROVE  /\ i - 1 \in 0 .. n /\ i \in 0 .. n
             /\ w[i].loaded = w[i - 1].loaded /\ w[i].edited = w[i - 1].edited
             /\ \A g \in Dependent!Controls \ {F[i]} : Same(w[i - 1], w[i], g)
             /\ IF shape.deps[F[i]] = {} THEN w[i] = w[i - 1] ELSE Decided(w[i - 1], w[i], F[i])
  <2>1. i - 1 \in 0 .. n /\ i \in 0 .. n
    BY <1>1
  <2>2. w[i - 1] \in PagesOfShape /\ w[i] = Dependent!CheckField(w[i - 1], F[i])
        /\ F[i] \in Dependent!Controls
    BY <1>2, <1>5, <2>1 DEF Checks, F
  <2>. QED  BY <2>1, <2>2, CheckFieldIs
<1>7. ASSUME NEW k \in 0 .. n
      PROVE  /\ w[k].loaded = p.loaded /\ w[k].edited = p.edited
             /\ \A j \in 1 .. n : k < j => Same(w[k], p, F[j])
  <2>. DEFINE OK(i) == /\ w[i].loaded = p.loaded /\ w[i].edited = p.edited
                       /\ \A j \in 1 .. n : i < j => Same(w[i], p, F[j])
              S == {i \in 0 .. n : OK(i)}
  <2>1. OK(0)
    BY <1>5 DEF Checks, Same
  <2>2. ASSUME NEW i \in 1 .. n, OK(i - 1)  PROVE OK(i)
    <3>1. ASSUME NEW j \in 1 .. n, i < j  PROVE Same(w[i], p, F[j])
      <4>1. i - 1 < j /\ i # j
        BY <1>1, <3>1
      <4>2. F[j] \in Dependent!Controls \ {F[i]}
        BY <1>2, <1>3, <4>1
      <4>. QED  BY <1>6, <2>2, <4>1, <4>2 DEF Same
    <3>. QED  BY <1>6, <2>2, <3>1
  <2>3. 0 \in S /\ \A i \in 1 .. n : i - 1 \in S => i \in S
    <3>. HIDE DEF OK
    <3>. QED  BY <1>1, <1>6, <2>1, <2>2
  <2>4. \A i \in 0 .. n : i \in S
    <3>. HIDE DEF S
    <3>. QED  BY ONLY <1>1, <2>3, Upward
  <2>5. OK(k)
    BY <2>4
  <2>. QED  BY <2>5
<1>8. ASSUME NEW j \in 1 .. n, NEW k \in j .. n
      PROVE  Same(w[k], q, F[j])
  <2>. DEFINE T == {i \in 1 .. n : j <= i /\ ~Same(w[i], q, F[j])}
  <2>1. Same(w[n], q, F[j])
    BY <1>5 DEF Same, q
  <2>2. ASSUME T # {}  PROVE FALSE
    <3>1. PICK m \in T : \A i \in T : i <= m
      BY <1>1, <2>2, GreatestNatural
    <3>2. m \in 1 .. n /\ j <= m /\ ~Same(w[m], q, F[j]) /\ m # n
      BY <2>1
    <3>3. m + 1 \in 1 .. n /\ j <= m + 1 /\ ~(m + 1 <= m) /\ m + 1 # j /\ m + 1 - 1 = m
      BY <1>1, <3>2
    <3>4. F[j] \in Dependent!Controls \ {F[m + 1]}
      BY <1>2, <1>3, <3>3
    <3>5. Same(w[m], w[m + 1], F[j])
      BY <1>6, <3>3, <3>4
    <3>6. Same(w[m + 1], q, F[j])
      BY <3>1, <3>3
    <3>. QED  BY <3>2, <3>5, <3>6 DEF Same
  <2>3. k \in 1 .. n /\ j <= k
    BY <1>1
  <2>. QED  BY <2>2, <2>3
<1>9. \A i, j \in 1 .. n : Dependent!Precedes(F[j], F[i]) <=> j < i
  BY <1>1, <1>3 DEF Dependent!Precedes, F
<1>10. q \in PagesOfShape /\ q.edited = p.edited /\ q.loaded = p.loaded
  BY <1>1, <1>5, <1>7 DEF q
<1>11. ASSUME NEW f \in Dependent!Controls
       PROVE  IF shape.deps[f] = {} THEN Same(p, q, f)
              ELSE \E r \in PagesOfShape : Between(p, q, r, f) /\ Decided(r, q, f)
  <2>1. PICK i \in 1 .. n : f = F[i]
    BY <1>4
  <2>2. i - 1 \in 0 .. n /\ i - 1 < i /\ i \in i .. n
    BY <1>1
  <2>. DEFINE r == w[i - 1]
  <2>3. r \in PagesOfShape /\ r.edited = p.edited /\ r.loaded = p.loaded
    BY <1>7, <2>2
  <2>4. Same(r, p, f) /\ Same(w[i], q, f)
    BY <1>7, <1>8, <2>1, <2>2
  <2>5. CASE shape.deps[f] = {}
    BY <1>6, <2>1, <2>4, <2>5 DEF Same
  <2>6. CASE shape.deps[f] # {}
    <3>1. Decided(r, w[i], f)
      BY <1>6, <2>1, <2>6
    <3>2. Decided(r, q, f)
      BY <2>4, <3>1 DEF Same, Decided
    <3>3. ASSUME NEW g \in Dependent!Controls
          PROVE  IF Dependent!Precedes(g, f) THEN Same(r, q, g) ELSE Same(r, p, g)
      <4>1. PICK j \in 1 .. n : g = F[j]
        BY <1>4
      <4>2. CASE j < i
        <5>1. i - 1 \in j .. n
          BY <1>1, <4>2
        <5>. QED  BY <1>8, <1>9, <2>1, <4>1, <4>2, <5>1
      <4>3. CASE ~(j < i)
        <5>1. i - 1 < j
          BY <1>1, <4>3
        <5>. QED  BY <1>7, <1>9, <2>1, <2>2, <4>1, <4>3, <5>1
      <4>. QED  BY <4>2, <4>3
    <3>4. Between(p, q, r, f)
      BY <2>3, <3>3 DEF Between
    <3>. QED  BY <2>3, <2>6, <3>2, <3>4
  <2>. QED  BY <2>5, <2>6
<1>. QED  BY <1>10, <1>11 DEF Round, q

-----------------------------------------------------------------------------
(* Depends: two rounds.                                                    *)

Agree(p, q, f) == \A g \in Dependent!Controls : Dependent!DependsOn(f, g) => Same(p, q, g)

LEMMA AgreeingDecide ==
  ASSUME DependsOK, NEW p, NEW q, NEW f \in Dependent!Controls, Agree(p, q, f)
  PROVE  /\ Dependent!IsDependencySatisfied(p, shape.deps[f]) <=> Dependent!IsDependencySatisfied(q, shape.deps[f])
         /\ Dependent!DefaultOf(p, f) = Dependent!DefaultOf(q, f)
<1>. DEFINE list == shape.defaults[f]
            plain == {i \in DOMAIN list : list[i].deps = {}}
            met(r) == {i \in DOMAIN list \ plain : Dependent!IsDependencySatisfied(r, list[i].deps)}
<1>1. /\ \A a \in shape.deps[f] : DOMAIN a.want \subseteq Dependent!Controls
      /\ \A i \in DOMAIN list : \A a \in list[i].deps : DOMAIN a.want \subseteq Dependent!Controls
  BY DEF DependsOK, Dependent!ShapeOK, Dependent!DepsOK, Dependent!DefaultsOK, Dependent!Range
<1>2. ASSUME NEW a, DOMAIN a.want \subseteq Dependent!Controls, \A g \in DOMAIN a.want : Dependent!DependsOn(f, g)
      PROVE  Dependent!Met(p, a) <=> Dependent!Met(q, a)
  BY <1>2 DEF Agree, Dependent!Met, Same
<1>3. \A a \in shape.deps[f] : Dependent!Met(p, a) <=> Dependent!Met(q, a)
  BY <1>1, <1>2 DEF Dependent!DependsOn
<1>4. \A i \in DOMAIN list : \A a \in list[i].deps : Dependent!Met(p, a) <=> Dependent!Met(q, a)
  BY <1>1, <1>2 DEF Dependent!DependsOn
<1>5. \A r, a : Dependent!Met(r, a) \in BOOLEAN
  BY DEF Dependent!Met
<1>6. ASSUME NEW deps, \A a \in deps : Dependent!Met(p, a) <=> Dependent!Met(q, a)
      PROVE  Dependent!IsDependencySatisfied(p, deps) <=> Dependent!IsDependencySatisfied(q, deps)
  <2>1. \A a \in deps : Dependent!Met(p, a) = Dependent!Met(q, a)
    BY <1>5, <1>6
  <2>. QED  BY <2>1 DEF Dependent!IsDependencySatisfied
<1>7. met(p) = met(q)
  BY <1>4, <1>6
<1>8. Dependent!DefaultOf(p, f) = IF met(p) # {} THEN list[Min(met(p))].value
                        ELSE IF plain # {} THEN list[Max(plain)].value ELSE Absent
  BY DEF Dependent!DefaultOf, Dependent!Max, Max, Dependent!Min, Min
<1>9. Dependent!DefaultOf(q, f) = IF met(q) # {} THEN list[Min(met(q))].value
                        ELSE IF plain # {} THEN list[Max(plain)].value ELSE Absent
  BY DEF Dependent!DefaultOf, Dependent!Max, Max, Dependent!Min, Min
<1>. HIDE DEF met, plain
<1>. QED  BY <1>3, <1>6, <1>7, <1>8, <1>9

AllDecided(p) == \A f \in Dependent!Controls : Dependent!Shown(p, f) <=> Dependent!IsDependencySatisfied(p, shape.deps[f])

\* A field is not decided before itself.
LEMMA NotBeforeItself ==
  ASSUME DependsOK, NEW f \in Dependent!Controls
  PROVE  ~Dependent!Precedes(f, f)
<1>1. DOMAIN FieldOrder \subseteq Nat
  BY DEF DependsOK, Dependent!DependsAssumption
<1>2. \A i, j \in DOMAIN FieldOrder : FieldOrder[i] = FieldOrder[j] => i = j
  BY DEF DependsOK, Dependent!DependsAssumption, Dependent!IsInjective
<1>. QED  BY <1>1, <1>2 DEF Dependent!Precedes

LEMMA InputStays ==
  ASSUME DependsOK, NEW p, NEW q, Round(p, q),
         NEW g \in Dependent!Controls, shape.defaults[g] = <<>>
  PROVE  p.input[g] = q.input[g]
<1>1. CASE shape.deps[g] = {}
  BY <1>1 DEF Round, Same
<1>2. CASE shape.deps[g] # {}
  <2>1. PICK r \in PagesOfShape : Between(p, q, r, g) /\ Decided(r, q, g)
    BY <1>2 DEF Round
  <2>2. Same(r, p, g)
    BY <2>1, NotBeforeItself DEF Between
  <2>. QED  BY <2>1, <2>2 DEF Decided, Takes, Same
<1>. QED  BY <1>1, <1>2

\* Where what a field needs and is decided later stays as it is, the field is
\* right after the round.
LEMMA RoundDecides ==
  ASSUME DependsOK, NEW p, NEW q, Round(p, q),
         \A f, g \in Dependent!Controls : Dependent!Backward(f, g) => Same(p, q, g)
  PROVE  AllDecided(q)
<1>1. ASSUME NEW f \in Dependent!Controls
      PROVE  Dependent!Shown(q, f) <=> Dependent!IsDependencySatisfied(q, shape.deps[f])
  <2>1. CASE shape.deps[f] = {}
    <3>1. f \notin q.hidden
      BY <2>1 DEF Round, PagesOfShape, Dependents
    <3>. QED  BY <2>1, <3>1 DEF Dependent!Shown, Dependent!IsDependencySatisfied
  <2>2. CASE shape.deps[f] # {}
    <3>1. PICK r \in PagesOfShape : Between(p, q, r, f) /\ Decided(r, q, f)
      BY <2>2 DEF Round
    <3>2. ASSUME NEW g \in Dependent!Controls, Dependent!DependsOn(f, g)  PROVE Same(r, q, g)
      <4>1. CASE Dependent!Precedes(g, f)
        BY <3>1, <4>1 DEF Between
      <4>2. CASE ~Dependent!Precedes(g, f)
        <5>1. Same(r, p, g)
          BY <3>1, <4>2 DEF Between
        <5>2. Same(p, q, g)
          BY <3>2, <4>2 DEF Round, Dependent!Backward
        <5>. QED  BY <5>1, <5>2 DEF Same
      <4>. QED  BY <4>1, <4>2
    <3>3. Agree(r, q, f)
      BY <3>2 DEF Agree
    <3>. QED  BY <3>1, <3>3, AgreeingDecide DEF Decided
  <2>. QED  BY <2>1, <2>2
<1>. QED  BY <1>1 DEF AllDecided

\* A chain without a dependency on what is decided later is settled by the
\* first round, and is not touched by the second.
LEMMA ChainStays ==
  ASSUME DependsOK, NEW p, NEW q, NEW r, Round(p, q), Round(q, r),
         NEW chain \in SUBSET Dependent!Controls,
         \A h \in chain, k \in Dependent!Controls : Dependent!DependsOn(h, k) => k \in chain /\ ~Dependent!Backward(h, k)
  PROVE  \A f \in chain : Same(q, r, f)
<1>. DEFINE F == FieldOrder
            n == Len(F)
            T == {i \in 1 .. n : F[i] \in chain /\ ~Same(q, r, F[i])}
<1>1. F \in Seq(Dependent!Controls) /\ n \in Nat /\ DOMAIN F = 1 .. n
  BY DEF DependsOK, Dependent!DependsAssumption
<1>2. \A f \in Dependent!Controls : \E i \in 1 .. n : f = F[i]
  BY <1>1 DEF Dependent!Controls, Dependent!Range
<1>3. ASSUME T # {}  PROVE FALSE
  <2>1. PICK m \in T : \A i \in T : m <= i
    BY <1>1, <1>3, LeastNatural
  <2>. DEFINE f == F[m]
  <2>2. m \in 1 .. n /\ f \in chain /\ ~Same(q, r, f) /\ f \in Dependent!Controls
    BY <1>1
  <2>3. shape.deps[f] # {}
    BY <2>2 DEF Round
  <2>4. ASSUME NEW g \in chain, Dependent!Precedes(g, f)  PROVE Same(q, r, g)
    <3>1. PICK i, j \in 1 .. n : i < j /\ F[i] = g /\ F[j] = f
      BY <1>1, <2>4 DEF Dependent!Precedes
    <3>2. j = m
      BY <1>1, <2>2, <3>1 DEF DependsOK, Dependent!DependsAssumption, Dependent!IsInjective
    <3>3. ~(m <= i)
      BY <1>1, <3>1, <3>2
    <3>. QED  BY <2>1, <3>1, <3>3
  <2>. HIDE DEF f
  <2>5. PICK u \in PagesOfShape : Between(p, q, u, f) /\ Decided(u, q, f)
    BY <2>2, <2>3 DEF Round
  <2>6. PICK v \in PagesOfShape : Between(q, r, v, f) /\ Decided(v, r, f)
    BY <2>2, <2>3 DEF Round
  <2>7. ASSUME NEW g \in Dependent!Controls, Dependent!DependsOn(f, g)  PROVE Same(u, v, g)
    <3>1. g \in chain /\ ~Dependent!Backward(f, g)
      BY <2>2, <2>7
    <3>2. CASE Dependent!Precedes(g, f)
      <4>1. Same(u, q, g) /\ Same(v, r, g) /\ Same(q, r, g)
        BY <2>4, <2>5, <2>6, <3>1, <3>2 DEF Between
      <4>. QED  BY <4>1 DEF Same
    <3>3. CASE ~Dependent!Precedes(g, f)
      <4>1. shape.deps[g] = {}
        BY <2>7, <3>1, <3>3 DEF Dependent!Backward
      <4>2. Same(u, p, g) /\ Same(v, q, g) /\ Same(p, q, g)
        BY <2>5, <2>6, <3>3, <4>1 DEF Between, Round
      <4>. QED  BY <4>2 DEF Same
    <3>. QED  BY <3>2, <3>3
  <2>8. /\ Dependent!IsDependencySatisfied(u, shape.deps[f]) <=> Dependent!IsDependencySatisfied(v, shape.deps[f])
        /\ Dependent!DefaultOf(u, f) = Dependent!DefaultOf(v, f)
    BY <2>2, <2>7, AgreeingDecide DEF Agree
  <2>9. u.edited = v.edited /\ u.loaded = v.loaded
    BY <2>5, <2>6 DEF Between, Round
  <2>10. Takes(u, f) <=> Takes(v, f)
    BY <2>8, <2>9 DEF Takes
  <2>11. Same(v, q, f)
    BY <2>2, <2>6, NotBeforeItself DEF Between
  <2>12. q.input[f] = r.input[f]
    BY <2>5, <2>6, <2>8, <2>10, <2>11 DEF Decided, Same
  <2>13. Dependent!Shown(q, f) <=> Dependent!Shown(r, f)
    BY <2>5, <2>6, <2>8 DEF Decided
  <2>. QED  BY <2>2, <2>12, <2>13 DEF Same
<1>4. ASSUME NEW f \in chain  PROVE Same(q, r, f)
  <2>1. PICK i \in 1 .. n : f = F[i]
    BY <1>2
  <2>. QED  BY <1>3, <1>4, <2>1
<1>. QED  BY <1>4

LEMMA TwoRoundsDecide ==
  ASSUME DependsOK, Dependent!TwoRoundsDo, NEW p \in PagesOfShape
  PROVE  AllDecided(Dependent!CheckDepends(p))
<1>. DEFINE q == Dependent!CheckAll(p)
            r == Dependent!CheckAll(q)
<1>1. Round(p, q) /\ q \in PagesOfShape
  BY RoundIs DEF Round
<1>2. Round(q, r)
  BY <1>1, RoundIs
<1>3. Dependent!CheckDepends(p) = IF q.hidden # p.hidden THEN r ELSE q
  BY DEF Dependent!CheckDepends
<1>. HIDE DEF q, r
<1>4. CASE q.hidden = p.hidden
  <2>1. ASSUME NEW f \in Dependent!Controls, NEW g \in Dependent!Controls, Dependent!Backward(f, g)
        PROVE  Same(p, q, g)
    BY <1>1, <1>4, <2>1, InputStays DEF Dependent!TwoRoundsDo, Same, Dependent!Shown
  <2>. QED  BY <1>1, <1>3, <1>4, <2>1, RoundDecides
<1>5. CASE q.hidden # p.hidden
  <2>1. ASSUME NEW f \in Dependent!Controls, NEW g \in Dependent!Controls, Dependent!Backward(f, g)
        PROVE  Same(q, r, g)
    <3>1. PICK chain \in SUBSET Dependent!Controls :
             /\ g \in chain
             /\ \A h \in chain, k \in Dependent!Controls : Dependent!DependsOn(h, k) => k \in chain /\ ~Dependent!Backward(h, k)
      BY <2>1 DEF Dependent!TwoRoundsDo
    <3>. QED  BY <1>1, <1>2, <3>1, ChainStays
  <2>. QED  BY <1>2, <1>3, <1>5, <2>1, RoundDecides
<1>. QED  BY <1>4, <1>5

-----------------------------------------------------------------------------
(* Depends: what a save makes of the options.                              *)

ParsedOptions == [Dependent!Options -> ValuesOfFields]

LEMMA ParseFieldType ==
  ASSUME NEW p \in PagesOfShape, NEW options \in ParsedOptions, NEW f \in Dependent!Controls
  PROVE  /\ Dependent!ParseField(p, options, f) \in ParsedOptions
         /\ \A o \in Dependent!Options : shape.option[f] # o => Dependent!ParseField(p, options, f)[o] = options[o]
<1>. DEFINE o == shape.option[f]
            written == [options EXCEPT ![o] = p.input[f]]
            emptied == [options EXCEPT ![o] = Absent]
<1>1. o \in Dependent!Options /\ p.input[f] \in ValuesOfFields /\ Absent \in ValuesOfFields
  BY DEF Dependent!Options, PagesOfShape, ValuesOfFields
<1>2. \A r \in {options, written, emptied} :
        r \in ParsedOptions /\ \A u \in Dependent!Options : u # o => r[u] = options[u]
  BY <1>1 DEF ParsedOptions
<1>3. Dependent!RemoveOption(p, options, f) \in {options, emptied}
  BY DEF Dependent!RemoveOption
<1>4. Dependent!ParseField(p, options, f) \in {options, written, emptied}
  BY <1>3 DEF Dependent!ParseField
<1>. HIDE DEF o, written, emptied
<1>. QED  BY <1>2, <1>4 DEF o

Parses(w, p, n) == w[0] = stored /\ \A i \in 1 .. n : w[i] = Dependent!ParseField(p, w[i - 1], FieldOrder[i])

LEMMA ParsedIs ==
  ASSUME DependsOK, stored \in ParsedOptions, NEW p \in PagesOfShape,
         NEW n \in Nat, n = Len(FieldOrder)
  PROVE  \E w \in [0 .. n -> ParsedOptions] : Parses(w, p, n) /\ Dependent!Parsed(p) = w[n]
<1>. DEFINE X == ParsedOptions
            G == [x \in X \X (1 .. n) |-> Dependent!ParseField(p, x[1], FieldOrder[x[2]])]
            Eqn(it) == it = [s \in SUBSET DOMAIN FieldOrder |->
                               IF s = {} THEN stored
                               ELSE Dependent!ParseField(p, it[s \ {Max(s)}], FieldOrder[Max(s)])]
<1>1. FieldOrder \in Seq(Dependent!Controls) /\ DOMAIN FieldOrder = 1 .. n
  BY DEF DependsOK, Dependent!DependsAssumption
<1>2. \A i \in 1 .. n : FieldOrder[i] \in Dependent!Controls
  BY <1>1
<1>3. \A x \in X, i \in 1 .. n : Dependent!ParseField(p, x, FieldOrder[i]) \in X
  BY <1>2, ParseFieldType
<1>4. /\ G \in [X \X (1 .. n) -> X]
      /\ \A x \in X, i \in 1 .. n : G[<<x, i>>] = Dependent!ParseField(p, x, FieldOrder[i])
  BY <1>3
<1>5. PICK it \in [SUBSET (1 .. n) -> X] : FoldEqn(it, stored, G, n)
  <2>. HIDE DEF X, G
  <2>. QED  BY <1>4, FoldExists DEF X
<1>. HIDE DEF G
<1>6. Eqn(it)
  <2>1. ASSUME NEW s \in SUBSET (1 .. n), s # {}
        PROVE  it[s] = Dependent!ParseField(p, it[s \ {Max(s)}], FieldOrder[Max(s)])
    <3>1. Max(s) \in 1 .. n /\ s \ {Max(s)} \in SUBSET (1 .. n)
      BY <2>1, MaxIs
    <3>. QED  BY <1>4, <1>5, <2>1, <3>1 DEF FoldEqn
  <2>2. it[{}] = stored
    BY <1>5 DEF FoldEqn
  <2>. QED  BY <1>1, <1>5, <2>1, <2>2
<1>. DEFINE c == CHOOSE f : Eqn(f)
<1>7. Eqn(c)
  BY <1>6
<1>8. Dependent!Parsed(p) = c[DOMAIN FieldOrder]
  BY DEF Dependent!Parsed, Dependent!FoldLeft, Dependent!MapThenFoldSet, Dependent!Max, Max
<1>. HIDE DEF c
<1>9. Folds(c, stored, G, n, X)
  <2>1. /\ c[{}] = stored
        /\ \A s \in SUBSET (1 .. n) : s # {} => c[s] = Dependent!ParseField(p, c[s \ {Max(s)}], FieldOrder[Max(s)])
    BY <1>1, <1>7
  <2>2. \A s \in SUBSET (1 .. n) : s # {} => Max(s) \in 1 .. n
    BY MaxIs
  <2>. QED  BY <1>4, <2>1, <2>2 DEF Folds
<1>10. PICK w : Run(w, stored, G, n, X) /\ w[n] = c[1 .. n]
  <2>1. stored \in X /\ n \in Nat
    OBVIOUS
  <2>2. HasRun(c, stored, G, n, X)
    <3>. HIDE DEF X
    <3>. QED  BY ONLY <1>4, <1>9, <2>1, FoldRuns
  <2>. QED  BY <2>2 DEF HasRun
<1>11. \A i \in 1 .. n : i - 1 \in 0 .. n
  BY ONLY n \in Nat
<1>12. w \in [0 .. n -> X] /\ w[0] = stored /\ \A i \in 1 .. n : w[i] = G[<<w[i - 1], i>>]
  BY <1>10 DEF Run
<1>13. \A i \in 1 .. n : w[i] = Dependent!ParseField(p, w[i - 1], FieldOrder[i])
  <2>. HIDE DEF X
  <2>. QED  BY <1>4, <1>11, <1>12
<1>14. Parses(w, p, n)
  BY <1>12, <1>13 DEF Parses
<1>. QED  BY <1>1, <1>8, <1>10, <1>12, <1>14

\* Whatever f alone has to say about its option.
MeantFor(p, f) ==
  IF \/ p.input[f] = Empty
     \/ f \in shape.flag /\ Dependent!Removable(f) /\ p.input[f] = p.default[f]
  THEN Absent ELSE p.input[f]

LEMMA HiddenParse ==
  ASSUME NEW p, NEW options \in ParsedOptions, NEW f \in Dependent!Controls, ~Dependent!Shown(p, f)
  PROVE  Dependent!ParseField(p, options, f)[shape.option[f]] =
           IF \E g \in shape.declared \ {f} : shape.option[g] = shape.option[f] /\ Dependent!Shown(p, g)
           THEN options[shape.option[f]] ELSE Absent
<1>1. shape.option[f] \in Dependent!Options
  BY DEF Dependent!Options
<1>. QED  BY <1>1 DEF Dependent!ParseField, Dependent!RemoveOption, ParsedOptions

LEMMA ShownParse ==
  ASSUME NEW p, NEW options \in ParsedOptions,
         NEW f \in Dependent!Controls, Dependent!Shown(p, f), ~Dependent!Refused(p, f),
         \A g \in shape.declared \ {f} : shape.option[g] = shape.option[f] => ~Dependent!Shown(p, g),
         options[shape.option[f]] = p.loaded[shape.option[f]]
  PROVE  Dependent!ParseField(p, options, f)[shape.option[f]] = MeantFor(p, f)
<1>. DEFINE o == shape.option[f]
            written == [options EXCEPT ![o] = p.input[f]]
            emptied == [options EXCEPT ![o] = Absent]
<1>1. o \in Dependent!Options
  BY DEF Dependent!Options
<1>2. written[o] = p.input[f] /\ emptied[o] = Absent
  BY <1>1 DEF ParsedOptions
<1>3. Dependent!RemoveOption(p, options, f) = emptied
  BY DEF Dependent!RemoveOption
<1>4. p.input[f] = Empty => Dependent!Removable(f)
  BY DEF Dependent!Refused
<1>5. CASE p.input[f] = Empty
  BY <1>2, <1>3, <1>4, <1>5 DEF Dependent!ParseField, MeantFor
<1>6. CASE p.input[f] # Empty /\ f \in shape.flag
  BY <1>2, <1>3, <1>6 DEF Dependent!ParseField, MeantFor
<1>7. CASE p.input[f] # Empty /\ f \notin shape.flag
  BY <1>2, <1>7 DEF Dependent!ParseField, MeantFor
<1>. QED  BY <1>5, <1>6, <1>7

LEMMA SaveIs ==
  ASSUME DependsOK, stored \in ParsedOptions, NEW p \in PagesOfShape, stored = p.loaded,
         \A f \in Dependent!Controls : ~Dependent!Refused(p, f), NEW o \in Dependent!Options
  PROVE  LET fields == {f \in Dependent!Controls : shape.option[f] = o}
             visible == {f \in fields : Dependent!Shown(p, f)}
         IN  /\ Dependent!Parsed(p) \in ParsedOptions
             /\ visible = {} => Dependent!Parsed(p)[o] = Absent
             /\ \A f \in fields :
                  visible = {f} /\ (f \in shape.declared \/ fields = {f}) => Dependent!Parsed(p)[o] = MeantFor(p, f)
<1>. DEFINE n == Len(FieldOrder)
            F == FieldOrder
            fields == {f \in Dependent!Controls : shape.option[f] = o}
            visible == {f \in fields : Dependent!Shown(p, f)}
<1>1. F \in Seq(Dependent!Controls) /\ n \in Nat /\ DOMAIN F = 1 .. n
  BY DEF DependsOK, Dependent!DependsAssumption
<1>2. /\ \A i \in 1 .. n : F[i] \in Dependent!Controls
      /\ \A i, j \in 1 .. n : F[i] = F[j] => i = j
      /\ \A f \in Dependent!Controls : \E i \in 1 .. n : f = F[i]
  BY <1>1 DEF Dependent!Controls, Dependent!Range, DependsOK, Dependent!DependsAssumption, Dependent!IsInjective
<1>3. shape.declared \subseteq Dependent!Controls
  BY DEF DependsOK, Dependent!ShapeOK
<1>4. PICK w \in [0 .. n -> ParsedOptions] : Parses(w, p, n) /\ Dependent!Parsed(p) = w[n]
  BY <1>1, ParsedIs
<1>5. w[0] = stored /\ Dependent!Parsed(p) \in ParsedOptions
  BY <1>1, <1>4 DEF Parses
<1>. HIDE DEF n, F
<1>6. 0 \in 0 .. n /\ n \in 0 .. n /\ \A i \in 1 .. n : i \in 0 .. n /\ i - 1 \in 0 .. n
  BY ONLY <1>1
<1>7. ASSUME NEW i \in 1 .. n
      PROVE  /\ w[i - 1] \in ParsedOptions /\ w[i] = Dependent!ParseField(p, w[i - 1], F[i])
             /\ F[i] \notin fields => w[i][o] = w[i - 1][o]
  <2>1. F[i] \in Dependent!Controls /\ w[i - 1] \in ParsedOptions
        /\ w[i] = Dependent!ParseField(p, w[i - 1], F[i])
    BY <1>2, <1>4, <1>6 DEF Parses, F
  <2>. QED  BY <2>1, ParseFieldType
<1>8. ASSUME visible = {}  PROVE w[n][o] = Absent
  <2>. DEFINE S == {k \in 0 .. n : \A i \in 1 .. n : i <= k /\ F[i] \in fields => w[k][o] = Absent}
  <2>1. 0 \in S
    BY <1>1, <1>6
  <2>2. ASSUME NEW i \in 1 .. n, i - 1 \in S  PROVE i \in S
    <3>1. CASE F[i] \in fields
      <4>1. ~Dependent!Shown(p, F[i]) /\ F[i] \in Dependent!Controls /\ shape.option[F[i]] = o
        BY <1>8, <3>1
      <4>2. \A g \in shape.declared : shape.option[g] = o => ~Dependent!Shown(p, g)
        BY <1>3, <1>8
      <4>3. w[i][o] = Absent
        BY <1>7, <4>1, <4>2, HiddenParse
      <4>. QED  BY <1>6, <4>3
    <3>2. CASE F[i] \notin fields
      <4>1. \A j \in 1 .. n : j <= i /\ F[j] \in fields => j <= i - 1
        BY <1>1, <3>2
      <4>. QED  BY <1>6, <1>7, <2>2, <3>2, <4>1
    <3>. QED  BY <3>1, <3>2
  <2>3. \A k \in 0 .. n : k \in S
    <3>. HIDE DEF S
    <3>. QED  BY ONLY <1>1, <2>1, <2>2, Upward
  <2>4. PICK f \in Dependent!Controls : o = shape.option[f]
    BY DEF Dependent!Options
  <2>5. PICK i \in 1 .. n : f = F[i]
    BY <1>2
  <2>6. i <= n /\ F[i] \in fields /\ n \in S
    BY <1>1, <1>6, <2>3, <2>4, <2>5
  <2>. QED  BY <2>6
<1>9. ASSUME NEW f \in fields, visible = {f}, f \in shape.declared \/ fields = {f}
      PROVE  w[n][o] = MeantFor(p, f)
  <2>1. PICK m \in 1 .. n : f = F[m]
    BY <1>2
  <2>. DEFINE S == {k \in 0 .. n : w[k][o] = IF k < m THEN stored[o] ELSE MeantFor(p, f)}
  <2>2. 0 \in S
    BY <1>1, <1>5, <1>6
  <2>3. ASSUME NEW i \in 1 .. n, i - 1 \in S  PROVE i \in S
    <3>1. CASE i = m
      <4>1. Dependent!Shown(p, f) /\ f \in Dependent!Controls /\ shape.option[f] = o
            /\ ~Dependent!Refused(p, f)
        BY <1>9
      <4>2. \A g \in shape.declared \ {f} : shape.option[g] = o => ~Dependent!Shown(p, g)
        BY <1>3, <1>9
      <4>3. w[i - 1][o] = stored[o]
        BY <1>1, <2>3, <3>1
      <4>4. w[i][o] = MeantFor(p, f)
        BY <1>7, <2>1, <3>1, <4>1, <4>2, <4>3, ShownParse
      <4>. QED  BY <1>1, <1>6, <3>1, <4>4
    <3>2. CASE i # m
      <4>1. i < m <=> i - 1 < m
        BY <1>1, <3>2
      <4>2. F[i] # f
        BY <1>2, <2>1, <3>2
      <4>3. w[i][o] = w[i - 1][o]
        <5>1. CASE F[i] \in fields
          <6>1. ~Dependent!Shown(p, F[i]) /\ F[i] \in Dependent!Controls /\ shape.option[F[i]] = o
            BY <1>9, <4>2, <5>1
          <6>2. f \in shape.declared \ {F[i]} /\ shape.option[f] = o /\ Dependent!Shown(p, f)
            BY <1>9, <4>2, <5>1
          <6>. QED  BY <1>7, <6>1, <6>2, HiddenParse
        <5>. QED  BY <1>7, <5>1
      <4>. QED  BY <1>6, <2>3, <4>1, <4>3
    <3>. QED  BY <3>1, <3>2
  <2>4. \A k \in 0 .. n : k \in S
    <3>. HIDE DEF S
    <3>. QED  BY ONLY <1>1, <2>2, <2>3, Upward
  <2>5. ~(n < m) /\ n \in S
    BY <1>1, <1>6, <2>4
  <2>. QED  BY <2>5
<1>. QED  BY <1>4, <1>5, <1>8, <1>9

-----------------------------------------------------------------------------
(* Depends: its steps.                                                     *)

FieldInv ==
  /\ shape \in Shapes /\ stored \in ParsedOptions /\ page \in PagesOfShape
  /\ Dependent!TwoRoundsDo => AllDecided(page)

LEMMA CheckDependsType ==
  ASSUME DependsOK, NEW p \in PagesOfShape, NEW q, q = Dependent!CheckDepends(p)
  PROVE  q \in PagesOfShape /\ q.edited = p.edited /\ q.loaded = p.loaded
<1>1. Round(p, Dependent!CheckAll(p))
  BY RoundIs
<1>2. Dependent!CheckAll(p) \in PagesOfShape
  BY <1>1 DEF Round
<1>3. Round(Dependent!CheckAll(p), Dependent!CheckAll(Dependent!CheckAll(p)))
  BY <1>2, RoundIs
<1>. QED  BY <1>1, <1>3 DEF Dependent!CheckDepends, Round

LEMMA RenderedType ==
  ASSUME NEW options \in ParsedOptions, NEW default \in [Dependent!Controls -> ValuesOfFields]
  PROVE  Dependent!Rendered(options, default) \in PagesOfShape
<1>1. \A f \in Dependent!Controls : shape.option[f] \in Dependent!Options /\ options[shape.option[f]] \in ValuesOfFields
  BY DEF Dependent!Options, ParsedOptions
<1>2. Empty \in ValuesOfFields
  BY DEF ValuesOfFields
<1>. QED  BY <1>1, <1>2 DEF Dependent!Rendered, PagesOfShape, ParsedOptions, Dependents

\* The shape does not change, and page is what Dependent!CheckDepends has made of p.
LEMMA CheckedAgain ==
  ASSUME DependsOK, shape \in Shapes, shape' = shape, stored' \in ParsedOptions,
         NEW p \in PagesOfShape, page' = Dependent!CheckDepends(p)
  PROVE  FieldInv'
<1>1. page' \in PagesOfShape
  BY CheckDependsType
<1>2. PagesOfShape' = PagesOfShape /\ ParsedOptions' = ParsedOptions
  BY DEF PagesOfShape, ParsedOptions, Dependents, Dependent!Options
<1>3. Dependent!TwoRoundsDo' <=> Dependent!TwoRoundsDo
  BY DEF Dependent!TwoRoundsDo, Dependent!Backward, Dependent!DependsOn
<1>4. PICK q : q = page'
  OBVIOUS
<1>5. Dependent!TwoRoundsDo => AllDecided(q)
  BY <1>4, TwoRoundsDecide
<1>6. AllDecided(q) => AllDecided(page)'
  BY <1>4 DEF AllDecided, Dependent!Shown, Dependent!IsDependencySatisfied, Dependent!Met
<1>. QED  BY <1>1, <1>2, <1>3, <1>5, <1>6 DEF FieldInv

LEMMA FieldsStep == ASSUME DependsOK, FieldInv, Dependent!DependsNext  PROVE FieldInv'
<1>1. ASSUME NEW f \in Dependent!Controls, NEW v \in Entries \cup {Empty}, Dependent!EditField(f, v)
      PROVE  FieldInv'
  <2>. DEFINE p == [page EXCEPT !.input[f] = v, !.edited = @ \cup {f}]
  <2>1. p \in PagesOfShape
    BY DEF FieldInv, PagesOfShape, ValuesOfFields
  <2>. QED  BY <1>1, <2>1, CheckedAgain DEF Dependent!EditField, FieldInv
<1>2. CASE Dependent!SaveFields
  <2>. DEFINE now == Dependent!CheckDepends(page)
  <2>1. now \in PagesOfShape
    BY CheckDependsType DEF FieldInv
  <2>2. shape' = shape /\ stored' = Dependent!Parsed(now)
    BY <1>2 DEF Dependent!SaveFields
  <2>3. stored' \in ParsedOptions
    <3>1. PICK n \in Nat : n = Len(FieldOrder)
      BY DEF DependsOK, Dependent!DependsAssumption
    <3>2. PICK w \in [0 .. n -> ParsedOptions] : Dependent!Parsed(now) = w[n]
      BY <2>1, <3>1, ParsedIs DEF FieldInv
    <3>3. n \in 0 .. n
      OBVIOUS
    <3>. QED  BY <2>2, <3>2, <3>3
  <2>4. CASE \E f \in Dependent!Controls : Dependent!Refused(now, f)
    <3>1. page' = Dependent!CheckDepends(page)
      BY <1>2, <2>4 DEF Dependent!SaveFields
    <3>. QED  BY <2>2, <2>3, <3>1, CheckedAgain DEF FieldInv
  <2>5. CASE ~\E f \in Dependent!Controls : Dependent!Refused(now, f)
    <3>1. page' = Dependent!CheckDepends(Dependent!Rendered(stored', now.default))
      BY <1>2, <2>5 DEF Dependent!SaveFields
    <3>2. Dependent!Rendered(stored', now.default) \in PagesOfShape
      BY <2>1, <2>3, RenderedType DEF PagesOfShape
    <3>. QED  BY <2>2, <2>3, <3>1, <3>2, CheckedAgain DEF FieldInv
  <2>. QED  BY <2>4, <2>5
<1>. QED  BY <1>1, <1>2 DEF Dependent!DependsNext

LEMMA FieldsBegin ==
  ASSUME Dependent!DependsAssumption, \A s \in Shapes : Dependent!ShapeOK(s),
         Dependent!DependsInit
  PROVE  FieldInv
<1>1. DependsOK /\ shape \in Shapes /\ stored \in ParsedOptions
  BY DEF Dependent!DependsInit, DependsOK, ParsedOptions, ValuesOfFields
<1>2. Dependent!Rendered(stored, Dependent!FirstDefault) \in PagesOfShape
  BY <1>1, RenderedType DEF Dependent!FirstDefault, ValuesOfFields
<1>3. page = Dependent!CheckDepends(Dependent!Rendered(stored, Dependent!FirstDefault))
  BY DEF Dependent!DependsInit
<1>. QED  BY <1>1, <1>2, <1>3, CheckDependsType, TwoRoundsDecide DEF FieldInv

LEMMA SaveKeeps == ASSUME DependsOK, FieldInv, Dependent!DependsNext  PROVE Dependent!SharedIsKept
<1>. DEFINE now == Dependent!CheckDepends(page)
<1>1. now \in PagesOfShape /\ now.edited = page.edited /\ now.loaded = page.loaded
  BY CheckDependsType DEF FieldInv
<1>2. ASSUME NEW f \in Dependent!Controls, NEW v \in Entries \cup {Empty}, Dependent!EditField(f, v)
      PROVE  page'.edited # {}
  <2>. DEFINE p == [page EXCEPT !.input[f] = v, !.edited = @ \cup {f}]
  <2>1. p \in PagesOfShape /\ f \in p.edited
    BY DEF FieldInv, PagesOfShape, ValuesOfFields
  <2>2. page' = Dependent!CheckDepends(p)
    BY <1>2 DEF Dependent!EditField
  <2>. HIDE DEF p
  <2>. QED  BY <2>1, <2>2, CheckDependsType
<1>3. ASSUME page.edited # {}, page'.edited = {}, stored = page.loaded
      PROVE  stored' = Dependent!Parsed(now) /\ \A f \in Dependent!Controls : ~Dependent!Refused(now, f)
  <2>1. Dependent!SaveFields
    BY <1>2, <1>3 DEF Dependent!DependsNext
  <2>. QED  BY <1>1, <1>3, <2>1 DEF Dependent!SaveFields
<1>. HIDE DEF now
<1>4. ASSUME page.edited # {}, page'.edited = {}, stored = page.loaded, NEW o \in Dependent!Options
      PROVE  LET fields == {f \in Dependent!Controls : shape.option[f] = o}
                 visible == {f \in fields : Dependent!Shown(now, f)}
             IN  /\ visible = {} => stored'[o] = Absent
                 /\ \A f \in fields :
                      visible = {f} /\ (f \in shape.declared \/ fields = {f}) => stored'[o] = MeantFor(now, f)
  <2>1. stored \in ParsedOptions
    BY DEF FieldInv
  <2>. QED  BY <1>1, <1>3, <1>4, <2>1, SaveIs
<1>. QED  BY <1>4 DEF Dependent!SharedIsKept, MeantFor, now

-----------------------------------------------------------------------------
(* The fields, as a part of the form.                                      *)

FieldsHold == part = "fields" => FieldInv

LEMMA FieldsStay == FieldInv /\ UNCHANGED fieldVars => FieldInv'
<1>. SUFFICES ASSUME FieldInv, UNCHANGED fieldVars  PROVE FieldInv'
  OBVIOUS
<1>1. PagesOfShape' = PagesOfShape /\ ParsedOptions' = ParsedOptions
  BY DEF fieldVars, PagesOfShape, ParsedOptions, Dependents, Dependent!Options
<1>2. Dependent!TwoRoundsDo' <=> Dependent!TwoRoundsDo
  BY DEF fieldVars, Dependent!TwoRoundsDo, Dependent!Backward, Dependent!DependsOn
<1>3. AllDecided(page) => AllDecided(page)'
  BY DEF fieldVars, AllDecided, Dependent!Shown, Dependent!IsDependencySatisfied, Dependent!Met
<1>. QED  BY <1>1, <1>2, <1>3 DEF FieldInv, fieldVars

LEMMA ShapesAreOK == FieldInv => DependsOK
BY FormsAssumption DEF FieldInv, DependsOK

LEMMA FieldsHoldInit == Init => FieldsHold
BY FormsAssumption, FieldsBegin DEF Init, FieldsHold

LEMMA FieldsHoldStep == FieldsHold /\ [Next]_vars => FieldsHold'
<1>. SUFFICES ASSUME FieldsHold, [Next]_vars, part' = "fields"  PROVE FieldInv'
  BY DEF FieldsHold
<1>1. CASE part = "fields" /\ Dependent!DependsNext
  BY <1>1, FieldsStep, ShapesAreOK DEF FieldsHold
<1>2. CASE part = "fields" /\ UNCHANGED fieldVars
  BY <1>2, FieldsStay DEF FieldsHold
<1>. QED  BY <1>1, <1>2 DEF Next, vars

LEMMA FieldsHoldAlways == Spec => []FieldsHold
BY FieldsHoldInit, FieldsHoldStep, PTL DEF Spec

\* Once an edit has been dealt with, each field is shown exactly if what it
\* depends on is so, although the fields are decided one after the other and
\* each reads whether the others are shown (form.js:735-750, 1845-1862): in any
\* form that two rounds are enough for.
THEOREM FieldsAreSettled == Spec => []FieldsSettle
<1>1. FieldsHold => FieldsSettle
  BY DEF FieldsHold, FieldInv, AllDecided, FieldsSettle, Dependent!Settled
<1>. QED  BY <1>1, FieldsHoldAlways, PTL

\* A save that is not refused stores what is shown and drops what is not, also
\* where several fields stand for one option (form.js:2028-2105).
THEOREM SharedOptionsAreKept == Spec => SharedIsKept
<1>1. FieldsHold /\ [Next]_vars => [part = "fields" => Dependent!SharedIsKept]_vars
  <2>. SUFFICES ASSUME FieldsHold, Next, part = "fields"  PROVE Dependent!SharedIsKept
    OBVIOUS
  <2>1. FieldInv /\ DependsOK /\ Dependent!DependsNext
    BY ShapesAreOK DEF FieldsHold, Next
  <2>. QED  BY <2>1, SaveKeeps
<1>. QED  BY <1>1, FieldsHoldAlways, PTL DEF Spec, SharedIsKept

-----------------------------------------------------------------------------
LEMMA GridOK == GridAssumption
BY FormsAssumption

-----------------------------------------------------------------------------
(* Grid: rows, sequences in which nothing stands twice, and their order.   *)

Before(q, a, b) == \E i, j \in DOMAIN q : i < j /\ q[i] = a /\ q[j] = b
IsRow(q) == q \in Seq(Range(q)) /\ IsInjective(q)

LEMMA RowFacts ==
  ASSUME NEW q, IsRow(q)
  PROVE  /\ Len(q) \in Nat /\ DOMAIN q = 1 .. Len(q) /\ q \in Seq(Range(q))
         /\ \A i \in 1 .. Len(q) : q[i] \in Range(q)
         /\ \A a \in Range(q) : \E i \in 1 .. Len(q) : q[i] = a
         /\ \A i, j \in 1 .. Len(q) : q[i] = q[j] => i = j
<1>1. q \in Seq(Range(q)) /\ Len(q) \in Nat /\ DOMAIN q = 1 .. Len(q)
  BY DEF IsRow
<1>. QED  BY <1>1 DEF IsRow, IsInjective, Range

LEMMA RowIf ==
  ASSUME NEW T, NEW q \in Seq(T), \A i, j \in 1 .. Len(q) : q[i] = q[j] => i = j
  PROVE  IsRow(q)
<1>1. DOMAIN q = 1 .. Len(q) /\ Len(q) \in Nat
  OBVIOUS
<1>2. \A i \in 1 .. Len(q) : q[i] \in Range(q)
  BY <1>1 DEF Range
<1>3. q \in Seq(Range(q))
  BY <1>1, <1>2
<1>. QED  BY <1>1, <1>3 DEF IsRow, IsInjective

\* In a row, of two elements one is before the other.
LEMMA OneIsBefore ==
  ASSUME NEW q, IsRow(q), NEW a, NEW b
  PROVE  /\ Before(q, a, b) => a \in Range(q) /\ b \in Range(q) /\ a # b /\ ~Before(q, b, a)
         /\ a \in Range(q) /\ b \in Range(q) /\ a # b => Before(q, a, b) \/ Before(q, b, a)
<1>1. /\ Len(q) \in Nat /\ DOMAIN q = 1 .. Len(q)
      /\ \A i \in 1 .. Len(q) : q[i] \in Range(q)
      /\ \A c \in Range(q) : \E i \in 1 .. Len(q) : q[i] = c
      /\ \A i, j \in 1 .. Len(q) : q[i] = q[j] => i = j
  BY RowFacts
<1>2. ASSUME Before(q, a, b)  PROVE a \in Range(q) /\ b \in Range(q) /\ a # b /\ ~Before(q, b, a)
  <2>1. PICK i, j \in 1 .. Len(q) : i < j /\ q[i] = a /\ q[j] = b
    BY <1>1, <1>2 DEF Before
  <2>2. a # b
    BY <1>1, <2>1
  <2>3. ASSUME NEW k \in 1 .. Len(q), NEW l \in 1 .. Len(q), k < l, q[k] = b, q[l] = a  PROVE FALSE
    <3>1. k = j /\ l = i
      BY <1>1, <2>1, <2>3
    <3>. QED  BY <2>1, <2>3, <3>1
  <2>. QED  BY <1>1, <2>1, <2>2, <2>3 DEF Before
<1>3. ASSUME a \in Range(q), b \in Range(q), a # b  PROVE Before(q, a, b) \/ Before(q, b, a)
  <2>1. PICK i, j \in 1 .. Len(q) : q[i] = a /\ q[j] = b
    BY <1>1, <1>3
  <2>2. i < j \/ j < i
    BY <1>3, <2>1
  <2>. QED  BY <1>1, <2>1, <2>2 DEF Before
<1>. QED  BY <1>2, <1>3

\* Two rows of the same elements in the same order are the same.
LEMMA SameRow ==
  ASSUME NEW p, NEW q, IsRow(p), IsRow(q), Range(p) = Range(q),
         \A a, b \in Range(p) : Before(p, a, b) => Before(q, a, b)
  PROVE  p = q
<1>. DEFINE m == Len(p)
            n == Len(q)
<1>1. /\ m \in Nat /\ DOMAIN p = 1 .. m /\ p \in Seq(Range(p))
      /\ \A i \in 1 .. m : p[i] \in Range(p)
      /\ \A a \in Range(p) : \E i \in 1 .. m : p[i] = a
      /\ \A i, j \in 1 .. m : p[i] = p[j] => i = j
  BY RowFacts
<1>2. /\ n \in Nat /\ DOMAIN q = 1 .. n /\ q \in Seq(Range(q))
      /\ \A i \in 1 .. n : q[i] \in Range(q)
      /\ \A a \in Range(q) : \E i \in 1 .. n : q[i] = a
      /\ \A i, j \in 1 .. n : q[i] = q[j] => i = j
  BY RowFacts
<1>. HIDE DEF m, n
<1>3. ASSUME NEW i \in 1 .. m, \A k \in 1 .. i - 1 : k \in 1 .. n /\ q[k] = p[k]
      PROVE  i \in 1 .. n /\ q[i] = p[i]
  <2>1. p[i] \in Range(q)
    BY <1>1
  <2>2. PICK j \in 1 .. n : q[j] = p[i]
    BY <1>2, <2>1
  <2>3. ASSUME j < i  PROVE FALSE
    <3>1. j \in 1 .. i - 1 /\ j \in 1 .. m
      BY <1>1, <1>2, <2>3
    <3>2. p[j] = p[i]
      BY <1>3, <2>2, <3>1
    <3>. QED  BY <1>1, <2>3, <3>1, <3>2
  <2>4. ASSUME i < j  PROVE FALSE
    <3>1. i \in 1 .. n
      BY <1>1, <1>2, <2>4
    <3>2. q[i] \in Range(p)
      BY <1>2, <3>1
    <3>3. PICK k \in 1 .. m : p[k] = q[i]
      BY <1>1, <3>2
    <3>4. CASE k < i
      <4>1. k \in 1 .. i - 1 /\ k \in 1 .. n
        BY <1>1, <1>3, <3>4
      <4>2. q[k] = q[i]
        BY <1>3, <3>3, <4>1
      <4>. QED  BY <1>2, <3>1, <3>4, <4>1, <4>2
    <3>5. CASE k = i
      BY <1>2, <2>2, <2>4, <3>1, <3>3, <3>5
    <3>6. CASE i < k
      <4>1. Before(p, p[i], p[k])
        BY <1>1, <3>6 DEF Before
      <4>2. Before(q, p[i], p[k])
        BY <1>1, <4>1
      <4>3. Before(q, p[k], p[i])
        BY <1>2, <2>2, <2>4, <3>1, <3>3 DEF Before
      <4>. QED  BY <4>2, <4>3, OneIsBefore
    <3>. QED  BY <1>1, <3>4, <3>5, <3>6
  <2>. QED  BY <1>1, <1>2, <2>2, <2>3, <2>4
<1>. DEFINE T == {i \in 1 .. m : ~(i \in 1 .. n /\ q[i] = p[i])}
<1>4. ASSUME T # {}  PROVE FALSE
  <2>0. T \in SUBSET (1 .. m)
    OBVIOUS
  <2>1. PICK i \in T : \A k \in T : i <= k
    <3>. HIDE DEF T
    <3>. QED  BY ONLY <1>1, <1>4, <2>0, LeastNatural
  <2>2. \A k \in 1 .. i - 1 : k \in 1 .. m /\ ~(i <= k)
    BY <1>1
  <2>3. \A k \in 1 .. i - 1 : k \in 1 .. n /\ q[k] = p[k]
    BY <2>1, <2>2
  <2>. QED  BY <1>3, <2>3
<1>5. \A i \in 1 .. m : i \in 1 .. n /\ q[i] = p[i]
  BY <1>4
<1>6. m <= n
  BY <1>1, <1>2, <1>5
<1>7. ASSUME m < n  PROVE FALSE
  <2>1. n \in 1 .. n /\ q[n] \in Range(p)
    BY <1>1, <1>2, <1>7
  <2>2. PICK k \in 1 .. m : p[k] = q[n]
    BY <1>1, <2>1
  <2>3. q[k] = q[n] /\ k \in 1 .. n /\ k # n
    BY <1>1, <1>2, <1>5, <1>7, <2>2
  <2>. QED  BY <1>2, <2>1, <2>3
<1>8. m = n
  BY <1>1, <1>2, <1>6, <1>7
<1>. QED  BY <1>1, <1>2, <1>5, <1>8

-----------------------------------------------------------------------------
(* Grid: what is taken out of a row, put in, and put elsewhere.            *)

LEMMA Appended ==
  ASSUME NEW q, IsRow(q), NEW e, e \notin Range(q)
  PROVE  /\ IsRow(Append(q, e)) /\ Range(Append(q, e)) = Range(q) \cup {e}
         /\ \A a, b : Before(Append(q, e), a, b) <=> Before(q, a, b) \/ (a \in Range(q) /\ b = e)
<1>. DEFINE n == Len(q)
            r == Append(q, e)
            T == Range(q) \cup {e}
<1>1. /\ n \in Nat /\ DOMAIN q = 1 .. n /\ q \in Seq(Range(q))
      /\ \A i \in 1 .. n : q[i] \in Range(q)
      /\ \A a \in Range(q) : \E i \in 1 .. n : q[i] = a
      /\ \A i, j \in 1 .. n : q[i] = q[j] => i = j
  BY RowFacts
<1>2. q \in Seq(T)
  BY <1>1
<1>3. r \in Seq(T) /\ Len(r) = n + 1 /\ (\A i \in 1 .. n : r[i] = q[i]) /\ r[n + 1] = e
  BY <1>1, <1>2
<1>4. DOMAIN r = 1 .. n + 1
  BY <1>1, <1>3
<1>. HIDE DEF n, r, T
<1>5. \A i \in 1 .. n + 1 : i \in 1 .. n \/ i = n + 1
  BY <1>1
<1>6. \A i, j \in 1 .. n + 1 : r[i] = r[j] => i = j
  BY <1>1, <1>3, <1>5
<1>7. IsRow(r)
  BY <1>3, <1>6, RowIf
<1>8. Range(r) = T
  <2>1. \A i \in 1 .. n : i \in 1 .. n + 1
    BY <1>1
  <2>2. \A i \in 1 .. n + 1 : r[i] \in T
    BY <1>1, <1>3, <1>5 DEF T
  <2>3. \A a \in T : \E i \in 1 .. n + 1 : r[i] = a
    <3>1. n + 1 \in 1 .. n + 1
      BY <1>1
    <3>. QED  BY <1>1, <1>3, <2>1, <3>1 DEF T
  <2>. QED  BY <1>4, <2>2, <2>3 DEF Range
<1>9. ASSUME NEW a, NEW b
      PROVE  Before(r, a, b) <=> Before(q, a, b) \/ (a \in Range(q) /\ b = e)
  <2>1. ASSUME Before(r, a, b)  PROVE Before(q, a, b) \/ (a \in Range(q) /\ b = e)
    <3>1. PICK i, j \in 1 .. n + 1 : i < j /\ r[i] = a /\ r[j] = b
      BY <1>4, <2>1 DEF Before
    <3>2. i \in 1 .. n /\ q[i] = a
      BY <1>1, <1>3, <3>1
    <3>3. CASE j \in 1 .. n
      BY <1>1, <1>3, <3>1, <3>2, <3>3 DEF Before
    <3>4. CASE j = n + 1
      BY <1>1, <1>3, <3>1, <3>2, <3>4
    <3>. QED  BY <1>5, <3>3, <3>4
  <2>2. ASSUME Before(q, a, b)  PROVE Before(r, a, b)
    <3>1. PICK i, j \in 1 .. n : i < j /\ q[i] = a /\ q[j] = b
      BY <1>1, <2>2 DEF Before
    <3>2. i \in 1 .. n + 1 /\ j \in 1 .. n + 1
      BY <1>1
    <3>. QED  BY <1>3, <1>4, <3>1, <3>2 DEF Before
  <2>3. ASSUME a \in Range(q), b = e  PROVE Before(r, a, b)
    <3>1. PICK i \in 1 .. n : q[i] = a
      BY <1>1, <2>3
    <3>2. i \in 1 .. n + 1 /\ n + 1 \in 1 .. n + 1 /\ i < n + 1
      BY <1>1
    <3>. QED  BY <1>3, <1>4, <2>3, <3>1, <3>2 DEF Before
  <2>. QED  BY <2>1, <2>2, <2>3
<1>. QED  BY <1>7, <1>8, <1>9 DEF r, T

LEMMA EmptyRow == IsRow(<<>>) /\ Range(<<>>) = {} /\ \A a, b : ~Before(<<>>, a, b)
<1>1. <<>> \in Seq({}) /\ Len(<<>>) = 0 /\ DOMAIN <<>> = {}
  OBVIOUS
<1>2. IsRow(<<>>)
  <2>1. \A i, j \in 1 .. Len(<<>>) : <<>>[i] = <<>>[j] => i = j
    BY <1>1
  <2>. QED  BY <1>1, <2>1, RowIf
<1>3. Range(<<>>) = {}
  BY <1>1 DEF Range
<1>4. \A a, b : ~Before(<<>>, a, b)
  BY <1>1 DEF Before
<1>. QED  BY <1>2, <1>3, <1>4

\* The steps of Without.
Drops(w, q, n, S) ==
  /\ w[0] = <<>>
  /\ \A i \in 1 .. n : w[i] = IF q[i] \in S THEN w[i - 1] ELSE Append(w[i - 1], q[i])

HasDrops(q, n, S, T) == \E w \in [0 .. n -> Seq(T)] : Drops(w, q, n, S) /\ Without(q, S) = w[n]

LEMMA WithoutIs ==
  ASSUME NEW T, NEW q, q \in Seq(T), NEW n, n = Len(q), NEW S
  PROVE  HasDrops(q, n, S, T)
<1>. DEFINE X == Seq(T)
            Op(x, e) == IF e \in S THEN x ELSE Append(x, e)
            G == [x \in X \X (1 .. n) |-> Op(x[1], q[x[2]])]
            Eqn(it) == it = [s \in SUBSET DOMAIN q |->
                               IF s = {} THEN <<>> ELSE Op(it[s \ {Max(s)}], q[Max(s)])]
<1>1. n \in Nat /\ DOMAIN q = 1 .. n /\ \A i \in 1 .. n : q[i] \in T
  OBVIOUS
<1>2. \A x \in X, i \in 1 .. n : Op(x, q[i]) \in X
  BY <1>1
<1>3. G \in [X \X (1 .. n) -> X] /\ \A x \in X, i \in 1 .. n : G[<<x, i>>] = Op(x, q[i])
  BY <1>2
<1>0. <<>> \in X
  OBVIOUS
<1>4. PICK it \in [SUBSET (1 .. n) -> X] : FoldEqn(it, <<>>, G, n)
  <2>. HIDE DEF X, G
  <2>. QED  BY <1>0, <1>1, <1>3, FoldExists
<1>. HIDE DEF G
<1>5. Eqn(it)
  <2>1. ASSUME NEW s \in SUBSET (1 .. n), s # {}
        PROVE  it[s] = Op(it[s \ {Max(s)}], q[Max(s)])
    <3>1. Max(s) \in 1 .. n /\ s \ {Max(s)} \in SUBSET (1 .. n)
      BY <1>1, <2>1, MaxIs
    <3>. HIDE DEF X, Op
    <3>. QED  BY <1>3, <1>4, <2>1, <3>1 DEF FoldEqn
  <2>2. it[{}] = <<>>
    BY <1>4 DEF FoldEqn
  <2>. QED  BY <1>1, <1>4, <2>1, <2>2
<1>. DEFINE c == CHOOSE f : Eqn(f)
<1>6. Eqn(c)
  BY <1>5
<1>7. Without(q, S) = c[DOMAIN q]
  BY DEF Without, FoldLeft, MapThenFoldSet
<1>. HIDE DEF c
<1>8. Folds(c, <<>>, G, n, X)
  <2>1. c[{}] = <<>> /\ \A s \in SUBSET (1 .. n) : s # {} => c[s] = Op(c[s \ {Max(s)}], q[Max(s)])
    BY <1>1, <1>6
  <2>2. \A s \in SUBSET (1 .. n) : s # {} => Max(s) \in 1 .. n
    BY <1>1, MaxIs
  <2>. HIDE DEF Op
  <2>. QED  BY <1>3, <2>1, <2>2 DEF Folds
<1>9. PICK w : Run(w, <<>>, G, n, X) /\ w[n] = c[1 .. n]
  <2>1. HasRun(c, <<>>, G, n, X)
    <3>. HIDE DEF X
    <3>. QED  BY <1>0, <1>1, <1>3, <1>8, FoldRuns
  <2>. QED  BY <2>1 DEF HasRun
<1>10. \A i \in 1 .. n : i - 1 \in 0 .. n
  BY <1>1
<1>11. w \in [0 .. n -> X] /\ w[0] = <<>> /\ \A i \in 1 .. n : w[i] = G[<<w[i - 1], i>>]
  BY <1>9 DEF Run
<1>12. \A i \in 1 .. n : w[i] = Op(w[i - 1], q[i])
  <2>. HIDE DEF X, Op
  <2>. QED  BY <1>3, <1>10, <1>11
<1>13. Drops(w, q, n, S)
  <2>. HIDE DEF X
  <2>. QED  BY <1>11, <1>12 DEF Drops
<1>. QED  BY <1>1, <1>7, <1>9, <1>11, <1>13 DEF HasDrops

\* r is what is left of the first k elements of q.
LeftOf(r, q, k, S) ==
  /\ IsRow(r)
  /\ \A a : a \in Range(r) <=> a \notin S /\ \E i \in 1 .. k : q[i] = a
  /\ \A a, b : Before(r, a, b) <=> /\ a \notin S /\ b \notin S
                                   /\ \E i, j \in 1 .. k : i < j /\ q[i] = a /\ q[j] = b

LEMMA WithoutRow ==
  ASSUME NEW q, IsRow(q), NEW S
  PROVE  /\ IsRow(Without(q, S)) /\ Range(Without(q, S)) = Range(q) \ S
         /\ \A a, b : Before(Without(q, S), a, b) <=> Before(q, a, b) /\ a \notin S /\ b \notin S
<1>. DEFINE n == Len(q)
<1>1. /\ n \in Nat /\ DOMAIN q = 1 .. n /\ q \in Seq(Range(q))
      /\ \A i \in 1 .. n : q[i] \in Range(q)
      /\ \A a \in Range(q) : \E i \in 1 .. n : q[i] = a
      /\ \A i, j \in 1 .. n : q[i] = q[j] => i = j
  BY RowFacts
<1>2. PICK w \in [0 .. n -> Seq(Range(q))] : Drops(w, q, n, S) /\ Without(q, S) = w[n]
  <2>1. PICK T : T = Range(q)
    OBVIOUS
  <2>2. q \in Seq(T) /\ n \in Nat
    BY <1>1, <2>1
  <2>3. n = Len(q)
    OBVIOUS
  <2>4. HasDrops(q, n, S, T)
    <3>. HIDE DEF n
    <3>. QED  BY ONLY <2>2, <2>3, WithoutIs
  <2>. QED  BY <2>1, <2>4 DEF HasDrops
<1>. HIDE DEF n
<1>. DEFINE Z == {k \in 0 .. n : LeftOf(w[k], q, k, S)}
<1>3. LeftOf(w[0], q, 0, S)
  BY <1>2, EmptyRow DEF LeftOf, Drops
<1>4. ASSUME NEW k \in 1 .. n, LeftOf(w[k - 1], q, k - 1, S)  PROVE LeftOf(w[k], q, k, S)
  <2>0. /\ k \in Nat /\ k - 1 \in Nat /\ \A i \in 1 .. k : i \in 1 .. n /\ (i \in 1 .. k - 1 \/ i = k)
        /\ \A i \in 1 .. k - 1 : i \in 1 .. k /\ i < k /\ i # k
        /\ k \in 1 .. k
    BY <1>1
  <2>1. CASE q[k] \in S
    <3>1. w[k] = w[k - 1]
      BY <1>2, <2>1 DEF Drops
    <3>2. \A a : a \notin S => ((\E i \in 1 .. k : q[i] = a) <=> (\E i \in 1 .. k - 1 : q[i] = a))
      BY <2>0, <2>1
    <3>3. \A a, b : a \notin S /\ b \notin S =>
            ((\E i, j \in 1 .. k : i < j /\ q[i] = a /\ q[j] = b)
              <=> (\E i, j \in 1 .. k - 1 : i < j /\ q[i] = a /\ q[j] = b))
      BY <2>0, <2>1
    <3>. QED  BY <1>4, <3>1, <3>2, <3>3 DEF LeftOf
  <2>2. CASE q[k] \notin S
    <3>. DEFINE p == w[k - 1]
    <3>1. w[k] = Append(p, q[k])
      BY <1>2, <2>2 DEF Drops
    <3>2. IsRow(p) /\ q[k] \notin Range(p)
      BY <1>1, <1>4, <2>0 DEF LeftOf
    <3>3. /\ IsRow(w[k]) /\ Range(w[k]) = Range(p) \cup {q[k]}
          /\ \A a, b : Before(w[k], a, b) <=> Before(p, a, b) \/ (a \in Range(p) /\ b = q[k])
      <4>. HIDE DEF p
      <4>. QED  BY <3>1, <3>2, Appended
    <3>4. \A a : a \in Range(p) <=> a \notin S /\ \E i \in 1 .. k - 1 : q[i] = a
      BY <1>4 DEF LeftOf
    <3>5. \A a, b : Before(p, a, b) <=> /\ a \notin S /\ b \notin S
                                        /\ \E i, j \in 1 .. k - 1 : i < j /\ q[i] = a /\ q[j] = b
      BY <1>4 DEF LeftOf
    <3>. HIDE DEF p
    <3>6. \A a : a \in Range(w[k]) <=> a \notin S /\ \E i \in 1 .. k : q[i] = a
      BY <2>0, <2>2, <3>3, <3>4
    <3>7. ASSUME NEW a, NEW b
          PROVE  Before(w[k], a, b) <=> /\ a \notin S /\ b \notin S
                                        /\ \E i, j \in 1 .. k : i < j /\ q[i] = a /\ q[j] = b
      <4>1. ASSUME Before(w[k], a, b)
            PROVE  a \notin S /\ b \notin S /\ \E i, j \in 1 .. k : i < j /\ q[i] = a /\ q[j] = b
        BY <2>0, <2>2, <3>3, <3>4, <3>5, <4>1
      <4>2. ASSUME a \notin S, b \notin S, NEW i \in 1 .. k, NEW j \in 1 .. k, i < j, q[i] = a, q[j] = b
            PROVE  Before(w[k], a, b)
        <5>1. i \in 1 .. k - 1
          BY <4>2, <2>0
        <5>2. CASE j \in 1 .. k - 1
          BY <3>3, <3>5, <4>2, <5>1, <5>2
        <5>3. CASE j = k
          BY <3>3, <3>4, <4>2, <5>1, <5>3
        <5>. QED  BY <2>0, <5>2, <5>3
      <4>. QED  BY <4>1, <4>2
    <3>. QED  BY <3>3, <3>6, <3>7 DEF LeftOf
  <2>. QED  BY <2>1, <2>2
<1>5. 0 \in Z /\ \A k \in 1 .. n : k - 1 \in Z => k \in Z
  <2>1. 0 \in 0 .. n /\ \A k \in 1 .. n : k \in 0 .. n
    BY <1>1
  <2>. QED  BY <1>3, <1>4, <2>1
<1>6. n \in Z
  <2>1. \A k \in 0 .. n : k \in Z
    <3>. HIDE DEF Z
    <3>. QED  BY ONLY <1>1, <1>5, Upward
  <2>. QED  BY <1>1, <2>1
<1>7. LeftOf(Without(q, S), q, n, S)
  BY <1>2, <1>6
<1>8. \A a : a \in Range(q) <=> \E i \in 1 .. n : q[i] = a
  BY <1>1
<1>9. \A a, b : Before(q, a, b) <=> \E i, j \in 1 .. n : i < j /\ q[i] = a /\ q[j] = b
  BY <1>1 DEF Before
<1>. QED  BY <1>7, <1>8, <1>9 DEF LeftOf

\* r is q with e put in at the place i.
IsInserted(r, q, i, e) ==
  /\ IsRow(r) /\ Range(r) = Range(q) \cup {e}
  /\ Len(r) = Len(q) + 1 /\ r[i] = e
  /\ \A k \in 1 .. Len(q) : IF k < i THEN r[k] = q[k] ELSE r[k + 1] = q[k]
  /\ \A a, b : a # e /\ b # e => (Before(r, a, b) <=> Before(q, a, b))
  /\ \A k \in 1 .. Len(q) : Before(r, e, q[k]) <=> i <= k

LEMMA Inserted ==
  ASSUME NEW q, IsRow(q), NEW e, e \notin Range(q), NEW i \in 1 .. Len(q) + 1
  PROVE  IsInserted(InsertAt(q, i, e), q, i, e)
<1>. DEFINE n == Len(q)
            r == InsertAt(q, i, e)
            T == Range(q) \cup {e}
<1>1. /\ n \in Nat /\ DOMAIN q = 1 .. n /\ q \in Seq(Range(q))
      /\ \A k \in 1 .. n : q[k] \in Range(q)
      /\ \A a \in Range(q) : \E k \in 1 .. n : q[k] = a
      /\ \A k, l \in 1 .. n : q[k] = q[l] => k = l
  BY RowFacts
<1>2. q \in Seq(T) /\ e \in T
  BY <1>1
<1>3. r \in Seq(T) /\ Len(r) = n + 1 /\ \A k \in 1 .. n + 1 : r[k] = IF k < i THEN q[k] ELSE IF k = i THEN e ELSE q[k - 1]
  <2>. DEFINE p == SubSeq(q, 1, i - 1)
              s == SubSeq(q, i, n)
  <2>0. i \in Nat /\ 1 <= i /\ i <= n + 1
    BY <1>1
  <2>1. p \in Seq(T) /\ Len(p) = i - 1 /\ \A k \in 1 .. i - 1 : p[k] = q[k]
    BY <1>1, <1>2, <2>0
  <2>2. s \in Seq(T) /\ Len(s) = n + 1 - i /\ \A k \in 1 .. n + 1 - i : s[k] = q[i - 1 + k]
    BY <1>1, <1>2, <2>0
  <2>3. r = p \o <<e>> \o s
    BY DEF InsertAt
  <2>. HIDE DEF p, s, r, n, T
  <2>4. /\ p \o <<e>> \in Seq(T) /\ Len(p \o <<e>>) = i
        /\ \A k \in 1 .. i : (p \o <<e>>)[k] = IF k < i THEN q[k] ELSE e
    BY <1>2, <2>0, <2>1
  <2>5. r \in Seq(T) /\ Len(r) = n + 1
    BY <1>1, <2>0, <2>2, <2>3, <2>4
  <2>6. \A k \in 1 .. i : r[k] = (p \o <<e>>)[k]
    BY <2>0, <2>2, <2>3, <2>4
  <2>7. \A k \in i + 1 .. n + 1 : r[k] = q[k - 1]
    <3>1. \A k \in i + 1 .. n + 1 : r[k] = s[k - i]
      BY <1>1, <2>0, <2>2, <2>3, <2>4
    <3>2. \A k \in i + 1 .. n + 1 : k - i \in 1 .. n + 1 - i /\ i - 1 + (k - i) = k - 1
      BY <1>1, <2>0
    <3>. QED  BY <2>2, <3>1, <3>2
  <2>8. \A k \in 1 .. n + 1 : (k \in 1 .. i \/ k \in i + 1 .. n + 1) /\ (k \in 1 .. i => k < i \/ k = i)
                               /\ (k \in i + 1 .. n + 1 => ~(k < i) /\ k # i)
    BY <1>1, <2>0
  <2>. QED  BY <2>4, <2>5, <2>6, <2>7, <2>8
<1>4. DOMAIN r = 1 .. n + 1
  BY <1>1, <1>3
<1>0. n \in Nat /\ i \in 1 .. n + 1
  BY <1>1
<1>. HIDE DEF n, r, T
<1>5. /\ \A k \in 1 .. n : k \in 1 .. n + 1 /\ k + 1 \in 1 .. n + 1 /\ ~(k < i /\ i < k + 1) /\ (k + 1) - 1 = k
                           /\ (~(k < i) => i < k + 1)
      /\ \A k \in 1 .. n + 1 : /\ k < i => k \in 1 .. n
                               /\ i < k => k - 1 \in 1 .. n /\ ~(k - 1 < i) /\ (k - 1) + 1 = k
                               /\ ~(k < i) /\ k # i => i < k
  BY ONLY <1>0
<1>6. \A k \in 1 .. n : IF k < i THEN r[k] = q[k] ELSE r[k + 1] = q[k]
  <2>1. \A k \in 1 .. n : k < i => r[k] = q[k]
    BY <1>3, <1>5
  <2>2. \A k \in 1 .. n : ~(k < i) => r[k + 1] = q[(k + 1) - 1]
    <3>1. \A k \in 1 .. n : ~(k < i) => ~(k + 1 < i) /\ k + 1 # i
      BY <1>0
    <3>. QED  BY <1>3, <1>5, <3>1
  <2>. QED  BY <1>5, <2>1, <2>2
<1>7. r[i] = e
  BY <1>0, <1>3
<1>8. \A k \in 1 .. n + 1 : (k = i /\ r[k] = e) \/ (k < i /\ k \in 1 .. n /\ r[k] = q[k])
                             \/ (i < k /\ k - 1 \in 1 .. n /\ r[k] = q[k - 1])
  BY <1>0, <1>3, <1>5
<1>9. \A k \in 1 .. n : q[k] # e
  BY <1>1
<1>10. \A k, l \in 1 .. n + 1 : r[k] = r[l] => k = l
  <2>. SUFFICES ASSUME NEW k \in 1 .. n + 1, NEW l \in 1 .. n + 1, r[k] = r[l]  PROVE k = l
    OBVIOUS
  <2>1. CASE k = i \/ l = i
    BY <1>8, <1>9, <2>1
  <2>2. CASE k < i /\ l < i
    BY <1>1, <1>8, <2>2
  <2>3. CASE i < k /\ i < l
    <3>1. k - 1 = l - 1
      BY <1>1, <1>8, <2>3
    <3>. QED  BY <3>1
  <2>4. CASE k < i /\ i < l
    <3>1. k \in 1 .. n /\ l - 1 \in 1 .. n /\ q[k] = q[l - 1]
      BY <1>8, <2>4
    <3>2. k = l - 1 /\ ~(l - 1 < i)
      BY <1>1, <1>5, <2>4, <3>1
    <3>. QED  BY <2>4, <3>2
  <2>5. CASE l < i /\ i < k
    <3>1. l \in 1 .. n /\ k - 1 \in 1 .. n /\ q[l] = q[k - 1]
      BY <1>8, <2>5
    <3>2. l = k - 1 /\ ~(k - 1 < i)
      BY <1>1, <1>5, <2>5, <3>1
    <3>. QED  BY <2>5, <3>2
  <2>. QED  BY <1>0, <1>5, <2>1, <2>2, <2>3, <2>4, <2>5
<1>11. IsRow(r)
  BY <1>3, <1>10, RowIf
<1>12. Range(r) = T
  <2>1. \A k \in 1 .. n + 1 : r[k] \in T
    BY <1>1, <1>8 DEF T
  <2>2. \A a \in T : \E k \in 1 .. n + 1 : r[k] = a
    BY <1>0, <1>1, <1>5, <1>6, <1>7 DEF T
  <2>. QED  BY <1>4, <2>1, <2>2 DEF Range
<1>13. ASSUME NEW a, NEW b, a # e, b # e  PROVE Before(r, a, b) <=> Before(q, a, b)
  <2>1. ASSUME Before(r, a, b)  PROVE Before(q, a, b)
    <3>1. PICK k, l \in 1 .. n + 1 : k < l /\ r[k] = a /\ r[l] = b
      BY <1>4, <2>1 DEF Before
    <3>. DEFINE u == IF k < i THEN k ELSE k - 1
                v == IF l < i THEN l ELSE l - 1
    <3>2. u \in 1 .. n /\ q[u] = a /\ v \in 1 .. n /\ q[v] = b
      BY <1>8, <1>13, <3>1
    <3>3. k # i /\ l # i
      BY <1>7, <1>13, <3>1
    <3>4. u < v
      BY <1>0, <3>1, <3>3
    <3>. QED  BY <1>1, <3>2, <3>4 DEF Before
  <2>2. ASSUME Before(q, a, b)  PROVE Before(r, a, b)
    <3>1. PICK k, l \in 1 .. n : k < l /\ q[k] = a /\ q[l] = b
      BY <1>1, <2>2 DEF Before
    <3>. DEFINE u == IF k < i THEN k ELSE k + 1
                v == IF l < i THEN l ELSE l + 1
    <3>2. u \in 1 .. n + 1 /\ r[u] = a /\ v \in 1 .. n + 1 /\ r[v] = b
      BY <1>5, <1>6, <3>1
    <3>3. u < v
      BY <1>0, <3>1
    <3>. QED  BY <1>4, <3>2, <3>3 DEF Before
  <2>. QED  BY <2>1, <2>2
<1>14. ASSUME NEW k \in 1 .. n  PROVE Before(r, e, q[k]) <=> i <= k
  <2>1. ASSUME Before(r, e, q[k])  PROVE i <= k
    <3>1. PICK u, v \in 1 .. n + 1 : u < v /\ r[u] = e /\ r[v] = q[k]
      BY <1>4, <2>1 DEF Before
    <3>2. u = i
      BY <1>0, <1>7, <1>10, <3>1
    <3>3. i < v /\ v - 1 \in 1 .. n /\ q[v - 1] = q[k]
      BY <1>0, <1>8, <3>1, <3>2
    <3>4. v - 1 = k
      BY <1>1, <3>3
    <3>. QED  BY <1>0, <3>3, <3>4
  <2>2. ASSUME i <= k  PROVE Before(r, e, q[k])
    <3>1. ~(k < i) /\ k + 1 \in 1 .. n + 1 /\ i < k + 1
      BY <1>0, <2>2
    <3>2. r[k + 1] = q[k]
      BY <1>6, <3>1
    <3>. QED  BY <1>0, <1>4, <1>7, <3>1, <3>2 DEF Before
  <2>. QED  BY <2>1, <2>2
<1>. QED  BY <1>3, <1>6, <1>7, <1>11, <1>12, <1>13, <1>14 DEF IsInserted, n, r, T

\* What is left when the element at the place i is taken out.
LEMMA WithoutOne ==
  ASSUME NEW q, IsRow(q), NEW i \in 1 .. Len(q), NEW r, r = Without(q, {q[i]})
  PROVE  Len(r) = Len(q) - 1 /\ \A k \in 1 .. Len(q) : (k < i => r[k] = q[k]) /\ (i < k => r[k - 1] = q[k])
<1>. DEFINE n == Len(q)
            p == [k \in 1 .. n - 1 |-> IF k < i THEN q[k] ELSE q[k + 1]]
            T == Range(q) \ {q[i]}
<1>1. /\ n \in Nat /\ DOMAIN q = 1 .. n /\ q \in Seq(Range(q))
      /\ \A k \in 1 .. n : q[k] \in Range(q)
      /\ \A a \in Range(q) : \E k \in 1 .. n : q[k] = a
      /\ \A k, l \in 1 .. n : q[k] = q[l] => k = l
  BY RowFacts
<1>2. n \in Nat /\ i \in 1 .. n /\ n - 1 \in Nat
  BY <1>1
<1>3. /\ \A k \in 1 .. n - 1 : k \in 1 .. n /\ k + 1 \in 1 .. n /\ (k < i => k # i) /\ (~(k < i) => k + 1 # i)
      /\ \A k \in 1 .. n : (k < i => k \in 1 .. n - 1) /\ (i < k => k - 1 \in 1 .. n - 1 /\ ~(k - 1 < i) /\ (k - 1) + 1 = k)
                           /\ (k < i \/ i < k \/ k = i)
  BY ONLY <1>2
<1>4. \A k \in 1 .. n - 1 : p[k] \in T
  BY <1>1, <1>3
<1>5. p \in Seq(T) /\ Len(p) = n - 1 /\ DOMAIN p = 1 .. n - 1
  BY <1>2, <1>4
<1>6. \A k \in 1 .. n - 1 : p[k] = IF k < i THEN q[k] ELSE q[k + 1]
  OBVIOUS
<1>. HIDE DEF n, p
<1>7. \A k, l \in 1 .. n - 1 : p[k] = p[l] => k = l
  <2>. SUFFICES ASSUME NEW k \in 1 .. n - 1, NEW l \in 1 .. n - 1, p[k] = p[l]  PROVE k = l
    OBVIOUS
  <2>1. CASE k < i /\ l < i
    BY <1>1, <1>3, <1>6, <2>1
  <2>2. CASE ~(k < i) /\ ~(l < i)
    <3>1. k + 1 = l + 1
      BY <1>1, <1>3, <1>6, <2>2
    <3>. QED  BY <3>1
  <2>3. CASE k < i /\ ~(l < i)
    <3>1. k = l + 1
      BY <1>1, <1>3, <1>6, <2>3
    <3>. QED  BY <1>2, <2>3, <3>1
  <2>4. CASE l < i /\ ~(k < i)
    <3>1. l = k + 1
      BY <1>1, <1>3, <1>6, <2>4
    <3>. QED  BY <1>2, <2>4, <3>1
  <2>. QED  BY <2>1, <2>2, <2>3, <2>4
<1>8. IsRow(p)
  BY <1>5, <1>7, RowIf
<1>9. \A k \in 1 .. n : (k < i => p[k] = q[k]) /\ (i < k => p[k - 1] = q[k])
  BY <1>3, <1>6
<1>10. Range(p) = T
  <2>1. \A a \in T : \E k \in 1 .. n - 1 : p[k] = a
    BY <1>1, <1>3, <1>9
  <2>. QED  BY <1>4, <1>5, <2>1 DEF Range
<1>11. ASSUME NEW a, NEW b, Before(p, a, b)  PROVE Before(q, a, b)
  <2>1. PICK k, l \in 1 .. n - 1 : k < l /\ p[k] = a /\ p[l] = b
    BY <1>5, <1>11 DEF Before
  <2>. DEFINE u == IF k < i THEN k ELSE k + 1
              v == IF l < i THEN l ELSE l + 1
  <2>2. u \in 1 .. n /\ v \in 1 .. n /\ q[u] = a /\ q[v] = b
    BY <1>3, <1>6, <2>1
  <2>3. u < v
    BY <1>2, <2>1
  <2>. QED  BY <1>1, <2>2, <2>3 DEF Before
<1>12. /\ IsRow(r) /\ Range(r) = T
       /\ \A a, b : Before(r, a, b) <=> Before(q, a, b) /\ a # q[i] /\ b # q[i]
  BY WithoutRow
<1>13. p = r
  <2>1. \A a, b \in Range(p) : Before(p, a, b) => Before(r, a, b)
    BY <1>10, <1>11, <1>12
  <2>. HIDE DEF T
  <2>. QED  BY <1>8, <1>10, <1>12, <2>1, SameRow
<1>. QED  BY <1>5, <1>9, <1>13 DEF n

\* r is q with s put before or after t.
IsPlaced(r, q, s, t, after) ==
  /\ IsRow(r) /\ Range(r) = Range(q)
  /\ \A a, b : a # s /\ b # s => (Before(r, a, b) <=> Before(q, a, b))
  /\ \A b \in Range(q) \ {s} : Before(r, s, b) <=> Before(q, t, b) \/ (b = t /\ ~after)

LEMMA PlacedIs ==
  ASSUME NEW q, IsRow(q), NEW s \in Range(q), NEW t \in Range(q), s # t, NEW after \in BOOLEAN
  PROVE  IsPlaced(Placed(q, s, t, after), q, s, t, after)
<1>1. PICK p : p = Without(q, {s})
  OBVIOUS
<1>2. /\ IsRow(p) /\ Range(p) = Range(q) \ {s}
      /\ \A a, b : Before(p, a, b) <=> Before(q, a, b) /\ a # s /\ b # s
  BY <1>1, WithoutRow
<1>3. /\ Len(p) \in Nat /\ DOMAIN p = 1 .. Len(p)
      /\ \A i \in 1 .. Len(p) : p[i] \in Range(p)
      /\ \A a \in Range(p) : \E i \in 1 .. Len(p) : p[i] = a
      /\ \A i, j \in 1 .. Len(p) : p[i] = p[j] => i = j
  BY <1>2, RowFacts
<1>4. PICK at : at = CHOOSE i \in DOMAIN p : p[i] = t
  OBVIOUS
<1>5. at \in 1 .. Len(p) /\ p[at] = t
  BY <1>2, <1>3, <1>4
<1>6. PICK j : j = IF after THEN at + 1 ELSE at
  OBVIOUS
<1>7. j \in 1 .. Len(p) + 1
  BY <1>3, <1>5, <1>6
<1>8. PICK r : r = InsertAt(p, j, s)
  OBVIOUS
<1>9. Placed(q, s, t, after) = r
  BY <1>1, <1>4, <1>6, <1>8 DEF Placed
<1>10. IsInserted(r, p, j, s)
  BY <1>2, <1>7, <1>8, Inserted
<1>11. ASSUME NEW b \in Range(q) \ {s}
       PROVE  Before(r, s, b) <=> Before(q, t, b) \/ (b = t /\ ~after)
  <2>1. PICK k \in 1 .. Len(p) : p[k] = b
    BY <1>2, <1>3
  <2>2. Before(r, s, b) <=> j <= k
    BY <1>10, <2>1 DEF IsInserted
  <2>3. Before(p, t, b) <=> at < k
    BY <1>3, <1>5, <2>1 DEF Before
  <2>4. b = t <=> at = k
    BY <1>3, <1>5, <2>1
  <2>5. j <= k <=> at < k \/ (at = k /\ ~after)
    BY <1>3, <1>5, <1>6, <2>1
  <2>. QED  BY <1>2, <2>2, <2>3, <2>4, <2>5
<1>12. IsRow(r) /\ Range(r) = Range(q)
  BY <1>2, <1>10 DEF IsInserted
<1>13. ASSUME NEW a, NEW b, a # s, b # s  PROVE Before(r, a, b) <=> Before(q, a, b)
  BY <1>2, <1>10, <1>13 DEF IsInserted
<1>. QED  BY <1>9, <1>11, <1>12, <1>13 DEF IsPlaced

-----------------------------------------------------------------------------
(* Grid: the sections by their numbers.                                    *)

SortedBy(q, x, S) == \A a, b \in S : Before(q, a, b) <=> x[a] < x[b]
IsInOrder(q, x, S) == IsRow(q) /\ Range(q) = S /\ SortedBy(q, x, S)
Numbered(k, m) == \A s \in DOMAIN k.index : k.index[s] \in 1 .. m
NoTies(k, S) == \A a, b \in S : k.index[a] = k.index[b] => a = b

LEMMA HighestIs ==
  ASSUME NEW k, NEW m \in Nat, Numbered(k, m)
  PROVE  Highest(k) \in 0 .. m /\ \A s \in DOMAIN k.index : k.index[s] \in 1 .. Highest(k)
<1>. DEFINE T == {k.index[s] : s \in DOMAIN k.index}
            S == T \cup {0}
<1>1. T \in SUBSET (1 .. m)
  BY DEF Numbered
<1>2. \E x \in S : \A y \in S : x >= y
  <2>1. CASE T = {}
    BY <2>1
  <2>2. CASE T # {}
    <3>1. PICK x \in T : \A y \in T : y <= x
      <4>. HIDE DEF T
      <4>. QED  BY <1>1, <2>2, GreatestNatural
    <3>2. \A y \in T : y \in Nat
      BY <1>1
    <3>3. \A y \in S : x >= y
      <4>. HIDE DEF T
      <4>. QED  BY <3>1, <3>2
    <3>. QED  BY <3>3
  <2>. QED  BY <2>1, <2>2
<1>3. Highest(k) = Max(S)
  BY DEF Highest
<1>4. Max(S) \in S /\ \A y \in S : Max(S) >= y
  BY <1>2 DEF Max
<1>5. \A y \in S : y \in 0 .. m
  BY <1>1
<1>6. \A s \in DOMAIN k.index : k.index[s] \in S /\ k.index[s] \in 1 .. m
  BY DEF Numbered
<1>. HIDE DEF S
<1>7. PICK h : h = Highest(k)
  OBVIOUS
<1>8. h \in 0 .. m /\ \A y \in S : h >= y
  BY <1>3, <1>4, <1>5, <1>7
<1>9. ASSUME NEW s \in DOMAIN k.index  PROVE k.index[s] \in 1 .. h
  <2>1. PICK y : y = k.index[s]
    OBVIOUS
  <2>2. y \in 1 .. m /\ h >= y
    BY <1>6, <1>8, <2>1
  <2>3. y \in 1 .. h
    BY <1>8, <2>2
  <2>. QED  BY <2>1, <2>3
<1>. QED  BY <1>7, <1>8, <1>9

LEMMA SetToSeqIs ==
  ASSUME NEW S, IsFiniteSet(S)
  PROVE  /\ SetToSeq(S) \in Seq(S)
         /\ S = {} => SetToSeq(S) = <<>>
         /\ \A s : S = {s} => SetToSeq(S) = <<s>>
<1>. DEFINE c == Cardinality(S)
            f == SetToSeq(S)
<1>1. c \in Nat /\ \E g \in [1 .. c -> S] : IsInjective(g)
  BY FS_CardinalityType DEF ExistsBijection, Bijection, Injection
<1>2. f \in [1 .. c -> S]
  BY <1>1 DEF SetToSeq
<1>3. f \in Seq(S) /\ Len(f) = c
  BY <1>1, <1>2
<1>4. ASSUME S = {}  PROVE f = <<>>
  <2>1. c = 0
    BY <1>4, FS_EmptySet
  <2>. HIDE DEF c, f
  <2>. QED  BY <1>3, <2>1
<1>5. ASSUME NEW s, S = {s}  PROVE f = <<s>>
  <2>1. c = 1
    BY <1>5, FS_Singleton
  <2>. HIDE DEF c, f
  <2>2. f[1] = s
    BY <1>2, <1>5, <2>1
  <2>. QED  BY <1>3, <2>1, <2>2
<1>. QED  BY <1>3, <1>4, <1>5

\* The steps of ByIndex.
At(k, S, i) == SetToSeq({s \in S : k.index[s] = i})
Builds(w, k, S, n) == w[0] = <<>> /\ \A i \in 1 .. n : w[i] = w[i - 1] \o At(k, S, i)
HasBuild(k, S, n) == \E w \in [0 .. n -> Seq(S)] : Builds(w, k, S, n) /\ ByIndex(k, S) = w[n]

LEMMA ByIndexIs ==
  ASSUME NEW k, NEW S, IsFiniteSet(S), NEW n \in Nat, Highest(k) = n
  PROVE  HasBuild(k, S, n)
<1>. DEFINE X == Seq(S)
            Op(x, i) == x \o At(k, S, i)
            q == [i \in 1 .. n |-> i]
            G == [x \in X \X (1 .. n) |-> Op(x[1], x[2])]
            Eqn(it) == it = [s \in SUBSET DOMAIN q |->
                               IF s = {} THEN <<>> ELSE Op(it[s \ {Max(s)}], q[Max(s)])]
<1>0. <<>> \in X
  OBVIOUS
<1>1. \A i : At(k, S, i) \in X
  <2>. SUFFICES ASSUME NEW i  PROVE At(k, S, i) \in X
    OBVIOUS
  <2>. DEFINE U == {s \in S : k.index[s] = i}
  <2>1. U \in SUBSET S
    OBVIOUS
  <2>2. IsFiniteSet(U)
    <3>. HIDE DEF U
    <3>. QED  BY <2>1, FS_Subset
  <2>3. SetToSeq(U) \in Seq(U)
    <3>. HIDE DEF U
    <3>. QED  BY <2>2, SetToSeqIs
  <2>4. SetToSeq(U) \in Seq(S)
    <3>. HIDE DEF U
    <3>. QED  BY <2>1, <2>3
  <2>. QED  BY <2>4 DEF At
<1>2. \A x \in X, i \in 1 .. n : Op(x, i) \in X
  BY <1>1
<1>3. G \in [X \X (1 .. n) -> X] /\ \A x \in X, i \in 1 .. n : G[<<x, i>>] = Op(x, i)
  BY <1>2
<1>4. DOMAIN q = 1 .. n /\ \A i \in 1 .. n : q[i] = i
  OBVIOUS
<1>5. PICK it \in [SUBSET (1 .. n) -> X] : FoldEqn(it, <<>>, G, n)
  <2>. HIDE DEF X, G
  <2>. QED  BY <1>0, <1>3, FoldExists
<1>. HIDE DEF G, q
<1>6. Eqn(it)
  <2>1. ASSUME NEW s \in SUBSET (1 .. n), s # {}
        PROVE  it[s] = Op(it[s \ {Max(s)}], q[Max(s)])
    <3>1. Max(s) \in 1 .. n /\ s \ {Max(s)} \in SUBSET (1 .. n)
      BY <2>1, MaxIs
    <3>2. q[Max(s)] = Max(s)
      BY <1>4, <3>1
    <3>3. it[s] = Op(it[s \ {Max(s)}], Max(s))
      <4>. HIDE DEF X, Op
      <4>. QED  BY <1>3, <1>5, <2>1, <3>1 DEF FoldEqn
    <3>. QED  BY <3>2, <3>3
  <2>2. it[{}] = <<>>
    BY <1>5 DEF FoldEqn
  <2>. QED  BY <1>4, <1>5, <2>1, <2>2
<1>. DEFINE c == CHOOSE f : Eqn(f)
<1>7. Eqn(c)
  BY <1>6
<1>8. ByIndex(k, S) = c[DOMAIN q]
  BY DEF ByIndex, At, q, FoldLeft, MapThenFoldSet
<1>. HIDE DEF c
<1>9. Folds(c, <<>>, G, n, X)
  <2>1. c[{}] = <<>> /\ \A s \in SUBSET (1 .. n) : s # {} => c[s] = Op(c[s \ {Max(s)}], q[Max(s)])
    BY <1>4, <1>7
  <2>2. \A s \in SUBSET (1 .. n) : s # {} => Max(s) \in 1 .. n
    BY MaxIs
  <2>3. \A s \in SUBSET (1 .. n) : s # {} => c[s] = Op(c[s \ {Max(s)}], Max(s))
    BY <1>4, <2>1, <2>2
  <2>. HIDE DEF Op
  <2>. QED  BY <1>3, <2>1, <2>2, <2>3 DEF Folds
<1>10. PICK w : Run(w, <<>>, G, n, X) /\ w[n] = c[1 .. n]
  <2>1. HasRun(c, <<>>, G, n, X)
    <3>. HIDE DEF X
    <3>. QED  BY <1>0, <1>3, <1>9, FoldRuns
  <2>. QED  BY <2>1 DEF HasRun
<1>11. \A i \in 1 .. n : i - 1 \in 0 .. n
  BY ONLY n \in Nat
<1>12. w \in [0 .. n -> X] /\ w[0] = <<>> /\ \A i \in 1 .. n : w[i] = G[<<w[i - 1], i>>]
  BY <1>10 DEF Run
<1>13. \A i \in 1 .. n : w[i] = Op(w[i - 1], i)
  <2>. HIDE DEF X, Op
  <2>. QED  BY <1>3, <1>11, <1>12
<1>14. Builds(w, k, S, n)
  <2>. HIDE DEF X
  <2>. QED  BY <1>12, <1>13 DEF Builds
<1>. QED  BY <1>4, <1>8, <1>10, <1>12, <1>14 DEF HasBuild

\* Whatever the numbers, a sequence; without ties, the sections in their order.
LEMMA ByIndexIsSeq ==
  ASSUME NEW k, NEW m \in Nat, Numbered(k, m), NEW S, IsFiniteSet(S)
  PROVE  ByIndex(k, S) \in Seq(S)
<1>1. PICK n \in Nat : n = Highest(k)
  BY HighestIs
<1>2. HasBuild(k, S, n)
  BY <1>1, ByIndexIs
<1>3. PICK w \in [0 .. n -> Seq(S)] : ByIndex(k, S) = w[n]
  BY <1>2 DEF HasBuild
<1>4. n \in 0 .. n
  BY <1>1
<1>. QED  BY <1>3, <1>4

LEMMA ByIndexSorts ==
  ASSUME NEW k, NEW m \in Nat, Numbered(k, m), NEW S, IsFiniteSet(S),
         S \subseteq DOMAIN k.index, NoTies(k, S)
  PROVE  IsInOrder(ByIndex(k, S), k.index, S)
<1>1. PICK n \in Nat : n = Highest(k) /\ \A s \in DOMAIN k.index : k.index[s] \in 1 .. n
  BY HighestIs
<1>2. HasBuild(k, S, n)
  BY <1>1, ByIndexIs
<1>3. PICK w \in [0 .. n -> Seq(S)] : Builds(w, k, S, n) /\ ByIndex(k, S) = w[n]
  BY <1>2 DEF HasBuild
<1>4. PICK x : x = k.index
  OBVIOUS
<1>5. \A s \in S : x[s] \in 1 .. n
  BY <1>1, <1>4
<1>. DEFINE Up(i) == {s \in S : x[s] <= i}
            Z == {i \in 0 .. n : IsInOrder(w[i], x, Up(i))}
<1>6. IsInOrder(w[0], x, Up(0))
  <2>1. Up(0) = {}
    <3>1. \A s \in S : x[s] \in Nat /\ ~(x[s] <= 0)
      BY <1>5
    <3>. QED  BY <3>1
  <2>2. w[0] = <<>>
    BY <1>3 DEF Builds
  <2>. HIDE DEF Up
  <2>. QED  BY <2>1, <2>2, EmptyRow DEF IsInOrder, SortedBy
<1>7. ASSUME NEW i \in 1 .. n, IsInOrder(w[i - 1], x, Up(i - 1))  PROVE IsInOrder(w[i], x, Up(i))
  <2>. DEFINE T == {s \in S : x[s] = i}
  <2>0. i \in Nat /\ i - 1 \in Nat /\ i - 1 \in 0 .. n
    BY <1>1
  <2>1. PICK p : p = w[i - 1]
    OBVIOUS
  <2>2. p \in Seq(S) /\ IsRow(p) /\ Range(p) = Up(i - 1) /\ SortedBy(p, x, Up(i - 1))
    BY <1>7, <2>0, <2>1 DEF IsInOrder
  <2>3. w[i] = p \o SetToSeq(T)
    BY <1>3, <1>4, <2>1 DEF Builds, At
  <2>4. Up(i) = Up(i - 1) \cup T
    <3>1. \A s \in S : x[s] <= i <=> x[s] <= i - 1 \/ x[s] = i
      BY <1>5, <2>0
    <3>. QED  BY <3>1
  <2>5. IsFiniteSet(T)
    <3>1. T \in SUBSET S
      OBVIOUS
    <3>. HIDE DEF T
    <3>. QED  BY <3>1, FS_Subset
  <2>6. \A a, b \in T : a = b
    BY <1>4 DEF NoTies
  <2>7. \A a \in Up(i - 1) : a \in S /\ x[a] \in Nat /\ x[a] <= i - 1
    BY <1>5
  <2>8. \A a \in T : a \in S /\ x[a] = i
    OBVIOUS
  <2>. HIDE DEF T, Up
  <2>9. CASE T = {}
    <3>1. SetToSeq(T) = <<>>
      BY <2>5, <2>9, SetToSeqIs
    <3>2. w[i] = p /\ Up(i) = Up(i - 1)
      BY <2>2, <2>3, <2>4, <2>9, <3>1
    <3>. QED  BY <2>2, <3>2 DEF IsInOrder
  <2>10. CASE T # {}
    <3>1. PICK e : e \in T
      BY <2>10
    <3>2. T = {e}
      BY <2>6, <3>1
    <3>3. SetToSeq(T) = <<e>>
      BY <2>5, <3>2, SetToSeqIs
    <3>4. w[i] = Append(p, e)
      BY <2>2, <2>3, <3>3
    <3>5. e \notin Range(p)
      BY <2>0, <2>2, <2>7, <2>8, <3>1
    <3>6. /\ IsRow(w[i]) /\ Range(w[i]) = Range(p) \cup {e}
          /\ \A a, b : Before(w[i], a, b) <=> Before(p, a, b) \/ (a \in Range(p) /\ b = e)
      BY <2>2, <3>4, <3>5, Appended
    <3>7. ASSUME NEW a \in Up(i), NEW b \in Up(i)  PROVE Before(w[i], a, b) <=> x[a] < x[b]
      <4>0. \A c, d : Before(p, c, d) => c \in Range(p) /\ d \in Range(p)
        BY <2>2, OneIsBefore
      <4>1. CASE a \in Up(i - 1) /\ b \in Up(i - 1)
        <5>1. b # e
          BY <2>2, <3>5, <4>1
        <5>. QED  BY <2>2, <3>6, <4>1, <5>1 DEF SortedBy
      <4>2. CASE a \in Up(i - 1) /\ b = e
        BY <2>0, <2>2, <2>7, <2>8, <3>1, <3>6, <4>2
      <4>3. CASE a = e
        <5>1. ~Before(w[i], a, b)
          BY <3>5, <3>6, <4>0, <4>3
        <5>2. x[a] = i /\ (b \in Up(i - 1) \/ b = e)
          BY <2>4, <2>8, <3>1, <3>2, <4>3
        <5>3. ~(x[a] < x[b])
          BY <2>0, <2>7, <2>8, <3>1, <5>2
        <5>. QED  BY <5>1, <5>3
      <4>. QED  BY <2>4, <3>2, <4>1, <4>2, <4>3
    <3>. QED  BY <2>2, <2>4, <3>2, <3>6, <3>7 DEF IsInOrder, SortedBy
  <2>. QED  BY <2>9, <2>10
<1>. HIDE DEF Up
<1>8. 0 \in Z /\ \A i \in 1 .. n : i - 1 \in Z => i \in Z
  <2>1. 0 \in 0 .. n /\ \A i \in 1 .. n : i \in 0 .. n
    BY <1>1
  <2>. QED  BY <1>6, <1>7, <2>1
<1>9. n \in Z
  <2>1. \A i \in 0 .. n : i \in Z
    <3>. HIDE DEF Z
    <3>. QED  BY ONLY <1>1, <1>8, Upward
  <2>. QED  BY <1>1, <2>1
<1>10. Up(n) = S
  <2>1. \A s \in S : x[s] <= n
    BY <1>5
  <2>. QED  BY <2>1 DEF Up
<1>. QED  BY <1>3, <1>4, <1>9, <1>10

\* What is in the browser once the sections are loaded.
LEMMA KeptOfIs ==
  ASSUME NEW q, IsRow(q)
  PROVE  LET k == KeptOf(q)
         IN  /\ DOMAIN k.index = Range(q) /\ Numbered(k, Len(q)) /\ NoTies(k, Range(q))
             /\ SortedBy(q, k.index, Range(q))
             /\ k.created = {} /\ k.deleted = {} /\ k.reorder = FALSE
<1>1. /\ Len(q) \in Nat /\ DOMAIN q = 1 .. Len(q)
      /\ \A i \in 1 .. Len(q) : q[i] \in Range(q)
      /\ \A a \in Range(q) : \E i \in 1 .. Len(q) : q[i] = a
      /\ \A i, j \in 1 .. Len(q) : q[i] = q[j] => i = j
  BY RowFacts
<1>2. PICK x : x = [s \in Range(q) |-> CHOOSE i \in DOMAIN q : q[i] = s]
  OBVIOUS
<1>3. DOMAIN x = Range(q) /\ \A s \in Range(q) : x[s] \in 1 .. Len(q) /\ q[x[s]] = s
  <2>1. ASSUME NEW s \in Range(q)  PROVE x[s] \in DOMAIN q /\ q[x[s]] = s
    <3>1. \E i \in DOMAIN q : q[i] = s
      BY <1>1
    <3>2. x[s] = CHOOSE i \in DOMAIN q : q[i] = s
      BY <1>2
    <3>. QED  BY <3>1, <3>2
  <2>. QED  BY <1>1, <1>2, <2>1
<1>4. SortedBy(q, x, Range(q))
  <2>. SUFFICES ASSUME NEW a \in Range(q), NEW b \in Range(q)  PROVE Before(q, a, b) <=> x[a] < x[b]
    BY DEF SortedBy
  <2>1. ASSUME NEW i \in 1 .. Len(q), NEW j \in 1 .. Len(q), q[i] = a, q[j] = b
        PROVE  i = x[a] /\ j = x[b]
    BY <1>1, <1>3, <2>1
  <2>. QED  BY <1>1, <1>3, <2>1 DEF Before
<1>5. \A a, b \in Range(q) : x[a] = x[b] => a = b
  BY <1>3
<1>. DEFINE k == KeptOf(q)
<1>6. k.index = x /\ k.created = {} /\ k.deleted = {} /\ k.reorder = FALSE
  BY <1>2 DEF KeptOf
<1>. HIDE DEF k
<1>7. DOMAIN k.index = Range(q) /\ Numbered(k, Len(q)) /\ NoTies(k, Range(q))
  BY <1>3, <1>5, <1>6 DEF Numbered, NoTies
<1>. QED  BY <1>4, <1>6, <1>7 DEF k

LEMMA RowIsFinite ==
  ASSUME NEW q, IsRow(q)
  PROVE  IsFiniteSet(Range(q))
<1>1. /\ Len(q) \in Nat /\ DOMAIN q = 1 .. Len(q) /\ q \in Seq(Range(q))
      /\ \A i \in 1 .. Len(q) : q[i] \in Range(q)
      /\ \A a \in Range(q) : \E i \in 1 .. Len(q) : q[i] = a
  BY RowFacts
<1>2. q \in Surjection(1 .. Len(q), Range(q))
  <2>1. q \in [1 .. Len(q) -> Range(q)]
    BY <1>1
  <2>. QED  BY <1>1, <2>1 DEF Surjection
<1>3. IsFiniteSet(1 .. Len(q))
  BY <1>1, FS_Interval
<1>. QED  BY <1>2, <1>3, FS_Surjection

\* The browser's cache.
LiveOf(k) == (DOMAIN k.index) \ k.deleted
LoadedOf(k) == (DOMAIN k.index) \ k.created
HasShape(k) ==
  k = [index |-> k.index, created |-> k.created, deleted |-> k.deleted, reorder |-> k.reorder]
KeptOK(k) ==
  /\ HasShape(k)
  /\ IsFiniteSet(DOMAIN k.index) /\ \E m \in Nat : Numbered(k, m)
  /\ k.created = (DOMAIN k.index) \cap TempIds
  /\ k.deleted \subseteq LoadedOf(k)
  /\ k.reorder \in BOOLEAN
  /\ NoTies(k, LiveOf(k))

LEMMA SectionsAreSorted ==
  ASSUME NEW k, KeptOK(k)
  PROVE  /\ IsInOrder(SectionsOf(k), k.index, LiveOf(k))
         /\ IsInOrder(CfgSections(k), k.index, LiveOf(k) \ Others)
         /\ ReorderList(k) \in Seq(DOMAIN k.index)
         /\ k.deleted = {} => IsInOrder(ReorderList(k), k.index, DOMAIN k.index)
<1>1. PICK m \in Nat : Numbered(k, m)
  BY DEF KeptOK
<1>2. IsFiniteSet(DOMAIN k.index) /\ NoTies(k, LiveOf(k))
  BY DEF KeptOK
<1>3. IsFiniteSet(LiveOf(k)) /\ LiveOf(k) \subseteq DOMAIN k.index
  <2>1. LiveOf(k) \in SUBSET DOMAIN k.index
    BY DEF LiveOf
  <2>. QED  BY <1>2, <2>1, FS_Subset
<1>4. IsInOrder(SectionsOf(k), k.index, LiveOf(k))
  BY <1>1, <1>2, <1>3, ByIndexSorts DEF SectionsOf, LiveOf
<1>5. IsInOrder(CfgSections(k), k.index, LiveOf(k) \ Others)
  <2>1. PICK q : q = SectionsOf(k)
    OBVIOUS
  <2>2. /\ IsRow(Without(q, Others)) /\ Range(Without(q, Others)) = Range(q) \ Others
        /\ \A a, b : Before(Without(q, Others), a, b) <=> Before(q, a, b) /\ a \notin Others /\ b \notin Others
    BY <1>4, <2>1, WithoutRow DEF IsInOrder
  <2>. QED  BY <1>4, <2>1, <2>2 DEF CfgSections, IsInOrder, SortedBy
<1>6. ReorderList(k) \in Seq(DOMAIN k.index)
  BY <1>1, <1>2, ByIndexIsSeq DEF ReorderList
<1>7. ASSUME k.deleted = {}  PROVE IsInOrder(ReorderList(k), k.index, DOMAIN k.index)
  <2>1. LiveOf(k) = DOMAIN k.index
    BY <1>7 DEF LiveOf
  <2>. QED  BY <1>1, <1>2, <2>1, ByIndexSorts DEF ReorderList
<1>. QED  BY <1>4, <1>5, <1>6, <1>7

LEMMA KeptOfIsOK ==
  ASSUME NEW q, IsRow(q), Range(q) \cap TempIds = {}
  PROVE  LET k == KeptOf(q)
         IN  /\ KeptOK(k) /\ DOMAIN k.index = Range(q) /\ LiveOf(k) = Range(q) /\ LoadedOf(k) = Range(q)
             /\ k.created = {} /\ k.deleted = {} /\ k.reorder = FALSE
             /\ SortedBy(q, k.index, Range(q))
<1>. DEFINE k == KeptOf(q)
<1>1. /\ DOMAIN k.index = Range(q) /\ Numbered(k, Len(q)) /\ NoTies(k, Range(q))
      /\ SortedBy(q, k.index, Range(q))
      /\ k.created = {} /\ k.deleted = {} /\ k.reorder = FALSE
  BY KeptOfIs
<1>2. HasShape(k)
  BY DEF HasShape, KeptOf
<1>3. Len(q) \in Nat
  BY RowFacts
<1>4. IsFiniteSet(Range(q))
  BY RowIsFinite
<1>. HIDE DEF k
<1>5. LiveOf(k) = Range(q) /\ LoadedOf(k) = Range(q)
  BY <1>1 DEF LiveOf, LoadedOf
<1>. QED  BY <1>1, <1>2, <1>3, <1>4, <1>5 DEF KeptOK, k

LEMMA RenumberedIs ==
  ASSUME NEW k, KeptOK(k), NEW p, IsRow(p), Range(p) = LiveOf(k)
  PROVE  LET r == Renumbered(k, p)
         IN  /\ KeptOK(r) /\ DOMAIN r.index = DOMAIN k.index
             /\ r.created = k.created /\ r.deleted = k.deleted /\ r.reorder = TRUE
             /\ SortedBy(p, r.index, LiveOf(k))
<1>. DEFINE r == Renumbered(k, p)
            f == KeptOf(p)
<1>1. /\ DOMAIN f.index = Range(p) /\ Numbered(f, Len(p)) /\ NoTies(f, Range(p))
      /\ SortedBy(p, f.index, Range(p))
  BY KeptOfIs
<1>2. /\ r.created = k.created /\ r.deleted = k.deleted /\ r.reorder = TRUE
      /\ r.index = [t \in DOMAIN k.index |-> IF t \in Range(p) THEN CHOOSE i \in DOMAIN p : p[i] = t ELSE k.index[t]]
      /\ HasShape(r)
  <2>1. PICK a, b, c, d : k = [index |-> a, created |-> b, deleted |-> c, reorder |-> d]
    BY DEF KeptOK, HasShape
  <2>2. PICK x : x = [t \in DOMAIN k.index |-> IF t \in Range(p) THEN CHOOSE i \in DOMAIN p : p[i] = t ELSE k.index[t]]
    OBVIOUS
  <2>3. r = [k EXCEPT !.index = x, !.reorder = TRUE]
    BY <2>2 DEF Renumbered
  <2>. HIDE DEF r
  <2>4. r = [index |-> x, created |-> b, deleted |-> c, reorder |-> TRUE]
    BY <2>1, <2>3
  <2>. QED  BY <2>1, <2>2, <2>4 DEF HasShape
<1>3. f.index = [t \in Range(p) |-> CHOOSE i \in DOMAIN p : p[i] = t]
  BY DEF KeptOf
<1>. HIDE DEF r, f
<1>4. /\ DOMAIN r.index = DOMAIN k.index
      /\ \A t \in DOMAIN k.index : r.index[t] = IF t \in Range(p) THEN f.index[t] ELSE k.index[t]
  BY <1>2, <1>3
<1>5. LiveOf(k) \subseteq DOMAIN k.index /\ LiveOf(r) = LiveOf(k) /\ LoadedOf(r) = LoadedOf(k)
  BY <1>2, <1>4 DEF LiveOf, LoadedOf
<1>6. SortedBy(p, r.index, LiveOf(k))
  BY <1>1, <1>4, <1>5 DEF SortedBy
<1>7. NoTies(r, LiveOf(r))
  BY <1>1, <1>4, <1>5 DEF NoTies
<1>8. \E m \in Nat : Numbered(r, m)
  <2>1. PICK m \in Nat : Numbered(k, m)
    BY DEF KeptOK
  <2>2. PICK n \in Nat : n = Len(p)
    BY RowFacts
  <2>3. ASSUME NEW t \in DOMAIN r.index  PROVE r.index[t] \in 1 .. m + n
    <3>1. PICK y : y = r.index[t]
      OBVIOUS
    <3>2. y \in 1 .. m \/ y \in 1 .. n
      BY <1>1, <1>4, <2>1, <2>2, <2>3, <3>1 DEF Numbered
    <3>3. y \in 1 .. m + n
      BY <3>2
    <3>. QED  BY <3>1, <3>3
  <2>4. m + n \in Nat
    OBVIOUS
  <2>5. Numbered(r, m + n)
    BY <2>3 DEF Numbered
  <2>. QED  BY <2>4, <2>5
<1>. QED  BY <1>2, <1>4, <1>5, <1>6, <1>7, <1>8 DEF KeptOK, r

\* What a move does to the cache.
HasMoved(r, k, s, t, after) ==
  \E p : /\ IsPlaced(p, SectionsOf(k), s, t, after)
         /\ SortedBy(p, r.index, LiveOf(k))

IsMoved(r, k, s, t, after) ==
  /\ KeptOK(r) /\ DOMAIN r.index = DOMAIN k.index
  /\ r.created = k.created /\ r.deleted = k.deleted /\ LiveOf(r) = LiveOf(k) /\ LoadedOf(r) = LoadedOf(k)
  /\ s \in LiveOf(k) /\ t \in LiveOf(k) => r.reorder = TRUE /\ HasMoved(r, k, s, t, after)
  /\ ~(s \in LiveOf(k) /\ t \in LiveOf(k)) => r = k

LEMMA MoveIs ==
  ASSUME NEW k, KeptOK(k), NEW s, NEW t, s # t, NEW after \in BOOLEAN, NEW r, r = Move(k, s, t, after)
  PROVE  IsMoved(r, k, s, t, after)
<1>1. PICK q : q = SectionsOf(k)
  OBVIOUS
<1>2. IsRow(q) /\ Range(q) = LiveOf(k)
  BY <1>1, SectionsAreSorted DEF IsInOrder
<1>3. CASE s \in LiveOf(k) /\ t \in LiveOf(k)
  <2>1. PICK p : p = Placed(q, s, t, after)
    OBVIOUS
  <2>2. IsPlaced(p, q, s, t, after)
    BY <1>2, <1>3, <2>1, PlacedIs
  <2>3. IsRow(p) /\ Range(p) = LiveOf(k)
    BY <1>2, <2>2 DEF IsPlaced
  <2>4. r = Renumbered(k, p)
    BY <1>1, <1>2, <1>3, <2>1 DEF Move
  <2>5. /\ KeptOK(r) /\ DOMAIN r.index = DOMAIN k.index
        /\ r.created = k.created /\ r.deleted = k.deleted /\ r.reorder = TRUE
        /\ SortedBy(p, r.index, LiveOf(k))
    BY <2>3, <2>4, RenumberedIs
  <2>6. HasMoved(r, k, s, t, after)
    BY <1>1, <2>2, <2>5 DEF HasMoved
  <2>7. LiveOf(r) = LiveOf(k) /\ LoadedOf(r) = LoadedOf(k)
    BY <2>5 DEF LiveOf, LoadedOf
  <2>. QED  BY <1>3, <2>5, <2>6, <2>7 DEF IsMoved
<1>4. CASE ~(s \in LiveOf(k) /\ t \in LiveOf(k))
  <2>1. r = k
    BY <1>1, <1>2, <1>4 DEF Move
  <2>. QED  BY <1>4, <2>1 DEF IsMoved
<1>. QED  BY <1>3, <1>4

IsAdded(r, k, s) ==
  /\ KeptOK(r) /\ DOMAIN r.index = DOMAIN k.index \cup {s}
  /\ r.created = k.created \cup {s} /\ r.deleted = k.deleted /\ r.reorder = k.reorder
  /\ LiveOf(r) = LiveOf(k) \cup {s} /\ LoadedOf(r) = LoadedOf(k)
  /\ \A t \in DOMAIN k.index : r.index[t] = k.index[t]

LEMMA AddIs ==
  ASSUME NEW k, KeptOK(k), NEW s \in TempIds, s \notin DOMAIN k.index, NEW r, r = AddSection(k, s)
  PROVE  IsAdded(r, k, s)
<1>1. PICK m \in Nat : Numbered(k, m)
  BY DEF KeptOK
<1>2. PICK h \in Nat : h = Highest(k) /\ \A t \in DOMAIN k.index : k.index[t] \in 1 .. h
  BY <1>1, HighestIs
<1>3. PICK a, b, c, d : k = [index |-> a, created |-> b, deleted |-> c, reorder |-> d]
  BY DEF KeptOK, HasShape
<1>4. PICK x : x = [t \in DOMAIN k.index \cup {s} |-> IF t = s THEN 1 + h ELSE k.index[t]]
  OBVIOUS
<1>5. r = [k EXCEPT !.index = x, !.created = k.created \cup {s}]
  BY <1>2, <1>4 DEF AddSection
<1>6. r = [index |-> x, created |-> b \cup {s}, deleted |-> c, reorder |-> d]
  BY <1>3, <1>5
<1>7. /\ r.created = k.created \cup {s} /\ r.deleted = k.deleted /\ r.reorder = k.reorder
      /\ r.index = x /\ HasShape(r)
  BY <1>3, <1>6 DEF HasShape
<1>8. /\ DOMAIN r.index = DOMAIN k.index \cup {s} /\ r.index[s] = 1 + h
      /\ \A t \in DOMAIN k.index : r.index[t] = k.index[t]
  BY <1>4, <1>7
<1>9. s \notin k.deleted /\ k.created = DOMAIN k.index \cap TempIds /\ k.deleted \subseteq LoadedOf(k)
  BY DEF KeptOK, LoadedOf
<1>10. LiveOf(r) = LiveOf(k) \cup {s} /\ LoadedOf(r) = LoadedOf(k) /\ s \notin LiveOf(k) /\ LiveOf(k) \subseteq DOMAIN k.index
  BY <1>7, <1>8, <1>9 DEF LiveOf, LoadedOf
<1>11. IsFiniteSet(DOMAIN r.index)
  BY <1>8, FS_AddElement DEF KeptOK
<1>12. ASSUME NEW t \in DOMAIN r.index  PROVE r.index[t] \in 1 .. 1 + h
  BY <1>2, <1>8
<1>13. 1 + h \in Nat /\ Numbered(r, 1 + h)
  BY <1>12 DEF Numbered
<1>14. NoTies(r, LiveOf(r))
  <2>1. NoTies(k, LiveOf(k))
    BY DEF KeptOK
  <2>2. \A t \in DOMAIN k.index : r.index[t] # 1 + h
    BY <1>2, <1>8
  <2>. QED  BY <1>8, <1>10, <2>1, <2>2 DEF NoTies
<1>15. r.created = DOMAIN r.index \cap TempIds /\ r.deleted \subseteq LoadedOf(r) /\ r.reorder \in BOOLEAN
  BY <1>7, <1>8, <1>9, <1>10 DEF KeptOK
<1>. QED  BY <1>7, <1>8, <1>10, <1>11, <1>13, <1>14, <1>15 DEF KeptOK, IsAdded

IsRemoved(r, k, s) ==
  /\ KeptOK(r) /\ r.reorder = k.reorder /\ LoadedOf(r) = LoadedOf(k) /\ LiveOf(r) = LiveOf(k) \ {s}
  /\ r.created = k.created \ {s} /\ (r.deleted = {} => s \notin LoadedOf(k))
  /\ s \notin LoadedOf(k) => r.deleted = k.deleted
  /\ \A t \in DOMAIN r.index : r.index[t] = k.index[t]

LEMMA RemoveIs ==
  ASSUME NEW k, KeptOK(k), NEW s, NEW r, r = RemoveSection(k, s)
  PROVE  IsRemoved(r, k, s)
<1>1. PICK m \in Nat : Numbered(k, m)
  BY DEF KeptOK
<1>2. PICK a, b, c, d : k = [index |-> a, created |-> b, deleted |-> c, reorder |-> d]
  BY DEF KeptOK, HasShape
<1>3. k.created = DOMAIN k.index \cap TempIds /\ k.deleted \subseteq LoadedOf(k) /\ k.reorder \in BOOLEAN
  BY DEF KeptOK
<1>4. NoTies(k, LiveOf(k)) /\ IsFiniteSet(DOMAIN k.index)
  BY DEF KeptOK
<1>5. CASE s \in k.created
  <2>1. PICK x : x = [t \in DOMAIN k.index \ {s} |-> k.index[t]]
    OBVIOUS
  <2>2. r = [k EXCEPT !.index = x, !.created = k.created \ {s}]
    BY <1>5, <2>1 DEF RemoveSection
  <2>3. r = [index |-> x, created |-> b \ {s}, deleted |-> c, reorder |-> d]
    BY <1>2, <2>2
  <2>4. /\ r.created = k.created \ {s} /\ r.deleted = k.deleted /\ r.reorder = k.reorder
        /\ r.index = x /\ HasShape(r)
    BY <1>2, <2>3 DEF HasShape
  <2>5. DOMAIN r.index = DOMAIN k.index \ {s} /\ \A t \in DOMAIN r.index : r.index[t] = k.index[t]
    BY <2>1, <2>4
  <2>6. IsFiniteSet(DOMAIN r.index)
    BY <1>4, <2>5, FS_RemoveElement
  <2>7. Numbered(r, m)
    BY <1>1, <2>5 DEF Numbered
  <2>8. LoadedOf(r) = LoadedOf(k) /\ LiveOf(r) = LiveOf(k) \ {s}
    BY <1>5, <2>4, <2>5 DEF LoadedOf, LiveOf
  <2>9. NoTies(r, LiveOf(r))
    <3>1. LiveOf(r) \subseteq DOMAIN r.index
      BY DEF LiveOf
    <3>. QED  BY <1>4, <2>5, <2>8, <3>1 DEF NoTies
  <2>10. KeptOK(r)
    BY <1>3, <2>4, <2>5, <2>6, <2>7, <2>8, <2>9 DEF KeptOK
  <2>. QED  BY <1>5, <2>4, <2>5, <2>8, <2>10 DEF IsRemoved, LoadedOf
<1>6. CASE s \notin k.created /\ s \in DOMAIN k.index
  <2>1. r = [k EXCEPT !.deleted = k.deleted \cup {s}]
    BY <1>6 DEF RemoveSection
  <2>2. r = [index |-> a, created |-> b, deleted |-> c \cup {s}, reorder |-> d]
    BY <1>2, <2>1
  <2>3. /\ r.created = k.created /\ r.deleted = k.deleted \cup {s} /\ r.reorder = k.reorder
        /\ r.index = k.index /\ HasShape(r)
    BY <1>2, <2>2 DEF HasShape
  <2>4. LoadedOf(r) = LoadedOf(k) /\ LiveOf(r) = LiveOf(k) \ {s} /\ s \in LoadedOf(k) /\ s \notin TempIds
    BY <1>3, <1>6, <2>3 DEF LoadedOf, LiveOf
  <2>5. NoTies(r, LiveOf(r)) /\ Numbered(r, m)
    BY <1>1, <1>4, <2>3, <2>4 DEF NoTies, Numbered
  <2>6. KeptOK(r)
    BY <1>3, <1>4, <2>3, <2>4, <2>5 DEF KeptOK
  <2>. QED  BY <1>6, <2>3, <2>4, <2>6 DEF IsRemoved
<1>7. CASE s \notin DOMAIN k.index
  <2>1. r = k /\ s \notin k.created
    BY <1>3, <1>7 DEF RemoveSection
  <2>2. s \notin LoadedOf(k) /\ LiveOf(r) = LiveOf(k) \ {s}
    BY <1>7, <2>1 DEF LiveOf, LoadedOf
  <2>. QED  BY <2>1, <2>2 DEF IsRemoved
<1>. QED  BY <1>3, <1>5, <1>6, <1>7

-----------------------------------------------------------------------------
(* Grid: what the server makes of a list of sections.                      *)

PutOne(all, list, i) ==
  IF list[i] \in Range(all)
  THEN InsertAt(Without(all, {list[i]}), Min({i + FirstPlace, Len(all)}), list[i]) ELSE all
Within(q, a, m) == \E j \in 1 .. Len(q) : q[j] = a /\ j <= m
RowsOf(S) == {q \in Seq(S) : IsRow(q) /\ Range(q) = S}

LEMMA MinIs ==
  ASSUME NEW a \in Nat, NEW b \in Nat
  PROVE  Min({a, b}) = IF a <= b THEN a ELSE b
<1>1. \E x \in {a, b} : \A y \in {a, b} : x <= y
  OBVIOUS
<1>2. Min({a, b}) \in {a, b} /\ \A y \in {a, b} : Min({a, b}) <= y
  BY <1>1 DEF Min
<1>. QED  BY <1>2

\* Putting one section to its place: the others keep their order, and none of
\* those before that place comes to stand later.
LEMMA PutOneIs ==
  ASSUME NEW q, IsRow(q), NEW list, NEW i \in Nat, i # 0, NEW r, r = PutOne(q, list, i), FirstPlace \in {0, 1}
  PROVE  /\ IsRow(r) /\ Range(r) = Range(q)
         /\ list[i] \notin Range(q) => r = q
         /\ \A a, b : a # list[i] /\ b # list[i] => (Before(r, a, b) <=> Before(q, a, b))
         /\ list[i] \in Range(q) => Within(r, list[i], i + FirstPlace)
         /\ \A a, m : a # list[i] /\ m \in Nat /\ m < i + FirstPlace /\ Within(q, a, m)
              => Within(r, a, m) /\ (list[i] \in Range(q) => Before(r, a, list[i]))
<1>1. CASE list[i] \notin Range(q)
  BY <1>1 DEF PutOne
<1>2. CASE list[i] \in Range(q)
  <2>1. PICK e : e = list[i]
    OBVIOUS
  <2>2. /\ Len(q) \in Nat /\ DOMAIN q = 1 .. Len(q)
        /\ \A j \in 1 .. Len(q) : q[j] \in Range(q)
        /\ \A a \in Range(q) : \E j \in 1 .. Len(q) : q[j] = a
        /\ \A j, l \in 1 .. Len(q) : q[j] = q[l] => j = l
    BY RowFacts
  <2>3. PICK x \in 1 .. Len(q) : q[x] = e
    BY <1>2, <2>1, <2>2
  <2>4. PICK p : p = Without(q, {e})
    OBVIOUS
  <2>5. /\ IsRow(p) /\ Range(p) = Range(q) \ {e}
        /\ \A a, b : Before(p, a, b) <=> Before(q, a, b) /\ a # e /\ b # e
    BY <2>4, WithoutRow
  <2>6. Len(p) = Len(q) - 1 /\ \A j \in 1 .. Len(q) : (j < x => p[j] = q[j]) /\ (x < j => p[j - 1] = q[j])
    BY <2>3, <2>4, WithoutOne
  <2>7. PICK n \in Nat : n = Len(q) /\ n # 0 /\ Len(p) + 1 = n
    <3>1. PICK n \in Nat : n = Len(q)
      BY <2>2
    <3>2. x \in 1 .. n /\ Len(p) = n - 1
      BY <2>3, <2>6, <3>1
    <3>3. n # 0 /\ (n - 1) + 1 = n
      BY <3>2
    <3>. QED  BY <3>1, <3>2, <3>3
  <2>8. PICK f \in Nat : f = i + FirstPlace /\ f # 0
    OBVIOUS
  <2>9. PICK z \in 1 .. n : z = Min({f, n}) /\ z = IF f <= n THEN f ELSE n
    BY <2>7, <2>8, MinIs
  <2>10. r = InsertAt(p, z, e)
    BY <1>2, <2>1, <2>4, <2>7, <2>8, <2>9 DEF PutOne
  <2>11. IsInserted(r, p, z, e)
    BY <2>5, <2>7, <2>9, <2>10, Inserted
  <2>12. IsRow(r) /\ Range(r) = Range(q)
    BY <2>1, <2>5, <2>11, <1>2 DEF IsInserted
  <2>13. \A a, b : a # e /\ b # e => (Before(r, a, b) <=> Before(q, a, b))
    BY <2>5, <2>11 DEF IsInserted
  <2>14. Len(r) = n /\ r[z] = e /\ DOMAIN r = 1 .. n /\ \A j \in 1 .. n - 1 : j < z => r[j] = p[j]
    <3>1. Len(r) = n /\ r[z] = e /\ \A j \in 1 .. n - 1 : j < z => r[j] = p[j]
      BY <2>7, <2>11 DEF IsInserted
    <3>. QED  BY <2>12, <3>1, RowFacts
  <2>15. Within(r, e, f)
    BY <2>9, <2>14 DEF Within
  <2>16. ASSUME NEW a, NEW m \in Nat, a # e, m < f, Within(q, a, m)
         PROVE  Within(r, a, m) /\ Before(r, a, e)
    <3>1. PICK j \in 1 .. n : q[j] = a /\ j <= m
      BY <2>7, <2>16 DEF Within
    <3>2. j # x
      BY <2>3, <2>16, <3>1
    <3>3. PICK l \in 1 .. n - 1 : p[l] = a /\ l <= m
      <4>1. CASE j < x
        BY <2>3, <2>6, <2>7, <3>1, <4>1
      <4>2. CASE x < j
        <5>1. j - 1 \in 1 .. n - 1 /\ j - 1 <= m
          BY <2>3, <2>7, <3>1, <4>2
        <5>. QED  BY <2>6, <2>7, <3>1, <4>2, <5>1
      <4>. QED  BY <2>3, <2>7, <3>1, <3>2, <4>1, <4>2
    <3>4. l < z /\ l \in 1 .. n
      BY <2>9, <2>16, <3>3
    <3>5. r[l] = a
      BY <2>14, <3>3, <3>4
    <3>. QED  BY <2>9, <2>14, <3>3, <3>4, <3>5 DEF Within, Before
  <2>. QED  BY <1>2, <2>1, <2>8, <2>12, <2>13, <2>15, <2>16
<1>. QED  BY <1>1, <1>2

\* The steps of CallOrder.
Puts(w, q, list, n) == w[0] = q /\ \A i \in 1 .. n : w[i] = PutOne(w[i - 1], list, i)
HasPuts(q, list, n) ==
  \E w \in [0 .. n -> RowsOf(Range(q))] : Puts(w, q, list, n) /\ CallOrder(q, list) = w[n]

LEMMA CallOrderIs ==
  ASSUME NEW q, IsRow(q), NEW T, NEW list, list \in Seq(T), NEW n \in Nat, n = Len(list), FirstPlace \in {0, 1}
  PROVE  HasPuts(q, list, n)
<1>. DEFINE X == RowsOf(Range(q))
            o == [i \in DOMAIN list |-> i]
            G == [x \in X \X (1 .. n) |-> PutOne(x[1], list, x[2])]
            Eqn(it) == it = [s \in SUBSET DOMAIN o |->
                               IF s = {} THEN q ELSE PutOne(it[s \ {Max(s)}], list, o[Max(s)])]
<1>0. q \in X
  BY DEF IsRow, RowsOf
<1>1. \A x \in X, i \in 1 .. n : PutOne(x, list, i) \in X
  <2>. SUFFICES ASSUME NEW x \in X, NEW i \in 1 .. n  PROVE PutOne(x, list, i) \in X
    OBVIOUS
  <2>1. IsRow(x) /\ Range(x) = Range(q) /\ i \in Nat /\ i # 0
    BY DEF RowsOf
  <2>2. PICK r : r = PutOne(x, list, i)
    OBVIOUS
  <2>3. IsRow(r) /\ Range(r) = Range(x)
    BY <2>1, <2>2, PutOneIs
  <2>. QED  BY <2>1, <2>2, <2>3 DEF RowsOf, IsRow
<1>3. G \in [X \X (1 .. n) -> X] /\ \A x \in X, i \in 1 .. n : G[<<x, i>>] = PutOne(x, list, i)
  BY <1>1
<1>4. DOMAIN o = 1 .. n /\ \A i \in 1 .. n : o[i] = i
  <2>1. DOMAIN list = 1 .. n
    OBVIOUS
  <2>. QED  BY <2>1
<1>. HIDE DEF X, G, o
<1>5. PICK it \in [SUBSET (1 .. n) -> X] : FoldEqn(it, q, G, n)
  BY <1>0, <1>3, FoldExists
<1>6. Eqn(it)
  <2>1. ASSUME NEW s \in SUBSET (1 .. n), s # {}
        PROVE  it[s] = PutOne(it[s \ {Max(s)}], list, o[Max(s)])
    <3>1. Max(s) \in 1 .. n /\ s \ {Max(s)} \in SUBSET (1 .. n)
      BY <2>1, MaxIs
    <3>2. o[Max(s)] = Max(s)
      BY <1>4, <3>1
    <3>3. it[s] = PutOne(it[s \ {Max(s)}], list, Max(s))
      BY <1>3, <1>5, <2>1, <3>1 DEF FoldEqn
    <3>. QED  BY <3>2, <3>3
  <2>2. it[{}] = q
    BY <1>5 DEF FoldEqn
  <2>. QED  BY <1>4, <1>5, <2>1, <2>2
<1>. DEFINE c == CHOOSE f : Eqn(f)
<1>7. Eqn(c)
  BY <1>6
<1>8. CallOrder(q, list) = c[DOMAIN o]
  BY DEF CallOrder, PutOne, o, FoldLeft, MapThenFoldSet
<1>. HIDE DEF c
<1>9. Folds(c, q, G, n, X)
  <2>1. c[{}] = q /\ \A s \in SUBSET (1 .. n) : s # {} => c[s] = PutOne(c[s \ {Max(s)}], list, o[Max(s)])
    BY <1>4, <1>7
  <2>2. \A s \in SUBSET (1 .. n) : s # {} => Max(s) \in 1 .. n
    BY MaxIs
  <2>3. \A s \in SUBSET (1 .. n) : s # {} => c[s] = PutOne(c[s \ {Max(s)}], list, Max(s))
    BY <1>4, <2>1, <2>2
  <2>. QED  BY <1>3, <2>1, <2>2, <2>3 DEF Folds
<1>10. PICK w : Run(w, q, G, n, X) /\ w[n] = c[1 .. n]
  <2>1. HasRun(c, q, G, n, X)
    BY <1>0, <1>3, <1>9, FoldRuns
  <2>. QED  BY <2>1 DEF HasRun
<1>11. \A i \in 1 .. n : i - 1 \in 0 .. n
  BY ONLY n \in Nat
<1>12. w \in [0 .. n -> X] /\ w[0] = q /\ \A i \in 1 .. n : w[i] = G[<<w[i - 1], i>>]
  BY <1>10 DEF Run
<1>13. \A i \in 1 .. n : w[i] = PutOne(w[i - 1], list, i)
  BY <1>3, <1>11, <1>12
<1>14. Puts(w, q, list, n)
  BY <1>12, <1>13 DEF Puts
<1>. QED  BY <1>4, <1>8, <1>10, <1>12, <1>14 DEF HasPuts, X

LEMMA CallOrderKeeps ==
  ASSUME NEW q, IsRow(q), NEW T, NEW list, list \in Seq(T), FirstPlace \in {0, 1}
  PROVE  IsRow(CallOrder(q, list)) /\ Range(CallOrder(q, list)) = Range(q)
<1>1. PICK n \in Nat : n = Len(list)
  OBVIOUS
<1>2. HasPuts(q, list, n)
  BY <1>1, CallOrderIs
<1>3. n \in 0 .. n
  OBVIOUS
<1>4. CallOrder(q, list) \in RowsOf(Range(q))
  BY <1>2, <1>3 DEF HasPuts
<1>. QED  BY <1>4 DEF RowsOf

\* The first i of the list are in its order, and none has come to stand after
\* its place.
InPlace(r, q, list, i) ==
  /\ \A j \in 1 .. i : list[j] \in Range(q) => Within(r, list[j], j + FirstPlace)
  /\ \A j, l \in 1 .. i : j < l /\ list[j] \in Range(q) /\ list[l] \in Range(q)
       => Before(r, list[j], list[l])

LEMMA CallOrderSorts ==
  ASSUME NEW q, IsRow(q), NEW list, IsRow(list), Range(q) \subseteq Range(list), FirstPlace \in {0, 1}
  PROVE  \A a, b \in Range(q) : Before(CallOrder(q, list), a, b) <=> Before(list, a, b)
<1>1. PICK n \in Nat : n = Len(list)
  BY RowFacts
<1>2. /\ DOMAIN list = 1 .. n /\ list \in Seq(Range(list))
      /\ \A a \in Range(list) : \E i \in 1 .. n : list[i] = a
      /\ \A i, j \in 1 .. n : list[i] = list[j] => i = j
  BY <1>1, RowFacts
<1>3. HasPuts(q, list, n)
  <2>1. PICK T : T = Range(list)
    OBVIOUS
  <2>2. list \in Seq(T)
    BY <1>2, <2>1
  <2>. QED  BY <1>1, <2>2, CallOrderIs
<1>4. PICK w \in [0 .. n -> RowsOf(Range(q))] : Puts(w, q, list, n) /\ CallOrder(q, list) = w[n]
  BY <1>3 DEF HasPuts
<1>5. \A i \in 0 .. n : IsRow(w[i]) /\ Range(w[i]) = Range(q)
  BY <1>4 DEF RowsOf
<1>. DEFINE Z == {i \in 0 .. n : InPlace(w[i], q, list, i)}
<1>6. InPlace(w[0], q, list, 0)
  <2>1. \A j : j \notin 1 .. 0
    OBVIOUS
  <2>. QED  BY <2>1 DEF InPlace
<1>7. ASSUME NEW i \in 1 .. n, InPlace(w[i - 1], q, list, i - 1)  PROVE InPlace(w[i], q, list, i)
  <2>0. /\ i \in Nat /\ i # 0 /\ i - 1 \in 0 .. n /\ i \in 0 .. n
        /\ \A j \in 1 .. i : j \in 1 .. n /\ (j = i \/ j \in 1 .. i - 1)
        /\ \A j \in 1 .. i - 1 : j \in 1 .. n /\ j # i
        /\ \A j, l \in 1 .. i : j < l => j \in 1 .. i - 1
    BY <1>1
  <2>1. PICK p, r : p = w[i - 1] /\ r = w[i]
    OBVIOUS
  <2>2. IsRow(p) /\ Range(p) = Range(q) /\ r = PutOne(p, list, i)
    BY <1>4, <1>5, <2>0, <2>1 DEF Puts
  <2>3. /\ list[i] \notin Range(p) => r = p
        /\ \A a, b : a # list[i] /\ b # list[i] => (Before(r, a, b) <=> Before(p, a, b))
        /\ list[i] \in Range(p) => Within(r, list[i], i + FirstPlace)
        /\ \A a, m : a # list[i] /\ m \in Nat /\ m < i + FirstPlace /\ Within(p, a, m)
              => Within(r, a, m) /\ (list[i] \in Range(p) => Before(r, a, list[i]))
    BY <2>0, <2>2, PutOneIs
  <2>4. \A j \in 1 .. i - 1 : list[j] # list[i]
    BY <1>2, <2>0
  <2>5. \A j \in 1 .. i - 1 : j + FirstPlace \in Nat /\ j + FirstPlace < i + FirstPlace
    BY <2>0
  <2>6. InPlace(p, q, list, i - 1)
    BY <1>7, <2>1
  <2>7. ASSUME NEW j \in 1 .. i - 1, list[j] \in Range(q)
        PROVE  Within(r, list[j], j + FirstPlace) /\ (list[i] \in Range(q) => Before(r, list[j], list[i]))
    <3>1. Within(p, list[j], j + FirstPlace)
      BY <2>6, <2>7 DEF InPlace
    <3>. QED  BY <2>2, <2>3, <2>4, <2>5, <3>1
  <2>8. ASSUME NEW j \in 1 .. i - 1, NEW l \in 1 .. i - 1, j < l, list[j] \in Range(q), list[l] \in Range(q)
        PROVE  Before(r, list[j], list[l])
    <3>1. Before(p, list[j], list[l])
      BY <2>6, <2>8 DEF InPlace
    <3>. QED  BY <2>3, <2>4, <3>1
  <2>9. InPlace(r, q, list, i)
    <3>1. ASSUME NEW j \in 1 .. i, list[j] \in Range(q)  PROVE Within(r, list[j], j + FirstPlace)
      BY <2>0, <2>2, <2>3, <2>7, <3>1
    <3>2. ASSUME NEW j \in 1 .. i, NEW l \in 1 .. i, j < l, list[j] \in Range(q), list[l] \in Range(q)
          PROVE  Before(r, list[j], list[l])
      <4>1. j \in 1 .. i - 1
        BY <2>0, <3>2
      <4>2. CASE l = i
        BY <2>7, <3>2, <4>1, <4>2
      <4>3. CASE l \in 1 .. i - 1
        BY <2>8, <3>2, <4>1, <4>3
      <4>. QED  BY <2>0, <4>2, <4>3
    <3>. QED  BY <3>1, <3>2 DEF InPlace
  <2>. QED  BY <2>1, <2>9
<1>8. 0 \in Z /\ \A i \in 1 .. n : i - 1 \in Z => i \in Z
  <2>1. 0 \in 0 .. n /\ \A i \in 1 .. n : i \in 0 .. n
    BY <1>1
  <2>. QED  BY <1>6, <1>7, <2>1
<1>9. n \in Z
  <2>1. \A i \in 0 .. n : i \in Z
    <3>. HIDE DEF Z
    <3>. QED  BY ONLY <1>1, <1>8, Upward
  <2>. QED  BY <1>1, <2>1
<1>10. PICK r : r = CallOrder(q, list) /\ IsRow(r) /\ Range(r) = Range(q) /\ InPlace(r, q, list, n)
  <2>1. n \in 0 .. n
    BY <1>1
  <2>. QED  BY <1>4, <1>5, <1>9, <2>1
<1>11. \A a, b \in Range(q) : Before(list, a, b) => Before(r, a, b)
  <2>. SUFFICES ASSUME NEW a \in Range(q), NEW b \in Range(q), Before(list, a, b)  PROVE Before(r, a, b)
    OBVIOUS
  <2>1. PICK i, j \in 1 .. n : i < j /\ list[i] = a /\ list[j] = b
    BY <1>2 DEF Before
  <2>. QED  BY <1>10, <2>1 DEF InPlace
<1>12. ASSUME NEW a \in Range(q), NEW b \in Range(q), Before(r, a, b)  PROVE Before(list, a, b)
  <2>1. a # b /\ ~Before(r, b, a)
    BY <1>10, <1>12, OneIsBefore
  <2>2. Before(list, a, b) \/ Before(list, b, a)
    BY <2>1, OneIsBefore
  <2>. QED  BY <1>11, <2>1, <2>2
<1>. QED  BY <1>10, <1>11, <1>12

-----------------------------------------------------------------------------
(* Grid: the invariant.                                                    *)

SavingOK(v) ==
  /\ v = [phase |-> v.phase, inDialog |-> v.inDialog, reload |-> v.reload, list |-> v.list]
  /\ v.phase \in {"none", "sent", "ordering"} /\ v.reload \in BOOLEAN /\ v.inDialog \in BOOLEAN
  /\ v.list \in Seq(Range(v.list))
Blemishes == [failed : BOOLEAN, foreign : BOOLEAN, strayed : BOOLEAN]

TableTyped ==
  /\ IsRow(order) /\ Range(order) \cap TempIds = {}
  /\ IsRow(rows) /\ Range(rows) \cap Others = {}
  /\ KeptOK(kept) /\ SavingOK(saving) /\ blemish \in Blemishes
  /\ added \in TempIds \cup {NoRow} /\ (dialog = NoRow => added = NoRow)

\* Nothing has failed, and no save is under way that will load everything
\* again.
Sound == ~blemish.failed /\ (saving.phase = "none" \/ ~saving.reload)
InOrder == SortedBy(rows, kept.index, Range(rows) \cap LiveOf(kept))

OrderIsKnown == ~blemish.foreign => Range(order) = LoadedOf(kept)
NothingIsHidden ==
  Sound => /\ kept.deleted = {}
           /\ Range(rows) \ TempIds = LoadedOf(kept) \ Others
           /\ kept.created \subseteq Range(rows) \cup {added}
OrderIsKept ==
  Sound /\ ~blemish.foreign /\ ~kept.reorder =>
    SortedBy(IF saving.phase = "ordering" THEN saving.list ELSE order, kept.index, Range(order))
ListIsWhole ==
  Sound /\ ~blemish.foreign /\ saving.phase = "ordering" =>
    IsRow(saving.list) /\ Range(order) \subseteq Range(saving.list)
RowsAreInOrder == ~blemish.strayed => InOrder

TableInv ==
  TableTyped /\ OrderIsKnown /\ NothingIsHidden /\ OrderIsKept /\ ListIsWhole /\ RowsAreInOrder


LEMMA CreatedAre ==
  ASSUME NEW k, KeptOK(k)
  PROVE  /\ k.created \subseteq TempIds /\ LoadedOf(k) \cap TempIds = {} /\ LoadedOf(k) = (DOMAIN k.index) \ TempIds
         /\ k.deleted = {} => LiveOf(k) = DOMAIN k.index /\ LiveOf(k) = LoadedOf(k) \cup k.created
BY DEF KeptOK, LoadedOf, LiveOf

LEMMA ListIsOK ==
  ASSUME NEW T, NEW q \in Seq(T)
  PROVE  q \in Seq(Range(q))
<1>1. DOMAIN q = 1 .. Len(q) /\ Len(q) \in Nat
  OBVIOUS
<1>2. \A i \in 1 .. Len(q) : q[i] \in Range(q)
  BY <1>1 DEF Range
<1>. QED  BY <1>1, <1>2

LEMMA CleanIs == Clean \in Blemishes /\ ~Clean.failed /\ ~Clean.foreign /\ ~Clean.strayed
BY DEF Clean, Blemishes

LEMMA IdleIs == SavingOK(Idle) /\ Idle.phase = "none"
<1>1. Idle.list = <<>> /\ Idle.phase = "none" /\ Idle.reload = FALSE /\ Idle.inDialog = FALSE
  BY DEF Idle
<1>2. <<>> \in Seq({})
  OBVIOUS
<1>3. <<>> \in Seq(Range(<<>>))
  BY <1>2, ListIsOK
<1>4. Idle = [phase |-> Idle.phase, inDialog |-> Idle.inDialog, reload |-> Idle.reload, list |-> Idle.list]
  BY DEF Idle
<1>. QED  BY <1>1, <1>3, <1>4 DEF SavingOK

\* What remains of two rows when they are cut to the same sections.
LEMMA SameOrder ==
  ASSUME NEW p, NEW q, IsRow(p), IsRow(q), NEW x, NEW S, NEW A, NEW B,
         Range(p) \ A = S, Range(q) \ B = S, SortedBy(p, x, S), SortedBy(q, x, S)
  PROVE  Without(p, A) = Without(q, B)
<1>1. PICK u : u = Without(p, A) /\ IsRow(u) /\ Range(u) = S
               /\ \A a, b : Before(u, a, b) <=> Before(p, a, b) /\ a \notin A /\ b \notin A
  BY WithoutRow
<1>2. PICK v : v = Without(q, B) /\ IsRow(v) /\ Range(v) = S
               /\ \A a, b : Before(v, a, b) <=> Before(q, a, b) /\ a \notin B /\ b \notin B
  BY WithoutRow
<1>3. \A a, b \in S : Before(u, a, b) => Before(v, a, b)
  BY <1>1, <1>2 DEF SortedBy
<1>4. u = v
  BY <1>1, <1>2, <1>3, SameRow
<1>. QED  BY <1>1, <1>2, <1>4

LEMMA TableIsRight == TableInv => TableIsTruthful /\ OrderIsStored
<1>. SUFFICES ASSUME TableInv  PROVE TableIsTruthful /\ OrderIsStored
  OBVIOUS
<1>1. PICK k, r, o : k = kept /\ r = rows /\ o = order
  OBVIOUS
<1>2. /\ IsRow(o) /\ IsRow(r) /\ Range(r) \cap Others = {} /\ KeptOK(k)
      /\ added \in TempIds \cup {NoRow} /\ (dialog = NoRow => added = NoRow) /\ blemish \in Blemishes
  BY <1>1 DEF TableInv, TableTyped
<1>3. PICK c, s : c = CfgSections(k) /\ s = SectionsOf(k)
  OBVIOUS
<1>4. IsRow(c) /\ Range(c) = LiveOf(k) \ Others /\ SortedBy(c, k.index, LiveOf(k) \ Others) /\ Range(s) = LiveOf(k)
  BY <1>2, <1>3, SectionsAreSorted DEF IsInOrder
<1>5. ASSUME ~blemish.strayed
      PROVE  LET both == Range(r) \cap Range(s)
             IN  Without(c, Range(c) \ both) = Without(r, Range(r) \ both)
  <2>1. PICK both : both = Range(r) \cap Range(s)
    OBVIOUS
  <2>2. Range(c) \ (Range(c) \ both) = both /\ Range(r) \ (Range(r) \ both) = both
    BY <1>2, <1>4, <2>1
  <2>3. SortedBy(r, k.index, both)
    BY <1>1, <1>4, <1>5, <2>1 DEF TableInv, RowsAreInOrder, InOrder
  <2>4. SortedBy(c, k.index, both)
    BY <1>2, <1>4, <2>1 DEF SortedBy
  <2>5. Without(c, Range(c) \ both) = Without(r, Range(r) \ both)
    BY <1>2, <1>4, <2>2, <2>3, <2>4, SameOrder
  <2>. QED  BY <2>1, <2>5
<1>6. ASSUME ~blemish.failed, dialog = NoRow, saving.phase = "none"  PROVE Range(c) \subseteq Range(r)
  <2>1. Sound /\ added = NoRow
    BY <1>2, <1>6 DEF Sound
  <2>2. k.deleted = {} /\ Range(r) \ TempIds = LoadedOf(k) \ Others /\ k.created \subseteq Range(r) \cup {NoRow}
    BY <1>1, <2>1 DEF TableInv, NothingIsHidden
  <2>3. k.created \subseteq TempIds /\ LiveOf(k) = LoadedOf(k) \cup k.created
    BY <1>2, <2>2, CreatedAre
  <2>4. NoRow \notin TempIds
    BY GridOK DEF GridAssumption
  <2>. QED  BY <1>4, <2>2, <2>3, <2>4
<1>7. TableIsTruthful
  BY <1>1, <1>3, <1>5, <1>6 DEF TableIsTruthful
<1>8. ASSUME saving.phase = "none", ~kept.reorder, blemish = Clean
      PROVE  Without(o, Others) = Without(r, TempIds)
  <2>1. Sound /\ ~blemish.foreign /\ ~blemish.strayed
    BY <1>8, CleanIs DEF Sound
  <2>2. k.deleted = {} /\ Range(r) \ TempIds = LoadedOf(k) \ Others /\ Range(o) = LoadedOf(k)
    BY <1>1, <2>1 DEF TableInv, NothingIsHidden, OrderIsKnown
  <2>3. SortedBy(o, k.index, LoadedOf(k))
    BY <1>1, <1>8, <2>1, <2>2 DEF TableInv, OrderIsKept
  <2>4. SortedBy(r, k.index, Range(r) \cap LiveOf(k))
    BY <1>1, <2>1 DEF TableInv, RowsAreInOrder, InOrder
  <2>5. LiveOf(k) = LoadedOf(k) \cup k.created
    BY <1>2, <2>2, CreatedAre
  <2>6. PICK S : S = LoadedOf(k) \ Others
    OBVIOUS
  <2>7. SortedBy(o, k.index, S) /\ SortedBy(r, k.index, S)
    BY <2>2, <2>3, <2>4, <2>5, <2>6 DEF SortedBy
  <2>8. Range(o) \ Others = S /\ Range(r) \ TempIds = S
    BY <2>2, <2>6
  <2>. QED  BY <1>2, <2>7, <2>8, SameOrder
<1>. QED  BY <1>1, <1>7, <1>8 DEF OrderIsStored

-----------------------------------------------------------------------------
(* Grid: the invariant is kept.                                            *)

LEMMA TableBegins == GridInit => TableInv
<1>. SUFFICES ASSUME GridInit  PROVE TableInv
  OBVIOUS
<1>1. PICK S : S = Range(Rows0) \cup Others
  OBVIOUS
<1>2. PICK o : o = order /\ o \in SetToSeqs(S) /\ Without(o, Others) = Rows0
  BY <1>1 DEF GridInit
<1>3. IsRow(Rows0) /\ IsFiniteSet(Others) /\ Range(Rows0) \cap Others = {} /\ TempIds \cap (S \cup {NoRow}) = {}
  BY <1>1, GridOK DEF GridAssumption, IsRow
<1>4. IsFiniteSet(S)
  <2>1. IsFiniteSet(Range(Rows0))
    BY <1>3, RowIsFinite
  <2>. QED  BY <1>1, <1>3, <2>1, FS_Union
<1>5. IsRow(o) /\ Range(o) = S
  <2>. DEFINE n == Cardinality(S)
  <2>1. n \in Nat
    BY <1>4, FS_CardinalityType
  <2>2. o \in [1 .. n -> S] /\ \A i, j \in 1 .. n : i # j => o[i] # o[j]
    BY <1>2 DEF SetToSeqs
  <2>. HIDE DEF n
  <2>3. o \in Seq(S) /\ Len(o) = n
    BY <2>1, <2>2
  <2>4. IsRow(o)
    BY <2>2, <2>3, RowIf
  <2>5. o \in Injection(1 .. n, S)
    BY <2>2 DEF Injection, IsInjective
  <2>6. IsFiniteSet(1 .. n) /\ Cardinality(1 .. n) = n
    BY <2>1, FS_Interval
  <2>7. o \in Surjection(1 .. n, S)
    BY <1>4, <2>5, <2>6, FS_Injection DEF n
  <2>8. Range(o) = S
    BY <2>2, <2>7 DEF Surjection, Range
  <2>. QED  BY <2>4, <2>8
<1>6. PICK k : k = KeptOf(o)
  OBVIOUS
<1>7. /\ KeptOK(k) /\ DOMAIN k.index = S /\ LiveOf(k) = S /\ LoadedOf(k) = S
      /\ k.created = {} /\ k.deleted = {} /\ k.reorder = FALSE
      /\ SortedBy(o, k.index, S)
  BY <1>3, <1>5, <1>6, KeptOfIsOK
<1>8. /\ kept = k /\ rows = Rows0 /\ dialog = NoRow /\ added = NoRow /\ saving = Idle /\ blemish = Clean
  BY <1>2, <1>6 DEF GridInit
<1>9. TableTyped
  BY <1>2, <1>3, <1>5, <1>7, <1>8, CleanIs, IdleIs DEF TableTyped
<1>10. SortedBy(Rows0, k.index, Range(Rows0) \cap S)
  <2>1. \A a, b : Before(Rows0, a, b) <=> Before(o, a, b) /\ a \notin Others /\ b \notin Others
    BY <1>2, <1>5, WithoutRow
  <2>. QED  BY <1>1, <1>3, <1>7, <2>1 DEF SortedBy
<1>11. NothingIsHidden
  <2>1. Range(Rows0) \ TempIds = S \ Others
    BY <1>1, <1>3
  <2>. QED  BY <1>7, <1>8, <2>1 DEF NothingIsHidden
<1>12. OrderIsKnown /\ OrderIsKept /\ ListIsWhole /\ RowsAreInOrder
  BY <1>2, <1>5, <1>7, <1>8, <1>10, IdleIs DEF OrderIsKnown, OrderIsKept, ListIsWhole, RowsAreInOrder, InOrder
<1>. QED  BY <1>9, <1>11, <1>12 DEF TableInv

\* A row and its section are moved alike.
LEMMA MovesAgree ==
  ASSUME NEW k, KeptOK(k), NEW q, IsRow(q), SortedBy(q, k.index, Range(q) \cap LiveOf(k)),
         NEW s \in Range(q) \cap LiveOf(k), NEW t \in Range(q) \cap LiveOf(k), s # t, NEW after \in BOOLEAN,
         NEW r, HasMoved(r, k, s, t, after), NEW u, IsPlaced(u, q, s, t, after)
  PROVE  SortedBy(u, r.index, Range(q) \cap LiveOf(k))
<1>1. PICK c : c = SectionsOf(k) /\ IsRow(c) /\ Range(c) = LiveOf(k) /\ SortedBy(c, k.index, LiveOf(k))
  BY SectionsAreSorted DEF IsInOrder
<1>2. PICK p : IsPlaced(p, c, s, t, after) /\ SortedBy(p, r.index, LiveOf(k))
  BY <1>1 DEF HasMoved
<1>3. PICK S : S = Range(q) \cap LiveOf(k)
  OBVIOUS
<1>4. \A a, b \in S : Before(q, a, b) <=> Before(c, a, b)
  BY <1>1, <1>3 DEF SortedBy
<1>5. \A a, b \in S : a # s /\ b # s => (Before(u, a, b) <=> Before(p, a, b))
  BY <1>2, <1>4 DEF IsPlaced
<1>6. \A b \in S : b # s => (Before(u, s, b) <=> Before(p, s, b))
  BY <1>1, <1>2, <1>3, <1>4 DEF IsPlaced
<1>7. IsRow(u) /\ Range(u) = Range(q) /\ IsRow(p) /\ Range(p) = LiveOf(k)
  BY <1>1, <1>2 DEF IsPlaced
<1>8. \A a \in S : a # s => (Before(u, a, s) <=> ~Before(u, s, a)) /\ (Before(p, a, s) <=> ~Before(p, s, a))
  BY <1>3, <1>7, OneIsBefore
<1>9. ~Before(u, s, s) /\ ~Before(p, s, s)
  BY <1>7, OneIsBefore
<1>10. \A a, b \in S : Before(u, a, b) <=> Before(p, a, b)
  <2>. SUFFICES ASSUME NEW a \in S, NEW b \in S  PROVE Before(u, a, b) <=> Before(p, a, b)
    OBVIOUS
  <2>1. CASE a # s /\ b # s
    BY <1>5, <2>1
  <2>2. CASE a = s /\ b # s
    BY <1>6, <2>2
  <2>3. CASE a # s /\ b = s
    BY <1>6, <1>8, <2>3
  <2>4. CASE a = s /\ b = s
    BY <1>9, <2>4
  <2>. QED  BY <2>1, <2>2, <2>3, <2>4
<1>11. \A a, b \in S : Before(u, a, b) <=> r.index[a] < r.index[b]
  BY <1>2, <1>3, <1>10 DEF SortedBy
<1>. QED  BY <1>3, <1>11 DEF SortedBy

LEMMA DragKeeps ==
  ASSUME TableInv, NEW s \in Range(rows), NEW t \in Range(rows), NEW after \in BOOLEAN, Drag(s, t, after)
  PROVE  TableInv'
<1>1. PICK k, q, r, u : k = kept /\ q = rows /\ r = kept' /\ u = rows'
  OBVIOUS
<1>2. /\ s # t /\ u = Placed(q, s, t, after) /\ r = Move(k, s, t, after) /\ s \in Range(q) /\ t \in Range(q)
      /\ order' = order /\ dialog' = dialog /\ added' = added /\ saving' = saving
  BY <1>1 DEF Drag
<1>3. KeptOK(k) /\ IsRow(q) /\ TableTyped
  BY <1>1 DEF TableInv, TableTyped
<1>4. IsPlaced(u, q, s, t, after)
  BY <1>2, <1>3, PlacedIs
<1>5. IsRow(u) /\ Range(u) = Range(q)
  BY <1>4 DEF IsPlaced
<1>6. /\ KeptOK(r) /\ DOMAIN r.index = DOMAIN k.index
      /\ r.created = k.created /\ r.deleted = k.deleted /\ LiveOf(r) = LiveOf(k) /\ LoadedOf(r) = LoadedOf(k)
      /\ s \in LiveOf(k) /\ t \in LiveOf(k) => r.reorder = TRUE /\ HasMoved(r, k, s, t, after)
      /\ ~(s \in LiveOf(k) /\ t \in LiveOf(k)) => r = k
  <2>1. IsMoved(r, k, s, t, after)
    BY <1>2, <1>3, MoveIs
  <2>. QED  BY <2>1 DEF IsMoved
<1>7. Range(SectionsOf(k)) = LiveOf(k)
  BY <1>3, SectionsAreSorted DEF IsInOrder
<1>8. /\ blemish' \in Blemishes /\ (blemish'.failed <=> blemish.failed) /\ (blemish'.foreign <=> blemish.foreign)
      /\ ~blemish'.strayed => ~blemish.strayed /\ s \in LiveOf(k) /\ t \in LiveOf(k)
  <2>1. blemish' = [blemish EXCEPT !.strayed = @ \/ ~({s, t} \subseteq LiveOf(k))] /\ blemish \in Blemishes
    BY <1>1, <1>3, <1>7 DEF Drag, TableTyped
  <2>. QED  BY <2>1 DEF Blemishes
<1>9. Sound' <=> Sound
  BY <1>2, <1>8 DEF Sound
<1>10. TableTyped'
  BY <1>1, <1>2, <1>3, <1>5, <1>6, <1>8 DEF TableTyped
<1>11. OrderIsKnown' /\ NothingIsHidden'
  BY <1>1, <1>2, <1>5, <1>6, <1>8, <1>9 DEF TableInv, OrderIsKnown, NothingIsHidden
<1>12. OrderIsKept' /\ ListIsWhole'
  BY <1>1, <1>2, <1>6, <1>8, <1>9 DEF TableInv, OrderIsKept, ListIsWhole
<1>13. RowsAreInOrder'
  <2>. SUFFICES ASSUME ~blemish'.strayed  PROVE SortedBy(u, r.index, Range(u) \cap LiveOf(r))
    BY <1>1 DEF RowsAreInOrder, InOrder
  <2>1. SortedBy(q, k.index, Range(q) \cap LiveOf(k))
    BY <1>1, <1>8 DEF TableInv, RowsAreInOrder, InOrder
  <2>2. s \in Range(q) \cap LiveOf(k) /\ t \in Range(q) \cap LiveOf(k) /\ HasMoved(r, k, s, t, after)
    BY <1>2, <1>6, <1>8
  <2>3. SortedBy(u, r.index, Range(q) \cap LiveOf(k))
    BY <1>2, <1>3, <1>4, <2>1, <2>2, MovesAgree
  <2>. QED  BY <1>5, <1>6, <2>3
<1>. QED  BY <1>10, <1>11, <1>12, <1>13 DEF TableInv

\* What the user does beside: the cache becomes r, the rows stay.
LEMMA RowsStayInOrder ==
  ASSUME NEW k, NEW r, NEW q, NEW S, NEW T, S \subseteq T, S \subseteq DOMAIN k.index, \A t \in S : r.index[t] = k.index[t],
         SortedBy(q, k.index, T)
  PROVE  SortedBy(q, r.index, S)
BY DEF SortedBy

\* A save that is refused, or sent.
LEMMA TableSaveIs ==
  ASSUME NEW k, NEW d \in BOOLEAN, k.reorder \in BOOLEAN, SavingOK(saving), blemish \in Blemishes, SaveTable(k, d)
  PROVE  /\ SavingOK(saving') /\ blemish' \in Blemishes /\ saving.phase = "none" /\ saving'.phase # "ordering"
         /\ (blemish'.foreign <=> blemish.foreign) /\ (blemish'.strayed <=> blemish.strayed)
         /\ Sound' => Sound /\ k.created = {} /\ k.deleted = {}
         /\ saving'.phase = "none" => blemish'.failed
<1>1. saving.phase = "none"
  BY DEF SaveTable
<1>2. CASE blemish' = [blemish EXCEPT !.failed = TRUE] /\ UNCHANGED saving
  <2>1. blemish' \in Blemishes /\ blemish'.failed /\ (blemish'.foreign <=> blemish.foreign)
        /\ (blemish'.strayed <=> blemish.strayed)
    BY <1>2 DEF Blemishes
  <2>. QED  BY <1>1, <1>2, <2>1 DEF Sound
<1>3. ASSUME NEW other \in BOOLEAN, UNCHANGED blemish,
             saving' = [phase |-> "sent", inDialog |-> d, list |-> <<>>,
                        reload |-> k.created # {} \/ k.deleted # {} \/ k.reorder \/ other]
      PROVE  /\ SavingOK(saving') /\ blemish' = blemish /\ saving'.phase = "sent"
             /\ Sound' => Sound /\ k.created = {} /\ k.deleted = {}
  <2>1. PICK w : w = (k.created # {} \/ k.deleted # {} \/ k.reorder \/ other)
    OBVIOUS
  <2>2. saving' = [phase |-> "sent", inDialog |-> d, list |-> <<>>, reload |-> w] /\ w \in BOOLEAN
    BY <1>3, <2>1
  <2>3. saving'.phase = "sent" /\ saving'.inDialog = d /\ saving'.list = <<>> /\ (saving'.reload <=> w)
    BY <2>2
  <2>4. <<>> \in Seq(Range(<<>>))
    <3>1. <<>> \in Seq({})
      OBVIOUS
    <3>. QED  BY <3>1, ListIsOK
  <2>5. saving' = [phase |-> saving'.phase, inDialog |-> saving'.inDialog, reload |-> saving'.reload, list |-> saving'.list]
    BY <2>2
  <2>6. SavingOK(saving')
    BY <2>2, <2>3, <2>4, <2>5 DEF SavingOK
  <2>. QED  BY <1>1, <1>3, <2>1, <2>3, <2>6 DEF Sound
<1>4. (blemish' = [blemish EXCEPT !.failed = TRUE] /\ UNCHANGED saving)
      \/ \E other \in BOOLEAN :
           /\ UNCHANGED blemish
           /\ saving' = [phase |-> "sent", inDialog |-> d, list |-> <<>>,
                         reload |-> k.created # {} \/ k.deleted # {} \/ k.reorder \/ other]
  BY DEF SaveTable
<1>5. CASE SavingOK(saving') /\ blemish' = blemish /\ saving'.phase = "sent"
           /\ (Sound' => Sound /\ k.created = {} /\ k.deleted = {})
  BY <1>1, <1>5
<1>. QED  BY <1>2, <1>3, <1>4, <1>5

LEMMA PressKeeps ==
  ASSUME TableInv, PressSave \/ SaveDialog
  PROVE  TableInv'
<1>1. /\ SavingOK(saving) /\ blemish \in Blemishes /\ KeptOK(kept) /\ TableTyped
      /\ added \in TempIds \cup {NoRow} /\ (dialog = NoRow => added = NoRow)
  BY DEF TableInv, TableTyped
<1>2. /\ order' = order /\ kept' = kept /\ rows' = rows /\ dialog' = dialog
      /\ \E d \in BOOLEAN : SaveTable(kept, d)
      /\ added' \in {added, NoRow} /\ (added' = added \/ saving'.phase = "none")
  BY DEF PressSave, SaveDialog
<1>3. PICK k : k = kept
  OBVIOUS
<1>4. PICK d \in BOOLEAN : SaveTable(k, d)
  BY <1>2, <1>3
<1>5. k.reorder \in BOOLEAN
  BY <1>1, <1>3 DEF KeptOK
<1>6. /\ SavingOK(saving') /\ blemish' \in Blemishes /\ saving.phase = "none" /\ saving'.phase # "ordering"
      /\ (blemish'.foreign <=> blemish.foreign) /\ (blemish'.strayed <=> blemish.strayed)
      /\ Sound' => Sound /\ k.created = {} /\ k.deleted = {}
      /\ saving'.phase = "none" => blemish'.failed
  BY <1>1, <1>4, <1>5, TableSaveIs
<1>7. TableTyped'
  BY <1>1, <1>2, <1>6 DEF TableTyped
<1>8. NothingIsHidden'
  BY <1>2, <1>3, <1>6 DEF TableInv, NothingIsHidden
<1>9. OrderIsKnown' /\ OrderIsKept' /\ ListIsWhole' /\ RowsAreInOrder'
  BY <1>2, <1>6 DEF TableInv, OrderIsKnown, OrderIsKept, ListIsWhole, RowsAreInOrder, InOrder
<1>. QED  BY <1>7, <1>8, <1>9 DEF TableInv

LEMMA AddRowKeeps ==
  ASSUME TableInv, NEW s \in TempIds, AddRow(s)
  PROVE  TableInv'
<1>1. PICK k, r, q : k = kept /\ r = kept' /\ q = rows
  OBVIOUS
<1>2. /\ r = AddSection(k, s) /\ s \notin DOMAIN k.index /\ s \notin Range(q) /\ SaveTable(r, FALSE)
      /\ order' = order /\ rows' = q /\ dialog' = dialog /\ added' = added
  BY <1>1 DEF AddRow, IsNew
<1>3. KeptOK(k) /\ SavingOK(saving) /\ blemish \in Blemishes /\ TableTyped
  BY <1>1 DEF TableInv, TableTyped
<1>4. IsAdded(r, k, s)
  BY <1>2, <1>3, AddIs
<1>5. r.reorder \in BOOLEAN /\ s \in r.created
  BY <1>4 DEF IsAdded, KeptOK
<1>6. /\ SavingOK(saving') /\ blemish' \in Blemishes
      /\ (blemish'.foreign <=> blemish.foreign) /\ (blemish'.strayed <=> blemish.strayed)
      /\ Sound' => r.created = {}
  BY <1>2, <1>3, <1>5, TableSaveIs
<1>7. ~Sound'
  BY <1>5, <1>6
<1>8. TableTyped'
  BY <1>1, <1>2, <1>3, <1>4, <1>6 DEF TableTyped, IsAdded
<1>9. OrderIsKnown'
  BY <1>1, <1>2, <1>4, <1>6 DEF TableInv, OrderIsKnown, IsAdded
<1>10. RowsAreInOrder'
  <2>. SUFFICES ASSUME ~blemish'.strayed  PROVE SortedBy(q, r.index, Range(q) \cap LiveOf(r))
    BY <1>1, <1>2 DEF RowsAreInOrder, InOrder
  <2>1. SortedBy(q, k.index, Range(q) \cap LiveOf(k))
    BY <1>1, <1>6 DEF TableInv, RowsAreInOrder, InOrder
  <2>2. Range(q) \cap LiveOf(r) = Range(q) \cap LiveOf(k) /\ LiveOf(k) \subseteq DOMAIN k.index
    BY <1>2, <1>4 DEF IsAdded, LiveOf
  <2>3. PICK S : S = Range(q) \cap LiveOf(k)
    OBVIOUS
  <2>4. S \subseteq S /\ S \subseteq DOMAIN k.index /\ \A t \in S : r.index[t] = k.index[t]
    BY <1>4, <2>2, <2>3 DEF IsAdded
  <2>5. SortedBy(q, r.index, S)
    BY <2>1, <2>3, <2>4, RowsStayInOrder
  <2>. QED  BY <2>2, <2>3, <2>5
<1>. QED  BY <1>7, <1>8, <1>9, <1>10 DEF TableInv, NothingIsHidden, OrderIsKept, ListIsWhole

LEMMA RemoveRowKeeps ==
  ASSUME TableInv, NEW s \in Range(rows), RemoveRow(s)
  PROVE  TableInv'
<1>1. PICK k, r, q, o : k = kept /\ r = kept' /\ q = rows /\ o = order
  OBVIOUS
<1>2. /\ r = RemoveSection(k, s) /\ SaveTable(r, FALSE) /\ s \in Range(q)
      /\ order' = o /\ rows' = q /\ dialog' = dialog /\ added' = added
  BY <1>1 DEF RemoveRow
<1>3. KeptOK(k) /\ SavingOK(saving) /\ blemish \in Blemishes /\ TableTyped
  BY <1>1 DEF TableInv, TableTyped
<1>4. IsRemoved(r, k, s)
  BY <1>2, <1>3, RemoveIs
<1>5. r.reorder \in BOOLEAN /\ KeptOK(r)
  BY <1>4 DEF IsRemoved, KeptOK
<1>6. /\ SavingOK(saving') /\ blemish' \in Blemishes /\ saving.phase = "none" /\ saving'.phase # "ordering"
      /\ (blemish'.foreign <=> blemish.foreign) /\ (blemish'.strayed <=> blemish.strayed)
      /\ Sound' => Sound /\ r.created = {} /\ r.deleted = {}
  BY <1>2, <1>3, <1>5, TableSaveIs
<1>7. TableTyped'
  BY <1>1, <1>2, <1>3, <1>5, <1>6 DEF TableTyped
<1>8. OrderIsKnown'
  BY <1>1, <1>2, <1>4, <1>6 DEF TableInv, OrderIsKnown, IsRemoved
<1>9. NothingIsHidden'
  BY <1>1, <1>2, <1>4, <1>6 DEF TableInv, NothingIsHidden, IsRemoved
<1>10. OrderIsKept'
  <2>. SUFFICES ASSUME Sound', ~blemish'.foreign, ~r.reorder  PROVE SortedBy(o, r.index, Range(o))
    BY <1>1, <1>2, <1>6 DEF OrderIsKept
  <2>1. SortedBy(o, k.index, Range(o)) /\ Range(o) = LoadedOf(k)
    BY <1>1, <1>4, <1>6 DEF TableInv, OrderIsKept, OrderIsKnown, IsRemoved
  <2>2. Range(o) \subseteq DOMAIN k.index /\ Range(o) \subseteq DOMAIN r.index
    BY <1>4, <2>1 DEF IsRemoved, LoadedOf
  <2>3. PICK S : S = Range(o)
    OBVIOUS
  <2>4. S \subseteq S /\ S \subseteq DOMAIN k.index /\ \A t \in S : r.index[t] = k.index[t]
    BY <1>4, <2>2, <2>3 DEF IsRemoved
  <2>5. SortedBy(o, r.index, S)
    BY <2>1, <2>3, <2>4, RowsStayInOrder
  <2>. QED  BY <2>3, <2>5
<1>11. ListIsWhole'
  BY <1>6 DEF ListIsWhole
<1>12. RowsAreInOrder'
  <2>. SUFFICES ASSUME ~blemish'.strayed  PROVE SortedBy(q, r.index, Range(q) \cap LiveOf(r))
    BY <1>1, <1>2 DEF RowsAreInOrder, InOrder
  <2>1. SortedBy(q, k.index, Range(q) \cap LiveOf(k))
    BY <1>1, <1>6 DEF TableInv, RowsAreInOrder, InOrder
  <2>2. PICK S, T : S = Range(q) \cap LiveOf(r) /\ T = Range(q) \cap LiveOf(k)
    OBVIOUS
  <2>3. S \subseteq T /\ S \subseteq DOMAIN k.index /\ S \subseteq DOMAIN r.index
    BY <1>4, <2>2 DEF IsRemoved, LiveOf
  <2>4. \A t \in S : r.index[t] = k.index[t]
    BY <1>4, <2>3 DEF IsRemoved
  <2>. QED  BY <2>1, <2>2, <2>3, <2>4, RowsStayInOrder
<1>. QED  BY <1>7, <1>8, <1>9, <1>10, <1>11, <1>12 DEF TableInv

LEMMA AddDialogKeeps ==
  ASSUME TableInv, NEW s \in TempIds, AddInDialog(s)
  PROVE  TableInv'
<1>1. PICK k, r, q, o : k = kept /\ r = kept' /\ q = rows /\ o = order
  OBVIOUS
<1>2. /\ r = AddSection(k, s) /\ s \notin DOMAIN k.index /\ s \notin Range(q) /\ dialog = NoRow
      /\ order' = o /\ rows' = q /\ dialog' = s /\ added' = s /\ saving' = saving /\ blemish' = blemish
  BY <1>1 DEF AddInDialog, IsNew
<1>3. KeptOK(k) /\ TableTyped /\ added = NoRow
  BY <1>1, <1>2 DEF TableInv, TableTyped
<1>4. IsAdded(r, k, s)
  BY <1>2, <1>3, AddIs
<1>5. NoRow \notin TempIds
  BY GridOK DEF GridAssumption
<1>6. TableTyped'
  BY <1>1, <1>2, <1>3, <1>4, <1>5 DEF TableTyped, IsAdded
<1>7. OrderIsKnown'
  BY <1>1, <1>2, <1>4 DEF TableInv, OrderIsKnown, IsAdded
<1>8. Sound' <=> Sound
  BY <1>2 DEF Sound
<1>9. NothingIsHidden'
  <2>1. k.created \subseteq TempIds
    BY <1>3, CreatedAre
  <2>. QED  BY <1>1, <1>2, <1>3, <1>4, <1>5, <1>8, <2>1 DEF TableInv, NothingIsHidden, IsAdded
<1>10. OrderIsKept'
  <2>. DEFINE l == IF saving.phase = "ordering" THEN saving.list ELSE o
  <2>. SUFFICES ASSUME Sound, ~blemish.foreign, ~r.reorder  PROVE SortedBy(l, r.index, Range(o))
    BY <1>1, <1>2, <1>8 DEF OrderIsKept
  <2>1. SortedBy(l, k.index, Range(o)) /\ Range(o) = LoadedOf(k)
    BY <1>1, <1>4 DEF TableInv, OrderIsKept, OrderIsKnown, IsAdded
  <2>2. Range(o) \subseteq DOMAIN k.index
    BY <2>1 DEF LoadedOf
  <2>. HIDE DEF l
  <2>3. PICK S, u : S = Range(o) /\ u = l
    OBVIOUS
  <2>4. S \subseteq S /\ S \subseteq DOMAIN k.index /\ \A t \in S : r.index[t] = k.index[t]
    BY <1>4, <2>2, <2>3 DEF IsAdded
  <2>5. SortedBy(u, r.index, S)
    BY <2>1, <2>3, <2>4, RowsStayInOrder
  <2>. QED  BY <2>3, <2>5
<1>11. ListIsWhole'
  BY <1>1, <1>2, <1>8 DEF TableInv, ListIsWhole
<1>12. RowsAreInOrder'
  <2>. SUFFICES ASSUME ~blemish.strayed  PROVE SortedBy(q, r.index, Range(q) \cap LiveOf(r))
    BY <1>1, <1>2 DEF RowsAreInOrder, InOrder
  <2>1. SortedBy(q, k.index, Range(q) \cap LiveOf(k))
    BY <1>1 DEF TableInv, RowsAreInOrder, InOrder
  <2>2. Range(q) \cap LiveOf(r) = Range(q) \cap LiveOf(k) /\ LiveOf(k) \subseteq DOMAIN k.index
    BY <1>2, <1>4 DEF IsAdded, LiveOf
  <2>3. PICK S : S = Range(q) \cap LiveOf(k)
    OBVIOUS
  <2>4. S \subseteq S /\ S \subseteq DOMAIN k.index /\ \A t \in S : r.index[t] = k.index[t]
    BY <1>4, <2>2, <2>3 DEF IsAdded
  <2>5. SortedBy(q, r.index, S)
    BY <2>1, <2>3, <2>4, RowsStayInOrder
  <2>. QED  BY <2>2, <2>3, <2>5
<1>. QED  BY <1>6, <1>7, <1>9, <1>10, <1>11, <1>12 DEF TableInv

LEMMA DismissKeeps ==
  ASSUME TableInv, Dismiss
  PROVE  TableInv'
<1>1. PICK k, r, q, o, s : k = kept /\ r = kept' /\ q = rows /\ o = order /\ s = added
  OBVIOUS
<1>2. /\ r = IF s = NoRow THEN k ELSE RemoveSection(k, s)
      /\ order' = o /\ rows' = q /\ dialog' = NoRow /\ added' = NoRow /\ saving' = saving /\ blemish' = blemish
  BY <1>1 DEF Dismiss
<1>3. KeptOK(k) /\ TableTyped /\ s \in TempIds \cup {NoRow}
  BY <1>1 DEF TableInv, TableTyped
<1>4. Sound' <=> Sound
  BY <1>2 DEF Sound
<1>5. CASE s = NoRow
  <2>1. r = k
    BY <1>2, <1>5
  <2>2. TableTyped'
    BY <1>1, <1>2, <1>3, <2>1 DEF TableTyped
  <2>. QED  BY <1>1, <1>2, <1>4, <1>5, <2>1, <2>2
            DEF TableInv, OrderIsKnown, NothingIsHidden, OrderIsKept, ListIsWhole, RowsAreInOrder, InOrder
<1>6. CASE s # NoRow
  <2>1. r = RemoveSection(k, s) /\ s \in TempIds
    BY <1>2, <1>3, <1>6
  <2>2. IsRemoved(r, k, s)
    BY <1>3, <2>1, RemoveIs
  <2>3. s \notin LoadedOf(k)
    BY <1>3, <2>1, CreatedAre
  <2>4. TableTyped'
    BY <1>1, <1>2, <1>3, <2>2 DEF TableTyped, IsRemoved
  <2>5. OrderIsKnown'
    BY <1>1, <1>2, <2>2 DEF TableInv, OrderIsKnown, IsRemoved
  <2>6. NothingIsHidden'
    BY <1>1, <1>2, <1>4, <2>2, <2>3 DEF TableInv, NothingIsHidden, IsRemoved
  <2>7. OrderIsKept'
    <3>. DEFINE l == IF saving.phase = "ordering" THEN saving.list ELSE o
    <3>. SUFFICES ASSUME Sound, ~blemish.foreign, ~r.reorder  PROVE SortedBy(l, r.index, Range(o))
      BY <1>1, <1>2, <1>4 DEF OrderIsKept
    <3>1. SortedBy(l, k.index, Range(o)) /\ Range(o) = LoadedOf(k)
      BY <1>1, <2>2 DEF TableInv, OrderIsKept, OrderIsKnown, IsRemoved
    <3>2. Range(o) \subseteq DOMAIN k.index /\ Range(o) \subseteq DOMAIN r.index
      BY <2>2, <3>1 DEF IsRemoved, LoadedOf
    <3>. HIDE DEF l
    <3>3. PICK S, u : S = Range(o) /\ u = l
      OBVIOUS
    <3>4. S \subseteq S /\ S \subseteq DOMAIN k.index /\ \A t \in S : r.index[t] = k.index[t]
      BY <2>2, <3>2, <3>3 DEF IsRemoved
    <3>5. SortedBy(u, r.index, S)
      BY <3>1, <3>3, <3>4, RowsStayInOrder
    <3>. QED  BY <3>3, <3>5
  <2>8. ListIsWhole'
    BY <1>1, <1>2, <1>4 DEF TableInv, ListIsWhole
  <2>9. RowsAreInOrder'
    <3>. SUFFICES ASSUME ~blemish.strayed  PROVE SortedBy(q, r.index, Range(q) \cap LiveOf(r))
      BY <1>1, <1>2 DEF RowsAreInOrder, InOrder
    <3>1. SortedBy(q, k.index, Range(q) \cap LiveOf(k))
      BY <1>1 DEF TableInv, RowsAreInOrder, InOrder
    <3>2. PICK S, T : S = Range(q) \cap LiveOf(r) /\ T = Range(q) \cap LiveOf(k)
      OBVIOUS
    <3>3. S \subseteq T /\ S \subseteq DOMAIN k.index /\ S \subseteq DOMAIN r.index
      BY <2>2, <3>2 DEF IsRemoved, LiveOf
    <3>4. \A t \in S : r.index[t] = k.index[t]
      BY <2>2, <3>3 DEF IsRemoved
    <3>. QED  BY <3>1, <3>2, <3>3, <3>4, RowsStayInOrder
  <2>. QED  BY <2>4, <2>5, <2>6, <2>7, <2>8, <2>9 DEF TableInv
<1>. QED  BY <1>5, <1>6

LEMMA EditKeeps ==
  ASSUME TableInv, NEW s, Edit(s)
  PROVE  TableInv'
<1>1. /\ order' = order /\ kept' = kept /\ rows' = rows /\ added' = added /\ saving' = saving /\ blemish' = blemish
      /\ dialog = NoRow
  BY DEF Edit
<1>2. TableTyped'
  BY <1>1 DEF TableInv, TableTyped
<1>3. Sound' <=> Sound
  BY <1>1 DEF Sound
<1>. QED  BY <1>1, <1>2, <1>3 DEF TableInv, OrderIsKnown, NothingIsHidden, OrderIsKept, ListIsWhole, RowsAreInOrder, InOrder

LEMMA ElsewhereKeeps ==
  ASSUME TableInv, NEW s \in TableSections, Elsewhere(s)
  PROVE  TableInv'
<1>1. /\ kept' = kept /\ rows' = rows /\ added' = added /\ saving' = saving /\ dialog' = dialog
      /\ blemish' = [blemish EXCEPT !.foreign = TRUE]
  BY DEF Elsewhere
<1>2. PICK o, p : o = order /\ p = order'
  OBVIOUS
<1>3. IsRow(o) /\ Range(o) \cap TempIds = {} /\ blemish \in Blemishes
  BY <1>2 DEF TableInv, TableTyped
<1>4. s \notin TempIds
  BY GridOK DEF GridAssumption, TableSections
<1>5. IsRow(p) /\ Range(p) = Range(o) \cup {s}
  <2>1. CASE s \in Range(o)
    <3>1. PICK q : q = Without(o, {s}) /\ IsRow(q) /\ Range(q) = Range(o) \ {s}
      BY <1>3, WithoutRow
    <3>2. p = <<s>> \o q
      BY <1>2, <2>1, <3>1 DEF Elsewhere
    <3>3. q \in Seq(Range(q)) /\ Len(q) \in Nat
      BY <3>1, RowFacts
    <3>4. 1 \in 1 .. Len(q) + 1
      BY <3>3
    <3>5. s \notin Range(q)
      BY <3>1
    <3>6. IsInserted(InsertAt(q, 1, s), q, 1, s)
      BY <3>1, <3>4, <3>5, Inserted
    <3>7. InsertAt(q, 1, s) = p
      <4>1. SubSeq(q, 1, 1 - 1) = <<>> /\ SubSeq(q, 1, Len(q)) = q
        BY <3>3
      <4>2. <<>> \o <<s>> = <<s>>
        <5>1. <<s>> \in Seq({s})
          OBVIOUS
        <5>. QED  BY <5>1
      <4>. QED  BY <3>2, <4>1, <4>2 DEF InsertAt
    <3>. QED  BY <2>1, <3>1, <3>6, <3>7 DEF IsInserted
  <2>2. CASE s \notin Range(o)
    <3>1. p = Append(o, s)
      BY <1>2, <2>2 DEF Elsewhere
    <3>. QED  BY <1>3, <2>2, <3>1, Appended
  <2>. QED  BY <2>1, <2>2
<1>6. blemish' \in Blemishes /\ blemish'.foreign /\ blemish'.failed = blemish.failed /\ blemish'.strayed = blemish.strayed
  BY <1>1, <1>3 DEF Blemishes
<1>7. TableTyped'
  BY <1>1, <1>2, <1>3, <1>4, <1>5, <1>6 DEF TableInv, TableTyped
<1>8. Sound' <=> Sound
  BY <1>1, <1>6 DEF Sound
<1>. QED  BY <1>1, <1>6, <1>7, <1>8
          DEF TableInv, OrderIsKnown, NothingIsHidden, OrderIsKept, ListIsWhole, RowsAreInOrder, InOrder

\* A request fails.
LEMMA FailKeeps ==
  ASSUME TableInv, Fail, kept' = kept, IsRow(order'), Range(order') = Range(order)
  PROVE  TableInv'
<1>1. /\ rows' = rows /\ dialog' = dialog /\ added' \in {added, NoRow} /\ saving' = Idle
      /\ blemish' = [blemish EXCEPT !.failed = TRUE]
  BY DEF Fail
<1>2. blemish' \in Blemishes /\ blemish'.failed /\ blemish'.foreign = blemish.foreign /\ blemish'.strayed = blemish.strayed
  BY <1>1 DEF TableInv, TableTyped, Blemishes
<1>3. ~Sound'
  BY <1>2 DEF Sound
<1>4. TableTyped'
  BY <1>1, <1>2, IdleIs DEF TableInv, TableTyped
<1>. QED  BY <1>1, <1>2, <1>3, <1>4
          DEF TableInv, OrderIsKnown, NothingIsHidden, OrderIsKept, ListIsWhole, RowsAreInOrder, InOrder

\* A save is done, and the table is drawn anew.
LEMMA FinishKeeps ==
  ASSUME TableInv, saving.phase # "none", Finish(order'), IsRow(order'), Range(order') = Range(order),
         Sound /\ ~blemish.foreign /\ ~kept.reorder => SortedBy(order', kept.index, Range(order))
  PROVE  TableInv'
<1>1. PICK k, r, o, u : k = kept /\ r = kept' /\ o = order' /\ u = rows'
  OBVIOUS
<1>2. /\ r = IF saving.reload THEN KeptOf(o) ELSE k
      /\ u = CfgSections(r) /\ saving' = Idle
      /\ blemish' = IF saving.reload THEN Clean ELSE [blemish EXCEPT !.strayed = FALSE]
      /\ (dialog' = NoRow /\ added' = NoRow) \/ (dialog' = dialog /\ added' = added)
  BY <1>1 DEF Finish
<1>3. KeptOK(k) /\ TableTyped /\ IsRow(o) /\ Range(o) \cap TempIds = {} /\ blemish \in Blemishes
  BY <1>1 DEF TableInv, TableTyped
<1>4. KeptOK(r)
  BY <1>2, <1>3, KeptOfIsOK
<1>5. IsRow(u) /\ Range(u) = LiveOf(r) \ Others /\ SortedBy(u, r.index, LiveOf(r) \ Others)
  BY <1>2, <1>4, SectionsAreSorted DEF IsInOrder
<1>6. blemish' \in Blemishes /\ ~blemish'.strayed
  BY <1>2, <1>3, CleanIs DEF Blemishes
<1>7. TableTyped'
  BY <1>1, <1>2, <1>3, <1>4, <1>5, <1>6, IdleIs DEF TableTyped
<1>8. RowsAreInOrder'
  <2>1. Range(u) \cap LiveOf(r) = LiveOf(r) \ Others
    BY <1>5
  <2>. QED  BY <1>1, <1>5, <2>1 DEF RowsAreInOrder, InOrder
<1>9. saving'.phase = "none"
  BY <1>2, IdleIs
<1>10. CASE saving.reload
  <2>1. /\ r.created = {} /\ r.deleted = {} /\ LiveOf(r) = Range(o) /\ LoadedOf(r) = Range(o)
        /\ SortedBy(o, r.index, Range(o))
    BY <1>2, <1>3, <1>10, KeptOfIsOK
  <2>2. OrderIsKnown'
    BY <1>1, <2>1 DEF OrderIsKnown
  <2>3. NothingIsHidden'
    BY <1>1, <1>3, <1>5, <2>1 DEF NothingIsHidden
  <2>4. OrderIsKept' /\ ListIsWhole'
    BY <1>1, <1>9, <2>1 DEF OrderIsKept, ListIsWhole
  <2>. QED  BY <1>7, <1>8, <2>2, <2>3, <2>4 DEF TableInv
<1>11. CASE ~saving.reload
  <2>1. /\ r = k /\ blemish'.failed = blemish.failed /\ blemish'.foreign = blemish.foreign
    BY <1>2, <1>3, <1>11 DEF Blemishes
  <2>2. Sound' <=> Sound
    BY <1>9, <1>11, <2>1 DEF Sound
  <2>3. OrderIsKnown'
    BY <1>1, <2>1 DEF TableInv, OrderIsKnown
  <2>4. NothingIsHidden'
    <3>. SUFFICES ASSUME Sound
         PROVE  /\ r.deleted = {} /\ Range(u) \ TempIds = LoadedOf(r) \ Others
                /\ r.created \subseteq Range(u) \cup {added'}
      BY <1>1, <2>2 DEF NothingIsHidden
    <3>1. k.deleted = {}
      BY <1>1 DEF TableInv, NothingIsHidden
    <3>2. k.created \subseteq TempIds /\ LoadedOf(k) \cap TempIds = {} /\ LiveOf(k) = LoadedOf(k) \cup k.created
      BY <1>3, <3>1, CreatedAre
    <3>3. TempIds \cap Others = {}
      BY GridOK DEF GridAssumption
    <3>. QED  BY <1>5, <2>1, <3>1, <3>2, <3>3
  <2>5. OrderIsKept' /\ ListIsWhole'
    BY <1>1, <1>9, <2>1, <2>2 DEF OrderIsKept, ListIsWhole
  <2>. QED  BY <1>7, <1>8, <2>3, <2>4, <2>5 DEF TableInv
<1>12. saving.reload \in BOOLEAN
  BY <1>3 DEF TableTyped, SavingOK
<1>. QED  BY <1>10, <1>11, <1>12

LEMMA AnsweredKeeps ==
  ASSUME TableInv, Answered
  PROVE  TableInv'
<1>1. PICK k, r, o : k = kept /\ r = kept' /\ o = order
  OBVIOUS
<1>2. saving.phase = "sent" /\ order' = o /\ IsRow(o) /\ KeptOK(k) /\ SavingOK(saving)
  BY <1>1 DEF Answered, TableInv, TableTyped
<1>3. CASE Fail /\ kept' = kept
  BY <1>1, <1>2, <1>3, FailKeeps
<1>4. CASE Finish(order)
  <2>1. Sound /\ ~blemish.foreign /\ ~kept.reorder => SortedBy(order', kept.index, Range(order))
    BY <1>1, <1>2 DEF TableInv, OrderIsKept
  <2>2. Finish(order')
    BY <1>1, <1>2, <1>4
  <2>. QED  BY <1>1, <1>2, <2>1, <2>2, FinishKeeps
<1>5. CASE /\ k.reorder /\ r = [k EXCEPT !.reorder = FALSE]
           /\ saving' = [saving EXCEPT !.phase = "ordering", !.list = ReorderList(k)]
           /\ rows' = rows /\ dialog' = dialog /\ added' = added /\ blemish' = blemish
  <2>1. PICK a, b, c, d : k = [index |-> a, created |-> b, deleted |-> c, reorder |-> d]
    BY <1>2 DEF KeptOK, HasShape
  <2>2. r = [index |-> a, created |-> b, deleted |-> c, reorder |-> FALSE]
    BY <1>5, <2>1
  <2>3. /\ r.index = k.index /\ r.created = k.created /\ r.deleted = k.deleted /\ r.reorder = FALSE
        /\ HasShape(r)
    BY <2>1, <2>2 DEF HasShape
  <2>4. LiveOf(r) = LiveOf(k) /\ LoadedOf(r) = LoadedOf(k)
    BY <2>3 DEF LiveOf, LoadedOf
  <2>5. KeptOK(r)
    <3>1. \E m \in Nat : Numbered(r, m)
      BY <1>2, <2>3 DEF KeptOK, Numbered
    <3>2. NoTies(r, LiveOf(r))
      BY <1>2, <2>3, <2>4 DEF KeptOK, NoTies
    <3>. QED  BY <1>2, <2>3, <2>4, <3>1, <3>2 DEF KeptOK
  <2>6. PICK l : l = ReorderList(k)
    OBVIOUS
  <2>7. l \in Seq(DOMAIN k.index) /\ (k.deleted = {} => IsInOrder(l, k.index, DOMAIN k.index))
    BY <1>2, <2>6, SectionsAreSorted
  <2>8. l \in Seq(Range(l))
    <3>1. PICK T : T = DOMAIN k.index
      OBVIOUS
    <3>. QED  BY <2>7, <3>1, ListIsOK
  <2>9. /\ saving'.phase = "ordering" /\ saving'.list = l /\ saving'.reload = saving.reload
        /\ SavingOK(saving')
    <3>1. PICK p, d1, w, m : saving = [phase |-> p, inDialog |-> d1, reload |-> w, list |-> m]
      BY <1>2 DEF SavingOK
    <3>2. saving' = [phase |-> "ordering", inDialog |-> d1, reload |-> w, list |-> l]
      BY <1>5, <2>6, <3>1
    <3>3. /\ saving'.phase = "ordering" /\ saving'.list = l /\ saving'.reload = saving.reload
          /\ saving'.inDialog = saving.inDialog
      BY <3>1, <3>2
    <3>4. saving' = [phase |-> saving'.phase, inDialog |-> saving'.inDialog, reload |-> saving'.reload, list |-> saving'.list]
      BY <3>2
    <3>. QED  BY <1>2, <2>8, <3>3, <3>4 DEF SavingOK
  <2>10. TableTyped'
    BY <1>1, <1>2, <1>5, <2>5, <2>9 DEF TableInv, TableTyped
  <2>11. Sound' <=> Sound
    BY <1>2, <1>5, <2>9 DEF Sound
  <2>12. OrderIsKnown' /\ NothingIsHidden'
    BY <1>1, <1>2, <1>5, <2>3, <2>4, <2>11 DEF TableInv, OrderIsKnown, NothingIsHidden
  <2>13. RowsAreInOrder'
    BY <1>1, <1>5, <2>3, <2>4 DEF TableInv, RowsAreInOrder, InOrder
  <2>14. ASSUME Sound, ~blemish.foreign
         PROVE  IsRow(l) /\ Range(o) \subseteq Range(l) /\ SortedBy(l, k.index, Range(o))
    <3>1. k.deleted = {} /\ Range(o) = LoadedOf(k)
      BY <1>1, <2>14 DEF TableInv, NothingIsHidden, OrderIsKnown
    <3>2. Range(o) \subseteq DOMAIN k.index
      BY <3>1 DEF LoadedOf
    <3>. QED  BY <2>7, <3>1, <3>2 DEF IsInOrder, SortedBy
  <2>15. OrderIsKept' /\ ListIsWhole'
    BY <1>1, <1>2, <1>5, <2>3, <2>9, <2>11, <2>14 DEF OrderIsKept, ListIsWhole
  <2>. QED  BY <2>10, <2>12, <2>13, <2>15 DEF TableInv
<1>. QED  BY <1>1, <1>3, <1>4, <1>5 DEF Answered

LEMMA OrderedKeeps ==
  ASSUME TableInv, Ordered
  PROVE  TableInv'
<1>1. PICK o, l, p : o = order /\ l = saving.list /\ p = CallOrder(o, l)
  OBVIOUS
<1>2. saving.phase = "ordering" /\ IsRow(o) /\ l \in Seq(Range(l)) /\ FirstPlace \in {0, 1}
  BY <1>1, GridOK DEF Ordered, TableInv, TableTyped, SavingOK, GridAssumption
<1>3. IsRow(p) /\ Range(p) = Range(o)
  <2>1. PICK T : T = Range(l)
    OBVIOUS
  <2>. QED  BY <1>1, <1>2, <2>1, CallOrderKeeps
<1>4. CASE order' = p /\ Finish(order')
  <2>1. ASSUME Sound, ~blemish.foreign, ~kept.reorder  PROVE SortedBy(p, kept.index, Range(o))
    <3>1. IsRow(l) /\ Range(o) \subseteq Range(l) /\ SortedBy(l, kept.index, Range(o))
      BY <1>1, <1>2, <2>1 DEF TableInv, OrderIsKept, ListIsWhole
    <3>2. \A a, b \in Range(o) : Before(p, a, b) <=> Before(l, a, b)
      BY <1>1, <1>2, <3>1, CallOrderSorts
    <3>. QED  BY <3>1, <3>2 DEF SortedBy
  <2>. QED  BY <1>1, <1>2, <1>3, <1>4, <2>1, FinishKeeps
<1>5. CASE order' \in {o, p} /\ Fail /\ kept' = kept
  BY <1>1, <1>2, <1>3, <1>5, FailKeeps
<1>. QED  BY <1>1, <1>4, <1>5 DEF Ordered

LEMMA TableStep == TableInv /\ GridNext => TableInv'
<1>. SUFFICES ASSUME TableInv, GridNext  PROVE TableInv'
  OBVIOUS
<1>1. ASSUME NEW s \in Range(rows), NEW t \in Range(rows), NEW after \in BOOLEAN, Drag(s, t, after)  PROVE TableInv'
  BY <1>1, DragKeeps
<1>2. CASE PressSave \/ SaveDialog
  BY <1>2, PressKeeps
<1>3. ASSUME NEW s \in TempIds, AddRow(s) \/ AddInDialog(s)  PROVE TableInv'
  BY <1>3, AddRowKeeps, AddDialogKeeps
<1>4. ASSUME NEW s \in Range(rows), RemoveRow(s) \/ Edit(s)  PROVE TableInv'
  BY <1>4, RemoveRowKeeps, EditKeeps
<1>5. ASSUME NEW s \in TableSections, Elsewhere(s)  PROVE TableInv'
  BY <1>5, ElsewhereKeeps
<1>6. CASE Dismiss \/ Answered \/ Ordered
  BY <1>6, DismissKeeps, AnsweredKeeps, OrderedKeeps
<1>. QED  BY <1>1, <1>2, <1>3, <1>4, <1>5, <1>6 DEF GridNext

LEMMA TableStays == TableInv /\ UNCHANGED gridVars => TableInv'
BY DEF gridVars, TableInv, TableTyped, OrderIsKnown, NothingIsHidden, OrderIsKept, ListIsWhole,
       RowsAreInOrder, InOrder, Sound

TableHolds == part = "table" => TableInv

LEMMA TableHoldsInit == Init => TableHolds
BY TableBegins DEF Init, TableHolds

LEMMA TableHoldsStep == TableHolds /\ [Next]_vars => TableHolds'
<1>. SUFFICES ASSUME TableHolds, [Next]_vars, part' = "table"  PROVE TableInv'
  BY DEF TableHolds
<1>1. CASE part = "table" /\ GridNext
  BY <1>1, TableStep DEF TableHolds
<1>2. CASE part = "table" /\ UNCHANGED gridVars
  BY <1>2, TableStays DEF TableHolds
<1>. QED  BY <1>1, <1>2 DEF Next, vars

LEMMA TableHoldsAlways == Spec => []TableHolds
BY TableHoldsInit, TableHoldsStep, PTL DEF Spec

\* A drag moves a row among the rows of the table and a section among the
\* sections of every type (form.js:2813-2814), new sections get numbers behind
\* the highest there is, and the server puts one section after the other to its
\* place (fubus/uci.lua:89): still the table shows the order of the cache, and
\* when all is saved the server has the order of the table.
THEOREM TablesAreInOrder == Spec => []TableOrderHolds
<1>1. TableHolds => TableOrderHolds
  BY TableIsRight DEF TableHolds, TableOrderHolds
<1>. QED  BY <1>1, TableHoldsAlways, PTL
=============================================================================
