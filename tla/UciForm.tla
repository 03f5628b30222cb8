------------------------------ MODULE UciForm ------------------------------
(***************************************************************************)
(* A form on top of the UCI cache: form.js Map, its sections and options,  *)
(* the browser's copy of a configuration, uci.js, and the fake ubus object *)
(* it is saved to, fubus/uci.lua.                                          *)
(*                                                                         *)
(* The user types, adds, removes, resets and saves; a save parses the form *)
(* into the cache, sends the differences, drops the cache, loads it again  *)
(* and draws the form anew.  The buttons lock themselves while their save  *)
(* is under way, but not each other, and the input fields stay open.       *)
(* Another tab, or another user, changes the same configuration.           *)
(* Section order, types and extended section names are left out.           *)
(***************************************************************************)
EXTENDS Naturals

CONSTANTS Sids,       \* section names
          Opts,       \* option names
          Vals,       \* option values
          None,       \* no such section, no such option
          Whole,      \* marks a section that is to be deleted
          Old,        \* the sections that exist
          Named,      \* those drawn by a NamedSection, which reads them whole
          Flags,      \* options that are check boxes
          On,         \* the value of a ticked one
          Needs,      \* per option None, or the option it needs to be On
          Bad,        \* an input that does not validate
          Buttons,    \* the buttons that save
          MaxEvents   \* bound: what the user, the link and others do

-----------------------------------------------------------------------------
(* The cache: the record of what was loaded and of the three difference    *)
(* maps on top of it.                                                      *)

NoOptions == [o \in Opts |-> None]
Sections == [Opts -> Vals \cup {None}]
Configs == [Sids -> Sections \cup {None}]
NoSections == [s \in Sids |-> None]

\* values is None while the configuration is not loaded; noted says whether
\* any of the difference maps has an entry for the configuration.
Caches == [values  : Configs \cup {None},
           creates : Configs,
           changes : [Sids -> Sections],
           deletes : [Sids -> (SUBSET Opts) \cup {Whole}],
           noted   : BOOLEAN]

Loaded(config) == [values  |-> config,
                   creates |-> NoSections,
                   changes |-> [s \in Sids |-> NoOptions],
                   deletes |-> [s \in Sids |-> {}],
                   noted   |-> FALSE]

\* unload: what save does before it loads the configuration again.
Unloaded == Loaded(None)

Known(k, s)   == k.values # None /\ k.values[s] # None
Created(k, s) == k.creates[s] # None
Dropped(k, s) == k.deletes[s] = Whole

-----------------------------------------------------------------------------
(* Reading.                                                                *)

Get(k, s, o) ==
  IF Created(k, s) THEN k.creates[s][o]
  ELSE IF Dropped(k, s) \/ o \in k.deletes[s] THEN None
  ELSE IF k.changes[s][o] # None THEN k.changes[s][o]
  ELSE IF Known(k, s) THEN k.values[s][o] ELSE None

\* sections(): nothing at all before the configuration is loaded.
Listed(k) ==
  IF k.values = None THEN {}
  ELSE {s \in Sids : Created(k, s) \/ (Known(k, s) /\ ~Dropped(k, s))}

\* get of a whole section merges the differences into what was loaded.
Peek(k, s) ==
  IF Created(k, s) \/ ~Known(k, s) \/ Dropped(k, s) THEN k
  ELSE [k EXCEPT !.values[s] = [o \in Opts |-> Get(k, s, o)]]

-----------------------------------------------------------------------------
(* Changing.                                                               *)

\* Faulty variant of SetValue: a deleted option stays deleted.
SetKeepsDelete(k, s, o, v) ==
  IF Dropped(k, s) \/ ~Known(k, s) THEN k
  ELSE [k EXCEPT !.changes[s][o] = v, !.noted = TRUE]

\* set of a value in a section that was loaded.
SetValue(k, s, o, v) ==
  IF Dropped(k, s) \/ ~Known(k, s) THEN k
  ELSE [k EXCEPT !.changes[s][o] = v,
                 !.deletes[s] = @ \ {o},
                 !.noted = TRUE]

\* set of nothing, unset: only what was loaded is deleted.
Unset(k, s, o) ==
  LET reverted == [k EXCEPT !.changes[s][o] = None]
  IN  IF ~Known(k, s) \/ k.values[s][o] = None THEN reverted
      ELSE [reverted EXCEPT !.deletes[s] = IF @ = Whole THEN @ ELSE @ \cup {o},
                            !.noted = TRUE]

Set(k, s, o, v) ==
  IF Created(k, s) THEN [k EXCEPT !.creates[s][o] = v]
  ELSE IF v # None THEN SetValue(k, s, o, v) ELSE Unset(k, s, o)

Add(k, s) == [k EXCEPT !.creates[s] = NoOptions, !.noted = TRUE]

RemoveSid(k, s) ==
  IF Created(k, s) THEN [k EXCEPT !.creates[s] = None]
  ELSE IF Known(k, s)
  THEN [k EXCEPT !.changes[s] = NoOptions, !.deletes[s] = Whole, !.noted = TRUE]
  ELSE k

-----------------------------------------------------------------------------
(* What the server makes of the calls of save: delete, add and set.  add   *)
(* is called with an argument values, which the object does not declare,   *)
(* and delete of a section without options: neither changes anything.      *)

CallDelete(config, s, opts) ==
  IF config[s] = None \/ opts = Whole THEN config
  ELSE [config EXCEPT ![s] = [o \in Opts |-> IF o \in opts THEN None ELSE @[o]]]

CallSet(config, s, values) ==
  IF config[s] = None THEN config
  ELSE [config EXCEPT ![s] =
          [o \in Opts |-> IF values[o] # None THEN values[o] ELSE @[o]]]

\* All calls of one save, which come section by section.
Execute(config, k) ==
  [s \in Sids |-> CallSet(CallDelete(config, s, k.deletes[s]), s, k.changes[s])[s]]

\* No option is both changed and deleted, and a section that is to be
\* deleted has no changes: get and the server agree about what is meant.
Consistent(k) ==
  \A s \in Sids, o \in Opts :
    k.changes[s][o] # None => ~Dropped(k, s) /\ o \notin k.deletes[s]

-----------------------------------------------------------------------------
(* The form.                                                               *)

Inputs == Vals \cup {None, Bad}

\* What is absent (null) is no object, and the mark of a deleted section
\* (true) is no list of options.
ASSUME FormAssumption ==
  /\ Old \subseteq Sids /\ Named \subseteq Old /\ Flags \subseteq Opts
  /\ Needs \in [Opts -> Opts \cup {None}]
  /\ \A o \in Opts : Needs[o] # None => Needs[Needs[o]] = None
  /\ On \in Vals /\ Bad \notin Vals /\ None \notin Vals
  /\ None \notin Configs /\ None \notin [Opts -> Inputs]
  /\ \A opts \in SUBSET Opts : Whole # opts
  /\ MaxEvents \in Nat

VARIABLES
  server,   \* the configuration with its staged changes
  cache,    \* the browser's cache of it
  cfg,      \* what the form has loaded: this.data of every option
  shown,    \* the input fields: None for a section that is not drawn
  save,     \* the save of each button
  typed,    \* fields the user has changed since the form was drawn or reset
  broken,   \* has loading failed?  The rejected promise stays in loaded.
  foreign,  \* options somebody else has changed since the form was loaded
  failed,   \* has a save failed since the cache was dropped last?
  crossed,  \* have two saves been under way at a time since then?
  events

ghosts == <<foreign, failed, crossed>>
formVars == <<server, cache, cfg, shown, save, typed, broken, ghosts, events>>

Fields == Sids \X Opts
Phases == {"ready", "sent", "stored", "loading", "fetched", "joining",
           "access"}
Ready == [phase |-> "ready"]

FormTypeOK ==
  /\ server \in Configs
  /\ cache \in Caches
  /\ cfg \in Configs
  /\ shown \in [Sids -> [Opts -> Inputs] \cup {None}]
  /\ \A b \in Buttons : save[b].phase \in Phases
  /\ typed \subseteq Fields /\ foreign \subseteq Fields
  /\ {broken, failed, crossed} \subseteq BOOLEAN
  /\ events \in 0 .. MaxEvents

\* cfgsections: a NamedSection goes by its name whether it exists or not.
Rows(k) == Listed(k) \cup Named

\* load: what the form remembers of a cache k, on top of what it did before.
Contents(k, before) ==
  [s \in Sids |-> IF s \in Rows(k) THEN [o \in Opts |-> Get(k, s, o)] ELSE before[s]]

\* renderContents of a form that has loaded c: a check box is ticked or not.
Widgets(k, c) ==
  [s \in Sids |-> IF s \notin Listed(k) THEN None
                  ELSE [o \in Opts |-> IF c[s] = None \/ (o \in Flags /\ c[s][o] # On)
                                       THEN None ELSE c[s][o]]]

FormInit ==
  /\ server \in {c \in Configs : \A s \in Sids : (s \in Old) <=> c[s] # None}
  /\ cache = Loaded(server)
  /\ cfg = Contents(cache, NoSections) /\ shown = Widgets(cache, cfg)
  /\ save = [b \in Buttons |-> Ready]
  /\ typed = {} /\ broken = FALSE
  /\ foreign = {} /\ failed = FALSE /\ crossed = FALSE
  /\ events = 0

Event == events < MaxEvents /\ events' = events + 1
Quiet == \A b \in Buttons : save[b].phase = "ready"

-----------------------------------------------------------------------------
(* parse.                                                                  *)

\* isActive: the field is drawn and its dependency is satisfied.
Active(s, o) == shown[s] # None /\ (Needs[o] # None => shown[s][Needs[o]] = On)

Valid(k) == \A s \in Rows(k), o \in Opts : Active(s, o) => shown[s][o] # Bad

\* Faulty variants of Writes and Removes: what has not changed is written,
\* what is hidden is left alone.
WritesAll(s, o) == Active(s, o) /\ shown[s][o] \notin {None, Bad}
SkipsHidden(s, o) == Active(s, o) /\ shown[s][o] = None

\* What parse means an option to become: a hidden or empty one is removed, a
\* check box is written always, everything else if it is not what was loaded.
Writes(s, o) ==
  /\ Active(s, o)
  /\ shown[s][o] \notin {None, Bad}
  /\ o \in Flags \/ cfg[s] = None \/ shown[s][o] # cfg[s][o]
Removes(s, o) == ~Active(s, o) \/ shown[s][o] = None

ParseOption(k, s, o) ==
  IF Writes(s, o) THEN Set(k, s, o, shown[s][o])
  ELSE IF Removes(s, o) THEN Set(k, s, o, None) ELSE k

\* Options do not interfere: their differences are those of each by itself.
Parse(k) ==
  LET done(s, o) == IF s \in Rows(k) THEN ParseOption(k, s, o) ELSE k
  IN  [values  |-> k.values,
       creates |-> [s \in Sids |-> IF k.creates[s] = None THEN None
                      ELSE [o \in Opts |-> done(s, o).creates[s][o]]],
       changes |-> [s \in Sids |-> [o \in Opts |-> done(s, o).changes[s][o]]],
       deletes |-> [s \in Sids |-> IF k.deletes[s] = Whole THEN Whole
                      ELSE {o \in Opts : o \in done(s, o).deletes[s]}],
       noted   |-> k.noted \/ \E s \in Sids, o \in Opts : done(s, o).noted]

-----------------------------------------------------------------------------
(* The user.                                                               *)

Type(s, o, v) ==
  /\ Event
  /\ shown[s] # None /\ Active(s, o) /\ shown[s][o] # v
  /\ o \in Flags => v \in {None, On}
  /\ shown' = [shown EXCEPT ![s][o] = v]
  /\ typed' = typed \cup {<<s, p>> : p \in {o} \cup {q \in Opts : Needs[q] = o}}
  /\ UNCHANGED <<server, cache, cfg, save, broken, ghosts>>

\* Drawing the form; a NamedSection reads its section as a whole.
Peeked(k) == [k EXCEPT !.values = IF @ = None THEN None
               ELSE [s \in Sids |-> IF s \in Named THEN Peek(k, s).values[s] ELSE @[s]]]

Draw(c) ==
  /\ shown' = Widgets(cache, c)
  /\ cache' = Peeked(cache)
  /\ typed' = {}

\* Map.reset draws what the form has loaded.
Reset ==
  /\ Event
  /\ Draw(cfg)
  /\ UNCHANGED <<server, cfg, save, broken, ghosts>>

-----------------------------------------------------------------------------
(* save.                                                                   *)

Goto(b, phase) == save' = [save EXCEPT ![b].phase = phase]
Done(b) == save' = [save EXCEPT ![b] = Ready]

\* Map.save after the button has changed the cache to k: parse and, if
\* everything is valid, send the differences.  Without any, the form is loaded
\* from the cache, or together with a load that is under way.
Save(b, k) ==
  /\ Event
  /\ save[b].phase = "ready"
  /\ LET parsed == Parse(k)
         sent == [phase |-> "sent", calls |-> parsed, form |-> shown,
                  typed |-> typed, failed |-> failed]
         next == IF parsed.noted THEN sent
                 ELSE [phase |-> IF k.values = None THEN "joining" ELSE "access"]
     IN  /\ cache' = parsed
         /\ IF Valid(k) /\ (parsed.noted \/ ~broken)
            THEN save' = [save EXCEPT ![b] = next] /\ UNCHANGED failed
            ELSE Done(b) /\ failed' = TRUE
  /\ crossed' = (crossed \/ ~Quiet)
  /\ UNCHANGED <<server, cfg, shown, typed, broken, foreign>>

ClickSave(b) == Save(b, cache)

\* handleAdd of a section that is not drawn.
ClickAdd(b, s) == shown[s] = None /\ Save(b, Add(cache, s))

\* handleRemove of a section that is drawn.
ClickRemove(b, s) == shown[s] # None /\ Save(b, RemoveSid(cache, s))

\* The calls of a save share one request.
Store(b) ==
  /\ save[b].phase = "sent"
  /\ server' = Execute(server, save[b].calls)
  /\ Goto(b, "stored")
  /\ UNCHANGED <<cache, cfg, shown, typed, broken, ghosts, events>>

\* Faulty variant of Stored: the differences outlive the save.
StoredKeeps(b) ==
  /\ save[b].phase = "stored"
  /\ cache' = [cache EXCEPT !.values = None] /\ broken' = FALSE
  /\ save' = [save EXCEPT ![b] = [phase |-> "loading"]]
  /\ failed' = FALSE
  /\ UNCHANGED <<server, cfg, shown, typed, foreign, crossed, events>>

\* Its reply: the cache is dropped, rejected promises included.
Stored(b) ==
  /\ save[b].phase = "stored"
  /\ cache' = Unloaded /\ broken' = FALSE
  /\ save' = [save EXCEPT ![b] = [phase |-> "loading"]]
  /\ failed' = FALSE
  /\ UNCHANGED <<server, cfg, shown, typed, foreign, crossed, events>>

Fetch(b) ==
  /\ save[b].phase = "loading"
  /\ save' = [save EXCEPT ![b] = [phase |-> "fetched", values |-> server]]
  /\ foreign' = {}
  /\ crossed' = (crossed /\ \E c \in Buttons \ {b} : save[c].phase # "ready")
  /\ UNCHANGED <<server, cache, cfg, shown, typed, broken, failed, events>>

\* The configuration arrives, for a save that has joined the load as well.
Fetched(b) ==
  /\ save[b].phase = "fetched"
  /\ cache' = [cache EXCEPT !.values = save[b].values]
  /\ save' = [c \in Buttons |-> IF c = b \/ save[c].phase = "joining"
                                THEN [phase |-> "access"] ELSE save[c]]
  /\ UNCHANGED <<server, cfg, shown, typed, broken, ghosts, events>>

\* Map.load has also asked whether the form may be written; it is drawn from
\* what the cache holds when that is known.
Drawn(b) ==
  /\ save[b].phase = "access"
  /\ cfg' = Contents(cache, cfg)
  /\ Draw(cfg')
  /\ Done(b)
  /\ UNCHANGED <<server, broken, ghosts, events>>

\* A request of the save fails or times out, the first one perhaps after the
\* server has carried it out.  A load that fails takes those who joined along.
Fails(b) ==
  /\ Event
  /\ save[b].phase # "ready"
  /\ LET loading == save[b].phase \in {"loading", "fetched"}
     IN  /\ broken' = (broken \/ loading)
         /\ save' = [c \in Buttons |->
              IF c = b \/ (loading /\ save[c].phase = "joining")
              THEN Ready ELSE save[c]]
  /\ failed' = TRUE
  /\ UNCHANGED <<server, cache, cfg, shown, typed, foreign, crossed>>

\* Another tab saves a value.
Foreign(s, o, v) ==
  /\ Event
  /\ server[s] # None /\ server[s][o] # v
  /\ server' = [server EXCEPT ![s][o] = v]
  /\ foreign' = foreign \cup {<<s, o>>}
  /\ UNCHANGED <<cache, cfg, shown, save, typed, broken, failed, crossed>>

FormNext ==
  \/ \E s \in Sids, o \in Opts, v \in Inputs : Type(s, o, v)
  \/ Reset
  \/ \E b \in Buttons : \/ ClickSave(b)
                        \/ \E s \in Sids : ClickAdd(b, s) \/ ClickRemove(b, s)
                        \/ Store(b) \/ Stored(b) \/ Fetch(b) \/ Fetched(b)
                        \/ Drawn(b) \/ Fails(b)
  \/ \E s \in Sids, o \in Opts, v \in Vals \cup {None} : Foreign(s, o, v)

FormSpec == FormInit /\ [][FormNext]_formVars

-----------------------------------------------------------------------------
(* Properties.                                                             *)

\* What the differences of the cache say is never contradictory, whatever is
\* typed, added, removed, reset and saved in whatever order.
DifferencesAgree == Consistent(cache)

\* When no save is under way and none has failed, the form rests on what the
\* server has, and no difference waits to be sent with the next save.  (Two
\* saves at a time may load in the wrong order; one that fails while another
\* loads leaves its differences to whoever saves next.)
QuietIsCurrent ==
  Quiet /\ ~failed /\ ~crossed
    => /\ ~cache.noted
       /\ \A s \in Listed(cache), o \in Opts :
            <<s, o>> \notin foreign => cfg[s][o] = server[s][o]

Storing(b) == save[b].phase = "sent" /\ save'[b].phase = "stored"

\* The options of the form that the save of b leaves on the server.
Kept(b) == {f \in Fields : server[f[1]] # None /\ save[b].form[f[1]] # None
                          /\ save[b].calls.deletes[f[1]] # Whole}

\* A save that is alone and follows no failed one makes the server hold what
\* the form showed, except where somebody else has interfered: what is hidden
\* because of what it depends on is gone, everything else is there.
SavedIsShown ==
  \A b \in Buttons :
    Storing(b) /\ ~crossed /\ ~save[b].failed =>
      \A f \in Kept(b) \ foreign :
        LET form == save[b].form[f[1]]
            hidden == Needs[f[2]] # None /\ form[Needs[f[2]]] # On
        IN  server'[f[1]][f[2]] = IF hidden THEN None ELSE form[f[2]]

\* Such a save leaves alone what the user has not changed: fields that were not
\* typed in since the form was drawn or reset keep the value another tab has
\* saved meanwhile.  (Check boxes are always written.  A save after a failed
\* one, or between the load and the redraw of another one, compares what was
\* drawn with what was not.)
UntouchedStays ==
  \A b \in Buttons :
    Storing(b) /\ ~crossed /\ ~save[b].failed =>
      \A f \in Kept(b) :
        f \notin save[b].typed /\ f[2] \notin Flags
          /\ server'[f[1]][f[2]] # server[f[1]][f[2]]
          => Needs[f[2]] # None

\* What form.js says of reset: it reverts all inputs that were not saved.  A
\* field that the user has not touched since then is stored as it is shown.
ResetReverts ==
  [][\A b \in Buttons :
       Storing(b) /\ ~crossed =>
         \A f \in Kept(b) \ (foreign \cup save[b].typed) :
           f[2] \notin Flags /\ Needs[f[2]] = None
             /\ server'[f[1]][f[2]] # server[f[1]][f[2]]
             => server'[f[1]][f[2]] = save[b].form[f[1]][f[2]]]_formVars
=============================================================================
