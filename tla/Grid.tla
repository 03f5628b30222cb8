-------------------------------- MODULE Grid --------------------------------
(***************************************************************************)
(* A table of sections that can be sorted: form.js TableSection and        *)
(* GridSection on top of the order uci.js keeps (sections, move,           *)
(* reorderSections).  Rows are dragged, added, either in place or in a     *)
(* dialog, and removed; the page stays usable while a save is under way.   *)
(* What the sections contain is not modelled, save that a form may be      *)
(* invalid, and only one save is under way at a time: UciForm has the rest.*)
(***************************************************************************)
EXTENDS Naturals, FiniteSets, SequencesExt

CONSTANTS Rows0,     \* the sections of the table's type at first, in order
          Others,    \* sections of another type in the same configuration
          Strangers, \* sections others add
          TempIds,   \* names the browser gives to new sections
          NoRow,
          FirstPlace, \* does libuci count the places from 0 or from 1?
          MaxActs    \* bound: what the user and others do

GridAssumption ==
  /\ MaxActs \in Nat /\ FirstPlace \in {0, 1}
  /\ Rows0 \in Seq(Range(Rows0)) /\ IsInjective(Rows0)
  /\ IsFiniteSet(Others)
  /\ Range(Rows0) \cap Others = {}
  /\ TempIds \cap (Range(Rows0) \cup Others \cup Strangers \cup {NoRow}) = {}

VARIABLES
  order,    \* the sections on the server, in order
  kept,     \* the browser's cache: see Kept
  rows,     \* the rows as they stand in the table
  dialog,   \* the section whose dialog is open
  added,    \* addedSection: the dialog was opened by Add
  saving,   \* the save that is under way
  blemish,  \* since the configuration was loaded: has a save failed, have
            \* others changed the order?  And has the table been dragged where
            \* the cache would not follow, since it was drawn?
  acts

gridVars == <<order, kept, rows, dialog, added, saving, blemish, acts>>

\* kept: what is loaded and created, with the property .index of each, what
\* is deleted, and the mark that the order is to be saved.
KeptOf(sections) == [index   |-> [s \in Range(sections) |->
                                    CHOOSE i \in DOMAIN sections : sections[i] = s],
                     created |-> {}, deleted |-> {}, reorder |-> FALSE]
Clean == [failed |-> FALSE, foreign |-> FALSE, strayed |-> FALSE]
Idle == [phase |-> "none", reload |-> FALSE, inDialog |-> FALSE, list |-> <<>>]

Act == acts < MaxActs /\ acts' = acts + 1

-----------------------------------------------------------------------------
(* The order of sections in uci.js.                                        *)

Highest(k) == Max({k.index[s] : s \in DOMAIN k.index} \cup {0})

\* Of those with the same number, in any order.
ByIndex(k, sections) ==
  LET next(seq, i) == seq \o SetToSeq({s \in sections : k.index[s] = i})
  IN  FoldLeft(next, <<>>, [i \in 1 .. Highest(k) |-> i])

Without(seq, S) ==
  FoldLeft(LAMBDA left, s : IF s \in S THEN left ELSE Append(left, s), <<>>, seq)

\* sections(): without those that are deleted.
SectionsOf(k) == ByIndex(k, (DOMAIN k.index) \ k.deleted)
CfgSections(k) == Without(SectionsOf(k), Others)

Placed(seq, s, target, after) ==
  LET rest == Without(seq, {s})
      at == CHOOSE i \in DOMAIN rest : rest[i] = target
  IN  InsertAt(rest, IF after THEN at + 1 ELSE at, s)

Renumbered(k, sections) ==
  [k EXCEPT !.index = [t \in DOMAIN @ |-> IF t \in Range(sections)
                         THEN CHOOSE i \in DOMAIN sections : sections[i] = t ELSE @[t]],
            !.reorder = TRUE]

\* move: all sections are numbered anew, but those that are deleted.
Move(k, s, target, after) ==
  LET all == SectionsOf(k)
  IN  IF {s, target} \subseteq Range(all) /\ s # target
      THEN Renumbered(k, Placed(all, s, target, after)) ELSE k

AddSection(k, s) ==
  [k EXCEPT !.index = [t \in DOMAIN @ \cup {s} |-> IF t = s
                         THEN 1 + Highest(k) ELSE @[t]],
            !.created = @ \cup {s}]

\* remove: a new section is forgotten, another one marked.
RemoveSection(k, s) ==
  IF s \in k.created
  THEN [k EXCEPT !.index = [t \in DOMAIN @ \ {s} |-> @[t]], !.created = @ \ {s}]
  ELSE IF s \in DOMAIN k.index THEN [k EXCEPT !.deleted = @ \cup {s}] ELSE k

\* The method order of the fake uci object: each section in turn is put where
\* as many others are before it as its number says; what the server does not
\* know is skipped.
CallOrder(sections, list) ==
  LET put(all, i) ==
        IF list[i] \in Range(all)
        THEN InsertAt(Without(all, {list[i]}), Min({i + FirstPlace, Len(all)}), list[i]) ELSE all
  IN  FoldLeft(put, sections, [i \in DOMAIN list |-> i])

-----------------------------------------------------------------------------
(* The user.                                                               *)

GridInit ==
  /\ order \in {o \in SetToSeqs(Range(Rows0) \cup Others) : Without(o, Others) = Rows0}
  /\ kept = KeptOf(order) /\ rows = Rows0
  /\ dialog = NoRow /\ added = NoRow /\ saving = Idle
  /\ blemish = Clean /\ acts = 0

\* handleDrop: the row is moved in the table and the section in the cache.
Drag(s, target, after) ==
  /\ Act /\ dialog = NoRow
  /\ {s, target} \subseteq Range(rows) /\ s # target
  /\ rows' = Placed(rows, s, target, after)
  /\ kept' = Move(kept, s, target, after)
  /\ blemish' = [blemish EXCEPT !.strayed = @ \/ ~({s, target} \subseteq Range(SectionsOf(kept)))]
  /\ UNCHANGED <<order, dialog, added, saving>>

\* Map.save: refused by the form, or its requests go out.  Whether the
\* configuration is loaded again is settled now (pkgs of uci.save).
SaveTable(k, inDialog) ==
  /\ saving.phase = "none"
  /\ \/ blemish' = [blemish EXCEPT !.failed = TRUE] /\ UNCHANGED saving
     \/ /\ \E other \in BOOLEAN :
             saving' = [phase |-> "sent", inDialog |-> inDialog, list |-> <<>>,
                        reload |-> k.created # {} \/ k.deleted # {} \/ k.reorder \/ other]
        /\ UNCHANGED blemish

PressSave ==
  /\ Act /\ dialog = NoRow
  /\ SaveTable(kept, FALSE)
  /\ UNCHANGED <<order, kept, rows, dialog, added>>

\* createSID makes names at random.
IsNew(s) == s \notin DOMAIN kept.index \cup Range(rows)

\* handleAdd and handleRemove of a table change the cache and save.
AddRow(s) ==
  /\ Act /\ dialog = NoRow
  /\ IsNew(s)
  /\ kept' = AddSection(kept, s) /\ SaveTable(kept', FALSE)
  /\ UNCHANGED <<order, rows, dialog, added>>

RemoveRow(s) ==
  /\ Act /\ dialog = NoRow
  /\ s \in Range(rows)
  /\ kept' = RemoveSection(kept, s) /\ SaveTable(kept', FALSE)
  /\ UNCHANGED <<order, rows, dialog, added>>

\* handleAdd of a grid opens a dialog on the new section; Edit on an old one.
AddInDialog(s) ==
  /\ Act /\ dialog = NoRow
  /\ IsNew(s)
  /\ kept' = AddSection(kept, s) /\ dialog' = s /\ added' = s
  /\ UNCHANGED <<order, rows, saving, blemish>>

Edit(s) ==
  /\ Act /\ dialog = NoRow
  /\ s \in Range(rows)
  /\ dialog' = s
  /\ UNCHANGED <<order, kept, rows, added, saving, blemish>>

\* handleModalSave forgets that the section is new also if it is refused.
SaveDialog ==
  /\ Act /\ dialog # NoRow
  /\ SaveTable(kept, TRUE)
  /\ added' = IF saving'.phase = "none" THEN NoRow ELSE added
  /\ UNCHANGED <<order, kept, rows, dialog>>

\* handleModalCancel.
Dismiss ==
  /\ dialog # NoRow
  /\ kept' = IF added = NoRow THEN kept ELSE RemoveSection(kept, added)
  /\ dialog' = NoRow /\ added' = NoRow
  /\ UNCHANGED <<order, rows, saving, blemish, acts>>

-----------------------------------------------------------------------------
(* A save on its way.  New and removed sections do not reach the server:   *)
(* the fake uci object refuses the arguments (see UciForm).                *)

\* unload and load, then the table is drawn anew.
Finish(stored) ==
  LET k == IF saving.reload THEN KeptOf(stored) ELSE kept
  IN  /\ kept' = k /\ rows' = CfgSections(k)
      /\ saving' = Idle
      /\ blemish' = IF saving.reload THEN Clean ELSE [blemish EXCEPT !.strayed = FALSE]
      /\ IF saving.inDialog THEN dialog' = NoRow /\ added' = NoRow
         ELSE UNCHANGED <<dialog, added>>

\* A request fails; a dialog stays open.
Fail ==
  /\ saving' = Idle /\ blemish' = [blemish EXCEPT !.failed = TRUE]
  /\ added' = IF saving.inDialog THEN NoRow ELSE added
  /\ UNCHANGED <<rows, dialog>>

\* Faulty variant: the sections in the order in which they were created and loaded.
ReorderListAsLoaded(k) == SetToSeq(k.created) \o SetToSeq((DOMAIN k.index) \ k.created)

\* reorderSections: everything that is there, with what is new and deleted.
ReorderList(k) == ByIndex(k, DOMAIN k.index)

\* The answers to the first requests; then the order is sent if it has changed.
Answered ==
  /\ saving.phase = "sent"
  /\ UNCHANGED <<order, acts>>
  /\ \/ Fail /\ UNCHANGED kept
     \/ kept.reorder = FALSE /\ Finish(order)
     \/ /\ kept.reorder
        /\ kept' = [kept EXCEPT !.reorder = FALSE]
        /\ saving' = [saving EXCEPT !.phase = "ordering", !.list = ReorderList(kept)]
        /\ UNCHANGED <<rows, dialog, added, blemish>>

Ordered ==
  /\ saving.phase = "ordering"
  /\ UNCHANGED acts
  /\ \/ order' = CallOrder(order, saving.list) /\ Finish(order')
     \/ order' \in {order, CallOrder(order, saving.list)} /\ Fail /\ UNCHANGED kept

\* Others move a section to the front, or add one.
Elsewhere(s) ==
  /\ Act
  /\ order' = IF s \in Range(order) THEN <<s>> \o Without(order, {s}) ELSE Append(order, s)
  /\ order' # order
  /\ blemish' = [blemish EXCEPT !.foreign = TRUE]
  /\ UNCHANGED <<kept, rows, dialog, added, saving>>

TableSections == Range(Rows0) \cup Others \cup Strangers

GridNext ==
  \/ \E s, t \in Range(rows), after \in BOOLEAN : Drag(s, t, after)
  \/ PressSave \/ SaveDialog \/ Dismiss \/ Answered \/ Ordered
  \/ \E s \in TempIds : AddRow(s) \/ AddInDialog(s)
  \/ \E s \in Range(rows) : RemoveRow(s) \/ Edit(s)
  \/ \E s \in TableSections : Elsewhere(s)

GridSpec == GridInit /\ [][GridNext]_gridVars

-----------------------------------------------------------------------------
(* Properties.                                                             *)

\* The table shows the sections of its type in the order the cache keeps them
\* in, although a drag moves a row among rows and a section among sections of
\* every type (form.js:2813-2814); unless the row was one whose section is
\* removed already.  Until a save fails, nothing is left in the cache that is
\* not shown: a dialog that is dismissed takes its section back.
TableIsTruthful ==
  LET both == Range(rows) \cap Range(SectionsOf(kept))
      common(seq) == Without(seq, Range(seq) \ both)
  IN  /\ ~blemish.strayed => common(CfgSections(kept)) = common(rows)
      /\ ~blemish.failed /\ dialog = NoRow /\ saving.phase = "none"
           => Range(CfgSections(kept)) \subseteq Range(rows)

\* When everything is saved and nothing has failed,
\* the server has the sections in the order the table shows: the numbers that
\* reorderSections sends one after the other (fubus/uci.lua:89) bring about the
\* order, with new sections in between which the server does not have.
OrderIsStored ==
  saving.phase = "none" /\ ~kept.reorder /\ blemish = Clean
    => Without(order, Others) = Without(rows, TempIds)
=============================================================================
