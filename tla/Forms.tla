------------------------------- MODULE Forms --------------------------------
(***************************************************************************)
(* The parts of a form in the browser, side by side.  A behaviour is of    *)
(* one of them, which the variable part names; the variables of the others *)
(* are 0 in it.  They share no state that changes: what one hands to       *)
(* another (a field's value to the cache, the cache's order to the table)  *)
(* is an input of the other's model.                                       *)
(*                                                                         *)
(*   form     the form, its cache and the saves of its buttons: UciForm    *)
(*   fields   fields that depend on each other: Depends                    *)
(*   table    a table of sections, which are added and moved: Grid         *)
(***************************************************************************)
EXTENDS UciForm, Grid

CONSTANTS FieldOrder, Entries, Off, Empty, Absent, Shapes, MaxEdits

VARIABLES
  part,
  shape, stored, page

Dependent == INSTANCE Depends WITH Inputs <- Entries

ASSUME FormsAssumption ==
  /\ GridAssumption
  /\ Dependent!DependsAssumption
  /\ \A s \in Shapes : Dependent!ShapeOK(s)

fieldVars == <<shape, stored, page>>
vars == <<part, formVars, fieldVars, gridVars>>

FormOff ==
  /\ server = 0 /\ cache = 0 /\ cfg = 0 /\ shown = 0 /\ save = 0 /\ typed = 0 /\ broken = 0
  /\ foreign = 0 /\ failed = 0 /\ crossed = 0 /\ events = 0
FieldOff == shape = 0 /\ stored = 0 /\ page = 0
TableOff ==
  /\ order = 0 /\ kept = 0 /\ rows = 0 /\ dialog = 0 /\ added = 0 /\ saving = 0 /\ blemish = 0
  /\ acts = 0

Init ==
  /\ part \in {"form", "fields", "table"}
  /\ IF part = "form" THEN FormInit ELSE FormOff
  /\ IF part = "fields" THEN Dependent!DependsInit ELSE FieldOff
  /\ IF part = "table" THEN GridInit ELSE TableOff

Next ==
  \/ part = "form" /\ FormNext
       /\ UNCHANGED <<part, fieldVars, gridVars>>
  \/ part = "fields" /\ Dependent!DependsNext
       /\ UNCHANGED <<part, formVars, gridVars>>
  \/ part = "table" /\ GridNext
       /\ UNCHANGED <<part, formVars, fieldVars>>

Spec == Init /\ [][Next]_vars

-----------------------------------------------------------------------------
\* Everything in a form has its type, and the cache's change set is what the
\* next save has to send (UciForm).
CacheAgrees == part = "form" => FormTypeOK /\ DifferencesAgree
\* A form that nobody is saving shows what the server has (UciForm).
QuietFormIsCurrent == part = "form" => QuietIsCurrent
\* A save stores what the form showed when it was pressed (UciForm).
SaveStoresWhatIsShown == [][part = "form" => SavedIsShown]_vars
\* A save leaves on the server what the user has not touched (UciForm).
SaveLeavesUntouched == [][part = "form" => UntouchedStays]_vars

\* Fields are shown as their dependencies say, where two rounds are enough to
\* settle them (Depends).
FieldsSettle == part = "fields" => Dependent!Settled
\* A save stores what is shown, also where fields share an option (Depends).
SharedIsKept == [][part = "fields" => Dependent!SharedIsKept]_vars

\* A table shows the sections in the order in which they will be stored, and
\* the server stores them so (Grid).
TableOrderHolds == part = "table" => TableIsTruthful /\ OrderIsStored
=============================================================================
