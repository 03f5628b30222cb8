------------------------------ MODULE CbiDepends ------------------------------
(***************************************************************************)
(* Fields of a page rendered by the server that depend on other fields,    *)
(* cbi.js: an update takes every dependent field out of the document or    *)
(* puts it back, and starts again as long as something has moved.  A field *)
(* that is taken out has no value for the others.                          *)
(***************************************************************************)
EXTENDS Integers, SequencesExt

CONSTANTS
  Shapes,    \* pages: [parent, index, deps], functions of their fields, and
             \* children, the fields that a field, or the page, holds, in order
  Top,       \* the parent of the fields that are in no other field
  Values,    \* values of inputs
  MaxInputs  \* inputs of the user

Draws(seq, S) == Range(seq) = S /\ seq \in Seq(S)
InPlace(seq, index) == \A i, j \in DOMAIN seq : i < j => index[seq[i]] < index[seq[j]]

\* The server numbers the fields in the order in which it draws them.
CbiAssumption ==
  \A s \in Shapes :
    /\ DOMAIN s.index = DOMAIN s.parent /\ DOMAIN s.deps = DOMAIN s.parent
    /\ \A f, g \in DOMAIN s.parent : s.index[f] \in Nat /\ (s.index[f] = s.index[g] => f = g)
    /\ Top \notin DOMAIN s.parent
    /\ \A f \in DOMAIN s.parent : s.parent[f] \in DOMAIN s.parent \cup {Top}
    /\ DOMAIN s.children = DOMAIN s.parent \cup {Top}
    /\ \A p \in DOMAIN s.children : /\ Draws(s.children[p], {f \in DOMAIN s.parent : s.parent[f] = p})
                                    /\ InPlace(s.children[p], s.index)

VARIABLES
  page,      \* the shape of the page
  children,  \* the fields that a field, or the page, holds, in order
  value,     \* what is in the inputs
  ahead,     \* the entries of cbi_d that the running pass has not reached
  moved,     \* something has moved in this pass
  passes,    \* the passes of the running update, 0 without one
  inputs

cbiVars == <<page, children, value, ahead, moved, passes, inputs>>

-----------------------------------------------------------------------------
Fields == DOMAIN page.parent

\* A condition [on, is] asks for the value of a field; an alternative
\* [conds, reverse, default] for all its conditions.
Alternative(conds, reverse, default) == [conds |-> conds, reverse |-> reverse, default |-> default]

Dependent == {f \in Fields : page.deps[f] # <<>>}

\* cbi_d: each new entry is put in front.
Foremost(f, entries) == f \in entries /\ \A g \in entries : page.index[g] <= page.index[f]

\* The field and all that it is in are in their parents.
InDocument(f) ==
  \E line \in SUBSET Fields :
    /\ f \in line
    /\ \A g \in line : /\ g \in Range(children[page.parent[g]])
                       /\ page.parent[g] \in line \cup {Top}
ParentInDocument(f) == page.parent[f] # Top => InDocument(page.parent[f])

\* Faulty variant of CheckValue: a field that is taken out keeps its value.
CheckValueAnywhere(f, ref) == value[f] = ref
CheckValue(f, ref) == IF InDocument(f) THEN value[f] = ref ELSE ref = ""

Met(alt) ==
  (~alt.default /\ \A c \in alt.conds : CheckValue(c.on, c.is)) # alt.reverse
Check(deps) ==
  (\E i \in DOMAIN deps : Met(deps[i])) \/ (\E i \in DOMAIN deps : deps[i].default)

Without(seq, f) == RemoveAt(seq, CHOOSE i \in DOMAIN seq : seq[i] = f)

\* Before the first field with a greater index.
Inserted(seq, f) ==
  LET later == {i \in DOMAIN seq : page.index[seq[i]] > page.index[f]}
  IN  InsertAt(seq, Min(later \cup {Len(seq) + 1}), f)

-----------------------------------------------------------------------------
\* One entry of the loop of cbi_d_update.
Entry(f) ==
  LET p     == page.parent[f]
      holds == Check(page.deps[f])
      out   == InDocument(f) /\ ~holds
      back  == ~InDocument(f) /\ ParentInDocument(f) /\ holds
  IN  /\ Foremost(f, ahead)
      /\ children' = IF out THEN [children EXCEPT ![p] = Without(@, f)]
                     ELSE IF back THEN [children EXCEPT ![p] = Inserted(@, f)]
                     ELSE children
      /\ moved' = (moved \/ out \/ back)
      /\ ahead' = ahead \ {f}
      /\ UNCHANGED <<page, value, passes, inputs>>

Unsettled == moved

Fresh == FALSE

\* After the loop: again, or done.
Finish ==
  /\ passes # 0 /\ ahead = {}
  /\ ahead' = IF Unsettled THEN Dependent ELSE {}
  /\ passes' = IF Unsettled THEN passes + 1 ELSE 0
  /\ moved' = Fresh
  /\ UNCHANGED <<page, children, value, inputs>>

\* A change of an input, which runs the update.
Input(f, v) ==
  /\ passes = 0 /\ inputs < MaxInputs
  /\ InDocument(f) /\ v # value[f]
  /\ value' = [value EXCEPT ![f] = v]
  /\ ahead' = Dependent /\ passes' = 1
  /\ inputs' = inputs + 1
  /\ UNCHANGED <<page, children, moved>>

-----------------------------------------------------------------------------
\* cbi_init, when the page is loaded with all its fields.
Init ==
  /\ page \in Shapes
  /\ value \in [Fields -> Values]
  /\ children = page.children
  /\ ahead = Dependent /\ moved = FALSE /\ passes = 1 /\ inputs = 0

Next ==
  \/ \E f \in ahead : Entry(f)
  \/ Finish
  \/ \E f \in Fields, v \in Values : Input(f, v)

Spec == Init /\ [][Next]_cbiVars

-----------------------------------------------------------------------------
\* Type correctness.
CbiTypeOK ==
  /\ page \in Shapes /\ value \in [Fields -> Values]
  /\ DOMAIN children = Fields \cup {Top}
  /\ \A p \in DOMAIN children : children[p] \in Seq({f \in Fields : page.parent[f] = p})
  /\ ahead \in SUBSET Dependent /\ passes \in Nat /\ moved \in BOOLEAN

\* Once an update is over exactly those fields are shown whose conditions the
\* shown fields meet, in whatever order fields depend on each other, and they
\* stand in their places.  Refers to cbi_d_update and cbi_d_check (cbi.js).
OnlyMetAreShown ==
  passes = 0 =>
    LET is(c) == IF InDocument(c.on) THEN value[c.on] = c.is ELSE c.is = ""
        met(a) == (~a.default /\ \A c \in a.conds : is(c)) # a.reverse
    IN  /\ \A f \in Dependent :
             ParentInDocument(f) =>
               (InDocument(f) <=> \E a \in Range(page.deps[f]) : met(a) \/ a.default)
        /\ \A p \in DOMAIN children : InPlace(children[p], page.index)

\* Where no field depends on itself, an update is over after one pass more than
\* there are dependent fields.  Refers to the recursion of cbi_d_update (cbi.js).
UpdateEnds == passes <= Cardinality(Dependent) + 1
=============================================================================
