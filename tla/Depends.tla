------------------------------ MODULE Depends ------------------------------
(***************************************************************************)
(* The fields of one section of a form and what they depend on: form.js    *)
(* depends, checkDepends, updateDefaultValue, and how parse writes options *)
(* that several fields share.  Fields are checked in the order they are    *)
(* drawn in, while each reads from the page whether the others are shown.  *)
(***************************************************************************)
EXTENDS Naturals, FiniteSets, SequencesExt

CONSTANTS FieldOrder, \* the fields, in the order of the section's children
          Inputs,     \* what can be entered
          Off,        \* the one of a check box that is not ticked
          Empty,      \* an input field with nothing in it
          Absent,     \* null
          Shapes,     \* the forms that are checked, see ShapeOK
          MaxEdits    \* bound: how many fields are edited before a save

(***************************************************************************)
(* A shape gives each field                                                *)
(*   deps      its dependencies: alternatives, each with the values other  *)
(*             fields must have, !reverse and !default                     *)
(*   defaults  a list of default values with their dependencies            *)
(*   option    the option it reads and writes                              *)
(*   declared  is that in ucioption?  Otherwise the field is named so.     *)
(*   flag      is it a check box, which has the value Off when not ticked? *)
(*   needed    must it not be empty (neither rmempty nor optional)?        *)
(***************************************************************************)
Controls == Range(FieldOrder)

DependsAssumption ==
  /\ FieldOrder \in Seq(Controls)
  /\ IsInjective(FieldOrder)

Alternative(fields, want, reverse, otherwise) ==
  [want |-> [f \in fields |-> want], reverse |-> reverse, otherwise |-> otherwise]

DepsOK(deps) == \A a \in deps : DOMAIN a.want \subseteq Controls
DefaultsOK(list) == /\ list \in Seq(Range(list))
                    /\ \A d \in Range(list) : d.value \in Inputs /\ DepsOK(d.deps)
ShapeOK(s) ==
  /\ DOMAIN s = {"deps", "defaults", "option", "declared", "flag", "needed"}
  /\ \A f \in Controls : DepsOK(s.deps[f]) /\ DefaultsOK(s.defaults[f])
  /\ s.declared \subseteq Controls /\ s.flag \subseteq Controls
  /\ s.needed \subseteq Controls

VARIABLES
  shape,   \* the form at hand
  stored,  \* the options, with the changes that are made to them
  page     \* the fields: their input, default, the options when they were
           \* loaded, which are hidden, and which have the mark data-changed

dependsVars == <<shape, stored, page>>

Options == {shape.option[f] : f \in Controls}
Shown(p, f) == f \notin p.hidden

-----------------------------------------------------------------------------
(* Dependencies.                                                           *)

\* isDependencySatisfied: hidden fields have the value null, which nothing
\* equals and no expression matches.
Met(p, a) ==
  /\ ~a.otherwise
  /\ \A f \in DOMAIN a.want : Shown(p, f) /\ p.input[f] \in a.want[f]

IsDependencySatisfied(p, deps) ==
  \/ deps = {}
  \/ \E a \in deps : Met(p, a) # a.reverse
  \/ \E a \in deps : a.otherwise

\* updateDefaultValue: the first default whose dependencies are satisfied, or
\* the one without any; it goes into a field that has never had a value.
DefaultOf(p, f) ==
  LET list == shape.defaults[f]
      plain == {i \in DOMAIN list : list[i].deps = {}}
      met == {i \in DOMAIN list \ plain : IsDependencySatisfied(p, list[i].deps)}
  IN  IF met # {} THEN list[Min(met)].value
      ELSE IF plain # {} THEN list[Max(plain)].value ELSE Absent

UpdateDefaultValue(p, f) ==
  LET value == DefaultOf(p, f)
  IN  IF shape.defaults[f] = <<>> THEN p
      ELSE [p EXCEPT !.default[f] = value,
                     !.input[f] = IF /\ f \notin p.edited /\ value # Absent
                                     /\ p.loaded[shape.option[f]] = Absent
                                  THEN value ELSE @]

\* One field: checkDepends of the option, then setActive.
CheckField(p, f) ==
  LET satisfied == IsDependencySatisfied(p, shape.deps[f])
      updated == IF satisfied THEN UpdateDefaultValue(p, f) ELSE p
  IN  IF shape.deps[f] = {} THEN p
      ELSE IF satisfied = Shown(p, f) THEN updated
      ELSE [updated EXCEPT !.hidden = IF satisfied THEN @ \ {f} ELSE @ \cup {f}]

\* checkDepends of the section: every field once.
CheckAll(p) == FoldLeft(CheckField, p, FieldOrder)

\* Faulty variant: the fields are checked once.
CheckOnce(p) == CheckAll(p)

\* checkDepends of the map repeats itself if something has changed: once, as
\* the second call has the number 11.
CheckDepends(p) == LET first == CheckAll(p)
                   IN  IF first.hidden # p.hidden THEN CheckAll(first) ELSE first

-----------------------------------------------------------------------------
(* Drawing, editing and saving.                                            *)

\* renderFrame hides what depends on something; renderContents checks then.
Rendered(options, default) ==
  [input   |-> [f \in Controls |->
                 LET v == options[shape.option[f]]
                 IN  IF v # Absent THEN v
                     ELSE IF default[f] # Absent THEN default[f] ELSE Empty],
   hidden  |-> {f \in Controls : shape.deps[f] # {}},
   default |-> default,
   loaded  |-> options,
   edited  |-> {}]

\* The default of a check box is its value for "off" until another is set.
FirstDefault == [f \in Controls |-> IF f \in shape.flag THEN Off ELSE Absent]

DependsInit ==
  /\ shape \in Shapes
  /\ stored \in [Options -> Inputs \cup {Absent}]
  /\ page = CheckDepends(Rendered(stored, FirstDefault))

\* The event widget-change of a field reaches checkDepends of the map.
EditField(f, v) ==
  /\ Cardinality(page.edited \cup {f}) <= MaxEdits
  /\ Shown(page, f) /\ page.input[f] # v
  /\ f \in shape.flag => v # Empty
  /\ page' = CheckDepends([page EXCEPT !.input[f] = v, !.edited = @ \cup {f}])
  /\ UNCHANGED <<shape, stored>>

\* Faulty variant: a hidden field removes its option whoever else uses it.
RemoveAlways(p, options, f) == [options EXCEPT ![shape.option[f]] = Absent]

\* remove: not if another field that is shown declares the same ucioption.
RemoveOption(p, options, f) ==
  IF \E g \in shape.declared \ {f} : shape.option[g] = shape.option[f] /\ Shown(p, g)
  THEN options ELSE [options EXCEPT ![shape.option[f]] = Absent]

Removable(f) == f \notin shape.needed
Refused(p, f) == Shown(p, f) /\ p.input[f] = Empty /\ ~Removable(f)

\* parse of a value and of a check box: the latter is written even unchanged.
ParseField(p, options, f) ==
  LET o == shape.option[f]
      written == [options EXCEPT ![o] = p.input[f]]
      removed == IF Removable(f) \/ ~Shown(p, f) THEN RemoveOption(p, options, f) ELSE options
  IN  IF ~Shown(p, f) \/ p.input[f] = Empty THEN removed
      ELSE IF f \in shape.flag
      THEN IF p.input[f] = p.default[f] /\ Removable(f) THEN removed ELSE written
      ELSE IF p.input[f] # p.loaded[o] THEN written ELSE options

Parsed(p) == FoldLeft(LAMBDA options, f : ParseField(p, options, f), stored, FieldOrder)

\* Map.save: every field is parsed, even if one refuses.  When all is stored
\* and loaded, the form is drawn anew.
SaveFields ==
  LET now == CheckDepends(page)
  IN  /\ stored' = Parsed(now)
      /\ page' = IF \E f \in Controls : Refused(now, f) THEN now
                 ELSE CheckDepends(Rendered(stored', now.default))
  /\ UNCHANGED shape

DependsNext ==
  \/ \E f \in Controls, v \in Inputs \cup {Empty} : EditField(f, v)
  \/ SaveFields

DependsSpec == DependsInit /\ [][DependsNext]_dependsVars

-----------------------------------------------------------------------------
(* Properties.                                                             *)

\* What f reads of g: a dependency, or one of a default value.
DependsOn(f, g) ==
  \/ \E a \in shape.deps[f] : g \in DOMAIN a.want
  \/ \E i \in DOMAIN shape.defaults[f] : \E a \in shape.defaults[f][i].deps : g \in DOMAIN a.want
Precedes(f, g) == \E i, j \in DOMAIN FieldOrder : i < j /\ FieldOrder[i] = f /\ FieldOrder[j] = g

\* f is decided before g, or as g, on which it depends.  A field without
\* dependencies counts for nothing, as it is never decided.
Backward(f, g) == DependsOn(f, g) /\ ~Precedes(g, f) /\ shape.deps[g] # {}

\* A form that two rounds are enough for: what a field needs may be drawn
\* after it, but on no chain of dependencies twice, and not if it takes a
\* default value.  A field that depends on itself is on such a chain.
TwoRoundsDo ==
  \A f, g \in Controls : Backward(f, g) =>
    /\ shape.defaults[g] = <<>>
    /\ \E chain \in SUBSET Controls :
         /\ g \in chain
         /\ \A h \in chain, k \in Controls : DependsOn(h, k) => k \in chain /\ ~Backward(h, k)

\* Once an edit has been dealt with, each field is shown exactly if what it
\* depends on is so: although each is decided while others are yet to be
\* (form.js:748 repeats the round once).
Settled ==
  \/ \A f \in Controls : Shown(page, f) <=> IsDependencySatisfied(page, shape.deps[f])
  \/ ~TwoRoundsDo

\* A save that is not refused, after no other failed, stores what is shown
\* and drops what is not, also where several fields stand for one option of
\* which one is shown ("found another active option aliasing the same uci
\* option name", form.js:2082).
SharedIsKept ==
  LET now == CheckDepends(page)
      saved == page.edited # {} /\ page'.edited = {} /\ stored = page.loaded
      fields(o) == {f \in Controls : shape.option[f] = o}
      shown(o) == {f \in fields(o) : Shown(now, f)}
      meant(f) == IF \/ now.input[f] = Empty
                     \/ f \in shape.flag /\ Removable(f) /\ now.input[f] = now.default[f]
                  THEN Absent ELSE now.input[f]
  IN  saved => \A o \in Options :
        /\ shown(o) = {} => stored'[o] = Absent
        /\ \A f \in fields(o) :
             shown(o) = {f} /\ (f \in shape.declared \/ fields(o) = {f})
               => stored'[o] = meant(f)
=============================================================================
