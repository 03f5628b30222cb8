------------------------------- MODULE Options -------------------------------
(***************************************************************************)
(* The way of an option's value through a form: from the configuration     *)
(* into a widget (form.js and tools/widgets.js choose and fill it, ui.js   *)
(* renders it), back out of the widget, changed by the user or not, and    *)
(* into the configuration.                                                 *)
(*                                                                         *)
(* A value is nothing, a text or a list; a text is the sequence of its     *)
(* words.  The list items of a dropdown are texts too.                     *)
(***************************************************************************)
EXTENDS Naturals, SequencesExt

CONSTANTS Keys,      \* the choices there may be, in their order
          Unknown,   \* a word that is no choice
          Glued,     \* the words of a list with commas between them
          Kinds,     \* the kinds of options to look at
          MaxSaves

VARIABLES
  opt,      \* the option: its kind, default, choices and flags
  stored,   \* the value in the configuration
  shown,    \* what the widget would return
  touched,  \* the user has changed the widget since it was drawn
  saves

optionVars == <<opt, stored, shown, touched, saves>>

-----------------------------------------------------------------------------
Nothing == [type |-> "none", words |-> <<>>]
Text(words) == [type |-> "text", words |-> words]
List(words) == [type |-> "list", words |-> words]
Entered == Range(Keys) \cup {Unknown}
NoText == Text(<<>>)

IsEmpty(v) == v.words = <<>>

\* toArray, and what the browser makes of a list where it wants a text.
ToArray(v) == v.words
AsText(v) == IF v.type = "list" /\ Len(v.words) > 1 THEN Text(<<Glued>>) ELSE Text(v.words)
Joined(v) == IF v.type = "list" THEN Text(v.words) ELSE v

InOrder(set) == SelectSeq(Keys \o <<Unknown, Glued>>, LAMBDA w : w \in set)
Once(words) == FoldLeft(LAMBDA l, w : IF Contains(l, w) THEN l ELSE Append(l, w), <<>>, words)

-----------------------------------------------------------------------------
(* The widgets: what getValue returns once a value is rendered.            *)

Textfield(v) == Text(v.words)
Textarea(v) == AsText(v)
Hiddenfield(v) == AsText(v)
FileUpload(v) == AsText(v)
Checkbox(v, on, off) == IF AsText(v) = on THEN on ELSE off
DynamicList(items) == List(Once(items))

\* The browser selects the first option when none is.
Select(v, choices, optional) ==
  LET all == (IF optional \/ NoText \in Range(choices) THEN <<NoText>> ELSE <<>>)
               \o SelectSeq(choices, LAMBDA c : c # NoText)
      key == Text(IF v.type = "list" THEN SubSeq(v.words, 1, 1) ELSE v.words)
  IN  IF key \in Range(all) THEN key ELSE IF all = <<>> THEN NoText ELSE all[1]
RadioChecked(v, choices) ==
  LET key == Text(IF v.type = "list" THEN SubSeq(v.words, 1, 1) ELSE v.words)
  IN  IF ~IsEmpty(v) /\ key \in Range(choices) THEN key ELSE Nothing

\* A dropdown for one value: without a selected item its first one, which is a
\* placeholder when it is optional and has no empty choice.
Dropdown(values, choices, optional, create) ==
  LET new  == SelectSeq(values, LAMBDA v : create /\ v \notin Range(choices))
      all  == choices \o new
      sel  == SelectSeq(all, LAMBDA c : c \in Range(values))
      none == optional /\ NoText \notin Range(all)
  IN  IF sel # <<>> THEN sel[1] ELSE IF none \/ all = <<>> THEN Nothing ELSE all[1]
Combobox(v, choices) == Dropdown(IF IsEmpty(v) THEN <<>> ELSE <<v>>, choices, TRUE, TRUE)
MultiDropdown(words, choices) == List(SelectSeq(choices, LAMBDA c : c \in Range(words)))

-----------------------------------------------------------------------------
(* The kinds of options: the widget they choose, and what they give it.    *)

Offered == [i \in DOMAIN opt.choices |-> Text(opt.choices[i])]
ChoiceWords == FlattenSeq(opt.choices)
Value(v) == IF Offered # <<>> THEN Combobox(Joined(v), Offered) ELSE Textfield(Joined(v))
ListValue(v) == Select(v, Offered, opt.optional)
RadioValue(v) == RadioChecked(v, Offered)
FlagValue(v) == Checkbox(v, Text(<<"1">>), Text(<<"0">>))
MultiValue(v) == MultiDropdown(ToArray(v), ChoiceWords)
DynamicListValue(v) == DynamicList(ToArray(v))
TextValue(v) == Textarea(v)
ButtonValue(v) == Hiddenfield(v)
FileValue(v) == FileUpload(v)
DummyValue(v) == Hiddenfield(v)

MayBeEmpty == opt.optional \/ opt.rmempty
One(word) == <<Text(<<word>>)>>
EmptyFirst(choices, b) == IF b THEN <<NoText>> \o choices ELSE choices
EachText(words) == [i \in DOMAIN words |-> Text(<<words[i]>>)]

\* A select for networks takes up only the ones there are.
NetworkSelect(v) ==
  LET known == SelectSeq(ChoiceWords, LAMBDA w : w \in Range(ToArray(v)))
  IN  IF opt.multiple THEN MultiDropdown(known, ChoiceWords)
      ELSE Dropdown(IF known = <<>> THEN <<>> ELSE One(known[1]),
                    EmptyFirst(EachText(ChoiceWords), MayBeEmpty), MayBeEmpty, opt.create)

\* One for devices adds absent ones; the empty choice is not in its order.
DeviceSelect(v) ==
  LET absent == {w \in Range(ToArray(v)) : opt.create /\ ~Contains(ChoiceWords, w)}
      order  == ChoiceWords \o InOrder(absent)
      known  == SelectSeq(order, LAMBDA w : w \in Range(ToArray(v)))
  IN  IF opt.multiple THEN MultiDropdown(known, order)
      ELSE Dropdown(IF known = <<>> THEN <<>> ELSE One(known[1]), EachText(order), MayBeEmpty, opt.create)

ZoneSelect(v) ==
  LET new == SelectSeq(ToArray(v), LAMBDA w : opt.create /\ ~Contains(ChoiceWords, w))
  IN  IF opt.multiple THEN MultiDropdown(ToArray(v), ChoiceWords \o new)
      ELSE Dropdown(EachText(ToArray(v)), EmptyFirst(EachText(ChoiceWords), MayBeEmpty), MayBeEmpty, opt.create)

Rendered(cfgvalue) ==
  LET v == IF cfgvalue # Nothing THEN cfgvalue ELSE opt.default
  IN  CASE opt.kind = "value"   -> Value(v)
        [] opt.kind = "list"    -> ListValue(v)
        [] opt.kind = "radio"   -> RadioValue(v)
        [] opt.kind = "flag"    -> FlagValue(v)
        [] opt.kind = "multi"   -> MultiValue(v)
        [] opt.kind = "dynlist" -> DynamicListValue(v)
        [] opt.kind = "text"    -> TextValue(v)
        [] opt.kind = "button"  -> ButtonValue(v)
        [] opt.kind = "file"    -> FileValue(v)
        [] opt.kind = "dummy"   -> DummyValue(v)
        [] opt.kind = "network" -> NetworkSelect(v)
        [] opt.kind = "device"  -> DeviceSelect(v)
        [] opt.kind = "zone"    -> ZoneSelect(v)

-----------------------------------------------------------------------------
(* parse, write and remove.                                                *)

IsEqual(x, y) == x = y

\* Faulty variant of ParseFlag: what is the default leaves the stored value.
ParseFlagSwapped(fval) == IF fval = opt.default /\ MayBeEmpty THEN stored ELSE fval
ParseFlag(fval) == IF fval = opt.default /\ MayBeEmpty THEN Nothing ELSE fval

Parse(fval) ==
  IF opt.kind = "dummy" THEN stored
  ELSE IF opt.kind = "flag" THEN ParseFlag(fval)
  ELSE IF ~IsEmpty(fval) THEN (IF IsEqual(stored, fval) THEN stored ELSE fval)
  ELSE IF MayBeEmpty THEN Nothing ELSE stored

Refused(fval) == opt.kind \notin {"dummy", "flag"} /\ IsEmpty(fval) /\ ~MayBeEmpty /\ ~IsEqual(stored, fval)

-----------------------------------------------------------------------------
Listed == {"multi", "dynlist"}
Many == opt.kind \in Listed \/ opt.multiple

\* What a user can bring a widget to return.
Enterable ==
  CASE opt.kind \in {"value", "text"} -> {Text(<<w>>) : w \in Entered} \cup {NoText}
    [] opt.kind = "flag"              -> {Text(<<"0">>), Text(<<"1">>)}
    [] opt.kind = "dynlist"           -> {List(l) : l \in {<<>>, <<"b", "a">>, <<Unknown>>}}
    [] opt.kind \in {"dummy", "button"} -> {}
    [] opt.kind = "file"              -> {Text(<<Unknown>>), NoText}
    [] OTHER -> IF Many THEN {List(InOrder(s)) : s \in SUBSET Range(ChoiceWords)}
                ELSE Range(Offered) \cup (IF opt.kind \in {"list", "network", "zone"} /\ opt.optional THEN {NoText} ELSE {})

Stores == {Nothing} \cup (IF opt.kind = "flag" THEN {Text(<<"0">>), Text(<<"1">>)} ELSE {})
            \cup {Text(<<w>>) : w \in Entered} \cup {Text(<<"b", "a">>)}
            \cup {List(l) : l \in {<<"a">>, <<"a", "b">>, <<"b", "a">>, <<"a", "a">>, <<Unknown, "b">>}}

Init ==
  /\ opt \in [kind : Kinds, default : {Nothing, Text(<<"a">>), Text(<<"0">>), Text(<<"1">>)},
              choices : {<<>>, <<<<"a">>, <<"b">>>>, <<<<"a">>, <<>>>>, <<<<>>, <<"a">>>>}, optional : BOOLEAN, rmempty : BOOLEAN,
              multiple : BOOLEAN, create : BOOLEAN]
  /\ opt.kind = "flag" <=> opt.default \in {Text(<<"0">>), Text(<<"1">>)}
  /\ opt.kind \notin {"network", "device", "zone"} => ~opt.multiple /\ ~opt.create
  /\ opt.kind \in {"flag", "dynlist", "text", "button", "file", "dummy"} => opt.choices = <<>>
  /\ opt.kind \in {"multi", "list", "radio"} => opt.choices # <<>>
  /\ opt.kind \in {"network", "device", "zone", "multi"} => <<>> \notin Range(opt.choices)
  /\ stored \in Stores
  /\ shown = Rendered(stored)
  /\ touched = FALSE /\ saves = 0

Edit(v) ==
  /\ ~touched /\ v # shown
  /\ shown' = v /\ touched' = TRUE
  /\ UNCHANGED <<opt, stored, saves>>

\* A form is drawn anew after it was saved.
Save ==
  /\ saves < MaxSaves /\ saves' = saves + 1
  /\ ~Refused(shown)
  /\ stored' = Parse(shown)
  /\ shown' = Rendered(stored')
  /\ touched' = FALSE
  /\ UNCHANGED opt

Next == (\E v \in Enterable : Edit(v)) \/ Save

Spec == Init /\ [][Next]_optionVars

-----------------------------------------------------------------------------
\* Type correctness.
IsValue(v) == v.type \in {"none", "text", "list"} /\ Range(v.words) \subseteq Entered \cup {Glued, "0", "1"}
OptionsTypeOK == IsValue(stored) /\ IsValue(shown) /\ touched \in BOOLEAN /\ saves \in 0 .. MaxSaves

\* What a stored value stands for.
Means(v) == IF v = Nothing THEN (IF Many THEN opt.default.words ELSE opt.default)
            ELSE IF Many THEN v.words ELSE v

\* The values that the widget of an option can represent.
Fits(v) ==
  LET e == IF v = Nothing THEN opt.default ELSE v
  IN  CASE opt.kind = "value" ->
             /\ e.type # "list"
             /\ IsEmpty(e) => opt.choices = <<>> \/ <<>> \notin Range(opt.choices) \/ opt.choices[1] = <<>>
        [] opt.kind = "list"  -> IF e = Nothing THEN opt.optional \/ <<>> \in Range(opt.choices)
                                 ELSE e \in Range(Offered)
        [] opt.kind = "radio" -> e = Nothing \/ e \in Range(Offered)
        [] opt.kind = "flag"  -> e \in {Text(<<"0">>), Text(<<"1">>)}
        [] opt.kind = "dynlist" -> IsInjective(e.words)
        [] opt.kind \in {"text", "button", "file"} -> e.type # "list"
        [] opt.kind = "dummy" -> TRUE
        [] opt.kind = "device" /\ opt.create ->
             IF Many THEN e.words = SelectSeq(ChoiceWords \o InOrder(Range(e.words) \ Range(ChoiceWords)), LAMBDA w : w \in Range(e.words))
             ELSE IF e = Nothing THEN MayBeEmpty ELSE e.type = "text" /\ Len(e.words) = 1
        [] opt.kind = "zone" /\ opt.create /\ ~Many /\ e # Nothing -> e.type = "text" /\ Len(e.words) = 1
        [] OTHER -> IF Many THEN e.words = SelectSeq(ChoiceWords, LAMBDA w : w \in Range(e.words))
                    ELSE IF e = Nothing THEN MayBeEmpty
                    ELSE e.type = "text" /\ e \in Range(Offered)

\* Saving a form that nobody has touched changes no value that its widget can
\* represent: a choice among the choices, a list in the order of the choices,
\* an absent device where devices may be created.  Refers to renderWidget and
\* parse of the options (form.js, tools/widgets.js) and the widgets of ui.js.
UntouchedIsKept ==
  saves' # saves /\ ~touched /\ Fits(stored) => Means(stored') = Means(stored)

\* What the user has entered is what the form shows after it was saved; except
\* that a field that was emptied shows its default again, or the first choice
\* where its widget cannot show that there is none.
\* Refers to parse, write, remove and load (form.js).
EnteredIsShown ==
  saves' # saves /\ touched =>
    \/ shown' = shown
    \/ IsEmpty(shown) /\ (opt.default # Nothing \/ ~Fits(Nothing) \/ IsEmpty(shown'))
=============================================================================
