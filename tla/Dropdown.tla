------------------------------ MODULE Dropdown ------------------------------
(***************************************************************************)
(* UIDropdown, UICombobox and UIDynamicList of ui.js.  What the user sees  *)
(* selected is kept in the list items, what a form reads in hidden inputs; *)
(* a dynamic list has a combobox whose choices are its suggestions, and    *)
(* takes what is chosen there into the list.                               *)
(*                                                                         *)
(* ul leaves out the item with the text input, which is always last and    *)
(* cannot be selected.  A mandatory dropdown has a choice.                 *)
(***************************************************************************)
EXTENDS Naturals, SequencesExt

CONSTANTS Keys,        \* values of choices and of what users type, in their order
          Empty,       \* the value "", which a choice may have
          Placeholder, \* what stands for the placeholder item
          MaxUses      \* bound: calls and clicks

VARIABLES
  kind,     \* single, multiple, or list: the combobox of a dynamic list
  optional, \* the option optional
  create,   \* the option create
  ul,       \* the list items
  hidden,   \* the values of the hidden inputs
  open,     \* whether the dropdown is open
  list,     \* the values of the items of the dynamic list
  cleared,  \* the choices were cleared with their values, and nothing was selected since
  uses

widget == <<kind, optional, create>>
vars == <<widget, ul, hidden, open, list, cleared, uses>>

Choosable == Range(Keys) \cup {Empty}
Item(v) == [val |-> v, sel |-> FALSE, locked |-> FALSE, made |-> "given"]

TypeOK ==
  /\ kind \in {"single", "multiple", "list"} /\ optional \in BOOLEAN /\ create \in BOOLEAN
  /\ ul \in Seq([val : Choosable \cup {Placeholder}, sel : BOOLEAN, locked : BOOLEAN,
                 made : {"given", "created", "custom"}])
  /\ hidden \in Seq(Choosable) /\ open \in BOOLEAN /\ list \in Seq(Choosable)
  /\ cleared \in BOOLEAN /\ uses \in 0 .. MaxUses

Places(u, v) == {i \in DOMAIN u : u[i].val = v}
Selected(u) == {i \in DOMAIN u : u[i].sel}
First(S) == CHOOSE i \in S : \A j \in S : i <= j

-----------------------------------------------------------------------------
(* render and bind.                                                        *)

\* With create, a value that is no choice is added to the choices.
Rendered(choices, values, creates) ==
  LET unknown == SelectSeq(Keys, LAMBDA v : creates /\ v \in values \ choices)
      keys    == SelectSeq(Keys, LAMBDA v : v \in choices) \o unknown
      all     == (IF Empty \in choices THEN <<Empty>> ELSE <<>>) \o keys
  IN  [i \in DOMAIN all |-> [Item(all[i]) EXCEPT !.sel = all[i] \in values]]

\* A single one has one item selected: the first that is, or the first item.
Bound(u, many, opt) ==
  LET v == IF opt /\ Places(u, Empty) = {} THEN <<Item(Placeholder)>> \o u ELSE u
      s == IF Selected(v) # {} THEN First(Selected(v)) ELSE 1
  IN  IF many THEN u ELSE [i \in DOMAIN v |-> [v[i] EXCEPT !.sel = (i = s)]]

\* saveValues: hidden inputs for what is selected, without the placeholder.
Saved(u) ==
  LET real == SelectSeq(u, LAMBDA li : li.sel /\ li.val # Placeholder)
  IN  [i \in DOMAIN real |-> real[i].val]

Init ==
  \E choices, values \in SUBSET Choosable :
    /\ kind \in {"single", "multiple", "list"} /\ optional \in BOOLEAN /\ create \in BOOLEAN
    /\ kind = "list" => optional /\ create /\ Empty \notin choices \cup values
    /\ kind = "multiple" => Empty \notin choices \cup values
    /\ ~optional => values \cap choices # {}
    /\ LET shown == IF kind = "list" THEN {} ELSE values
       IN  ul = Bound(Rendered(choices, shown, create), kind = "multiple", optional)
    /\ hidden = Saved(ul)
    /\ open = FALSE /\ cleared = FALSE
    /\ list = IF kind = "list" THEN SelectSeq(Keys, LAMBDA v : v \in values) ELSE <<>>
    /\ uses = 0

Use == uses < MaxUses /\ uses' = uses + 1 /\ UNCHANGED widget

-----------------------------------------------------------------------------
(* toggleItem, on list items: force is "on", "off" or "toggle".            *)

ToggleMany(u, i, force) ==
  LET keeps == IF u[i].sel THEN force = "on" \/ (~optional /\ Selected(u) = {i})
                           ELSE force = "off"
  IN  IF u[i].locked \/ keeps THEN u ELSE [u EXCEPT ![i].sel = ~@]

ToggleOne(u, i) ==
  LET v == IF Selected(u) = {} THEN u ELSE [u EXCEPT ![First(Selected(u))].sel = FALSE]
  IN  IF u[i].locked THEN u ELSE [v EXCEPT ![i].sel = TRUE]

Toggle(u, i, force) == IF kind = "multiple" THEN ToggleMany(u, i, force) ELSE ToggleOne(u, i)

\* createItems for one word: the item that has the value is turned on, and a
\* new one takes the place of the one that was created before.
Created(u, v) ==
  LET others == IF kind = "multiple" THEN u ELSE SelectSeq(u, LAMBDA li : li.made # "created")
      made   == IF kind = "multiple" THEN "given" ELSE "created"
      w      == IF v = Empty \/ Places(u, v) # {} THEN u
                ELSE Append(others, [Item(v) EXCEPT !.made = made])
  IN  IF v = Empty THEN u ELSE Toggle(w, First(Places(w, v)), "on")

\* setValues: what is given first of many is all a single one looks at.
Set(u, values) ==
  LET some == IF kind = "multiple" \/ values = <<>> THEN values ELSE <<values[1]>>
      v    == IF create THEN FoldLeft(Created, u, some) ELSE u
      none == IF kind # "multiple" /\ Places(v, Placeholder) # {}
              THEN ToggleOne(v, First(Places(v, Placeholder))) ELSE v
      each(w, i) ==
        LET wanted == \E k \in DOMAIN some : some[k] = w[i].val
        IN  IF w[i].val = Placeholder \/ (kind # "multiple" /\ ~wanted) THEN w
            ELSE Toggle(w, i, IF wanted THEN "on" ELSE "off")
  IN  FoldLeft(each, none, [i \in DOMAIN v |-> i])

-----------------------------------------------------------------------------
(* What the user does and what callers do with a dropdown.                 *)

\* Faulty variant of Saves: the hidden inputs stay as they are when it closes.
SavesOpen(u) == hidden' = (IF open THEN hidden ELSE Saved(u)) /\ ul' = u /\ cleared' = cleared

Saves(u) == hidden' = Saved(u) /\ ul' = u /\ cleared' = (cleared /\ Selected(u) = {})

\* The value of the change event reaches the dynamic list, which empties the
\* combobox, locks the choice and takes the value if it does not have it.
Taken(u) ==
  LET i == First(Selected(u))
      v == ToggleOne(u, First(Places(u, Placeholder)))
      made == IF u[i].made = "created" THEN "custom" ELSE u[i].made
  IN  [v EXCEPT ![i].locked = TRUE, ![i].made = made]

Changed(u) ==
  IF kind = "list" /\ Saved(u) # <<>>
  THEN /\ Saves(Taken(u))
       /\ list' = IF Contains(list, Saved(u)[1]) THEN list ELSE Append(list, Saved(u)[1])
  ELSE Saves(u) /\ list' = list

Open == /\ Use /\ ~open
        /\ open' = TRUE
        /\ UNCHANGED <<ul, hidden, list, cleared>>

\* A click on an item, or the space bar; a single one closes.
Choose(i) ==
  /\ Use /\ open
  /\ IF ul[i].locked THEN UNCHANGED <<ul, hidden, open, list, cleared>>
     ELSE Changed(Toggle(ul, i, "toggle")) /\ open' = (kind = "multiple")

\* Enter on an item, and the event cbi-dropdown-select.
ChooseAndClose(i) ==
  /\ Use /\ open
  /\ Changed(IF ul[i].sel THEN ul ELSE Toggle(ul, i, "toggle"))
  /\ open' = FALSE

Close ==
  /\ Use /\ open
  /\ Changed(ul)
  /\ open' = FALSE

\* Enter in the text input.
Type(v) ==
  /\ Use /\ create /\ v # Empty
  /\ LET u == Created(ul, v)
     IN  IF \E i \in Places(ul, v) : ul[i].locked
         THEN UNCHANGED <<ul, hidden, open, list, cleared>>
         ELSE Changed(u) /\ open' = (open /\ kind = "multiple")

\* setValue of a dropdown; where no item is toggled nothing is saved.
SetValue(values) ==
  /\ Use /\ kind # "list"
  /\ IF Set(ul, values) = ul THEN UNCHANGED <<ul, hidden, open, cleared>>
     ELSE Saves(Set(ul, values)) /\ open' = (open /\ kind = "multiple")
  /\ list' = list

\* A new choice goes before the text input or, without one, before the last.
AddChoice(v) ==
  LET at == IF create \/ ul = <<>> THEN Len(ul) + 1 ELSE Len(ul)
  IN  /\ Use
      /\ Places(ul, v) = {}
      /\ ul' = InsertAt(ul, at, Item(v))
      /\ UNCHANGED <<hidden, open, list, cleared>>

\* clearChoices keeps what is selected.  With reset it keeps nothing, and
\* saves values only where the placeholder can be selected instead.
ClearChoices(reset) ==
  LET keep == SelectSeq(ul, LAMBDA li : \/ li.val = Placeholder
                                        \/ ~reset /\ Contains(hidden, li.val))
      none == reset /\ kind # "multiple" /\ keep # <<>>
  IN  /\ Use /\ (reset => kind # "list")
      /\ IF none THEN Saves(ToggleOne(keep, 1)) /\ open' = FALSE
         ELSE /\ ul' = keep
              /\ cleared' = (cleared \/ reset)
              /\ UNCHANGED <<hidden, open>>
      /\ list' = list

-----------------------------------------------------------------------------
(* The dynamic list.                                                       *)

\* removeItem: a choice that was typed goes, any other may be chosen again.
Released(u, v) ==
  LET kept == SelectSeq(u, LAMBDA li : li.val # v \/ li.made # "custom")
  IN  [i \in DOMAIN kept |-> IF kept[i].val = v THEN [kept[i] EXCEPT !.locked = FALSE] ELSE kept[i]]

RemoveItem(v) ==
  /\ Use /\ kind = "list" /\ Contains(list, v)
  /\ list' = Remove(list, v)
  /\ ul' = Released(ul, v)
  /\ UNCHANGED <<hidden, open, cleared>>

\* setValue of a dynamic list does not lock the choices it takes.
SetList(values) ==
  /\ Use /\ kind = "list"
  /\ list' = FoldLeft(LAMBDA l, v : IF Contains(l, v) THEN l ELSE Append(l, v), <<>>, values)
  /\ ul' = FoldLeft(Released, ul, list)
  /\ UNCHANGED <<hidden, open, cleared>>

Next ==
  \/ Open \/ Close
  \/ \E i \in DOMAIN ul : Choose(i) \/ ChooseAndClose(i)
  \/ \E v \in Choosable : Type(v) \/ AddChoice(v) \/ RemoveItem(v)
  \/ \E values \in BoundedSeq(Choosable, 2) : SetValue(values) \/ SetList(values)
  \/ \E reset \in BOOLEAN : ClearChoices(reset)

Spec == Init /\ [][Next]_vars

-----------------------------------------------------------------------------
\* What a form reads from a dropdown is what the user sees selected, however
\* it came to be selected: except that choices cleared with their values
\* leave the old values to be read until something is selected again.
ValueIsSelection == cleared \/ hidden = Saved(ul)

\* A single dropdown always has one item selected, and a mandatory one never
\* comes to have none, whatever choices are taken away or set meanwhile.
SelectionIsLegal ==
  ~cleared => /\ kind # "multiple" => \E i \in DOMAIN ul : Selected(ul) = {i}
              /\ ~optional => Saved(ul) # <<>>

\* A dynamic list has no value twice, and no choice is locked for ever: one
\* that cannot be chosen is in the list, from where it can be removed.
LockedIsListed ==
  kind = "list" =>
    /\ IsInjective(list)
    /\ \A i \in DOMAIN ul : ul[i].locked => Contains(list, ul[i].val)
=============================================================================
