------------------------------ MODULE MCForms ------------------------------
(* Forms for TLC.                                                          *)
EXTENDS Forms, TLC
CONSTANTS o1, o2, fl

(* UciForm: option o2 depends on o1.                                       *)
MCOpts == {o1, o2, fl}
MCNeeds == [o \in MCOpts |-> IF o = o2 THEN o1 ELSE None]
\* The buttons are interchangeable.
Sym == Permutations(Buttons)

(* Depends.                                                                *)
Alternative(fields, want, reverse, otherwise) ==
  [want |-> [f \in fields |-> want], reverse |-> reverse, otherwise |-> otherwise]
MCFieldOrder == <<"a", "b", "c", "d">>

Ticked(f) == Alternative({f}, {"1"}, FALSE, FALSE)
IsOff(f) == Alternative({f}, {"0"}, FALSE, FALSE)
NotOn(f) == Alternative({f}, {"1"}, TRUE, FALSE)
Filled(f) == Alternative({f}, {"0", "1"}, FALSE, FALSE)
Otherwise == Alternative({}, {}, FALSE, TRUE)

Plain == [deps |-> [f \in {"a", "b", "c", "d"} |-> {}],
          defaults |-> [f \in {"a", "b", "c", "d"} |-> <<>>],
          option |-> [f \in {"a", "b", "c", "d"} |-> f],
          declared |-> {}, flag |-> {}, needed |-> {}]

\* Each needs the one before.
Forward == [Plain EXCEPT !.deps = [a |-> {}, b |-> {Ticked("a")}, c |-> {Ticked("b")}, d |-> {NotOn("c")}],
                         !.flag = {"a"}]
\* Each needs the one behind: two rounds are enough for three, not for four.
Back3 == [Plain EXCEPT !.deps = [a |-> {}, b |-> {Ticked("c"), IsOff("a")}, c |-> {Ticked("d")}, d |-> {}],
                       !.needed = {"b"}]
Back4 == [Plain EXCEPT !.deps = [a |-> {Ticked("b")}, b |-> {Ticked("c")}, c |-> {Ticked("d")}, d |-> {}]]
\* b and c stand for the same option, and a chooses between them.
Shared == [Plain EXCEPT !.deps = [a |-> {}, b |-> {Ticked("a")}, c |-> {IsOff("a")}, d |-> {Filled("b")}],
                        !.option = [a |-> "a", b |-> "o", c |-> "o", d |-> "d"],
                        !.declared = {"b", "c"}, !.flag = {"a"}]
\* The default value of b depends on a, and c on b; d is always shown.
Defaults == [Plain EXCEPT !.deps = [a |-> {}, b |-> {Filled("a")}, c |-> {Ticked("b")}, d |-> {Ticked("c"), Otherwise}],
                          !.defaults = [a |-> <<>>,
                                        b |-> <<[value |-> "1", deps |-> {Ticked("a")}],
                                                [value |-> "0", deps |-> {}]>>,
                                        c |-> <<[value |-> "1", deps |-> {}]>>, d |-> <<>>],
                          !.needed = {"d"}]

MCShapes == {Forward, Back3, Back4, Shared, Defaults}

(* Grid.                                                                   *)
MCRows0 == <<"a", "b", "c">>
=============================================================================
