----------------------------- MODULE MCToolkit -----------------------------
(* Toolkit for TLC.                                                        *)
EXTENDS Toolkit, SequencesExt, TLC

(* Dropdown and Options.                                                   *)
MCKeys == <<"a", "b">>

(* FileBrowser, Tabs.                                                      *)
MCHeldBy == ("d" :> "/") @@ ("f" :> "d") @@ ("g" :> "/")
MCViews == [p |-> {"g", "h"}, q |-> {"k"}]
MCPathOf == [g |-> "x", h |-> "x", k |-> "y"]
MCPanes == [g |-> 3, h |-> 2, k |-> 2]

(* Validation: functions and quoted texts, a network with its prefix       *)
(* length and one with a length no network has.                            *)
Fn(name, args) == [fn |-> TRUE, text |-> <<name>>, args |-> args]
Quoted(text) == [fn |-> FALSE, text |-> text, args |-> <<>>]
Net == <<"n">>
Bad == <<"b">>
MCTypes ==
  LET w    == Fn("word", <<>>)
      q    == Quoted(<<"a", ",">>)
      p    == Quoted(<<"(", "\\">>)
      cidr == Fn("cidr", <<>>)
  IN  {Fn("or", <<q, cidr>>), Fn("or", <<cidr, w>>), Fn("or", <<p, Fn("neg", <<w>>)>>),
       Fn("list", <<Fn("neg", <<Fn("or", <<q, p>>)>>)>>), Fn("and", <<w, Fn("or", <<p, q, cidr>>)>>),
       Fn("neg", <<Fn("list", <<cidr>>)>>), Fn("or", <<Fn("list", <<cidr>>), w, q>>)}

MCContents ==
  [bang : BOOLEAN, words : {<<>>} \cup {<<w>> : w \in {Net, Bad, <<"a", ",">>, <<"(", "\\">>}}
                           \cup {<<Net, Bad>>, <<Net, Net>>, <<<<"a", ",">>, <<"(", "\\">>>>}]

MCAddresses == UNION {[1 .. n -> {":", "g"}] : n \in 1 .. 9} \cup {<<"G">>, <<"g", ":", ":", "G">>}

(* AddressTypes: all texts of one piece, those of two with a sign between  *)
(* them, and with more signs where a type has them.                        *)
Piece(of, n, ok) == [of |-> of, n |-> n, ok |-> ok]
Sign(c) == Piece(c, 0, TRUE)
MCNumbers == {Piece("number", n, TRUE) : n \in {0, 5, 33, 129, 65536}}
MCPieces ==
  MCNumbers \cup [of : {"quad", "groups"}, n : {0}, ok : BOOLEAN]
    \cup {Piece("groups", 1, TRUE), Piece("name", 0, TRUE), Piece("dotted", 0, TRUE)}
MCTexts ==
  {<<x>> : x \in MCPieces}
    \cup {<<x, Sign(s), y>> : s \in {"/", "-", ":"}, x \in MCPieces, y \in MCPieces}
    \cup {<<Sign("-"), x>> : x \in MCNumbers}
    \cup {<<x, Sign("/"), Sign("-"), y>> : x \in MCPieces, y \in MCNumbers}
    \cup {<<Sign("["), x, Sign("]"), Sign(":"), y>> : x \in MCPieces, y \in MCNumbers}

(* CbiDepends.                                                             *)
Alternative(conds, reverse, default) == [conds |-> conds, reverse |-> reverse, default |-> default]
On(f, v) == [on |-> f, is |-> v]
If(conds) == Alternative(conds, FALSE, FALSE)
Unless(conds) == Alternative(conds, TRUE, FALSE)
Otherwise == Alternative({}, FALSE, TRUE)

Page(parent, index, deps) ==
  [parent |-> parent, index |-> index, deps |-> deps,
   children |-> [p \in DOMAIN parent \cup {Top} |->
     SetToSortSeq({f \in DOMAIN parent : parent[f] = p}, LAMBDA f, g : index[f] < index[g])]]

Flat(deps) ==
  Page([f \in {"a", "b", "c"} |-> Top], "a" :> 1 @@ "b" :> 2 @@ "c" :> 3, deps)

MCShapes == {
  \* A chain downwards, a chain upwards, reversed and default alternatives.
  Flat("a" :> <<>> @@ "b" :> <<If({On("a", "1")})>> @@ "c" :> <<If({On("b", "1")})>>),
  Flat("a" :> <<If({On("b", "1")})>> @@ "b" :> <<If({On("c", "1")})>> @@ "c" :> <<>>),
  Flat("a" :> <<>> @@ "b" :> <<Unless({On("a", "1")})>> @@ "c" :> <<If({On("a", "1"), On("b", "")}), If({On("b", "1")})>>),
  Flat("a" :> <<Unless({On("c", "")})>> @@ "b" :> <<Otherwise, If({On("a", "1")})>> @@ "c" :> <<If({On("b", "1")})>>),
  \* A field in a field.
  Page("a" :> Top @@ "b" :> Top @@ "c" :> "b" @@ "d" :> Top,
       "a" :> 1 @@ "b" :> 2 @@ "c" :> 3 @@ "d" :> 4,
       "a" :> <<>> @@ "b" :> <<If({On("a", "1")})>>
         @@ "c" :> <<If({On("d", "1")})>> @@ "d" :> <<Unless({On("a", "1")})>>) }

(* Menu: one mode, with entries down to the tabs of a page.                *)
MCNodes == {<<>>, <<1>>, <<1, 1>>, <<1, 2>>, <<1, 1, 1>>, <<1, 1, 2>>,
            <<1, 2, 1>>, <<1, 1, 2, 1>>, <<1, 1, 2, 2>>}

(* ClassSystem.                                                            *)
\* A chain of three, and a second class that extends the middle one.
MCBase == <<0, 1, 2, 2>>
MCClassOf == "a" :> 3 @@ "b" :> 3 @@ "c" :> 4

(* Lookups.                                                                *)
MCRadios == <<"radio0", "radio1">>
MCMade == <<"cfg1", "cfg2", "cfg3">>

(* Prng: words of two bits.                                                *)
MCMultipliers == [0 .. 3 -> {1, 2, 3}]
=============================================================================
