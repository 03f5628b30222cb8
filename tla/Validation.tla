----------------------------- MODULE Validation -----------------------------
(***************************************************************************)
(* Data types of input fields, validation.js: compile turns the text of a  *)
(* data type into a program, validate runs it on what is in the field.     *)
(* The validators of one program share a register, value, which those that *)
(* take the value apart overwrite.                                         *)
(*                                                                         *)
(* Texts and words are sequences of symbols.  A field's content is a       *)
(* sequence of words, perhaps with "!" in front; of the some forty types   *)
(* there is one for each way of treating the register.                     *)
(***************************************************************************)
EXTENDS Naturals, SequencesExt

CONSTANTS Types,      \* the data types to compile: one term each, a function
          Contents,   \* what the user may enter
          MaxNesting, \* bound: so many terms stand inside one another
          Addresses,  \* texts to read as an address
          Words       \* of so many words: 8 in an IPv6 address

VARIABLES
  type,     \* the data type of the field, as a term
  frames,   \* the calls of compile, the innermost first
  program,  \* the vstack of the validator, once compiled
  content,  \* what is in the field
  valid,    \* validState: unknown, valid or invalid
  seen,     \* the value the option's validate function was last given
  address   \* an address to parse

validationVars == <<type, frames, program, content, valid, seen, address>>

-----------------------------------------------------------------------------
(* Terms and their texts.                                                  *)

\* A term is a function with its arguments, or a quoted text.  The program
\* is a stack of the same records; no arguments are written as none.
Fn(name, args) == [fn |-> TRUE, text |-> <<name>>, args |-> args]
Quoted(text) == [fn |-> FALSE, text |-> text, args |-> <<>>]

Special == {"(", ")", ",", "\\"}
Escaped(text) ==
  FlattenSeq([i \in DOMAIN text |-> IF text[i] \in Special THEN <<"\\", text[i]>> ELSE <<text[i]>>])

TermsWithin[n \in Nat] ==
  IF n = 0 THEN {} ELSE [fn : BOOLEAN, text : Seq(STRING), args : Seq(TermsWithin[n - 1])]
Terms == TermsWithin[MaxNesting]

ValidationAssumption ==
  /\ MaxNesting \in Nat /\ Words \in Nat \ {0}
  /\ Types \subseteq Terms /\ \A t \in Types : t.fn

TextOf[t \in Terms] ==
  LET arg(i) == (IF i = 1 THEN <<>> ELSE <<",">>) \o TextOf[t.args[i]]
  IN  IF ~t.fn THEN <<"'">> \o Escaped(t.text) \o <<"'">>
      ELSE IF t.args = <<>> THEN t.text
      ELSE t.text \o <<"(">> \o FlattenSeq([i \in DOMAIN t.args |-> arg(i)]) \o <<")">>

-----------------------------------------------------------------------------
(* compile, one character at a time.                                       *)

Frame(code) == [code |-> code \o <<",">>, pos |-> 1, i |-> 1, esc |-> FALSE, depth |-> 0, stack |-> <<>>]

\* A backslash goes, what it stands before stays, another backslash too.
Unescaped(text) ==
  LET goes[i \in DOMAIN text] == text[i] = "\\" /\ i < Len(text) /\ (i = 1 \/ ~goes[i - 1])
  IN  FlattenSeq([i \in DOMAIN text |-> IF goes[i] THEN <<>> ELSE <<text[i]>>])

\* A label is a quoted text or the name of a type.
Label(text) ==
  IF Head(text) = "'" /\ Last(text) = "'" /\ Len(text) > 1
    THEN Quoted(SubSeq(text, 2, Len(text) - 1))
    ELSE [fn |-> TRUE, text |-> text, args |-> <<>>]

Pushed(f) ==
  IF f.depth <= 0 /\ f.pos < f.i
    THEN Append(f.stack, Label(Unescaped(SubSeq(f.code, f.pos, f.i - 1)))) ELSE f.stack

\* "(" and ",", outside of parentheses, end a label.
Comma(f, c) ==
  [f EXCEPT !.stack = Pushed(f),
            !.pos   = IF f.depth <= 0 THEN f.i + 1 ELSE f.pos,
            !.depth = IF c = "(" THEN @ + 1 ELSE @,
            !.i     = @ + 1]

Step ==
  LET f == Head(frames)
      c == f.code[f.i]
  IN  /\ frames # <<>> /\ f.i <= Len(f.code)
      /\ frames' =
           IF f.esc THEN <<[f EXCEPT !.esc = FALSE, !.i = @ + 1]>> \o Tail(frames)
           ELSE IF c = "\\" THEN <<[f EXCEPT !.esc = TRUE, !.i = @ + 1]>> \o Tail(frames)
           ELSE IF c \in {"(", ","} THEN <<Comma(f, c)>> \o Tail(frames)
           ELSE IF c # ")" THEN <<[f EXCEPT !.i = @ + 1]>> \o Tail(frames)
           ELSE IF f.depth > 1 THEN <<[f EXCEPT !.depth = @ - 1, !.i = @ + 1]>> \o Tail(frames)
           ELSE <<Frame(SubSeq(f.code, f.pos, f.i - 1)),                      \* the arguments
                  [f EXCEPT !.depth = 0, !.pos = f.i + 1, !.i = @ + 1]>> \o Tail(frames)
      /\ UNCHANGED <<type, program, content, valid, seen, address>>

\* An inner call returns the arguments of the function it was called for.
Return ==
  LET done  == frames[1].stack
      outer == frames[2]
      n     == Len(outer.stack)
  IN  /\ frames # <<>> /\ frames[1].i > Len(frames[1].code)
      /\ IF Len(frames) = 1
           THEN frames' = <<>> /\ program' = done
           ELSE /\ frames' = <<[outer EXCEPT !.stack[n].args = done]>> \o SubSeq(frames, 3, Len(frames))
                /\ UNCHANGED program
      /\ UNCHANGED <<type, content, valid, seen, address>>

-----------------------------------------------------------------------------
(* validate.                                                               *)

Value(bang, words) == [bang |-> bang, words |-> words]
Single(v, word) == v = Value(FALSE, <<word>>)
Tokens(v) == [i \in DOMAIN v.words |-> Value(v.bang /\ i = 1, <<v.words[i]>>)]
\* A network with its prefix length, one with a length no network has, and
\* what is behind the slash.
Net  == <<"n">>
Bad  == <<"b">>
Rest == <<"r">>

\* Whether validator t accepts the register v, and what it leaves in it;
\* "throws" where the code runs into an error.
Answer(says, v) == [says |-> says, value |-> v]
YesNo(b) == IF b THEN "yes" ELSE "no"

Registers == [bang : BOOLEAN, words : Seq(Seq(STRING))]
Negated(v) == [v EXCEPT !.bang = FALSE]

\* or takes the alternatives in turn as long as they say no, and as long as
\* they say yes; quoted texts are compared with the register.  list puts every
\* token into the register in turn.
Apply[t \in Terms, v \in Registers] ==
  LET name == t.text[1]
      run(s, w) == IF s.fn THEN Apply[s, w] ELSE Answer(YesNo(Single(w, s.text)), w)
      while(says) ==
        FoldLeft(LAMBDA sofar, s : IF sofar.says = says THEN run(s, sofar.value) ELSE sofar,
                 Answer(says, v), t.args)
  IN  CASE name = "word" -> Answer(YesNo(~v.bang /\ Len(v.words) = 1), v)
        [] name = "cidr" -> IF Single(v, Net) THEN Answer("yes", Value(FALSE, <<Rest>>))
                            ELSE IF Single(v, Bad) THEN Answer("no", Value(FALSE, <<Rest>>))
                            ELSE Answer("no", v)
        [] name = "or"   -> while("no")
        [] name = "and"  -> while("yes")
        [] name = "neg"  -> Apply[t.args[1], Negated(v)]
        [] name = "list" -> IF v.words = <<>> THEN Answer("throws", v)
                            ELSE FoldLeft(LAMBDA sofar, w : IF sofar.says = "yes" THEN Apply[t.args[1], w] ELSE sofar,
                                          Answer("yes", v), Tokens(v))

\* The events keyup and blur run the program; what validate throws is lost,
\* and the state stays what it was.
Validate(c) ==
  LET answer == Apply[program[1], c]
  IN  /\ frames = <<>> /\ program # <<>>
      /\ content' = c
      /\ valid' = CASE answer.says = "yes" -> "valid" [] answer.says = "no" -> "invalid"
                    [] answer.says = "throws" -> valid
      /\ seen' = IF answer.says = "yes" THEN answer.value ELSE seen
      /\ UNCHANGED <<type, frames, program, address>>

-----------------------------------------------------------------------------
(* parseIPv6.  A text is a sequence of colons and groups: "g" of up to     *)
(* four digits, "G" of more.                                               *)

Split(text) ==
  LET colons == SetToSortSeq({i \in DOMAIN text : text[i] = ":"}, LAMBDA i, j : i < j)
      at     == <<0>> \o colons \o <<Len(text) + 1>>
  IN  [k \in 1 .. Len(colons) + 1 |-> SubSeq(text, at[k] + 1, at[k + 1] - 1)]

\* split(/::/), from the left.
Doubles(text) == {i \in DOMAIN text : i < Len(text) /\ text[i] = ":" /\ text[i + 1] = ":"}
FirstOf(places) == CHOOSE i \in places : \A j \in places : i <= j
Before(text) == SubSeq(text, 1, FirstOf(Doubles(text)) - 1)
After(text) == SubSeq(text, FirstOf(Doubles(text)) + 2, Len(text))

ColonGroups(text) == IF text = <<>> THEN <<<<"g">>>> ELSE Split(text)
Fits(prefix, suffix, double) ==
  IF double THEN Len(prefix) + Len(suffix) <= Words - 1 ELSE Len(prefix) = Words

\* The groups that make the words, by their places in the text, 0 where
\* filled in; none when it is not an address.
ParseIPv6(text) ==
  LET double == Doubles(text) # {}
      before == IF double THEN Before(text) ELSE text
      after  == IF double THEN After(text) ELSE <<>>
      prefix == ColonGroups(before)
      suffix == IF double THEN ColonGroups(after) ELSE <<>>
      given  == IF before = <<>> THEN 0 ELSE Len(prefix)
  IN  IF \/ Doubles(after) # {}
         \/ ~Fits(prefix, suffix, double)
         \/ \E part \in {prefix, suffix} : \E i \in DOMAIN part : part[i] # <<"g">>
      THEN <<>>
      ELSE [w \in 1 .. Words |->
              IF w <= Len(prefix) THEN (IF given = 0 THEN 0 ELSE w)
              ELSE IF w <= Words - Len(suffix) \/ after = <<>> THEN 0
              ELSE given + w - (Words - Len(suffix))]

-----------------------------------------------------------------------------
Init ==
  /\ \/ type \in Types /\ frames = <<Frame(TextOf[type])>> /\ address = <<>>
     \/ type = Fn("word", <<>>) /\ frames = <<>> /\ address \in Addresses
  /\ program = <<>>
  /\ content = Value(FALSE, <<>>) /\ valid = "unknown" /\ seen = Value(FALSE, <<>>)

Next == Step \/ Return \/ \E c \in Contents : Validate(c)

Spec == Init /\ [][Next]_validationVars

-----------------------------------------------------------------------------
\* Type correctness.
ValidationTypeOK ==
  /\ type.fn /\ \A f \in Range(frames) : f.pos \in 1 .. f.i /\ f.i <= Len(f.code) + 1 /\ f.depth \in Nat
  /\ valid \in {"unknown", "valid", "invalid"}
  /\ content \in Contents \cup {Value(FALSE, <<>>)}

\* compile takes a type apart into what its text was written from: quoted
\* commas and parentheses stay text, functions get their own arguments.
\* Refers to compile (validation.js).
CompileIsInverse == program # <<>> => program = <<type>>

\* What a type accepts, without a register.
Accepts[t \in Terms, v \in Registers] ==
  LET name == t.text[1]
  IN  IF ~t.fn THEN Single(v, t.text)
      ELSE CASE name = "word" -> ~v.bang /\ Len(v.words) = 1
             [] name = "cidr" -> Single(v, Net)
             [] name = "or"   -> \E i \in DOMAIN t.args : Accepts[t.args[i], v]
             [] name = "and"  -> \A i \in DOMAIN t.args : Accepts[t.args[i], v]
             [] name = "neg"  -> Accepts[t.args[1], Negated(v)]
             [] name = "list" -> \A i \in DOMAIN v.words : Accepts[t.args[1], Tokens(v)[i]]

\* No alternative but the last takes the value apart.
TakesApart[t \in Terms] ==
  t.fn /\ (t.text[1] \in {"neg", "list", "cidr"} \/ \E i \in DOMAIN t.args : TakesApart[t.args[i]])
KeepsWhole[t \in Terms] ==
  /\ \A i \in DOMAIN t.args : KeepsWhole[t.args[i]]
  /\ t.text[1] \in {"or", "and"} => \A i \in 1 .. Len(t.args) - 1 : ~TakesApart[t.args[i]]

\* A field is marked by what its type accepts, however types are nested: as
\* long as no value is blank and no alternative finds what an earlier one has
\* made of it.  Refers to validate, or, and, neg, list (validation.js).
MarkedRightly ==
  valid # "unknown" /\ content.words # <<>> /\ KeepsWhole[type] =>
    (valid = "valid" <=> Accepts[type, content])

\* The texts of a groups, two colons, b groups; of Words groups.
GroupsText(n) == [i \in 1 .. IF n = 0 THEN 0 ELSE 2 * n - 1 |-> IF i % 2 = 1 THEN "g" ELSE ":"]
Shortened(a, b) == GroupsText(a) \o <<":", ":">> \o GroupsText(b)

\* An address is read as it is meant: all groups, or two colons for those that
\* are missing, which are filled in where the colons are; everything else is
\* refused.  Two colons at an end that stand for one group are refused too.
\* Refers to parseIPv6 (validation.js).
AddressIsRight ==
  address # <<>> =>
    ParseIPv6(address) =
      IF address = GroupsText(Words) THEN [w \in 1 .. Words |-> w]
      ELSE IF \E a, b \in 0 .. Words : address = Shortened(a, b) /\ (IF a = 0 THEN 1 ELSE a) + (IF b = 0 THEN 1 ELSE b) < Words
        THEN LET a == CHOOSE a \in 0 .. Words : \E b \in 0 .. Words : address = Shortened(a, b)
                 b == CHOOSE b \in 0 .. Words : address = Shortened(a, b)
             IN  [w \in 1 .. Words |-> IF w <= a THEN w ELSE IF w > Words - b THEN a + w - (Words - b) ELSE 0]
      ELSE <<>>
=============================================================================
