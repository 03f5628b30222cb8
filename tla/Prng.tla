-------------------------------- MODULE Prng --------------------------------
(***************************************************************************)
(* tools/prng.js: a linear congruential generator of four words, of which  *)
(* the colours of networks and zones are derived.  Words have W bits here, *)
(* 16 in the code, and a channel of a colour reaches 2 * Half - 1, 255     *)
(* there: the carries between words are the same.                          *)
(***************************************************************************)
EXTENDS Integers, SequencesExt

CONSTANTS W,            \* bits of a word
          Half,         \* half of what a channel can take
          Multipliers   \* multipliers that are tried, as words

PrngAssumption ==
  /\ W \in Nat /\ W > 1 /\ Half \in Nat \ {0}

VARIABLES by,   \* the multiplier
          s,    \* the state of the generator
          out   \* what int() has returned for a colour

prngVars == <<by, s, out>>

B == 2 ^ W
Four == <<0, 1, 2, 3>>
Number(a) == a[0] + a[1] * B + a[2] * B * B + a[3] * B * B * B

-----------------------------------------------------------------------------
(* Arithmetic on words; >>> takes the lower two words of what it is given. *)

Carry(t) == (t % (B * B)) \div B

\* One round of mul, for the word b[j].
MulRow(r, a, b, j) ==
  LET step(acc, i) ==
        LET t == a[i] * b[j] + acc.r[i + j] + acc.k
        IN  [r |-> [acc.r EXCEPT ![i + j] = t % B], k |-> Carry(t)]
      end == FoldLeft(step, [r |-> r, k |-> 0], Four)
  IN  [end.r EXCEPT ![j + 4] = end.k]

Mul(a, b) ==
  LET r == FoldLeft(LAMBDA r0, j : MulRow(r0, a, b, j), [i \in 0 .. 7 |-> 0], Four)
  IN  [i \in 0 .. 3 |-> r[i]]

Add(a, n) ==
  LET step(acc, i) ==
        LET t == a[i] + acc.k
        IN  [r |-> [acc.r EXCEPT ![i] = t % B], k |-> Carry(t)]
  IN  FoldLeft(step, [r |-> a, k |-> n], Four).r

\* shr: whole words first, as long as more than a word is left to shift, and
\* then from the highest word down, each handing its lower bits to the next.
Shr(a, n) ==
  LET words == IF n = 0 THEN 0 ELSE (n - 1) \div W
      bits  == n - words * W
      moved == [i \in 0 .. 3 |-> IF i + words > 3 THEN 0 ELSE a[i + words]]
      step(acc, i) ==
        [r |-> [acc.r EXCEPT ![i] = (acc.r[i] \div 2 ^ bits) + acc.k],
         k |-> (acc.r[i] % 2 ^ bits) * 2 ^ (W - bits)]
      down == SelectSeq(<<3, 2, 1, 0>>, LAMBDA i : i < 4 - words)
  IN  FoldLeft(step, [r |-> moved, k |-> 0], down).r

-----------------------------------------------------------------------------
\* seed(n), with n - 1 brought to two words.
Seed(n) == LET v == (n - 1) % (B * B)
           IN  [i \in 0 .. 3 |-> CASE i = 0 -> v % B [] i = 1 -> v \div B [] i > 1 -> 0]

Following(t) == Add(Mul(t, by), 1)
IntOf(t) == LET r == Shr(t, 2 * W + 1) IN r[1] * B + r[0]

\* get(l, u) for the number x that int() has returned.
Get(x, l, u) ==
  LET most == 2 ^ (2 * W - 1) - 1
  IN  ((x % most) * (u - l + 1)) \div most + l

\* derive_color(): the channels are what the three numbers leave of them.
DeriveColor(drawn) ==
  LET most == 2 ^ (2 * W - 1) - 1
      r == Get(drawn[1], 1, Half)
      g == Get(drawn[2], 1, Half)
      least == IF r + g < Half THEN Half - r - g ELSE 0
      top == IF r + g < Half THEN Half ELSE 2 * Half - 1 - r - g
      b == least + ((drawn[3] % most) * (top - least)) \div most
  IN  [red |-> 2 * Half - 1 - r, green |-> 2 * Half - 1 - g, blue |-> 2 * Half - 1 - b]

PrngInit ==
  /\ by \in Multipliers
  /\ \E n \in 0 .. B * B - 1 : s = Seed(n)
  /\ out = <<>>

\* int(), three times for a colour.
Draw ==
  /\ Len(out) < 3
  /\ s' = Following(s)
  /\ out' = Append(out, IntOf(s'))
  /\ UNCHANGED by

PrngNext == Draw
PrngSpec == PrngInit /\ [][PrngNext]_prngVars

-----------------------------------------------------------------------------
\* The words are the digits of the number that the generator is defined by:
\* no carry is lost, and int() returns its upper bits, never a negative one.
IsCongruential ==
  LET t == Following(s)
  IN  /\ Number(t) = (Number(s) * Number(by) + 1) % (B * B * B * B)
      /\ IntOf(t) = Number(t) \div 2 ^ (2 * W + 1)

\* A colour is never nearly black nor white: what its channels lack of white
\* is between a third and two thirds, whatever numbers are drawn.  But if the
\* first two are as great as can be, the third is one more than a channel
\* can take, and the code for the colour has a digit too many (prng.js:105).
ColoursAreSoft ==
  Len(out) = 3 =>
    LET c == DeriveColor(out)
        lacks == 3 * (2 * Half - 1) - c.red - c.green - c.blue
    IN  \/ c.red = Half - 1 /\ c.green = Half - 1
        \/ /\ {c.red, c.green} \subseteq Half - 1 .. 2 * Half - 2
           /\ c.blue \in Half - 1 .. 2 * Half - 1
           /\ lacks \in Half .. 2 * Half - 1
=============================================================================
