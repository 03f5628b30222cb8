----------------------------- MODULE PartProofs -----------------------------
(***************************************************************************)
(* Proofs about those parts of Toolkit that it extends, of Menu for any    *)
(* finite tree and of ClassSystem for any classes, and about numbers and   *)
(* sequences.  ToolkitProofs puts them to use.                             *)
(***************************************************************************)
EXTENDS Menu, ClassSystem, Integers, SequencesExt, SequenceTheorems, WellFoundedInduction, TLAPS

-----------------------------------------------------------------------------
(* Numbers.                                                                *)

LEMMA LeastNatural ==
  ASSUME NEW n \in Nat, NEW T \in SUBSET (1 .. n), T # {}
  PROVE  \E m \in T : \A k \in T : m <= k
<1>1. \A k \in T : k \in Nat
  OBVIOUS
<1>. DEFINE R == OpToRel(<, Nat)
<1>2. IsWellFoundedOn(R, Nat)
  BY NatLessThanWellFounded
<1>3. \A i, j \in Nat : i < j => <<i, j>> \in R
  BY DEF OpToRel
<1>. HIDE DEF R
<1>4. PICK m \in T : \A k \in T : ~(<<k, m>> \in R)
  BY <1>1, <1>2, WFMin
<1>5. ASSUME NEW k \in T  PROVE m <= k
  <2>1. k \in Nat /\ m \in Nat
    BY <1>1
  <2>2. ~(k < m)
    BY <1>3, <1>4, <2>1
  <2>. QED  BY <2>1, <2>2
<1>. QED  BY <1>5

LEMMA GreatestNatural ==
  ASSUME NEW n \in Nat, NEW T \in SUBSET (1 .. n), T # {}
  PROVE  \E m \in T : \A k \in T : k <= m
<1>. DEFINE U == {k \in 1 .. n : n + 1 - k \in T}
<1>1. \A k \in T : n + 1 - k \in U
  OBVIOUS
<1>2. PICK m \in U : \A k \in U : m <= k
  BY <1>1, LeastNatural
<1>. QED  BY <1>1, <1>2

-----------------------------------------------------------------------------
(* Functions on a finite tree.                                             *)

\* Where a function sends its argument on to another one, or gives a value of
\* its own, there is such a function, even if some are sent on for ever.
Maps(f, N) == f = [n \in N |-> f[n]]
Sends(f, N, Go, next, val) == \A n \in N : f[n] = IF n \in Go THEN f[next[n]] ELSE val[n]
LEMMA SentOn ==
  ASSUME NEW N, NEW Go \in SUBSET N, NEW next \in [Go -> N], NEW val, Maps(val, N)
  PROVE  \E f : Maps(f, N) /\ Sends(f, N, Go, next, val)
<1>. DEFINE Closed(T) == \A k \in T \cap Go : next[k] \in T
            Line(n) == {m \in N : \A T \in SUBSET N : n \in T /\ Closed(T) => m \in T}
            end(n) == CHOOSE m \in Line(n) \ Go : TRUE
            f == [n \in N |-> val[end(n)]]
<1>1. ASSUME NEW n \in N \ Go  PROVE end(n) = n
  <2>1. {n} \in SUBSET N /\ n \in {n} /\ Closed({n})
    BY <1>1
  <2>2. \A m \in Line(n) : m \in {n}
    BY <2>1
  <2>3. n \in Line(n)
    OBVIOUS
  <2>4. Line(n) \ Go = {n}
    BY <1>1, <2>2, <2>3
  <2>. QED  BY <2>4
<1>2. ASSUME NEW n \in Go  PROVE end(n) = end(next[n])
  <2>1. next[n] \in N /\ n \in N
    BY <1>2
  <2>2. ASSUME NEW m \in Line(n) \ Go  PROVE m \in Line(next[n])
    <3>1. ASSUME NEW T \in SUBSET N, next[n] \in T, Closed(T)  PROVE m \in T
      <4>1. T \cup {n} \in SUBSET N /\ n \in T \cup {n} /\ Closed(T \cup {n})
        BY <2>1, <3>1
      <4>2. m \in T \cup {n}
        BY <2>2, <4>1
      <4>. QED  BY <1>2, <2>2, <4>2
    <3>. QED  BY <2>2, <3>1
  <2>3. ASSUME NEW m \in Line(next[n])  PROVE m \in Line(n)
    <3>1. ASSUME NEW T \in SUBSET N, n \in T, Closed(T)  PROVE m \in T
      <4>1. next[n] \in T
        BY <1>2, <3>1
      <4>. QED  BY <2>3, <3>1, <4>1
    <3>. QED  BY <2>3, <3>1
  <2>4. Line(n) \ Go = Line(next[n]) \ Go
    BY <2>2, <2>3
  <2>. QED  BY <2>4
<1>. HIDE DEF end
<1>3. \A n \in N : f[n] = IF n \in Go THEN f[next[n]] ELSE val[n]
  <2>1. \A n \in N : f[n] = val[end(n)]
    OBVIOUS
  <2>. QED  BY <1>1, <1>2, <2>1
<1>4. Maps(f, N)
  BY DEF Maps
<1>5. Sends(f, N, Go, next, val)
  BY <1>3 DEF Sends
<1>. HIDE DEF f
<1>. QED  BY <1>4, <1>5

\* A prefix of a path.
Prefix(n, i) == SubSeq(n, 1, i)
Below(p, n) == Len(n) <= Len(p) /\ Prefix(p, Len(n)) = n

LEMMA PathPrefix ==
  ASSUME NEW n \in Seq(Nat), NEW i \in 0 .. Len(n)
  PROVE  /\ Prefix(n, i) \in Seq(Nat) /\ Len(Prefix(n, i)) = i
         /\ \A k \in 1 .. i : Prefix(n, i)[k] = n[k]
<1>0. Len(n) \in Nat
  OBVIOUS
<1>1. i \in Nat /\ \A k \in 1 .. i : k \in 1 .. Len(n)
  BY ONLY <1>0, i \in 0 .. Len(n)
<1>2. \A k \in 1 .. i : n[k] \in Nat
  BY <1>1
<1>3. Prefix(n, i) \in Seq(Nat) /\ Len(Prefix(n, i)) = IF 1 <= i THEN i - 1 + 1 ELSE 0
  BY <1>1, <1>2, SubSeqProperties DEF Prefix
<1>4. \A k \in 1 .. i - 1 + 1 : Prefix(n, i)[k] = n[1 + k - 1]
  BY <1>1, <1>2, SubSeqProperties DEF Prefix
<1>. QED  BY <1>1, <1>3, <1>4

LEMMA PrefixOfPrefix ==
  ASSUME NEW n \in Seq(Nat), NEW j \in 0 .. Len(n), NEW i \in 0 .. j
  PROVE  Prefix(Prefix(n, j), i) = Prefix(n, i)
<1>1. Len(n) \in Nat /\ i \in 0 .. Len(n)
  OBVIOUS
<1>2. /\ Prefix(n, j) \in Seq(Nat) /\ Len(Prefix(n, j)) = j
      /\ \A k \in 1 .. j : Prefix(n, j)[k] = n[k]
  BY PathPrefix
<1>3. /\ Prefix(n, i) \in Seq(Nat) /\ Len(Prefix(n, i)) = i
      /\ \A k \in 1 .. i : Prefix(n, i)[k] = n[k]
  BY <1>1, PathPrefix
<1>. DEFINE p == Prefix(n, j)
<1>. HIDE DEF p
<1>4. /\ Prefix(p, i) \in Seq(Nat) /\ Len(Prefix(p, i)) = i
      /\ \A k \in 1 .. i : Prefix(p, i)[k] = p[k]
  <2>1. p \in Seq(Nat) /\ i \in 0 .. Len(p)
    BY <1>2 DEF p
  <2>. QED  BY <2>1, PathPrefix
<1>j. j \in Nat
  OBVIOUS
<1>8. \A k \in 1 .. i : k \in 1 .. j
  BY ONLY <1>j, i \in 0 .. j
<1>5. \A k \in 1 .. i : Prefix(p, i)[k] = Prefix(n, i)[k]
  BY <1>2, <1>3, <1>4, <1>8 DEF p
<1>6. Prefix(p, i) = Prefix(n, i)
  BY <1>3, <1>4, <1>5, SeqEqual
<1>. QED  BY <1>6 DEF p

LEMMA WholePrefix == ASSUME NEW n \in Seq(Nat)  PROVE Prefix(n, Len(n)) = n
<1>1. Len(n) \in 0 .. Len(n)
  OBVIOUS
<1>. QED  BY <1>1, PathPrefix, SeqEqual

LEMMA BelowBelow ==
  ASSUME NEW p \in Seq(Nat), NEW n \in Seq(Nat), NEW m \in Seq(Nat), Below(p, n), Below(n, m)
  PROVE  Below(p, m)
<1>1. Len(p) \in Nat /\ Len(n) \in Nat /\ Len(m) \in Nat
  OBVIOUS
<1>2. Len(n) \in 0 .. Len(p) /\ Len(m) \in 0 .. Len(n)
  BY <1>1 DEF Below
<1>3. Prefix(Prefix(p, Len(n)), Len(m)) = Prefix(p, Len(m))
  BY <1>2, PrefixOfPrefix
<1>4. Len(n) <= Len(p) /\ Prefix(p, Len(n)) = n /\ Len(m) <= Len(n) /\ Prefix(n, Len(m)) = m
  BY DEF Below
<1>5. Len(m) <= Len(p)
  BY ONLY <1>1, <1>4
<1>6. Prefix(p, Len(m)) = m
  BY <1>3, <1>4
<1>. QED  BY <1>5, <1>6 DEF Below

LEMMA NodesArePaths == ASSUME NEW n \in Nodes  PROVE n \in Seq(Nat) /\ Len(n) \in Nat
BY MenuAssumption DEF MenuAssumption

LEMMA PrefixesAreNodes == ASSUME NEW n \in Nodes, NEW i \in 0 .. Len(n)  PROVE Prefix(n, i) \in Nodes
<1>. DEFINE l == Len(n)
            T == {k \in 1 .. l : Prefix(n, l - k) \notin Nodes}
<1>1. n \in Seq(Nat) /\ l \in Nat
  BY NodesArePaths
<1>2. Prefix(n, l) = n
  BY <1>1, WholePrefix
<1>. HIDE DEF l
<1>3. ASSUME T # {}  PROVE FALSE
  <2>1. PICK m \in T : \A k \in T : m <= k
    BY <1>1, <1>3, LeastNatural
  <2>2. l - m + 1 \in 1 .. l /\ l - m \in 0 .. l - m + 1 /\ Prefix(n, l - m) \notin Nodes
    BY <1>1
  <2>3. Prefix(n, l - m + 1) \in Nodes
    <3>1. CASE m = 1
      <4>1. l - 1 + 1 = l
        BY <1>1
      <4>. QED  BY <1>2, <3>1, <4>1
    <3>2. CASE m # 1
      <4>1. m - 1 \in 1 .. l /\ ~(m <= m - 1) /\ l - (m - 1) = l - m + 1
        BY <1>1, <3>2
      <4>. QED  BY <2>1, <4>1
    <3>. QED  BY <3>1, <3>2
  <2>. DEFINE j == l - m + 1
              c == Prefix(n, j)
  <2>4. j \in 0 .. Len(n) /\ j \in Nat /\ j # 0 /\ j - 1 = l - m /\ j - 1 \in 0 .. j
    BY <1>1, <2>2 DEF l
  <2>5. Len(c) = j
    BY <1>1, <2>4, PathPrefix
  <2>6. c # <<>>
    BY <2>4, <2>5
  <2>7. Prefix(c, j - 1) \in Nodes
    BY <2>3, <2>5, <2>6, MenuAssumption DEF MenuAssumption, Prefix
  <2>8. Prefix(c, j - 1) = Prefix(n, j - 1)
    BY <1>1, <2>4, PrefixOfPrefix
  <2>. QED  BY <2>2, <2>4, <2>7, <2>8
<1>4. CASE i = l
  BY <1>2, <1>4
<1>5. CASE i # l
  <2>1. l - i \in 1 .. l /\ l - (l - i) = i
    BY <1>1, <1>5 DEF l
  <2>. QED  BY <1>3, <2>1
<1>. QED  BY <1>4, <1>5

LEMMA ChildrenAre ==
  ASSUME NEW n \in Nodes, NEW c \in Children[n]
  PROVE  /\ c \in Nodes /\ Len(c) = Len(n) + 1 /\ Below(c, n)
         /\ Above[c] = Above[n] \cup {c}
<1>1. c \in Nodes /\ Len(c) = Len(n) + 1 /\ Prefix(c, Len(n)) = n
  BY DEF Children, Prefix
<1>2. c \in Seq(Nat) /\ n \in Seq(Nat) /\ Len(n) \in Nat
  BY <1>1, NodesArePaths
<1>3. Below(c, n)
  BY <1>1, <1>2 DEF Below
<1>4. Above[c] = {Prefix(c, i) : i \in 1 .. Len(c)} /\ Above[n] = {Prefix(n, i) : i \in 1 .. Len(n)}
  BY <1>1 DEF Above, Prefix
<1>5. \A i \in 1 .. Len(n) : Prefix(c, i) = Prefix(n, i)
  <2>. TAKE i \in 1 .. Len(n)
  <2>1. Len(n) \in 0 .. Len(c) /\ i \in 0 .. Len(n)
    BY <1>1, <1>2
  <2>. QED  BY <1>1, <1>2, <2>1, PrefixOfPrefix
<1>6. Prefix(c, Len(n) + 1) = c
  BY <1>1, <1>2, WholePrefix
<1>7. 1 .. Len(c) = 1 .. Len(n) \cup {Len(n) + 1}
  BY <1>1, <1>2
<1>. QED  BY <1>1, <1>3, <1>4, <1>5, <1>6, <1>7

\* The tree is finite: a set of nodes has a deepest one.
LEMMA Bounded ==
  ASSUME NEW n \in Nat, NEW f \in [1 .. n -> Nat]
  PROVE  \E l \in Nat : \A k \in 1 .. n : f[k] <= l
<1>. DEFINE Bad(k) == \A l \in Nat : \E j \in 1 .. k : ~(f[j] <= l)
            T == {k \in 1 .. n : Bad(k)}
<1>1. ASSUME T # {}  PROVE FALSE
  <2>1. PICK m \in T : \A k \in T : m <= k
    BY <1>1, LeastNatural
  <2>2. m \in 1 .. n /\ m \in Nat /\ m # 0 /\ f[m] \in Nat
    OBVIOUS
  <2>3. PICK l \in Nat : \A j \in 1 .. m - 1 : f[j] <= l
    <3>1. CASE m = 1
      <4>1. 1 .. m - 1 = {}
        BY <3>1
      <4>. QED  BY <4>1
    <3>2. CASE m # 1
      <4>1. m - 1 \in 1 .. n /\ ~(m <= m - 1)
        BY <2>2, <3>2
      <4>2. m - 1 \notin T
        BY <2>1, <4>1
      <4>. QED  BY <4>1, <4>2
    <3>. QED  BY <3>1, <3>2
  <2>. DEFINE h == IF f[m] <= l THEN l ELSE f[m]
  <2>4. h \in Nat /\ f[m] <= h /\ l <= h
    BY <2>2
  <2>5. \A j \in 1 .. m : j = m \/ j \in 1 .. m - 1
    BY <2>2
  <2>. HIDE DEF h
  <2>6. ASSUME NEW j \in 1 .. m - 1  PROVE f[j] <= h
    <3>1. j \in 1 .. n /\ f[j] \in Nat /\ f[j] <= l
      BY <2>2, <2>3
    <3>. QED  BY ONLY <3>1, <2>4, l \in Nat
  <2>7. \A j \in 1 .. m : f[j] <= h
    BY <2>4, <2>5, <2>6
  <2>8. Bad(m)
    OBVIOUS
  <2>. QED  BY <2>4, <2>7, <2>8
<1>2. CASE n = 0
  <2>1. 1 .. n = {} /\ 0 \in Nat
    BY <1>2
  <2>. QED  BY <2>1
<1>3. CASE n # 0
  <2>1. n \in 1 .. n
    BY <1>3
  <2>2. n \notin T
    BY <1>1
  <2>. QED  BY <2>1, <2>2
<1>. QED  BY <1>2, <1>3

LEMMA DepthIsBounded == \E l \in Nat : \A n \in Nodes : Len(n) <= l
<1>1. PICK seq \in Seq(Nodes) : \A n \in Nodes : \E k \in 1 .. Len(seq) : seq[k] = n
  BY MenuAssumption DEF MenuAssumption, IsFiniteSet
<1>. DEFINE f == [k \in 1 .. Len(seq) |-> Len(seq[k])]
<1>2. Len(seq) \in Nat /\ \A k \in 1 .. Len(seq) : Len(seq[k]) \in Nat
  BY NodesArePaths
<1>3. f \in [1 .. Len(seq) -> Nat]
  BY <1>2
<1>4. \A k \in 1 .. Len(seq) : f[k] = Len(seq[k])
  OBVIOUS
<1>. HIDE DEF f
<1>5. PICK l \in Nat : \A k \in 1 .. Len(seq) : f[k] <= l
  BY <1>2, <1>3, Bounded
<1>6. ASSUME NEW n \in Nodes  PROVE Len(n) <= l
  <2>1. PICK k \in 1 .. Len(seq) : seq[k] = n
    BY <1>1
  <2>2. f[k] = Len(n) /\ f[k] <= l
    BY <1>4, <1>5, <2>1
  <2>. QED  BY <2>2
<1>. QED  BY <1>6

LEMMA DeepestNode ==
  ASSUME NEW B \in SUBSET Nodes, B # {}
  PROVE  \E n \in B : Children[n] \cap B = {}
<1>1. PICK l \in Nat : \A n \in Nodes : Len(n) <= l
  BY DepthIsBounded
<1>. DEFINE T == {k \in 1 .. l + 1 : \E n \in B : k = Len(n) + 1}
<1>2. ASSUME NEW n \in B  PROVE Len(n) + 1 \in T
  <2>1. Len(n) \in Nat /\ Len(n) <= l
    BY <1>1, NodesArePaths
  <2>. HIDE DEF T
  <2>2. Len(n) + 1 \in 1 .. l + 1
    BY ONLY <2>1, l \in Nat
  <2>. QED  BY <2>2 DEF T
<1>3. T # {} /\ T \in SUBSET (1 .. l + 1) /\ l + 1 \in Nat
  BY <1>2
<1>4. \A k \in T : \E n \in B : k = Len(n) + 1
  OBVIOUS
<1>. HIDE DEF T
<1>5. PICK m \in T : \A k \in T : k <= m
  BY <1>3, GreatestNatural
<1>6. PICK n \in B : m = Len(n) + 1
  BY <1>4
<1>7. ASSUME NEW c \in Children[n] \cap B  PROVE FALSE
  <2>1. Len(c) = Len(n) + 1 /\ Len(n) \in Nat
    BY ChildrenAre, NodesArePaths
  <2>2. Len(c) + 1 <= Len(n) + 1
    BY <1>2, <1>5, <1>6
  <2>. QED  BY ONLY <2>1, <2>2
<1>. QED  BY <1>7

MenuTree ==
  /\ action \in [Nodes -> {"page", "firstchild", "recurse"}]
  /\ \A n \in Nodes \ Inner : action[n] = "page"
  /\ first \in [Inner -> Nodes] /\ \A n \in Inner : first[n] \in Children[n]
  /\ menu = {n \in Nodes : Scrubbed[n]}

\* scrubMenu.
LEMMA ScrubbedIs ==
  \A n \in Nodes : Scrubbed[n] <=>
    n \notin unmet /\ (action[n] # "page" => \E c \in Children[n] : c \notin untitled /\ Scrubbed[c])
<1>. DEFINE Stays(n, T) == /\ n \notin unmet
                           /\ action[n] # "page" => \E c \in Children[n] : c \notin untitled /\ c \in T
            S == {n \in Nodes : \E T \in SUBSET Nodes : n \in T /\ \A m \in T : Stays(m, T)}
            f == [n \in Nodes |-> n \in S]
            Step(g) == [n \in Nodes |->
                          /\ n \notin unmet
                          /\ action[n] # "page" => \E c \in Children[n] : c \notin untitled /\ g[c]]
<1>1. ASSUME NEW n \in S  PROVE Stays(n, S)
  <2>1. PICK T \in SUBSET Nodes : n \in T /\ \A m \in T : Stays(m, T)
    OBVIOUS
  <2>2. T \subseteq S
    BY <2>1
  <2>. QED  BY <2>1, <2>2
<1>2. ASSUME NEW n \in Nodes, Stays(n, S)  PROVE n \in S
  <2>. DEFINE U == S \cup {n}
  <2>1. \A m \in U : Stays(m, U)
    BY <1>1, <1>2
  <2>2. U \in SUBSET Nodes /\ n \in U
    OBVIOUS
  <2>. QED  BY <2>1, <2>2
<1>3. S \subseteq Nodes /\ \A n \in Nodes : Children[n] \subseteq Nodes
  BY DEF Children
<1>4. \A n \in Nodes : n \in S <=> Stays(n, S)
  BY <1>1, <1>2
<1>. HIDE DEF S
<1>5. ASSUME NEW n \in Nodes  PROVE f[n] = Step(f)[n]
  <2>1. \A c \in Children[n] : f[c] = (c \in S)
    BY <1>3
  <2>2. f[n] <=> Stays(n, S)
    BY <1>4
  <2>3. Step(f)[n] <=> Stays(n, S)
    BY <2>1
  <2>4. f[n] \in BOOLEAN /\ Step(f)[n] \in BOOLEAN
    OBVIOUS
  <2>. QED  BY <2>2, <2>3, <2>4
<1>6. f = Step(f)
  <2>. DEFINE g == Step(f)
  <2>1. f = [n \in Nodes |-> f[n]] /\ g = [n \in Nodes |-> g[n]]
    OBVIOUS
  <2>. QED  BY <1>5, <2>1
<1>. HIDE DEF f
<1>7. Scrubbed = Step(Scrubbed)
  BY <1>6 DEF Scrubbed
<1>. HIDE DEF Scrubbed
<1>8. \A n \in Nodes : Scrubbed[n] = Step(Scrubbed)[n]
  BY <1>7
<1>. QED  BY <1>8

\* find_subnode.
LEMMA FirstPageIs ==
  ASSUME MenuTree
  PROVE  \A n \in Nodes : FirstPage[n] = IF n \in Inner THEN FirstPage[first[n]] ELSE n
<1>. DEFINE Step(g) == [n \in Nodes |-> IF n \in Inner THEN g[first[n]] ELSE n]
<1>1. first \in [Inner -> Nodes] /\ Inner \in SUBSET Nodes
  BY DEF MenuTree, Inner
<1>. DEFINE val == [n \in Nodes |-> n]
<1>v. Maps(val, Nodes)
  BY DEF Maps
<1>2. PICK f : Maps(f, Nodes) /\ Sends(f, Nodes, Inner, first, val)
  <2>. HIDE DEF val
  <2>. QED  BY <1>1, <1>v, SentOn
<1>3. f = Step(f)
  BY <1>2 DEF Maps, Sends
<1>4. FirstPage = Step(FirstPage)
  BY <1>3 DEF FirstPage
<1>. HIDE DEF FirstPage
<1>. QED  BY <1>4

\* dispatch.
Answer(n) ==
  IF Above[n] \cap unmet # {} THEN NoPage
  ELSE IF action[n] = "page" THEN n
  ELSE IF Above[FirstPage[n]] \cap unmet # {} THEN NoPage ELSE FirstPage[n]
SentFurther == {n \in Nodes : Above[n] \cap unmet = {} /\ action[n] = "firstchild"}

LEMMA DispatchIs ==
  ASSUME MenuTree
  PROVE  \A n \in Nodes : Dispatch[n] = IF n \in SentFurther THEN Dispatch[first[n]] ELSE Answer(n)
<1>. DEFINE Go == SentFurther
            next == [n \in Go |-> first[n]]
            val == [n \in Nodes |-> Answer(n)]
            Body(g, n) ==
              IF Above[n] \cap unmet # {} THEN NoPage
              ELSE CASE action[n] = "page" -> n
                     [] action[n] = "firstchild" -> g[first[n]]
                     [] action[n] = "recurse" -> LET p == FirstPage[n]
                                                 IN  IF Above[p] \cap unmet # {} THEN NoPage ELSE p
            Step(g) == [n \in Nodes |-> Body(g, n)]
<1>1. Go \in SUBSET Nodes /\ Go \subseteq Inner
  BY DEF MenuTree, SentFurther
<1>2. next \in [Go -> Nodes]
  BY <1>1 DEF MenuTree
<1>v. Maps(val, Nodes)
  BY DEF Maps
<1>3. PICK f : Maps(f, Nodes) /\ Sends(f, Nodes, Go, next, val)
  <2>. HIDE DEF Go, next, val
  <2>. QED  BY <1>1, <1>2, <1>v, SentOn
<1>4. ASSUME NEW g, NEW n \in Nodes  PROVE Body(g, n) = IF n \in Go THEN g[first[n]] ELSE Answer(n)
  <2>0. action[n] \in {"page", "firstchild", "recurse"}
    BY DEF MenuTree
  <2>1. CASE Above[n] \cap unmet # {}
    BY <2>1 DEF SentFurther, Answer
  <2>2. CASE Above[n] \cap unmet = {} /\ action[n] = "page"
    BY <2>2 DEF SentFurther, Answer
  <2>3. CASE Above[n] \cap unmet = {} /\ action[n] = "firstchild"
    BY <2>3 DEF SentFurther, Answer
  <2>4. CASE Above[n] \cap unmet = {} /\ action[n] = "recurse"
    BY <2>4 DEF SentFurther, Answer
  <2>. QED  BY <2>0, <2>1, <2>2, <2>3, <2>4
<1>5. \A n \in Nodes : f[n] = IF n \in Go THEN f[first[n]] ELSE Answer(n)
  BY <1>1, <1>3 DEF Sends
<1>. HIDE DEF Go, Answer, Body
<1>6. f = Step(f)
  <2>1. f = [n \in Nodes |-> f[n]]
    BY <1>3 DEF Maps
  <2>2. \A n \in Nodes : f[n] = Body(f, n)
    BY <1>4, <1>5
  <2>. QED  BY <2>1, <2>2
<1>7. Dispatch = Step(Dispatch)
  BY <1>6 DEF Dispatch, Body
<1>. HIDE DEF Dispatch
<1>8. \A n \in Nodes : Dispatch[n] = Body(Dispatch, n)
  BY <1>7
<1>. QED  BY <1>4, <1>8 DEF Go

LEMMA FirstPageLeads ==
  ASSUME MenuTree, NEW n \in Nodes
  PROVE  FirstPage[n] \in Nodes \ Inner /\ Below(FirstPage[n], n)
<1>. DEFINE Leads(m) == FirstPage[m] \in Nodes \ Inner /\ Below(FirstPage[m], m)
            B == {m \in Nodes : ~Leads(m)}
<1>1. ASSUME NEW m \in B, Children[m] \cap B = {}  PROVE FALSE
  <2>1. CASE m \in Inner
    <3>1. first[m] \in Children[m] /\ first[m] \in Nodes
      BY <2>1 DEF MenuTree
    <3>2. Leads(first[m]) /\ FirstPage[m] = FirstPage[first[m]]
      BY <1>1, <2>1, <3>1, FirstPageIs
    <3>3. Below(FirstPage[m], m)
      BY <3>1, <3>2, ChildrenAre, NodesArePaths, BelowBelow
    <3>. QED  BY <3>2, <3>3
  <2>2. CASE m \notin Inner
    <3>1. FirstPage[m] = m
      BY <2>2, FirstPageIs
    <3>2. m \in Seq(Nat) /\ Len(m) <= Len(m)
      BY NodesArePaths
    <3>3. Below(m, m)
      BY <3>2, WholePrefix DEF Below
    <3>. QED  BY <2>2, <3>1, <3>3
  <2>. QED  BY <2>1, <2>2
<1>2. B = {}
  <2>. HIDE DEF B
  <2>1. B \in SUBSET Nodes
    BY DEF B
  <2>. QED  BY <1>1, <2>1, DeepestNode
<1>. QED  BY <1>2

LEMMA FirstPageMet ==
  ASSUME MenuTree, FirstOnesFirst, NEW n \in Nodes, Scrubbed[n], n \notin untitled
  PROVE  Above[FirstPage[n]] \cap unmet \subseteq Above[n]
<1>. DEFINE Right(m) == Scrubbed[m] /\ m \notin untitled => Above[FirstPage[m]] \cap unmet \subseteq Above[m]
            B == {m \in Nodes : ~Right(m)}
<1>1. ASSUME NEW m \in B, Children[m] \cap B = {}  PROVE FALSE
  <2>0. Scrubbed[m] /\ m \notin untitled
    OBVIOUS
  <2>1. CASE m \in Inner
    <3>1. first[m] \in Children[m] /\ first[m] \in Nodes
      BY <2>1 DEF MenuTree
    <3>2. first[m] \notin untitled /\ Scrubbed[first[m]]
      BY <2>0, <2>1 DEF FirstOnesFirst
    <3>3. FirstPage[m] = FirstPage[first[m]] /\ Right(first[m])
      BY <1>1, <2>1, <3>1, FirstPageIs
    <3>4. first[m] \notin unmet
      BY <3>1, <3>2, ScrubbedIs
    <3>5. Above[first[m]] = Above[m] \cup {first[m]}
      BY <3>1, ChildrenAre
    <3>. QED  BY <3>2, <3>3, <3>4, <3>5
  <2>2. CASE m \notin Inner
    BY <2>2, FirstPageIs
  <2>. QED  BY <2>1, <2>2
<1>2. B = {}
  <2>. HIDE DEF B
  <2>1. B \in SUBSET Nodes
    BY DEF B
  <2>. QED  BY <1>1, <2>1, DeepestNode
<1>. QED  BY <1>2

\* The dispatcher shows a page below the node, or none.
Shows(n, p) == p \in Pages /\ Below(p, n) /\ Above[p] \cap unmet = {}

LEMMA DispatchLeads ==
  ASSUME MenuTree, NEW n \in Nodes
  PROVE  Dispatch[n] = NoPage \/ Shows(n, Dispatch[n])
<1>. DEFINE Leads(m) == Dispatch[m] = NoPage \/ Shows(m, Dispatch[m])
            B == {m \in Nodes : ~Leads(m)}
<1>1. ASSUME NEW m \in B, Children[m] \cap B = {}  PROVE FALSE
  <2>1. CASE m \in SentFurther
    <3>1. first[m] \in Children[m] /\ first[m] \in Nodes
      BY <2>1 DEF MenuTree, SentFurther
    <3>2. Leads(first[m]) /\ Dispatch[m] = Dispatch[first[m]]
      BY <1>1, <2>1, <3>1, DispatchIs
    <3>3. ASSUME Shows(first[m], Dispatch[m])  PROVE Shows(m, Dispatch[m])
      <4>1. Dispatch[m] \in Nodes
        BY <3>3 DEF Shows, Pages
      <4>. QED  BY <3>1, <3>3, <4>1, ChildrenAre, NodesArePaths, BelowBelow DEF Shows
    <3>. QED  BY <3>2, <3>3
  <2>2. CASE m \notin SentFurther
    <3>1. Dispatch[m] = Answer(m)
      BY <2>2, DispatchIs
    <3>2. m \in Seq(Nat) /\ Len(m) <= Len(m)
      BY NodesArePaths
    <3>3. Below(m, m)
      BY <3>2, WholePrefix DEF Below
    <3>4. FirstPage[m] \in Pages /\ Below(FirstPage[m], m)
      BY FirstPageLeads DEF MenuTree, Pages
    <3>. QED  BY <3>1, <3>3, <3>4 DEF Answer, Shows, Pages
  <2>. QED  BY <2>1, <2>2
<1>2. B = {}
  <2>. HIDE DEF B
  <2>1. B \in SUBSET Nodes
    BY DEF B
  <2>. QED  BY <1>1, <2>1, DeepestNode
<1>. QED  BY <1>2

LEMMA DispatchMet ==
  ASSUME MenuTree, FirstOnesFirst,
         NEW n \in Nodes, Scrubbed[n], n \notin untitled, Above[n] \cap unmet = {}
  PROVE  Shows(n, Dispatch[n])
<1>. DEFINE Right(m) == Scrubbed[m] /\ m \notin untitled /\ Above[m] \cap unmet = {} => Dispatch[m] # NoPage
            B == {m \in Nodes : ~Right(m)}
<1>1. ASSUME NEW m \in B, Children[m] \cap B = {}  PROVE FALSE
  <2>0. Scrubbed[m] /\ m \notin untitled /\ Above[m] \cap unmet = {}
    OBVIOUS
  <2>1. CASE m \in SentFurther
    <3>1. m \in Inner /\ first[m] \in Children[m] /\ first[m] \in Nodes
      BY <2>1 DEF MenuTree, SentFurther
    <3>2. first[m] \notin untitled /\ Scrubbed[first[m]]
      BY <2>0, <3>1 DEF FirstOnesFirst
    <3>3. Dispatch[m] = Dispatch[first[m]] /\ Right(first[m])
      BY <1>1, <2>1, <3>1, DispatchIs
    <3>4. first[m] \notin unmet
      BY <3>1, <3>2, ScrubbedIs
    <3>5. Above[first[m]] = Above[m] \cup {first[m]}
      BY <3>1, ChildrenAre
    <3>. QED  BY <2>0, <3>2, <3>3, <3>4, <3>5
  <2>2. CASE m \notin SentFurther
    <3>1. Dispatch[m] = Answer(m)
      BY <2>2, DispatchIs
    <3>2. Above[FirstPage[m]] \cap unmet = {}
      BY <2>0, FirstPageMet
    <3>3. FirstPage[m] # NoPage /\ m # NoPage
      BY FirstPageLeads, MenuAssumption DEF MenuAssumption
    <3>. QED  BY <2>0, <3>1, <3>2, <3>3 DEF Answer
  <2>. QED  BY <2>1, <2>2
<1>2. B = {}
  <2>. HIDE DEF B
  <2>1. B \in SUBSET Nodes
    BY DEF B
  <2>. QED  BY <1>1, <2>1, DeepestNode
<1>. QED  BY <1>2, DispatchLeads

-----------------------------------------------------------------------------
\* What the menu offers on a page that can be shown.
Offered(n) == n \in Nodes /\ n # <<>> /\ Scrubbed[n] /\ n \notin untitled /\ Above[n] \cap unmet = {}

LEMMA EntriesAreOffered ==
  ASSUME MenuTree, NEW p \in Nodes, Above[p] \cap unmet = {}, NEW n \in GetChildren(p)
  PROVE  Offered(n)
<1>1. n \in Children[p] /\ n \in menu /\ n \notin untitled
  BY DEF GetChildren
<1>2. n \in Nodes /\ Scrubbed[n]
  BY <1>1 DEF MenuTree
<1>3. n \notin unmet
  BY <1>2, ScrubbedIs
<1>4. Len(n) = Len(p) + 1 /\ Len(p) \in Nat /\ Above[n] = Above[p] \cup {n}
  BY <1>1, ChildrenAre, NodesArePaths
<1>5. n # <<>>
  BY <1>4
<1>. QED  BY <1>1, <1>2, <1>3, <1>4, <1>5 DEF Offered

LEMMA LinksAreOffered ==
  ASSUME MenuTree, NEW p \in Nodes, Above[p] \cap unmet = {}, NEW n \in Links(p)
  PROVE  Offered(n)
<1>1. <<>> \in Nodes /\ Above[<<>>] \cap unmet = {}
  BY MenuAssumption DEF MenuAssumption, Above
<1>2. ASSUME NEW m \in RenderModeMenu  PROVE Offered(m)
  BY <1>1, <1>2, EntriesAreOffered DEF RenderModeMenu
<1>3. ASSUME NEW m \in RenderModeMenu, n \in RenderMainMenu(m)  PROVE Offered(n)
  <2>1. m \in Nodes /\ Above[m] \cap unmet = {}
    BY <1>2 DEF Offered
  <2>2. \A q \in GetChildren(m) : Offered(q)
    BY <2>1, EntriesAreOffered
  <2>3. n \in GetChildren(m) \/ \E q \in GetChildren(m) : n \in GetChildren(q)
    BY <1>3 DEF RenderMainMenu
  <2>. QED  BY <2>2, <2>3, EntriesAreOffered DEF Offered
<1>4. ASSUME n \in RenderTabMenu(p)  PROVE Offered(n)
  <2>1. PICK i \in 3 .. Len(p) : n \in GetChildren(Prefix(p, i))
    BY <1>4 DEF RenderTabMenu, Prefix
  <2>2. p \in Seq(Nat) /\ Len(p) \in Nat
    BY NodesArePaths
  <2>3. i \in 0 .. Len(p) /\ i \in Nat
    BY <2>2
  <2>4. Prefix(p, i) \in Nodes /\ Len(Prefix(p, i)) = i
    BY <2>2, <2>3, PrefixesAreNodes, PathPrefix
  <2>5. \A k \in 1 .. i : k \in 1 .. Len(p) /\ k \in 0 .. i
    BY ONLY <2>2, <2>3
  <2>6. \A k \in 1 .. i : Prefix(Prefix(p, i), k) = Prefix(p, k)
    BY <2>2, <2>3, <2>5, PrefixOfPrefix
  <2>7. Above[Prefix(p, i)] = {Prefix(Prefix(p, i), k) : k \in 1 .. i}
    BY <2>4 DEF Above, Prefix
  <2>8. Above[p] = {Prefix(p, k) : k \in 1 .. Len(p)}
    BY DEF Above, Prefix
  <2>9. Above[Prefix(p, i)] \subseteq Above[p]
    BY <2>5, <2>6, <2>7, <2>8
  <2>. QED  BY <2>1, <2>4, <2>9, EntriesAreOffered
<1>. QED  BY <1>2, <1>3, <1>4 DEF Links

MenuInv == MenuTree /\ at \in Pages /\ at # <<>> /\ Above[at] \cap unmet = {}

LEMMA LinksLeadOn == ASSUME MenuInv  PROVE LinksLead
<1>1. at \in Nodes
  BY DEF MenuInv, Pages
<1>2. ASSUME FirstOnesFirst, NEW n \in Links(at)  PROVE Dispatch[n] # NoPage
  <2>1. Offered(n) /\ MenuTree
    BY <1>1, <1>2, LinksAreOffered DEF MenuInv
  <2>2. Shows(n, Dispatch[n])
    BY <1>2, <2>1, DispatchMet DEF Offered
  <2>. QED  BY <2>2, MenuAssumption DEF Shows, Pages, MenuAssumption
<1>. QED  BY <1>2 DEF LinksLead

LEMMA MenuStep == ASSUME MenuInv, MenuNext  PROVE MenuInv'
<1>1. PICK n \in Nodes : Click(n)
  BY DEF MenuNext
<1>2. UNCHANGED <<action, first, untitled, unmet, menu>>
  BY <1>1 DEF Click
<1>3. MenuTree' /\ Pages' = Pages /\ (at' \in Nodes => Above'[at'] \cap unmet' = Above[at'] \cap unmet)
  BY <1>2 DEF MenuInv, MenuTree, Scrubbed, Pages, Above
<1>4. at \in Nodes /\ MenuTree
  BY DEF MenuInv, Pages
<1>5. n \in Links(at) /\ Dispatch[n] # NoPage /\ at' = Dispatch[n]
  BY <1>1 DEF Click
<1>6. n # <<>> /\ Shows(n, at')
  BY <1>4, <1>5, LinksAreOffered, DispatchLeads DEF MenuInv, Offered
<1>7. at' \in Nodes /\ at' # <<>>
  <2>1. at' \in Nodes
    BY <1>6 DEF Shows, Pages
  <2>2. at' \in Seq(Nat) /\ n \in Seq(Nat) /\ Len(n) <= Len(at')
    BY <1>6, <2>1, NodesArePaths DEF Shows, Below
  <2>3. Len(n) \in Nat /\ Len(n) # 0
    BY <1>6, <2>2
  <2>4. Len(at') # 0
    BY <2>2, <2>3
  <2>. QED  BY <2>1, <2>4
<1>. QED  BY <1>3, <1>6, <1>7 DEF MenuInv, Shows

-----------------------------------------------------------------------------
\* A step repeated from s so many times.
Repeats(w, k, s, step) == w[0] = s /\ \A i \in 1 .. k : w[i] = step[w[i - 1]]

LEMMA Repeated ==
  ASSUME NEW k \in Nat, NEW X, NEW s \in X, NEW step \in [X -> X]
  PROVE  \E w \in [0 .. k -> X] : Repeats(w, k, s, step)
<1>. DEFINE Can(i) == \E w \in [0 .. i -> X] : Repeats(w, i, s, step)
            T == {i \in 1 .. k : ~Can(i)}
<1>1. Can(0)
  <2>. DEFINE w == [i \in 0 .. 0 |-> s]
  <2>1. w \in [0 .. 0 -> X] /\ w[0] = s /\ 1 .. 0 = {}
    OBVIOUS
  <2>. QED  BY <2>1 DEF Repeats
<1>2. ASSUME NEW i \in 1 .. k, Can(i - 1)  PROVE Can(i)
  <2>1. PICK v \in [0 .. i - 1 -> X] : Repeats(v, i - 1, s, step)
    BY <1>2
  <2>. DEFINE w == [j \in 0 .. i |-> IF j = i THEN step[v[i - 1]] ELSE v[j]]
  <2>2. i \in Nat /\ i # 0 /\ i - 1 \in 0 .. i - 1 /\ 0 \in 0 .. i - 1
    OBVIOUS
  <2>3. \A j \in 0 .. i : j = i \/ j \in 0 .. i - 1
    BY <2>2
  <2>4. w \in [0 .. i -> X]
    BY <2>2, <2>3
  <2>5. \A j \in 0 .. i - 1 : j \in 0 .. i /\ j # i /\ w[j] = v[j]
    BY <2>2
  <2>6. i \in 0 .. i /\ w[i] = step[w[i - 1]]
    BY <2>2, <2>5
  <2>. HIDE DEF w
  <2>7. \A j \in 1 .. i : j = i \/ (j \in 1 .. i - 1 /\ j \in 0 .. i - 1 /\ j - 1 \in 0 .. i - 1)
    BY ONLY <2>2
  <2>8. \A j \in 1 .. i : w[j] = step[w[j - 1]]
    BY <2>1, <2>5, <2>6, <2>7 DEF Repeats
  <2>9. w[0] = s
    BY <2>1, <2>2, <2>5 DEF Repeats
  <2>. QED  BY <2>4, <2>8, <2>9 DEF Repeats
<1>3. ASSUME T # {}  PROVE FALSE
  <2>. HIDE DEF Can
  <2>1. PICK m \in T : \A i \in T : m <= i
    BY <1>3, LeastNatural
  <2>2. CASE m = 1
    <3>1. m \in 1 .. k /\ m - 1 = 0
      BY <2>2
    <3>. QED  BY <1>1, <1>2, <2>1, <3>1
  <2>3. CASE m # 1
    <3>1. m - 1 \in 1 .. k /\ ~(m <= m - 1) /\ m \in 1 .. k
      BY <2>3
    <3>2. Can(m - 1)
      BY <2>1, <3>1
    <3>. QED  BY <1>2, <2>1, <3>1, <3>2
  <2>. QED  BY <2>2, <2>3
<1>4. Can(k)
  <2>. HIDE DEF Can
  <2>1. k = 0 \/ k \in 1 .. k
    OBVIOUS
  <2>. QED  BY <1>1, <1>3, <2>1
<1>. QED  BY <1>4

\* The pages that can be shown, and where a click leads from some of them.
Showable == {p \in Pages : p # <<>> /\ Above[p] \cap unmet = {}}
More(S) == S \cup ({Dispatch[n] : n \in UNION {Links(p) : p \in S}} \ {NoPage})

LEMMA ShownIsShowable ==
  ASSUME NEW n \in Nodes, n # <<>>, NEW p, Shows(n, p)
  PROVE  p \in Showable
<1>1. p \in Seq(Nat) /\ n \in Seq(Nat) /\ Len(n) <= Len(p)
  BY NodesArePaths DEF Shows, Pages, Below
<1>2. Len(n) \in Nat /\ Len(n) # 0
  BY <1>1
<1>3. Len(p) # 0
  BY <1>1, <1>2
<1>4. p # <<>>
  BY <1>3
<1>. QED  BY <1>4 DEF Showable, Shows

LEMMA MoreAreShowable == ASSUME MenuTree, NEW S \in SUBSET Showable  PROVE More(S) \in SUBSET Showable
<1>1. ASSUME NEW p \in S, NEW n \in Links(p), Dispatch[n] # NoPage  PROVE Dispatch[n] \in Showable
  <2>1. Offered(n)
    BY LinksAreOffered DEF Showable, Pages
  <2>2. Shows(n, Dispatch[n])
    BY <1>1, <2>1, DispatchLeads DEF Offered
  <2>. QED  BY <2>1, <2>2, ShownIsShowable DEF Offered
<1>. QED  BY <1>1 DEF More

Clicks(w, S, k) == w[0] = S /\ w[k] = Reached(S, k) /\ \A i \in 1 .. k : w[i] = More(w[i - 1])

LEMMA ReachedIs ==
  ASSUME MenuTree, NEW S \in SUBSET Showable, NEW k \in Nat
  PROVE  \E w : Clicks(w, S, k)
<1>. DEFINE X == SUBSET Showable
            step == [T \in X |-> More(T)]
            Walk(w) == w = [i \in 0 .. k |-> IF i = 0 THEN S ELSE More(w[i - 1])]
<1>1. step \in [X -> X]
  BY MoreAreShowable
<1>2. PICK v \in [0 .. k -> X] : Repeats(v, k, S, step)
  <2>. HIDE DEF X, step
  <2>1. S \in X
    BY DEF X
  <2>. QED  BY <1>1, <2>1, Repeated
<1>3. \A i \in 0 .. k : i = 0 \/ (i \in 1 .. k /\ i - 1 \in 0 .. k)
  OBVIOUS
<1>4. \A i \in 0 .. k : v[i] = IF i = 0 THEN S ELSE More(v[i - 1])
  BY <1>2, <1>3 DEF Repeats
<1>5. Walk(v)
  BY <1>2, <1>4
<1>. DEFINE w == CHOOSE u : Walk(u)
<1>6. Walk(w)
  BY <1>5
<1>7. Reached(S, k) = w[k]
  BY DEF Reached, More
<1>. HIDE DEF w
<1>8. 0 \in 0 .. k /\ \A i \in 1 .. k : i \in 0 .. k /\ i # 0
  OBVIOUS
<1>9. w[0] = S /\ \A i \in 1 .. k : w[i] = More(w[i - 1])
  BY <1>6, <1>8
<1>. QED  BY <1>7, <1>9 DEF Clicks

\* The way down to n: its prefixes, each of which the menu offers below the one
\* before.
LEMMA WayDown ==
  ASSUME MenuTree, FirstOnesFirst, NEW n \in Nodes, NEW k \in 1 .. Len(n),
         \A a \in Above[n] : a \notin untitled /\ Scrubbed[a]
  PROVE  /\ Prefix(n, k) \in Nodes /\ Len(Prefix(n, k)) = k
         /\ Prefix(n, k) \in GetChildren(Prefix(n, k - 1))
         /\ Shows(Prefix(n, k), Dispatch[Prefix(n, k)]) /\ Dispatch[Prefix(n, k)] \in Showable
         /\ Above[Prefix(n, k)] \cap unmet = {}
<1>. DEFINE a == Prefix(n, k)
            b == Prefix(n, k - 1)
<1>1. n \in Seq(Nat) /\ Len(n) \in Nat /\ k \in Nat
  BY NodesArePaths
<1>2. k \in 0 .. Len(n) /\ k - 1 \in 0 .. Len(n) /\ k - 1 \in 0 .. k /\ k - 1 + 1 = k /\ k # 0
  BY <1>1
<1>3. a \in Nodes /\ Len(a) = k /\ b \in Nodes /\ Len(b) = k - 1 /\ Prefix(a, k - 1) = b
  BY <1>1, <1>2, PrefixesAreNodes, PathPrefix, PrefixOfPrefix
<1>4. Above[n] = {Prefix(n, i) : i \in 1 .. Len(n)} /\ Above[a] = {Prefix(a, i) : i \in 1 .. k}
  BY <1>3 DEF Above, Prefix
<1>5. \A i \in 1 .. k : i \in 1 .. Len(n) /\ i \in 0 .. k
  BY ONLY <1>1, <1>2
<1>6. \A i \in 1 .. k : Prefix(a, i) = Prefix(n, i)
  BY <1>1, <1>2, <1>5, PrefixOfPrefix
<1>7. Above[a] \subseteq Above[n]
  BY <1>4, <1>5, <1>6
<1>8. a \in Above[n]
  BY <1>4
<1>. HIDE DEF a, b
<1>9. a \notin untitled /\ Scrubbed[a]
  BY <1>8
<1>10. Above[a] \cap unmet = {}
  <2>1. \A c \in Above[a] : c \in Nodes
    BY <1>1, <1>4, <1>5, <1>6, PrefixesAreNodes, <1>7
  <2>2. \A c \in Above[a] : c \notin unmet
    BY <1>7, <2>1, ScrubbedIs
  <2>. QED  BY <2>2
<1>11. a \in GetChildren(b)
  <2>1. Len(a) = Len(b) + 1 /\ SubSeq(a, 1, Len(b)) = b
    BY <1>2, <1>3 DEF Prefix
  <2>2. a \in Children[b]
    BY <1>3, <2>1 DEF Children
  <2>3. a \in menu
    BY <1>3, <1>9 DEF MenuTree
  <2>. QED  BY <1>9, <2>2, <2>3 DEF GetChildren
<1>12. Shows(a, Dispatch[a])
  BY <1>3, <1>9, <1>10, DispatchMet
<1>13. a # <<>>
  BY <1>2, <1>3
<1>14. Dispatch[a] \in Showable
  BY <1>3, <1>12, <1>13, ShownIsShowable
<1>. QED  BY <1>3, <1>10, <1>11, <1>12, <1>14 DEF a, b

LEMMA TabsGoOn ==
  ASSUME MenuTree, FirstOnesFirst, NEW n \in Nodes, NEW k \in 4 .. Len(n),
         \A a \in Above[n] : a \notin untitled /\ Scrubbed[a],
         NEW p \in Nodes, Below(p, Prefix(n, k - 1))
  PROVE  Prefix(n, k) \in Links(p)
<1>1. n \in Seq(Nat) /\ Len(n) \in Nat /\ p \in Seq(Nat) /\ Len(p) \in Nat
  BY NodesArePaths
<1>2. k \in Nat /\ k - 1 \in 1 .. Len(n) /\ k - 1 >= 3 /\ k \in 1 .. Len(n) /\ k - 1 \in 0 .. Len(n)
  BY ONLY <1>1, k \in 4 .. Len(n)
<1>3. Len(Prefix(n, k - 1)) = k - 1
  BY <1>1, <1>2, PathPrefix
<1>4. k - 1 <= Len(p) /\ Prefix(p, k - 1) = Prefix(n, k - 1)
  BY <1>3 DEF Below
<1>5. Len(p) >= 3 /\ k - 1 \in 3 .. Len(p) /\ k - 1 \in 0 .. Len(p)
  BY ONLY <1>1, <1>2, <1>4
<1>6. ASSUME NEW j \in 0 .. k - 1  PROVE Prefix(p, j) = Prefix(n, j)
  BY <1>1, <1>2, <1>4, <1>5, PrefixOfPrefix
<1>7. ASSUME NEW j \in 4 .. k - 1  PROVE Prefix(p, j) \in GetChildren(Prefix(p, j - 1))
  <2>1. j \in 0 .. k - 1 /\ j - 1 \in 0 .. k - 1 /\ j \in 1 .. Len(n)
    BY ONLY <1>1, <1>2, j \in 4 .. k - 1
  <2>. QED  BY <1>6, <2>1, WayDown
<1>8. Prefix(n, k) \in GetChildren(Prefix(p, k - 1))
  BY <1>2, <1>4, WayDown
<1>9. Prefix(n, k) \in RenderTabMenu(p)
  BY <1>5, <1>7, <1>8 DEF RenderTabMenu, Prefix
<1>. QED  BY <1>5, <1>9 DEF Links

LEMMA PagesAreThere == ASSUME MenuInv  PROVE PagesAreFound
<1>. SUFFICES ASSUME FirstOnesFirst, NEW n \in Nodes \ Inner, Len(n) >= 2,
                     \A a \in Above[n] : a \notin untitled /\ Scrubbed[a]
              PROVE  n \in Reached({at}, Len(n) + 1)
  BY DEF PagesAreFound
<1>. DEFINE l == Len(n)
            a(k) == Prefix(n, k)
<1>1. n \in Nodes /\ n \in Seq(Nat) /\ l \in Nat /\ l >= 2 /\ MenuTree
  BY NodesArePaths DEF MenuInv
<1>2. ASSUME NEW k \in 1 .. l
      PROVE  /\ a(k) \in Nodes /\ Len(a(k)) = k /\ a(k) \in GetChildren(a(k - 1))
             /\ Shows(a(k), Dispatch[a(k)]) /\ Dispatch[a(k)] \in Showable
  BY <1>1, WayDown
<1>3. a(0) = <<>> /\ a(l) = n
  BY <1>1, WholePrefix DEF Prefix
<1>4. Dispatch[n] = n
  <2>1. l \in 1 .. l
    BY <1>1
  <2>2. Above[n] \cap unmet = {}
    BY <1>1, <1>3, <2>1, WayDown
  <2>3. action[n] = "page" /\ n \notin SentFurther
    BY <1>1 DEF MenuTree, SentFurther
  <2>. QED  BY <1>1, <2>2, <2>3, DispatchIs DEF Answer
<1>5. {at} \in SUBSET Showable /\ at \in Nodes
  BY DEF MenuInv, Showable, Pages
<1>p. PICK w : Clicks(w, {at}, l + 1)
  <2>1. l + 1 \in Nat
    BY <1>1
  <2>. HIDE DEF l
  <2>. QED  BY <1>1, <1>5, <2>1, ReachedIs
<1>6. /\ w[0] = {at} /\ w[l + 1] = Reached({at}, l + 1)
      /\ \A i \in 1 .. l + 1 : w[i] = More(w[i - 1])
  BY <1>p DEF Clicks
<1>. HIDE DEF l, a
<1>7. ASSUME NEW i \in 1 .. l + 1, NEW p \in w[i - 1], NEW k \in 1 .. l, a(k) \in Links(p)
      PROVE  Dispatch[a(k)] \in w[i]
  <2>1. Dispatch[a(k)] \in Nodes
    BY <1>2 DEF Showable, Pages
  <2>2. Dispatch[a(k)] # NoPage
    BY <2>1, MenuAssumption DEF MenuAssumption
  <2>. QED  BY <1>6, <1>7, <2>2 DEF More
<1>8. \A i \in 1 .. l + 1 : w[i - 1] \subseteq w[i]
  BY <1>6 DEF More
<1>9. 1 \in 1 .. l + 1 /\ 2 \in 1 .. l + 1 /\ l \in 1 .. l + 1 /\ l + 1 \in 1 .. l + 1 /\ 1 \in 1 .. l /\ 2 \in 1 .. l /\ l \in 1 .. l
  BY ONLY <1>1
<1>10. Dispatch[a(1)] \in w[1]
  <2>1. a(1) \in GetChildren(<<>>)
    BY <1>2, <1>3, <1>9
  <2>2. a(1) \in Links(at)
    BY <2>1 DEF Links, RenderModeMenu
  <2>3. at \in w[1 - 1]
    BY <1>6
  <2>. QED  BY <1>7, <1>9, <2>2, <2>3
<1>11. RenderMainMenu(a(1)) \subseteq Links(Dispatch[a(1)])
  <2>1. a(1) \in RenderModeMenu
    BY <1>2, <1>3, <1>9 DEF RenderModeMenu
  <2>2. SubSeq(Dispatch[a(1)], 1, 1) = a(1)
    BY <1>2, <1>9 DEF Shows, Below, Prefix
  <2>. QED  BY <2>1, <2>2 DEF Links
<1>12. a(2) \in GetChildren(a(1))
  BY <1>2, <1>9
<1>13. n \in w[l]
  <2>1. CASE l = 2
    <3>1. GetChildren(n) = {}
      BY <1>1 DEF GetChildren, Inner
    <3>2. a(2) \in RenderMainMenu(a(1))
      BY <1>3, <1>12, <2>1, <3>1 DEF RenderMainMenu
    <3>3. Dispatch[a(2)] \in w[2]
      BY <1>7, <1>9, <1>10, <1>11, <3>2
    <3>. QED  BY <1>3, <1>4, <2>1, <3>3
  <2>2. CASE l # 2
    <3>. DEFINE T == {k \in 1 .. l : k >= 3 /\ Dispatch[a(k)] \notin w[k - 1]}
    <3>0. 3 \in 1 .. l
      BY <1>1, <2>2
    <3>1. Dispatch[a(3)] \in w[2]
      <4>1. a(3) \in GetChildren(a(2))
        BY <1>2, <3>0
      <4>2. a(3) \in RenderMainMenu(a(1))
        BY <1>12, <4>1 DEF RenderMainMenu
      <4>. QED  BY <1>7, <1>9, <1>10, <1>11, <3>0, <4>2
    <3>2. ASSUME T # {}  PROVE FALSE
      <4>1. PICK m \in T : \A k \in T : m <= k
        BY <1>1, <3>2, LeastNatural
      <4>2. m # 3 /\ m \in 4 .. l /\ m \in 1 .. l /\ m - 1 \in 1 .. l /\ m - 1 >= 3 /\ ~(m <= m - 1)
            /\ m - 1 \in 1 .. l + 1 /\ (m - 1) - 1 = m - 2
        BY <1>1, <3>1
      <4>3. Dispatch[a(m - 1)] \in w[(m - 1) - 1]
        BY <4>1, <4>2
      <4>4. Dispatch[a(m - 1)] \in Nodes /\ Below(Dispatch[a(m - 1)], a(m - 1))
        BY <1>2, <4>2 DEF Shows, Pages
      <4>5. a(m) \in Links(Dispatch[a(m - 1)])
        BY <1>1, <4>2, <4>4, TabsGoOn DEF a, l
      <4>6. Dispatch[a(m)] \in w[m - 1]
        BY <1>7, <4>2, <4>3, <4>5
      <4>. QED  BY <4>6
    <3>3. l >= 3 /\ l \in 1 .. l
      BY <1>1, <2>2
    <3>4. Dispatch[a(l)] \in w[l - 1]
      BY <3>2, <3>3
    <3>. QED  BY <1>3, <1>4, <1>8, <1>9, <3>4
  <2>. QED  BY <2>1, <2>2
<1>14. n \in w[l + 1]
  <2>1. l + 1 - 1 = l
    BY <1>1
  <2>. QED  BY <1>8, <1>9, <1>13, <2>1
<1>. QED  BY <1>6, <1>14 DEF l

\* Entries of the menu lead to pages, and the pages of a tree in which the first
\* children are entries are found by clicking, for any finite tree.
LEMMA MenuMeans == ASSUME MenuInit  PROVE MenuInv
<1>1. MenuTree
  <2>1. first \in [Inner -> Nodes] /\ \A n \in Inner : first[n] \in Children[n]
    BY DEF MenuInit
  <2>2. menu = {n \in Nodes : Scrubbed[n]}
    BY DEF MenuInit, Satisfied
  <2>. QED  BY <2>1, <2>2 DEF MenuInit, MenuTree
<1>2. at \in Pages /\ at # <<>> /\ Dispatch[at] = at
  BY DEF MenuInit
<1>3. at \in Nodes /\ at # NoPage
  BY <1>2, MenuAssumption DEF Pages, MenuAssumption
<1>4. Shows(at, at)
  BY <1>1, <1>2, <1>3, DispatchLeads
<1>. QED  BY <1>1, <1>2, <1>4 DEF MenuInv, Shows
-----------------------------------------------------------------------------
(* Numbers and sequences.                                                  *)

LEMMA Joined ==
  ASSUME NEW S, NEW s \in Seq(S), NEW t \in Seq(S), NEW m, NEW n, m = Len(s), n = Len(t)
  PROVE  /\ m \in Nat /\ n \in Nat /\ s \o t \in Seq(S) /\ DOMAIN (s \o t) = 1 .. m + n
         /\ \A k \in 1 .. m : (s \o t)[k] = s[k]
         /\ \A k \in m + 1 .. m + n : (s \o t)[k] = t[k - m]
<1>1. m \in Nat /\ n \in Nat
  OBVIOUS
<1>2. s \o t \in Seq(S) /\ Len(s \o t) = m + n
  BY ConcatProperties
<1>3. \A k \in 1 .. m + n : (s \o t)[k] = IF k <= m THEN s[k] ELSE t[k - m]
  BY ConcatProperties
<1>4. DOMAIN (s \o t) = 1 .. m + n
  BY <1>2
<1>5. \A k \in 1 .. m : k \in 1 .. m + n /\ k <= m
  BY ONLY <1>1
<1>6. \A k \in m + 1 .. m + n : k \in 1 .. m + n /\ ~(k <= m)
  BY ONLY <1>1
<1>. QED  BY <1>1, <1>2, <1>3, <1>4, <1>5, <1>6

LEMMA CutOut ==
  ASSUME NEW S, NEW seq \in Seq(S), NEW n, n = Len(seq), NEW a \in 1 .. n + 1, NEW b \in a - 1 .. n
  PROVE  /\ SubSeq(seq, a, b) \in Seq(S) /\ Len(SubSeq(seq, a, b)) = b - a + 1
         /\ \A k \in 1 .. b - a + 1 : SubSeq(seq, a, b)[k] = seq[a + k - 1]
<1>1. n \in Nat /\ a \in Int /\ b \in Int
  OBVIOUS
<1>2. \A k \in a .. b : k \in 1 .. n
  BY ONLY <1>1, a \in 1 .. n + 1, b \in a - 1 .. n
<1>3. \A k \in a .. b : seq[k] \in S
  BY <1>2
<1>4. SubSeq(seq, a, b) \in Seq(S) /\ Len(SubSeq(seq, a, b)) = IF a <= b THEN b - a + 1 ELSE 0
  BY <1>1, <1>3, SubSeqProperties
<1>5. \A k \in 1 .. b - a + 1 : SubSeq(seq, a, b)[k] = seq[a + k - 1]
  BY <1>1, <1>3, SubSeqProperties
<1>6. (IF a <= b THEN b - a + 1 ELSE 0) = b - a + 1
  BY ONLY <1>1, b \in a - 1 .. n
<1>. QED  BY <1>4, <1>5, <1>6

LEMMA LeastIsIn ==
  ASSUME NEW n \in Nat, NEW T \in SUBSET (1 .. n), T # {}
  PROVE  Min(T) \in T /\ \A k \in T : Min(T) <= k
BY LeastNatural DEF Min

\* What a sequence of n elements becomes when its i-th is taken out, or when e
\* is put in as its i-th.
TakenFrom(r, seq, n, i) ==
  (\A k \in 1 .. i - 1 : r[k] = seq[k]) /\ (\A k \in i .. n - 1 : r[k] = seq[k + 1])
PutInto(r, seq, n, i, e) ==
  (\A k \in 1 .. i - 1 : r[k] = seq[k]) /\ r[i] = e /\ (\A k \in i + 1 .. n + 1 : r[k] = seq[k - 1])

LEMMA TakenOut ==
  ASSUME NEW S, NEW seq \in Seq(S), NEW n \in Nat, n = Len(seq), NEW i \in 1 .. n
  PROVE  /\ RemoveAt(seq, i) \in Seq(S)
         /\ DOMAIN RemoveAt(seq, i) = 1 .. n - 1
         /\ TakenFrom(RemoveAt(seq, i), seq, n, i)
<1>. DEFINE s == SubSeq(seq, 1, i - 1)
            t == SubSeq(seq, i + 1, n)
<1>1. s \in Seq(S) /\ Len(s) = i - 1 /\ \A k \in 1 .. i - 1 : s[k] = seq[k]
  <2>1. 1 \in 1 .. n + 1 /\ i - 1 \in 1 - 1 .. n /\ i - 1 - 1 + 1 = i - 1 /\ \A k \in 1 .. i - 1 : 1 + k - 1 = k
    BY ONLY n \in Nat, i \in 1 .. n
  <2>. QED  BY <2>1, CutOut
<1>2. t \in Seq(S) /\ Len(t) = n - i /\ \A k \in 1 .. n - i : t[k] = seq[i + k]
  <2>1. i + 1 \in 1 .. n + 1 /\ n \in (i + 1) - 1 .. n /\ n - (i + 1) + 1 = n - i
        /\ \A k \in 1 .. n - i : (i + 1) + k - 1 = i + k
    BY ONLY n \in Nat, i \in 1 .. n
  <2>. QED  BY <2>1, CutOut
<1>. HIDE DEF s, t
<1>. DEFINE r == s \o t
<1>3. /\ r \in Seq(S) /\ DOMAIN r = 1 .. i - 1 + (n - i)
      /\ \A k \in 1 .. i - 1 : r[k] = s[k]
      /\ \A k \in i - 1 + 1 .. i - 1 + (n - i) : r[k] = t[k - (i - 1)]
  <2>. DEFINE a == i - 1
              b == n - i
  <2>1. s \in Seq(S) /\ t \in Seq(S) /\ a = Len(s) /\ b = Len(t)
    BY <1>1, <1>2
  <2>2. /\ r \in Seq(S) /\ DOMAIN r = 1 .. a + b
        /\ \A k \in 1 .. a : r[k] = s[k]
        /\ \A k \in a + 1 .. a + b : r[k] = t[k - a]
    <3>. HIDE DEF a, b
    <3>. QED  BY ONLY <2>1, Joined
  <2>. QED  BY <2>2
<1>. HIDE DEF r
<1>4. i - 1 + (n - i) = n - 1 /\ i - 1 + 1 = i
  BY ONLY n \in Nat, i \in 1 .. n
<1>5. \A k \in 1 .. i - 1 : r[k] = seq[k]
  BY <1>1, <1>3
<1>6. ASSUME NEW k \in i .. n - 1  PROVE r[k] = seq[k + 1]
  <2>1. k - (i - 1) \in 1 .. n - i /\ i + (k - (i - 1)) = k + 1
    BY ONLY n \in Nat, i \in 1 .. n, k \in i .. n - 1
  <2>. QED  BY <1>2, <1>3, <1>4, <2>1
<1>. QED  BY <1>3, <1>4, <1>5, <1>6 DEF r, s, t, RemoveAt, TakenFrom

\* A sequence with e put in as its i-th element.
LEMMA PutIn ==
  ASSUME NEW S, NEW seq \in Seq(S), NEW n \in Nat, n = Len(seq), NEW i \in 1 .. n + 1, NEW e \in S
  PROVE  /\ InsertAt(seq, i, e) \in Seq(S)
         /\ DOMAIN InsertAt(seq, i, e) = 1 .. n + 1
         /\ PutInto(InsertAt(seq, i, e), seq, n, i, e)
<1>. DEFINE s == SubSeq(seq, 1, i - 1)
            t == SubSeq(seq, i, n)
<1>1. s \in Seq(S) /\ Len(s) = i - 1 /\ \A k \in 1 .. i - 1 : s[k] = seq[k]
  <2>1. 1 \in 1 .. n + 1 /\ i - 1 \in 1 - 1 .. n /\ i - 1 - 1 + 1 = i - 1 /\ \A k \in 1 .. i - 1 : 1 + k - 1 = k
    BY ONLY n \in Nat, i \in 1 .. n + 1
  <2>. QED  BY <2>1, CutOut
<1>2. t \in Seq(S) /\ Len(t) = n - i + 1 /\ \A k \in 1 .. n - i + 1 : t[k] = seq[i + k - 1]
  <2>1. n \in i - 1 .. n
    BY ONLY n \in Nat, i \in 1 .. n + 1
  <2>. QED  BY <2>1, CutOut
<1>. HIDE DEF s, t
<1>. DEFINE u == s \o <<e>>
            r == u \o t
<1>3. u \in Seq(S) /\ DOMAIN u = 1 .. i /\ u[i] = e /\ \A k \in 1 .. i - 1 : u[k] = seq[k]
  <2>1. <<e>> \in Seq(S) /\ Len(<<e>>) = 1 /\ <<e>>[1] = e
    OBVIOUS
  <2>2. /\ u \in Seq(S) /\ DOMAIN u = 1 .. i - 1 + 1
        /\ \A k \in 1 .. i - 1 : u[k] = s[k]
        /\ \A k \in i - 1 + 1 .. i - 1 + 1 : u[k] = <<e>>[k - (i - 1)]
    BY <1>1, <2>1, Joined
  <2>3. i - 1 + 1 = i /\ i - (i - 1) = 1 /\ i \in i .. i
    BY ONLY n \in Nat, i \in 1 .. n + 1
  <2>. HIDE DEF u
  <2>4. u[i] = e
    BY <2>1, <2>2, <2>3
  <2>. QED  BY <1>1, <2>2, <2>3, <2>4
<1>. HIDE DEF u
<1>4. /\ r \in Seq(S) /\ DOMAIN r = 1 .. i + (n - i + 1)
      /\ \A k \in 1 .. i : r[k] = u[k]
      /\ \A k \in i + 1 .. i + (n - i + 1) : r[k] = t[k - i]
  <2>1. Len(u) = i
    BY <1>3
  <2>. QED  BY <1>2, <1>3, <2>1, Joined
<1>. HIDE DEF r
<1>5. i + (n - i + 1) = n + 1 /\ i \in 1 .. i /\ \A k \in 1 .. i - 1 : k \in 1 .. i
  BY ONLY n \in Nat, i \in 1 .. n + 1
<1>6. ASSUME NEW k \in i + 1 .. n + 1  PROVE r[k] = seq[k - 1]
  <2>1. k - i \in 1 .. n - i + 1 /\ i + (k - i) - 1 = k - 1
    BY ONLY n \in Nat, i \in 1 .. n + 1, k \in i + 1 .. n + 1
  <2>2. r[k] = t[k - i]
    BY <1>4, <1>5
  <2>. QED  BY <1>2, <2>1, <2>2
<1>. QED  BY <1>3, <1>4, <1>5, <1>6 DEF r, u, s, t, InsertAt, PutInto

\* What rises goes on rising with the i-th taken out.
LEMMA RisesWithout ==
  ASSUME NEW n \in Nat, NEW i \in 1 .. n, NEW a, NEW b,
         \A k \in 1 .. n : a[k] \in Int,
         \A k, l \in 1 .. n : k < l => a[k] < a[l],
         TakenFrom(b, a, n, i)
  PROVE  \A k, l \in 1 .. n - 1 : k < l => b[k] < b[l]
<1>. USE DEF TakenFrom
<1>1. ASSUME NEW k \in 1 .. n - 1, NEW l \in 1 .. n - 1, k < l, l < i  PROVE b[k] < b[l]
  <2>1. k \in 1 .. i - 1 /\ l \in 1 .. i - 1 /\ k \in 1 .. n /\ l \in 1 .. n
    BY ONLY n \in Nat, i \in 1 .. n, k \in 1 .. n - 1, l \in 1 .. n - 1, <1>1
  <2>. QED  BY <1>1, <2>1
<1>2. ASSUME NEW k \in 1 .. n - 1, NEW l \in 1 .. n - 1, k < l, k < i, ~(l < i)  PROVE b[k] < b[l]
  <2>1. k \in 1 .. i - 1 /\ l \in i .. n - 1 /\ k \in 1 .. n /\ l + 1 \in 1 .. n /\ k < l + 1
    BY ONLY n \in Nat, i \in 1 .. n, k \in 1 .. n - 1, l \in 1 .. n - 1, <1>2
  <2>. QED  BY <2>1
<1>3. ASSUME NEW k \in 1 .. n - 1, NEW l \in 1 .. n - 1, k < l, ~(k < i)  PROVE b[k] < b[l]
  <2>1. k \in i .. n - 1 /\ l \in i .. n - 1 /\ k + 1 \in 1 .. n /\ l + 1 \in 1 .. n /\ k + 1 < l + 1
    BY ONLY n \in Nat, i \in 1 .. n, k \in 1 .. n - 1, l \in 1 .. n - 1, <1>3
  <2>. QED  BY <2>1
<1>. QED  BY <1>1, <1>2, <1>3

\* It goes on rising with something put in before all that is greater.
LEMMA RisesWith ==
  ASSUME NEW n \in Nat, NEW i \in 1 .. n + 1, NEW a, NEW b, NEW x \in Int,
         \A k \in 1 .. n : a[k] \in Int,
         \A k, l \in 1 .. n : k < l => a[k] < a[l],
         \A k \in 1 .. i - 1 : a[k] < x, i \in 1 .. n => x < a[i],
         PutInto(b, a, n, i, x)
  PROVE  \A k, l \in 1 .. n + 1 : k < l => b[k] < b[l]
<1>. USE DEF PutInto
<1>1. ASSUME NEW k \in 1 .. n + 1, NEW l \in 1 .. n + 1, k < l, l < i  PROVE b[k] < b[l]
  <2>1. k \in 1 .. i - 1 /\ l \in 1 .. i - 1 /\ k \in 1 .. n /\ l \in 1 .. n
    BY ONLY n \in Nat, i \in 1 .. n + 1, k \in 1 .. n + 1, l \in 1 .. n + 1, <1>1
  <2>. QED  BY <1>1, <2>1
<1>2. ASSUME NEW k \in 1 .. i - 1  PROVE b[k] < b[i]
  OBVIOUS
<1>3. ASSUME NEW l \in i + 1 .. n + 1  PROVE b[i] < b[l]
  <2>1. l - 1 \in 1 .. n /\ i \in 1 .. n /\ (l - 1 = i \/ i < l - 1)
    BY ONLY n \in Nat, i \in 1 .. n + 1, l \in i + 1 .. n + 1
  <2>2. x < a[i] /\ (l - 1 = i \/ a[i] < a[l - 1]) /\ b[l] = a[l - 1]
    BY <2>1
  <2>3. a[i] \in Int /\ a[l - 1] \in Int
    BY <2>1
  <2>4. x < a[l - 1]
    BY ONLY x \in Int, <2>2, <2>3
  <2>. QED  BY <2>2, <2>4
<1>4. ASSUME NEW k \in 1 .. i - 1, NEW l \in i + 1 .. n + 1  PROVE b[k] < b[l]
  <2>1. k \in 1 .. n /\ l - 1 \in 1 .. n /\ k < l - 1
    BY ONLY n \in Nat, i \in 1 .. n + 1, k \in 1 .. i - 1, l \in i + 1 .. n + 1
  <2>. QED  BY <2>1
<1>5. ASSUME NEW k \in i + 1 .. n + 1, NEW l \in i + 1 .. n + 1, k < l  PROVE b[k] < b[l]
  <2>1. k - 1 \in 1 .. n /\ l - 1 \in 1 .. n /\ k - 1 < l - 1
    BY ONLY n \in Nat, i \in 1 .. n + 1, k \in i + 1 .. n + 1, l \in i + 1 .. n + 1, <1>5
  <2>. QED  BY <2>1
<1>. QED
  <2>. SUFFICES ASSUME NEW k \in 1 .. n + 1, NEW l \in 1 .. n + 1, k < l  PROVE b[k] < b[l]
    OBVIOUS
  <2>1. \/ l < i \/ (l = i /\ k \in 1 .. i - 1) \/ (k = i /\ l \in i + 1 .. n + 1)
        \/ (k \in 1 .. i - 1 /\ l \in i + 1 .. n + 1) \/ (k \in i + 1 .. n + 1 /\ l \in i + 1 .. n + 1)
    BY ONLY n \in Nat, i \in 1 .. n + 1, k \in 1 .. n + 1, l \in 1 .. n + 1, k < l
  <2>. QED  BY <1>1, <1>2, <1>3, <1>4, <1>5, <2>1

-----------------------------------------------------------------------------
(* ClassSystem.                                                            *)

Frames == [obj : Objects, level : defines, via : {"call", "new", "super", "later"}, first : BOOLEAN]

ClassTypes ==
  /\ defines \in SUBSET Classes /\ soiled \in SUBSET Classes
  /\ stack \in Seq(Frames)
  /\ context \in [Classes -> Seq(defines)]
  /\ pending \in SUBSET [obj : Objects, level : defines]

\* Every super belongs to a call that began below it, of the same object.
Begun(i) ==
  \E b \in 1 .. i : stack[b].via # "super" /\ \A j \in b + 1 .. i : stack[j].via = "super"
SameObject(b, i) ==
  b <= i /\ (\A j \in b + 1 .. i : stack[j].via = "super") => stack[b].obj = stack[i].obj
Chained == (\A i \in DOMAIN stack : Begun(i)) /\ \A b, i \in DOMAIN stack : SameObject(b, i)

\* The calls of a stack that have climbed in the slot of class c.
Climbed(frame, c) == BySuper(frame) /\ ClassOf[frame.obj] = c
Climbers(st, c) == {i \in DOMAIN st : Climbed(st[i], c)}

\* h says how far each of them had climbed: the length that the slot had then.
Climb(h, c, st, slot) ==
  /\ \A i \in Climbers(st, c) : h[i] \in 1 .. Len(slot) /\ (st[i].first <=> h[i] = 1)
  /\ \A i, j \in Climbers(st, c) : i < j => h[i] < h[j]

\* Without errors the slot holds exactly what they have reached, each the
\* nearest above what the one before has reached.
Unbroken(h, c, st, slot, up) ==
  /\ \A k \in 1 .. Len(slot) : \E i \in Climbers(st, c) : h[i] = k
  /\ \A i \in Climbers(st, c) : slot[Len(slot) + 1 - h[i]] = st[i].level
  /\ \A i \in Climbers(st, c) : h[i] = 1 => st[i].level = up[c]
  /\ \A i, j \in Climbers(st, c) : h[j] = h[i] + 1 => st[j].level = up[st[i].level]

Climbing(h, c, st, slot, up, broken) ==
  Climb(h, c, st, slot) /\ (c \notin broken => Unbroken(h, c, st, slot, up))

Up == [c \in Classes |-> NextAbove(c)]
ClassInv ==
  /\ ClassTypes /\ Chained
  /\ \E h \in [Nat -> Nat] : \A c \in Classes : Climbing(h, c, stack, context[c], Up, soiled)

LEMMA ClassConstants ==
  /\ Base \in Seq(Nat) /\ Classes = 1 .. Len(Base) /\ Len(Base) \in Nat
  /\ ClassOf \in [Objects -> Classes]
BY ClassAssumption DEF Classes

\* What is found above a class is a class that defines the method.
LEMMA AboveDefines ==
  ASSUME ClassTypes, NEW c, NextAbove(c) # 0  PROVE NextAbove(c) \in defines
<1>. DEFINE owners == Ancestors[c] \cap defines
<1>1. owners # {} /\ NextAbove(c) = CHOOSE d \in owners : \A e \in owners : e <= d
  BY DEF NextAbove
<1>2. owners \in SUBSET (1 .. Len(Base))
  BY ClassConstants DEF ClassTypes
<1>. HIDE DEF owners
<1>3. \E d \in owners : \A e \in owners : e <= d
  BY <1>1, <1>2, ClassConstants, GreatestNatural
<1>4. NextAbove(c) \in owners
  BY <1>1, <1>3
<1>. QED  BY <1>4 DEF owners

LEMMA PushTypes ==
  ASSUME ClassTypes, NEW f \in Frames, stack' = Append(stack, f), defines' = defines
  PROVE  /\ stack' \in Seq(Frames)' /\ Len(stack) \in Nat /\ Len(stack') = Len(stack) + 1
         /\ DOMAIN stack = 1 .. Len(stack) /\ DOMAIN stack' = 1 .. Len(stack) + 1
         /\ stack'[Len(stack) + 1] = f /\ \A i \in DOMAIN stack : stack'[i] = stack[i]
<1>1. stack \in Seq(Frames) /\ Frames' = Frames
  BY DEF ClassTypes, Frames
<1>. QED  BY <1>1, AppendProperties

LEMMA PushChained ==
  ASSUME ClassTypes, Chained, NEW f \in Frames, stack' = Append(stack, f), defines' = defines,
         f.via = "super" => stack # <<>> /\ f.obj = stack[Len(stack)].obj
  PROVE  Chained'
<1>. DEFINE n == Len(stack) + 1
<1>1. /\ n \in Nat /\ DOMAIN stack = 1 .. n - 1 /\ DOMAIN stack' = 1 .. n
      /\ stack'[n] = f /\ \A i \in 1 .. n - 1 : stack'[i] = stack[i]
  BY PushTypes
<1>a. f.via = "super" => n > 1
  BY <1>1 DEF ClassTypes
<1>. HIDE DEF n
<1>b. n >= 1
  BY <1>1 DEF n, ClassTypes
<1>2. ASSUME NEW i \in 1 .. n  PROVE Begun(i)'
  <2>1. CASE i < n
    <3>1. Begun(i)
      BY <1>1, <2>1 DEF Chained
    <3>2. PICK b \in 1 .. i : stack[b].via # "super" /\ \A j \in b + 1 .. i : stack[j].via = "super"
      BY <3>1 DEF Begun
    <3>. QED  BY <1>1, <2>1, <3>2 DEF Begun
  <2>2. CASE i = n /\ f.via # "super"
    BY <1>1, <1>b, <2>2 DEF Begun
  <2>3. CASE i = n /\ f.via = "super"
    <3>1. Begun(n - 1)
      BY <1>1, <1>a, <2>3 DEF Chained
    <3>a. PICK b \in 1 .. n - 1 : stack[b].via # "super" /\ \A j \in b + 1 .. n - 1 : stack[j].via = "super"
      BY <3>1 DEF Begun
    <3>2. b \in 1 .. n /\ stack'[b].via # "super"
      BY <1>1, <3>a
    <3>3. \A j \in b + 1 .. n : stack'[j].via = "super"
      BY <1>1, <2>3, <3>a
    <3>. QED  BY <2>3, <3>2, <3>3 DEF Begun
  <2>. QED  BY <1>1, <2>1, <2>2, <2>3
<1>3. ASSUME NEW b \in 1 .. n, NEW i \in 1 .. n  PROVE SameObject(b, i)'
  <2>. SUFFICES ASSUME b <= i, \A j \in b + 1 .. i : stack'[j].via = "super"
       PROVE  stack'[b].obj = stack'[i].obj
    BY DEF SameObject
  <2>1. CASE i < n
    <3>1. b \in 1 .. n - 1 /\ i \in 1 .. n - 1
      BY <1>1, <2>1
    <3>2. \A j \in b + 1 .. i : stack[j].via = "super"
      BY <1>1, <2>1
    <3>. QED  BY <1>1, <3>1, <3>2 DEF Chained, SameObject
  <2>2. CASE i = n /\ b = n
    BY <2>2
  <2>3. CASE i = n /\ b < n
    <3>1. f.via = "super"
      BY <1>1, <2>3
    <3>2. b \in 1 .. n - 1 /\ n - 1 \in 1 .. n - 1 /\ b <= n - 1
      BY <1>1, <2>3
    <3>3. \A j \in b + 1 .. n - 1 : stack[j].via = "super"
      BY <1>1, <2>3
    <3>4. stack[b].obj = stack[n - 1].obj
      BY <1>1, <3>2, <3>3 DEF Chained, SameObject
    <3>5. f.obj = stack[n - 1].obj
      BY <1>1, <3>1 DEF n
    <3>. QED  BY <1>1, <2>3, <3>2, <3>4, <3>5
  <2>. QED  BY <1>1, <2>1, <2>2, <2>3
<1>. QED  BY <1>1, <1>2, <1>3 DEF Chained

\* What is cut from the top of the stack leaves the rest as it was.
LEMMA CutStack ==
  ASSUME ClassTypes, NEW m \in 0 .. Len(stack), stack' = SubSeq(stack, 1, m), defines' = defines
  PROVE  /\ stack' \in Seq(Frames)' /\ Len(stack) \in Nat /\ Len(stack') = m
         /\ DOMAIN stack = 1 .. Len(stack) /\ DOMAIN stack' = 1 .. m
         /\ \A i \in 1 .. m : stack'[i] = stack[i]
<1>1. stack \in Seq(Frames) /\ Frames' = Frames
  BY DEF ClassTypes, Frames
<1>2. Len(stack) \in Nat /\ DOMAIN stack = 1 .. Len(stack) /\ \A i \in 1 .. Len(stack) : stack[i] \in Frames
  BY <1>1
<1>3. m \in Int /\ \A i \in 1 .. m : stack[i] \in Frames
  BY <1>2
<1>4. stack' \in Seq(Frames) /\ Len(stack') = m /\ \A i \in 1 .. m : stack'[i] = stack[i]
  BY <1>2, <1>3, SubSeqProperties
<1>. QED  BY <1>1, <1>2, <1>4

LEMMA CutChained ==
  ASSUME ClassTypes, Chained, NEW m \in 0 .. Len(stack), stack' = SubSeq(stack, 1, m), defines' = defines
  PROVE  Chained'
<1>1. /\ Len(stack) \in Nat /\ DOMAIN stack = 1 .. Len(stack) /\ DOMAIN stack' = 1 .. m
      /\ \A i \in 1 .. m : stack'[i] = stack[i]
  BY CutStack
<1>2. ASSUME NEW i \in 1 .. m  PROVE Begun(i)'
  <2>1. Begun(i)
    BY <1>1 DEF Chained
  <2>2. PICK b \in 1 .. i : stack[b].via # "super" /\ \A j \in b + 1 .. i : stack[j].via = "super"
    BY <2>1 DEF Begun
  <2>. QED  BY <1>1, <2>2 DEF Begun
<1>3. ASSUME NEW b \in 1 .. m, NEW i \in 1 .. m  PROVE SameObject(b, i)'
  BY <1>1 DEF Chained, SameObject
<1>. QED  BY <1>1, <1>2, <1>3 DEF Chained

LEMMA UpKept == ASSUME defines' = defines  PROVE Up' = Up /\ Classes' = Classes
<1>1. Classes' = Classes
  BY DEF Classes
<1>2. \A c : NextAbove(c)' = NextAbove(c)
  BY DEF NextAbove, Ancestors
<1>. QED  BY <1>1, <1>2 DEF Up

\* st2 is st with an n-th call on top.
OnTop(st, st2, n) ==
  /\ n \in Nat \ {0} /\ DOMAIN st = 1 .. n - 1 /\ DOMAIN st2 = 1 .. n
  /\ \A i \in 1 .. n - 1 : st2[i] = st[i]

Grown(c, st, st2, n) ==
  /\ Climbers(st2, c) = Climbers(st, c) \cup {n}
  /\ \A i \in Climbers(st, c) : i \in Nat /\ i < n /\ st2[i] = st[i]
Untouched(c, st, st2, n) ==
  /\ Climbers(st2, c) = Climbers(st, c)
  /\ \A i \in Climbers(st, c) : i \in 1 .. n - 1 /\ st2[i] = st[i]

LEMMA ClimbersGrow ==
  ASSUME NEW c, NEW st, NEW st2, NEW n, OnTop(st, st2, n), Climbed(st2[n], c)
  PROVE  Grown(c, st, st2, n)
<1>1. \A i : i \in 1 .. n <=> i \in 1 .. n - 1 \/ i = n
  BY DEF OnTop
<1>2. \A i : i \in Climbers(st2, c) <=> i \in Climbers(st, c) \/ i = n
  BY <1>1 DEF Climbers, OnTop
<1>3. \A i \in Climbers(st, c) : i \in Nat /\ i < n /\ st2[i] = st[i]
  BY DEF Climbers, OnTop
<1>. HIDE DEF Climbers
<1>. QED  BY <1>2, <1>3 DEF Grown

LEMMA ClimbersStay ==
  ASSUME NEW c, NEW st, NEW st2, NEW n, OnTop(st, st2, n), ~Climbed(st2[n], c)
  PROVE  Untouched(c, st, st2, n)
<1>1. \A i : i \in 1 .. n <=> i \in 1 .. n - 1 \/ i = n
  BY DEF OnTop
<1>2. \A i : i \in Climbers(st2, c) <=> i \in Climbers(st, c)
  BY <1>1 DEF Climbers, OnTop
<1>3. \A i \in Climbers(st, c) : i \in 1 .. n - 1 /\ st2[i] = st[i]
  BY DEF Climbers, OnTop
<1>. HIDE DEF Climbers
<1>. QED  BY <1>2, <1>3 DEF Untouched

\* A climb in a slot and on a stack that are longer by the new call.
Higher(slot, slot2, h, g, n) ==
  /\ Len(slot) \in Nat /\ Len(slot2) = Len(slot) + 1
  /\ \A k \in 1 .. Len(slot) : slot2[k + 1] = slot[k]
  /\ g[n] = Len(slot) + 1 /\ \A i \in 1 .. n - 1 : g[i] = h[i]

LEMMA ClimbHigher ==
  ASSUME NEW c, NEW st, NEW st2, NEW n, OnTop(st, st2, n), Climbed(st2[n], c),
         NEW slot, NEW slot2, NEW h, NEW g, Higher(slot, slot2, h, g, n),
         slot2[1] = st2[n].level, st2[n].first <=> Len(slot) = 0,
         NEW up, Climb(h, c, st, slot)
  PROVE  /\ Climb(g, c, st2, slot2)
         /\ Unbroken(h, c, st, slot, up) /\ st2[n].level = up[IF Len(slot) = 0 THEN c ELSE slot[1]]
              => Unbroken(g, c, st2, slot2, up)
<1>. DEFINE L == Len(slot)
<1>0. /\ L \in Nat /\ Len(slot2) = L + 1 /\ \A k \in 1 .. L : slot2[k + 1] = slot[k]
      /\ g[n] = L + 1 /\ \A i \in 1 .. n - 1 : g[i] = h[i]
  BY DEF Higher
<1>. USE <1>0
<1>. DEFINE C == Climbers(st, c)
<1>1. Climbers(st2, c) = C \cup {n} /\ \A i \in C : i \in Nat /\ i < n /\ st2[i] = st[i]
  <2>1. Grown(c, st, st2, n)
    BY ClimbersGrow
  <2>. QED  BY <2>1 DEF Grown
<1>2. \A i \in C : h[i] \in 1 .. L /\ (st[i].first <=> h[i] = 1)
  BY DEF Climb
<1>3. \A i, j \in C : i < j => h[i] < h[j]
  BY DEF Climb
<1>4. \A i \in C : g[i] = h[i]
  BY <1>1 DEF Climbers, OnTop
<1>. HIDE DEF C
<1>5. \A i \in C \cup {n} : g[i] \in 1 .. L + 1 /\ (st2[i].first <=> g[i] = 1)
  <2>1. \A i \in C : g[i] \in 1 .. L + 1 /\ (st2[i].first <=> g[i] = 1)
    BY <1>1, <1>2, <1>4
  <2>. QED  BY <2>1
<1>6. ASSUME NEW i \in C \cup {n}, NEW j \in C \cup {n}, i < j  PROVE g[i] < g[j]
  <2>1. i \in C
    BY <1>1, <1>6 DEF OnTop
  <2>2. g[i] = h[i] /\ h[i] \in 1 .. L
    BY <1>2, <1>4, <2>1
  <2>3. CASE j = n
    BY <2>2, <2>3
  <2>4. CASE j \in C
    BY <1>3, <1>4, <1>6, <2>1, <2>4
  <2>. QED  BY <2>3, <2>4
<1>7. Climb(g, c, st2, slot2)
  BY <1>1, <1>5, <1>6 DEF Climb
<1>8. ASSUME Unbroken(h, c, st, slot, up), st2[n].level = up[IF L = 0 THEN c ELSE slot[1]]
      PROVE  Unbroken(g, c, st2, slot2, up)
  <2>1. /\ \A k \in 1 .. L : \E i \in C : h[i] = k
        /\ \A i \in C : slot[L + 1 - h[i]] = st[i].level
        /\ \A i \in C : h[i] = 1 => st[i].level = up[c]
        /\ \A i, j \in C : h[j] = h[i] + 1 => st[j].level = up[st[i].level]
    BY <1>8 DEF Unbroken, C
  <2>2. ASSUME NEW k \in 1 .. L + 1  PROVE \E i \in C \cup {n} : g[i] = k
    <3>1. CASE k = L + 1
      BY <3>1
    <3>2. CASE k \in 1 .. L
      <4>1. PICK i \in C : h[i] = k
        BY ONLY <2>1, <3>2
      <4>2. g[i] = k
        BY ONLY <1>4, <4>1
      <4>. QED  BY ONLY <4>1, <4>2
    <3>3. k = L + 1 \/ k \in 1 .. L
      BY ONLY <1>0, k \in 1 .. L + 1
    <3>. QED  BY ONLY <3>1, <3>2, <3>3
  <2>3. ASSUME NEW i \in C \cup {n}  PROVE slot2[L + 1 + 1 - g[i]] = st2[i].level
    <3>1. CASE i = n
      BY <3>1
    <3>2. CASE i \in C
      <4>1. h[i] \in 1 .. L /\ g[i] = h[i] /\ st2[i] = st[i] /\ slot[L + 1 - h[i]] = st[i].level
        BY <1>1, <1>2, <1>4, <2>1, <3>2
      <4>2. PICK k \in 1 .. L : k = L + 1 - h[i] /\ L + 1 + 1 - h[i] = k + 1
        BY <4>1
      <4>3. slot2[k + 1] = slot[k]
        BY ONLY <1>0, k \in 1 .. L
      <4>. QED  BY <4>1, <4>2, <4>3
    <3>. QED  BY <3>1, <3>2
  <2>4. ASSUME NEW i \in C \cup {n}, g[i] = 1  PROVE st2[i].level = up[c]
    <3>1. CASE i = n
      BY <1>8, <2>4, <3>1
    <3>2. CASE i \in C
      BY <1>1, <1>4, <2>1, <2>4, <3>2
    <3>. QED  BY <3>1, <3>2
  <2>5. ASSUME NEW i \in C \cup {n}, NEW j \in C \cup {n}, g[j] = g[i] + 1
        PROVE  st2[j].level = up[st2[i].level]
    <3>1. CASE i \in C /\ j \in C
      <4>1. h[j] = h[i] + 1
        BY <1>4, <2>5, <3>1
      <4>. QED  BY <1>1, <2>1, <3>1, <4>1
    <3>2. CASE i \in C /\ j = n
      <4>1. h[i] = L /\ L > 0
        BY <1>2, <1>4, <2>5, <3>2
      <4>2. slot[1] = st[i].level
        <5>1. slot[L + 1 - h[i]] = st[i].level
          BY <2>1, <3>2
        <5>2. L + 1 - h[i] = 1
          BY <4>1
        <5>. QED  BY <5>1, <5>2
      <4>. QED  BY <1>1, <1>8, <3>2, <4>1, <4>2
    <3>3. CASE i = n
      <4>1. g[j] \in 1 .. L + 1
        BY <1>5
      <4>. QED  BY <2>5, <3>3, <4>1
    <3>. QED  BY <3>1, <3>2, <3>3
  <2>. QED  BY <1>1, <2>2, <2>3, <2>4, <2>5 DEF Unbroken
<1>. QED  BY <1>7, <1>8

\* What the return of a call makes of the slot.
Lower(frame, slot2, slot) ==
  /\ Len(slot2) \in Nat /\ Len(slot) \in Nat /\ (slot = <<>> <=> Len(slot) = 0)
  /\ frame.first \/ Len(slot2) <= 1 => Len(slot) = 0
  /\ ~frame.first /\ Len(slot2) > 1 => Len(slot2) = Len(slot) + 1 /\ \A k \in 1 .. Len(slot) : slot[k] = slot2[k + 1]

\* The newest climb returns; its slot loses what it has reached, and becomes
\* empty with the first.
LEMMA ClimbLower ==
  ASSUME NEW c, NEW st, NEW st2, NEW n, OnTop(st, st2, n), Climbed(st2[n], c),
         NEW slot2, NEW slot, Lower(st2[n], slot2, slot), NEW h, NEW up, Climb(h, c, st2, slot2)
  PROVE  /\ Climb(h, c, st, slot)
         /\ Unbroken(h, c, st2, slot2, up) => Unbroken(h, c, st, slot, up)
         /\ Len(slot) = 0 => Climbers(st, c) = {}
<1>. DEFINE C == Climbers(st, c)
            L == Len(slot)
            M == Len(slot2)
<1>1. Climbers(st2, c) = C \cup {n} /\ \A i \in C : i \in Nat /\ i < n /\ st2[i] = st[i]
  <2>1. Grown(c, st, st2, n)
    BY ClimbersGrow
  <2>. QED  BY <2>1 DEF Grown
<1>. HIDE DEF C
<1>a. /\ M \in Nat /\ L \in Nat
      /\ st2[n].first \/ M <= 1 => L = 0
      /\ ~st2[n].first /\ M > 1 => M = L + 1 /\ \A k \in 1 .. L : slot[k] = slot2[k + 1]
  BY DEF Lower
<1>. USE <1>a
<1>2. h[n] \in 1 .. M /\ (st2[n].first <=> h[n] = 1)
  BY <1>1 DEF Climb
<1>3. \A i \in C : h[i] \in 1 .. M /\ (st[i].first <=> h[i] = 1)
  BY <1>1 DEF Climb
<1>4. \A i, j \in C : i < j => h[i] < h[j]
  BY <1>1 DEF Climb
<1>5. \A i \in C : h[i] < h[n]
  BY <1>1 DEF Climb
<1>6. st2[n].first => C = {} /\ L = 0
  BY <1>2, <1>3, <1>5
<1>7. ~st2[n].first => M = L + 1 /\ M > 1
  BY <1>2
<1>8. \A i \in C : h[i] \in 1 .. L
  BY <1>2, <1>3, <1>5, <1>6, <1>7
<1>9. Climb(h, c, st, slot)
  BY <1>3, <1>4, <1>8 DEF Climb, C
<1>10. L = 0 => C = {}
  BY <1>8
<1>11. ASSUME Unbroken(h, c, st2, slot2, up)  PROVE Unbroken(h, c, st, slot, up)
  <2>1. /\ \A k \in 1 .. M : \E i \in C \cup {n} : h[i] = k
        /\ \A i \in C \cup {n} : slot2[M + 1 - h[i]] = st2[i].level
        /\ \A i \in C \cup {n} : h[i] = 1 => st2[i].level = up[c]
        /\ \A i, j \in C \cup {n} : h[j] = h[i] + 1 => st2[j].level = up[st2[i].level]
    BY <1>1, <1>11 DEF Unbroken
  <2>2. CASE L = 0
    BY <1>10, <2>2 DEF Unbroken, C
  <2>3. CASE L # 0
    <3>1. M = L + 1 /\ M > 1 /\ \A k \in 1 .. L : slot[k] = slot2[k + 1]
      BY <1>6, <1>7, <2>3
    <3>2. h[n] = M
      <4>1. PICK i \in C \cup {n} : h[i] = M
        BY <2>1, <3>1
      <4>. QED  BY <1>2, <1>5, <4>1
    <3>3. ASSUME NEW k \in 1 .. L  PROVE \E i \in C : h[i] = k
      <4>1. k \in 1 .. M /\ k # M
        BY <3>1
      <4>. QED  BY <2>1, <3>2, <4>1
    <3>4. ASSUME NEW i \in C  PROVE slot[L + 1 - h[i]] = st[i].level
      <4>1. h[i] \in 1 .. L /\ st2[i] = st[i] /\ slot2[M + 1 - h[i]] = st2[i].level
        BY <1>1, <1>8, <2>1
      <4>2. L + 1 - h[i] \in 1 .. L /\ M + 1 - h[i] = (L + 1 - h[i]) + 1
        BY <3>1, <4>1
      <4>3. slot[L + 1 - h[i]] = slot2[(L + 1 - h[i]) + 1]
        BY <3>1, <4>2
      <4>. QED  BY <4>1, <4>2, <4>3
    <3>5. \A i \in C : h[i] = 1 => st[i].level = up[c]
      BY <1>1, <2>1
    <3>6. \A i, j \in C : h[j] = h[i] + 1 => st[j].level = up[st[i].level]
      BY <1>1, <2>1
    <3>. QED  BY <3>3, <3>4, <3>5, <3>6 DEF Unbroken, C
  <2>. QED  BY <2>2, <2>3
<1>. QED  BY <1>9, <1>10, <1>11 DEF C

\* Whose class and calls are as before climbs as before.
LEMMA ClimbSame ==
  ASSUME NEW c, NEW st, NEW st2, NEW slot, NEW h, NEW g, NEW up,
         Climbers(st2, c) = Climbers(st, c), \A i \in Climbers(st, c) : st2[i] = st[i] /\ g[i] = h[i]
  PROVE  /\ Climb(h, c, st, slot) => Climb(g, c, st2, slot)
         /\ Unbroken(h, c, st, slot, up) => Unbroken(g, c, st2, slot, up)
BY DEF Climb, Unbroken

\* A method is called that does not climb.
LEMMA CallStep ==
  ASSUME ClassInv, NEW f \in Frames, ~BySuper(f), stack' = Append(stack, f),
         UNCHANGED <<defines, context, soiled>>, pending' \subseteq pending
  PROVE  ClassInv'
<1>1. ClassTypes'
  BY PushTypes DEF ClassInv, ClassTypes
<1>2. Chained'
  BY PushChained DEF ClassInv, BySuper
<1>3. PICK h \in [Nat -> Nat] : \A c \in Classes : Climbing(h, c, stack, context[c], Up, soiled)
  BY DEF ClassInv
<1>a. ClassTypes
  BY DEF ClassInv
<1>4. OnTop(stack, stack', Len(stack) + 1) /\ stack'[Len(stack) + 1] = f
  BY <1>a, PushTypes DEF OnTop
<1>5. ASSUME NEW c \in Classes  PROVE Climbing(h, c, stack', context'[c], Up, soiled')
  <2>1. ~Climbed(stack'[Len(stack) + 1], c)
    BY <1>4 DEF Climbed
  <2>2. Untouched(c, stack, stack', Len(stack) + 1)
    BY <1>4, <2>1, ClimbersStay
  <2>. QED  BY <1>3, <2>2, ClimbSame DEF Climbing, Untouched
<1>6. Up' = Up /\ Classes' = Classes
  BY UpKept
<1>. QED  BY <1>1, <1>2, <1>3, <1>5, <1>6 DEF ClassInv

LEMMA SuperStep ==
  ASSUME ClassInv, NEW o \in Objects, NEW via \in {"new", "super"}, Super(o, via),
         via = "super" => stack # <<>> /\ o = stack[Len(stack)].obj
  PROVE  ClassInv'
<1>. DEFINE c == ClassOf[o]
            n == Len(stack) + 1
            ctx == context[c]
            level == NextAbove(ReachedBy(o))
            begins == ctx = <<>>
            f == [obj |-> o, level |-> level, via |-> via, first |-> begins]
<1>1. /\ stack' = Append(stack, f) /\ level # 0
      /\ context' = [context EXCEPT ![c] = <<level>> \o @]
      /\ UNCHANGED <<defines, pending, soiled>>
  BY DEF Super, Push, Frame, Slot
<1>2. c \in Classes /\ ctx \in Seq(defines) /\ level \in defines /\ ClassTypes
  BY <1>1, ClassConstants, AboveDefines DEF ClassInv, ClassTypes
<1>3. begins \in BOOLEAN
  OBVIOUS
<1>4. f \in Frames /\ f.obj = o /\ f.level = level /\ f.via = via /\ f.first = begins
  <2>. HIDE DEF begins, level
  <2>. QED  BY <1>2, <1>3 DEF Frames
<1>5. ReachedBy(o) = IF ctx = <<>> THEN c ELSE ctx[1]
  BY <1>2 DEF ReachedBy, Slot
<1>6. (begins <=> Len(ctx) = 0) /\ Len(ctx) \in Nat
  BY <1>2
<1>7. level = NextAbove(IF Len(ctx) = 0 THEN c ELSE ctx[1])
  BY <1>5, <1>6
<1>. HIDE DEF f, level, begins
<1>8. context' \in [Classes -> Seq(defines)] /\ context'[c] = <<level>> \o ctx
      /\ \A d \in Classes : d # c => context'[d] = context[d]
  BY <1>1, <1>2 DEF ClassTypes
<1>9. /\ Len(context'[c]) = Len(ctx) + 1 /\ context'[c][1] = level
      /\ \A k \in 1 .. Len(ctx) : context'[c][k + 1] = ctx[k]
  <2>1. <<level>> \in Seq(defines) /\ Len(<<level>>) = 1 /\ <<level>>[1] = level
    BY <1>2
  <2>. HIDE DEF ctx, c
  <2>2. \A i \in 1 .. 1 + Len(ctx) : (<<level>> \o ctx)[i] = IF i <= 1 THEN level ELSE ctx[i - 1]
    BY <1>2, <2>1, ConcatProperties
  <2>3. Len(<<level>> \o ctx) = 1 + Len(ctx)
    BY <1>2, <2>1, ConcatProperties
  <2>. QED  BY <1>6, <1>8, <2>2, <2>3
<1>10. OnTop(stack, stack', n) /\ stack'[n] = f
  BY <1>1, <1>2, <1>4, PushTypes DEF OnTop
<1>11. ClassTypes'
  BY <1>1, <1>2, <1>4, <1>8, PushTypes DEF ClassTypes
<1>12. Chained'
  BY <1>1, <1>2, <1>4, PushChained DEF ClassInv
<1>13. PICK h \in [Nat -> Nat] : \A d \in Classes : Climbing(h, d, stack, context[d], Up, soiled)
  BY DEF ClassInv
<1>. DEFINE g == [h EXCEPT ![n] = Len(ctx) + 1]
<1>. HIDE DEF n, ctx, c
<1>14. g \in [Nat -> Nat] /\ g[n] = Len(ctx) + 1 /\ \A i \in 1 .. n - 1 : g[i] = h[i]
  <2>1. n \in Nat \ {0} /\ Len(ctx) + 1 \in Nat
    BY <1>6, <1>10 DEF OnTop
  <2>. QED  BY <2>1
<1>. HIDE DEF g
<1>15. Climbed(stack'[n], c) /\ \A d : d # c => ~Climbed(stack'[n], d)
  BY <1>4, <1>10 DEF Climbed, BySuper, c
<1>16. Climbing(g, c, stack', context'[c], Up, soiled')
  <2>1. Climb(h, c, stack, ctx) /\ (c \notin soiled => Unbroken(h, c, stack, ctx, Up))
    BY <1>2, <1>13 DEF Climbing, ctx
  <2>2. /\ Climb(g, c, stack', context'[c])
        /\ Unbroken(h, c, stack, ctx, Up) => Unbroken(g, c, stack', context'[c], Up)
    <3>1. stack'[n].level = Up[IF Len(ctx) = 0 THEN c ELSE ctx[1]] /\ (stack'[n].first <=> Len(ctx) = 0)
      <4>1. (IF Len(ctx) = 0 THEN c ELSE ctx[1]) \in Classes
        BY <1>2, <1>6 DEF ClassTypes
      <4>. QED  BY <1>4, <1>6, <1>7, <1>10, <4>1 DEF Up
    <3>2. context'[c][1] = stack'[n].level
      BY <1>4, <1>9, <1>10
    <3>3. OnTop(stack, stack', n) /\ Climbed(stack'[n], c) /\ Climb(h, c, stack, ctx)
      BY <1>10, <1>15, <2>1
    <3>4. Higher(ctx, context'[c], h, g, n)
      BY <1>6, <1>9, <1>14 DEF Higher
    <3>. QED  BY ONLY <1>6, <3>1, <3>2, <3>3, <3>4, ClimbHigher
  <2>. QED  BY <1>1, <2>1, <2>2 DEF Climbing
<1>17. ASSUME NEW d \in Classes, d # c  PROVE Climbing(g, d, stack', context'[d], Up, soiled')
  <2>1. Climbers(stack', d) = Climbers(stack, d)
        /\ \A i \in Climbers(stack, d) : i \in 1 .. n - 1 /\ stack'[i] = stack[i]
    <3>1. ~Climbed(stack'[n], d)
      BY <1>15, <1>17
    <3>2. Untouched(d, stack, stack', n)
      BY <1>10, <3>1, ClimbersStay
    <3>. QED  BY <3>2 DEF Untouched
  <2>2. \A i \in Climbers(stack, d) : g[i] = h[i]
    BY <1>14, <2>1
  <2>3. context'[d] = context[d] /\ soiled' = soiled
    BY <1>1, <1>8, <1>17
  <2>. QED  BY <1>13, <2>1, <2>2, <2>3, ClimbSame DEF Climbing
<1>18. \A d \in Classes : Climbing(g, d, stack', context'[d], Up, soiled')
  BY <1>16, <1>17
<1>19. Up' = Up /\ Classes' = Classes
  BY <1>1, UpKept
<1>. QED  BY <1>11, <1>12, <1>14, <1>18, <1>19 DEF ClassInv

\* The slot that a climb leaves is of the right type, and shorter.
LEMMA LeftSlot ==
  ASSUME NEW S, NEW slot \in Seq(S), NEW frame
  PROVE  Left(frame, slot) \in Seq(S) /\ Lower(frame, slot, Left(frame, slot))
<1>1. CASE ~frame.first /\ Len(slot) > 1
  <2>1. slot # <<>> /\ Left(frame, slot) = Tail(slot)
    BY <1>1 DEF Left
  <2>2. Tail(slot) \in Seq(S) /\ Len(Tail(slot)) = Len(slot) - 1 /\ \A k \in 1 .. Len(Tail(slot)) : Tail(slot)[k] = slot[k + 1]
    BY <2>1, HeadTailProperties
  <2>. QED  BY <1>1, <2>1, <2>2 DEF Lower
<1>2. CASE ~(~frame.first /\ Len(slot) > 1)
  BY <1>2 DEF Left, Lower
<1>. QED  BY <1>1, <1>2

LEMMA ReturnStep ==
  ASSUME ClassInv, Return  PROVE ClassInv'
<1>. DEFINE n == Len(stack)
            f == stack[n]
            c == ClassOf[f.obj]
            slot1 == Left(f, context[c])
<1>1. /\ stack # <<>> /\ UNCHANGED <<defines, pending>> /\ stack' = SubSeq(stack, 1, n - 1)
      /\ BySuper(f) =>
           /\ context' = [context EXCEPT ![c] = slot1]
           /\ soiled' = IF context'[c] = <<>> THEN soiled \ {c} ELSE soiled
      /\ ~BySuper(f) => UNCHANGED <<context, soiled>>
  BY DEF Return, Running, Slot, Last, Front
<1>2. ClassTypes /\ Chained
  BY DEF ClassInv
<1>3. n \in Nat /\ n > 0 /\ f \in Frames /\ f.obj \in Objects /\ c \in Classes
  <2>1. n \in Nat /\ n > 0 /\ f \in Frames
    BY <1>1, <1>2 DEF ClassTypes
  <2>. HIDE DEF n, f
  <2>. QED  BY <2>1, ClassConstants DEF Frames
<1>4. n - 1 \in 0 .. n
  BY <1>3
<1>5. OnTop(stack', stack, n) /\ stack' \in Seq(Frames)'
  BY <1>1, <1>2, <1>3, <1>4, CutStack DEF OnTop
<1>6. Chained'
  BY <1>1, <1>2, <1>4, CutChained
<1>7. PICK h \in [Nat -> Nat] : \A d \in Classes : Climbing(h, d, stack, context[d], Up, soiled)
  BY DEF ClassInv
<1>8. Up' = Up /\ Classes' = Classes
  BY <1>1, UpKept
<1>. HIDE DEF n, f, c
<1>9. \A d : Climbed(stack[n], d) <=> BySuper(f) /\ d = c
  BY <1>3 DEF Climbed, c, f, n
<1>10. ASSUME NEW d \in Classes, ~Climbed(stack[n], d), context'[d] = context[d], d \in soiled <=> d \in soiled'
       PROVE  Climbing(h, d, stack', context'[d], Up, soiled')
  <2>1. Untouched(d, stack', stack, n)
    BY <1>5, <1>10, ClimbersStay
  <2>2. Climbers(stack', d) = Climbers(stack, d) /\ \A i \in Climbers(stack, d) : stack'[i] = stack[i]
    BY <2>1 DEF Untouched
  <2>. QED  BY <1>7, <1>10, <2>2, ClimbSame DEF Climbing
<1>11. CASE ~BySuper(f)
  <2>1. ClassTypes'
    BY <1>1, <1>2, <1>5, <1>11 DEF ClassTypes
  <2>2. \A d \in Classes : Climbing(h, d, stack', context'[d], Up, soiled')
    BY <1>1, <1>9, <1>10, <1>11
  <2>. QED  BY <1>6, <1>8, <2>1, <2>2 DEF ClassInv
<1>12. CASE BySuper(f)
  <2>1. context[c] \in Seq(defines)
    BY <1>2, <1>3 DEF ClassTypes
  <2>2. slot1 \in Seq(defines) /\ Lower(f, context[c], slot1)
    BY <2>1, LeftSlot
  <2>. HIDE DEF slot1
  <2>3. /\ context'[c] = slot1 /\ context' \in [Classes -> Seq(defines)]
        /\ \A d \in Classes : d # c => context'[d] = context[d]
    BY <1>1, <1>2, <1>3, <1>12, <2>2 DEF ClassTypes
  <2>4. soiled' = IF slot1 = <<>> THEN soiled \ {c} ELSE soiled
    BY <1>1, <1>12, <2>3
  <2>5. ClassTypes'
    BY <1>1, <1>2, <1>5, <2>3, <2>4 DEF ClassTypes
  <2>6. Climb(h, c, stack, context[c]) /\ (c \notin soiled => Unbroken(h, c, stack, context[c], Up))
    BY <1>3, <1>7 DEF Climbing
  <2>7. Climbed(stack[n], c) /\ f = stack[n]
    BY <1>9, <1>12 DEF f
  <2>8. /\ Climb(h, c, stack', slot1)
        /\ Unbroken(h, c, stack, context[c], Up) => Unbroken(h, c, stack', slot1, Up)
        /\ Len(slot1) = 0 => Climbers(stack', c) = {}
    <3>1. Lower(stack[n], context[c], slot1)
      BY <2>2, <2>7
    <3>. QED  BY ONLY <1>5, <2>6, <2>7, <3>1, ClimbLower
  <2>9. slot1 = <<>> => Unbroken(h, c, stack', slot1, Up)
    BY <2>2, <2>8 DEF Unbroken, Lower
  <2>10. Climbing(h, c, stack', context'[c], Up, soiled')
    BY <2>3, <2>4, <2>6, <2>8, <2>9 DEF Climbing
  <2>11. ASSUME NEW d \in Classes, d # c  PROVE Climbing(h, d, stack', context'[d], Up, soiled')
    BY <1>9, <1>10, <2>3, <2>4, <2>11
  <2>12. \A d \in Classes : Climbing(h, d, stack', context'[d], Up, soiled')
    BY <2>10, <2>11
  <2>. QED  BY <1>6, <1>8, <2>5, <2>12 DEF ClassInv
<1>. QED  BY <1>11, <1>12

LEMMA ThrowStep ==
  ASSUME ClassInv, NEW n \in 1 .. MaxDepth, Throw(n)  PROVE ClassInv'
<1>. DEFINE m == Len(stack) - n
            cut == {Slot(stack[i].obj) : i \in {j \in m + 1 .. Len(stack) : BySuper(stack[j])}}
<1>1. /\ n <= Len(stack) /\ stack' = SubSeq(stack, 1, m) /\ soiled' = soiled \cup cut
      /\ UNCHANGED <<defines, context, pending>>
  BY DEF Throw
<1>2. ClassTypes /\ Chained
  BY DEF ClassInv
<1>3. stack \in Seq(Frames) /\ Len(stack) \in Nat /\ m \in 0 .. Len(stack)
  BY <1>1, <1>2 DEF ClassTypes
<1>4. \A i \in 1 .. Len(stack) : stack[i] \in Frames /\ ClassOf[stack[i].obj] \in Classes
  <2>1. ASSUME NEW i \in 1 .. Len(stack)  PROVE stack[i] \in Frames /\ stack[i].obj \in Objects
    <3>1. stack[i] \in Frames
      BY <1>3
    <3>. QED  BY <3>1 DEF Frames
  <2>. QED  BY <2>1, ClassConstants
<1>5. cut \subseteq Classes
  BY <1>3, <1>4 DEF Slot
<1>6. \A c : \A j \in m + 1 .. Len(stack) : Climbed(stack[j], c) => c \in cut
  BY DEF Climbed, Slot
<1>. HIDE DEF cut, m
<1>7. /\ stack' \in Seq(Frames)' /\ DOMAIN stack = 1 .. Len(stack) /\ DOMAIN stack' = 1 .. m
      /\ \A i \in 1 .. m : stack'[i] = stack[i]
  BY <1>1, <1>2, <1>3, CutStack
<1>8. ClassTypes'
  BY <1>1, <1>2, <1>5, <1>7 DEF ClassTypes
<1>9. Chained'
  BY <1>1, <1>2, <1>3, CutChained
<1>10. PICK h \in [Nat -> Nat] : \A c \in Classes : Climbing(h, c, stack, context[c], Up, soiled)
  BY DEF ClassInv
<1>11. ASSUME NEW c \in Classes  PROVE Climbing(h, c, stack', context'[c], Up, soiled')
  <2>1. Climb(h, c, stack, context[c]) /\ (c \notin soiled => Unbroken(h, c, stack, context[c], Up))
    BY <1>10 DEF Climbing
  <2>2. Climbers(stack', c) \subseteq Climbers(stack, c) /\ \A i \in Climbers(stack', c) : stack'[i] = stack[i]
    <3>1. ASSUME NEW i \in Climbers(stack', c)  PROVE i \in Climbers(stack, c) /\ stack'[i] = stack[i]
      <4>1. i \in 1 .. m /\ Climbed(stack'[i], c)
        BY <1>7 DEF Climbers
      <4>2. i \in DOMAIN stack /\ stack'[i] = stack[i]
        BY <1>3, <1>7, <4>1
      <4>. QED  BY <4>1, <4>2 DEF Climbers
    <3>. QED  BY <3>1
  <2>3. Climb(h, c, stack', context[c])
    BY <2>1, <2>2 DEF Climb
  <2>4. ASSUME c \notin cut  PROVE Climbers(stack', c) = Climbers(stack, c)
    <3>1. ASSUME NEW i \in Climbers(stack, c)  PROVE i \in Climbers(stack', c)
      <4>1. i \in 1 .. Len(stack) /\ Climbed(stack[i], c) /\ ~(i \in m + 1 .. Len(stack))
        BY <1>6, <1>7, <2>4 DEF Climbers
      <4>2. i \in 1 .. m
        BY <1>3, <4>1
      <4>. QED  BY <1>7, <4>1, <4>2 DEF Climbers
    <3>. QED  BY <2>2, <3>1
  <2>5. ASSUME c \notin soiled'  PROVE Unbroken(h, c, stack', context[c], Up)
    <3>1. c \notin cut /\ c \notin soiled
      BY <1>1, <2>5
    <3>2. Climbers(stack', c) = Climbers(stack, c)
      BY <2>4, <3>1
    <3>. QED  BY <2>1, <2>2, <3>1, <3>2, ClimbSame
  <2>. QED  BY <1>1, <2>3, <2>5 DEF Climbing
<1>12. Up' = Up /\ Classes' = Classes
  BY <1>1, UpKept
<1>. QED  BY <1>8, <1>9, <1>11, <1>12 DEF ClassInv

LEMMA ClassStep ==
  ASSUME ClassInv, ClassNext  PROVE ClassInv'
<1>0. ClassTypes
  BY DEF ClassInv
<1>1. ASSUME NEW o \in Objects, Call(o)  PROVE ClassInv'
  <2>. DEFINE level == IF ClassOf[o] \in defines THEN ClassOf[o] ELSE NextAbove(ClassOf[o])
              f == [obj |-> o, level |-> level, via |-> "call", first |-> FALSE]
  <2>1. stack' = Append(stack, f) /\ level # 0 /\ UNCHANGED <<defines, context, pending, soiled>>
    BY <1>1 DEF Call, Push, Frame
  <2>2. level \in defines
    BY <1>0, <2>1, AboveDefines
  <2>. HIDE DEF level
  <2>3. f \in Frames /\ ~BySuper(f)
    BY <2>2 DEF Frames, BySuper
  <2>. HIDE DEF f
  <2>. QED  BY <2>1, <2>3, CallStep
<1>2. ASSUME NEW o \in Objects, Construct(o)  PROVE ClassInv'
  <2>1. Super(o, "new")
    BY <1>2 DEF Construct
  <2>. QED  BY <2>1, SuperStep
<1>3. CASE CallSuper
  <2>1. stack # <<>> /\ Super(stack[Len(stack)].obj, "super")
    BY <1>3 DEF CallSuper, Running, Last
  <2>2. stack[Len(stack)].obj \in Objects
    <3>1. stack[Len(stack)] \in Frames
      BY <1>0, <2>1 DEF ClassTypes
    <3>. QED  BY <3>1 DEF Frames
  <2>. QED  BY <2>1, <2>2, SuperStep
<1>4. CASE Return
  BY <1>4, ReturnStep
<1>5. CASE Defer
  <2>. DEFINE f == stack[Len(stack)]
  <2>1. /\ stack # <<>> /\ pending' = pending \cup {[obj |-> f.obj, level |-> f.level]}
        /\ UNCHANGED <<defines, stack, soiled, context>>
    BY <1>5 DEF Defer, Running, Last
  <2>2. f \in Frames
    BY <1>0, <2>1 DEF ClassTypes
  <2>. HIDE DEF f
  <2>3. ClassTypes'
    BY <1>0, <2>1, <2>2 DEF ClassTypes, Frames
  <2>4. Up' = Up /\ Classes' = Classes
    BY <2>1, UpKept
  <2>. QED  BY <2>1, <2>3, <2>4 DEF ClassInv, Chained, Begun, SameObject
<1>6. ASSUME NEW n \in 1 .. MaxDepth, Throw(n)  PROVE ClassInv'
  BY <1>6, ThrowStep
<1>7. ASSUME NEW job \in pending, Resume(job)  PROVE ClassInv'
  <2>. DEFINE f == [obj |-> job.obj, level |-> job.level, via |-> "later", first |-> FALSE]
  <2>1. stack' = Append(stack, f) /\ pending' = pending \ {job} /\ UNCHANGED <<defines, context, soiled>>
    BY <1>7 DEF Resume, Push, Frame
  <2>2. job \in [obj : Objects, level : defines]
    BY <1>0 DEF ClassTypes
  <2>3. f \in Frames /\ ~BySuper(f)
    BY <2>2 DEF Frames, BySuper
  <2>. HIDE DEF f
  <2>. QED  BY <2>1, <2>3, CallStep
<1>. QED  BY <1>1, <1>2, <1>3, <1>4, <1>5, <1>6, <1>7 DEF ClassNext

\* The least of the climbs of a slot is its first; the one after another has
\* climbed one further.
LEMMA FirstClimb ==
  ASSUME NEW h \in [Nat -> Nat], NEW c, NEW st, NEW slot, NEW up, NEW n \in Nat, NEW m \in Nat,
         DOMAIN st = 1 .. n, Len(slot) = m,
         Climb(h, c, st, slot), Unbroken(h, c, st, slot, up),
         NEW i \in Climbers(st, c), \A j \in Climbers(st, c) : ~(j < i)
  PROVE  h[i] = 1
<1>1. h[i] \in 1 .. m /\ \A j, l \in Climbers(st, c) : j < l => h[j] < h[l]
  BY DEF Climb
<1>2. \A k \in 1 .. m : \E j \in Climbers(st, c) : h[j] = k
  BY DEF Unbroken
<1>3. \A j \in Climbers(st, c) : j \in Nat
  BY DEF Climbers
<1>a. PICK hi \in Nat : hi = h[i]
  BY <1>3
<1>b. hi \in 1 .. m
  BY <1>1, <1>a
<1>4. ASSUME hi # 1  PROVE FALSE
  <2>1. hi - 1 \in 1 .. m /\ hi - 1 < hi
    BY ONLY <1>b, <1>4, m \in Nat
  <2>2. PICK k \in Climbers(st, c) : h[k] = hi - 1
    BY <1>2, <2>1
  <2>3. k # i /\ ~(i < k)
    <3>1. CASE i < k
      <4>1. h[i] < h[k]
        BY <1>1, <3>1
      <4>2. hi < hi - 1
        BY <1>a, <2>2, <4>1
      <4>. QED  BY ONLY <4>2, hi \in Nat
    <3>2. k # i
      BY <1>a, <1>b, <2>1, <2>2
    <3>. QED  BY <3>1, <3>2
  <2>4. k < i
    BY <1>3, <2>3
  <2>. QED  BY <2>4
<1>. QED  BY <1>a, <1>4

LEMMA NextClimb ==
  ASSUME NEW h \in [Nat -> Nat], NEW c, NEW st, NEW slot, NEW up, NEW n \in Nat, NEW m \in Nat,
         DOMAIN st = 1 .. n, Len(slot) = m,
         Climb(h, c, st, slot), Unbroken(h, c, st, slot, up),
         NEW i \in Climbers(st, c), i - 1 \in Climbers(st, c)
  PROVE  h[i] = h[i - 1] + 1
<1>0. PICK e \in Climbers(st, c) : e = i - 1
  OBVIOUS
<1>1. /\ h[i] \in 1 .. m /\ h[e] \in 1 .. m
      /\ \A j, l \in Climbers(st, c) : j < l => h[j] < h[l]
  BY DEF Climb
<1>2. \A k \in 1 .. m : \E j \in Climbers(st, c) : h[j] = k
  BY DEF Unbroken
<1>3. \A j \in Climbers(st, c) : j \in Nat
  BY DEF Climbers
<1>a. PICK hi \in Nat, he \in Nat : hi = h[i] /\ he = h[e]
  BY <1>3
<1>4. he < hi /\ hi \in 1 .. m /\ he \in 1 .. m
  <2>1. e < i
    BY <1>0, <1>3
  <2>. QED  BY <1>1, <1>a, <2>1
<1>5. ASSUME hi # he + 1  PROVE FALSE
  <2>1. he + 1 \in 1 .. m /\ he < he + 1 /\ he + 1 < hi
    BY ONLY <1>4, <1>5, m \in Nat
  <2>2. PICK k \in Climbers(st, c) : h[k] = he + 1
    BY <1>2, <2>1
  <2>3. ~(k < e) /\ ~(i < k) /\ k # e /\ k # i
    <3>1. k < e => he + 1 < he
      BY <1>1, <1>a, <2>2
    <3>2. i < k => hi < he + 1
      BY <1>1, <1>a, <2>2
    <3>3. h[k] # he /\ h[k] # hi
      BY ONLY <1>4, <2>1, <2>2
    <3>. QED  BY ONLY <1>a, <1>4, <2>1, <3>1, <3>2, <3>3
  <2>. QED  BY <1>0, <1>3, <2>3
<1>. QED  BY <1>0, <1>a, <1>5

\* The climbs of class c from frame b to frame i are a chain, the first of all;
\* the one of frame i follows the frame below, or begins at the class itself.
ChainOf(c, st, b, i) ==
  /\ b \in 1 .. i /\ i \in Climbers(st, c)
  /\ \A j \in 1 .. b - 1 : j \notin Climbers(st, c)
  /\ \A j \in b + 1 .. i : j \in Climbers(st, c)
  /\ b \in Climbers(st, c) \/ st[b].level = c
Follows(c, st, b, i, up) == st[i].level = up[IF i = b THEN c ELSE st[i - 1].level]

LEMMA ClimbFollows ==
  ASSUME NEW h \in [Nat -> Nat], NEW c, NEW st, NEW slot, NEW up, NEW n \in Nat, NEW m \in Nat,
         DOMAIN st = 1 .. n, Len(slot) = m,
         Climb(h, c, st, slot), Unbroken(h, c, st, slot, up),
         NEW b, NEW i, ChainOf(c, st, b, i)
  PROVE  Follows(c, st, b, i, up)
<1>0. \A j \in Climbers(st, c) : j \in 1 .. n
  BY DEF Climbers
<1>. USE DEF ChainOf, Follows
<1>1. i \in Nat /\ b \in Nat /\ b <= i /\ i \in Climbers(st, c)
  BY <1>0
<1>2. h[i] = 1 => st[i].level = up[c]
  BY DEF Unbroken
<1>3. \A e \in Climbers(st, c) : h[i] = h[e] + 1 => st[i].level = up[st[e].level]
  BY DEF Unbroken
<1>4. CASE i = b
  <2>1. \A j \in Climbers(st, c) : ~(j < i)
    BY <1>0, <1>1, <1>4
  <2>. QED  BY <1>2, <1>4, <2>1, FirstClimb
<1>5. CASE i # b /\ i - 1 \in Climbers(st, c)
  <2>2. h[i] = h[i - 1] + 1
    BY <1>1, <1>5, NextClimb
  <2>. QED  BY <1>3, <1>5, <2>2
<1>6. CASE i # b /\ i - 1 \notin Climbers(st, c)
  <2>1. i - 1 = b
    <3>1. ~(i - 1 \in b + 1 .. i)
      BY <1>6
    <3>. QED  BY <1>1, <1>6, <3>1
  <2>2. \A j \in Climbers(st, c) : ~(j < i)
    <3>1. \A j \in Climbers(st, c) : j # b /\ ~(j \in 1 .. b - 1)
      BY <1>6, <2>1
    <3>. QED  BY <1>0, <1>1, <2>1, <3>1
  <2>3. st[b].level = c
    BY <1>6, <2>1
  <2>. QED  BY <1>2, <1>6, <2>1, <2>2, <2>3, FirstClimb
<1>. QED  BY <1>4, <1>5, <1>6

\* What the invariant says of the climbs that nothing has disturbed.
LEMMA ClimbsAreRight ==
  ASSUME ClassInv  PROVE SuperReaches /\ NothingIsLeft
<1>1. ClassTypes /\ Chained
  BY DEF ClassInv
<1>2. PICK h \in [Nat -> Nat] : \A c \in Classes : Climbing(h, c, stack, context[c], Up, soiled)
  BY DEF ClassInv
<1>3. stack \in Seq(Frames) /\ Len(stack) \in Nat /\ DOMAIN stack = 1 .. Len(stack)
  BY <1>1 DEF ClassTypes
<1>4. \A c \in Classes : context[c] \in Seq(defines) /\ Len(context[c]) \in Nat
  BY <1>1 DEF ClassTypes
<1>5. \A i \in DOMAIN stack : /\ stack[i] \in Frames /\ ClassOf[stack[i].obj] \in Classes
                              /\ stack[i].level \in Classes
  <2>1. ASSUME NEW i \in DOMAIN stack
        PROVE  stack[i] \in Frames /\ stack[i].obj \in Objects /\ stack[i].level \in defines
    <3>1. stack[i] \in Frames
      BY <1>3
    <3>. QED  BY <3>1 DEF Frames
  <2>. QED  BY <1>1, <2>1, ClassConstants DEF ClassTypes
<1>6. ASSUME stack = <<>>, NEW c \in Classes, context[c] # <<>>  PROVE c \in soiled
  <2>1. Climbers(stack, c) = {}
    BY <1>6 DEF Climbers
  <2>2. 1 \in 1 .. Len(context[c])
    BY <1>4, <1>6
  <2>. QED  BY <1>2, <2>1, <2>2 DEF Climbing, Unbroken
<1>7. ASSUME NEW i \in DOMAIN stack, BySuper(stack[i]), ClassOf[stack[i].obj] \notin soiled,
             NEW b, b = Began(i), Alone(b),
             \/ stack[b].via = "new"
             \/ stack[b].level = ClassOf[stack[b].obj]
      PROVE  stack[i].level = NextAbove(IF i = b THEN ClassOf[stack[i].obj] ELSE stack[i - 1].level)
  <2>1. b \in 1 .. i /\ stack[b].via # "super" /\ \A j \in b + 1 .. i : stack[j].via = "super"
    <3>1. Begun(i)
      BY <1>1 DEF Chained
    <3>. QED  BY <1>7, <3>1 DEF Begun, Began
  <2>. DEFINE c == ClassOf[stack[i].obj]
              n == Len(stack)
              m == Len(context[c])
  <2>2. i \in 1 .. n /\ n \in Nat /\ DOMAIN stack = 1 .. n /\ c \in Classes
    BY <1>3, <1>5
  <2>3. m \in Nat
    BY <1>4, <2>2
  <2>4. Climb(h, c, stack, context[c]) /\ Unbroken(h, c, stack, context[c], Up)
    BY <1>2, <1>7, <2>2 DEF Climbing
  <2>5. i \in Climbers(stack, c)
    BY <1>7 DEF Climbers, Climbed
  <2>. HIDE DEF n
  <2>6. i \in Nat /\ b \in Nat /\ b <= i /\ b \in 1 .. n /\ \A j \in b .. i : j \in 1 .. n
    <3>1. i \in 1 .. n /\ n \in Nat /\ b \in 1 .. i
      BY <2>1, <2>2
    <3>2. i \in Nat /\ b \in Nat /\ b <= i /\ 1 <= b /\ i <= n
      BY ONLY <3>1
    <3>. QED  BY ONLY <3>1, <3>2
  <2>7. \A j \in b .. i : stack[j].obj = stack[i].obj
    <3>1. ASSUME NEW j \in b .. i  PROVE SameObject(j, i) /\ j <= i /\ \A k \in j + 1 .. i : stack[k].via = "super"
      <4>1. \A k \in j + 1 .. i : k \in b + 1 .. i
        BY <2>6
      <4>2. j \in DOMAIN stack /\ j <= i
        BY <2>2, <2>6
      <4>. QED  BY <1>1, <2>1, <4>1, <4>2 DEF Chained
    <3>. QED  BY <3>1 DEF SameObject
  <2>8. \A j \in b + 1 .. i : j \in Climbers(stack, c)
    <3>1. ASSUME NEW j \in b + 1 .. i  PROVE j \in Climbers(stack, c)
      <4>1. j \in b .. i
        BY <2>6
      <4>2. j \in DOMAIN stack
        BY <2>2, <2>6, <4>1
      <4>3. stack[j].via = "super" /\ stack[j].obj = stack[i].obj
        BY <2>1, <2>7, <4>1
      <4>. QED  BY <4>2, <4>3 DEF Climbers, Climbed, BySuper
    <3>. QED  BY <3>1
  <2>9. stack[b].obj = stack[i].obj
    BY <2>6, <2>7
  <2>10. \A j \in 1 .. b - 1 : j \notin Climbers(stack, c)
    BY <1>7, <2>9 DEF Alone, Climbers, Climbed
  <2>11. b \in Climbers(stack, c) \/ stack[b].level = c
    BY <1>7, <2>2, <2>6, <2>9 DEF Climbers, Climbed, BySuper
  <2>12. i # b => i - 1 \in 1 .. n
    BY ONLY <2>6
  <2>. HIDE DEF c, m
  <2>13. stack[i].level = Up[IF i = b THEN c ELSE stack[i - 1].level]
    <3>1. Len(context[c]) = m
      BY DEF m
    <3>2. ChainOf(c, stack, b, i)
      BY <2>1, <2>5, <2>8, <2>10, <2>11 DEF ChainOf
    <3>3. Follows(c, stack, b, i, Up)
      BY ONLY <1>2, <2>2, <2>3, <2>4, <3>1, <3>2, ClimbFollows
    <3>. QED  BY <3>3 DEF Follows
  <2>14. (IF i = b THEN c ELSE stack[i - 1].level) \in Classes
    BY <1>5, <2>2, <2>12
  <2>. QED  BY <2>13, <2>14 DEF Up, c
<1>8. SuperReaches
  BY <1>7 DEF SuperReaches
<1>. QED  BY <1>6, <1>8 DEF NothingIsLeft
=============================================================================
