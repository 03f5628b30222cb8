----------------------------- MODULE MCGateway -----------------------------
(* Gateway for TLC.                                                        *)
EXTENDS Gateway, TLC
CONSTANTS p, q, r

\* Processes and sessions are interchangeable.
Symmetry == Permutations(Procs) \cup Permutations(Sids)

(* Upload: any three symbols that a delimiter is made of, and files with   *)
(* most of one.                                                            *)
MCFiles == BoundedSeq({"-", "cr", "lf"}, 3)
             \cup {<<"-", "B">>, <<"lf", "-", "B">>, <<"cr", "-", "B", "cr">>}

(* Plugins: a plug-in at the top, two in a common directory.  The letters  *)
(* are 5 and 6.                                                            *)
A == <<5>>
B == <<6>>
AB == <<5, 1, 6>>     \* "a-b"
MCTrees == {(<<A>> :> p) @@ (<<B>> :> None) @@ (<<B, A>> :> q),
            (<<A>> :> p) @@ (<<<<4, 6>>>> :> q),
            (<<A>> :> p) @@ (<<AB>> :> q) @@ (<<<<4, 6>>>> :> None) @@ (<<<<4, 6>>, A>> :> r),
            (<<A>> :> p) @@ (<<B>> :> r) @@ (<<B, A>> :> q)}
MCNames == {<<A>>, <<B>>, <<AB, B>>}
=============================================================================
