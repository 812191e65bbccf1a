---------------------------- MODULE MCBlockQueue ----------------------------
(***************************************************************************)
(* Instances of BlockQueue. The main chain is a, b; c is a sibling of b    *)
(* with a bad seal; d is a child of c; x a lone child of Genesis.          *)
(***************************************************************************)
EXTENDS BlockQueue

CONSTANTS a, b, c, d, v1, v2

\* The verifier threads are interchangeable.
VerifierSymmetry == Permutations(Verifier)

\* A good branch a, b and a bad one a, c, d.
ForkParent == (a :> Genesis) @@ (b :> a) @@ (c :> a) @@ (d :> c)

\* b has a timestamp to come.
ForkTimestamp == (a :> 0) @@ (b :> 1) @@ (c :> 0) @@ (d :> 0)

\* Without d: what a bad child and a sibling with a timestamp to come do.
SmallForkParent == (a :> Genesis) @@ (b :> a) @@ (c :> a)
SmallForkTimestamp == (a :> 0) @@ (b :> 1) @@ (c :> 0)

\* Two children of Genesis, with no ancestor in common to wait for.
TwinParent == (a :> Genesis) @@ (b :> Genesis) @@ (c :> b)
TwinTimestamp == (a :> 0) @@ (b :> 0) @@ (c :> 0)
=============================================================================
