---------------------------- MODULE MCClientSync ----------------------------
(***************************************************************************)
(* Instances of ClientSync: b is the parent of c and has a timestamp to    *)
(* come; a is a sibling of b.                                              *)
(***************************************************************************)
EXTENDS ClientSync

CONSTANTS a, b, c, v1, v2

\* The verifier threads are interchangeable.
VerifierSymmetry == Permutations(Verifier)

MCParent == (a :> Genesis) @@ (b :> Genesis) @@ (c :> b)
MCTimestamp == (a :> 0) @@ (b :> 1) @@ (c :> 0)

\* Siblings whose time has come.
PairParent == (a :> Genesis) @@ (b :> Genesis)
PairTimestamp == (a :> 0) @@ (b :> 0)
=============================================================================
