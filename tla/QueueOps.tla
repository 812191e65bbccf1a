------------------------------ MODULE QueueOps ------------------------------
(***************************************************************************)
(* Operations on sequences that the queues of libethereum are built from.  *)
(***************************************************************************)
EXTENDS Integers, Sequences, FiniteSets

\* The sequence without the elements of gone: the rest keeps its order. The
\* element of rank k is the one with k kept positions up to its own.
Without(s, gone) ==
    LET kept == {i \in DOMAIN s : s[i] \notin gone}
        rank(i) == Cardinality({j \in kept : j <= i})
    IN  [k \in 1..Cardinality(kept) |-> s[CHOOSE i \in kept : rank(i) = k]]
=============================================================================
