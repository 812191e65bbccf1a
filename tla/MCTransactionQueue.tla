------------------------- MODULE MCTransactionQueue -------------------------
(***************************************************************************)
(* Instances of TransactionQueue. a0, a1, a2 are the transactions of one   *)
(* account, a1x another one with the nonce of a1; b0 is another account's. *)
(***************************************************************************)
EXTENDS TransactionQueue

CONSTANTS a, b, a0, a1, a1x, a2, b0

MCSender == [t \in Tx |-> IF t = b0 THEN b ELSE a]

MCNonce == [t \in Tx |-> CASE t \in {a0, b0} -> 0 [] t \in {a1, a1x} -> 1 [] t = a2 -> 2]

\* a1 pays more than b0, and b0 more than a0.
MCGasPrice ==
    [t \in Tx |-> CASE t \in {a0, a2} -> 1 [] t = b0 -> 2 [] t = a1 -> 3 [] t = a1x -> 4]
=============================================================================
