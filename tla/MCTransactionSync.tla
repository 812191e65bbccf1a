-------------------------- MODULE MCTransactionSync --------------------------
(***************************************************************************)
(* Instances of TransactionSync: a0 and a1 are the first two transactions  *)
(* of one account, a1x could replace a1; b0 and b1 are another account's,  *)
(* and b1 wants more gas than a block has.                                 *)
(***************************************************************************)
EXTENDS TransactionSync

CONSTANTS a, b, a0, a1, a1x, b0, b1

MCSender == [t \in Tx |-> IF t \in {b0, b1} THEN b ELSE a]
MCNonce == [t \in Tx |-> IF t \in {a1, a1x, b1} THEN 1 ELSE 0]
MCGasPrice == [t \in Tx |-> CASE t \in {a0, b1} -> 1 [] t = b0 -> 2 [] t = a1 -> 3 [] t = a1x -> 4]
=============================================================================
