------------------------------ MODULE MCChainDB ------------------------------
(* Two branches of two blocks.  b1 ties with a2, one higher, and used more *)
(* gas: a reorganisation to a shorter chain; b2 is the heaviest.           *)
EXTENDS ChainDB

CONSTANTS a1, a2, b1, b2

MCParent == [b \in {a1, a2, b1, b2} |->
    CASE b = a2 -> a1 [] b = b2 -> b1 [] OTHER -> Genesis]
MCNumber == [b \in {Genesis, a1, a2, b1, b2} |->
    CASE b = Genesis -> 0 [] b \in {a1, b1} -> 1 [] OTHER -> 2]
MCTotalDifficulty == [b \in {Genesis, a1, a2, b1, b2} |->
    CASE b = Genesis -> 1 [] b = a1 -> 2 [] b = b2 -> 4 [] OTHER -> 3]
MCGasUsed == [b \in {Genesis, a1, a2, b1, b2} |-> IF b = b1 THEN 1 ELSE 0]
=============================================================================
