---------------------------- MODULE MCHeaderSync ----------------------------
(* For safety, a branch of five blocks, and one of two that leaves it after *)
(* the second block: the branches part above the blocks that the sync takes *)
(* for known. For liveness, one branch of seven blocks.                     *)
EXTENDS HeaderSync

CONSTANTS p, q, a1, a2, a3, a4, a5, a6, a7, b3, b4, empty

LineParent == a1 :> Genesis @@ a2 :> a1 @@ a3 :> a2 @@ a4 :> a3 @@ a5 :> a4
                 @@ a6 :> a5 @@ a7 :> a6
LineNumber == Genesis :> 0 @@ a1 :> 1 @@ a2 :> 2 @@ a3 :> 3 @@ a4 :> 4 @@ a5 :> 5
                 @@ a6 :> 6 @@ a7 :> 7
BodyOf(blocks) == [b \in blocks |-> IF b \in {Genesis, a4} THEN empty ELSE b]
LineBody == BodyOf({Genesis, a1, a2, a3, a4, a5, a6, a7})

Fork == {a1, a2, a3, a4, a5, b3, b4}
ForkParent == [b \in Fork |-> IF b = b3 THEN a2 ELSE IF b = b4 THEN b3
                              ELSE LineParent[b]]
ForkNumber == [b \in Fork \cup {Genesis} |-> IF b = b3 THEN 3 ELSE IF b = b4 THEN 4
                                             ELSE LineNumber[b]]
ForkBody == BodyOf(Fork \cup {Genesis})

ForkRemote == p :> a5 @@ q :> a2    \* q may announce the other branch
EvenRemote == p :> a7 @@ q :> a7
=============================================================================
