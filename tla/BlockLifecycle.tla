--------------------------- MODULE BlockLifecycle ---------------------------
(***************************************************************************)
(* What the block queue promises of each block, whatever its threads do:   *)
(* the statuses of QueueStatus (BlockQueue.h), with the future blocks and  *)
(* the imported ones told apart, and how a block moves between them.       *)
(***************************************************************************)
CONSTANTS Block, Genesis, Parent

VARIABLES
    status,     \* status[b]: what the queue says of b
    exempt      \* blocks released without their parent, by retryAllUnknown()

Statuses == {"Unknown", "Future", "UnknownParent", "Ready", "Importing", "Bad",
             "Imported"}

Is(st) == {b \in Block : status[b] = st}

\* What a block may be put behind: a parent on its way, or in the chain.
AtHand == Is("Ready") \cup Is("Importing") \cup Is("Imported") \cup {Genesis}

Move(S, st) == status' = [b \in Block |-> IF b \in S THEN st ELSE status[b]]

Init ==
    /\ status = [b \in Block |-> "Unknown"]
    /\ exempt = {}

\* A block arrives and must wait for its time, or for its parent.
Wait(b) ==
    /\ status[b] = "Unknown"
    /\ \/ Move({b}, "Future")
       \/ Parent[b] \notin AtHand /\ Move({b}, "UnknownParent")
    /\ UNCHANGED exempt

\* The time of some blocks has come: they will be looked at afresh.
Mature ==
    /\ \E S \in SUBSET Is("Future") : Move(S, "Unknown")
    /\ UNCHANGED exempt

\* A block arrives whose parent is at hand. All that waited for it, however far
\* below, comes with it, and nothing else.
Accept(b) ==
    /\ status[b] = "Unknown"
    /\ Parent[b] \in AtHand
    /\ \E S \in SUBSET Is("UnknownParent") :
          /\ S = {u \in Is("UnknownParent") : Parent[u] \in S \cup {b}}
          /\ Move(S \cup {b}, "Ready")
    /\ UNCHANGED exempt

\* Some blocks turn bad, with no bad parent left above a waiting block.
Condemn ==
    /\ \E S \in SUBSET (Is("Unknown") \cup Is("UnknownParent") \cup Is("Ready")) :
          /\ Move(S, "Bad")
          /\ \A u \in Is("UnknownParent") \ S : Parent[u] \notin S
    /\ UNCHANGED exempt

\* Blocks are handed to the chain, never without the parent.
HandOver ==
    /\ Is("Importing") = {}
    /\ \E S \in SUBSET Is("Ready") :
          /\ \A b \in S : Parent[b] \in S \cup Is("Imported") \cup {Genesis}
                          \/ b \in exempt
          /\ Move(S, "Importing")
    /\ UNCHANGED exempt

\* The chain is done with them: each is in it, on an imported parent, or bad,
\* together with whatever waits or is queued on a bad one.
Settle ==
    /\ \E bad \in SUBSET Is("Importing") :
       \E S \in SUBSET (Is("UnknownParent") \cup Is("Ready")) :
          LET imported == Is("Importing") \ bad
          IN  /\ \A b \in imported :
                    Parent[b] \in imported \cup Is("Imported") \cup {Genesis}
              /\ bad # {} =>
                    \A b \in (Is("UnknownParent") \cup Is("Ready")) \ S :
                        Parent[b] \notin bad \cup S
              /\ bad = {} => S = {}
              /\ status' = [b \in Block |-> IF b \in bad \cup S THEN "Bad"
                                            ELSE IF b \in imported THEN "Imported"
                                            ELSE status[b]]
    /\ UNCHANGED exempt

\* retryAllUnknown().
Release ==
    /\ Move(Is("UnknownParent"), "Ready")
    /\ exempt' = exempt \cup Is("UnknownParent")

\* clear(), with nothing handed over.
Forget ==
    /\ Is("Importing") = {}
    /\ Move(Is("Future") \cup Is("UnknownParent") \cup Is("Ready"), "Unknown")
    /\ UNCHANGED exempt

Next ==
    \/ \E b \in Block : Wait(b) \/ Accept(b)
    \/ Mature
    \/ Condemn
    \/ HandOver
    \/ Settle
    \/ Release
    \/ Forget

Spec == Init /\ [][Next]_<<status, exempt>>
=============================================================================
