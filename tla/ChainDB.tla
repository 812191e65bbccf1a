------------------------------- MODULE ChainDB -------------------------------
(***************************************************************************)
(* The block tree that dev::eth::BlockChain keeps in two databases behind  *)
(* caches: import of a block with its separate writes, reorganisation,     *)
(* rewind, garbage collection, RPC threads that read through the caches,   *)
(* and a process that dies between any two writes and is started again.    *)
(* The client's worker thread does everything except the reads.            *)
(***************************************************************************)
EXTENDS Naturals, FiniteSets, Functions

CONSTANTS
    Block,              \* blocks that may be imported
    Genesis, NoBlock,   \* the genesis block; "no hash"
    Parent,             \* [Block -> Block \cup {Genesis}]
    Number,             \* height of each block
    TotalDifficulty,    \* of the chain ending in each block
    GasUsed,            \* of each block
    TieBreakingGas,     \* chainParams().tieBreakingGas
    Polled              \* blocks whose details RPC threads ask for and the
                        \* garbage collector takes: a bound of the model

Known == Block \cup {Genesis}

ASSUME TreeAssumption ==
    /\ Genesis \notin Block /\ NoBlock \notin Known
    /\ Parent \in [Block -> Known]
    /\ Number \in [Known -> Nat] /\ TotalDifficulty \in [Known -> Nat]
    /\ GasUsed \in [Known -> Nat] /\ TieBreakingGas \in BOOLEAN
    /\ Polled \subseteq Known
    /\ Number[Genesis] = 0
    /\ \A b \in Block : /\ Number[b] = Number[Parent[b]] + 1
                        /\ TotalDifficulty[b] > TotalDifficulty[Parent[b]]

VARIABLES
    \* on disk
    stateDB,        \* blocks whose state OverlayDB::commit() has written
    blocksDB,       \* m_blocksDB
    childrenDB,     \* m_extrasDB, ExtraDetails: the children in each block's details
    hashesDB,       \* m_extrasDB, ExtraBlockHash: block of each number
    bestDB,         \* m_extrasDB, "best" (the genesis block when there is none)
    \* in memory
    children,       \* m_details: the cached details
    blockHashes,    \* m_blockHashes: the cached block of each number
    last,           \* m_lastBlockHash; m_lastBlockNumber is its number
    importing,      \* the block being imported, NoBlock when there is none
    step,           \* what its import has reached
    batch,          \* the batch for m_extrasDB, and whether the block is best
    reading,        \* a read through a cache under way in an RPC thread
    \* history
    torn,           \* numbers whose hash a crashed import has overwritten
    crossed,        \* cached numbers read above the head or across an import
    outdone,        \* heavier blocks given up by a rewind or a crash
    unlisted        \* blocks whose entry in their parent's details was lost

diskVars == <<stateDB, blocksDB, childrenDB, hashesDB, bestDB>>
cacheVars == <<children, blockHashes>>
importVars == <<importing, step, batch>>
historyVars == <<torn, crossed, outdone, unlisted>>
vars == <<diskVars, cacheVars, last, importVars, reading, historyVars>>

Empty == [x \in {} |-> x]
Numbers == {Number[b] : b \in Known}
NoBatch == [children |-> Empty, hashes |-> Empty, best |-> FALSE]
NotReading == [of |-> "nothing", key |-> NoBlock, value |-> NoBlock]

\* f with the entries of g in place of its own.
Written(f, g) == [x \in DOMAIN f \cup DOMAIN g |-> IF x \in DOMAIN g THEN g[x] ELSE f[x]]
Without(f, S) == [x \in DOMAIN f \ S |-> f[x]]

\* S is closed under the walk of treeRoute() by details().parent.
IsPath(S) == Genesis \in S /\ \A b \in S \ {Genesis} : Parent[b] \in S

\* A block and all its ancestors: what every such walk from it visits.
ChainOf == [b \in Known |->
    {c \in Known : \A S \in SUBSET Known : b \in S /\ IsPath(S) => c \in S}]

Init ==
    /\ stateDB = {Genesis} /\ blocksDB = {}
    /\ childrenDB = [b \in {Genesis} |-> {}]
    /\ hashesDB = Empty /\ bestDB = Genesis
    /\ children = [b \in {Genesis} |-> {}]
    /\ blockHashes = Empty /\ last = Genesis
    /\ importing = NoBlock /\ step = "idle" /\ batch = NoBatch
    /\ reading = NotReading
    /\ torn = {} /\ crossed = {} /\ outdone = {} /\ unlisted = {}

---------------------------------------------------------------------------
\* isKnown(b, _isCurrent): current blocks are at most as high as the head.
HasDetails(b) == b \in DOMAIN children \cup DOMAIN childrenDB
IsKnown(b) == b = Genesis \/ (b \in blocksDB /\ HasDetails(b))
IsCurrent(b) == IsKnown(b) /\ Number[b] <= Number[last]

\* A plausible fault: the parent's details are not brought into the cache first.
CachedDetailsOf(b) == IF b \in DOMAIN children THEN children[b] ELSE {}

\* details(b).children, read through the cache.
DetailsOf(b) == IF b \in DOMAIN children THEN children[b] ELSE childrenDB[b]

Heavier(b, c) ==
    \/ TotalDifficulty[b] > TotalDifficulty[c]
    \/ TieBreakingGas /\ TotalDifficulty[b] = TotalDifficulty[c] /\ GasUsed[b] > GasUsed[c]

\* A plausible fault: the longest chain instead of the heaviest.
LongerThanHead(b) == Number[b] > Number[last]

BecomesBest(b) == Heavier(b, last)

\* numberHash(n): the genesis block has no entry.
NumberHash(n) ==
    IF n = 0 THEN Genesis
    ELSE IF n \in DOMAIN blockHashes THEN blockHashes[n]
    ELSE hashesDB[n]

\* A plausible fault: only the new block's own number is written.
FreshHead(b) == {b}

\* The part of the chain of b that treeRoute() finds beyond its common
\* ancestor with the head.
Fresh(b) == ChainOf[b] \ ChainOf[last]

\* A plausible fault: the head's own number stays in the cache.
ClearedBelowHead(first) == {n \in DOMAIN blockHashes : first <= n /\ n < Number[last]}

\* clearCachesDuringChainReversion(first): numbers up to the head's.
ClearedFrom(first) == {n \in DOMAIN blockHashes : first <= n /\ n <= Number[last]}

CommonNumber(b) == Number[CHOOSE c \in ChainOf[last] \cap ChainOf[b] :
                            \A d \in ChainOf[last] \cap ChainOf[b] : Number[d] <= Number[c]]

---------------------------------------------------------------------------
(* import() and insertBlockAndExtras(), one action per write to disk.      *)

\* The checks, enactOn() and cleanup(), which commits the block's state.  A
\* block that is current, has an unknown parent or no parent state to start
\* from (BadRoot) leaves by an exception that changes nothing here.
Enact(b) ==
    /\ step = "idle"
    /\ ~IsCurrent(b) /\ IsKnown(Parent[b]) /\ Parent[b] \in stateDB
    /\ stateDB' = stateDB \cup {b}
    /\ importing' = b /\ step' = "enacted"
    /\ UNCHANGED <<blocksDB, childrenDB, hashesDB, bestDB, cacheVars, last, batch,
                   reading, historyVars>>

\* The parent's details in the cache, the route, the caches of the numbers
\* it takes over, and the batch of the extras.
Collect ==
    /\ step = "enacted"
    /\ LET b == importing
           siblings == DetailsOf(Parent[b]) \cup {b}
           best == BecomesBest(b)
           cleared == IF best /\ CommonNumber(b) # Number[last]
                      THEN ClearedFrom(CommonNumber(b) + 1) ELSE {}
       IN  /\ children' = Written(children, [p \in {Parent[b]} |-> siblings])
           /\ blockHashes' = Without(blockHashes, cleared)
           /\ crossed' = crossed \ cleared
           /\ batch' = [children |-> [x \in {Parent[b], b} |-> IF x = b THEN {} ELSE siblings],
                        hashes |-> IF best
                                   THEN [n \in {Number[c] : c \in Fresh(b)} |->
                                           CHOOSE c \in Fresh(b) : Number[c] = n]
                                   ELSE Empty,
                        best |-> best]
    /\ step' = "collected"
    /\ UNCHANGED <<diskVars, last, importing, reading, torn, outdone, unlisted>>

\* A plausible fault: "best" is written before the extras.
CommitBlocksAndBest ==
    /\ step = "collected"
    /\ blocksDB' = blocksDB \cup {importing}
    /\ bestDB' = IF batch.best THEN importing ELSE bestDB
    /\ step' = "blocks"
    /\ UNCHANGED <<stateDB, childrenDB, hashesDB, cacheVars, last, importing, batch,
                   reading, historyVars>>

CommitBlocks ==
    /\ step = "collected"
    /\ blocksDB' = blocksDB \cup {importing}
    /\ step' = "blocks"
    /\ UNCHANGED <<stateDB, childrenDB, hashesDB, bestDB, cacheVars, last, importing, batch,
                   reading, historyVars>>

Idle ==
    /\ importing' = NoBlock /\ step' = "idle" /\ batch' = NoBatch

CommitExtras ==
    /\ step = "blocks"
    /\ childrenDB' = Written(childrenDB, batch.children)
    /\ hashesDB' = Written(hashesDB, batch.hashes)
    /\ torn' = torn \ DOMAIN batch.hashes
    /\ unlisted' = (unlisted \ {importing}) \cup
           (IF importing \in DOMAIN childrenDB THEN childrenDB[importing] ELSE {})
    /\ IF batch.best
       THEN step' = "extras" /\ UNCHANGED <<importing, batch>>
       ELSE Idle
    /\ UNCHANGED <<stateDB, blocksDB, bestDB, cacheVars, last, reading, crossed, outdone>>

\* m_lastBlockHash and "best", both under x_lastBlockHash.
SetBest ==
    /\ step = "extras"
    /\ last' = importing /\ bestDB' = importing
    /\ outdone' = {b \in outdone : Heavier(b, importing)}
    /\ Idle
    /\ UNCHANGED <<stateDB, blocksDB, childrenDB, hashesDB, cacheVars, reading, torn, crossed, unlisted>>

---------------------------------------------------------------------------
(* The other operations of the worker thread.                              *)

Detailed == {b \in Block : IsKnown(b)}

Rewind(n) ==
    /\ step = "idle"
    /\ n < Number[last]
    /\ LET cleared == ClearedFrom(n + 1)
           head == NumberHash(n)
       IN  /\ blockHashes' = Written(Without(blockHashes, cleared), [m \in {n} \ {0} |-> head])
           /\ crossed' = crossed \ cleared
           /\ last' = head /\ bestDB' = head
           /\ outdone' = {b \in Detailed : Heavier(b, head)}
           \* a head from a stale cache has another chain than the numbers on disk
           /\ torn' = IF n \in crossed THEN Numbers ELSE torn
    /\ UNCHANGED <<stateDB, blocksDB, childrenDB, hashesDB, children, importVars, reading,
                   unlisted>>

\* garbageCollect() takes details that have not been used for a while.
GarbageCollect(b) ==
    /\ step = "idle" /\ b \in DOMAIN children
    /\ children' = Without(children, {b})
    /\ UNCHANGED <<diskVars, blockHashes, last, importVars, reading, historyVars>>

\* The process dies, or a database write fails and it exits, and is started
\* again: open() finds "best", and the caches are empty.
Restart ==
    /\ children' = Empty /\ blockHashes' = Empty
    /\ last' = bestDB
    /\ importing' = NoBlock /\ step' = "idle" /\ batch' = NoBatch
    /\ reading' = NotReading
    /\ crossed' = {}
    /\ IF step = "extras"
       THEN /\ torn' = torn \cup DOMAIN batch.hashes
            /\ outdone' = outdone \cup {importing}
       ELSE UNCHANGED <<torn, outdone>>
    /\ UNCHANGED <<diskVars, unlisted>>

---------------------------------------------------------------------------
(* queryExtras() in an RPC thread: the database is read without a lock,    *)
(* and what was read goes into the cache unless there is an entry by then. *)

\* A number above the head, or that the import under way takes from it.
AboveHead(n) ==
    \/ n > Number[last]
    \/ batch.best /\ (n \in DOMAIN batch.hashes \/ n > Number[importing])

\* numberHash(n)
LookUpNumber(n) ==
    /\ reading = NotReading
    /\ n \in DOMAIN hashesDB \ DOMAIN blockHashes
    /\ reading' = [of |-> "number", key |-> n, value |-> hashesDB[n]]
    /\ UNCHANGED <<diskVars, cacheVars, last, importVars, historyVars>>

FillNumber ==
    LET n == reading.key IN
    /\ reading.of = "number"
    /\ reading' = NotReading
    /\ IF n \in DOMAIN blockHashes
       THEN UNCHANGED <<blockHashes, crossed>>
       ELSE /\ blockHashes' = Written(blockHashes, [m \in {n} |-> reading.value])
            /\ crossed' = IF AboveHead(n) \/ reading.value # hashesDB[n]
                          THEN crossed \cup {n} ELSE crossed
    /\ UNCHANGED <<diskVars, children, last, importVars, torn, outdone, unlisted>>

\* details(b)
LookUpDetails(b) ==
    /\ reading = NotReading
    /\ b \in DOMAIN childrenDB \ DOMAIN children
    /\ reading' = [of |-> "details", key |-> b, value |-> childrenDB[b]]
    /\ UNCHANGED <<diskVars, cacheVars, last, importVars, historyVars>>

FillDetails ==
    LET b == reading.key IN
    /\ reading.of = "details"
    /\ reading' = NotReading
    /\ IF b \in DOMAIN children
       THEN UNCHANGED <<children, unlisted>>
       ELSE /\ children' = Written(children, [c \in {b} |-> reading.value])
            /\ unlisted' = unlisted \cup (childrenDB[b] \ reading.value)
    /\ UNCHANGED <<diskVars, blockHashes, last, importVars, torn, crossed, outdone>>

---------------------------------------------------------------------------
Next ==
    \/ \E b \in Block : Enact(b)
    \/ Collect \/ CommitBlocks \/ CommitExtras \/ SetBest
    \/ \E n \in Numbers : Rewind(n)
    \/ \E b \in Polled : GarbageCollect(b)
    \/ Restart
    \/ \E n \in Numbers : LookUpNumber(n)
    \/ \E b \in Polled : LookUpDetails(b)
    \/ FillNumber \/ FillDetails

Spec == Init /\ [][Next]_vars

---------------------------------------------------------------------------
ChainTypeOK ==
    /\ stateDB \subseteq Known /\ blocksDB \subseteq Block
    /\ DOMAIN childrenDB \subseteq Known /\ DOMAIN children \subseteq Known
    /\ DOMAIN hashesDB \subseteq Numbers /\ DOMAIN blockHashes \subseteq Numbers
    /\ bestDB \in Known /\ last \in Known
    /\ importing \in Block \cup {NoBlock}
    /\ step \in {"idle", "enacted", "collected", "blocks", "extras"}

(* Whenever the process dies, the next one finds a chain: "best" has       *)
(* details, and whatever has details has its body, its state and a parent  *)
(* with details (open(), and the order of the writes from Block::cleanup() *)
(* to BlockChain.cpp:945).                                                 *)
RestartFindsChain ==
    /\ bestDB \in DOMAIN childrenDB
    /\ \A b \in DOMAIN childrenDB \ {Genesis} :
          b \in blocksDB /\ b \in stateDB /\ Parent[b] \in DOMAIN childrenDB

(* Between imports the numbers up to the head's lead to the head and its   *)
(* ancestors, except those a dying import has overwritten before it could  *)
(* write "best" (BlockChain.cpp:866 against 945).                          *)
NumbersFollowBest ==
    step = "idle" =>
        \A b \in ChainOf[last] \ {Genesis} :
            Number[b] \notin torn => hashesDB[Number[b]] = b

(* Between imports no block of the tree is heavier than the head, except   *)
(* what a rewind gave up and the one block whose import died after its     *)
(* details were written (BlockChain.cpp:822, 1092).                        *)
HeaviestIsBest ==
    step = "idle" => \A b \in Detailed : Heavier(b, last) => b \in outdone

(* A cached number is stale only if it was read across the import that     *)
(* changed it, or above the head, which clearCachesDuringChainReversion()  *)
(* does not reach (BlockChain.h:361, BlockChain.cpp:1305-1310).            *)
CachedNumberCurrent ==
    step = "idle" =>
        \A n \in DOMAIN blockHashes : n \in crossed \/ blockHashes[n] = hashesDB[n]

(* Every block with details is in the children of its parent's details, as *)
(* checkConsistency() demands, unless the parent was imported again after  *)
(* a rewind or a crash, or an RPC thread put back details it had read      *)
(* before the block was added (BlockChain.cpp:784-799, 1293).              *)
ChildrenListed ==
    step = "idle" =>
        \A b \in Detailed : b \in childrenDB[Parent[b]] \/ b \in unlisted
=============================================================================
