----------------------------- MODULE BlockQueue -----------------------------
(***************************************************************************)
(* The block queue of libethereum: BlockQueue.{h,cpp}, VerifiedBlock.h.    *)
(*                                                                         *)
(* Blocks arrive from the network, from the sealer or from the timer       *)
(* (import, tick), wait for their parent or for their timestamp, are       *)
(* verified by a pool of threads that share m_unverified, m_verifying and  *)
(* m_verified, and are taken in order by the client thread (drain), which  *)
(* reports the ones the chain refused (doneDrain).                         *)
(*                                                                         *)
(* Every action below is one critical section of the code: m_lock guards   *)
(* the sets, m_verification the three queues, and no step of the code      *)
(* holds neither while it changes them.                                    *)
(***************************************************************************)
EXTENDS Integers, Sequences, FiniteSets, SequencesExt, QueueOps

CONSTANTS
    Block,       \* block hashes
    Genesis,     \* the hash the chain starts from
    NoBlock,     \* "no job" of a verifier thread
    Parent,      \* Parent[b]: parentHash of b's header
    Timestamp,   \* Timestamp[b]: timestamp of b's header
    Malformed,   \* blocks verifyBlock(PostGenesis) refuses in import()
    BadSeal,     \* blocks verifyBlock(OutOfOrderChecks) refuses in a verifier
    Verifier,    \* the verifier threads
    MaxTime,     \* bound: the clock stops here
    MaxDrain     \* bound: the largest _max of drain()

ASSUME BlockAssumption ==
    /\ IsFiniteSet(Block)
    /\ Genesis \notin Block
    /\ NoBlock \notin Block
    /\ Parent \in [Block -> Block \cup {Genesis}]
    /\ Timestamp \in [Block -> Nat]
    /\ Malformed \subseteq Block
    /\ BadSeal \subseteq Block
    /\ Verifier # {}
    /\ MaxTime \in Nat
    /\ MaxDrain \in Nat \ {0}

\* A header cannot name a descendant as its parent: the parent relation of
\* hashes has no cycle.
ASSUME ParentAssumption ==
    \E number \in [Block -> 1..Cardinality(Block)] :
        \A b \in Block : Parent[b] \in Block => number[Parent[b]] < number[b]

VARIABLES
    readySet,       \* m_readySet: blocks in the three queues below
    drainingSet,    \* m_drainingSet: blocks handed to the chain by drain()
    unknown,        \* m_unknown: blocks filed under a parent nobody knows
    unknownSet,     \* m_unknownSet: index of unknown
    knownBad,       \* m_knownBad
    future,         \* m_future: blocks filed under a timestamp to come
    futureSet,      \* m_futureSet: index of future
    todo,           \* tick()'s local list, between its lock and its imports
    unverified,     \* m_unverified
    verifying,      \* m_verifying: [block, done]; done: blockData is not empty
    verified,       \* m_verified
    difficulty,     \* m_difficulty: how often each block's is in the sum
    drainingDifficulty, \* m_drainingDifficulty, in the same form
    deleting,       \* m_deleting
    pc,             \* where each verifier thread is
    job,            \* the block each verifier thread works on
    now,            \* utcTime()
    chain,          \* the blocks BlockChain::isKnown() answers for
    forced          \* history: blocks retryAllUnknown() ever released

setVars == <<readySet, drainingSet, knownBad>>
waitVars == <<unknown, unknownSet, future, futureSet>>
queueVars == <<unverified, verifying, verified>>
difficultyVars == <<difficulty, drainingDifficulty>>
threadVars == <<deleting, pc, job>>
vars == <<setVars, waitVars, todo, queueVars, difficultyVars, threadVars,
          now, chain, forced>>

Entry == [block : Block, done : BOOLEAN]

TypeOK ==
    /\ readySet \subseteq Block
    /\ drainingSet \subseteq Block
    /\ unknown \subseteq Block
    /\ unknownSet \subseteq Block
    /\ knownBad \subseteq Block
    /\ future \subseteq Block
    /\ futureSet \subseteq Block
    /\ todo \subseteq Block
    /\ unverified \in Seq(Block)
    /\ verifying \in Seq(Entry)
    /\ verified \in Seq(Block)
    /\ difficulty \in [Block -> Nat]
    /\ drainingDifficulty \in [Block -> Nat]
    /\ deleting \in BOOLEAN
    /\ pc \in [Verifier -> {"idle", "asleep", "busy", "notify", "exited"}]
    /\ job \in [Verifier -> Block \cup {NoBlock}]
    /\ now \in 0..MaxTime
    /\ chain \subseteq Block \cup {Genesis}
    /\ forced \subseteq Block

NoDifficulty == [b \in Block |-> 0]

Init ==
    /\ readySet = {}
    /\ drainingSet = {}
    /\ unknown = {}
    /\ unknownSet = {}
    /\ knownBad = {}
    /\ future = {}
    /\ futureSet = {}
    /\ todo = {}
    /\ unverified = <<>>
    /\ verifying = <<>>
    /\ verified = <<>>
    /\ difficulty = NoDifficulty
    /\ drainingDifficulty = NoDifficulty
    /\ deleting = FALSE
    /\ pc = [v \in Verifier |-> "idle"]
    /\ job = [v \in Verifier |-> NoBlock]
    /\ now = 0
    /\ chain = {Genesis}
    /\ forced = {}

-----------------------------------------------------------------------------
(* Helpers of the queues                                                   *)

Blocks(entries) == [i \in DOMAIN entries |-> entries[i].block]

\* Everything on its way to the chain, in the order it will get there.
Pipeline == verified \o Blocks(verifying) \o unverified

\* The difficulty of the blocks of s, as a sum with symbolic terms: how often
\* each block is in it. It stands for every assignment of difficulties.
SumDifficulty(s) == [b \in Block |-> Cardinality({i \in DOMAIN s : s[i] = b})]

AddDifficulty(b) == difficulty' = [difficulty EXCEPT ![b] = @ + 1]

Placeholder(b) == [block |-> b, done |-> FALSE]

Finished(b) == [block |-> b, done |-> TRUE]

\* The entry of b becomes finished; nothing happens when b has none.
Finish(entries, b) ==
    IF \E i \in DOMAIN entries : entries[i] = Placeholder(b)
    THEN LET i == CHOOSE i \in DOMAIN entries :
                      /\ entries[i] = Placeholder(b)
                      /\ \A j \in 1..(i - 1) : entries[j] # Placeholder(b)
         IN  [entries EXCEPT ![i] = Finished(b)]
    ELSE entries

\* Faulty variant: takes unfinished entries for finished.
FinishedPrefixWhole(entries) == Len(entries)

\* How many entries at the front of m_verifying are finished.
FinishedPrefix(entries) ==
    CHOOSE n \in 0..Len(entries) :
        /\ \A i \in 1..n : entries[i].done
        /\ n < Len(entries) => ~entries[n + 1].done

\* Faulty variant: no look at the parent.
DrainVerifiedUnchecked(entries, ready, bad) ==
    LET n == FinishedPrefix(entries)
    IN  /\ verifying' = SubSeq(entries, n + 1, Len(entries))
        /\ verified' = verified \o SubSeq(Blocks(entries), 1, n)
        /\ readySet' = ready
        /\ knownBad' = bad

\* Moves the finished front of entries to m_verified. A block whose parent
\* is bad, or was found bad earlier in the same loop, turns bad instead.
DrainVerified(entries, ready, bad) ==
    LET n == FinishedPrefix(entries)
        front == SubSeq(Blocks(entries), 1, n)
    IN  \E refused \in SUBSET ToSet(front) :
          /\ \A i \in 1..n :
                front[i] \in refused <=>
                    Parent[front[i]] \in bad \cup
                        {front[j] : j \in {k \in 1..(i - 1) : front[k] \in refused}}
          /\ verifying' = SubSeq(entries, n + 1, Len(entries))
          /\ verified' = verified \o Without(front, refused)
          /\ readySet' = ready \ refused
          /\ knownBad' = bad \cup refused

\* notify_one on m_moreToVerify: one sleeping thread, if any, wakes.
WakeOne(p) ==
    IF \E v \in Verifier : p[v] = "asleep"
    THEN {[p EXCEPT ![v] = "idle"] : v \in {w \in Verifier : p[w] = "asleep"}}
    ELSE {p}

\* notify_all on m_moreToVerify.
WakeAll(p) == [v \in Verifier |-> IF p[v] = "asleep" THEN "idle" ELSE p[v]]

-----------------------------------------------------------------------------
(* Blocks that wait: for a parent, or to be struck out with a bad parent    *)

\* noteReady: the blocks of m_unknown below b, breadth first from b. A level's
\* order among siblings is the order of the multimap, any order here.
BreadthFirst(s, b) ==
    LET position(x) == IF x = b THEN 0 ELSE CHOOSE i \in DOMAIN s : s[i] = x
    IN  \A i, j \in DOMAIN s :
            i < j => /\ position(Parent[s[i]]) < i
                     /\ position(Parent[s[i]]) =< position(Parent[s[j]])

\* Faulty variant: the children of b only.
IsCascadeOneLevel(S, b) == S = {u \in unknown : Parent[u] = b}

\* The blocks waiting for b, for a block waiting for b, and so on.
IsCascade(S, b) == S = {u \in unknown : Parent[u] \in S \cup {b}}

\* removeByKeyEqual takes the children of one parent together.
GroupedByParent(s) ==
    \A i, j, k \in DOMAIN s :
        i < j /\ j < k /\ Parent[s[i]] = Parent[s[k]] => Parent[s[j]] = Parent[s[i]]

\* updateBad: what goes when the blocks of bad are found bad. From m_unknown,
\* the cascade below them; from the queues, the children of any known bad block
\* and the bad blocks themselves, except a finished entry of m_verifying, whose
\* sha3Uncles field no longer holds its hash.
IsStruckOut(S, bad) ==
    LET all == knownBad \cup bad
        orphaned == {u \in unknown : Parent[u] \in S \cup bad}
        queued == {b \in ToSet(verified) \cup ToSet(unverified) :
                      Parent[b] \in S \cup all \/ b \in all}
        inWork == {e \in ToSet(verifying) :
                      Parent[e.block] \in S \cup all \/ e \in {Placeholder(b) : b \in all}}
    IN  S = orphaned \cup queued \cup {e.block : e \in inWork}

\* updateBad leaves the sets and queues without S.
StrikeOut(S, bad) ==
    LET all == knownBad \cup bad \cup S
        goneEntries == {e \in ToSet(verifying) :
                           Parent[e.block] \in all \/ e \in {Placeholder(b) : b \in all}}
        goneUnknown == {u \in unknown : Parent[u] \in S \cup bad}
    IN  /\ knownBad' = all
        /\ readySet' = readySet \ S
        /\ verified' = Without(verified, S)
        /\ unverified' = Without(unverified, S)
        /\ verifying' = Without(verifying, goneEntries)
        /\ unknown' = unknown \ goneUnknown
        /\ unknownSet' = unknownSet \ goneUnknown

-----------------------------------------------------------------------------
(* import()                                                                *)

Known(b) ==
    \/ b \in readySet
    \/ b \in drainingSet
    \/ b \in unknownSet
    \/ b \in knownBad
    \/ b \in futureSet

\* import() gets past AlreadyKnown, Malformed and AlreadyInChain. The three
\* early returns change nothing.
Importable(b) ==
    /\ ~Known(b)
    /\ b \notin Malformed
    /\ b \notin chain

\* Faulty variant: the difficulty is not counted.
ImportFutureUncounted(b) ==
    /\ future' = future \cup {b}
    /\ futureSet' = futureSet \cup {b}
    /\ UNCHANGED <<setVars, unknown, unknownSet, queueVars, difficultyVars, threadVars>>

\* Returns FutureTimeKnown or FutureTimeUnknown.
ImportFuture(b) ==
    /\ future' = future \cup {b}
    /\ futureSet' = futureSet \cup {b}
    /\ AddDifficulty(b)
    /\ UNCHANGED <<setVars, unknown, unknownSet, queueVars, drainingDifficulty,
                   threadVars>>

\* Returns BadChain.
ImportBadChain(b) ==
    /\ Parent[b] \in knownBad
    /\ \E S \in SUBSET Block : IsStruckOut(S, {b}) /\ StrikeOut(S, {b})
    /\ UNCHANGED <<drainingSet, future, futureSet, difficultyVars, threadVars>>

ParentAtHand(b) == Parent[b] \in readySet \cup drainingSet \cup chain

\* Faulty variant: the difficulty is not counted.
ImportUnknownParentUncounted(b) ==
    /\ Parent[b] \notin knownBad
    /\ ~ParentAtHand(b)
    /\ unknown' = unknown \cup {b}
    /\ unknownSet' = unknownSet \cup {b}
    /\ UNCHANGED <<setVars, future, futureSet, queueVars, difficultyVars, threadVars>>

\* Returns UnknownParent.
ImportUnknownParent(b) ==
    /\ Parent[b] \notin knownBad
    /\ ~ParentAtHand(b)
    /\ unknown' = unknown \cup {b}
    /\ unknownSet' = unknownSet \cup {b}
    /\ AddDifficulty(b)
    /\ UNCHANGED <<setVars, future, futureSet, queueVars, drainingDifficulty,
                   threadVars>>

\* Faulty variant: nobody is notified.
ImportReadySilent(b) ==
    /\ Parent[b] \notin knownBad
    /\ ParentAtHand(b)
    /\ \E S \in SUBSET unknown : \E s \in SetToSeqs(S) :
          /\ IsCascade(S, b)
          /\ BreadthFirst(s, b)
          /\ unverified' = unverified \o <<b>> \o s
          /\ readySet' = readySet \cup {b} \cup S
          /\ unknown' = unknown \ S
          /\ unknownSet' = unknownSet \ S
    /\ AddDifficulty(b)
    /\ UNCHANGED <<drainingSet, knownBad, future, futureSet, verifying, verified,
                   drainingDifficulty, threadVars>>

\* Returns Success: b, then all that waited for it (noteReady).
ImportReady(b) ==
    /\ Parent[b] \notin knownBad
    /\ ParentAtHand(b)
    /\ \E S \in SUBSET unknown : \E s \in SetToSeqs(S) :
          /\ IsCascade(S, b)
          /\ BreadthFirst(s, b)
          /\ unverified' = unverified \o <<b>> \o s
          /\ readySet' = readySet \cup {b} \cup S
          /\ unknown' = unknown \ S
          /\ unknownSet' = unknownSet \ S
          /\ IF S = {} THEN pc' \in WakeOne(pc) ELSE pc' = WakeAll(pc)
    /\ AddDifficulty(b)
    /\ UNCHANGED <<drainingSet, knownBad, future, futureSet, verifying, verified,
                   drainingDifficulty, deleting, job>>

\* One call of import(): a block with a timestamp to come waits, unless this
\* node sealed it.
Import(b, isOurs) ==
    /\ Importable(b)
    /\ IF Timestamp[b] > now /\ ~isOurs
       THEN ImportFuture(b)
       ELSE ImportBadChain(b) \/ ImportUnknownParent(b) \/ ImportReady(b)
    /\ UNCHANGED <<now, chain, forced>>

-----------------------------------------------------------------------------
(* tick()                                                                  *)

\* Under the lock: the blocks whose time has come leave m_future.
TickTake ==
    LET due == {b \in future : Timestamp[b] <= now}
    IN  /\ todo = {}
        /\ due # {}
        /\ future' = future \ due
        /\ futureSet' = futureSet \ due
        /\ todo' = due
        /\ UNCHANGED <<setVars, unknown, unknownSet, queueVars, difficultyVars,
                       threadVars, now, chain, forced>>

\* Outside the lock: each is imported afresh, earliest first.
TickImport(b) ==
    /\ b \in todo
    /\ \A c \in todo : Timestamp[b] <= Timestamp[c]
    /\ todo' = todo \ {b}
    /\ \/ Import(b, FALSE)
       \/ /\ ~Importable(b)
          /\ UNCHANGED <<setVars, waitVars, queueVars, difficultyVars, threadVars,
                         now, chain, forced>>

-----------------------------------------------------------------------------
(* verifierBody(): one iteration of the loop of thread v                   *)

\* wait() with nothing to do.
VerifierWait(v) ==
    /\ pc[v] = "idle"
    /\ ~deleting
    /\ unverified = <<>>
    /\ pc' = [pc EXCEPT ![v] = "asleep"]
    /\ UNCHANGED <<setVars, waitVars, todo, queueVars, difficultyVars, deleting,
                   job, now, chain, forced>>

\* A block leaves m_unverified and a placeholder takes its turn in m_verifying.
VerifierTake(v) ==
    /\ pc[v] = "idle"
    /\ ~deleting
    /\ unverified # <<>>
    /\ unverified' = Tail(unverified)
    /\ verifying' = Append(verifying, Placeholder(Head(unverified)))
    /\ pc' = [pc EXCEPT ![v] = "busy"]
    /\ job' = [job EXCEPT ![v] = Head(unverified)]
    /\ UNCHANGED <<setVars, waitVars, todo, verified, difficultyVars, deleting,
                   now, chain, forced>>

\* Faulty variant: the block stays in m_readySet.
VerifierFailStaysReady(v) ==
    /\ pc[v] = "busy"
    /\ job[v] \in BadSeal
    /\ DrainVerified(Without(verifying, {Placeholder(job[v])}),
                     readySet, knownBad \cup {job[v]})
    /\ pc' = [pc EXCEPT ![v] = "idle"]
    /\ job' = [job EXCEPT ![v] = NoBlock]
    /\ UNCHANGED <<drainingSet, waitVars, todo, unverified, difficultyVars,
                   deleting, now, chain, forced>>

\* verifyBlock() threw: the block is bad, its placeholder goes, and what was
\* finished behind it moves on. This path does not reach m_onReady().
VerifierFail(v) ==
    /\ pc[v] = "busy"
    /\ job[v] \in BadSeal
    /\ DrainVerified(Without(verifying, {Placeholder(job[v])}),
                     readySet \ {job[v]}, knownBad \cup {job[v]})
    /\ pc' = [pc EXCEPT ![v] = "idle"]
    /\ job' = [job EXCEPT ![v] = NoBlock]
    /\ UNCHANGED <<drainingSet, waitVars, todo, unverified, difficultyVars,
                   deleting, now, chain, forced>>

\* Faulty variant: the block moves on out of turn.
VerifierSucceedOutOfTurn(v) ==
    /\ pc[v] = "busy"
    /\ job[v] \notin BadSeal
    /\ verifying' = Without(verifying, {Placeholder(job[v])})
    /\ verified' = Append(verified, job[v])
    /\ pc' = [pc EXCEPT ![v] = "notify"]
    /\ job' = [job EXCEPT ![v] = NoBlock]
    /\ UNCHANGED <<setVars, waitVars, todo, unverified, difficultyVars,
                   deleting, now, chain, forced>>

\* verifyBlock() returned: first in turn, the block moves on with all that is
\* finished behind it; else it stays in m_verifying, finished.
VerifierSucceed(v) ==
    /\ pc[v] = "busy"
    /\ job[v] \notin BadSeal
    /\ IF verifying # <<>> /\ Head(verifying) = Placeholder(job[v])
       THEN /\ DrainVerified(Finish(verifying, job[v]), readySet, knownBad)
            /\ pc' = [pc EXCEPT ![v] = "notify"]
       ELSE /\ verifying' = Finish(verifying, job[v])
            /\ pc' = [pc EXCEPT ![v] = "idle"]
            /\ UNCHANGED <<verified, readySet, knownBad>>
    /\ job' = [job EXCEPT ![v] = NoBlock]
    /\ UNCHANGED <<drainingSet, waitVars, todo, unverified, difficultyVars,
                   deleting, now, chain, forced>>

\* m_onReady(), with no lock held.
OnReady(v) ==
    /\ pc[v] = "notify"
    /\ pc' = [pc EXCEPT ![v] = "idle"]
    /\ UNCHANGED <<setVars, waitVars, todo, queueVars, difficultyVars, deleting,
                   job, now, chain, forced>>

VerifierExit(v) ==
    /\ pc[v] = "idle"
    /\ deleting
    /\ pc' = [pc EXCEPT ![v] = "exited"]
    /\ UNCHANGED <<setVars, waitVars, todo, queueVars, difficultyVars, deleting,
                   job, now, chain, forced>>

VerifierStep(v) ==
    \/ VerifierWait(v)
    \/ VerifierTake(v)
    \/ VerifierFail(v)
    \/ VerifierSucceed(v)
    \/ OnReady(v)
    \/ VerifierExit(v)

-----------------------------------------------------------------------------
(* The client thread                                                       *)

\* Faulty variant: what is handed over stays in m_readySet.
DrainStaysReady(max) ==
    LET n == IF max < Len(verified) THEN max ELSE Len(verified)
        out == SubSeq(verified, 1, n)
    IN  /\ drainingSet = {}
        /\ verified' = SubSeq(verified, n + 1, Len(verified))
        /\ drainingSet' = ToSet(out)
        /\ drainingDifficulty' = SumDifficulty(out)
        /\ UNCHANGED <<readySet, knownBad, waitVars, todo, unverified, verifying,
                       difficulty, threadVars, now, chain, forced>>

\* drain(o_out, max) when nothing is draining.
Drain(max) ==
    LET n == IF max < Len(verified) THEN max ELSE Len(verified)
        out == SubSeq(verified, 1, n)
    IN  /\ drainingSet = {}
        /\ verified' = SubSeq(verified, n + 1, Len(verified))
        /\ drainingSet' = ToSet(out)
        /\ drainingDifficulty' = SumDifficulty(out)
        /\ readySet' = readySet \ ToSet(out)
        /\ UNCHANGED <<knownBad, waitVars, todo, unverified, verifying, difficulty,
                       threadVars, now, chain, forced>>

\* Faulty variant: descendants of the bad blocks stay in the queue.
DoneDrainSpares(bad) ==
    /\ drainingSet' = {}
    /\ difficulty' = [b \in Block |-> difficulty[b] - drainingDifficulty[b]]
    /\ drainingDifficulty' = NoDifficulty
    /\ knownBad' = knownBad \cup bad
    /\ UNCHANGED <<readySet, waitVars, queueVars, todo, threadVars, now, chain, forced>>

\* doneDrain(bad).
DoneDrain(bad) ==
    /\ drainingSet' = {}
    /\ difficulty' = [b \in Block |-> difficulty[b] - drainingDifficulty[b]]
    /\ drainingDifficulty' = NoDifficulty
    /\ IF bad = {}
       THEN UNCHANGED <<readySet, knownBad, unknown, unknownSet, queueVars>>
       ELSE \E S \in SUBSET Block : IsStruckOut(S, bad) /\ StrikeOut(S, bad)
    /\ UNCHANGED <<future, futureSet, todo, threadVars, now, chain, forced>>

-----------------------------------------------------------------------------
(* Calls of other threads                                                  *)

\* Faulty variant: nobody is notified.
RetryAllUnknownSilent ==
    /\ \E s \in SetToSeqs(unknown) :
          /\ GroupedByParent(s)
          /\ unverified' = unverified \o s
    /\ readySet' = readySet \cup unknown
    /\ unknown' = {}
    /\ unknownSet' = unknownSet \ unknown
    /\ forced' = forced \cup unknown
    /\ UNCHANGED <<drainingSet, knownBad, future, futureSet, todo, verifying,
                   verified, difficultyVars, threadVars, now, chain>>

\* retryAllUnknown(): all of m_unknown, parent by parent in the order of the
\* parents' hashes, any order here.
RetryAllUnknown ==
    /\ \E s \in SetToSeqs(unknown) :
          /\ GroupedByParent(s)
          /\ unverified' = unverified \o s
    /\ readySet' = readySet \cup unknown
    /\ unknown' = {}
    /\ unknownSet' = unknownSet \ unknown
    /\ forced' = forced \cup unknown
    /\ pc' = WakeAll(pc)
    /\ UNCHANGED <<drainingSet, knownBad, future, futureSet, todo, verifying,
                   verified, difficultyVars, deleting, job, now, chain>>

\* clear(): everything but m_knownBad, and nothing of what the threads hold.
Clear ==
    /\ readySet' = {}
    /\ drainingSet' = {}
    /\ verified' = <<>>
    /\ unverified' = <<>>
    /\ verifying' = <<>>
    /\ unknown' = {}
    /\ unknownSet' = {}
    /\ future' = {}
    /\ futureSet' = {}
    /\ difficulty' = NoDifficulty
    /\ drainingDifficulty' = NoDifficulty
    /\ UNCHANGED <<knownBad, todo, threadVars, now, chain, forced>>

\* Faulty variant: nobody is notified.
StopSilent ==
    /\ ~deleting
    /\ deleting' = TRUE
    /\ UNCHANGED <<setVars, waitVars, todo, queueVars, difficultyVars, pc, job, now,
                   chain, forced>>

\* stop(), up to its joins, which end when every thread is at "exited".
Stop ==
    /\ ~deleting
    /\ deleting' = TRUE
    /\ pc' = WakeAll(pc)
    /\ UNCHANGED <<setVars, waitVars, todo, queueVars, difficultyVars, job, now,
                   chain, forced>>

-----------------------------------------------------------------------------
(* The chain and the clock                                                 *)

\* BlockChain::import() of a drained block, by the client thread between its
\* drain() and its doneDrain(): the parent must be in the chain.
ChainImport(b) ==
    /\ b \in drainingSet \ chain
    /\ Parent[b] \in chain
    /\ chain' = chain \cup {b}
    /\ UNCHANGED <<setVars, waitVars, todo, queueVars, difficultyVars, threadVars,
                   now, forced>>

ClockTick ==
    /\ now < MaxTime
    /\ now' = now + 1
    /\ UNCHANGED <<setVars, waitVars, todo, queueVars, difficultyVars, threadVars,
                   chain, forced>>

-----------------------------------------------------------------------------
(* Specifications                                                          *)

\* Everything but clear(). doneDrain() is given the drained blocks that did
\* not make it into the chain, as its comment asks.
OrderlyNext ==
    \/ \E b \in Block : \E isOurs \in BOOLEAN : Import(b, isOurs) /\ UNCHANGED todo
    \/ TickTake
    \/ \E b \in Block : TickImport(b)
    \/ \E v \in Verifier : VerifierStep(v)
    \/ \E max \in 1..MaxDrain : Drain(max)
    \/ drainingSet # {} /\ DoneDrain(drainingSet \ chain)
    \/ RetryAllUnknown
    \/ Stop
    \/ \E b \in Block : ChainImport(b)
    \/ ClockTick

\* clear() while no verifier holds a block and nothing is draining.
QuietClear ==
    /\ \A v \in Verifier : job[v] = NoBlock
    /\ drainingSet = {}
    /\ Clear

QuietNext == OrderlyNext \/ QuietClear

\* clear() whenever its callers (restartSync, rewind) are run.
Next == OrderlyNext \/ Clear

Fairness == \A v \in Verifier : WF_vars(VerifierStep(v))

QuietSpec == Init /\ [][QuietNext]_vars /\ Fairness
Spec == Init /\ [][Next]_vars /\ Fairness

-----------------------------------------------------------------------------
(* Properties                                                              *)

\* BlockQueue::invariants(): m_readySet has as many blocks as the three queues.
Invariants == Cardinality(readySet) = Len(Pipeline)

\* What invariants() stands for: m_readySet is exactly what the three queues
\* hold, and they hold it once. import() trusts the set to reject duplicates
\* and to recognise parents that are on their way.
ReadyIsPipeline ==
    /\ readySet = ToSet(Pipeline)
    /\ IsInjective(Pipeline)

\* A block is in one place: blockStatus() asks the sets one after the other and
\* import() treats them as alternatives, although five different handlers move
\* blocks between them.
OnePlace ==
    /\ unknown = unknownSet
    /\ future = futureSet
    /\ readySet \cap (drainingSet \cup unknown \cup future \cup knownBad \cup chain) = {}
    /\ drainingSet \cap (unknown \cup future \cup knownBad) = {}
    /\ unknown \cap (future \cup knownBad \cup chain) = {}
    /\ knownBad \cap chain = {}

\* drain() gives blocks "in the correct order for insertion into the chain":
\* whatever thread verified what first, the parent of a block in the queues is
\* in the chain, on its way there ahead of the block, or known to be bad. Only
\* blocks released by retryAllUnknown() go without.
ParentFirst ==
    \A i \in DOMAIN Pipeline :
        \/ Parent[Pipeline[i]] \in chain \cup drainingSet \cup knownBad
        \/ \E j \in 1..(i - 1) : Pipeline[j] = Parent[Pipeline[i]]
        \/ Pipeline[i] \in forced

\* No block is handed to the chain on top of a bad parent: a verification that
\* fails, and a doneDrain() that reports one, take the children along, in
\* whichever queue these have got to.
VerifiedNotDoomed ==
    \A b \in ToSet(verified) : Parent[b] \in knownBad => b \in forced

\* m_unknown "insert once the block appears": no block waits there for a parent
\* that has already come, in the queues, in the chain or among the bad.
NoOrphanForgotten ==
    \A u \in unknown : Parent[u] \notin readySet \cup drainingSet \cup chain \cup knownBad

\* Each unfinished place in m_verifying belongs to one thread that is working
\* on it, and a thread without a place works on a block struck out as bad: no
\* place is abandoned, to block everything verified behind it.
PlacesAndJobs ==
    /\ \A e \in ToSet(verifying) : ~e.done => \E v \in Verifier : job[v] = e.block
    /\ \A v \in Verifier : job[v] # NoBlock =>
          \/ Placeholder(job[v]) \in ToSet(verifying)
          \/ job[v] \in knownBad
    /\ \A v, w \in Verifier : job[v] = job[w] /\ job[v] # NoBlock => v = w

\* The sum BlockChainSync adds to the chain's total difficulty never leaves out
\* a block of the queue, and what doneDrain() takes off is what drain() found.
DifficultyCovers ==
    /\ \A b \in readySet \cup drainingSet \cup unknown \cup future : difficulty[b] >= 1
    /\ \A b \in Block : drainingDifficulty[b] = IF b \in drainingSet THEN 1 ELSE 0

\* No lost wake-up: with work in m_unverified, not every thread sleeps.
SomeoneAwake ==
    unverified # <<>> /\ ~deleting => \E v \in Verifier : pc[v] # "asleep"

\* The queue implements BlockLifecycle: every step of every thread moves the
\* blocks between the statuses as promised there, or moves none.
Status(b) ==
    CASE b \in readySet -> "Ready"
      [] b \in drainingSet -> "Importing"
      [] b \in unknownSet -> "UnknownParent"
      [] b \in knownBad -> "Bad"
      [] b \in futureSet -> "Future"
      [] b \in chain \ drainingSet -> "Imported"
      [] OTHER -> "Unknown"

Lifecycle == INSTANCE BlockLifecycle
             WITH status <- [b \in Block |-> Status(b)], exempt <- forced

FollowsLifecycle == Lifecycle!Spec

\* Every block handed to the verifiers is taken up, until stop() is called.
UnverifiedTaken ==
    \A b \in Block :
        b \in ToSet(unverified) ~> (b \notin ToSet(unverified) \/ deleting)

\* The joins of stop() end: every thread leaves its loop.
StopEnds == deleting ~> \A v \in Verifier : pc[v] = "exited"
=============================================================================
