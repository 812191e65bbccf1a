-------------------------- MODULE ClientSyncProofs --------------------------
(***************************************************************************)
(* Proofs about ClientSync: whatever the verifiers, the network thread and *)
(* clear() do while the worker is inside sync(), no block turns bad        *)
(* without a reason, and no verified block waits unannounced.              *)
(***************************************************************************)
EXTENDS ClientSync, BlockOrderProofs

(***************************************************************************)
(* The inductive invariant                                                 *)
(*                                                                         *)
(* With clear() at any time much of what BlockQueueProofs shows is lost:   *)
(* the sets of the queue overlap, and a verifier may hold a block that is  *)
(* queued once more. This is what is left.                                 *)
(***************************************************************************)

\* The blocks in the three queues.
Queued == ToSet(verified) \cup BlocksOf(ToSet(verifying)) \cup ToSet(unverified)

\* Where a parent no longer stands in the way of its child.
Settled == stored \cup knownBad \cup badBlocks \cup dropped

ClientTypeOK ==
    /\ readySet \subseteq Block /\ drainingSet \subseteq Block /\ knownBad \subseteq Block
    /\ unknown \subseteq Block /\ forced \subseteq Block
    /\ pc \in [Verifier -> {"idle", "asleep", "busy", "notify", "exited"}]
    /\ job \in [Verifier -> Block \cup {NoBlock}]
    /\ \A v \in Verifier : pc[v] = "busy" => job[v] # NoBlock
    /\ drained \in Seq(Block) /\ badBlocks \subseteq Block
    /\ phase \in {"idle", "drain", "import", "assign"}
    /\ chain \subseteq stored

\* The queues hold a block once.
QueuedOnce == Queues(verified, verifying, unverified, Queued)

\* m_readySet has what the queues hold, but for a block whose verification failed
\* in a thread that took it before a clear() and that has been queued again.
ReadyQueued ==
    /\ readySet \subseteq Queued
    /\ Queued \ readySet \subseteq BadSeal \cap knownBad
    /\ unknown = unknownSet /\ unknown \cap Queued = {}

\* What a verifier has let pass has a good seal.
SealsGood ==
    /\ ToSet(verified) \cap BadSeal = {}
    /\ \A e \in ToSet(verifying) : e.done => e.block \notin BadSeal

\* The parent of a block is settled, or ahead of it, from the list the worker
\* imports from to the end of the queue.
WorkInOrder ==
    /\ Behind(drained, Settled, forced)
    /\ InOrder(verified, verifying, unverified, Settled \cup ToSet(drained), forced)
    /\ drainingSet \subseteq Settled \cup ToSet(drained)

\* What sync() reports is justified, and known to be bad after doneDrain().
ReportsJustified ==
    /\ phase # "import" => drained = <<>> /\ badBlocks \subseteq knownBad
    /\ \A b \in badBlocks :
          b \in BadExec \cup forced \/ Parent[b] \in knownBad \cup badBlocks \cup dropped

SyncInv ==
    /\ ClientTypeOK
    /\ QueuedOnce
    /\ ReadyQueued
    /\ SealsGood
    /\ WorkInOrder
    /\ ReportsJustified
    /\ KnownBadJustified

ClientInv == SyncInv /\ VerifiedAnnounced

LEMMA ClientInitInv == ClientInit => ClientInv
<1> SUFFICES ASSUME ClientInit
             PROVE  ClientInv
  OBVIOUS
<1> USE DEF ClientInit, Init
<1>1. ToSet(<<>>) = {} /\ BlocksOf({}) = {}
  BY DEF ToSet, BlocksOf
<1>2. ClientTypeOK
  BY DEF ClientTypeOK
<1>3. Queued = {}
  BY <1>1 DEF Queued
<1>4. QueuedOnce
  <2>1. OneEntryEach({})
    BY DEF OneEntryEach
  <2> QED
    BY <1>1, <1>3, <2>1, ListsEmpty DEF QueuedOnce, Queues
<1>5. ReadyQueued /\ SealsGood
  BY <1>1, <1>3 DEF ReadyQueued, SealsGood
<1>6. WorkInOrder
  BY NothingInOrder, BehindNothing DEF WorkInOrder
<1>7. ReportsJustified /\ KnownBadJustified /\ VerifiedAnnounced
  BY DEF ReportsJustified, KnownBadJustified, VerifiedAnnounced
<1> QED
  BY <1>2, <1>4, <1>5, <1>6, <1>7 DEF ClientInv, SyncInv

\* The queues by the sets they list.
LEMMA QueuedSets ==
    ASSUME QueuedOnce
    PROVE  \E V, U \in SUBSET Block, E \in SUBSET Entry :
              /\ Lists(verified, V) /\ ToSet(verified) = V
              /\ Lists(verifying, E) /\ ToSet(verifying) = E
              /\ Lists(unverified, U) /\ ToSet(unverified) = U
              /\ OneEntryEach(E)
              /\ V \cap BlocksOf(E) = {}
              /\ V \cap U = {}
              /\ BlocksOf(E) \cap U = {}
              /\ Queued = V \cup BlocksOf(E) \cup U
BY ListsToSet DEF QueuedOnce, Queues

LEMMA QueuedType ==
    ASSUME QueuedOnce
    PROVE  /\ verified \in Seq(Block) /\ verifying \in Seq(Entry) /\ unverified \in Seq(Block)
           /\ Queued \subseteq Block
BY QueuesType DEF QueuedOnce

\* The queues after a step: what they hold is Queued'.
LEMMA QueuedNext ==
    ASSUME NEW held, Queues(verified', verifying', unverified', held)
    PROVE  held = Queued' /\ QueuedOnce'
<1>1. PICK V \in SUBSET Block, U \in SUBSET Block, E \in SUBSET Entry :
         /\ Lists(verified', V) /\ ToSet(verified') = V
         /\ Lists(verifying', E) /\ ToSet(verifying') = E
         /\ Lists(unverified', U) /\ ToSet(unverified') = U
         /\ held = V \cup BlocksOf(E) \cup U
  BY ListsToSet DEF Queues
<1>2. held = Queued'
  BY <1>1 DEF Queued
<1> QED
  BY <1>2 DEF QueuedOnce

-----------------------------------------------------------------------------
(***************************************************************************)
(* Steps that leave the queues alone                                       *)
(***************************************************************************)

LEMMA QueueAlone ==
    ASSUME SyncInv, ClientTypeOK',
           UNCHANGED <<readySet, knownBad, unknown, unknownSet, queueVars, forced,
                       drained, badBlocks, stored, dropped>>,
           drainingSet' \subseteq drainingSet,
           phase' # "import" => drained = <<>> /\ badBlocks \subseteq knownBad
    PROVE  SyncInv'
<1> USE DEF queueVars
<1>1. Queued' = Queued /\ Settled' = Settled
  BY DEF Queued, Settled
<1>2. QueuedOnce' /\ ReadyQueued' /\ SealsGood'
  BY <1>1 DEF SyncInv, QueuedOnce, ReadyQueued, SealsGood
<1>3. WorkInOrder'
  BY <1>1 DEF SyncInv, WorkInOrder
<1>4. ReportsJustified' /\ KnownBadJustified'
  BY DEF SyncInv, ReportsJustified, KnownBadJustified
<1> QED
  BY <1>2, <1>3, <1>4 DEF SyncInv

\* sync() settles the block at the head of its list, one way or another.
LEMMA NextDrainedKeeps ==
    ASSUME SyncInv, NextDrained,
           UNCHANGED <<readySet, drainingSet, knownBad, unknown, unknownSet, queueVars,
                       forced, pc, job>>,
           badBlocks' \subseteq badBlocks \cup {Head(drained)},
           Settled \cup {Head(drained)} \subseteq Settled',
           stored \subseteq stored', dropped \subseteq dropped', chain' \subseteq stored',
           badBlocks \subseteq badBlocks',
           Head(drained) \in badBlocks' =>
               \/ Head(drained) \in badBlocks \cup BadExec
               \/ Parent[Head(drained)] \notin stored
    PROVE  SyncInv'
<1> DEFINE h == Head(drained)
<1>1. /\ phase = "import" /\ drained # <<>> /\ drained' = Tail(drained) /\ phase' = phase
      /\ drained \in Seq(Block)
  BY DEF NextDrained, SyncInv, ClientTypeOK
<1>2. /\ h \in Block /\ Tail(drained) \in Seq(Block)
      /\ Len(drained) \in Nat /\ 1 <= Len(drained)
      /\ SubSeq(drained, 1, 1) = <<h>> /\ SubSeq(drained, 1 + 1, Len(drained)) = Tail(drained)
      /\ ToSet(<<h>>) = {h} /\ <<h>> \in Seq(Block)
  BY <1>1, HeadAndTail
<1>3. drained[1] = h
  BY <1>1, <1>2
<1>4. Behind(drained, Settled, forced)
  BY DEF SyncInv, WorkInOrder
<1>5. Parent[h] \in Settled \/ h \in forced
  <2>1. 1 \in 1..Len(drained) /\ 1..(1 - 1) = {}
    BY <1>2
  <2> QED
    BY <1>3, <1>4, <2>1 DEF Behind
<1> HIDE DEF h
<1>6. ToSet(drained) \subseteq {h} \cup ToSet(drained')
  <2>1. ASSUME NEW i \in DOMAIN drained PROVE drained[i] \in {h} \cup ToSet(drained')
    <3>1. i \in 1..Len(drained) /\ DOMAIN Tail(drained) = 1..(Len(drained) - 1)
      BY <1>1, <1>2
    <3>2. CASE i = 1
      BY <1>3, <3>2
    <3>3. CASE i # 1
      <4>1. i - 1 \in DOMAIN Tail(drained) /\ Tail(drained)[i - 1] = drained[i]
        BY <1>1, <1>2, <3>1, <3>3
      <4> QED
        BY <1>1, <4>1 DEF ToSet
    <3> QED
      BY <3>2, <3>3
  <2> QED
    BY <2>1 DEF ToSet
<1>7. ClientTypeOK'
  BY <1>1, <1>2 DEF SyncInv, ClientTypeOK, h
<1>8. QueuedOnce' /\ ReadyQueued' /\ SealsGood'
  <2>1. Queued' = Queued
    BY DEF Queued, queueVars
  <2> QED
    BY <2>1 DEF SyncInv, QueuedOnce, ReadyQueued, SealsGood, queueVars
<1>9. WorkInOrder'
  <2>1. Settled \cup {h} \subseteq Settled'
    BY DEF h
  <2>2. Behind(drained', Settled', forced')
    <3>1. Behind(Tail(drained), Settled \cup {h}, forced)
      <4> DEFINE A == Settled
      <4>1. Behind(drained, A, forced)
        BY <1>4
      <4> HIDE DEF A
      <4>2. Behind(SubSeq(drained, 1 + 1, Len(drained)), A \cup ToSet(SubSeq(drained, 1, 1)), forced)
        BY <1>1, <1>2, <4>1, BehindCut
      <4> QED
        BY <1>2, <4>2 DEF A
    <3> QED
      BY <1>1, <2>1, <3>1, BehindMore
  <2>3. Settled \cup ToSet(drained) \subseteq Settled' \cup ToSet(drained')
    BY <1>6, <2>1
  <2>4. InOrder(verified', verifying', unverified', Settled' \cup ToSet(drained'), forced')
    <3>1. InOrder(verified, verifying, unverified, Settled \cup ToSet(drained), forced)
      BY DEF SyncInv, WorkInOrder
    <3>2. InOrder(verified, verifying, unverified, Settled' \cup ToSet(drained'), forced)
      BY <2>3, <3>1, InOrderMore
    <3> QED
      BY <3>2 DEF queueVars
  <2>5. drainingSet' \subseteq Settled' \cup ToSet(drained')
    BY <2>3 DEF SyncInv, WorkInOrder
  <2> QED
    BY <2>2, <2>4, <2>5 DEF WorkInOrder
<1>10. ReportsJustified'
  <2>1. h \in badBlocks' /\ h \notin badBlocks =>
           h \in BadExec \cup forced \/ Parent[h] \in knownBad \cup badBlocks \cup dropped
    BY <1>5 DEF Settled, h
  <2> QED
    BY <1>1, <2>1 DEF SyncInv, ReportsJustified, h
<1>11. KnownBadJustified'
  BY DEF SyncInv, KnownBadJustified
<1> QED
  BY <1>7, <1>8, <1>9, <1>10, <1>11 DEF SyncInv

LEMMA ImportOneKeeps ==
    ASSUME SyncInv, ImportOne
    PROVE  SyncInv'
<1> USE DEF queueVars, setVars, waitVars, threadVars, bqVars, vars
<1>1. UNCHANGED <<readySet, drainingSet, knownBad, unknown, unknownSet, queueVars,
                  forced, pc, job>>
  BY DEF ImportOne, AlreadyHaveBlock, UnknownParent, FutureTime, TransientError,
         ExecutionFails, Inserted, ChainUnchanged
<1>2. NextDrained
  BY DEF ImportOne, AlreadyHaveBlock, UnknownParent, FutureTime, TransientError,
         ExecutionFails, Inserted
<1>3. chain \subseteq stored
  BY DEF SyncInv, ClientTypeOK
<1>4. CASE AlreadyHaveBlock
  <2>1. UNCHANGED <<badBlocks, dropped, stored, chain>> /\ Head(drained) \in stored
    BY <1>3, <1>4 DEF AlreadyHaveBlock, ChainUnchanged
  <2> QED
    BY <1>1, <1>2, <1>3, <2>1, NextDrainedKeeps DEF Settled
<1>5. CASE UnknownParent
  <2>1. /\ badBlocks' = badBlocks \cup {Head(drained)} /\ Parent[Head(drained)] \notin stored
        /\ UNCHANGED <<dropped, stored, chain>>
    BY <1>5 DEF UnknownParent, ChainUnchanged
  <2> QED
    BY <1>1, <1>2, <1>3, <2>1, NextDrainedKeeps DEF Settled
<1>6. CASE FutureTime \/ TransientError
  <2>1. dropped' = dropped \cup {Head(drained)} /\ UNCHANGED <<badBlocks, stored, chain>>
    BY <1>6 DEF FutureTime, TransientError, ChainUnchanged
  <2> QED
    BY <1>1, <1>2, <1>3, <2>1, NextDrainedKeeps DEF Settled
<1>7. CASE ExecutionFails
  <2>1. /\ badBlocks' = badBlocks \cup {Head(drained)} /\ Head(drained) \in BadExec
        /\ UNCHANGED <<dropped, stored, chain>>
    BY <1>7 DEF ExecutionFails, ChainUnchanged
  <2> QED
    BY <1>1, <1>2, <1>3, <2>1, NextDrainedKeeps DEF Settled
<1>8. CASE Inserted
  <2>1. /\ stored' = stored \cup {Head(drained)} /\ chain' \subseteq stored'
        /\ UNCHANGED <<badBlocks, dropped>>
    BY <1>8 DEF Inserted, UpTo
  <2> QED
    BY <1>1, <1>2, <1>3, <2>1, NextDrainedKeeps DEF Settled
<1> QED
  BY <1>4, <1>5, <1>6, <1>7, <1>8 DEF ImportOne

-----------------------------------------------------------------------------
(***************************************************************************)
(* updateBad                                                               *)
(***************************************************************************)

\* A block is struck out because its parent is bad, or because it is bad itself.
LEMMA StruckOutJustified ==
    ASSUME QueuedOnce, NEW bad \in SUBSET Block, NEW S \in SUBSET Block,
           IsStruckOut(S, bad), StrikeOut(S, bad)
    PROVE  \A b \in S : b \in knownBad \cup bad \/ Parent[b] \in knownBad'
<1>1. knownBad' = knownBad \cup bad \cup S
  BY DEF StrikeOut
<1>2. \A b \in knownBad \cup bad : Placeholder(b).block = b
  BY DEF Placeholder
<1> QED
  BY <1>1, <1>2 DEF IsStruckOut

LEMMA StrikeOutKeepsSync ==
    ASSUME SyncInv, NEW bad \in SUBSET Block, NEW S \in SUBSET Block,
           IsStruckOut(S, bad), StrikeOut(S, bad),
           \A b \in bad : \/ b \in BadExec \cup forced
                          \/ Parent[b] \in knownBad \cup bad \cup dropped,
           drainingSet' \subseteq drainingSet,
           UNCHANGED <<pc, job, chain, forced, drained, badBlocks, stored, dropped>>,
           phase' \in {phase, "assign"},
           phase' # phase => drained = <<>> /\ badBlocks \subseteq bad
    PROVE  SyncInv'
<1>1. QueuedOnce /\ unknown = unknownSet /\ unknown \cap Queued = {}
  BY DEF SyncInv, ReadyQueued
<1>2. /\ Queues(verified', verifying', unverified', Queued \ S)
      /\ S \subseteq unknown \cup Queued
      /\ readySet' = readySet \ S
      /\ knownBad' = knownBad \cup bad \cup S
      /\ unknown' = unknownSet'
      /\ unknown' \subseteq unknown \ S
      /\ \A e \in ToSet(verifying) \ ToSet(verifying') : e.block \in S
  <2>1. PICK held : held = Queued
    OBVIOUS
  <2>2. Queues(verified, verifying, unverified, held) /\ unknown \cap held = {}
    BY <1>1, <2>1 DEF QueuedOnce
  <2>3. /\ Queues(verified', verifying', unverified', held \ S)
        /\ S \subseteq unknown \cup held
        /\ readySet' = readySet \ S
        /\ knownBad' = knownBad \cup bad \cup S
        /\ unknown' = unknownSet'
        /\ unknown' \subseteq unknown \ S
        /\ \A u \in unknown' : Parent[u] \notin S \cup bad
        /\ ToSet(verifying') \subseteq ToSet(verifying)
        /\ \A e \in ToSet(verifying) \ ToSet(verifying') : e.block \in S
        /\ unverified' # <<>> => unverified # <<>>
    BY <1>1, <2>2, StrikeOutTakes
  <2> QED
    BY <2>1, <2>3
<1>3. Queued' = Queued \ S /\ QueuedOnce'
  BY <1>2, QueuedNext
<1>4. PICK V \in SUBSET Block, U \in SUBSET Block, E \in SUBSET Entry :
         /\ Lists(verified, V) /\ ToSet(verified) = V
         /\ Lists(verifying, E) /\ ToSet(verifying) = E
  BY <1>1, QueuedSets
<1> DEFINE gone == {e \in ToSet(verifying) :
                       \/ Parent[e.block] \in knownBad \cup bad \cup S
                       \/ e \in {Placeholder(b) : b \in knownBad \cup bad \cup S}}
<1>5. /\ verified' = Without(verified, S)
      /\ unverified' = Without(unverified, S)
      /\ verifying' = Without(verifying, gone)
  BY DEF StrikeOut
<1> HIDE DEF gone
<1>6. ToSet(verified') = V \ S /\ ToSet(verifying') = E \ gone
  <2>1. Lists(verified', V \ S)
    BY <1>4, <1>5, ListsWithout
  <2>2. Lists(verifying', E \ gone)
    BY <1>4, <1>5, ListsWithout
  <2> QED
    BY <2>1, <2>2, ListsToSet
<1>7. \A e \in E \cap gone : e.block \in S
  BY <1>2, <1>4, <1>6
<1>8. ClientTypeOK'
  BY <1>2, <1>3 DEF SyncInv, ClientTypeOK
<1>9. ReadyQueued'
  BY <1>1, <1>2, <1>3 DEF SyncInv, ReadyQueued
<1>10. SealsGood'
  BY <1>4, <1>6 DEF SyncInv, SealsGood
<1>11. Settled \cup S \subseteq Settled'
  BY <1>2 DEF Settled
<1>12. WorkInOrder'
  <2> DEFINE A == Settled \cup ToSet(drained)
  <2>1. InOrder(verified, verifying, unverified, A, forced)
    BY DEF SyncInv, WorkInOrder
  <2>2. verified \in Seq(Block) /\ unverified \in Seq(Block)
    BY <1>1, QueuedType
  <2>3. A \cup S \subseteq Settled' \cup ToSet(drained')
    BY <1>11
  <2> HIDE DEF A
  <2>4. InOrder(verified', verifying', unverified', A \cup S, forced)
    BY <1>4, <1>5, <1>7, <2>1, <2>2, StrikeOutInOrder
  <2>5. InOrder(verified', verifying', unverified', Settled' \cup ToSet(drained'), forced)
    BY <2>3, <2>4, InOrderMore
  <2>6. Behind(drained, Settled', forced)
    BY <1>11, BehindMore DEF SyncInv, WorkInOrder
  <2>7. drainingSet' \subseteq Settled' \cup ToSet(drained')
    BY <1>11 DEF SyncInv, WorkInOrder
  <2> QED
    BY <2>5, <2>6, <2>7 DEF WorkInOrder
<1>13. ReportsJustified'
  BY <1>2 DEF SyncInv, ReportsJustified
<1>14. KnownBadJustified'
  <2>1. \A b \in S : b \in knownBad \cup bad \/ Parent[b] \in knownBad'
    BY <1>1, StruckOutJustified
  <2> QED
    BY <1>2, <2>1 DEF SyncInv, KnownBadJustified
<1> QED
  BY <1>3, <1>8, <1>9, <1>10, <1>12, <1>13, <1>14 DEF SyncInv

\* doneDrain(): the reports of sync() are bad from now on.
LEMMA SyncDoneKeeps ==
    ASSUME SyncInv, SyncDone
    PROVE  SyncInv'
<1>1. /\ phase = "import" /\ drained = <<>> /\ DoneDrain(badBlocks) /\ phase' = "assign"
      /\ drainingSet' = {}
      /\ UNCHANGED <<drained, badBlocks, stored, dropped, pc, job, chain, forced>>
  BY DEF SyncDone, DoneDrain, threadVars
<1>2. CASE badBlocks = {}
  <2>1. UNCHANGED <<readySet, knownBad, unknown, unknownSet, queueVars>>
    BY <1>1, <1>2 DEF DoneDrain
  <2>2. ClientTypeOK'
    BY <1>1, <2>1 DEF SyncInv, ClientTypeOK
  <2> QED
    BY <1>1, <1>2, <2>1, <2>2, QueueAlone
<1>3. CASE badBlocks # {}
  <2>1. PICK S \in SUBSET Block : IsStruckOut(S, badBlocks) /\ StrikeOut(S, badBlocks)
    BY <1>1, <1>3 DEF DoneDrain
  <2>2. /\ badBlocks \in SUBSET Block
        /\ \A b \in badBlocks : \/ b \in BadExec \cup forced
                                \/ Parent[b] \in knownBad \cup badBlocks \cup dropped
    BY DEF SyncInv, ClientTypeOK, ReportsJustified
  <2> QED
    BY <1>1, <2>1, <2>2, StrikeOutKeepsSync
<1> QED
  BY <1>2, <1>3

LEMMA ImportBadChainKeepsSync ==
    ASSUME SyncInv, NEW b \in Block, ImportBadChain(b),
           UNCHANGED <<now, chain, forced, clientVars>>
    PROVE  SyncInv'
<1>1. PICK S \in SUBSET Block : IsStruckOut(S, {b}) /\ StrikeOut(S, {b})
  BY DEF ImportBadChain
<1>2. /\ Parent[b] \in knownBad /\ {b} \in SUBSET Block
      /\ UNCHANGED <<drainingSet, pc, job>>
  BY DEF ImportBadChain, threadVars
<1> QED
  BY <1>1, <1>2, StrikeOutKeepsSync DEF clientVars

-----------------------------------------------------------------------------
(***************************************************************************)
(* verifierBody()                                                          *)
(***************************************************************************)

\* What drainVerified_WITH_BOTH_LOCKS refuses has a bad parent.
LEMMA RefusedJustified ==
    ASSUME NEW E \in SUBSET Entry, NEW entries, Lists(entries, E), OneEntryEach(E),
           NEW ready, NEW bad, DrainVerified(entries, ready, bad)
    PROVE  \A b \in knownBad' \ bad : Parent[b] \in knownBad'
<1> DEFINE n == FinishedPrefix(entries)
           bs == Blocks(entries)
           front == SubSeq(bs, 1, n)
<1>1. /\ entries \in Seq(Entry) /\ Len(entries) \in Nat
  BY ListsElements, SeqMonotonic
<1>2. n \in Nat /\ n <= Len(entries)
  BY <1>1, FinishedPrefixDone
<1>3. bs \in Seq(Block) /\ Len(bs) = Len(entries)
  BY BlocksList
<1>4. PICK refused \in SUBSET ToSet(front) :
         /\ \A i \in 1..n :
               front[i] \in refused <=>
                   Parent[front[i]] \in bad \cup
                       {front[j] : j \in {k \in 1..(i - 1) : front[k] \in refused}}
         /\ knownBad' = bad \cup refused
  BY DEF DrainVerified
<1> HIDE DEF n, bs
<1>5. DOMAIN front = 1..n
  BY <1>2, <1>3, SubSeqProperties
<1> HIDE DEF front
<1>6. ASSUME NEW b \in refused PROVE Parent[b] \in bad \cup refused
  <2>1. PICK i \in 1..n : front[i] = b
    BY <1>5 DEF ToSet
  <2>2. Parent[b] \in bad \/ \E k \in 1..(i - 1) : front[k] \in refused /\ Parent[b] = front[k]
    BY <1>4, <2>1
  <2> QED
    BY <2>2
<1> QED
  BY <1>4, <1>6

\* A job has ended: entries is m_verifying without the blocks of gone.
LEMMA DrainVerifiedKeepsSync ==
    ASSUME SyncInv, NEW D \in SUBSET Entry, NEW entries, Lists(entries, D), OneEntryEach(D),
           NEW gone \in SUBSET BadSeal,
           BlocksOf(D) \subseteq BlocksOf(ToSet(verifying)),
           BlocksOf(ToSet(verifying)) \subseteq BlocksOf(D) \cup gone,
           \A e \in D : e.done => e.block \notin BadSeal,
           Behind(Blocks(entries), Settled \cup ToSet(drained) \cup ToSet(verified) \cup gone, forced),
           DrainVerified(entries, readySet \ gone, knownBad \cup gone),
           pc' \in [Verifier -> {"idle", "asleep", "busy", "notify", "exited"}],
           job' \in [Verifier -> Block \cup {NoBlock}],
           \A v \in Verifier : pc'[v] = "busy" => job'[v] # NoBlock,
           UNCHANGED <<drainingSet, unknown, unknownSet, unverified, chain, forced,
                       phase, drained, badBlocks, stored, dropped>>
    PROVE  SyncInv'
<1>1. PICK V \in SUBSET Block, U \in SUBSET Block, E \in SUBSET Entry :
         /\ Lists(verified, V) /\ ToSet(verified) = V
         /\ Lists(verifying, E) /\ ToSet(verifying) = E
         /\ Lists(unverified, U) /\ ToSet(unverified) = U
         /\ OneEntryEach(E)
         /\ V \cap BlocksOf(E) = {}
         /\ V \cap U = {}
         /\ BlocksOf(E) \cap U = {}
         /\ Queued = V \cup BlocksOf(E) \cup U
  BY QueuedSets DEF SyncInv
<1>2. PICK F \in SUBSET D : \E refused \in SUBSET BlocksOf(F) :
         /\ \A e \in F : e.done
         /\ Lists(verifying', D \ F)
         /\ Lists(verified', V \cup (BlocksOf(F) \ refused))
         /\ readySet' = (readySet \ gone) \ refused
         /\ knownBad' = (knownBad \cup gone) \cup refused
  <2>1. V \cap BlocksOf(D) = {}
    BY <1>1
  <2>2. Moved(V, D, readySet \ gone, knownBad \cup gone)
    BY <1>1, <2>1, DrainVerifiedMoves
  <2> QED
    BY <2>2 DEF Moved
<1>3. PICK refused \in SUBSET BlocksOf(F) :
         /\ \A e \in F : e.done
         /\ Lists(verifying', D \ F)
         /\ Lists(verified', V \cup (BlocksOf(F) \ refused))
         /\ readySet' = (readySet \ gone) \ refused
         /\ knownBad' = (knownBad \cup gone) \cup refused
  BY <1>2
<1> DEFINE W == V \cup (BlocksOf(F) \ refused)
<1>4. /\ BlocksOf(D) = BlocksOf(F) \cup BlocksOf(D \ F)
      /\ BlocksOf(F) \cap BlocksOf(D \ F) = {}
      /\ OneEntryEach(D \ F)
      /\ BlocksOf(F) \subseteq Block
  <2>1. BlocksOf(F) \subseteq Block
    BY EntryFields DEF BlocksOf
  <2> QED
    BY <2>1 DEF BlocksOf, OneEntryEach
<1>5. ToSet(verified') = W /\ ToSet(verifying') = D \ F
  BY <1>3, ListsToSet
<1>6. Queues(verified', verifying', unverified', W \cup BlocksOf(D \ F) \cup U)
  <2>1. /\ W \cap BlocksOf(D \ F) = {}
        /\ W \cap U = {}
        /\ BlocksOf(D \ F) \cap U = {}
        /\ W \in SUBSET Block /\ D \ F \in SUBSET Entry
    BY <1>1, <1>4
  <2>2. Lists(verified', W) /\ Lists(verifying', D \ F) /\ Lists(unverified', U)
    BY <1>1, <1>3
  <2> HIDE DEF W
  <2> QED
    BY <1>4, <2>1, <2>2 DEF Queues
<1>7. QueuedOnce' /\ Queued' = W \cup BlocksOf(D \ F) \cup U
  BY <1>6, QueuedNext
<1>8. /\ Queued' \subseteq Queued \ refused
      /\ Queued \subseteq Queued' \cup refused \cup gone
  BY <1>1, <1>4, <1>7
<1>9. \A b \in BlocksOf(F) : b \notin BadSeal
  BY <1>3 DEF BlocksOf
<1>10. ClientTypeOK'
  BY <1>3, <1>4, BlockAssumption DEF SyncInv, ClientTypeOK
<1>11. ReadyQueued'
  <2>1. /\ readySet \subseteq Queued /\ Queued \ readySet \subseteq BadSeal \cap knownBad
        /\ unknown = unknownSet /\ unknown \cap Queued = {}
    BY DEF SyncInv, ReadyQueued
  <2> QED
    BY <1>3, <1>8, <2>1 DEF ReadyQueued
<1>12. SealsGood'
  BY <1>1, <1>5, <1>9 DEF SyncInv, SealsGood
<1>13. Settled \cup gone \cup knownBad' \subseteq Settled'
  BY <1>3 DEF Settled
<1>14. WorkInOrder'
  <2> DEFINE A == Settled \cup ToSet(drained) \cup gone
             C == Settled \cup ToSet(drained)
             B == Settled' \cup ToSet(drained')
  <2>1. InOrder(verified, verifying, unverified, C, forced)
    BY DEF SyncInv, WorkInOrder
  <2>2. verified \in Seq(Block)
    BY QueuedType DEF SyncInv
  <2>3. A \cup knownBad' \subseteq B
    BY <1>13
  <2>4. /\ C \subseteq A
        /\ C \cup ToSet(verified) \cup BlocksOf(ToSet(verifying))
             \subseteq A \cup ToSet(verified) \cup BlocksOf(D)
        /\ Settled \cup ToSet(drained) \cup ToSet(verified) \cup gone = A \cup ToSet(verified)
    OBVIOUS
  <2>5. B = Settled' \cup ToSet(drained')
    OBVIOUS
  <2>6. Behind(Blocks(entries), A \cup ToSet(verified), forced)
    BY <2>4
  <2>7. PICK bad : bad = knownBad \cup gone
    OBVIOUS
  <2>8. PICK ready : ready = readySet \ gone
    OBVIOUS
  <2> HIDE DEF A, B, C
  <2>9. /\ Behind(verified, A, forced)
        /\ Behind(unverified, A \cup ToSet(verified) \cup BlocksOf(D), forced)
    BY <2>1, <2>4, BehindMore DEF InOrder
  <2>10. InOrder(verified', verifying', unverified', B, forced)
    <3>1. DrainVerified(entries, ready, bad)
      BY <2>7, <2>8
    <3> QED
      BY <2>2, <2>3, <2>6, <2>9, <3>1, DrainVerifiedInOrder
  <2>11. Behind(drained, Settled', forced)
    <3>1. Settled \subseteq Settled'
      BY <1>13
    <3> QED
      BY <3>1, BehindMore DEF SyncInv, WorkInOrder
  <2>12. drainingSet' \subseteq Settled' \cup ToSet(drained')
    BY <1>13 DEF SyncInv, WorkInOrder
  <2> QED
    BY <2>5, <2>10, <2>11, <2>12 DEF WorkInOrder
<1>15. ReportsJustified'
  BY <1>3 DEF SyncInv, ReportsJustified
<1>16. KnownBadJustified'
  <2>1. \A b \in knownBad' \ (knownBad \cup gone) : Parent[b] \in knownBad'
    BY RefusedJustified
  <2> QED
    BY <1>3, <2>1 DEF SyncInv, KnownBadJustified
<1> QED
  BY <1>7, <1>10, <1>11, <1>12, <1>14, <1>15, <1>16 DEF SyncInv

LEMMA VerifierFailKeepsSync ==
    ASSUME SyncInv, NEW v \in Verifier, VerifierFail(v),
           UNCHANGED <<phase, drained, badBlocks, stored, dropped>>
    PROVE  SyncInv'
<1> DEFINE b == job[v]
           p == Placeholder(b)
           entries == Without(verifying, {p})
<1>1. /\ b \in BadSeal
      /\ DrainVerified(entries, readySet \ {b}, knownBad \cup {b})
      /\ pc' = [pc EXCEPT ![v] = "idle"]
      /\ job' = [job EXCEPT ![v] = NoBlock]
      /\ UNCHANGED <<drainingSet, unknown, unknownSet, unverified, chain, forced>>
  BY DEF VerifierFail, waitVars
<1>2. PICK E \in SUBSET Entry :
         /\ Lists(verifying, E) /\ ToSet(verifying) = E
         /\ OneEntryEach(E)
  BY QueuedSets DEF SyncInv
<1>3. b \in Block /\ p.block = b
  BY <1>1, BlockAssumption, PlaceholderFields
<1> DEFINE D == E \ {p}
<1>4. Lists(entries, D)
  BY <1>2, ListsWithout
<1>5. /\ D \in SUBSET Entry /\ OneEntryEach(D)
      /\ BlocksOf(D) \subseteq BlocksOf(E)
      /\ BlocksOf(E) \subseteq BlocksOf(D) \cup {b}
      /\ \A e \in D : e.done => e.block \notin BadSeal
  <2> HIDE DEF p, b
  <2> QED
    BY <1>2, <1>3 DEF BlocksOf, OneEntryEach, SyncInv, SealsGood
<1>6. Behind(Blocks(entries), Settled \cup ToSet(drained) \cup ToSet(verified) \cup {b}, forced)
  <2> DEFINE A == Settled \cup ToSet(drained) \cup ToSet(verified)
  <2>1. Behind(Blocks(verifying), A, forced)
    BY DEF SyncInv, WorkInOrder, InOrder
  <2>2. \A e \in E \cap {p} : e.block \in {b}
    BY <1>3
  <2> HIDE DEF A, p, b
  <2> QED
    BY <1>2, <2>1, <2>2, BehindEntries DEF A
<1>7. /\ {b} \in SUBSET BadSeal
      /\ pc' \in [Verifier -> {"idle", "asleep", "busy", "notify", "exited"}]
      /\ job' \in [Verifier -> Block \cup {NoBlock}]
      /\ \A w \in Verifier : pc'[w] = "busy" => job'[w] # NoBlock
  BY <1>1 DEF SyncInv, ClientTypeOK
<1>8. /\ BlocksOf(D) \subseteq BlocksOf(ToSet(verifying))
      /\ BlocksOf(ToSet(verifying)) \subseteq BlocksOf(D) \cup {b}
  BY <1>2, <1>5
<1> HIDE DEF b, p, entries, D
<1> QED
  BY <1>1, <1>4, <1>5, <1>6, <1>7, <1>8, DrainVerifiedKeepsSync

LEMMA VerifierSucceedKeepsSync ==
    ASSUME SyncInv, NEW v \in Verifier, VerifierSucceed(v),
           UNCHANGED <<phase, drained, badBlocks, stored, dropped>>
    PROVE  SyncInv'
<1> DEFINE b == job[v]
           entries == Finish(verifying, b)
<1>1. /\ b \notin BadSeal
      /\ job' = [job EXCEPT ![v] = NoBlock]
      /\ pc' = [pc EXCEPT ![v] = "idle"] \/ pc' = [pc EXCEPT ![v] = "notify"]
      /\ UNCHANGED <<drainingSet, unknown, unknownSet, unverified, chain, forced>>
      /\ \/ DrainVerified(entries, readySet, knownBad)
         \/ verifying' = entries /\ UNCHANGED <<verified, readySet, knownBad>>
  BY DEF VerifierSucceed, waitVars
<1>2. PICK V \in SUBSET Block, U \in SUBSET Block, E \in SUBSET Entry :
         /\ Lists(verified, V) /\ ToSet(verified) = V
         /\ Lists(verifying, E) /\ ToSet(verifying) = E
         /\ Lists(unverified, U) /\ ToSet(unverified) = U
         /\ OneEntryEach(E)
         /\ V \cap BlocksOf(E) = {}
         /\ V \cap U = {}
         /\ BlocksOf(E) \cap U = {}
         /\ Queued = V \cup BlocksOf(E) \cup U
  BY QueuedSets DEF SyncInv
<1>3. /\ pc' \in [Verifier -> {"idle", "asleep", "busy", "notify", "exited"}]
      /\ job' \in [Verifier -> Block \cup {NoBlock}]
      /\ \A w \in Verifier : pc'[w] = "busy" => job'[w] # NoBlock
      /\ b \in Block
  BY <1>1 DEF VerifierSucceed, SyncInv, ClientTypeOK
<1> DEFINE G == IF Placeholder(b) \in E THEN (E \ {Placeholder(b)}) \cup {Finished(b)} ELSE E
<1>4. /\ G \subseteq Entry
      /\ OneEntryEach(G)
      /\ BlocksOf(G) = BlocksOf(E)
      /\ Lists(entries, G)
  BY <1>2, <1>3, FinishList
<1>5. Blocks(entries) = Blocks(verifying)
  BY <1>2, <1>3, BlocksOfFinish
<1>6. \A e \in G : e.done => e.block \notin BadSeal
  <2>1. Finished(b).block = b
    BY DEF Finished
  <2> QED
    BY <1>1, <1>2, <2>1 DEF SyncInv, SealsGood
<1> HIDE DEF b, entries, G
<1>7. CASE DrainVerified(entries, readySet, knownBad)
  <2>1. Behind(Blocks(entries), Settled \cup ToSet(drained) \cup ToSet(verified) \cup {}, forced)
    BY <1>5 DEF SyncInv, WorkInOrder, InOrder
  <2>2. /\ DrainVerified(entries, readySet \ {}, knownBad \cup {})
        /\ {} \in SUBSET BadSeal /\ G \in SUBSET Entry
        /\ BlocksOf(G) \subseteq BlocksOf(ToSet(verifying))
        /\ BlocksOf(ToSet(verifying)) \subseteq BlocksOf(G) \cup {}
    BY <1>2, <1>4, <1>7
  <2> QED
    BY <1>1, <1>3, <1>4, <1>6, <2>1, <2>2, DrainVerifiedKeepsSync
<1>8. CASE verifying' = entries /\ UNCHANGED <<verified, readySet, knownBad>>
  <2>1. ToSet(verifying') = G /\ Lists(verifying', G)
    BY <1>4, <1>8, ListsToSet
  <2>2. Queues(verified', verifying', unverified', Queued)
    <3>1. Lists(verified', V) /\ Lists(unverified', U)
      BY <1>1, <1>2, <1>8
    <3>2. /\ V \cap BlocksOf(G) = {}
          /\ BlocksOf(G) \cap U = {}
          /\ Queued = V \cup BlocksOf(G) \cup U
          /\ G \in SUBSET Entry
      BY <1>2, <1>4
    <3> QED
      BY <1>2, <1>4, <2>1, <3>1, <3>2 DEF Queues
  <2>3. QueuedOnce' /\ Queued' = Queued
    <3>1. PICK held : held = Queued
      OBVIOUS
    <3> QED
      BY <2>2, <3>1, QueuedNext
  <2>4. Settled' = Settled
    BY <1>8 DEF Settled
  <2>5. ClientTypeOK' /\ ReadyQueued'
    BY <1>1, <1>3, <1>8, <2>3 DEF SyncInv, ClientTypeOK, ReadyQueued
  <2>6. SealsGood'
    BY <1>6, <1>8, <2>1 DEF SyncInv, SealsGood
  <2>7. BlocksOf(ToSet(verifying')) = BlocksOf(ToSet(verifying))
    BY <1>2, <1>4, <2>1
  <2>8. WorkInOrder'
    BY <1>1, <1>5, <1>8, <2>4, <2>7 DEF SyncInv, WorkInOrder, InOrder
  <2>9. ReportsJustified' /\ KnownBadJustified'
    BY <1>1, <1>8 DEF SyncInv, ReportsJustified, KnownBadJustified
  <2> QED
    BY <2>3, <2>5, <2>6, <2>8, <2>9 DEF SyncInv
<1> QED
  BY <1>1, <1>7, <1>8

LEMMA VerifierTakeKeepsSync ==
    ASSUME SyncInv, NEW v \in Verifier, VerifierTake(v),
           UNCHANGED <<phase, drained, badBlocks, stored, dropped>>
    PROVE  SyncInv'
<1> DEFINE b == Head(unverified)
           p == Placeholder(b)
<1>1. /\ unverified # <<>>
      /\ unverified' = Tail(unverified)
      /\ verifying' = Append(verifying, p)
      /\ pc' = [pc EXCEPT ![v] = "busy"]
      /\ job' = [job EXCEPT ![v] = b]
      /\ UNCHANGED <<readySet, drainingSet, knownBad, unknown, unknownSet, verified, chain, forced>>
  BY DEF VerifierTake, setVars, waitVars
<1>2. PICK V \in SUBSET Block, U \in SUBSET Block, E \in SUBSET Entry :
         /\ Lists(verified, V) /\ ToSet(verified) = V
         /\ Lists(verifying, E) /\ ToSet(verifying) = E
         /\ Lists(unverified, U) /\ ToSet(unverified) = U
         /\ OneEntryEach(E)
         /\ V \cap BlocksOf(E) = {}
         /\ V \cap U = {}
         /\ BlocksOf(E) \cap U = {}
         /\ Queued = V \cup BlocksOf(E) \cup U
  BY QueuedSets DEF SyncInv
<1>3. WorkInOrder'
  <2> DEFINE A == Settled \cup ToSet(drained)
  <2>1. InOrder(verified, verifying, unverified, A, forced)
    BY DEF SyncInv, WorkInOrder
  <2>2. verified \in Seq(Block) /\ verifying \in Seq(Entry) /\ unverified \in Seq(Block)
    BY QueuedType DEF SyncInv
  <2>3. A = Settled' \cup ToSet(drained') /\ Settled' = Settled
    BY <1>1 DEF Settled
  <2> HIDE DEF A
  <2>4. InOrder(verified', verifying', unverified', A, forced)
    BY <1>1, <2>1, <2>2, TakeInOrder
  <2> QED
    BY <1>1, <2>3, <2>4 DEF SyncInv, WorkInOrder
<1>4. b \in U /\ Lists(unverified', U \ {b})
  BY <1>1, <1>2, ListsTail
<1> HIDE DEF b
<1>5. b \in Block /\ b # NoBlock /\ p \in Entry /\ p.block = b /\ ~p.done
  BY <1>4, PlaceholderFields, BlockAssumption
<1>6. b \notin BlocksOf(E) /\ p \notin E
  BY <1>2, <1>4, <1>5 DEF BlocksOf
<1> HIDE DEF p
<1>7. Lists(verifying', E \cup {p}) /\ ToSet(verifying') = E \cup {p}
  BY <1>1, <1>2, <1>6, ListsAppend, ListsToSet
<1>8. BlocksOf(E \cup {p}) = BlocksOf(E) \cup {b} /\ OneEntryEach(E \cup {p})
  BY <1>2, <1>5, <1>6 DEF BlocksOf, OneEntryEach
<1>9. Queues(verified', verifying', unverified', Queued)
  <2>1. /\ V \cap (BlocksOf(E) \cup {b}) = {}
        /\ V \cap (U \ {b}) = {}
        /\ (BlocksOf(E) \cup {b}) \cap (U \ {b}) = {}
        /\ Queued = V \cup (BlocksOf(E) \cup {b}) \cup (U \ {b})
        /\ U \ {b} \in SUBSET Block
        /\ E \cup {p} \in SUBSET Entry
    BY <1>2, <1>4, <1>5
  <2>2. Lists(verified', V)
    BY <1>1, <1>2
  <2> QED
    BY <1>4, <1>7, <1>8, <2>1, <2>2 DEF Queues
<1>10. QueuedOnce' /\ Queued' = Queued
  <2>1. PICK held : held = Queued
    OBVIOUS
  <2> QED
    BY <1>9, <2>1, QueuedNext
<1>11. ClientTypeOK' /\ ReadyQueued'
  BY <1>1, <1>5, <1>10 DEF SyncInv, ClientTypeOK, ReadyQueued
<1>12. SealsGood'
  BY <1>1, <1>2, <1>5, <1>7 DEF SyncInv, SealsGood
<1>13. ReportsJustified' /\ KnownBadJustified'
  BY <1>1 DEF SyncInv, ReportsJustified, KnownBadJustified
<1> QED
  BY <1>3, <1>10, <1>11, <1>12, <1>13 DEF SyncInv

\* pc after a notify_one or a notify_all.
LEMMA WokenThreads ==
    ASSUME SyncInv, pc' \in WakeOne(pc) \/ pc' = WakeAll(pc), UNCHANGED job
    PROVE  /\ pc' \in [Verifier -> {"idle", "asleep", "busy", "notify", "exited"}]
           /\ \A v \in Verifier : pc'[v] = "busy" => job'[v] # NoBlock
<1>1. pc \in [Verifier -> {"idle", "asleep", "busy", "notify", "exited"}]
  BY DEF SyncInv, ClientTypeOK
<1>2. CASE pc' \in WakeOne(pc)
  BY <1>1, <1>2, WakeOneWakes DEF SyncInv, ClientTypeOK
<1>3. CASE pc' = WakeAll(pc)
  BY <1>1, <1>3, WakeAllWakes DEF SyncInv, ClientTypeOK
<1> QED
  BY <1>2, <1>3

LEMMA VerifierStepKeepsSync ==
    ASSUME SyncInv, NEW v \in Verifier, VerifierStep(v),
           UNCHANGED <<phase, drained, badBlocks, stored, dropped>>
    PROVE  SyncInv'
<1> USE DEF setVars, waitVars, queueVars
<1>1. CASE VerifierWait(v) \/ OnReady(v) \/ VerifierExit(v)
  <2>1. /\ UNCHANGED <<readySet, drainingSet, knownBad, unknown, unknownSet, queueVars,
                       forced, job, chain>>
        /\ \E st \in {"asleep", "idle", "exited"} : pc' = [pc EXCEPT ![v] = st]
    BY <1>1 DEF VerifierWait, OnReady, VerifierExit
  <2>2. ClientTypeOK'
    BY <2>1 DEF SyncInv, ClientTypeOK
  <2>3. phase' # "import" => drained = <<>> /\ badBlocks \subseteq knownBad
    BY DEF SyncInv, ReportsJustified
  <2> QED
    BY <2>1, <2>2, <2>3, QueueAlone
<1> QED
  BY <1>1, VerifierTakeKeepsSync, VerifierFailKeepsSync, VerifierSucceedKeepsSync
  DEF VerifierStep

-----------------------------------------------------------------------------
(***************************************************************************)
(* import() and tick()                                                     *)
(***************************************************************************)

\* Steps of the other threads that leave the queues alone.
LEMMA OthersAlone ==
    ASSUME SyncInv,
           UNCHANGED <<readySet, drainingSet, knownBad, unknown, unknownSet, queueVars,
                       forced, pc, job, chain, phase, drained, badBlocks, stored, dropped>>
    PROVE  SyncInv'
<1>1. ClientTypeOK'
  BY DEF SyncInv, ClientTypeOK
<1>2. phase' # "import" => drained = <<>> /\ badBlocks \subseteq knownBad
  BY DEF SyncInv, ReportsJustified
<1> QED
  BY <1>1, <1>2, QueueAlone

\* A block no set has is not queued either.
LEMMA FreshToQueue ==
    ASSUME SyncInv, NEW b \in Block, Importable(b)
    PROVE  b \notin Queued /\ b \notin unknown /\ b \notin knownBad
BY DEF SyncInv, ReadyQueued, Importable, Known

LEMMA ImportReadyKeepsSync ==
    ASSUME SyncInv, NEW b \in Block, Importable(b), ImportReady(b),
           UNCHANGED <<chain, forced, phase, drained, badBlocks, stored, dropped>>
    PROVE  SyncInv'
<1>1. b \notin Queued /\ b \notin unknown /\ b \notin knownBad
  BY FreshToQueue
<1>2. PICK S \in SUBSET unknown : \E s \in SetToSeqs(S) :
         /\ IsCascade(S, b)
         /\ BreadthFirst(s, b)
         /\ unverified' = unverified \o <<b>> \o s
         /\ readySet' = readySet \cup {b} \cup S
         /\ unknown' = unknown \ S
         /\ unknownSet' = unknownSet \ S
         /\ IF S = {} THEN pc' \in WakeOne(pc) ELSE pc' = WakeAll(pc)
  BY DEF ImportReady
<1>3. PICK s \in SetToSeqs(S) :
         /\ BreadthFirst(s, b)
         /\ unverified' = unverified \o <<b>> \o s
  BY <1>2
<1>4. /\ ParentAtHand(b) /\ IsCascade(S, b)
      /\ UNCHANGED <<drainingSet, knownBad, verifying, verified, job>>
  BY <1>2 DEF ImportReady
<1>5. /\ readySet \subseteq Queued /\ Queued \ readySet \subseteq BadSeal \cap knownBad
      /\ unknown = unknownSet /\ unknown \cap Queued = {}
  BY DEF SyncInv, ReadyQueued
<1>6. S \in SUBSET Block /\ IsFiniteSet(S) /\ b \notin S /\ S \cap Queued = {}
  BY <1>1, <1>5, FS_Subset, BlockAssumption DEF SyncInv, ClientTypeOK
<1>7. Lists(s, S) /\ s \in Seq(Block)
  BY <1>6, SetToSeqsList, ListsElements, SeqMonotonic
<1>8. PICK V \in SUBSET Block, U \in SUBSET Block, E \in SUBSET Entry :
         /\ Lists(verified, V) /\ ToSet(verified) = V
         /\ Lists(verifying, E) /\ ToSet(verifying) = E
         /\ Lists(unverified, U) /\ ToSet(unverified) = U
         /\ OneEntryEach(E)
         /\ V \cap BlocksOf(E) = {}
         /\ V \cap U = {}
         /\ BlocksOf(E) \cap U = {}
         /\ Queued = V \cup BlocksOf(E) \cup U
  BY QueuedSets DEF SyncInv
<1>9. Queues(verified', verifying', unverified', Queued \cup {b} \cup S)
  <2>1. Lists(unverified \o <<b>>, U \cup {b})
    <3>1. Lists(<<b>>, {b}) /\ U \cap {b} = {}
      BY <1>1, <1>8, ListsSingle
    <3> QED
      BY <1>8, <3>1, ListsConcat
  <2>2. (U \cup {b}) \cap S = {}
    BY <1>6, <1>8
  <2>3. Lists(unverified', (U \cup {b}) \cup S)
    BY <1>3, <1>7, <2>1, <2>2, ListsConcat
  <2>4. /\ V \cap (U \cup {b} \cup S) = {}
        /\ BlocksOf(E) \cap (U \cup {b} \cup S) = {}
        /\ Queued \cup {b} \cup S = V \cup BlocksOf(E) \cup (U \cup {b} \cup S)
        /\ U \cup {b} \cup S \in SUBSET Block
    BY <1>1, <1>6, <1>8
  <2>5. Lists(verified', V) /\ Lists(verifying', E)
    BY <1>4, <1>8
  <2> QED
    BY <1>8, <2>3, <2>4, <2>5 DEF Queues
<1>10. QueuedOnce' /\ Queued' = Queued \cup {b} \cup S
  <2>1. PICK held : held = Queued \cup {b} \cup S
    OBVIOUS
  <2> QED
    BY <1>9, <2>1, QueuedNext
<1>11. ClientTypeOK'
  <2>1. /\ pc' \in [Verifier -> {"idle", "asleep", "busy", "notify", "exited"}]
        /\ \A v \in Verifier : pc'[v] = "busy" => job'[v] # NoBlock
    BY <1>2, <1>4, WokenThreads
  <2> QED
    BY <1>2, <1>4, <1>6, <2>1 DEF SyncInv, ClientTypeOK
<1>12. ReadyQueued'
  BY <1>1, <1>2, <1>4, <1>5, <1>6, <1>10 DEF ReadyQueued
<1>13. SealsGood'
  BY <1>4 DEF SyncInv, SealsGood
<1>14. WorkInOrder'
  <2> DEFINE A == Settled \cup ToSet(drained)
  <2>1. InOrder(verified, verifying, unverified, A, forced)
    BY DEF SyncInv, WorkInOrder
  <2>2. unverified \in Seq(Block)
    BY QueuedType DEF SyncInv
  <2>3. Behind(s, {b}, forced)
    <3>1. \A u \in S : Parent[u] \in S \cup {b}
      BY <1>4 DEF IsCascade
    <3> QED
      BY <1>3, <1>6, <1>7, <3>1, CascadeBehind
  <2>4. Parent[b] \in A \cup ToSet(verified) \cup BlocksOf(ToSet(verifying)) \cup ToSet(unverified)
    <3>1. chain \subseteq stored /\ drainingSet \subseteq A
      BY DEF SyncInv, ClientTypeOK, WorkInOrder
    <3> QED
      BY <1>4, <1>5, <1>8, <3>1 DEF ParentAtHand, Settled
  <2>5. A = Settled' \cup ToSet(drained') /\ Settled' = Settled
    BY <1>4 DEF Settled
  <2> HIDE DEF A
  <2>6. InOrder(verified, verifying, unverified \o <<b>> \o s, A, forced)
    BY <1>7, <2>1, <2>2, <2>3, <2>4, ImportReadyInOrder
  <2> QED
    BY <1>3, <1>4, <2>5, <2>6 DEF SyncInv, WorkInOrder
<1>15. ReportsJustified' /\ KnownBadJustified'
  BY <1>4 DEF SyncInv, ReportsJustified, KnownBadJustified
<1> QED
  BY <1>10, <1>11, <1>12, <1>13, <1>14, <1>15 DEF SyncInv

LEMMA ImportUnknownParentKeepsSync ==
    ASSUME SyncInv, NEW b \in Block, Importable(b), ImportUnknownParent(b),
           UNCHANGED <<chain, forced, phase, drained, badBlocks, stored, dropped>>
    PROVE  SyncInv'
<1>1. /\ unknown' = unknown \cup {b} /\ unknownSet' = unknownSet \cup {b}
      /\ UNCHANGED <<readySet, drainingSet, knownBad, verified, verifying, unverified, pc, job>>
  BY DEF ImportUnknownParent, setVars, queueVars, threadVars
<1>2. b \notin Queued
  BY FreshToQueue
<1>3. Queued' = Queued /\ Settled' = Settled
  BY <1>1 DEF Queued, Settled
<1>4. ClientTypeOK' /\ QueuedOnce' /\ ReadyQueued' /\ SealsGood'
  BY <1>1, <1>2, <1>3 DEF SyncInv, ClientTypeOK, QueuedOnce, ReadyQueued, SealsGood
<1>5. WorkInOrder' /\ ReportsJustified' /\ KnownBadJustified'
  BY <1>1, <1>3 DEF SyncInv, WorkInOrder, ReportsJustified, KnownBadJustified
<1> QED
  BY <1>4, <1>5 DEF SyncInv

LEMMA ImportKeepsSync ==
    ASSUME SyncInv, NEW b \in Block, NEW isOurs \in BOOLEAN, Import(b, isOurs),
           UNCHANGED clientVars
    PROVE  SyncInv'
<1>1. /\ Importable(b) /\ UNCHANGED <<now, chain, forced>>
      /\ UNCHANGED <<phase, drained, badBlocks, stored, dropped>>
  BY DEF Import, clientVars
<1>2. CASE ImportFuture(b)
  BY <1>1, <1>2, OthersAlone DEF ImportFuture, setVars, threadVars
<1>3. CASE ImportBadChain(b)
  BY <1>1, <1>3, ImportBadChainKeepsSync
<1>4. CASE ImportUnknownParent(b)
  BY <1>1, <1>4, ImportUnknownParentKeepsSync
<1>5. CASE ImportReady(b)
  BY <1>1, <1>5, ImportReadyKeepsSync
<1> QED
  BY <1>2, <1>3, <1>4, <1>5 DEF Import

LEMMA ClientTickKeepsSync ==
    ASSUME SyncInv, ClientTick
    PROVE  SyncInv'
<1>1. UNCHANGED clientVars
  BY DEF ClientTick
<1>2. CASE TickTake
  BY <1>1, <1>2, OthersAlone DEF TickTake, clientVars, setVars, threadVars
<1>3. CASE \E b \in Block : TickImport(b)
  <2>1. PICK b \in Block : TickImport(b)
    BY <1>3
  <2>2. CASE Import(b, FALSE)
    BY <1>1, <2>2, ImportKeepsSync
  <2>3. CASE UNCHANGED <<setVars, waitVars, queueVars, difficultyVars, threadVars,
                         now, chain, forced>>
    BY <1>1, <2>3, OthersAlone DEF clientVars, setVars, waitVars, threadVars
  <2> QED
    BY <2>1, <2>2, <2>3 DEF TickImport
<1> QED
  BY <1>2, <1>3 DEF ClientTick

-----------------------------------------------------------------------------
(***************************************************************************)
(* retryAllUnknown(), clear() and the worker's own steps                   *)
(***************************************************************************)

LEMMA RetryAllUnknownKeepsSync ==
    ASSUME SyncInv, RetryAllUnknown, UNCHANGED clientVars
    PROVE  SyncInv'
<1>1. /\ readySet' = readySet \cup unknown
      /\ unknown' = {}
      /\ unknownSet' = unknownSet \ unknown
      /\ forced' = forced \cup unknown
      /\ pc' = WakeAll(pc)
      /\ UNCHANGED <<drainingSet, knownBad, verifying, verified, job, chain,
                     phase, drained, badBlocks, stored, dropped>>
  BY DEF RetryAllUnknown, clientVars
<1>2. PICK s \in SetToSeqs(unknown) : unverified' = unverified \o s
  BY DEF RetryAllUnknown
<1>3. /\ unknown \subseteq Block /\ IsFiniteSet(unknown)
      /\ readySet \subseteq Queued /\ Queued \ readySet \subseteq BadSeal \cap knownBad
      /\ unknown = unknownSet /\ unknown \cap Queued = {}
  BY FS_Subset, BlockAssumption DEF SyncInv, ClientTypeOK, ReadyQueued
<1>4. Lists(s, unknown) /\ s \in Seq(Block) /\ \A i \in 1..Len(s) : s[i] \in unknown
  BY <1>3, SetToSeqsList, ListsElements, SeqMonotonic
<1>5. PICK V \in SUBSET Block, U \in SUBSET Block, E \in SUBSET Entry :
         /\ Lists(verified, V) /\ ToSet(verified) = V
         /\ Lists(verifying, E) /\ ToSet(verifying) = E
         /\ Lists(unverified, U) /\ ToSet(unverified) = U
         /\ OneEntryEach(E)
         /\ V \cap BlocksOf(E) = {}
         /\ V \cap U = {}
         /\ BlocksOf(E) \cap U = {}
         /\ Queued = V \cup BlocksOf(E) \cup U
  BY QueuedSets DEF SyncInv
<1>6. Queues(verified', verifying', unverified', Queued \cup unknown)
  <2>1. U \cap unknown = {}
    BY <1>3, <1>5
  <2>2. Lists(unverified', U \cup unknown)
    BY <1>2, <1>4, <1>5, <2>1, ListsConcat
  <2>3. /\ V \cap (U \cup unknown) = {}
        /\ BlocksOf(E) \cap (U \cup unknown) = {}
        /\ Queued \cup unknown = V \cup BlocksOf(E) \cup (U \cup unknown)
        /\ U \cup unknown \in SUBSET Block
    BY <1>3, <1>5
  <2>4. Lists(verified', V) /\ Lists(verifying', E)
    BY <1>1, <1>5
  <2> QED
    BY <1>5, <2>2, <2>3, <2>4 DEF Queues
<1>7. QueuedOnce' /\ Queued' = Queued \cup unknown
  <2>1. PICK held : held = Queued \cup unknown
    OBVIOUS
  <2> QED
    BY <1>6, <2>1, QueuedNext
<1>8. ClientTypeOK'
  <2>1. /\ pc' \in [Verifier -> {"idle", "asleep", "busy", "notify", "exited"}]
        /\ \A v \in Verifier : pc'[v] = "busy" => job'[v] # NoBlock
    BY <1>1, WokenThreads
  <2> QED
    BY <1>1, <1>3, <2>1 DEF SyncInv, ClientTypeOK
<1>9. ReadyQueued' /\ SealsGood'
  BY <1>1, <1>3, <1>7 DEF SyncInv, ReadyQueued, SealsGood
<1>10. WorkInOrder'
  <2> DEFINE A == Settled \cup ToSet(drained)
  <2>1. InOrder(verified, verifying, unverified, A, forced) /\ Behind(drained, Settled, forced)
    BY DEF SyncInv, WorkInOrder
  <2>2. unverified \in Seq(Block) /\ forced \subseteq forced' /\ \A i \in 1..Len(s) : s[i] \in forced'
    BY <1>1, <1>4, QueuedType DEF SyncInv
  <2>3. A = Settled' \cup ToSet(drained') /\ Settled' = Settled
    BY <1>1 DEF Settled
  <2> HIDE DEF A
  <2>4. InOrder(verified, verifying, unverified \o s, A, forced')
    BY <1>4, <2>1, <2>2, RetryInOrder
  <2>5. Behind(drained, Settled, forced')
    BY <2>1, <2>2, BehindMore
  <2> QED
    BY <1>1, <1>2, <2>3, <2>4, <2>5 DEF SyncInv, WorkInOrder
<1>11. ReportsJustified' /\ KnownBadJustified'
  BY <1>1 DEF SyncInv, ReportsJustified, KnownBadJustified
<1> QED
  BY <1>7, <1>8, <1>9, <1>10, <1>11 DEF SyncInv

LEMMA ClearKeepsSync ==
    ASSUME SyncInv, ClearMeanwhile
    PROVE  SyncInv'
<1>1. /\ readySet' = {} /\ drainingSet' = {} /\ unknown' = {} /\ unknownSet' = {}
      /\ verified' = <<>> /\ verifying' = <<>> /\ unverified' = <<>>
      /\ UNCHANGED <<knownBad, pc, job, chain, forced, phase, drained, badBlocks, stored,
                     dropped>>
  BY DEF ClearMeanwhile, Clear, threadVars
<1>2. ToSet(<<>>) = {} /\ BlocksOf({}) = {}
  BY DEF ToSet, BlocksOf
<1>3. Queued' = {}
  BY <1>1, <1>2 DEF Queued
<1>4. QueuedOnce'
  <2>1. OneEntryEach({})
    BY DEF OneEntryEach
  <2> QED
    BY <1>1, <1>2, <1>3, <2>1, ListsEmpty DEF QueuedOnce, Queues
<1>5. ClientTypeOK' /\ ReadyQueued' /\ SealsGood'
  BY <1>1, <1>2, <1>3 DEF SyncInv, ClientTypeOK, ReadyQueued, SealsGood
<1>6. WorkInOrder'
  <2>1. Settled' = Settled
    BY <1>1 DEF Settled
  <2> QED
    BY <1>1, <2>1, NothingInOrder DEF SyncInv, WorkInOrder
<1>7. ReportsJustified' /\ KnownBadJustified'
  BY <1>1 DEF SyncInv, ReportsJustified, KnownBadJustified
<1> QED
  BY <1>4, <1>5, <1>6, <1>7 DEF SyncInv

\* drain() moves the front of m_verified to the list of sync().
LEMMA SyncDrainKeeps ==
    ASSUME SyncInv, NEW max \in 1..MaxDrain, SyncDrain(max)
    PROVE  SyncInv'
<1> DEFINE n == IF max < Len(verified) THEN max ELSE Len(verified)
           out == SubSeq(verified, 1, n)
           rest == SubSeq(verified, n + 1, Len(verified))
<1>1. /\ phase = "drain" /\ phase' = "import"
      /\ verified' = rest
      /\ drainingSet' = ToSet(out)
      /\ readySet' = readySet \ ToSet(out)
      /\ drained' = SubSeq(verified, 1, Len(verified) - Len(verified'))
      /\ badBlocks' = {}
      /\ UNCHANGED <<knownBad, unknown, unknownSet, unverified, verifying, pc, job, chain,
                     forced, stored, dropped>>
  BY DEF SyncDrain, Drain, waitVars, threadVars
<1>2. drained = <<>> /\ badBlocks \subseteq knownBad
  BY <1>1 DEF SyncInv, ReportsJustified
<1>3. PICK V \in SUBSET Block, U \in SUBSET Block, E \in SUBSET Entry :
         /\ Lists(verified, V) /\ ToSet(verified) = V
         /\ Lists(verifying, E) /\ ToSet(verifying) = E
         /\ Lists(unverified, U) /\ ToSet(unverified) = U
         /\ OneEntryEach(E)
         /\ V \cap BlocksOf(E) = {}
         /\ V \cap U = {}
         /\ BlocksOf(E) \cap U = {}
         /\ Queued = V \cup BlocksOf(E) \cup U
  BY QueuedSets DEF SyncInv
<1>4. verified \in Seq(Block) /\ n \in Nat /\ n <= Len(verified)
  <2>1. verified \in Seq(Block) /\ Len(verified) \in Nat
    BY QueuedType DEF SyncInv
  <2> QED
    BY <2>1, BlockAssumption
<1> HIDE DEF n
<1>5. drained' = out /\ out \in Seq(Block)
  <2>1. Len(rest) = Len(verified) - n /\ out \in Seq(Block)
    BY <1>4, SubSeqProperties
  <2> HIDE DEF rest
  <2>2. Len(verified) - (Len(verified) - n) = n
    BY <1>4
  <2> QED
    BY <1>1, <2>1, <2>2
<1> DEFINE D == FirstOf(verified, n)
<1>6. D \subseteq V /\ Lists(out, D) /\ Lists(rest, V \ D)
  BY <1>3, <1>4, ListsCut
<1>7. WorkInOrder'
  <2>1. Settled' = Settled
    BY <1>1, <1>2 DEF Settled
  <2>2. ToSet(drained) = {}
    BY <1>2 DEF ToSet
  <2>3. InOrder(verified, verifying, unverified, Settled, forced)
    BY <2>2 DEF SyncInv, WorkInOrder
  <2> DEFINE A == Settled
  <2>4. InOrder(verified, verifying, unverified, A, forced)
    BY <2>3
  <2> HIDE DEF A
  <2>5. /\ Behind(out, A, forced)
        /\ InOrder(rest, verifying, unverified, A \cup ToSet(out), forced)
    BY <1>4, <2>4, DrainInOrder
  <2>6. A = Settled'
    BY <2>1 DEF A
  <2> HIDE DEF out, rest
  <2>7. Behind(drained', Settled', forced')
    BY <1>1, <1>5, <2>5, <2>6
  <2>8. InOrder(verified', verifying', unverified', Settled' \cup ToSet(drained'), forced')
    BY <1>1, <1>5, <2>5, <2>6
  <2>9. drainingSet' \subseteq Settled' \cup ToSet(drained')
    BY <1>1, <1>5
  <2> QED
    BY <2>7, <2>8, <2>9 DEF WorkInOrder
<1> HIDE DEF D, out, rest
<1>8. ToSet(out) = D /\ ToSet(rest) = V \ D
  BY <1>6, ListsToSet
<1>9. Queues(verified', verifying', unverified', Queued \ D)
  <2>1. /\ (V \ D) \cap BlocksOf(E) = {}
        /\ (V \ D) \cap U = {}
        /\ Queued \ D = (V \ D) \cup BlocksOf(E) \cup U
        /\ V \ D \in SUBSET Block
    BY <1>3, <1>6
  <2>2. Lists(verified', V \ D) /\ Lists(verifying', E) /\ Lists(unverified', U)
    BY <1>1, <1>3, <1>6
  <2> QED
    BY <1>3, <2>1, <2>2 DEF Queues
<1>10. QueuedOnce' /\ Queued' = Queued \ D
  <2>1. PICK held : held = Queued \ D
    OBVIOUS
  <2> QED
    BY <1>9, <2>1, QueuedNext
<1>11. readySet' = readySet \ D /\ drainingSet' = D /\ D \subseteq Block
  BY <1>1, <1>6, <1>8
<1>12. ClientTypeOK'
  BY <1>1, <1>5, <1>11 DEF SyncInv, ClientTypeOK
<1>13. ReadyQueued'
  BY <1>1, <1>10, <1>11 DEF SyncInv, ReadyQueued
<1>14. SealsGood'
  BY <1>1, <1>3, <1>6, <1>8 DEF SyncInv, SealsGood
<1>15. ReportsJustified' /\ KnownBadJustified'
  BY <1>1 DEF SyncInv, ReportsJustified, KnownBadJustified
<1> QED
  BY <1>7, <1>10, <1>12, <1>13, <1>14, <1>15 DEF SyncInv

\* The steps of the worker, the clock and the end that touch no queue.
LEMMA PlainStepsKeepSync ==
    ASSUME SyncInv,
           \/ TakeFlag
           \/ AssignFlag
           \/ \E n \in RewindTo : Rewind(n)
           \/ ClockTick /\ UNCHANGED clientVars
           \/ StopAfterWorker
           \/ UNCHANGED allVars
    PROVE  SyncInv'
<1> USE DEF setVars, waitVars, queueVars, threadVars
<1>1. chain \subseteq stored /\ (phase # "import" => drained = <<>> /\ badBlocks \subseteq knownBad)
  BY DEF SyncInv, ClientTypeOK, ReportsJustified
<1>2. CASE TakeFlag \/ AssignFlag
  <2>1. /\ UNCHANGED <<readySet, drainingSet, knownBad, unknown, unknownSet, queueVars, forced,
                       drained, badBlocks, stored, dropped, pc, job, chain>>
        /\ phase # "import" /\ phase' \in {"drain", "idle"}
    BY <1>2 DEF TakeFlag, AssignFlag, bqVars, vars
  <2>2. ClientTypeOK'
    BY <2>1 DEF SyncInv, ClientTypeOK
  <2> QED
    BY <1>1, <2>1, <2>2, QueueAlone
<1>3. CASE \E n \in RewindTo : Rewind(n)
  <2>1. /\ UNCHANGED <<readySet, drainingSet, knownBad, unknown, unknownSet, queueVars, forced,
                       drained, badBlocks, stored, dropped, pc, job, phase>>
        /\ chain' \subseteq stored
    BY <1>3 DEF Rewind, UpTo, clientVars
  <2>2. ClientTypeOK'
    BY <2>1 DEF SyncInv, ClientTypeOK
  <2> QED
    BY <1>1, <2>1, <2>2, QueueAlone
<1>4. CASE ClockTick /\ UNCHANGED clientVars
  BY <1>4, OthersAlone DEF ClockTick, clientVars
<1>5. CASE StopAfterWorker
  <2>1. /\ UNCHANGED <<readySet, drainingSet, knownBad, unknown, unknownSet, queueVars, forced,
                       drained, badBlocks, stored, dropped, job, phase, chain>>
        /\ pc' = WakeAll(pc)
    BY <1>5 DEF StopAfterWorker, Stop, clientVars
  <2>2. ClientTypeOK'
    <3>1. /\ pc' \in [Verifier -> {"idle", "asleep", "busy", "notify", "exited"}]
          /\ \A v \in Verifier : pc'[v] = "busy" => job'[v] # NoBlock
      BY <2>1, WokenThreads
    <3> QED
      BY <2>1, <3>1 DEF SyncInv, ClientTypeOK
  <2> QED
    BY <1>1, <2>1, <2>2, QueueAlone
<1>6. CASE UNCHANGED allVars
  BY <1>6, OthersAlone DEF allVars, bqVars, vars, clientVars
<1> QED
  BY <1>2, <1>3, <1>4, <1>5, <1>6

LEMMA SyncNext == SyncInv /\ [ClientNext]_allVars => SyncInv'
<1> SUFFICES ASSUME SyncInv, [ClientNext]_allVars
             PROVE  SyncInv'
  OBVIOUS
<1>1. CASE UNCHANGED allVars
  BY <1>1, PlainStepsKeepSync
<1>2. CASE Sync
  <2>1. CASE TakeFlag \/ AssignFlag
    BY <2>1, PlainStepsKeepSync
  <2>2. CASE \E max \in 1..MaxDrain : SyncDrain(max)
    BY <2>2, SyncDrainKeeps
  <2>3. CASE ImportOne
    BY <2>3, ImportOneKeeps
  <2>4. CASE SyncDone
    BY <2>4, SyncDoneKeeps
  <2> QED
    BY <1>2, <2>1, <2>2, <2>3, <2>4 DEF Sync
<1>3. CASE ClientTick
  BY <1>3, ClientTickKeepsSync
<1>4. CASE \E n \in RewindTo : Rewind(n)
  BY <1>4, PlainStepsKeepSync
<1>5. CASE OtherThreads
  <2>1. CASE \E b \in Block : \E isOurs \in BOOLEAN :
                Import(b, isOurs) /\ UNCHANGED <<todo, clientVars>>
    <3>1. PICK b \in Block, isOurs \in BOOLEAN : Import(b, isOurs) /\ UNCHANGED clientVars
      BY <2>1
    <3> QED
      BY <3>1, ImportKeepsSync
  <2>2. CASE RetryAllUnknown /\ UNCHANGED clientVars
    BY <2>2, RetryAllUnknownKeepsSync
  <2>3. CASE (ClockTick /\ UNCHANGED clientVars) \/ StopAfterWorker
    BY <2>3, PlainStepsKeepSync
  <2>4. CASE ClearMeanwhile
    BY <2>4, ClearKeepsSync
  <2>5. CASE \E v \in Verifier : VerifierAndClient(v)
    BY <2>5, VerifierStepKeepsSync DEF VerifierAndClient
  <2> QED
    BY <1>5, <2>1, <2>2, <2>3, <2>4, <2>5 DEF OtherThreads
<1> QED
  BY <1>1, <1>2, <1>3, <1>4, <1>5 DEF ClientNext

-----------------------------------------------------------------------------
(***************************************************************************)
(* No verified block waits unannounced                                     *)
(***************************************************************************)

\* A verifier about to announce is about to announce still.
AnnouncementsKept == \A v \in Verifier : pc[v] = "notify" => pc'[v] = "notify"

LEMMA WokenKeepAnnouncements ==
    ASSUME SyncInv, pc' \in WakeOne(pc) \/ pc' = WakeAll(pc)
    PROVE  AnnouncementsKept
<1>1. pc \in [Verifier -> {"idle", "asleep", "busy", "notify", "exited"}]
  BY DEF SyncInv, ClientTypeOK
<1>2. CASE pc' \in WakeOne(pc)
  <2>1. CASE pc' = pc
    BY <2>1 DEF AnnouncementsKept
  <2>2. CASE \E v \in Verifier : pc[v] = "asleep" /\ pc' = [pc EXCEPT ![v] = "idle"]
    <3>1. PICK v \in Verifier : pc[v] = "asleep" /\ pc' = [pc EXCEPT ![v] = "idle"]
      BY <2>2
    <3>2. ASSUME NEW w \in Verifier, pc[w] = "notify" PROVE pc'[w] = "notify"
      <4>1. w # v
        BY <3>1, <3>2
      <4> QED
        BY <1>1, <3>1, <3>2, <4>1
    <3> QED
      BY <3>2 DEF AnnouncementsKept
  <2> QED
    BY <1>2, <2>1, <2>2 DEF WakeOne
<1>3. CASE pc' = WakeAll(pc)
  BY <1>3 DEF WakeAll, AnnouncementsKept
<1> QED
  BY <1>2, <1>3

\* A step that puts nothing into an empty m_verified owes no announcement.
LEMMA AnnouncedStill ==
    ASSUME VerifiedAnnounced, AnnouncementsKept,
           missed \subseteq missed',
           verified' # <<>> => verified # <<>>,
           syncFlag => syncFlag',
           UNCHANGED <<phase, more>>
    PROVE  VerifiedAnnounced'
BY DEF VerifiedAnnounced, AnnouncementsKept

LEMMA WithoutNothing == \A S : Without(<<>>, S) = <<>>
<1> SUFFICES ASSUME NEW S PROVE Without(<<>>, S) = <<>>
  OBVIOUS
<1>1. Lists(<<>>, {})
  BY ListsEmpty
<1>2. Lists(Without(<<>>, S), {} \ S)
  BY <1>1, ListsWithout
<1>3. Without(<<>>, S) \in Seq({})
  BY <1>2 DEF Lists
<1> QED
  BY <1>3

LEMMA ImportAnnounces ==
    ASSUME SyncInv, VerifiedAnnounced, NEW b \in Block, NEW isOurs \in BOOLEAN,
           Import(b, isOurs), UNCHANGED clientVars
    PROVE  VerifiedAnnounced'
<1> USE DEF setVars, queueVars, threadVars
<1>1. verified' # <<>> => verified # <<>>
  <2>1. CASE ImportBadChain(b)
    <3>1. PICK S \in SUBSET Block : StrikeOut(S, {b})
      BY <2>1 DEF ImportBadChain
    <3>2. verified' = Without(verified, S)
      BY <3>1 DEF StrikeOut
    <3> QED
      BY <3>2, WithoutNothing
  <2> QED
    BY <2>1 DEF Import, ImportFuture, ImportUnknownParent, ImportReady
<1>2. AnnouncementsKept
  <2>1. CASE ImportReady(b)
    <3>1. pc' \in WakeOne(pc) \/ pc' = WakeAll(pc)
      BY <2>1 DEF ImportReady
    <3> QED
      BY <3>1, WokenKeepAnnouncements
  <2>2. CASE ~ImportReady(b)
    <3>1. pc' = pc
      BY <2>2 DEF Import, ImportFuture, ImportUnknownParent, ImportBadChain
    <3> QED
      BY <3>1 DEF AnnouncementsKept
  <2> QED
    BY <2>1, <2>2
<1> QED
  BY <1>1, <1>2, AnnouncedStill DEF clientVars

LEMMA VerifierAnnounces ==
    ASSUME SyncInv, VerifiedAnnounced, NEW v \in Verifier, VerifierAndClient(v)
    PROVE  VerifiedAnnounced'
<1> USE DEF setVars, queueVars
<1>1. /\ VerifierStep(v)
      /\ syncFlag' = (syncFlag \/ pc[v] = "notify")
      /\ missed' = IF FailureFillsVerified(v) THEN missed \cup {"failed"} ELSE missed
      /\ UNCHANGED <<phase, more>>
  BY DEF VerifierAndClient
<1>2. pc \in [Verifier -> {"idle", "asleep", "busy", "notify", "exited"}]
  BY DEF SyncInv, ClientTypeOK
<1>3. CASE OnReady(v)
  <2>1. syncFlag'
    BY <1>1, <1>3 DEF OnReady
  <2> QED
    BY <2>1 DEF VerifiedAnnounced
<1>4. ASSUME pc[v] # "notify", NEW st, pc' = [pc EXCEPT ![v] = st] PROVE AnnouncementsKept
  <2>1. ASSUME NEW w \in Verifier, pc[w] = "notify" PROVE pc'[w] = "notify"
    <3>1. w # v
      BY <1>4, <2>1
    <3> QED
      BY <1>2, <1>4, <2>1, <3>1
  <2> QED
    BY <2>1 DEF AnnouncementsKept
<1>5. ASSUME AnnouncementsKept, verified' # <<>> => verified # <<>> PROVE VerifiedAnnounced'
  BY <1>1, <1>5, AnnouncedStill
<1>6. CASE VerifierWait(v) \/ VerifierTake(v) \/ VerifierExit(v)
  <2>1. /\ verified' = verified /\ pc[v] # "notify"
        /\ \E st \in {"asleep", "busy", "exited"} : pc' = [pc EXCEPT ![v] = st]
    BY <1>6 DEF VerifierWait, VerifierTake, VerifierExit
  <2> QED
    BY <1>4, <1>5, <2>1
<1>7. CASE VerifierFail(v)
  <2>1. pc[v] = "busy" /\ pc' = [pc EXCEPT ![v] = "idle"]
    BY <1>7 DEF VerifierFail
  <2>2. CASE verified' # <<>> => verified # <<>>
    BY <1>4, <1>5, <2>1, <2>2
  <2>3. CASE verified = <<>> /\ verified' # <<>>
    <3>1. FailureFillsVerified(v)
      BY <1>2, <2>1, <2>3 DEF FailureFillsVerified
    <3> QED
      BY <1>1, <3>1 DEF VerifiedAnnounced
  <2> QED
    BY <2>2, <2>3
<1>8. CASE VerifierSucceed(v)
  <2>1. CASE pc' = [pc EXCEPT ![v] = "notify"]
    <3>1. pc'[v] = "notify"
      BY <1>2, <2>1
    <3> QED
      BY <3>1 DEF VerifiedAnnounced
  <2>2. CASE verified' = verified /\ pc' = [pc EXCEPT ![v] = "idle"]
    <3>1. pc[v] = "busy"
      BY <1>8 DEF VerifierSucceed
    <3> QED
      BY <1>4, <1>5, <2>2, <3>1
  <2> QED
    BY <1>8, <2>1, <2>2 DEF VerifierSucceed
<1> QED
  BY <1>1, <1>3, <1>6, <1>7, <1>8 DEF VerifierStep

\* doneDrain() answers from m_readySet, which has every verified block.
LEMMA SyncDoneAnnounces ==
    ASSUME SyncInv', SyncDone
    PROVE  VerifiedAnnounced'
<1>1. phase' = "assign" /\ more' = (readySet' # {})
  BY DEF SyncDone
<1>2. CASE verified' = <<>>
  BY <1>2 DEF VerifiedAnnounced
<1>3. CASE verified' # <<>>
  <2>1. verified' \in Seq(Block)
    <3>1. PICK held : Queues(verified', verifying', unverified', held)
      BY DEF SyncInv, QueuedOnce
    <3> QED
      BY <3>1, QueuesType
  <2>2. verified'[1] \in ToSet(verified')
    BY <1>3, <2>1 DEF ToSet
  <2>3. verified'[1] \in Queued' /\ verified'[1] \notin BadSeal
    BY <2>2 DEF Queued, SyncInv, SealsGood
  <2>4. verified'[1] \in readySet'
    BY <2>3 DEF SyncInv, ReadyQueued
  <2> QED
    BY <1>1, <2>4 DEF VerifiedAnnounced
<1> QED
  BY <1>2, <1>3

LEMMA AnnouncedNext == ClientInv /\ SyncInv' /\ [ClientNext]_allVars => VerifiedAnnounced'
<1> SUFFICES ASSUME SyncInv, VerifiedAnnounced, SyncInv', [ClientNext]_allVars
             PROVE  VerifiedAnnounced'
  BY DEF ClientInv
<1> USE DEF setVars, queueVars, threadVars, bqVars, vars
<1>1. ASSUME verified' = verified, pc' = pc, UNCHANGED clientVars PROVE VerifiedAnnounced'
  BY <1>1, AnnouncedStill DEF AnnouncementsKept, clientVars
<1>2. CASE UNCHANGED allVars
  BY <1>1, <1>2 DEF allVars
<1>3. CASE Sync
  <2>1. CASE TakeFlag \/ ImportOne \/ \E max \in 1..MaxDrain : SyncDrain(max)
    <3>1. phase' \in {"drain", "import"}
      BY <2>1 DEF TakeFlag, SyncDrain, ImportOne, AlreadyHaveBlock, UnknownParent,
                  FutureTime, TransientError, ExecutionFails, Inserted, NextDrained
    <3> QED
      BY <3>1 DEF VerifiedAnnounced
  <2>2. CASE SyncDone
    BY <2>2, SyncDoneAnnounces
  <2>3. CASE AssignFlag
    BY <2>3 DEF AssignFlag, VerifiedAnnounced
  <2> QED
    BY <1>3, <2>1, <2>2, <2>3 DEF Sync
<1>4. CASE ClientTick
  <2>1. UNCHANGED clientVars
    BY <1>4 DEF ClientTick
  <2>2. CASE TickTake
    BY <1>1, <2>1, <2>2 DEF TickTake
  <2>3. CASE \E b \in Block : TickImport(b)
    <3>1. PICK b \in Block : TickImport(b)
      BY <2>3
    <3>2. CASE Import(b, FALSE)
      BY <2>1, <3>2, ImportAnnounces
    <3>3. CASE UNCHANGED <<verified, pc>>
      BY <1>1, <2>1, <3>3
    <3> QED
      BY <3>1, <3>2, <3>3 DEF TickImport
  <2> QED
    BY <1>4, <2>2, <2>3 DEF ClientTick
<1>5. CASE \E n \in RewindTo : Rewind(n)
  BY <1>1, <1>5 DEF Rewind
<1>6. CASE OtherThreads
  <2>1. CASE \E b \in Block : \E isOurs \in BOOLEAN :
                Import(b, isOurs) /\ UNCHANGED <<todo, clientVars>>
    BY <2>1, ImportAnnounces
  <2>2. CASE (RetryAllUnknown /\ UNCHANGED clientVars) \/ StopAfterWorker
    <3>1. verified' = verified /\ pc' = WakeAll(pc) /\ UNCHANGED clientVars
      BY <2>2 DEF RetryAllUnknown, StopAfterWorker, Stop
    <3> QED
      BY <3>1, WokenKeepAnnouncements, AnnouncedStill DEF clientVars
  <2>3. CASE ClockTick /\ UNCHANGED clientVars
    BY <1>1, <2>3 DEF ClockTick
  <2>4. CASE ClearMeanwhile
    BY <2>4 DEF ClearMeanwhile, Clear, VerifiedAnnounced
  <2>5. CASE \E v \in Verifier : VerifierAndClient(v)
    BY <2>5, VerifierAnnounces
  <2> QED
    BY <1>6, <2>1, <2>2, <2>3, <2>4, <2>5 DEF OtherThreads
<1> QED
  BY <1>2, <1>3, <1>4, <1>5, <1>6 DEF ClientNext

-----------------------------------------------------------------------------
(***************************************************************************)
(* Theorems                                                                *)
(***************************************************************************)

\* The inductive invariant holds, whatever comes between the steps of sync().
THEOREM ClientInvariant == ClientSpec => []ClientInv
<1>1. ClientInv /\ [ClientNext]_allVars => ClientInv'
  BY SyncNext, AnnouncedNext DEF ClientInv
<1> QED
  BY <1>1, ClientInitInv, PTL DEF ClientSpec

\* No block enters m_knownBad because something went wrong for a while, or
\* because the chain was rewound under the queue: what sync() reports and
\* doneDrain() and the verifiers condemn has a bad seal, a failing execution, or
\* a parent that is bad, was skipped or was never waited for.
THEOREM BadForAReason == ClientSpec => []KnownBadJustified
<1>1. ClientInv => KnownBadJustified
  BY DEF ClientInv, SyncInv
<1> QED
  BY <1>1, ClientInvariant, PTL

\* Unless a failed verification filled m_verified or the assignment of
\* m_syncBlockQueue overwrote an announcement, verified blocks have the flag set,
\* a verifier about to set it, or the worker before its next look at the queue.
THEOREM AnnouncementsReach == ClientSpec => []VerifiedAnnounced
<1>1. ClientInv => VerifiedAnnounced
  BY DEF ClientInv
<1> QED
  BY <1>1, ClientInvariant, PTL
=============================================================================
