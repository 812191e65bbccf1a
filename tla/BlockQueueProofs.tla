-------------------------- MODULE BlockQueueProofs --------------------------
(***************************************************************************)
(* Proofs about BlockQueue, for any number of blocks and verifier threads. *)
(***************************************************************************)
EXTENDS BlockQueue, QueueOpsProofs

(***************************************************************************)
(* The entries of m_verifying                                              *)
(***************************************************************************)

\* The blocks of a set of entries.
BlocksOf(E) == {e.block : e \in E}

\* No block has two entries, a finished and an unfinished one.
OneEntryEach(E) == \A e, f \in E : e.block = f.block => e = f

LEMMA EntryFields == \A e \in Entry : e.block \in Block /\ e.done \in BOOLEAN
BY DEF Entry

LEMMA PlaceholderFields ==
    \A b \in Block : /\ Placeholder(b) \in Entry
                     /\ Placeholder(b).block = b
                     /\ ~Placeholder(b).done
BY DEF Placeholder, Entry

\* The entry of a block that is not finished is its placeholder.
LEMMA UnfinishedIsPlaceholder ==
    \A e \in Entry : ~e.done => e = Placeholder(e.block)
BY DEF Placeholder, Entry

LEMMA BlocksList ==
    ASSUME NEW E \in SUBSET Entry, NEW entries, Lists(entries, E), OneEntryEach(E)
    PROVE  /\ Blocks(entries) \in Seq(Block)
           /\ Len(Blocks(entries)) = Len(entries)
           /\ \A i \in 1..Len(entries) : Blocks(entries)[i] = entries[i].block
           /\ Lists(Blocks(entries), BlocksOf(E))
<1> DEFINE bs == Blocks(entries)
<1>1. /\ entries \in Seq(Entry) /\ Len(entries) \in Nat
      /\ DOMAIN entries = 1..Len(entries)
      /\ \A i \in 1..Len(entries) : entries[i] \in E /\ entries[i] \in Entry
  BY ListsElements, SeqMonotonic
<1>2. bs = [i \in 1..Len(entries) |-> entries[i].block]
  BY <1>1 DEF Blocks
<1>3. \A i \in 1..Len(entries) : /\ entries[i].block \in Block
                                 /\ entries[i].block \in BlocksOf(E)
  BY <1>1, EntryFields DEF BlocksOf
<1>4. /\ bs \in Seq(Block) /\ bs \in Seq(BlocksOf(E))
      /\ Len(bs) = Len(entries)
      /\ \A i \in 1..Len(entries) : bs[i] = entries[i].block
  BY <1>1, <1>2, <1>3
<1> HIDE DEF bs
<1>5. \A x \in BlocksOf(E) : \E i \in 1..Len(bs) : bs[i] = x
  <2> TAKE x \in BlocksOf(E)
  <2>1. PICK e \in E : e.block = x
    BY DEF BlocksOf
  <2>2. PICK i \in 1..Len(entries) : entries[i] = e
    BY DEF Lists
  <2> QED
    BY <1>4, <2>1, <2>2
<1>6. \A i, j \in 1..Len(bs) : bs[i] = bs[j] => i = j
  <2> SUFFICES ASSUME NEW i \in 1..Len(entries), NEW j \in 1..Len(entries), bs[i] = bs[j]
               PROVE  i = j
    BY <1>4
  <2>1. entries[i] = entries[j]
    BY <1>1, <1>4 DEF OneEntryEach
  <2> QED
    BY <2>1 DEF Lists
<1>7. Lists(bs, BlocksOf(E))
  BY <1>4, <1>5, <1>6 DEF Lists
<1> QED
  BY <1>4, <1>7 DEF bs

\* The CHOOSE of FinishedPrefix has a witness: the entries before the first
\* unfinished one.
LEMMA FinishedPrefixDone ==
    ASSUME NEW entries \in Seq(Entry)
    PROVE  /\ FinishedPrefix(entries) \in 0..Len(entries)
           /\ \A i \in 1..FinishedPrefix(entries) : entries[i].done
<1> DEFINE gone == {e \in Entry : e.done}
           P(n) == /\ \A i \in 1..n : entries[i].done
                   /\ n < Len(entries) => ~entries[n + 1].done
<1>1. Len(entries) \in Nat /\ \A i \in 1..Len(entries) : entries[i] \in Entry
  OBVIOUS
<1>2. \E n \in 0..Len(entries) : P(n)
  <2>1. CASE Kept(entries, gone) = {}
    <3>1. \A i \in 1..Len(entries) : entries[i].done
      BY <1>1, <2>1 DEF Kept
    <3>2. P(Len(entries))
      BY <1>1, <3>1
    <3> QED
      BY <1>1, <3>2
  <2>2. CASE Kept(entries, gone) # {}
    <3>1. PICK i \in Kept(entries, gone) : \A j \in 1..(i - 1) : entries[j] \in gone
      BY <2>2, FirstKept
    <3>2. i \in 1..Len(entries) /\ ~entries[i].done
      BY <1>1 DEF Kept
    <3>3. i - 1 \in 0..Len(entries) /\ (i - 1) + 1 = i
      BY <1>1, <3>2
    <3>4. P(i - 1)
      BY <3>1, <3>2, <3>3
    <3> QED
      BY <3>3, <3>4
  <2> QED
    BY <2>1, <2>2
<1>3. FinishedPrefix(entries) = CHOOSE n \in 0..Len(entries) : P(n)
  BY DEF FinishedPrefix
<1>4. FinishedPrefix(entries) \in 0..Len(entries) /\ P(FinishedPrefix(entries))
  <2> HIDE DEF P
  <2> QED
    BY <1>2, <1>3
<1> QED
  BY <1>4

\* What a call of drainVerified_WITH_BOTH_LOCKS leaves of the entries E and adds
\* to the blocks V of m_verified: F moves on, but for the blocks of refused.
Moved(V, E, ready, bad) ==
    \E F \in SUBSET E : \E refused \in SUBSET BlocksOf(F) :
        /\ \A e \in F : e.done
        /\ Lists(verifying', E \ F)
        /\ Lists(verified', V \cup (BlocksOf(F) \ refused))
        /\ readySet' = ready \ refused
        /\ knownBad' = bad \cup refused

\* drainVerified_WITH_BOTH_LOCKS moves finished entries only: each of their
\* blocks ends up in m_verified or among the bad.
LEMMA DrainVerifiedMoves ==
    ASSUME NEW E \in SUBSET Entry, NEW entries, Lists(entries, E), OneEntryEach(E),
           NEW V \in SUBSET Block, Lists(verified, V), V \cap BlocksOf(E) = {},
           NEW ready, NEW bad, DrainVerified(entries, ready, bad)
    PROVE  Moved(V, E, ready, bad)
<1> DEFINE n == FinishedPrefix(entries)
           bs == Blocks(entries)
           F == FirstOf(entries, n)
           front == SubSeq(bs, 1, n)
<1>1. /\ entries \in Seq(Entry) /\ Len(entries) \in Nat
      /\ \A i \in 1..Len(entries) : entries[i] \in E
  BY ListsElements, SeqMonotonic
<1>2. n \in Nat /\ n <= Len(entries) /\ \A i \in 1..n : entries[i].done
  BY <1>1, FinishedPrefixDone
<1>3. /\ Len(bs) = Len(entries)
      /\ \A i \in 1..Len(entries) : bs[i] = entries[i].block
      /\ Lists(bs, BlocksOf(E))
  BY BlocksList
<1> HIDE DEF n, bs
<1>4. F \subseteq E /\ Lists(SubSeq(entries, n + 1, Len(entries)), E \ F)
  BY <1>2, ListsCut
<1>5. Lists(front, BlocksOf(F))
  <2>1. Lists(front, FirstOf(bs, n))
    BY <1>2, <1>3, ListsCut
  <2>2. \A i \in 1..n : bs[i] = entries[i].block
    BY <1>1, <1>2, <1>3
  <2>3. FirstOf(bs, n) = BlocksOf(F)
    BY <2>2 DEF FirstOf, BlocksOf
  <2> QED
    BY <2>1, <2>3
<1>6. ToSet(front) = BlocksOf(F)
  BY <1>5, ListsToSet
<1>7. \A e \in F : e.done
  BY <1>2 DEF FirstOf
<1>8. BlocksOf(F) \subseteq BlocksOf(E)
  BY <1>4 DEF BlocksOf
<1> HIDE DEF F, front
<1>9. PICK refused \in SUBSET ToSet(front) :
         /\ verifying' = SubSeq(entries, n + 1, Len(entries))
         /\ verified' = verified \o Without(front, refused)
         /\ readySet' = ready \ refused
         /\ knownBad' = bad \cup refused
  BY DEF DrainVerified, n, bs, front
<1>10. Lists(Without(front, refused), BlocksOf(F) \ refused)
  BY <1>5, ListsWithout
<1>11. Lists(verified', V \cup (BlocksOf(F) \ refused))
  <2>1. V \cap (BlocksOf(F) \ refused) = {}
    BY <1>8
  <2> QED
    BY <1>9, <1>10, <2>1, ListsConcat
<1> QED
  BY <1>4, <1>6, <1>7, <1>9, <1>11 DEF Moved

\* Finish turns one placeholder into a finished entry.
LEMMA FinishList ==
    ASSUME NEW E \in SUBSET Entry, NEW entries, Lists(entries, E), OneEntryEach(E),
           NEW b \in Block
    PROVE  LET G == IF Placeholder(b) \in E
                    THEN (E \ {Placeholder(b)}) \cup {Finished(b)}
                    ELSE E
           IN  /\ G \subseteq Entry
               /\ OneEntryEach(G)
               /\ BlocksOf(G) = BlocksOf(E)
               /\ Lists(Finish(entries, b), G)
<1> DEFINE p == Placeholder(b)
           d == Finished(b)
           G == (E \ {p}) \cup {d}
<1>1. /\ entries \in Seq(E) /\ Len(entries) \in Nat /\ DOMAIN entries = 1..Len(entries)
      /\ \A i \in 1..Len(entries) : entries[i] \in E
      /\ \A e \in E : \E i \in 1..Len(entries) : entries[i] = e
      /\ \A i, j \in 1..Len(entries) : entries[i] = entries[j] => i = j
  BY ListsElements DEF Lists
<1>2. CASE p \notin E
  <2>1. ~ \E i \in DOMAIN entries : entries[i] = Placeholder(b)
    BY <1>1, <1>2
  <2>2. Finish(entries, b) = entries
    BY <2>1 DEF Finish
  <2> QED
    BY <1>2, <2>2
<1>3. CASE p \in E
  <2>1. p \in Entry /\ p.block = b /\ ~p.done /\ d \in Entry /\ d.block = b
    BY PlaceholderFields DEF Finished, Entry
  <2>2. \A e \in E \ {p} : e.block # b /\ e # d
    BY <1>3, <2>1 DEF OneEntryEach
  <2>3. G \subseteq Entry /\ OneEntryEach(G)
    BY <2>1, <2>2 DEF OneEntryEach
  <2>4. BlocksOf(G) = BlocksOf(E)
    BY <1>3, <2>1 DEF BlocksOf
  <2>5. PICK i \in 1..Len(entries) : entries[i] = p
    BY <1>1, <1>3
  <2>6. \A j \in 1..Len(entries) : j # i => entries[j] \in E \ {p}
    BY <1>1, <2>5
  <2>7. Finish(entries, b) = [entries EXCEPT ![i] = d]
    <3> DEFINE Q(k) == /\ entries[k] = Placeholder(b)
                       /\ \A j \in 1..(k - 1) : entries[j] # Placeholder(b)
    <3>1. Q(i)
      <4>1. \A j \in 1..(i - 1) : j \in 1..Len(entries) /\ j # i
        BY <1>1
      <4> QED
        BY <2>5, <2>6, <4>1
    <3>2. \A k \in DOMAIN entries : Q(k) => k = i
      BY <1>1, <2>5
    <3>3. (CHOOSE k \in DOMAIN entries : Q(k)) = i
      <4> HIDE DEF Q
      <4> QED
        BY <1>1, <3>1, <3>2
    <3>4. \E k \in DOMAIN entries : entries[k] = Placeholder(b)
      BY <1>1, <2>5
    <3> QED
      BY <3>3, <3>4 DEF Finish
  <2> DEFINE t == Finish(entries, b)
  <2>9. t = [entries EXCEPT ![i] = d]
    BY <2>7
  <2> HIDE DEF G, d, p
  <2>10. d \in G /\ E \ {p} \subseteq G /\ \A x \in G : x = d \/ x \in E \ {p}
    BY DEF G
  <2>11. /\ Len(t) = Len(entries)
         /\ \A j \in 1..Len(entries) : t[j] = IF j = i THEN d ELSE entries[j]
    BY <1>1, <2>9
  <2>12. t \in Seq(G)
    <3>1. \A j \in 1..Len(entries) : t[j] \in G
      BY <2>6, <2>10, <2>11
    <3>2. DOMAIN t = 1..Len(entries) /\ t = [j \in 1..Len(entries) |-> t[j]]
      BY <1>1, <2>9
    <3> HIDE DEF t
    <3> QED
      BY <1>1, <3>1, <3>2
  <2> HIDE DEF t
  <2>13. \A x \in G : \E j \in 1..Len(t) : t[j] = x
    <3> TAKE x \in G
    <3>1. CASE x = d
      BY <2>11, <3>1
    <3>2. CASE x \in E \ {p}
      <4>1. PICK j \in 1..Len(entries) : entries[j] = x
        BY <1>1, <3>2
      <4> QED
        BY <2>5, <2>11, <3>2, <4>1
    <3> QED
      BY <2>10, <3>1, <3>2
  <2>14. \A j, k \in 1..Len(t) : t[j] = t[k] => j = k
    <3>1. \A j \in 1..Len(entries) : j # i => t[j] # d
      BY <2>2, <2>6, <2>11 DEF d, p
    <3> QED
      BY <1>1, <2>11, <3>1
  <2>15. Lists(t, G)
    BY <2>12, <2>13, <2>14 DEF Lists
  <2> QED
    BY <1>3, <2>3, <2>4, <2>15 DEF t, G, d, p
<1> QED
  BY <1>2, <1>3

-----------------------------------------------------------------------------
(***************************************************************************)
(* The inductive invariant                                                 *)
(***************************************************************************)

\* The three queues hold each block once, no two of them the same, and together
\* what readySet holds. Stated of values, so that it can be used of the values
\* before and after a step.
Queues(vd, vg, uv, ready) ==
    \E V, U \in SUBSET Block, E \in SUBSET Entry :
        /\ Lists(vd, V)
        /\ Lists(vg, E)
        /\ Lists(uv, U)
        /\ OneEntryEach(E)
        /\ V \cap BlocksOf(E) = {}
        /\ V \cap U = {}
        /\ BlocksOf(E) \cap U = {}
        /\ ready = V \cup BlocksOf(E) \cup U

\* A thread is busy exactly as long as it has a block: the next one it takes
\* does not make it forget a place it holds in m_verifying.
BusyHasJob == \A v \in Verifier : pc[v] = "busy" <=> job[v] # NoBlock

IInv ==
    /\ TypeOK
    /\ Queues(verified, verifying, unverified, readySet)
    /\ OnePlace
    /\ NoOrphanForgotten
    /\ BusyHasJob
    /\ PlacesAndJobs
    /\ DifficultyCovers
    /\ SomeoneAwake

LEMMA QueuesType ==
    ASSUME NEW vd, NEW vg, NEW uv, NEW ready, Queues(vd, vg, uv, ready)
    PROVE  /\ vd \in Seq(Block)
           /\ vg \in Seq(Entry)
           /\ uv \in Seq(Block)
           /\ ready \subseteq Block
<1>1. PICK V \in SUBSET Block, U \in SUBSET Block, E \in SUBSET Entry :
         /\ Lists(vd, V)
         /\ Lists(vg, E)
         /\ Lists(uv, U)
         /\ ready = V \cup BlocksOf(E) \cup U
  BY DEF Queues
<1>2. vd \in Seq(V) /\ vg \in Seq(E) /\ uv \in Seq(U)
  BY <1>1, ListsElements
<1>3. BlocksOf(E) \subseteq Block
  BY EntryFields DEF BlocksOf
<1> QED
  BY <1>1, <1>2, <1>3, SeqMonotonic

\* What invariants() asserts follows from Queues.
LEMMA QueuesPipeline ==
    ASSUME Queues(verified, verifying, unverified, readySet)
    PROVE  ReadyIsPipeline /\ Invariants
<1>1. PICK V \in SUBSET Block, U \in SUBSET Block, E \in SUBSET Entry :
         /\ Lists(verified, V)
         /\ Lists(verifying, E)
         /\ Lists(unverified, U)
         /\ OneEntryEach(E)
         /\ V \cap BlocksOf(E) = {}
         /\ V \cap U = {}
         /\ BlocksOf(E) \cap U = {}
         /\ readySet = V \cup BlocksOf(E) \cup U
  BY DEF Queues
<1>2. Lists(Blocks(verifying), BlocksOf(E))
  BY <1>1, BlocksList
<1>3. Lists(verified \o Blocks(verifying), V \cup BlocksOf(E))
  BY <1>1, <1>2, ListsConcat
<1>4. (V \cup BlocksOf(E)) \cap U = {}
  BY <1>1
<1>5. Lists(Pipeline, readySet)
  BY <1>1, <1>3, <1>4, ListsConcat DEF Pipeline
<1>6. Pipeline \in Seq(readySet)
  BY <1>5, ListsElements
<1>7. ReadyIsPipeline
  BY <1>5, <1>6, ListsIsInjective DEF ReadyIsPipeline
<1>8. Invariants
  BY <1>5, ListsCardinality DEF Invariants
<1> QED
  BY <1>7, <1>8

-----------------------------------------------------------------------------
(***************************************************************************)
(* What the helpers of the actions do to the parts of the invariant        *)
(***************************************************************************)

\* After notify_one somebody is awake, and who has a job keeps it.
LEMMA WakeOneWakes ==
    ASSUME NEW p \in [Verifier -> {"idle", "asleep", "busy", "notify", "exited"}],
           NEW q \in WakeOne(p)
    PROVE  /\ q \in [Verifier -> {"idle", "asleep", "busy", "notify", "exited"}]
           /\ \A v \in Verifier : q[v] = "busy" <=> p[v] = "busy"
           /\ \E v \in Verifier : q[v] # "asleep"
<1>1. CASE \E v \in Verifier : p[v] = "asleep"
  <2>1. PICK v \in {w \in Verifier : p[w] = "asleep"} : q = [p EXCEPT ![v] = "idle"]
    BY <1>1 DEF WakeOne
  <2> QED
    BY <2>1
<1>2. CASE ~ \E v \in Verifier : p[v] = "asleep"
  <2>1. q = p
    BY <1>2 DEF WakeOne
  <2> QED
    BY <1>2, <2>1, BlockAssumption
<1> QED
  BY <1>1, <1>2

LEMMA WakeAllWakes ==
    ASSUME NEW p \in [Verifier -> {"idle", "asleep", "busy", "notify", "exited"}]
    PROVE  /\ WakeAll(p) \in [Verifier -> {"idle", "asleep", "busy", "notify", "exited"}]
           /\ \A v \in Verifier : WakeAll(p)[v] = "busy" <=> p[v] = "busy"
           /\ \E v \in Verifier : WakeAll(p)[v] # "asleep"
<1>1. \A v \in Verifier : WakeAll(p)[v] = IF p[v] = "asleep" THEN "idle" ELSE p[v]
  BY DEF WakeAll
<1>2. WakeAll(p) \in [Verifier -> {"idle", "asleep", "busy", "notify", "exited"}]
  BY DEF WakeAll
<1> QED
  BY <1>1, <1>2, BlockAssumption

\* A list counts each of its blocks once into the difficulty.
LEMMA SumOfList ==
    ASSUME NEW S \in SUBSET Block, NEW s, Lists(s, S)
    PROVE  \A b \in Block : SumDifficulty(s)[b] = IF b \in S THEN 1 ELSE 0
<1> TAKE b \in Block
<1>1. /\ DOMAIN s = 1..Len(s)
      /\ \A i \in 1..Len(s) : s[i] \in S
      /\ \A x \in S : \E i \in 1..Len(s) : s[i] = x
      /\ \A i, j \in 1..Len(s) : s[i] = s[j] => i = j
  BY ListsElements DEF Lists
<1> DEFINE at == {i \in DOMAIN s : s[i] = b}
<1>2. CASE b \in S
  <2>1. PICK i \in 1..Len(s) : s[i] = b
    BY <1>1, <1>2
  <2>2. at = {i}
    BY <1>1, <2>1
  <2>3. Cardinality(at) = 1
    BY <2>2, FS_Singleton
  <2> QED
    BY <1>2, <2>3 DEF SumDifficulty
<1>3. CASE b \notin S
  <2>1. at = {}
    BY <1>1, <1>3
  <2>2. Cardinality(at) = 0
    BY <2>1, FS_EmptySet
  <2> QED
    BY <1>3, <2>2 DEF SumDifficulty
<1> QED
  BY <1>2, <1>3

\* updateBad takes exactly S out of the queues, each entry of m_verifying with
\* its block, and leaves nothing waiting for a block of S.
LEMMA StrikeOutTakes ==
    ASSUME NEW held, Queues(verified, verifying, unverified, held),
           unknown = unknownSet, unknown \cap held = {},
           NEW bad \in SUBSET Block, NEW S \in SUBSET Block,
           IsStruckOut(S, bad), StrikeOut(S, bad)
    PROVE  /\ Queues(verified', verifying', unverified', held \ S)
           /\ S \subseteq unknown \cup held
           /\ readySet' = readySet \ S
           /\ knownBad' = knownBad \cup bad \cup S
           /\ unknown' = unknownSet'
           /\ unknown' \subseteq unknown \ S
           /\ \A u \in unknown' : Parent[u] \notin S \cup bad
           /\ ToSet(verifying') \subseteq ToSet(verifying)
           /\ \A e \in ToSet(verifying) \ ToSet(verifying') : e.block \in S
           /\ unverified' # <<>> => unverified # <<>>
<1>1. PICK V \in SUBSET Block, U \in SUBSET Block, E \in SUBSET Entry :
         /\ Lists(verified, V)
         /\ Lists(verifying, E)
         /\ Lists(unverified, U)
         /\ OneEntryEach(E)
         /\ V \cap BlocksOf(E) = {}
         /\ V \cap U = {}
         /\ BlocksOf(E) \cap U = {}
         /\ held = V \cup BlocksOf(E) \cup U
  BY DEF Queues
<1>2. ToSet(verified) = V /\ ToSet(verifying) = E /\ ToSet(unverified) = U
  BY <1>1, ListsToSet
<1> DEFINE all == knownBad \cup bad
           orphaned == {u \in unknown : Parent[u] \in S \cup bad}
           queued == {b \in V \cup U : Parent[b] \in S \cup all \/ b \in all}
           gone == {e \in E : Parent[e.block] \in S \cup all \/ e \in {Placeholder(b) : b \in all}}
<1>3. S = orphaned \cup queued \cup BlocksOf(gone)
  BY <1>2 DEF IsStruckOut, BlocksOf
<1>4. /\ knownBad' = knownBad \cup bad \cup S
      /\ readySet' = readySet \ S
      /\ verified' = Without(verified, S)
      /\ unverified' = Without(unverified, S)
      /\ unknown' = unknown \ orphaned
      /\ unknownSet' = unknownSet \ orphaned
  BY DEF StrikeOut
<1>5. BlocksOf(gone) \subseteq S /\ queued \subseteq held /\ BlocksOf(gone) \subseteq held
  BY <1>1, <1>3 DEF BlocksOf
<1>6. unknown \cap held = {} /\ unknown = unknownSet
  OBVIOUS
<1>7. \A e \in E \ gone : e.block \notin S
  <2> TAKE e \in E \ gone
  <2>1. e.block \in BlocksOf(E) /\ e.block \in held
    BY <1>1 DEF BlocksOf
  <2>2. e.block \notin orphaned
    BY <1>6, <2>1
  <2>3. e.block \notin queued
    BY <1>1, <2>1
  <2>4. e.block \notin BlocksOf(gone)
    BY <1>1 DEF BlocksOf, OneEntryEach
  <2> QED
    BY <1>3, <2>2, <2>3, <2>4
<1>8. verifying' = Without(verifying, gone)
  <2> DEFINE goneEntries == {e \in ToSet(verifying) :
                               \/ Parent[e.block] \in knownBad \cup bad \cup S
                               \/ e \in {Placeholder(b) : b \in knownBad \cup bad \cup S}}
  <2>1. verifying' = Without(verifying, goneEntries)
    BY DEF StrikeOut
  <2>2. gone \subseteq goneEntries
    BY <1>2
  <2>3. ASSUME NEW e \in goneEntries PROVE e \in gone
    <3>1. e \in E
      BY <1>2
    <3>2. CASE Parent[e.block] \in knownBad \cup bad \cup S
      BY <3>1, <3>2
    <3>3. CASE \E b \in knownBad \cup bad \cup S : e = Placeholder(b)
      <4>1. PICK b \in knownBad \cup bad \cup S : e = Placeholder(b)
        BY <3>3
      <4>2. e.block = b
        BY <4>1 DEF Placeholder
      <4>3. CASE b \in S
        BY <1>7, <3>1, <4>2, <4>3
      <4>4. CASE b \in all
        BY <3>1, <4>1, <4>4
      <4> QED
        BY <4>3, <4>4
    <3> QED
      BY <2>3, <3>2, <3>3
  <2> HIDE DEF gone, goneEntries
  <2>4. gone = goneEntries
    BY <2>2, <2>3
  <2> QED
    BY <2>1, <2>4
<1>9. /\ Lists(verified', V \ S) /\ Lists(unverified', U \ S) /\ Lists(verifying', E \ gone)
      /\ BlocksOf(E \ gone) = BlocksOf(E) \ S
  <2>1. Lists(verified', V \ S) /\ Lists(unverified', U \ S) /\ Lists(verifying', E \ gone)
    BY <1>1, <1>4, <1>8, ListsWithout
  <2>2. \A e \in gone : e.block \in S
    BY <1>5 DEF BlocksOf
  <2> HIDE DEF gone
  <2>3. BlocksOf(E \ gone) = BlocksOf(E) \ S
    BY <1>7, <2>2 DEF BlocksOf
  <2> QED
    BY <2>1, <2>3
<1>10. OneEntryEach(E \ gone) /\ E \ gone \in SUBSET Entry
  BY <1>1 DEF OneEntryEach
<1>11. Queues(verified', verifying', unverified', held \ S)
  <2> HIDE DEF gone
  <2>1. /\ (V \ S) \cap BlocksOf(E \ gone) = {}
        /\ (V \ S) \cap (U \ S) = {}
        /\ BlocksOf(E \ gone) \cap (U \ S) = {}
        /\ held \ S = (V \ S) \cup BlocksOf(E \ gone) \cup (U \ S)
    BY <1>1, <1>4, <1>9
  <2>2. V \ S \in SUBSET Block /\ U \ S \in SUBSET Block
    OBVIOUS
  <2> QED
    BY <1>9, <1>10, <2>1, <2>2 DEF Queues
<1>12. S \subseteq unknown \cup held
  <2>1. orphaned \subseteq unknown
    OBVIOUS
  <2> HIDE DEF orphaned, queued, gone
  <2> QED
    BY <1>3, <1>5, <2>1
<1>13. unknown' \subseteq unknown \ S
  BY <1>3, <1>4, <1>5, <1>6
<1>14. \A u \in unknown' : Parent[u] \notin S \cup bad
  BY <1>4
<1>15. ToSet(verifying') = E \ gone
  BY <1>9, ListsToSet
<1>16. \A e \in ToSet(verifying) \ ToSet(verifying') : e.block \in S
  BY <1>2, <1>5, <1>15 DEF BlocksOf
<1>17. unverified' # <<>> => unverified # <<>>
  <2> SUFFICES ASSUME unverified = <<>>
               PROVE  unverified' = <<>>
    OBVIOUS
  <2>1. U = {}
    BY <1>2 DEF ToSet
  <2>2. Lists(unverified', {})
    BY <1>9, <2>1
  <2> QED
    BY <2>2, ListsNothing
<1> QED
  BY <1>2, <1>4, <1>6, <1>11, <1>12, <1>13, <1>14, <1>15, <1>16, <1>17

LEMMA StrikeOutMoves ==
    ASSUME TypeOK, OnePlace,
           Queues(verified, verifying, unverified, readySet),
           NEW bad \in SUBSET Block, NEW S \in SUBSET Block,
           IsStruckOut(S, bad), StrikeOut(S, bad)
    PROVE  /\ Queues(verified', verifying', unverified', readySet')
           /\ S \subseteq unknown \cup readySet
           /\ readySet' = readySet \ S
           /\ knownBad' = knownBad \cup bad \cup S
           /\ unknown' = unknownSet'
           /\ unknown' \subseteq unknown \ S
           /\ \A u \in unknown' : Parent[u] \notin S \cup bad
           /\ ToSet(verifying') \subseteq ToSet(verifying)
           /\ \A e \in ToSet(verifying) \ ToSet(verifying') : e.block \in S
           /\ unverified' # <<>> => unverified # <<>>
<1>1. unknown = unknownSet /\ unknown \cap readySet = {}
  BY DEF OnePlace
<1>2. /\ Queues(verified', verifying', unverified', readySet \ S)
      /\ S \subseteq unknown \cup readySet
      /\ readySet' = readySet \ S
      /\ knownBad' = knownBad \cup bad \cup S
      /\ unknown' = unknownSet'
      /\ unknown' \subseteq unknown \ S
      /\ \A u \in unknown' : Parent[u] \notin S \cup bad
      /\ ToSet(verifying') \subseteq ToSet(verifying)
      /\ \A e \in ToSet(verifying) \ ToSet(verifying') : e.block \in S
      /\ unverified' # <<>> => unverified # <<>>
  BY <1>1, StrikeOutTakes
<1> QED
  BY <1>2

-----------------------------------------------------------------------------
(***************************************************************************)
(* Every action keeps the invariant                                        *)
(***************************************************************************)

LEMMA InitEstablishes == Init => IInv
<1> SUFFICES ASSUME Init
             PROVE  IInv
  OBVIOUS
<1> USE DEF Init
<1>1. TypeOK
  <2>1. verifying \in Seq(Entry) /\ verified \in Seq(Block) /\ unverified \in Seq(Block)
    OBVIOUS
  <2>2. 0 \in 0..MaxTime
    BY BlockAssumption
  <2> QED
    BY <2>1, <2>2 DEF TypeOK, NoDifficulty
<1>2. Queues(verified, verifying, unverified, readySet)
  <2>1. BlocksOf({}) = {} /\ OneEntryEach({})
    BY DEF BlocksOf, OneEntryEach
  <2> QED
    BY <2>1, ListsEmpty DEF Queues
<1>3. OnePlace /\ NoOrphanForgotten /\ BusyHasJob
  BY DEF OnePlace, NoOrphanForgotten, BusyHasJob
<1>4. PlacesAndJobs
  <2>1. ToSet(verifying) = {}
    BY DEF ToSet
  <2> QED
    BY <2>1 DEF PlacesAndJobs
<1>5. DifficultyCovers /\ SomeoneAwake
  BY DEF DifficultyCovers, SomeoneAwake, NoDifficulty
<1> QED
  BY <1>1, <1>2, <1>3, <1>4, <1>5 DEF IInv

\* What a step that leaves the sets and the queues alone has to show.
LEMMA QueuesAlone ==
    ASSUME IInv, UNCHANGED <<setVars, unknown, unknownSet, queueVars, drainingDifficulty,
                             chain>>,
           TypeOK', BusyHasJob', SomeoneAwake', UNCHANGED <<job, difficulty>>,
           future' = futureSet', future' \subseteq future
    PROVE  IInv'
<1> USE DEF setVars, queueVars
<1>1. Queues(verified', verifying', unverified', readySet')
  BY DEF IInv
<1>2. OnePlace'
  BY DEF IInv, OnePlace
<1>3. NoOrphanForgotten'
  BY DEF IInv, NoOrphanForgotten
<1>4. PlacesAndJobs'
  BY DEF IInv, PlacesAndJobs
<1>5. DifficultyCovers'
  BY DEF IInv, DifficultyCovers
<1> QED
  BY <1>1, <1>2, <1>3, <1>4, <1>5 DEF IInv

LEMMA ThreadStepsKeep ==
    ASSUME IInv, NEW v \in Verifier, VerifierWait(v) \/ OnReady(v) \/ VerifierExit(v)
    PROVE  IInv'
<1>1. /\ UNCHANGED <<setVars, waitVars, todo, queueVars, difficultyVars, deleting, job,
                     now, chain, forced>>
      /\ \E st \in {"asleep", "idle", "exited"} : pc' = [pc EXCEPT ![v] = st]
      /\ pc[v] # "busy"
      /\ pc'[v] = "asleep" => unverified = <<>>
  <2>1. pc \in [Verifier -> {"idle", "asleep", "busy", "notify", "exited"}]
    BY DEF IInv, TypeOK
  <2> QED
    BY <2>1 DEF VerifierWait, OnReady, VerifierExit, difficultyVars, waitVars
<1> USE DEF setVars, waitVars, queueVars, difficultyVars
<1>2. pc \in [Verifier -> {"idle", "asleep", "busy", "notify", "exited"}]
  BY DEF IInv, TypeOK
<1>3. TypeOK'
  BY <1>1 DEF IInv, TypeOK
<1>4. BusyHasJob'
  BY <1>1, <1>2 DEF IInv, BusyHasJob
<1>5. SomeoneAwake'
  BY <1>1, <1>2 DEF IInv, SomeoneAwake
<1>6. future' = futureSet' /\ future' \subseteq future
  BY <1>1 DEF IInv, OnePlace
<1> QED
  BY <1>1, <1>3, <1>4, <1>5, <1>6, QueuesAlone

LEMMA StopKeeps == ASSUME IInv, Stop PROVE IInv'
<1> USE DEF Stop, setVars, waitVars, queueVars, difficultyVars
<1>1. pc \in [Verifier -> {"idle", "asleep", "busy", "notify", "exited"}]
  BY DEF IInv, TypeOK
<1>2. TypeOK'
  BY <1>1, WakeAllWakes DEF IInv, TypeOK
<1>3. BusyHasJob'
  BY <1>1, WakeAllWakes DEF IInv, BusyHasJob
<1>4. SomeoneAwake'
  BY DEF SomeoneAwake
<1>5. future' = futureSet' /\ future' \subseteq future
  BY DEF IInv, OnePlace
<1> QED
  BY <1>2, <1>3, <1>4, <1>5, QueuesAlone

LEMMA ClockTickKeeps == ASSUME IInv, ClockTick PROVE IInv'
<1> USE DEF ClockTick, setVars, waitVars, queueVars, difficultyVars, threadVars
<1>1. TypeOK'
  BY BlockAssumption DEF IInv, TypeOK
<1>2. BusyHasJob' /\ SomeoneAwake'
  BY DEF IInv, BusyHasJob, SomeoneAwake
<1>3. future' = futureSet' /\ future' \subseteq future
  BY DEF IInv, OnePlace
<1> QED
  BY <1>1, <1>2, <1>3, QueuesAlone

LEMMA TickTakeKeeps == ASSUME IInv, TickTake PROVE IInv'
<1> USE DEF TickTake, setVars, queueVars, difficultyVars, threadVars
<1>1. TypeOK'
  BY DEF IInv, TypeOK
<1>2. BusyHasJob' /\ SomeoneAwake'
  BY DEF IInv, BusyHasJob, SomeoneAwake
<1>3. future' = futureSet' /\ future' \subseteq future
  BY DEF IInv, OnePlace
<1> QED
  BY <1>1, <1>2, <1>3, QueuesAlone

LEMMA ChainImportKeeps ==
    ASSUME IInv, NEW b \in Block, ChainImport(b)
    PROVE  IInv'
<1> USE DEF ChainImport, setVars, waitVars, queueVars, difficultyVars, threadVars
<1>1. TypeOK'
  BY DEF IInv, TypeOK
<1>2. Queues(verified', verifying', unverified', readySet')
  BY DEF IInv
<1>3. OnePlace'
  BY DEF IInv, OnePlace
<1>4. NoOrphanForgotten'
  BY DEF IInv, NoOrphanForgotten
<1>5. BusyHasJob' /\ PlacesAndJobs'
  BY DEF IInv, BusyHasJob, PlacesAndJobs
<1>6. DifficultyCovers' /\ SomeoneAwake'
  BY DEF IInv, DifficultyCovers, SomeoneAwake
<1> QED
  BY <1>1, <1>2, <1>3, <1>4, <1>5, <1>6 DEF IInv

-----------------------------------------------------------------------------
(* import()                                                                *)

\* Blocks that no set holds yet.
LEMMA FreshBlock ==
    ASSUME IInv, NEW b \in Block, Importable(b)
    PROVE  b \notin readySet \cup drainingSet \cup unknown \cup knownBad \cup future \cup chain
BY DEF IInv, OnePlace, Importable, Known

\* One more difficulty in the sum takes nobody's away.
LEMMA AddDifficultyKeeps ==
    ASSUME difficulty \in [Block -> Nat], NEW b \in Block, AddDifficulty(b)
    PROVE  /\ difficulty' \in [Block -> Nat]
           /\ \A c \in Block : difficulty[c] >= 1 => difficulty'[c] >= 1
           /\ difficulty'[b] >= 1
BY DEF AddDifficulty

LEMMA ImportFutureKeeps ==
    ASSUME IInv, NEW b \in Block, Importable(b), ImportFuture(b),
           UNCHANGED <<now, chain, forced>>, todo' \subseteq todo
    PROVE  IInv'
<1> USE DEF ImportFuture, setVars, queueVars, threadVars
<1>1. b \notin readySet \cup drainingSet \cup unknown \cup knownBad \cup future \cup chain
  BY FreshBlock
<1>2. /\ difficulty' \in [Block -> Nat]
      /\ \A c \in Block : difficulty[c] >= 1 => difficulty'[c] >= 1
      /\ difficulty'[b] >= 1
  BY AddDifficultyKeeps DEF IInv, TypeOK
<1>3. TypeOK'
  BY <1>2 DEF IInv, TypeOK
<1>4. Queues(verified', verifying', unverified', readySet')
  BY DEF IInv
<1>5. OnePlace' /\ NoOrphanForgotten'
  BY <1>1 DEF IInv, OnePlace, NoOrphanForgotten
<1>6. BusyHasJob' /\ PlacesAndJobs' /\ SomeoneAwake'
  BY DEF IInv, BusyHasJob, PlacesAndJobs, SomeoneAwake
<1>7. DifficultyCovers'
  BY <1>2 DEF IInv, DifficultyCovers, TypeOK
<1> QED
  BY <1>3, <1>4, <1>5, <1>6, <1>7 DEF IInv

LEMMA ImportUnknownParentKeeps ==
    ASSUME IInv, NEW b \in Block, Importable(b), ImportUnknownParent(b),
           UNCHANGED <<now, chain, forced>>, todo' \subseteq todo
    PROVE  IInv'
<1> USE DEF ImportUnknownParent, setVars, queueVars, threadVars
<1>1. b \notin readySet \cup drainingSet \cup unknown \cup knownBad \cup future \cup chain
  BY FreshBlock
<1>2. /\ difficulty' \in [Block -> Nat]
      /\ \A c \in Block : difficulty[c] >= 1 => difficulty'[c] >= 1
      /\ difficulty'[b] >= 1
  BY AddDifficultyKeeps DEF IInv, TypeOK
<1>3. TypeOK'
  BY <1>2 DEF IInv, TypeOK
<1>4. Queues(verified', verifying', unverified', readySet')
  BY DEF IInv
<1>5. OnePlace'
  BY <1>1 DEF IInv, OnePlace
<1>6. NoOrphanForgotten'
  BY DEF IInv, NoOrphanForgotten, ParentAtHand
<1>7. BusyHasJob' /\ PlacesAndJobs' /\ SomeoneAwake'
  BY DEF IInv, BusyHasJob, PlacesAndJobs, SomeoneAwake
<1>8. DifficultyCovers'
  BY <1>2 DEF IInv, DifficultyCovers, TypeOK
<1> QED
  BY <1>3, <1>4, <1>5, <1>6, <1>7, <1>8 DEF IInv

\* updateBad() with blocks that are nowhere else, or were draining.
LEMMA StrikeOutKeeps ==
    ASSUME IInv, NEW bad \in SUBSET Block, NEW S \in SUBSET Block,
           IsStruckOut(S, bad), StrikeOut(S, bad),
           bad \cap (readySet \cup unknown \cup future \cup chain) = {},
           drainingSet' \in {drainingSet, {}},
           drainingSet' \cap bad = {},
           difficulty' \in [Block -> Nat],
           \A c \in Block \ (drainingSet \ drainingSet') :
               difficulty[c] >= 1 => difficulty'[c] >= 1,
           drainingDifficulty' \in [Block -> Nat],
           \A c \in Block : drainingDifficulty'[c] = IF c \in drainingSet' THEN 1 ELSE 0,
           UNCHANGED <<future, futureSet, threadVars, now, chain, forced>>,
           todo' \subseteq todo
    PROVE  IInv'
<1> USE DEF threadVars
<1>1. TypeOK /\ OnePlace /\ Queues(verified, verifying, unverified, readySet)
  BY DEF IInv
<1>2. /\ Queues(verified', verifying', unverified', readySet')
      /\ S \subseteq unknown \cup readySet
      /\ readySet' = readySet \ S
      /\ knownBad' = knownBad \cup bad \cup S
      /\ unknown' = unknownSet'
      /\ unknown' \subseteq unknown \ S
      /\ \A u \in unknown' : Parent[u] \notin S \cup bad
      /\ ToSet(verifying') \subseteq ToSet(verifying)
      /\ \A e \in ToSet(verifying) \ ToSet(verifying') : e.block \in S
      /\ unverified' # <<>> => unverified # <<>>
  BY <1>1, StrikeOutMoves
<1>3. TypeOK'
  <2>1. verified' \in Seq(Block) /\ verifying' \in Seq(Entry) /\ unverified' \in Seq(Block)
    BY <1>2, QueuesType
  <2>2. unknown' \subseteq Block /\ unknownSet' \subseteq Block /\ drainingSet' \subseteq Block
    BY <1>1, <1>2 DEF TypeOK
  <2>3. readySet' \subseteq Block /\ knownBad' \subseteq Block /\ todo' \subseteq Block
    BY <1>1, <1>2 DEF TypeOK
  <2> QED
    BY <1>1, <2>1, <2>2, <2>3 DEF TypeOK
<1>4. OnePlace'
  <2>1. future' = futureSet' /\ unknown' = unknownSet'
    BY <1>1, <1>2 DEF OnePlace
  <2>2. readySet' \cap (drainingSet' \cup unknown' \cup future' \cup knownBad' \cup chain') = {}
    BY <1>1, <1>2 DEF OnePlace
  <2>3. drainingSet' \cap (unknown' \cup future' \cup knownBad') = {}
    BY <1>1, <1>2 DEF OnePlace
  <2>4. unknown' \cap (future' \cup knownBad' \cup chain') = {}
    BY <1>1, <1>2 DEF OnePlace
  <2>5. knownBad' \cap chain' = {}
    BY <1>1, <1>2 DEF OnePlace
  <2> QED
    BY <2>1, <2>2, <2>3, <2>4, <2>5 DEF OnePlace
<1>5. NoOrphanForgotten'
  BY <1>2 DEF IInv, NoOrphanForgotten
<1>6. BusyHasJob'
  BY DEF IInv, BusyHasJob
<1>7. PlacesAndJobs'
  <2>1. \A e \in ToSet(verifying') : ~e.done => \E v \in Verifier : job'[v] = e.block
    BY <1>2 DEF IInv, PlacesAndJobs
  <2>2. ASSUME NEW v \in Verifier, job'[v] # NoBlock
        PROVE  Placeholder(job'[v]) \in ToSet(verifying') \/ job'[v] \in knownBad'
    <3>1. CASE Placeholder(job[v]) \in ToSet(verifying)
      <4>1. Placeholder(job[v]).block = job[v]
        BY DEF Placeholder
      <4> QED
        BY <1>2, <3>1, <4>1
    <3>2. CASE job[v] \in knownBad
      BY <1>2, <3>2
    <3> QED
      BY <2>2, <3>1, <3>2 DEF IInv, PlacesAndJobs
  <2>3. \A v, w \in Verifier : job'[v] = job'[w] /\ job'[v] # NoBlock => v = w
    BY DEF IInv, PlacesAndJobs
  <2> QED
    BY <2>1, <2>2, <2>3 DEF PlacesAndJobs
<1>8. DifficultyCovers'
  <2>1. \A c \in readySet' \cup drainingSet' \cup unknown' \cup future' :
           /\ c \in readySet \cup drainingSet \cup unknown \cup future
           /\ c \in Block \ (drainingSet \ drainingSet')
    BY <1>1, <1>2 DEF OnePlace, TypeOK
  <2>2. \A c \in readySet' \cup drainingSet' \cup unknown' \cup future' : difficulty'[c] >= 1
    BY <2>1 DEF IInv, DifficultyCovers
  <2> QED
    BY <2>2 DEF DifficultyCovers
<1>9. SomeoneAwake'
  BY <1>2 DEF IInv, SomeoneAwake
<1> QED
  BY <1>2, <1>3, <1>4, <1>5, <1>6, <1>7, <1>8, <1>9 DEF IInv

LEMMA ImportBadChainKeeps ==
    ASSUME IInv, NEW b \in Block, Importable(b), ImportBadChain(b),
           UNCHANGED <<now, chain, forced>>, todo' \subseteq todo
    PROVE  IInv'
<1>1. b \notin readySet \cup drainingSet \cup unknown \cup knownBad \cup future \cup chain
  BY FreshBlock
<1>2. PICK S \in SUBSET Block : IsStruckOut(S, {b}) /\ StrikeOut(S, {b})
  BY DEF ImportBadChain
<1>3. UNCHANGED <<drainingSet, future, futureSet, difficultyVars, threadVars>>
  BY DEF ImportBadChain
<1>4. /\ {b} \in SUBSET Block
      /\ {b} \cap (readySet \cup unknown \cup future \cup chain) = {}
      /\ drainingSet' \in {drainingSet, {}}
      /\ drainingSet' \cap {b} = {}
  BY <1>1, <1>3
<1>5. /\ difficulty' \in [Block -> Nat]
      /\ \A c \in Block \ (drainingSet \ drainingSet') :
            difficulty[c] >= 1 => difficulty'[c] >= 1
      /\ drainingDifficulty' \in [Block -> Nat]
      /\ \A c \in Block : drainingDifficulty'[c] = IF c \in drainingSet' THEN 1 ELSE 0
  BY <1>3 DEF difficultyVars, IInv, TypeOK, DifficultyCovers
<1> QED
  BY <1>2, <1>3, <1>4, <1>5, StrikeOutKeeps

LEMMA ImportReadyKeeps ==
    ASSUME IInv, NEW b \in Block, Importable(b), ImportReady(b),
           UNCHANGED <<now, chain, forced>>, todo' \subseteq todo
    PROVE  IInv'
<1>1. b \notin readySet \cup drainingSet \cup unknown \cup knownBad \cup future \cup chain
  BY FreshBlock
<1>2. TypeOK /\ OnePlace /\ Queues(verified, verifying, unverified, readySet)
  BY DEF IInv
<1>3. PICK S \in SUBSET unknown : \E s \in SetToSeqs(S) :
         /\ IsCascade(S, b)
         /\ unverified' = unverified \o <<b>> \o s
         /\ readySet' = readySet \cup {b} \cup S
         /\ unknown' = unknown \ S
         /\ unknownSet' = unknownSet \ S
         /\ IF S = {} THEN pc' \in WakeOne(pc) ELSE pc' = WakeAll(pc)
  BY DEF ImportReady
<1>4. PICK s \in SetToSeqs(S) : unverified' = unverified \o <<b>> \o s
  BY <1>3
<1>5. UNCHANGED <<drainingSet, knownBad, future, futureSet, verifying, verified,
                  drainingDifficulty, deleting, job>>
  BY DEF ImportReady
<1>6. S \subseteq Block /\ IsFiniteSet(S) /\ S \cap (readySet \cup {b}) = {}
  BY <1>1, <1>2, FS_Subset, BlockAssumption DEF TypeOK, OnePlace
<1>7. Queues(verified', verifying', unverified', readySet')
  <2>1. PICK V \in SUBSET Block, U \in SUBSET Block, E \in SUBSET Entry :
           /\ Lists(verified, V)
           /\ Lists(verifying, E)
           /\ Lists(unverified, U)
           /\ OneEntryEach(E)
           /\ V \cap BlocksOf(E) = {}
           /\ V \cap U = {}
           /\ BlocksOf(E) \cap U = {}
           /\ readySet = V \cup BlocksOf(E) \cup U
    BY <1>2 DEF Queues
  <2>2. Lists(s, S)
    BY <1>6, SetToSeqsList
  <2>3. Lists(unverified \o <<b>>, U \cup {b})
    BY <1>1, <2>1, ListsSingle, ListsConcat
  <2>4. (U \cup {b}) \cap S = {}
    BY <1>6, <2>1
  <2>5. Lists(unverified', (U \cup {b}) \cup S)
    BY <1>4, <2>2, <2>3, <2>4, ListsConcat
  <2>6. /\ V \cap (U \cup {b} \cup S) = {}
        /\ BlocksOf(E) \cap (U \cup {b} \cup S) = {}
        /\ readySet' = V \cup BlocksOf(E) \cup (U \cup {b} \cup S)
        /\ U \cup {b} \cup S \in SUBSET Block
    BY <1>1, <1>3, <1>6, <2>1
  <2>7. Lists(verified', V) /\ Lists(verifying', E)
    BY <1>5, <2>1
  <2> QED
    BY <2>1, <2>5, <2>6, <2>7 DEF Queues
<1>8. /\ difficulty' \in [Block -> Nat]
      /\ \A c \in Block : difficulty[c] >= 1 => difficulty'[c] >= 1
      /\ difficulty'[b] >= 1
  BY <1>2, AddDifficultyKeeps DEF ImportReady, TypeOK
<1>9. /\ pc' \in [Verifier -> {"idle", "asleep", "busy", "notify", "exited"}]
      /\ \A v \in Verifier : pc'[v] = "busy" <=> pc[v] = "busy"
      /\ \E v \in Verifier : pc'[v] # "asleep"
  <2>1. pc \in [Verifier -> {"idle", "asleep", "busy", "notify", "exited"}]
    BY <1>2 DEF TypeOK
  <2>2. CASE pc' \in WakeOne(pc)
    BY <2>1, <2>2, WakeOneWakes
  <2>3. CASE pc' = WakeAll(pc)
    BY <2>1, <2>3, WakeAllWakes
  <2> QED
    BY <1>3, <2>2, <2>3
<1>10. TypeOK'
  <2>1. unverified' \in Seq(Block) /\ readySet' \subseteq Block
    BY <1>7, QueuesType
  <2>2. unknown' \subseteq Block /\ unknownSet' \subseteq Block
    BY <1>2, <1>3 DEF TypeOK
  <2> QED
    BY <1>2, <1>5, <1>8, <1>9, <2>1, <2>2 DEF TypeOK
<1>11. OnePlace'
  <2>1. future' = futureSet' /\ unknown' = unknownSet'
    BY <1>2, <1>3, <1>5 DEF OnePlace
  <2>2. readySet' \cap (drainingSet' \cup unknown' \cup future' \cup knownBad' \cup chain') = {}
    BY <1>1, <1>2, <1>3, <1>5 DEF OnePlace
  <2> QED
    BY <1>2, <1>3, <1>5, <2>1, <2>2 DEF OnePlace
<1>12. NoOrphanForgotten'
  <2>1. \A u \in unknown' : Parent[u] \notin S \cup {b}
    BY <1>3 DEF IsCascade
  <2> QED
    BY <1>3, <1>5, <2>1 DEF IInv, NoOrphanForgotten
<1>13. BusyHasJob' /\ PlacesAndJobs' /\ SomeoneAwake'
  BY <1>5, <1>9 DEF IInv, BusyHasJob, PlacesAndJobs, SomeoneAwake
<1>14. DifficultyCovers'
  <2>1. \A c \in readySet' \cup drainingSet' \cup unknown' \cup future' :
           c = b \/ c \in readySet \cup drainingSet \cup unknown \cup future
    BY <1>3, <1>5
  <2>2. \A c \in readySet \cup drainingSet \cup unknown \cup future : c \in Block
    BY <1>2 DEF TypeOK
  <2> QED
    BY <1>5, <1>8, <2>1, <2>2 DEF IInv, DifficultyCovers
<1> QED
  BY <1>7, <1>10, <1>11, <1>12, <1>13, <1>14 DEF IInv

LEMMA ImportKeeps ==
    ASSUME IInv, NEW b \in Block, NEW isOurs \in BOOLEAN, Import(b, isOurs),
           todo' \subseteq todo
    PROVE  IInv'
<1>1. Importable(b) /\ UNCHANGED <<now, chain, forced>>
  BY DEF Import
<1>2. ImportFuture(b) \/ ImportBadChain(b) \/ ImportUnknownParent(b) \/ ImportReady(b)
  BY DEF Import
<1> QED
  BY <1>1, <1>2, ImportFutureKeeps, ImportBadChainKeeps, ImportUnknownParentKeeps,
     ImportReadyKeeps

LEMMA TickImportKeeps ==
    ASSUME IInv, NEW b \in Block, TickImport(b)
    PROVE  IInv'
<1>1. todo' \subseteq todo
  BY DEF TickImport
<1>2. CASE Import(b, FALSE)
  BY <1>1, <1>2, ImportKeeps
<1>3. CASE UNCHANGED <<setVars, waitVars, queueVars, difficultyVars, threadVars,
                       now, chain, forced>>
  <2> USE DEF setVars, waitVars, queueVars, difficultyVars, threadVars
  <2>1. TypeOK'
    BY <1>1, <1>3 DEF IInv, TypeOK
  <2>2. BusyHasJob' /\ SomeoneAwake'
    BY <1>3 DEF IInv, BusyHasJob, SomeoneAwake
  <2>3. future' = futureSet' /\ future' \subseteq future
    BY <1>3 DEF IInv, OnePlace
  <2> QED
    BY <1>3, <2>1, <2>2, <2>3, QueuesAlone
<1> QED
  BY <1>2, <1>3 DEF TickImport

-----------------------------------------------------------------------------
(* verifierBody()                                                          *)

\* The invariant in terms of the sets the queues list.
LEMMA QueuesSets ==
    ASSUME IInv
    PROVE  \E V, U \in SUBSET Block, E \in SUBSET Entry :
              /\ Lists(verified, V) /\ ToSet(verified) = V
              /\ Lists(verifying, E) /\ ToSet(verifying) = E
              /\ Lists(unverified, U) /\ ToSet(unverified) = U
              /\ OneEntryEach(E)
              /\ V \cap BlocksOf(E) = {}
              /\ V \cap U = {}
              /\ BlocksOf(E) \cap U = {}
              /\ readySet = V \cup BlocksOf(E) \cup U
BY ListsToSet DEF IInv, Queues

LEMMA VerifierTakeKeeps ==
    ASSUME IInv, NEW v \in Verifier, VerifierTake(v)
    PROVE  IInv'
<1> DEFINE b == Head(unverified)
           p == Placeholder(b)
<1>1. TypeOK /\ OnePlace /\ BusyHasJob /\ PlacesAndJobs
  BY DEF IInv
<1>2. /\ pc[v] = "idle"
      /\ unverified # <<>>
      /\ unverified' = Tail(unverified)
      /\ verifying' = Append(verifying, p)
      /\ pc' = [pc EXCEPT ![v] = "busy"]
      /\ job' = [job EXCEPT ![v] = b]
      /\ UNCHANGED <<setVars, waitVars, todo, verified, difficultyVars, deleting, now,
                     chain, forced>>
  BY DEF VerifierTake
<1>3. PICK V \in SUBSET Block, U \in SUBSET Block, E \in SUBSET Entry :
         /\ Lists(verified, V)
         /\ Lists(verifying, E) /\ ToSet(verifying) = E
         /\ Lists(unverified, U)
         /\ OneEntryEach(E)
         /\ V \cap BlocksOf(E) = {}
         /\ V \cap U = {}
         /\ BlocksOf(E) \cap U = {}
         /\ readySet = V \cup BlocksOf(E) \cup U
  BY QueuesSets
<1>4. b \in U /\ Lists(unverified', U \ {b})
  BY <1>2, <1>3, ListsTail
<1> HIDE DEF b
<1>5. b \in Block /\ b # NoBlock /\ p \in Entry /\ p.block = b
  BY <1>4, PlaceholderFields, BlockAssumption
<1>6. b \in readySet /\ b \notin BlocksOf(E) /\ b \notin knownBad /\ p \notin E
  <2>1. b \in readySet /\ b \notin BlocksOf(E)
    BY <1>3, <1>4
  <2>2. b \notin knownBad
    BY <1>1, <2>1 DEF OnePlace
  <2>3. p \notin E
    BY <1>5, <2>1 DEF BlocksOf
  <2> QED
    BY <2>1, <2>2, <2>3
<1> HIDE DEF p
<1>7. Lists(verifying', E \cup {p})
  BY <1>2, <1>3, <1>6, ListsAppend
<1>8. BlocksOf(E \cup {p}) = BlocksOf(E) \cup {b} /\ OneEntryEach(E \cup {p})
  BY <1>3, <1>5, <1>6 DEF BlocksOf, OneEntryEach
<1>9. Queues(verified', verifying', unverified', readySet')
  <2>1. /\ Lists(verified', V) /\ readySet' = readySet
    BY <1>2, <1>3 DEF setVars
  <2>2. /\ V \cap (BlocksOf(E) \cup {b}) = {}
        /\ V \cap (U \ {b}) = {}
        /\ (BlocksOf(E) \cup {b}) \cap (U \ {b}) = {}
        /\ readySet = V \cup (BlocksOf(E) \cup {b}) \cup (U \ {b})
        /\ U \ {b} \in SUBSET Block
        /\ E \cup {p} \in SUBSET Entry
    BY <1>3, <1>4, <1>5
  <2> QED
    BY <1>4, <1>7, <1>8, <2>1, <2>2 DEF Queues
<1>10. ToSet(verifying') = E \cup {p}
  BY <1>7, ListsToSet
<1>11. job'[v] = b /\ \A w \in Verifier : w # v => job'[w] = job[w]
  BY <1>1, <1>2 DEF TypeOK
<1>12. TypeOK'
  <2>1. verifying' \in Seq(Entry) /\ unverified' \in Seq(Block)
    BY <1>9, QueuesType
  <2> QED
    BY <1>1, <1>2, <1>5, <2>1 DEF TypeOK, setVars, waitVars, difficultyVars
<1>13. OnePlace' /\ NoOrphanForgotten' /\ DifficultyCovers'
  BY <1>2 DEF IInv, OnePlace, NoOrphanForgotten, DifficultyCovers, setVars, waitVars,
              difficultyVars
<1>14. BusyHasJob'
  BY <1>1, <1>2, <1>5, <1>11 DEF BusyHasJob, TypeOK
<1>15. PlacesAndJobs'
  <2>1. job[v] = NoBlock
    BY <1>1, <1>2 DEF BusyHasJob
  <2>2. \A w \in Verifier : w # v => job[w] # b
    <3> SUFFICES ASSUME NEW w \in Verifier, job[w] = b
                 PROVE  FALSE
      OBVIOUS
    <3>1. Placeholder(b) \in E \/ b \in knownBad
      BY <1>1, <1>3, <1>5 DEF PlacesAndJobs
    <3> QED
      BY <1>6, <3>1 DEF p
  <2>3. \A e \in ToSet(verifying') : ~e.done => \E w \in Verifier : job'[w] = e.block
    <3> SUFFICES ASSUME NEW e \in E \cup {p}, ~e.done
                 PROVE  \E w \in Verifier : job'[w] = e.block
      BY <1>10
    <3>1. CASE e = p
      BY <1>5, <1>11, <3>1
    <3>2. CASE e \in E
      <4>1. PICK w \in Verifier : job[w] = e.block
        BY <1>1, <1>3, <3>2 DEF PlacesAndJobs
      <4>2. e.block \in Block
        BY <3>2, EntryFields
      <4>3. w # v
        BY <2>1, <4>1, <4>2, BlockAssumption
      <4> QED
        BY <1>11, <4>1, <4>3
    <3> QED
      BY <3>1, <3>2
  <2>4. \A w \in Verifier : job'[w] # NoBlock =>
           Placeholder(job'[w]) \in ToSet(verifying') \/ job'[w] \in knownBad'
    <3> SUFFICES ASSUME NEW w \in Verifier, job'[w] # NoBlock
                 PROVE  Placeholder(job'[w]) \in E \cup {p} \/ job'[w] \in knownBad
      BY <1>2, <1>10 DEF setVars
    <3>1. CASE w = v
      BY <1>11, <3>1 DEF p
    <3>2. CASE w # v
      BY <1>1, <1>3, <1>11, <3>2 DEF PlacesAndJobs
    <3> QED
      BY <3>1, <3>2
  <2>5. \A u, w \in Verifier : job'[u] = job'[w] /\ job'[u] # NoBlock => u = w
    BY <1>1, <1>11, <2>2 DEF PlacesAndJobs
  <2> QED
    BY <2>3, <2>4, <2>5 DEF PlacesAndJobs
<1>16. SomeoneAwake'
  BY <1>1, <1>2 DEF SomeoneAwake, TypeOK
<1> QED
  BY <1>9, <1>12, <1>13, <1>14, <1>15, <1>16 DEF IInv

\* What is left to show of a step that ends the job of v: entries is
\* m_verifying without the unfinished place of v, and at most the blocks of
\* gone, which are not ready any more, are struck off; gone is bad from then on.
LEMMA JobDone ==
    ASSUME IInv, NEW v \in Verifier, job[v] \in Block,
           NEW E \in SUBSET Entry, NEW gone \in SUBSET Block,
           Queues(verified', verifying', unverified', readySet'),
           Placeholder(job[v]) \notin E,
           ToSet(verifying') \subseteq E,
           \A e \in E \ ToSet(verifying') : e.done,
           \A e \in E : ~e.done => e \in ToSet(verifying),
           \A e \in ToSet(verifying) : ~e.done => e \in E \/ e.block = job[v],
           gone \subseteq readySet \cup knownBad,
           readySet' = readySet \ gone,
           knownBad' = knownBad \cup gone,
           pc' \in {[pc EXCEPT ![v] = "idle"], [pc EXCEPT ![v] = "notify"]},
           job' = [job EXCEPT ![v] = NoBlock],
           UNCHANGED <<drainingSet, waitVars, todo, unverified, difficultyVars,
                       deleting, now, chain, forced>>
    PROVE  IInv'
<1> USE DEF waitVars, difficultyVars
<1>1. TypeOK /\ OnePlace /\ BusyHasJob /\ PlacesAndJobs
  BY DEF IInv
<1>2. job'[v] = NoBlock /\ \A w \in Verifier : w # v => job'[w] = job[w]
  BY <1>1 DEF TypeOK
<1>3. pc'[v] \in {"idle", "notify"} /\ \A w \in Verifier : w # v => pc'[w] = pc[w]
  BY <1>1 DEF TypeOK
<1>4. job[v] # NoBlock
  BY BlockAssumption
<1>5. TypeOK'
  <2>1. verified' \in Seq(Block) /\ verifying' \in Seq(Entry) /\ readySet' \subseteq Block
    BY QueuesType
  <2>2. knownBad' \subseteq Block
    BY <1>1 DEF TypeOK
  <2>3. pc' \in [Verifier -> {"idle", "asleep", "busy", "notify", "exited"}]
    BY <1>1 DEF TypeOK
  <2> QED
    BY <1>1, <2>1, <2>2, <2>3 DEF TypeOK
<1>6. OnePlace'
  BY <1>1 DEF OnePlace
<1>7. NoOrphanForgotten'
  BY DEF IInv, NoOrphanForgotten
<1>8. BusyHasJob'
  BY <1>1, <1>2, <1>3 DEF BusyHasJob
<1>9. DifficultyCovers'
  BY DEF IInv, DifficultyCovers
<1>10. SomeoneAwake'
  BY <1>3 DEF SomeoneAwake
<1>11. PlacesAndJobs'
  <2>1. ASSUME NEW e \in ToSet(verifying'), ~e.done
        PROVE  \E w \in Verifier : job'[w] = e.block
    <3>1. e \in E /\ e \in Entry /\ e \in ToSet(verifying)
      BY <2>1
    <3>2. PICK w \in Verifier : job[w] = e.block
      BY <1>1, <2>1, <3>1 DEF PlacesAndJobs
    <3>3. e = Placeholder(e.block)
      BY <2>1, <3>1, UnfinishedIsPlaceholder
    <3>4. e.block # job[v]
      BY <3>1, <3>3
    <3> QED
      BY <1>2, <3>2, <3>4
  <2>2. ASSUME NEW w \in Verifier, job'[w] # NoBlock
        PROVE  Placeholder(job'[w]) \in ToSet(verifying') \/ job'[w] \in knownBad'
    <3>1. w # v /\ job'[w] = job[w] /\ job[w] # job[v]
      BY <1>1, <1>2, <1>4, <2>2 DEF PlacesAndJobs
    <3>2. CASE job[w] \in knownBad
      BY <3>1, <3>2
    <3>3. CASE Placeholder(job[w]) \in ToSet(verifying)
      <4>1. Placeholder(job[w]).block = job[w] /\ ~Placeholder(job[w]).done
        BY DEF Placeholder
      <4>2. Placeholder(job[w]) \in E
        BY <3>1, <3>3, <4>1
      <4> QED
        BY <3>1, <4>1, <4>2
    <3> QED
      BY <1>1, <2>2, <3>1, <3>2, <3>3 DEF PlacesAndJobs
  <2>3. \A u, w \in Verifier : job'[u] = job'[w] /\ job'[u] # NoBlock => u = w
    BY <1>1, <1>2 DEF PlacesAndJobs
  <2> QED
    BY <2>1, <2>2, <2>3 DEF PlacesAndJobs
<1> QED
  BY <1>5, <1>6, <1>7, <1>8, <1>9, <1>10, <1>11 DEF IInv

\* The same in terms of the whole pipeline.
MovedOn(E, ready, bad) ==
    \E refused \in SUBSET ready :
        /\ Queues(verified', verifying', unverified', readySet')
        /\ ToSet(verifying') \subseteq E
        /\ \A e \in E \ ToSet(verifying') : e.done
        /\ readySet' = ready \ refused
        /\ knownBad' = bad \cup refused

\* drainVerified_WITH_BOTH_LOCKS keeps the queues apart and complete.
LEMMA DrainVerifiedQueues ==
    ASSUME NEW V \in SUBSET Block, NEW U \in SUBSET Block, NEW E \in SUBSET Entry,
           NEW entries, Lists(verified, V), Lists(entries, E), Lists(unverified, U),
           OneEntryEach(E),
           V \cap BlocksOf(E) = {}, V \cap U = {}, BlocksOf(E) \cap U = {},
           NEW ready, ready = V \cup BlocksOf(E) \cup U,
           NEW bad, DrainVerified(entries, ready, bad),
           unverified' = unverified
    PROVE  MovedOn(E, ready, bad)
<1>0. Moved(V, E, ready, bad)
  BY DrainVerifiedMoves
<1>1. PICK F \in SUBSET E : \E refused \in SUBSET BlocksOf(F) :
         /\ \A e \in F : e.done
         /\ Lists(verifying', E \ F)
         /\ Lists(verified', V \cup (BlocksOf(F) \ refused))
         /\ readySet' = ready \ refused
         /\ knownBad' = bad \cup refused
  BY <1>0 DEF Moved
<1>2. PICK refused \in SUBSET BlocksOf(F) :
         /\ \A e \in F : e.done
         /\ Lists(verifying', E \ F)
         /\ Lists(verified', V \cup (BlocksOf(F) \ refused))
         /\ readySet' = ready \ refused
         /\ knownBad' = bad \cup refused
  BY <1>1
<1>3. ToSet(verifying') = E \ F
  BY <1>2, ListsToSet
<1>4. /\ BlocksOf(E) = BlocksOf(F) \cup BlocksOf(E \ F)
      /\ BlocksOf(F) \cap BlocksOf(E \ F) = {}
      /\ OneEntryEach(E \ F)
  BY DEF BlocksOf, OneEntryEach
<1>5. BlocksOf(F) \subseteq Block
  BY EntryFields DEF BlocksOf
<1> DEFINE W == V \cup (BlocksOf(F) \ refused)
<1>6. /\ W \cap BlocksOf(E \ F) = {}
      /\ W \cap U = {}
      /\ BlocksOf(E \ F) \cap U = {}
      /\ readySet' = W \cup BlocksOf(E \ F) \cup U
      /\ W \in SUBSET Block
      /\ E \ F \in SUBSET Entry
  BY <1>2, <1>4, <1>5
<1>7. Lists(verified', W) /\ Lists(verifying', E \ F) /\ Lists(unverified', U)
  BY <1>2
<1>8. Queues(verified', verifying', unverified', readySet')
  <2> HIDE DEF W
  <2> QED
    BY <1>4, <1>6, <1>7 DEF Queues
<1>9. refused \in SUBSET ready
  BY <1>2, <1>4
<1> QED
  BY <1>2, <1>3, <1>8, <1>9 DEF MovedOn

LEMMA VerifierFailKeeps ==
    ASSUME IInv, NEW v \in Verifier, VerifierFail(v)
    PROVE  IInv'
<1> DEFINE b == job[v]
           p == Placeholder(b)
<1>1. TypeOK /\ OnePlace /\ BusyHasJob /\ PlacesAndJobs
  BY DEF IInv
<1>2. /\ b \in BadSeal
      /\ DrainVerified(Without(verifying, {p}), readySet \ {b}, knownBad \cup {b})
      /\ pc' = [pc EXCEPT ![v] = "idle"]
      /\ job' = [job EXCEPT ![v] = NoBlock]
      /\ UNCHANGED <<drainingSet, waitVars, todo, unverified, difficultyVars, deleting,
                     now, chain, forced>>
  BY DEF VerifierFail
<1>3. b \in Block /\ b # NoBlock
  BY <1>2, BlockAssumption
<1>4. PICK V \in SUBSET Block, U \in SUBSET Block, E \in SUBSET Entry :
         /\ Lists(verified, V)
         /\ Lists(verifying, E) /\ ToSet(verifying) = E
         /\ Lists(unverified, U)
         /\ OneEntryEach(E)
         /\ V \cap BlocksOf(E) = {}
         /\ V \cap U = {}
         /\ BlocksOf(E) \cap U = {}
         /\ readySet = V \cup BlocksOf(E) \cup U
  BY QueuesSets
<1>5. p.block = b /\ p \in Entry /\ (p \in E \/ b \in knownBad)
  BY <1>1, <1>3, <1>4, PlaceholderFields DEF PlacesAndJobs
<1> HIDE DEF b, p
<1>6. readySet \cap knownBad = {}
  BY <1>1 DEF OnePlace
<1>7. \A e \in E : e.block = b => e = p
  BY <1>4, <1>5, <1>6 DEF BlocksOf, OneEntryEach
<1>8. BlocksOf(E \ {p}) = BlocksOf(E) \ {b} /\ OneEntryEach(E \ {p})
  BY <1>4, <1>5, <1>7 DEF BlocksOf, OneEntryEach
<1>9. b \in readySet => b \notin V /\ b \notin U
  <2>1. b \in readySet => b \in BlocksOf(E)
    BY <1>5, <1>6 DEF BlocksOf
  <2> QED
    BY <1>4, <2>1
<1>10. Lists(Without(verifying, {p}), E \ {p})
  BY <1>4, ListsWithout
<1>11. /\ V \cap BlocksOf(E \ {p}) = {}
       /\ BlocksOf(E \ {p}) \cap U = {}
       /\ readySet \ {b} = V \cup BlocksOf(E \ {p}) \cup U
       /\ E \ {p} \in SUBSET Entry
  BY <1>4, <1>8, <1>9
<1>0. MovedOn(E \ {p}, readySet \ {b}, knownBad \cup {b})
  BY <1>2, <1>4, <1>8, <1>10, <1>11, DrainVerifiedQueues
<1>12. PICK refused \in SUBSET (readySet \ {b}) :
          /\ Queues(verified', verifying', unverified', readySet')
          /\ ToSet(verifying') \subseteq E \ {p}
          /\ \A e \in (E \ {p}) \ ToSet(verifying') : e.done
          /\ readySet' = (readySet \ {b}) \ refused
          /\ knownBad' = (knownBad \cup {b}) \cup refused
  BY <1>0 DEF MovedOn
<1> DEFINE gone == refused \cup {b}
<1>13. /\ gone \in SUBSET Block
       /\ gone \subseteq readySet \cup knownBad
       /\ readySet' = readySet \ gone
       /\ knownBad' = knownBad \cup gone
  <2>1. b \in readySet \cup knownBad
    BY <1>4, <1>5 DEF BlocksOf
  <2> QED
    BY <1>1, <1>3, <1>12, <2>1 DEF TypeOK
<1>14. \A e \in E : ~e.done => e \in E \ {p} \/ e.block = b
  BY <1>5
<1> HIDE DEF gone
<1> QED
  BY <1>2, <1>3, <1>4, <1>11, <1>12, <1>13, <1>14, JobDone DEF b, p

LEMMA VerifierSucceedKeeps ==
    ASSUME IInv, NEW v \in Verifier, VerifierSucceed(v)
    PROVE  IInv'
<1> DEFINE b == job[v]
           p == Placeholder(b)
<1>1. TypeOK /\ OnePlace /\ BusyHasJob /\ PlacesAndJobs
  BY DEF IInv
<1>2. /\ pc[v] = "busy"
      /\ job' = [job EXCEPT ![v] = NoBlock]
      /\ UNCHANGED <<drainingSet, waitVars, todo, unverified, difficultyVars, deleting,
                     now, chain, forced>>
      /\ \/ /\ DrainVerified(Finish(verifying, b), readySet, knownBad)
            /\ pc' = [pc EXCEPT ![v] = "notify"]
         \/ /\ verifying' = Finish(verifying, b)
            /\ pc' = [pc EXCEPT ![v] = "idle"]
            /\ UNCHANGED <<verified, readySet, knownBad>>
  BY DEF VerifierSucceed
<1>3. b \in Block /\ b # NoBlock
  BY <1>1, <1>2 DEF BusyHasJob, TypeOK
<1>4. PICK V \in SUBSET Block, U \in SUBSET Block, E \in SUBSET Entry :
         /\ Lists(verified, V)
         /\ Lists(verifying, E) /\ ToSet(verifying) = E
         /\ Lists(unverified, U)
         /\ OneEntryEach(E)
         /\ V \cap BlocksOf(E) = {}
         /\ V \cap U = {}
         /\ BlocksOf(E) \cap U = {}
         /\ readySet = V \cup BlocksOf(E) \cup U
  BY QueuesSets
<1> DEFINE G == IF p \in E THEN (E \ {p}) \cup {Finished(b)} ELSE E
<1>5. /\ G \subseteq Entry
      /\ OneEntryEach(G)
      /\ BlocksOf(G) = BlocksOf(E)
      /\ Lists(Finish(verifying, b), G)
  BY <1>3, <1>4, FinishList
<1>6. /\ p \notin G
      /\ \A e \in G : ~e.done => e \in ToSet(verifying)
      /\ \A e \in ToSet(verifying) : ~e.done => e \in G \/ e.block = b
  <2>1. Finished(b).done /\ ~p.done /\ p.block = b
    BY DEF Finished, Placeholder
  <2> QED
    BY <1>4, <2>1
<1> HIDE DEF b, p, G
<1>7. CASE /\ DrainVerified(Finish(verifying, b), readySet, knownBad)
           /\ pc' = [pc EXCEPT ![v] = "notify"]
  <2>0. MovedOn(G, readySet, knownBad)
    <3>1. readySet = V \cup BlocksOf(G) \cup U
      BY <1>4, <1>5
    <3> QED
      BY <1>2, <1>4, <1>5, <1>7, <3>1, DrainVerifiedQueues
  <2>1. PICK refused \in SUBSET readySet :
           /\ Queues(verified', verifying', unverified', readySet')
           /\ ToSet(verifying') \subseteq G
           /\ \A e \in G \ ToSet(verifying') : e.done
           /\ readySet' = readySet \ refused
           /\ knownBad' = knownBad \cup refused
    BY <2>0 DEF MovedOn
  <2>2. refused \in SUBSET Block /\ refused \subseteq readySet \cup knownBad
    BY <1>1 DEF TypeOK
  <2> QED
    BY <1>2, <1>3, <1>5, <1>6, <1>7, <2>1, <2>2, JobDone DEF b, p
<1>8. CASE /\ verifying' = Finish(verifying, b)
           /\ pc' = [pc EXCEPT ![v] = "idle"]
           /\ UNCHANGED <<verified, readySet, knownBad>>
  <2>1. Lists(verifying', G) /\ ToSet(verifying') = G
    BY <1>5, <1>8, ListsToSet
  <2>2. Queues(verified', verifying', unverified', readySet')
    <3>1. Lists(verified', V) /\ Lists(unverified', U)
      BY <1>2, <1>4, <1>8
    <3>2. /\ V \cap BlocksOf(G) = {}
          /\ BlocksOf(G) \cap U = {}
          /\ readySet' = V \cup BlocksOf(G) \cup U
          /\ G \in SUBSET Entry
      BY <1>4, <1>5, <1>8
    <3> QED
      BY <1>4, <1>5, <2>1, <3>1, <3>2 DEF Queues
  <2>3. /\ {} \in SUBSET Block /\ {} \subseteq readySet \cup knownBad
        /\ readySet' = readySet \ {} /\ knownBad' = knownBad \cup {}
        /\ ToSet(verifying') \subseteq G
        /\ \A e \in G \ ToSet(verifying') : e.done
    BY <1>8, <2>1
  <2> QED
    BY <1>2, <1>3, <1>5, <1>6, <1>8, <2>2, <2>3, JobDone DEF b, p
<1> QED
  BY <1>2, <1>7, <1>8

-----------------------------------------------------------------------------
(* The client thread, and the calls of other threads                       *)

LEMMA DrainKeeps ==
    ASSUME IInv, NEW max \in 1..MaxDrain, Drain(max)
    PROVE  IInv'
<1> DEFINE n == IF max < Len(verified) THEN max ELSE Len(verified)
           out == SubSeq(verified, 1, n)
<1>1. TypeOK /\ OnePlace
  BY DEF IInv
<1>2. /\ drainingSet = {}
      /\ verified' = SubSeq(verified, n + 1, Len(verified))
      /\ drainingSet' = ToSet(out)
      /\ drainingDifficulty' = SumDifficulty(out)
      /\ readySet' = readySet \ ToSet(out)
      /\ UNCHANGED <<knownBad, waitVars, todo, unverified, verifying, difficulty,
                     threadVars, now, chain, forced>>
  BY DEF Drain
<1>3. PICK V \in SUBSET Block, U \in SUBSET Block, E \in SUBSET Entry :
         /\ Lists(verified, V)
         /\ Lists(verifying, E) /\ ToSet(verifying) = E
         /\ Lists(unverified, U)
         /\ OneEntryEach(E)
         /\ V \cap BlocksOf(E) = {}
         /\ V \cap U = {}
         /\ BlocksOf(E) \cap U = {}
         /\ readySet = V \cup BlocksOf(E) \cup U
  BY QueuesSets
<1>4. n \in Nat /\ n <= Len(verified)
  BY <1>1, BlockAssumption DEF TypeOK
<1> HIDE DEF n
<1> DEFINE D == FirstOf(verified, n)
<1>5. D \subseteq V /\ Lists(out, D) /\ Lists(verified', V \ D)
  BY <1>2, <1>3, <1>4, ListsCut
<1> HIDE DEF D, out
<1>6. drainingSet' = D /\ readySet' = readySet \ D
  BY <1>2, <1>5, ListsToSet
<1>7. \A c \in Block : drainingDifficulty'[c] = IF c \in D THEN 1 ELSE 0
  <2>1. D \in SUBSET Block
    BY <1>5
  <2> QED
    BY <1>2, <1>5, <2>1, SumOfList
<1>8. drainingDifficulty' \in [Block -> Nat]
  <2>1. drainingDifficulty' = [c \in Block |-> drainingDifficulty'[c]]
    BY <1>2 DEF SumDifficulty
  <2> QED
    BY <1>7, <2>1
<1>9. Queues(verified', verifying', unverified', readySet')
  <2>1. /\ (V \ D) \cap BlocksOf(E) = {}
        /\ (V \ D) \cap U = {}
        /\ readySet' = (V \ D) \cup BlocksOf(E) \cup U
        /\ V \ D \in SUBSET Block
    BY <1>3, <1>5, <1>6
  <2>2. Lists(verifying', E) /\ Lists(unverified', U)
    BY <1>2, <1>3
  <2> QED
    BY <1>3, <1>5, <2>1, <2>2 DEF Queues
<1> USE DEF waitVars, threadVars
<1>10. TypeOK'
  <2>1. verified' \in Seq(Block) /\ readySet' \subseteq Block
    BY <1>9, QueuesType
  <2> QED
    BY <1>1, <1>2, <1>5, <1>6, <1>8, <2>1 DEF TypeOK
<1>11. D \subseteq readySet
  BY <1>3, <1>5
<1>12. OnePlace'
  BY <1>1, <1>2, <1>6, <1>11 DEF OnePlace
<1>13. NoOrphanForgotten'
  BY <1>2, <1>6, <1>11 DEF IInv, NoOrphanForgotten
<1>14. BusyHasJob' /\ PlacesAndJobs' /\ SomeoneAwake'
  BY <1>2 DEF IInv, BusyHasJob, PlacesAndJobs, SomeoneAwake
<1>15. DifficultyCovers'
  BY <1>2, <1>6, <1>7, <1>11 DEF IInv, DifficultyCovers
<1> QED
  BY <1>9, <1>10, <1>12, <1>13, <1>14, <1>15 DEF IInv

LEMMA DoneDrainKeeps ==
    ASSUME IInv, drainingSet # {}, DoneDrain(drainingSet \ chain)
    PROVE  IInv'
<1> DEFINE bad == drainingSet \ chain
<1>1. TypeOK /\ OnePlace /\ DifficultyCovers
  BY DEF IInv
<1>2. /\ drainingSet' = {}
      /\ difficulty' = [b \in Block |-> difficulty[b] - drainingDifficulty[b]]
      /\ drainingDifficulty' = NoDifficulty
      /\ UNCHANGED <<future, futureSet, todo, threadVars, now, chain, forced>>
  BY DEF DoneDrain
<1>3. /\ \A c \in Block : difficulty[c] \in Nat
      /\ \A c \in Block : drainingDifficulty[c] = IF c \in drainingSet THEN 1 ELSE 0
      /\ \A c \in drainingSet : difficulty[c] >= 1
      /\ drainingSet \subseteq Block
  BY <1>1 DEF TypeOK, DifficultyCovers
<1>4. \A c \in Block : difficulty[c] - drainingDifficulty[c] \in Nat
  BY <1>3
<1>5. difficulty' \in [Block -> Nat]
  BY <1>2, <1>4
<1>6. \A c \in Block \ drainingSet : difficulty[c] >= 1 => difficulty'[c] >= 1
  BY <1>2, <1>3
<1>7. /\ drainingDifficulty' \in [Block -> Nat]
      /\ \A c \in Block : drainingDifficulty'[c] = IF c \in drainingSet' THEN 1 ELSE 0
  BY <1>2 DEF NoDifficulty
<1>8. CASE bad = {}
  <2>1. UNCHANGED <<readySet, knownBad, unknown, unknownSet, queueVars>>
    BY <1>8 DEF DoneDrain
  <2> USE DEF queueVars, threadVars
  <2>2. TypeOK'
    BY <1>1, <1>2, <1>5, <1>7, <2>1 DEF TypeOK
  <2>3. Queues(verified', verifying', unverified', readySet')
    BY <2>1 DEF IInv
  <2>4. OnePlace' /\ NoOrphanForgotten'
    BY <1>2, <2>1 DEF IInv, OnePlace, NoOrphanForgotten
  <2>5. BusyHasJob' /\ PlacesAndJobs' /\ SomeoneAwake'
    BY <1>2, <2>1 DEF IInv, BusyHasJob, PlacesAndJobs, SomeoneAwake
  <2>6. DifficultyCovers'
    <3>1. \A c \in readySet \cup unknown \cup future : c \in Block \ drainingSet
      BY <1>1 DEF OnePlace, TypeOK
    <3> QED
      BY <1>1, <1>2, <1>6, <1>7, <2>1, <3>1 DEF DifficultyCovers
  <2> QED
    BY <2>2, <2>3, <2>4, <2>5, <2>6 DEF IInv
<1>9. CASE bad # {}
  <2>1. PICK S \in SUBSET Block : IsStruckOut(S, bad) /\ StrikeOut(S, bad)
    BY <1>9 DEF DoneDrain
  <2>2. /\ bad \in SUBSET Block
        /\ bad \cap (readySet \cup unknown \cup future \cup chain) = {}
        /\ drainingSet' \in {drainingSet, {}}
        /\ drainingSet' \cap bad = {}
        /\ todo' \subseteq todo
    BY <1>1, <1>2 DEF OnePlace, TypeOK
  <2>3. \A c \in Block \ (drainingSet \ drainingSet') :
           difficulty[c] >= 1 => difficulty'[c] >= 1
    BY <1>2, <1>6
  <2> HIDE DEF bad
  <2> QED
    BY <1>2, <1>5, <1>7, <2>1, <2>2, <2>3, StrikeOutKeeps
<1> QED
  BY <1>8, <1>9

LEMMA RetryAllUnknownKeeps == ASSUME IInv, RetryAllUnknown PROVE IInv'
<1>1. TypeOK /\ OnePlace
  BY DEF IInv
<1>2. /\ readySet' = readySet \cup unknown
      /\ unknown' = {}
      /\ unknownSet' = unknownSet \ unknown
      /\ forced' = forced \cup unknown
      /\ pc' = WakeAll(pc)
      /\ UNCHANGED <<drainingSet, knownBad, future, futureSet, todo, verifying, verified,
                     difficultyVars, deleting, job, now, chain>>
  BY DEF RetryAllUnknown
<1>3. PICK s \in SetToSeqs(unknown) : unverified' = unverified \o s
  BY DEF RetryAllUnknown
<1>4. unknown \subseteq Block /\ IsFiniteSet(unknown) /\ unknown \cap readySet = {}
  BY <1>1, FS_Subset, BlockAssumption DEF TypeOK, OnePlace
<1>5. Queues(verified', verifying', unverified', readySet')
  <2>1. PICK V \in SUBSET Block, U \in SUBSET Block, E \in SUBSET Entry :
           /\ Lists(verified, V)
           /\ Lists(verifying, E) /\ ToSet(verifying) = E
           /\ Lists(unverified, U)
           /\ OneEntryEach(E)
           /\ V \cap BlocksOf(E) = {}
           /\ V \cap U = {}
           /\ BlocksOf(E) \cap U = {}
           /\ readySet = V \cup BlocksOf(E) \cup U
    BY QueuesSets
  <2>2. U \cap unknown = {}
    BY <1>4, <2>1
  <2>3. Lists(unverified', U \cup unknown)
    BY <1>3, <1>4, <2>1, <2>2, SetToSeqsList, ListsConcat
  <2>4. /\ V \cap (U \cup unknown) = {}
        /\ BlocksOf(E) \cap (U \cup unknown) = {}
        /\ readySet' = V \cup BlocksOf(E) \cup (U \cup unknown)
        /\ U \cup unknown \in SUBSET Block
    BY <1>2, <1>4, <2>1
  <2>5. Lists(verified', V) /\ Lists(verifying', E)
    BY <1>2, <2>1
  <2> QED
    BY <2>1, <2>3, <2>4, <2>5 DEF Queues
<1>6. /\ pc' \in [Verifier -> {"idle", "asleep", "busy", "notify", "exited"}]
      /\ \A v \in Verifier : pc'[v] = "busy" <=> pc[v] = "busy"
      /\ \E v \in Verifier : pc'[v] # "asleep"
  BY <1>1, <1>2, WakeAllWakes DEF TypeOK
<1> USE DEF difficultyVars
<1>7. TypeOK'
  <2>1. unverified' \in Seq(Block) /\ readySet' \subseteq Block
    BY <1>5, QueuesType
  <2> QED
    BY <1>1, <1>2, <1>6, <2>1 DEF TypeOK
<1>8. OnePlace' /\ NoOrphanForgotten'
  BY <1>1, <1>2 DEF OnePlace, NoOrphanForgotten
<1>9. BusyHasJob' /\ PlacesAndJobs' /\ SomeoneAwake'
  BY <1>2, <1>6 DEF IInv, BusyHasJob, PlacesAndJobs, SomeoneAwake
<1>10. DifficultyCovers'
  BY <1>2 DEF IInv, DifficultyCovers
<1> QED
  BY <1>5, <1>7, <1>8, <1>9, <1>10 DEF IInv

LEMMA QuietClearKeeps == ASSUME IInv, QuietClear PROVE IInv'
<1> USE DEF QuietClear, Clear, threadVars
<1>1. Queues(verified', verifying', unverified', readySet')
  <2>1. BlocksOf({}) = {} /\ OneEntryEach({})
    BY DEF BlocksOf, OneEntryEach
  <2> QED
    BY <2>1, ListsEmpty DEF Queues
<1>2. TypeOK'
  <2>1. verified' \in Seq(Block) /\ verifying' \in Seq(Entry) /\ unverified' \in Seq(Block)
    BY <1>1, QueuesType
  <2> QED
    BY <2>1 DEF IInv, TypeOK, NoDifficulty
<1>3. OnePlace' /\ NoOrphanForgotten' /\ BusyHasJob' /\ SomeoneAwake' /\ DifficultyCovers'
  BY DEF IInv, OnePlace, NoOrphanForgotten, BusyHasJob, SomeoneAwake, DifficultyCovers,
         NoDifficulty
<1>4. PlacesAndJobs'
  <2>1. ToSet(verifying') = {}
    BY DEF ToSet
  <2> QED
    BY <2>1 DEF PlacesAndJobs
<1> QED
  BY <1>1, <1>2, <1>3, <1>4 DEF IInv

-----------------------------------------------------------------------------
(***************************************************************************)
(* The theorems                                                            *)
(***************************************************************************)

LEMMA StutterKeeps == ASSUME IInv, UNCHANGED vars PROVE IInv'
<1> USE DEF vars, setVars, waitVars, queueVars, difficultyVars, threadVars
<1>1. TypeOK' /\ BusyHasJob' /\ SomeoneAwake'
  BY DEF IInv, TypeOK, BusyHasJob, SomeoneAwake
<1>2. future' = futureSet' /\ future' \subseteq future
  BY DEF IInv, OnePlace
<1> QED
  BY <1>1, <1>2, QueuesAlone

LEMMA NextKeeps == IInv /\ [QuietNext]_vars => IInv'
<1> SUFFICES ASSUME IInv, [QuietNext]_vars
             PROVE  IInv'
  OBVIOUS
<1>1. CASE \E b \in Block : \E isOurs \in BOOLEAN : Import(b, isOurs) /\ UNCHANGED todo
  <2>1. PICK b \in Block, isOurs \in BOOLEAN : Import(b, isOurs) /\ UNCHANGED todo
    BY <1>1
  <2>2. todo' \subseteq todo
    BY <2>1
  <2> QED
    BY <2>1, <2>2, ImportKeeps
<1>2. CASE TickTake
  BY <1>2, TickTakeKeeps
<1>3. CASE \E b \in Block : TickImport(b)
  BY <1>3, TickImportKeeps
<1>4. CASE \E v \in Verifier : VerifierStep(v)
  <2>1. PICK v \in Verifier : VerifierStep(v)
    BY <1>4
  <2> QED
    BY <2>1, ThreadStepsKeep, VerifierTakeKeeps, VerifierFailKeeps, VerifierSucceedKeeps
    DEF VerifierStep
<1>5. CASE \E max \in 1..MaxDrain : Drain(max)
  BY <1>5, DrainKeeps
<1>6. CASE drainingSet # {} /\ DoneDrain(drainingSet \ chain)
  BY <1>6, DoneDrainKeeps
<1>7. CASE RetryAllUnknown
  BY <1>7, RetryAllUnknownKeeps
<1>8. CASE Stop
  BY <1>8, StopKeeps
<1>9. CASE \E b \in Block : ChainImport(b)
  BY <1>9, ChainImportKeeps
<1>10. CASE ClockTick
  BY <1>10, ClockTickKeeps
<1>11. CASE QuietClear
  BY <1>11, QuietClearKeeps
<1>12. CASE UNCHANGED vars
  BY <1>12, StutterKeeps
<1> QED
  BY <1>1, <1>2, <1>3, <1>4, <1>5, <1>6, <1>7, <1>8, <1>9, <1>10, <1>11, <1>12
  DEF QuietNext, OrderlyNext

\* The inductive invariant holds of every behaviour in which clear() finds no
\* verifier at work: imports, ticks, verifiers, drains and retries may overlap.
THEOREM InductiveInvariant == QuietSpec => []IInv
BY InitEstablishes, NextKeeps, PTL DEF QuietSpec

\* The variables of the queue keep their types; m_difficulty never wraps below
\* zero when doneDrain() takes the draining blocks off.
THEOREM TypeCorrect == QuietSpec => []TypeOK
<1>1. IInv => TypeOK
  BY DEF IInv
<1> QED
  BY <1>1, InductiveInvariant, PTL

\* What invariants() asserts after every step: the three queues hold the blocks
\* of m_readySet, each once.
THEOREM InvariantsHold == QuietSpec => []Invariants
<1>1. IInv => Invariants
  BY QueuesPipeline DEF IInv
<1> QED
  BY <1>1, InductiveInvariant, PTL

\* The stronger form: m_readySet is exactly what the queues hold.
THEOREM ReadySetExact == QuietSpec => []ReadyIsPipeline
<1>1. IInv => ReadyIsPipeline
  BY QueuesPipeline DEF IInv
<1> QED
  BY <1>1, InductiveInvariant, PTL

\* No handler leaves a block in two of the sets blockStatus() consults.
THEOREM OnePlaceOnly == QuietSpec => []OnePlace
<1>1. IInv => OnePlace
  BY DEF IInv
<1> QED
  BY <1>1, InductiveInvariant, PTL

\* noteReady and updateBad between them forget no waiting block.
THEOREM NoBlockForgotten == QuietSpec => []NoOrphanForgotten
<1>1. IInv => NoOrphanForgotten
  BY DEF IInv
<1> QED
  BY <1>1, InductiveInvariant, PTL

\* Every unfinished place in m_verifying has a thread that will finish it.
THEOREM NoPlaceAbandoned == QuietSpec => []PlacesAndJobs
<1>1. IInv => PlacesAndJobs
  BY DEF IInv
<1> QED
  BY <1>1, InductiveInvariant, PTL

\* The sum that BlockChainSync reads leaves out no block of the queue.
THEOREM DifficultyCovered == QuietSpec => []DifficultyCovers
<1>1. IInv => DifficultyCovers
  BY DEF IInv
<1> QED
  BY <1>1, InductiveInvariant, PTL

\* The condition variable loses no wake-up, with any number of verifiers.
THEOREM NoLostWakeUp == QuietSpec => []SomeoneAwake
<1>1. IInv => SomeoneAwake
  BY DEF IInv
<1> QED
  BY <1>1, InductiveInvariant, PTL
=============================================================================
