------------------------- MODULE TransactionProofs -------------------------
(***************************************************************************)
(* Proofs about TransactionQueue and TransactionSync.                      *)
(*                                                                         *)
(* First the queue by itself: the three containers of the current          *)
(* transactions, the slots, the counts, and what the callers are told.     *)
(* The operations are chains of helpers, from containers to containers. A  *)
(* lemma about each says that it leaves them sound and what it moves; what *)
(* holds of the operations follows by putting these together.              *)
(*                                                                         *)
(* Then what the client's worker makes of the flags and of the queue, which *)
(* other threads change between its looks. Whatever the worker does, the   *)
(* queue moves as the first part says; the rest is about the pending block, *)
(* the list that Block::sync goes through, and the two flags.              *)
(***************************************************************************)
EXTENDS TransactionSync, QueueOpsProofs

OneEach(S) == \A t, u \in S : SameSlot(t, u) => t = u

ContainerType ==
    [current : Seq(Tx), byHash : SUBSET Tx, byNonce : SUBSET Tx,
     future : SUBSET Tx, futureSize : Nat, known : SUBSET Tx]

\* What each helper finds and leaves, whatever it is part of.
Sound(q) ==
    /\ q \in ContainerType
    /\ Lists(q.current, q.byHash)
    /\ q.byNonce = q.byHash
    /\ q.byHash \cap q.future = {}
    /\ OneEach(q.byHash \cup q.future)
    /\ q.futureSize = Cardinality(q.future)

LEMMA Subsets ==
    ASSUME NEW S \in SUBSET Tx
    PROVE  IsFiniteSet(S) /\ Cardinality(S) \in Nat
BY TxAssumption, FS_Subset, FS_CardinalityType

\* Taking T out of S leaves the difference in number.
LEMMA CardinalityLess ==
    ASSUME NEW S, IsFiniteSet(S), NEW T \in SUBSET S
    PROVE  /\ Cardinality(S \ T) = Cardinality(S) - Cardinality(T)
           /\ Cardinality(T) <= Cardinality(S)
<1>1. /\ IsFiniteSet(T) /\ IsFiniteSet(S \ T)
      /\ Cardinality(T) <= Cardinality(S)
      /\ Cardinality(T) \in Nat /\ Cardinality(S \ T) \in Nat /\ Cardinality(S) \in Nat
  BY FS_Subset, FS_CardinalityType
<1>2. S = T \cup (S \ T) /\ T \cap (S \ T) = {}
  OBVIOUS
<1>3. Cardinality(T \cup (S \ T)) = Cardinality(T) + Cardinality(S \ T) - Cardinality(T \cap (S \ T))
  BY <1>1, FS_Union
<1>4. Cardinality(T \cap (S \ T)) = 0
  BY <1>2, FS_EmptySet
<1>5. Cardinality(S) = Cardinality(T) + Cardinality(S \ T) - 0
  BY <1>2, <1>3, <1>4
<1> QED
  BY <1>1, <1>5

\* The transactions in the slots of a part of S are that part.
LEMMA OwnSlots ==
    ASSUME NEW S, NEW T \in SUBSET S, OneEach(S)
    PROVE  InSlotsOf(S, T) = T
BY DEF OneEach, InSlotsOf, SameSlot

LEMMA OneEachLess ==
    ASSUME NEW S, NEW T \in SUBSET S, OneEach(S)
    PROVE  OneEach(T)
BY DEF OneEach

-----------------------------------------------------------------------------
(***************************************************************************)
(* The helpers                                                             *)
(***************************************************************************)

LEMMA RemoveAllMoves ==
    ASSUME NEW q, Sound(q), NEW S
    PROVE  LET r == RemoveAll(q, S)
           IN  /\ Sound(r)
               /\ r.byHash = q.byHash \ S
               /\ r.future = q.future
               /\ r.futureSize = q.futureSize
               /\ r.known = q.known \ (S \cap q.byHash)
               /\ r.current = Without(q.current, S \cap q.byHash)
<1> DEFINE T == S \cap q.byHash
           r == RemoveAll(q, S)
<1>1. /\ q \in ContainerType
      /\ q.current \in Seq(Tx) /\ q.byHash \in SUBSET Tx /\ q.future \in SUBSET Tx
      /\ q.futureSize \in Nat /\ q.known \in SUBSET Tx
      /\ q.byNonce = q.byHash /\ Lists(q.current, q.byHash)
      /\ q.byHash \cap q.future = {}
      /\ q.futureSize = Cardinality(q.future)
  BY DEF Sound, ContainerType
<1>2. OneEach(q.byHash)
  BY OneEachLess DEF Sound
<1>3. InSlotsOf(q.byNonce, T) = T
  BY <1>1, <1>2, OwnSlots
<1>4. /\ r.current = Without(q.current, T)
      /\ r.byHash = q.byHash \ T
      /\ r.byNonce = q.byNonce \ InSlotsOf(q.byNonce, T)
      /\ r.future = q.future
      /\ r.futureSize = q.futureSize
      /\ r.known = q.known \ T
  BY <1>1 DEF RemoveAll, ContainerType
<1>5. Lists(Without(q.current, T), q.byHash \ T)
  BY <1>1, ListsWithout
<1>6. Without(q.current, T) \in Seq(Tx)
  <2>1. Without(q.current, T) \in Seq(q.byHash \ T) /\ q.byHash \ T \subseteq Tx
    BY <1>1, <1>5, ListsElements
  <2> QED
    BY <2>1, SeqMonotonic
<1>7. r \in ContainerType
  BY <1>1, <1>3, <1>6 DEF ContainerType, RemoveAll
<1> HIDE DEF r, T
<1>8. OneEach(r.byHash \cup r.future)
  <2>1. r.byHash \cup r.future \in SUBSET (q.byHash \cup q.future)
    BY <1>4
  <2> QED
    BY <2>1, OneEachLess DEF Sound
<1>9. Sound(r)
  BY <1>1, <1>3, <1>4, <1>5, <1>7, <1>8 DEF Sound
<1> QED
  BY <1>4, <1>9 DEF r, T

\* The transactions RunAfter lists.
Run(q, t) ==
    LET ofSender == {u \in q.future : Sender[u] = Sender[t] /\ Nonce[u] > Nonce[t]}
    IN  {u \in ofSender : \A n \in (Nonce[t] + 1)..Nonce[u] :
                             \E w \in ofSender : Nonce[w] = n}

LEMMA RunHasNoGap ==
    ASSUME NEW q, q.future \in SUBSET Tx, NEW t \in Tx
    PROVE  /\ Run(q, t) \subseteq q.future
           /\ \A u \in Run(q, t) :
                 /\ Sender[u] = Sender[t] /\ Nonce[u] > Nonce[t] /\ Nonce[u] \in Nat
                 /\ \A n \in (Nonce[t] + 1)..Nonce[u] : \E w \in Run(q, t) : Nonce[w] = n
           /\ \A w \in q.future :
                 /\ Sender[w] = Sender[t]
                 /\ Nonce[w] = Nonce[t] + 1 \/ \E u \in Run(q, t) : Nonce[w] = Nonce[u] + 1
                 => w \in Run(q, t)
<1> DEFINE ofSender == {u \in q.future : Sender[u] = Sender[t] /\ Nonce[u] > Nonce[t]}
           run == Run(q, t)
<1>1. Nonce[t] \in Nat /\ \A u \in q.future : u \in Tx /\ Nonce[u] \in Nat
  BY TxAssumption
<1>2. \A u : u \in run <=> /\ u \in ofSender
                           /\ \A n \in (Nonce[t] + 1)..Nonce[u] :
                                 \E w \in ofSender : Nonce[w] = n
  BY DEF Run
<1>3. \A u \in run : /\ u \in q.future /\ Sender[u] = Sender[t]
                     /\ Nonce[u] > Nonce[t] /\ Nonce[u] \in Nat
  BY <1>1, <1>2
<1>4. ASSUME NEW u \in run, NEW n \in (Nonce[t] + 1)..Nonce[u]
      PROVE  \E w \in run : Nonce[w] = n
  <2>1. PICK w \in ofSender : Nonce[w] = n
    BY <1>2, <1>4
  <2>2. \A m \in (Nonce[t] + 1)..Nonce[w] : m \in (Nonce[t] + 1)..Nonce[u]
    BY <1>1, <1>3, <1>4, <2>1
  <2> QED
    BY <1>2, <2>1, <2>2
<1>5. ASSUME NEW w \in q.future, Sender[w] = Sender[t], Nonce[w] = Nonce[t] + 1
      PROVE  w \in run
  <2>1. w \in ofSender /\ \A n \in (Nonce[t] + 1)..Nonce[w] : n = Nonce[w]
    BY <1>1, <1>5
  <2> QED
    BY <1>2, <2>1
<1>6. ASSUME NEW w \in q.future, Sender[w] = Sender[t],
             NEW u \in run, Nonce[w] = Nonce[u] + 1
      PROVE  w \in run
  <2>1. w \in ofSender
    BY <1>1, <1>3, <1>6
  <2>2. \A n \in (Nonce[t] + 1)..Nonce[w] : n = Nonce[w] \/ n \in (Nonce[t] + 1)..Nonce[u]
    BY <1>1, <1>3, <1>6
  <2> QED
    BY <1>2, <2>1, <2>2
<1> QED
  BY <1>3, <1>4, <1>5, <1>6

\* A run of k transactions has one at each of the k nonces after t's.
LEMMA RunNonces ==
    ASSUME NEW q, q.future \in SUBSET Tx, OneEach(q.future), NEW t \in Tx
    PROVE  /\ Cardinality(Run(q, t)) \in Nat
           /\ \A u \in Run(q, t) : Nonce[u] - Nonce[t] \in 1..Cardinality(Run(q, t))
           /\ \A i \in 1..Cardinality(Run(q, t)) :
                 \E u \in Run(q, t) : Nonce[u] = Nonce[t] + i
<1> DEFINE run == Run(q, t)
           N == Nonce[t]
           k == Cardinality(run)
           rank == [u \in run |-> Nonce[u] - N]
<1>1. /\ N \in Nat
      /\ run \subseteq q.future
      /\ \A u \in run : /\ Sender[u] = Sender[t] /\ Nonce[u] > N /\ Nonce[u] \in Nat
                        /\ \A n \in (N + 1)..Nonce[u] : \E w \in run : Nonce[w] = n
  BY RunHasNoGap, TxAssumption
<1>2. IsFiniteSet(run) /\ k \in Nat
  BY <1>1, Subsets
<1>3. \A u, w \in run : Nonce[u] = Nonce[w] => u = w
  BY <1>1 DEF OneEach, SameSlot
<1> HIDE DEF run, N, k
<1>4. \A u \in run : Nonce[u] - N \in 1..k
  <2> SUFFICES ASSUME NEW u \in run
               PROVE  Nonce[u] - N \in 1..k
    OBVIOUS
  <2> DEFINE m == Nonce[u] - N
             atNonce == [i \in 1..m |-> CHOOSE w \in run : Nonce[w] = N + i]
  <2>1. m \in Nat /\ 1 <= m
    BY <1>1
  <2>2. \A i \in 1..m : \E w \in run : Nonce[w] = N + i
    <3>1. \A i \in 1..m : N + i \in (N + 1)..Nonce[u]
      BY <1>1, <2>1
    <3> QED
      BY <1>1, <3>1
  <2>3. \A i \in 1..m : atNonce[i] \in run /\ Nonce[atNonce[i]] = N + i
    BY <2>2
  <2>4. atNonce \in [1..m -> run]
    BY <2>3
  <2> HIDE DEF atNonce, m
  <2>5. atNonce \in Injection(1..m, run)
    <3>1. \A i, j \in 1..m : atNonce[i] = atNonce[j] => i = j
      BY <1>1, <2>1, <2>3
    <3> QED
      BY <2>4, <3>1 DEF Injection, IsInjective
  <2>6. Cardinality(1..m) <= Cardinality(run)
    BY <1>2, <2>5, FS_Injection
  <2>7. Cardinality(1..m) = m
    BY <2>1, FS_Interval
  <2> QED
    BY <1>1, <1>2, <2>1, <2>6, <2>7 DEF m, k
<1>5. rank \in Injection(run, 1..k)
  <2>1. \A u, w \in run : rank[u] = rank[w] => u = w
    BY <1>1, <1>3
  <2> QED
    BY <1>4, <2>1 DEF Injection, IsInjective
<1>6. IsFiniteSet(1..k) /\ Cardinality(1..k) = k
  BY <1>2, FS_Interval
<1>7. rank \in Surjection(run, 1..k)
  BY <1>2, <1>5, <1>6, FS_Injection DEF k
<1>8. \A i \in 1..k : \E u \in run : Nonce[u] = N + i
  <2>1. \A i \in 1..k : \E u \in run : rank[u] = i
    BY <1>7 DEF Surjection
  <2> QED
    BY <1>1, <1>2, <2>1
<1> QED
  BY <1>2, <1>4, <1>8 DEF run, N, k

\* makeCurrent takes each transaction of the run, once.
LEMMA RunListed ==
    ASSUME NEW q, q.future \in SUBSET Tx, OneEach(q.future), NEW t \in Tx
    PROVE  /\ Lists(RunAfter(q, t), Run(q, t))
           /\ ToSet(RunAfter(q, t)) = Run(q, t)
           /\ Len(RunAfter(q, t)) = Cardinality(Run(q, t))
<1> DEFINE run == Run(q, t)
           N == Nonce[t]
           k == Cardinality(run)
           s == [i \in 1..k |-> CHOOSE u \in run : Nonce[u] = N + i]
<1>1. RunAfter(q, t) = s
  BY DEF RunAfter, Run
<1>2. /\ k \in Nat
      /\ \A u \in run : Nonce[u] - N \in 1..k
      /\ \A i \in 1..k : \E u \in run : Nonce[u] = N + i
  BY RunNonces
<1>3. /\ N \in Nat
      /\ run \subseteq q.future
      /\ \A u \in run : Sender[u] = Sender[t] /\ Nonce[u] \in Nat
  BY RunHasNoGap, TxAssumption
<1>4. \A u, w \in run : Nonce[u] = Nonce[w] => u = w
  BY <1>3 DEF OneEach, SameSlot
<1> HIDE DEF run, N, k
<1>5. \A i \in 1..k : s[i] \in run /\ Nonce[s[i]] = N + i
  BY <1>2
<1>6. s \in [1..k -> run] /\ DOMAIN s = 1..k
  BY <1>5
<1> HIDE DEF s
<1>7. s \in Seq(run) /\ Len(s) = k
  BY <1>2, <1>6
<1>8. \A u \in run : \E i \in 1..Len(s) : s[i] = u
  <2> SUFFICES ASSUME NEW u \in run
               PROVE  \E i \in 1..Len(s) : s[i] = u
    OBVIOUS
  <2>1. Nonce[u] - N \in 1..k
    BY <1>2
  <2>2. Nonce[s[Nonce[u] - N]] = Nonce[u] /\ s[Nonce[u] - N] \in run
    BY <1>3, <1>5, <2>1
  <2>3. s[Nonce[u] - N] = u
    BY <1>4, <2>2
  <2> QED
    BY <1>7, <2>1, <2>3
<1>9. \A i, j \in 1..Len(s) : s[i] = s[j] => i = j
  BY <1>3, <1>5, <1>7
<1>10. Lists(s, run)
  BY <1>7, <1>8, <1>9 DEF Lists
<1>11. ToSet(s) = run
  BY <1>10, ListsToSet
<1> QED
  BY <1>1, <1>7, <1>10, <1>11 DEF run, k

LEMMA EmplacedLists ==
    ASSUME NEW S \in SUBSET Tx, NEW T \in SUBSET Tx,
           NEW s, ToSet(s) = S, NEW added, ToSet(added) = T,
           NEW index, NEW r \in Emplaced(s, added, index)
    PROVE  Lists(r, S \cup T) /\ r \in Seq(Tx)
<1>1. IsFiniteSet(S \cup T) /\ S \cup T \subseteq Tx
  BY Subsets
<1>2. r \in SetToSeqs(S \cup T)
  BY DEF Emplaced
<1>3. Lists(r, S \cup T)
  BY <1>1, <1>2, SetToSeqsList
<1> QED
  BY <1>1, <1>3, ListsElements, SeqMonotonic

LEMMA TrimFutureMoves ==
    ASSUME NEW q, Sound(q), NEW r \in TrimFuture(q)
    PROVE  /\ Sound(r)
           /\ r.current = q.current
           /\ r.byHash = q.byHash
           /\ r.known = q.known
           /\ r.future \subseteq q.future
           /\ r.futureSize <= FutureLimit
<1> DEFINE excess == IF q.futureSize > FutureLimit THEN q.futureSize - FutureLimit ELSE 0
<1>1. /\ q \in ContainerType
      /\ q.byHash \in SUBSET Tx /\ q.future \in SUBSET Tx
      /\ q.futureSize = Cardinality(q.future) /\ q.futureSize \in Nat
      /\ q.byHash \cap q.future = {}
      /\ FutureLimit \in Nat
  BY TxAssumption DEF Sound, ContainerType
<1>2. PICK kept \in SUBSET q.future :
         /\ r = [q EXCEPT !.future = kept, !.futureSize = @ - excess]
         /\ Cardinality(q.future \ kept) = excess
  BY DEF TrimFuture, IsTrimmed
<1>3. excess \in Nat /\ q.futureSize - excess \in Nat /\ q.futureSize - excess <= FutureLimit
  BY <1>1
<1> HIDE DEF excess
<1>4. /\ r.current = q.current /\ r.byHash = q.byHash /\ r.byNonce = q.byNonce
      /\ r.known = q.known /\ r.future = kept /\ r.futureSize = q.futureSize - excess
  BY <1>1, <1>2 DEF ContainerType
<1>5. r \in ContainerType
  BY <1>1, <1>2, <1>3 DEF ContainerType
<1>6. Cardinality(kept) = q.futureSize - excess
  <2>1. Cardinality(q.future \ kept) = Cardinality(q.future) - Cardinality(kept)
    BY <1>1, Subsets, CardinalityLess
  <2>2. Cardinality(kept) \in Nat
    BY <1>1, <1>2, Subsets
  <2> QED
    BY <1>1, <1>2, <1>3, <2>1, <2>2
<1>7. OneEach(r.byHash \cup r.future)
  <2>1. r.byHash \cup r.future \in SUBSET (q.byHash \cup q.future)
    BY <1>4
  <2> QED
    BY <2>1, OneEachLess DEF Sound
<1>8. Sound(r)
  BY <1>1, <1>4, <1>5, <1>6, <1>7 DEF Sound
<1> QED
  BY <1>3, <1>4, <1>8

LEMMA MakeCurrentMoves ==
    ASSUME NEW q, Sound(q), NEW t \in Tx, NEW r \in MakeCurrent(q, t)
    PROVE  /\ Sound(r)
           /\ r.byHash = q.byHash \cup Run(q, t)
           /\ r.future \subseteq q.future \ Run(q, t)
           /\ r.known = q.known
           /\ r.futureSize <= FutureLimit
<1> DEFINE run == Run(q, t)
           listed == RunAfter(q, t)
           index == (q.byNonce \ InSlotsOf(q.byNonce, ToSet(listed))) \cup ToSet(listed)
           moved(s) == [q EXCEPT !.current = s,
                                 !.byHash = @ \cup ToSet(listed),
                                 !.byNonce = index,
                                 !.future = @ \ ToSet(listed),
                                 !.futureSize = @ - Len(listed)]
<1>1. /\ q \in ContainerType
      /\ q.byHash \in SUBSET Tx /\ q.future \in SUBSET Tx
      /\ q.byNonce = q.byHash
      /\ Lists(q.current, q.byHash)
      /\ q.futureSize = Cardinality(q.future) /\ q.futureSize \in Nat
      /\ q.byHash \cap q.future = {}
      /\ OneEach(q.byHash \cup q.future)
  BY DEF Sound, ContainerType
<1>2. OneEach(q.future)
  BY <1>1, OneEachLess
<1>3. /\ ToSet(listed) = run /\ Len(listed) = Cardinality(run)
      /\ run \in SUBSET q.future
  BY <1>1, <1>2, RunListed, RunHasNoGap
<1>4. PICK s \in Emplaced(q.current, listed, index) : r \in TrimFuture(moved(s))
  BY DEF MakeCurrent
<1>5. index = q.byHash \cup run
  <2>1. InSlotsOf(q.byNonce, run) = {}
    BY <1>1, <1>3 DEF InSlotsOf, OneEach, SameSlot
  <2> QED
    BY <1>1, <1>3, <2>1
<1>6. Lists(s, q.byHash \cup run) /\ s \in Seq(Tx)
  <2>1. ToSet(q.current) = q.byHash
    BY <1>1, ListsToSet
  <2>2. run \in SUBSET Tx
    BY <1>1, <1>3
  <2> HIDE DEF index, listed, run
  <2> QED
    BY <1>1, <1>3, <1>4, <2>1, <2>2, EmplacedLists
<1> DEFINE p == moved(s)
<1>7. /\ Cardinality(q.future \ run) = q.futureSize - Cardinality(run)
      /\ Cardinality(q.future \ run) \in Nat
  BY <1>1, <1>3, Subsets, CardinalityLess
<1> HIDE DEF run, listed, index
<1>8. /\ p.current = s /\ p.byHash = q.byHash \cup run /\ p.byNonce = q.byHash \cup run
      /\ p.future = q.future \ run /\ p.futureSize = q.futureSize - Cardinality(run)
      /\ p.known = q.known
  BY <1>1, <1>3, <1>5 DEF ContainerType
<1>9. p \in ContainerType
  BY <1>1, <1>3, <1>5, <1>6, <1>7 DEF ContainerType
<1> HIDE DEF p
<1>10. OneEach(p.byHash \cup p.future)
  <2>1. p.byHash \cup p.future = q.byHash \cup q.future
    BY <1>3, <1>8
  <2> QED
    BY <1>1, <2>1
<1>11. Sound(p)
  BY <1>1, <1>3, <1>6, <1>7, <1>8, <1>9, <1>10 DEF Sound
<1>12. /\ Sound(r) /\ r.byHash = p.byHash /\ r.known = p.known
       /\ r.future \subseteq p.future /\ r.futureSize <= FutureLimit
  <2>1. r \in TrimFuture(p)
    BY <1>4 DEF p
  <2> QED
    BY <1>11, <2>1, TrimFutureMoves
<1> QED
  BY <1>8, <1>12 DEF run

LEMMA VacateMoves ==
    ASSUME NEW q, Sound(q), NEW t \in Tx
    PROVE  LET r == Vacate(q, t)
           IN  /\ Sound(r)
               /\ r.byHash = q.byHash \ InSlotsOf(q.byHash, {t})
               /\ r.future = q.future \ InSlotsOf(q.future, {t})
               /\ r.known = q.known \ InSlotsOf(q.byHash, {t})
<1> DEFINE cleared == RemoveAll(q, InSlotsOf(q.byNonce, {t}))
           old == InSlotsOf(q.future, {t})
           r == Vacate(q, t)
<1>1. /\ q \in ContainerType /\ q.byHash \in SUBSET Tx /\ q.future \in SUBSET Tx
      /\ q.byNonce = q.byHash
      /\ q.futureSize = Cardinality(q.future) /\ q.futureSize \in Nat
  BY DEF Sound, ContainerType
<1>2. /\ Sound(cleared)
      /\ cleared.byHash = q.byHash \ InSlotsOf(q.byHash, {t})
      /\ cleared.future = q.future
      /\ cleared.futureSize = q.futureSize
      /\ cleared.known = q.known \ InSlotsOf(q.byHash, {t})
  <2> DEFINE inSlot == InSlotsOf(q.byHash, {t})
  <2>1. inSlot \cap q.byHash = inSlot
    BY DEF InSlotsOf
  <2>2. cleared = RemoveAll(q, inSlot)
    BY <1>1
  <2> HIDE DEF inSlot, cleared
  <2>3. LET c == RemoveAll(q, inSlot)
        IN  /\ Sound(c) /\ c.byHash = q.byHash \ inSlot
            /\ c.future = q.future /\ c.futureSize = q.futureSize
            /\ c.known = q.known \ (inSlot \cap q.byHash)
    BY RemoveAllMoves
  <2> QED
    BY <2>1, <2>2, <2>3 DEF inSlot
<1>3. old \in SUBSET q.future
  BY DEF InSlotsOf
<1>4. r = [cleared EXCEPT !.future = @ \ old, !.futureSize = @ - Cardinality(old)]
  BY DEF Vacate
<1> HIDE DEF cleared, old, r
<1>5. /\ Cardinality(q.future \ old) = q.futureSize - Cardinality(old)
      /\ Cardinality(q.future \ old) \in Nat
  BY <1>1, <1>3, Subsets, CardinalityLess
<1>6. cleared \in ContainerType
  BY <1>2 DEF Sound
<1>7. /\ r.current = cleared.current /\ r.byHash = cleared.byHash
      /\ r.byNonce = cleared.byNonce /\ r.known = cleared.known
      /\ r.future = q.future \ old /\ r.futureSize = q.futureSize - Cardinality(old)
  BY <1>2, <1>4, <1>6 DEF ContainerType
<1>8. r \in ContainerType
  BY <1>2, <1>4, <1>5, <1>6 DEF ContainerType
<1>9. OneEach(r.byHash \cup r.future)
  <2>1. r.byHash \cup r.future \in SUBSET (cleared.byHash \cup cleared.future)
    BY <1>2, <1>7
  <2> QED
    BY <1>2, <2>1, OneEachLess DEF Sound
<1>10. Sound(r)
  BY <1>2, <1>5, <1>7, <1>8, <1>9 DEF Sound
<1> QED
  BY <1>2, <1>7, <1>10 DEF r, old

LEMMA InsertCurrentMoves ==
    ASSUME NEW q, Sound(q), NEW t \in Tx,
           \A u \in q.byHash \cup q.future : ~SameSlot(t, u),
           NEW r \in InsertCurrent(q, t)
    PROVE  /\ Sound(r)
           /\ r.byHash = q.byHash \cup {t} \cup Run(q, t)
           /\ r.future \subseteq q.future \ Run(q, t)
           /\ r.known = q.known \cup {t}
           /\ r.futureSize <= FutureLimit
<1> DEFINE index == (q.byNonce \ InSlotsOf(q.byNonce, {t})) \cup {t}
           placed(s) == [q EXCEPT !.current = s, !.byHash = @ \cup {t}, !.byNonce = index]
<1>1. /\ q \in ContainerType
      /\ q.byHash \in SUBSET Tx /\ q.future \in SUBSET Tx
      /\ q.byNonce = q.byHash
      /\ Lists(q.current, q.byHash)
      /\ q.futureSize = Cardinality(q.future)
      /\ q.byHash \cap q.future = {}
      /\ OneEach(q.byHash \cup q.future)
  BY DEF Sound, ContainerType
<1>2. \A u \in q.byHash \cup q.future : u # t /\ ~SameSlot(t, u)
  BY DEF SameSlot
<1>3. PICK s \in Emplaced(q.current, <<t>>, index) :
         \E m \in MakeCurrent(placed(s), t) : r = [m EXCEPT !.known = @ \cup {t}]
  <2>1. t \notin q.byHash
    BY <1>2
  <2>2. \E w \in {placed(s) : s \in Emplaced(q.current, <<t>>, index)} :
           \E m \in MakeCurrent(w, t) : r = [m EXCEPT !.known = @ \cup {t}]
    BY <2>1 DEF InsertCurrent
  <2> QED
    BY <2>2
<1>4. index = q.byHash \cup {t}
  BY <1>1, <1>2 DEF InSlotsOf, SameSlot
<1>5. Lists(s, q.byHash \cup {t}) /\ s \in Seq(Tx)
  <2>1. ToSet(q.current) = q.byHash /\ ToSet(<<t>>) = {t}
    BY <1>1, ListsToSet, ListsSingle
  <2>2. {t} \in SUBSET Tx
    OBVIOUS
  <2> HIDE DEF index
  <2> QED
    BY <1>1, <1>3, <2>1, <2>2, EmplacedLists
<1> DEFINE p == placed(s)
<1> HIDE DEF index
<1>6. /\ p.current = s /\ p.byHash = q.byHash \cup {t} /\ p.byNonce = q.byHash \cup {t}
      /\ p.future = q.future /\ p.futureSize = q.futureSize /\ p.known = q.known
  BY <1>1, <1>4 DEF ContainerType
<1>7. p \in ContainerType
  BY <1>1, <1>4, <1>5 DEF ContainerType
<1>8. PICK m \in MakeCurrent(p, t) : r = [m EXCEPT !.known = @ \cup {t}]
  BY <1>3
<1> HIDE DEF p
<1>9. OneEach(p.byHash \cup p.future)
  <2>1. \A u \in p.byHash \cup p.future : u = t \/ u \in q.byHash \cup q.future
    BY <1>6
  <2>2. \A u, w : SameSlot(u, w) => SameSlot(w, u)
    BY DEF SameSlot
  <2> QED
    BY <1>1, <1>2, <2>1, <2>2 DEF OneEach
<1>10. Sound(p)
  BY <1>1, <1>2, <1>5, <1>6, <1>7, <1>9 DEF Sound
<1>11. Run(p, t) = Run(q, t)
  BY <1>6 DEF Run
<1>12. /\ Sound(m) /\ m.byHash = p.byHash \cup Run(q, t)
       /\ m.future \subseteq p.future \ Run(q, t)
       /\ m.known = p.known /\ m.futureSize <= FutureLimit
  BY <1>8, <1>10, <1>11, MakeCurrentMoves
<1>13. m \in ContainerType
  BY <1>12 DEF Sound
<1>14. /\ r.current = m.current /\ r.byHash = m.byHash /\ r.byNonce = m.byNonce
       /\ r.future = m.future /\ r.futureSize = m.futureSize
       /\ r.known = m.known \cup {t}
  BY <1>8, <1>13 DEF ContainerType
<1>15. r \in ContainerType
  BY <1>8, <1>13 DEF ContainerType
<1>16. Sound(r)
  BY <1>12, <1>14, <1>15 DEF Sound
<1> QED
  BY <1>6, <1>12, <1>14, <1>16

LEMMA EvictMoves ==
    ASSUME NEW q, Sound(q)
    PROVE  LET r == Evict(q)
           IN  /\ Sound(r)
               /\ r.byHash \subseteq q.byHash
               /\ r.future = q.future
               /\ r.futureSize = q.futureSize
               /\ r.known = q.known \ (q.byHash \ r.byHash)
               /\ Len(r.current) <= Limit
<1> DEFINE gone == ToSet(SubSeq(q.current, Limit + 1, Len(q.current)))
           r == Evict(q)
<1>1. /\ Lists(q.current, q.byHash) /\ Limit \in Nat
      /\ q.current \in Seq(q.byHash) /\ Len(q.current) \in Nat
  BY TxAssumption, ListsElements DEF Sound
<1>2. r = RemoveAll(q, gone)
  BY DEF Evict
<1> HIDE DEF gone, r
<1>3. /\ Sound(r) /\ r.byHash = q.byHash \ gone
      /\ r.future = q.future /\ r.futureSize = q.futureSize
      /\ r.known = q.known \ (gone \cap q.byHash)
  <2>1. LET c == RemoveAll(q, gone)
        IN  /\ Sound(c) /\ c.byHash = q.byHash \ gone
            /\ c.future = q.future /\ c.futureSize = q.futureSize
            /\ c.known = q.known \ (gone \cap q.byHash)
    BY RemoveAllMoves
  <2> QED
    BY <1>2, <2>1
<1>4. Lists(r.current, r.byHash)
  BY <1>3 DEF Sound
<1>5. Len(r.current) <= Limit
  <2>1. CASE Len(q.current) <= Limit
    <3>1. Cardinality(r.byHash) = Len(r.current) /\ Cardinality(q.byHash) = Len(q.current)
          /\ IsFiniteSet(q.byHash)
      BY <1>1, <1>4, ListsCardinality
    <3>2. Cardinality(r.byHash) <= Cardinality(q.byHash)
      BY <1>3, <3>1, FS_Subset
    <3>3. Len(r.current) \in Nat
      BY <1>4, ListsElements
    <3> QED
      BY <1>1, <2>1, <3>1, <3>2, <3>3
  <2>2. CASE Limit < Len(q.current)
    <3> DEFINE front == FirstOf(q.current, Limit)
    <3>0. Limit \in Nat /\ Limit <= Len(q.current)
      BY <1>1, <2>2
    <3>1. /\ Lists(SubSeq(q.current, 1, Limit), front)
          /\ Lists(SubSeq(q.current, Limit + 1, Len(q.current)), q.byHash \ front)
          /\ front \subseteq q.byHash
      BY <1>1, <3>0, ListsCut
    <3> HIDE DEF front
    <3>2. gone = q.byHash \ front
      BY <3>1, ListsToSet DEF gone
    <3>3. r.byHash = front
      BY <1>3, <3>1, <3>2
    <3>4. Len(r.current) = Len(SubSeq(q.current, 1, Limit))
      BY <1>4, <3>1, <3>3, ListsCardinality
    <3>5. Len(SubSeq(q.current, 1, Limit)) = Limit
      BY <1>1, <2>2, SubSeqProperties
    <3> QED
      BY <1>1, <3>4, <3>5
  <2> QED
    BY <1>1, <2>1, <2>2
<1>6. gone \cap q.byHash = q.byHash \ r.byHash
  BY <1>3
<1> QED
  BY <1>3, <1>5, <1>6 DEF r

\* No transaction that q does not have as current already is, in r, followed by
\* the next one of its account in r.future.
NoneLeftBehind(q, r) ==
    \A x \in r.byHash \ q.byHash : \A u \in r.future :
        Sender[u] = Sender[x] => Nonce[u] # Nonce[x] + 1

LEMMA MakeCurrentLeavesNone ==
    ASSUME NEW q, Sound(q), NEW t \in Tx, NEW c, NEW f,
           c \subseteq q.byHash \cup {t} \cup Run(q, t),
           f \subseteq q.future \ Run(q, t)
    PROVE  \A x \in c \ q.byHash : \A u \in f :
              Sender[u] = Sender[x] => Nonce[u] # Nonce[x] + 1
<1>1. q.future \in SUBSET Tx
  BY DEF Sound, ContainerType
<1>2. /\ \A u \in Run(q, t) : Sender[u] = Sender[t]
      /\ \A w \in q.future :
            /\ Sender[w] = Sender[t]
            /\ Nonce[w] = Nonce[t] + 1 \/ \E u \in Run(q, t) : Nonce[w] = Nonce[u] + 1
            => w \in Run(q, t)
  BY <1>1, RunHasNoGap
<1> QED
  BY <1>2

LEMMA ImportMoves ==
    ASSUME NEW q, Sound(q), q.byHash \cup q.future \subseteq q.known,
           NEW t \in Tx, t \notin q.known,
           NEW v, v = Vacate(q, t), NEW i \in InsertCurrent(v, t),
           NEW r, r = Evict(i)
    PROVE  /\ Sound(r)
           /\ r.byHash \cup r.future \subseteq r.known
           /\ r.byHash \cup r.future \subseteq q.byHash \cup q.future \cup {t}
           /\ \A u \in r.byHash \cup r.future : SameSlot(t, u) => u = t
           /\ r.known \subseteq q.known \cup {t}
           /\ r.known \ (r.byHash \cup r.future) \subseteq q.known \ q.byHash
           /\ Len(r.current) <= Limit
           /\ Cardinality(r.future) <= FutureLimit
           /\ NoneLeftBehind(q, r)
<1> DEFINE inHash == InSlotsOf(q.byHash, {t})
           inFuture == InSlotsOf(q.future, {t})
<1>1. /\ Sound(v) /\ v.byHash = q.byHash \ inHash
      /\ v.future = q.future \ inFuture /\ v.known = q.known \ inHash
  BY VacateMoves DEF inHash, inFuture
<1>2. \A u \in v.byHash \cup v.future : ~SameSlot(t, u)
  BY <1>1 DEF InSlotsOf, SameSlot, inHash, inFuture
<1> HIDE DEF inHash, inFuture
<1>4. /\ Sound(i) /\ i.byHash = v.byHash \cup {t} \cup Run(v, t)
      /\ i.future \subseteq v.future \ Run(v, t)
      /\ i.known = v.known \cup {t}
      /\ i.futureSize <= FutureLimit
  BY <1>1, <1>2, InsertCurrentMoves
<1>5. /\ Sound(r) /\ r.byHash \subseteq i.byHash /\ r.future = i.future
      /\ r.futureSize = i.futureSize
      /\ r.known = i.known \ (i.byHash \ r.byHash)
      /\ Len(r.current) <= Limit
  BY <1>4, EvictMoves
<1>6. Run(v, t) \subseteq v.future
  <2>1. v.future \in SUBSET Tx
    BY <1>1 DEF Sound, ContainerType
  <2> QED
    BY <2>1, RunHasNoGap
<1>7. q.byHash \cap q.future = {} /\ i.byHash \cap i.future = {}
  BY <1>4 DEF Sound
<1>8. r.byHash \cup r.future \subseteq q.byHash \cup q.future \cup {t}
  BY <1>1, <1>4, <1>5, <1>6
<1>9. /\ r.known \subseteq q.known \cup {t}
      /\ \A u \in r.byHash \cup r.future : SameSlot(t, u) => u = t
  BY <1>1, <1>2, <1>4, <1>5, <1>6
<1>10. r.byHash \cup r.future \subseteq r.known
  <2>1. inHash \subseteq q.byHash
    BY DEF InSlotsOf, inHash
  <2>2. v.byHash \cup v.future \subseteq v.known
    BY <1>1, <1>7, <2>1
  <2>3. i.byHash \cup i.future \subseteq i.known
    BY <1>4, <1>6, <2>2
  <2> QED
    BY <1>5, <1>7, <2>3
<1>11. Cardinality(r.future) <= FutureLimit
  BY <1>4, <1>5 DEF Sound
<1>12. NoneLeftBehind(q, r)
  <2>1. r.byHash \subseteq v.byHash \cup {t} \cup Run(v, t) /\ r.future \subseteq v.future \ Run(v, t)
    BY <1>4, <1>5
  <2>2. \A x \in r.byHash \ v.byHash : \A u \in r.future :
           Sender[u] = Sender[x] => Nonce[u] # Nonce[x] + 1
    BY <1>1, <2>1, MakeCurrentLeavesNone
  <2> QED
    BY <1>1, <2>2 DEF NoneLeftBehind
<1>13. r.known \ (r.byHash \cup r.future) \subseteq q.known \ q.byHash
  BY <1>1, <1>4, <1>5
<1> QED
  BY <1>5, <1>8, <1>9, <1>10, <1>11, <1>12, <1>13

-----------------------------------------------------------------------------
(***************************************************************************)
(* The invariant                                                           *)
(***************************************************************************)

\* No part is inductive alone: a removal by hash empties the index of accounts
\* and nonces rightly only if no two share a slot; import() and makeCurrent()
\* place what they place only if it is not queued, which is what m_known and the
\* separation of m_current from m_future are for; and the count of m_future is
\* exact only if the run moved out of it has each transaction once.
IInv == TypeOK /\ IndicesAgree /\ OnePerSlot /\ FutureCounted /\ KnownCovers

\* The same, over the record of the containers.
Stands ==
    /\ Sound(Containers)
    /\ byHash \cup future \subseteq known
    /\ dropped \subseteq Tx
    /\ ready \in BOOLEAN
    /\ replaced \in BOOLEAN

LEMMA ContainersFields ==
    /\ Containers.current = current /\ Containers.byHash = byHash
    /\ Containers.byNonce = byNonce /\ Containers.future = future
    /\ Containers.futureSize = futureSize /\ Containers.known = known
BY DEF Containers

LEMMA IInvStands == IInv => Stands
<1> SUFFICES ASSUME IInv
             PROVE  Stands
  OBVIOUS
<1> USE DEF IInv
<1>1. /\ current \in Seq(Tx) /\ byHash \in SUBSET Tx /\ byNonce \in SUBSET Tx
      /\ future \in SUBSET Tx /\ futureSize \in Nat /\ known \in SUBSET Tx
  BY DEF TypeOK
<1>2. Containers \in ContainerType
  BY <1>1 DEF Containers, ContainerType
<1>3. byHash = ToSet(current) /\ byNonce = byHash
  BY DEF IndicesAgree
<1>4. Lists(current, byHash)
  <2>1. current \in Seq(byHash)
    <3>1. \A i \in 1..Len(current) : current[i] \in byHash
      BY <1>1, <1>3 DEF ToSet
    <3> QED
      BY <1>1, <3>1, SeqDef
  <2> QED
    BY <1>3, <2>1, ListsIsInjective DEF IndicesAgree
<1>5. byHash \cap future = {} /\ OneEach(byHash \cup future)
  BY <1>3 DEF OnePerSlot, OneEach, Queued
<1>6. Sound(Containers)
  BY <1>2, <1>3, <1>4, <1>5, ContainersFields DEF Sound, FutureCounted
<1> QED
  BY <1>3, <1>6 DEF Stands, TypeOK, KnownCovers, Queued

LEMMA StandsFacts ==
    ASSUME Stands
    PROVE  /\ Sound(Containers)
           /\ current \in Seq(Tx) /\ byHash \in SUBSET Tx /\ byNonce = byHash
           /\ future \in SUBSET Tx /\ futureSize \in Nat /\ known \in SUBSET Tx
           /\ Lists(current, byHash) /\ ToSet(current) = byHash /\ IsInjective(current)
           /\ byHash \cap future = {}
           /\ OneEach(byHash \cup future)
           /\ futureSize = Cardinality(future)
           /\ byHash \cup future \subseteq known
           /\ Queued = byHash \cup future
<1>1. /\ Sound(Containers) /\ byHash \cup future \subseteq known
  BY DEF Stands
<1>2. /\ Containers \in ContainerType /\ Lists(current, byHash) /\ byNonce = byHash
      /\ byHash \cap future = {} /\ OneEach(byHash \cup future)
      /\ futureSize = Cardinality(future)
  BY <1>1, ContainersFields DEF Sound
<1>3. /\ current \in Seq(Tx) /\ byHash \in SUBSET Tx
      /\ future \in SUBSET Tx /\ futureSize \in Nat /\ known \in SUBSET Tx
  BY <1>2, ContainersFields DEF ContainerType
<1>4. ToSet(current) = byHash
  BY <1>2, ListsToSet
<1>5. IsInjective(current)
  BY <1>2, ListsIsInjective, ListsElements
<1> QED
  BY <1>1, <1>2, <1>3, <1>4, <1>5 DEF Queued

LEMMA StandsIInv == Stands => IInv
<1> SUFFICES ASSUME Stands
             PROVE  IInv
  OBVIOUS
<1>1. TypeOK
  BY StandsFacts DEF Stands, TypeOK
<1>2. IndicesAgree /\ FutureCounted /\ KnownCovers
  BY StandsFacts DEF IndicesAgree, FutureCounted, KnownCovers
<1>3. OnePerSlot
  BY StandsFacts DEF OnePerSlot, OneEach
<1> QED
  BY <1>1, <1>2, <1>3 DEF IInv

\* A step that leaves the containers as q.
LEMMA BecomesSound ==
    ASSUME NEW q, Sound(q), Become(q), q.byHash \cup q.future \subseteq q.known,
           dropped' \subseteq Tx, ready' \in BOOLEAN, replaced' \in BOOLEAN
    PROVE  Stands'
<1>1. q \in ContainerType
  BY DEF Sound
<1>2. Containers' = q
  BY <1>1 DEF Containers, Become, ContainerType
<1>3. byHash' \cup future' \subseteq known'
  BY DEF Become
<1> QED
  BY <1>2, <1>3 DEF Stands

\* What StandsFacts says, of the next state.
ListedOnce ==
    /\ Lists(current, byHash) /\ ToSet(current) = byHash
    /\ Queued = byHash \cup future
    /\ futureSize = Cardinality(future)

LEMMA StandsFactsNext == Stands' => ListedOnce'
<1>1. Stands => ListedOnce
  BY StandsFacts DEF ListedOnce
<1> QED
  BY <1>1, PTL

-----------------------------------------------------------------------------
(***************************************************************************)
(* The operations: each keeps the invariant, and what it moves             *)
(***************************************************************************)

LEMMA ImportKeeps ==
    ASSUME Stands, NEW t \in Tx, NEW retry, Import(t, retry)
    PROVE  /\ Stands'
           /\ byHash' \cup future' \subseteq byHash \cup future \cup {t}
           /\ \A u \in byHash' \cup future' : SameSlot(t, u) => u = t
           /\ known' \subseteq known \cup {t}
           /\ known' \ (byHash' \cup future') \subseteq known \ byHash
           /\ Len(current') <= Limit
           /\ Cardinality(future') <= FutureLimit
           /\ \A x \in byHash' \ byHash : \A u \in future' :
                 Sender[u] = Sender[x] => Nonce[u] # Nonce[x] + 1
<1> DEFINE q == Containers
           v == Vacate(q, t)
<1>1. /\ Sound(q) /\ q.byHash = byHash /\ q.future = future /\ q.known = known
      /\ byHash \cup future \subseteq known
  BY ContainersFields DEF Stands
<1>2. t \notin known
  BY DEF Import, Accepted
<1>3. PICK i \in InsertCurrent(v, t) : Become(Evict(i))
  BY DEF Import
<1> DEFINE r == Evict(i)
<1> HIDE DEF q, v, r
<1>4. v = Vacate(q, t) /\ r = Evict(i)
  BY DEF v, r
<1>5. /\ Sound(r)
      /\ r.byHash \cup r.future \subseteq r.known
      /\ r.byHash \cup r.future \subseteq q.byHash \cup q.future \cup {t}
      /\ \A u \in r.byHash \cup r.future : SameSlot(t, u) => u = t
      /\ r.known \subseteq q.known \cup {t}
      /\ r.known \ (r.byHash \cup r.future) \subseteq q.known \ q.byHash
      /\ Len(r.current) <= Limit
      /\ Cardinality(r.future) <= FutureLimit
      /\ NoneLeftBehind(q, r)
  BY <1>1, <1>2, <1>3, <1>4, ImportMoves
<1>6. /\ Become(r) /\ byHash' = r.byHash /\ future' = r.future /\ known' = r.known
      /\ current' = r.current
  BY <1>3 DEF r, Become
<1>7. dropped' \subseteq Tx /\ ready' \in BOOLEAN /\ replaced' \in BOOLEAN
  BY DEF Import, Stands
<1>8. Stands'
  BY <1>5, <1>6, <1>7, BecomesSound
<1> QED
  BY <1>1, <1>5, <1>6, <1>8 DEF NoneLeftBehind

LEMMA DropKeeps ==
    ASSUME Stands, NEW t \in Tx, Drop(t)
    PROVE  /\ Stands'
           /\ byHash' \subseteq byHash /\ future' = future /\ known' \subseteq known
           /\ known' \ (byHash' \cup future') \subseteq known \ byHash
<1> DEFINE q == Containers
           r == RemoveAll(q, {t})
<1>1. /\ Sound(q) /\ q.byHash = byHash /\ q.future = future /\ q.known = known
      /\ byHash \cup future \subseteq known /\ byHash \cap future = {}
  BY ContainersFields, StandsFacts DEF Stands
<1> HIDE DEF q
<1>2. /\ Sound(r) /\ r.byHash = q.byHash \ {t} /\ r.future = q.future
      /\ r.known = q.known \ ({t} \cap q.byHash)
  BY <1>1, RemoveAllMoves
<1>3. Become(r)
  BY DEF Drop, q
<1> HIDE DEF r
<1>4. byHash' = r.byHash /\ future' = r.future /\ known' = r.known
  BY <1>3 DEF Become
<1>5. dropped' \subseteq Tx /\ ready' \in BOOLEAN /\ replaced' \in BOOLEAN
  BY DEF Drop, Stands
<1>6. r.byHash \cup r.future \subseteq r.known
  BY <1>1, <1>2
<1>7. Stands'
  BY <1>2, <1>3, <1>5, <1>6, BecomesSound
<1> QED
  BY <1>1, <1>2, <1>4, <1>7

LEMMA DropGoodKeeps ==
    ASSUME Stands, NEW t \in Tx, DropGood(t)
    PROVE  /\ Stands'
           /\ byHash' \cup future' \subseteq byHash \cup future
           /\ known' \subseteq known
           /\ known' \ (byHash' \cup future') \subseteq known \ byHash
           /\ byHash' \subseteq byHash \/ ready'
           /\ \A x \in byHash' \ byHash : \A u \in future' :
                 Sender[u] = Sender[x] => Nonce[u] # Nonce[x] + 1
<1> DEFINE q == Containers
           gone == {t} \cap known
<1>1. /\ Sound(q) /\ q.byHash = byHash /\ q.future = future /\ q.known = known
      /\ byHash \cup future \subseteq known
      /\ future \in SUBSET Tx /\ OneEach(future)
  BY ContainersFields, StandsFacts, OneEachLess DEF Stands
<1>2. PICK m \in MakeCurrent(q, t) : Become(RemoveAll(m, gone))
  BY DEF DropGood
<1>3. ready' = (ready \/ RunAfter(q, t) # <<>>)
  BY DEF DropGood
<1> DEFINE r == RemoveAll(m, gone)
<1> HIDE DEF q, gone
<1>4. /\ Sound(m) /\ m.byHash = q.byHash \cup Run(q, t)
      /\ m.future \subseteq q.future \ Run(q, t) /\ m.known = q.known
  BY <1>1, <1>2, MakeCurrentMoves
<1>5. /\ Sound(r) /\ r.byHash = m.byHash \ gone /\ r.future = m.future
      /\ r.known = m.known \ (gone \cap m.byHash)
  BY <1>4, RemoveAllMoves
<1>6. /\ Become(r) /\ byHash' = r.byHash /\ future' = r.future /\ known' = r.known
  BY <1>2 DEF Become
<1> HIDE DEF r
<1>7. Run(q, t) \subseteq q.future /\ Lists(RunAfter(q, t), Run(q, t))
  BY <1>1, RunHasNoGap, RunListed
<1>8. byHash' \cup future' \subseteq byHash \cup future /\ known' \subseteq known
  BY <1>1, <1>4, <1>5, <1>6, <1>7
<1>9. r.byHash \cup r.future \subseteq r.known
  <2>1. m.byHash \cap m.future = {}
    BY <1>4 DEF Sound
  <2> QED
    BY <1>1, <1>4, <1>5, <1>7, <2>1
<1>10. byHash' \subseteq byHash \/ ready'
  <2>1. CASE RunAfter(q, t) = <<>>
    <3>1. Run(q, t) = {}
      BY <1>7, <2>1 DEF Lists
    <3> QED
      BY <1>1, <1>4, <1>5, <1>6, <3>1
  <2>2. CASE RunAfter(q, t) # <<>>
    BY <1>3, <2>2
  <2> QED
    BY <2>1, <2>2
<1>11. \A x \in byHash' \ byHash : \A u \in future' :
          Sender[u] = Sender[x] => Nonce[u] # Nonce[x] + 1
  <2>1. /\ byHash' \subseteq q.byHash \cup {t} \cup Run(q, t)
        /\ future' \subseteq q.future \ Run(q, t)
    BY <1>4, <1>5, <1>6
  <2>2. \A x \in byHash' \ q.byHash : \A u \in future' :
          Sender[u] = Sender[x] => Nonce[u] # Nonce[x] + 1
    BY <1>1, <2>1, MakeCurrentLeavesNone
  <2> QED
    BY <1>1, <2>2
<1>12. dropped' \subseteq Tx /\ ready' \in BOOLEAN /\ replaced' \in BOOLEAN
  BY DEF DropGood, Stands
<1>13. Stands'
  BY <1>5, <1>6, <1>9, <1>12, BecomesSound
<1>14. known' \ (byHash' \cup future') \subseteq known \ byHash
  BY <1>1, <1>4, <1>5, <1>6
<1> QED
  BY <1>8, <1>10, <1>11, <1>13, <1>14

LEMMA SetFutureKeeps ==
    ASSUME Stands, NEW t \in Tx, SetFuture(t)
    PROVE  /\ Stands'
           /\ byHash' \subseteq byHash
           /\ byHash' \cup future' = byHash \cup future
           /\ known' = known
<1> DEFINE cutoff == {u \in byNonce : Sender[u] = Sender[t] /\ Nonce[u] >= Nonce[t]}
           q == [current |-> Without(current, cutoff), byHash |-> byHash \ cutoff,
                 byNonce |-> byNonce \ cutoff, future |-> future \cup cutoff,
                 futureSize |-> futureSize + Cardinality(cutoff), known |-> known]
<1>1. /\ byHash \in SUBSET Tx /\ byNonce = byHash /\ future \in SUBSET Tx
      /\ futureSize \in Nat /\ known \in SUBSET Tx
      /\ Lists(current, byHash)
      /\ byHash \cap future = {} /\ OneEach(byHash \cup future)
      /\ futureSize = Cardinality(future)
      /\ byHash \cup future \subseteq known
  BY StandsFacts
<1>2. cutoff \in SUBSET byHash
  BY <1>1
<1>3. InSlotsOf(cutoff, future) = {}
  BY <1>1, <1>2 DEF InSlotsOf, OneEach, SameSlot
<1>4. /\ byHash' = byHash \ cutoff /\ byNonce' = byNonce \ cutoff
      /\ current' = Without(current, cutoff)
      /\ future' = future \cup (cutoff \ InSlotsOf(cutoff, future))
      /\ futureSize' = futureSize + Cardinality(cutoff)
      /\ known' = known
      /\ dropped' = dropped /\ ready' = ready /\ replaced' = replaced
  BY DEF SetFuture
<1> HIDE DEF cutoff
<1>5. Become(q)
  BY <1>3, <1>4 DEF Become
<1>6. Lists(Without(current, cutoff), byHash \ cutoff)
  BY <1>1, ListsWithout
<1>7. Without(current, cutoff) \in Seq(Tx)
  <2>1. Without(current, cutoff) \in Seq(byHash \ cutoff) /\ byHash \ cutoff \subseteq Tx
    BY <1>1, <1>6, ListsElements
  <2> QED
    BY <2>1, SeqMonotonic
<1>8. /\ Cardinality(future \cup cutoff) = futureSize + Cardinality(cutoff)
      /\ Cardinality(cutoff) \in Nat
  <2>1. /\ IsFiniteSet(future) /\ IsFiniteSet(cutoff) /\ Cardinality(cutoff) \in Nat
        /\ future \cap cutoff = {}
    BY <1>1, <1>2, Subsets
  <2>2. Cardinality(future \cup cutoff)
          = Cardinality(future) + Cardinality(cutoff) - Cardinality(future \cap cutoff)
    BY <2>1, FS_Union
  <2>3. Cardinality(future \cap cutoff) = 0
    BY <2>1, FS_EmptySet
  <2> QED
    BY <1>1, <2>1, <2>2, <2>3
<1>9. q \in ContainerType
  BY <1>1, <1>2, <1>7, <1>8 DEF ContainerType
<1>10. (byHash \ cutoff) \cup (future \cup cutoff) = byHash \cup future
  BY <1>2
<1>11. Sound(q)
  BY <1>1, <1>6, <1>8, <1>9, <1>10 DEF Sound
<1>12. Stands'
  <2>1. q.byHash \cup q.future \subseteq q.known
    BY <1>1, <1>10
  <2>2. dropped' \subseteq Tx /\ ready' \in BOOLEAN /\ replaced' \in BOOLEAN
    BY <1>4 DEF Stands
  <2> HIDE DEF q
  <2> QED
    BY <1>5, <1>11, <2>1, <2>2, BecomesSound
<1> QED
  BY <1>2, <1>3, <1>4, <1>12

LEMMA EmptySound ==
    Sound([current |-> <<>>, byHash |-> {}, byNonce |-> {}, future |-> {},
           futureSize |-> 0, known |-> {}])
<1> DEFINE q == [current |-> <<>>, byHash |-> {}, byNonce |-> {}, future |-> {},
                 futureSize |-> 0, known |-> {}]
<1>1. q \in ContainerType
  BY DEF ContainerType
<1>2. Lists(<<>>, {}) /\ Cardinality({}) = 0
  BY ListsEmpty, FS_EmptySet
<1>3. OneEach({} \cup {})
  BY DEF OneEach
<1> QED
  BY <1>1, <1>2, <1>3 DEF Sound

LEMMA ClearKeeps ==
    ASSUME Stands, Clear
    PROVE  Stands' /\ byHash' = {} /\ future' = {} /\ known' = {}
<1> DEFINE q == [current |-> <<>>, byHash |-> {}, byNonce |-> {}, future |-> {},
                 futureSize |-> 0, known |-> {}]
<1>1. Sound(q)
  BY EmptySound
<1>2. Become(q) /\ dropped' = {} /\ ready' = ready /\ replaced' = replaced
  BY DEF Clear
<1>3. q.byHash \cup q.future \subseteq q.known
  OBVIOUS
<1>4. byHash' = {} /\ future' = {} /\ known' = {}
  BY <1>2 DEF Become
<1> HIDE DEF q
<1>5. Stands'
  BY <1>1, <1>2, <1>3, BecomesSound DEF Stands
<1> QED
  BY <1>4, <1>5

LEMMA UnchangedKeeps ==
    ASSUME Stands, UNCHANGED <<current, byHash, byNonce, future, futureSize, known, dropped>>,
           ready' \in BOOLEAN, replaced' \in BOOLEAN
    PROVE  Stands'
BY DEF Stands, Containers

LEMMA StandsInit == Init => Stands
<1> SUFFICES ASSUME Init
             PROVE  Stands
  OBVIOUS
<1>1. Sound(Containers)
  BY EmptySound DEF Init, Containers
<1> QED
  BY <1>1 DEF Init, Stands

LEMMA StandsNext == Stands /\ [Next]_vars => Stands'
<1> SUFFICES ASSUME Stands, [Next]_vars
             PROVE  Stands'
  OBVIOUS
<1>1. ASSUME NEW t \in Tx, NEW retry \in BOOLEAN, Import(t, retry)
      PROVE  Stands'
  BY <1>1, ImportKeeps
<1>2. ASSUME NEW t \in Tx, Drop(t)
      PROVE  Stands'
  BY <1>2, DropKeeps
<1>3. ASSUME NEW t \in Tx, DropGood(t)
      PROVE  Stands'
  BY <1>3, DropGoodKeeps
<1>4. ASSUME NEW t \in Tx, SetFuture(t)
      PROVE  Stands'
  BY <1>4, SetFutureKeeps
<1>5. CASE Clear
  BY <1>5, ClearKeeps
<1>6. CASE Attend
  BY <1>6, UnchangedKeeps DEF Attend
<1>7. CASE UNCHANGED vars
  BY <1>7, UnchangedKeeps DEF vars, Stands
<1> QED
  BY <1>1, <1>2, <1>3, <1>4, <1>5, <1>6, <1>7 DEF Next

LEMMA IInvInit == Init => IInv
BY StandsInit, StandsIInv

LEMMA IInvNext == IInv /\ [Next]_vars => IInv'
<1>1. Stands' => IInv'
  BY StandsIInv, PTL
<1> QED
  BY <1>1, IInvStands, StandsNext

\* The inductive invariant holds in every state.
THEOREM QueueInvariant == Spec => []IInv
BY IInvInit, IInvNext, PTL DEF Spec

\* Every member of the class keeps its type; m_futureSize never falls below zero.
THEOREM QueueTypeCorrect == Spec => []TypeOK
<1>1. IInv => TypeOK
  BY DEF IInv
<1> QED
  BY <1>1, QueueInvariant, PTL

\* No iterator of m_currentByHash or m_currentByAddressAndNonce is left behind,
\* whatever the operations remove, replace, evict or move.
THEOREM IndicesStayTrue == Spec => []IndicesAgree
<1>1. IInv => IndicesAgree
  BY DEF IInv
<1> QED
  BY <1>1, QueueInvariant, PTL

\* makeCurrent() and setFuture() never find the slot taken that they move a
\* transaction into.
THEOREM SlotsAreSingle == Spec => []OnePerSlot
<1>1. IInv => OnePerSlot
  BY DEF IInv
<1> QED
  BY <1>1, QueueInvariant, PTL

\* m_futureSize is the number of transactions in m_future.
THEOREM FutureSizeExact == Spec => []FutureCounted
<1>1. IInv => FutureCounted
  BY DEF IInv
<1> QED
  BY <1>1, QueueInvariant, PTL

-----------------------------------------------------------------------------
(***************************************************************************)
(* What no step does                                                       *)
(***************************************************************************)

\* What is in the queue after a step was there before, but for the transaction
\* that import() was given.
LEMMA OnlyImportAdds ==
    ASSUME Stands, Next
    PROVE  \/ byHash' \cup future' \subseteq byHash \cup future /\ known' \subseteq known
           \/ \E t \in Tx, retry \in BOOLEAN : Import(t, retry)
<1>1. ASSUME NEW t \in Tx, Drop(t)
      PROVE  byHash' \cup future' \subseteq byHash \cup future /\ known' \subseteq known
  BY <1>1, DropKeeps
<1>2. ASSUME NEW t \in Tx, DropGood(t)
      PROVE  byHash' \cup future' \subseteq byHash \cup future /\ known' \subseteq known
  BY <1>2, DropGoodKeeps
<1>3. ASSUME NEW t \in Tx, SetFuture(t)
      PROVE  byHash' \cup future' \subseteq byHash \cup future /\ known' \subseteq known
  BY <1>3, SetFutureKeeps
<1>4. Clear => byHash' \cup future' \subseteq byHash \cup future /\ known' \subseteq known
  BY ClearKeeps
<1>5. Attend => byHash' \cup future' \subseteq byHash \cup future /\ known' \subseteq known
  BY DEF Attend
<1> QED
  BY <1>1, <1>2, <1>3, <1>4, <1>5 DEF Next

\* Sets, before and after, as the properties name them.
LEMMA QueuedSets ==
    ASSUME Stands, Next
    PROVE  /\ Stands'
           /\ ToSet(current) = byHash /\ ToSet(current') = byHash'
           /\ Queued = byHash \cup future /\ Queued' = byHash' \cup future'
           /\ OneEach(byHash \cup future)
           /\ byHash \in SUBSET Tx /\ future \in SUBSET Tx
<1>1. Stands'
  BY StandsNext
<1> QED
  BY <1>1, StandsFacts, StandsFactsNext DEF ListedOnce

LEMMA KnownFollowsStep ==
    ASSUME Stands, Next
    PROVE  KnownCovers' /\ known' \ Queued' \subseteq known \ ToSet(current)
<1>1. /\ Stands' /\ ToSet(current) = byHash /\ Queued' = byHash' \cup future'
  BY QueuedSets
<1>2. KnownCovers'
  BY <1>1 DEF Stands, ListedOnce, KnownCovers, Containers
<1>3. ASSUME NEW t \in Tx, NEW retry \in BOOLEAN, Import(t, retry)
      PROVE  known' \ (byHash' \cup future') \subseteq known \ byHash
  BY <1>3, ImportKeeps
<1>4. ASSUME NEW t \in Tx, Drop(t)
      PROVE  known' \ (byHash' \cup future') \subseteq known \ byHash
  BY <1>4, DropKeeps
<1>5. ASSUME NEW t \in Tx, DropGood(t)
      PROVE  known' \ (byHash' \cup future') \subseteq known \ byHash
  BY <1>5, DropGoodKeeps
<1>6. ASSUME NEW t \in Tx, SetFuture(t)
      PROVE  known' \ (byHash' \cup future') \subseteq known \ byHash
  <2>1. known' = known /\ byHash \subseteq byHash' \cup future'
    BY <1>6, SetFutureKeeps
  <2> QED
    BY <2>1
<1>7. Clear => known' \ (byHash' \cup future') \subseteq known \ byHash
  BY ClearKeeps
<1>8. Attend => known' \ (byHash' \cup future') \subseteq known \ byHash
  BY DEF Attend
<1> QED
  BY <1>1, <1>2, <1>3, <1>4, <1>5, <1>6, <1>7, <1>8 DEF Next

LEMMA NeverUnderbidStep ==
    ASSUME Stands, Next
    PROVE  \A t \in Queued : \A u \in Queued' : SameSlot(t, u) => GasPrice[t] <= GasPrice[u]
<1>1. /\ Queued = byHash \cup future /\ Queued' = byHash' \cup future'
      /\ OneEach(byHash \cup future)
      /\ \A t \in byHash \cup future : t \in Tx
  BY QueuedSets
<1>2. \A t \in Tx : GasPrice[t] \in Nat
  BY TxAssumption
<1>3. \A t, u \in byHash \cup future : SameSlot(t, u) => GasPrice[t] <= GasPrice[u]
  BY <1>1, <1>2 DEF OneEach
<1>4. CASE byHash' \cup future' \subseteq byHash \cup future
  BY <1>1, <1>3, <1>4
<1>5. ASSUME NEW n \in Tx, NEW retry \in BOOLEAN, Import(n, retry)
      PROVE  \A t \in Queued : \A u \in Queued' : SameSlot(t, u) => GasPrice[t] <= GasPrice[u]
  <2>1. byHash' \cup future' \subseteq byHash \cup future \cup {n}
    BY <1>5, ImportKeeps
  <2>2. ~Overbid(Containers, n) /\ byNonce = byHash
    BY <1>5, StandsFacts DEF Import
  <2>3. \A t \in byHash \cup future : SameSlot(n, t) => ~(GasPrice[n] < GasPrice[t])
    BY <2>2, ContainersFields DEF Overbid, InSlotsOf
  <2>4. \A t \in byHash \cup future : SameSlot(t, n) => GasPrice[t] <= GasPrice[n]
    BY <1>1, <1>2, <2>3 DEF SameSlot
  <2> QED
    BY <1>1, <1>3, <2>1, <2>4
<1> QED
  BY <1>4, <1>5, OnlyImportAdds

LEMMA ReplacedToldStep ==
    ASSUME Stands, Next
    PROVE  \A t \in ToSet(current) : \A u \in ToSet(current') :
              SameSlot(t, u) /\ t # u => replaced'
<1>1. /\ ToSet(current) = byHash /\ ToSet(current') = byHash'
      /\ OneEach(byHash \cup future)
  BY QueuedSets
<1>2. CASE byHash' \cup future' \subseteq byHash \cup future
  BY <1>1, <1>2 DEF OneEach
<1>3. ASSUME NEW n \in Tx, NEW retry \in BOOLEAN, Import(n, retry)
      PROVE  \A t \in byHash : \A u \in byHash' : SameSlot(t, u) /\ t # u => replaced'
  <2>1. byHash' \cup future' \subseteq byHash \cup future \cup {n}
    BY <1>3, ImportKeeps
  <2>2. replaced' = (replaced \/ InSlotsOf(byHash, {n}) # {})
    BY <1>3, StandsFacts DEF Import
  <2>3. \A t \in byHash : SameSlot(t, n) => InSlotsOf(byHash, {n}) # {}
    BY DEF InSlotsOf, SameSlot
  <2>4. \A t \in byHash : \A u \in byHash' : SameSlot(t, u) /\ t # u => u = n
    BY <1>1, <2>1 DEF OneEach
  <2> QED
    BY <2>2, <2>3, <2>4
<1> QED
  BY <1>1, <1>2, <1>3, OnlyImportAdds

LEMMA ReadyToldStep ==
    ASSUME Stands, Next
    PROVE  ToSet(current') \subseteq ToSet(current) \/ ready'
<1>1. ToSet(current) = byHash /\ ToSet(current') = byHash'
  BY QueuedSets
<1>2. ASSUME NEW t \in Tx, NEW retry \in BOOLEAN, Import(t, retry)
      PROVE  ready'
  BY <1>2 DEF Import
<1>3. ASSUME NEW t \in Tx, Drop(t)
      PROVE  byHash' \subseteq byHash
  BY <1>3, DropKeeps
<1>4. ASSUME NEW t \in Tx, DropGood(t)
      PROVE  byHash' \subseteq byHash \/ ready'
  BY <1>4, DropGoodKeeps
<1>5. ASSUME NEW t \in Tx, SetFuture(t)
      PROVE  byHash' \subseteq byHash
  BY <1>5, SetFutureKeeps
<1>6. Clear => byHash' \subseteq byHash
  BY ClearKeeps
<1>7. Attend => byHash' \subseteq byHash
  BY DEF Attend
<1> QED
  BY <1>1, <1>2, <1>3, <1>4, <1>5, <1>6, <1>7 DEF Next

LEMMA LimitsStep ==
    ASSUME Stands, Next
    PROVE  \A t \in Tx : t \notin known /\ t \in known' =>
              Len(current') <= Limit /\ Cardinality(future') <= FutureLimit
<1>1. ASSUME NEW n \in Tx, NEW retry \in BOOLEAN, Import(n, retry)
      PROVE  Len(current') <= Limit /\ Cardinality(future') <= FutureLimit
  BY <1>1, ImportKeeps
<1> QED
  BY <1>1, OnlyImportAdds

LEMMA SuccessorStep ==
    ASSUME Stands, Next
    PROVE  \A t \in ToSet(current') \ ToSet(current) : \A u \in future' :
              Sender[u] = Sender[t] => Nonce[u] # Nonce[t] + 1
<1>1. ToSet(current) = byHash /\ ToSet(current') = byHash'
  BY QueuedSets
<1>2. ASSUME NEW n \in Tx, NEW retry \in BOOLEAN, Import(n, retry)
      PROVE  \A t \in byHash' \ byHash : \A u \in future' :
                Sender[u] = Sender[t] => Nonce[u] # Nonce[t] + 1
  BY <1>2, ImportKeeps
<1>3. ASSUME NEW n \in Tx, Drop(n)
      PROVE  byHash' \subseteq byHash
  BY <1>3, DropKeeps
<1>4. ASSUME NEW n \in Tx, DropGood(n)
      PROVE  \A t \in byHash' \ byHash : \A u \in future' :
                Sender[u] = Sender[t] => Nonce[u] # Nonce[t] + 1
  BY <1>4, DropGoodKeeps
<1>5. ASSUME NEW n \in Tx, SetFuture(n)
      PROVE  byHash' \subseteq byHash
  BY <1>5, SetFutureKeeps
<1>6. Clear => byHash' \subseteq byHash
  BY ClearKeeps
<1>7. Attend => byHash' \subseteq byHash
  BY DEF Attend
<1> QED
  BY <1>1, <1>2, <1>3, <1>4, <1>5, <1>6, <1>7 DEF Next

LEMMA AlwaysStands == Spec => []Stands
BY StandsInit, StandsNext, PTL DEF Spec

\* import() gives a place away, in m_current or m_future, only to a price that
\* is at least as high.
THEOREM NothingUnderbid == Spec => NeverUnderbid
<1>1. Stands /\ [Next]_vars =>
         [\A t \in Queued : \A u \in Queued' :
             SameSlot(t, u) => GasPrice[t] <= GasPrice[u]]_vars
  BY NeverUnderbidStep
<1> QED
  BY <1>1, AlwaysStands, PTL DEF Spec, NeverUnderbid

\* m_known keeps the hash of every queued transaction, and of those that leave only
\* what was in m_future (import, drop, dropGood, setFuture, clear).
THEOREM KnownFollows == Spec => KnownFollowsQueue
<1>1. Stands /\ [Next]_vars =>
         [/\ KnownCovers'
          /\ known' \ Queued' \subseteq known \ ToSet(current)]_vars
  BY KnownFollowsStep
<1> QED
  BY <1>1, AlwaysStands, PTL DEF Spec, KnownFollowsQueue

\* import() calls m_onReplaced whenever a current transaction gives way.
THEOREM ReplacementsTold == Spec => ReplacedTold
<1>1. Stands /\ [Next]_vars =>
         [\A t \in ToSet(current) : \A u \in ToSet(current') :
             SameSlot(t, u) /\ t # u => replaced']_vars
  BY ReplacedToldStep
<1> QED
  BY <1>1, AlwaysStands, PTL DEF Spec, ReplacedTold

\* import() and dropGood() call m_onReady whenever something becomes current.
THEOREM NewcomersTold == Spec => ReadyToldOfNew
<1>1. Stands /\ [Next]_vars =>
         [ToSet(current') \subseteq ToSet(current) \/ ready']_vars
  BY ReadyToldStep
<1> QED
  BY <1>1, AlwaysStands, PTL DEF Spec, ReadyToldOfNew

\* manageImport_WITH_LOCK leaves both containers within their limits.
THEOREM LimitsKept == Spec => LimitsAfterImport
<1>1. Stands /\ [Next]_vars =>
         [\A t \in Tx : t \notin known /\ t \in known' =>
             Len(current') <= Limit /\ Cardinality(future') <= FutureLimit]_vars
  BY LimitsStep
<1> QED
  BY <1>1, AlwaysStands, PTL DEF Spec, LimitsAfterImport

\* makeCurrent_WITH_LOCK leaves none behind in m_future that follows at once.
THEOREM SuccessorsFollow == Spec => SuccessorFollows
<1>1. Stands /\ [Next]_vars =>
         [\A t \in ToSet(current') \ ToSet(current) : \A u \in future' :
             Sender[u] = Sender[t] => Nonce[u] # Nonce[t] + 1]_vars
  BY SuccessorStep
<1> QED
  BY <1>1, AlwaysStands, PTL DEF Spec, SuccessorFollows
-----------------------------------------------------------------------------
(***************************************************************************)
(* The client's worker.                                                    *)
(***************************************************************************)

Passing == {"pass", "tooNew", "early", "passed", "answer"}

\* Block::sync is at a transaction of its list, or past the last one.
InList ==
    /\ list # <<>> => pc \in Passing
    /\ pc \in {"pass", "tooNew", "early"} => at \in 1..Len(list)
    /\ pc = "passed" => list # <<>> /\ at = Len(list) + 1

\* What made room for another is not in the queue, until it is imported again.
DisplacedGone == displaced \cap (byHash \cup future) = {}

\* ReplacedLeavesPending, and what it takes: the worker may be about to execute
\* what has just made room.
DisplacedTold == (working \cup ToSet(list)) \cap displaced # {} => replaced

\* m_needStateReset is cleared after the reset.
ClearedEmpty == pc = "clear" => working = {}

-----------------------------------------------------------------------------
(***************************************************************************)
(* The steps of TransactionSync as steps of the queue                      *)
(***************************************************************************)

\* A step that imports n.
Imports(n) ==
    /\ \E retry \in BOOLEAN : Import(n, retry)
    /\ Note(n)
    /\ Unmiss

\* A step in which nothing enters the queue.
Settles ==
    /\ byHash' \cup future' \subseteq byHash \cup future
    /\ byHash' \subseteq byHash \/ ready'
    /\ displaced' = displaced
    /\ replaced' = replaced \/ pc = "clear"

LEMMA Rests ==
    ASSUME Stands, UNCHANGED <<containers, displaced>>,
           ready' \in BOOLEAN, replaced' \in BOOLEAN,
           replaced' = replaced \/ pc = "clear"
    PROVE  Stands' /\ Settles
<1>1. UNCHANGED <<current, byHash, byNonce, future, futureSize, known, dropped>>
  BY DEF containers
<1> QED
  BY <1>1, UnchangedKeeps DEF Settles

LEMMA ImportAgainMoves ==
    ASSUME Stands, NEW t \in Tx, ImportAgain(t)
    PROVE  Imports(t) \/ UNCHANGED <<queueVars, displaced, missed>>
BY DEF ImportAgain, Imports

LEMMA DropMoves ==
    ASSUME Stands, NEW t \in Tx, DropIfKnown(t), displaced' = displaced
    PROVE  /\ Stands' /\ Settles
           /\ byHash' \subseteq byHash /\ ready' = ready /\ replaced' = replaced
<1>1. CASE t \in known
  <2>1. Drop(t)
    BY <1>1 DEF DropIfKnown
  <2> QED
    BY <2>1, DropKeeps DEF Settles, Drop
<1>2. CASE t \notin known
  <2>1. UNCHANGED <<containers, displaced, ready, replaced>>
    BY <1>2 DEF DropIfKnown, queueVars
  <2> QED
    BY <2>1, Rests DEF Stands, containers
<1> QED
  BY <1>1, <1>2

LEMMA MakeFutureMoves ==
    ASSUME Stands, NEW t \in Tx,
           IF t \in byHash THEN SetFuture(t) ELSE UNCHANGED queueVars,
           displaced' = displaced
    PROVE  /\ Stands' /\ Settles
           /\ byHash' \subseteq byHash /\ ready' = ready /\ replaced' = replaced
<1>1. CASE t \in byHash
  BY <1>1, SetFutureKeeps DEF Settles, SetFuture
<1>2. CASE t \notin byHash
  <2>1. UNCHANGED <<containers, displaced, ready, replaced>>
    BY <1>2 DEF queueVars
  <2> QED
    BY <2>1, Rests DEF Stands, containers
<1> QED
  BY <1>1, <1>2

LEMMA ListAt ==
    ASSUME list \in Seq(Tx), InList, pc \in {"pass", "tooNew", "early"}
    PROVE  list[at] \in Tx /\ list[at] \in ToSet(list) /\ at \in 1..Len(list)
BY DEF InList, ToSet

\* Each step of the composition moves the queue as import() does, or lets
\* nothing in.
LEMMA QueueStep ==
    ASSUME Stands, SyncTypeOK, InList, SyncNext
    PROVE  /\ Stands'
           /\ (\E n \in Tx : Imports(n)) \/ Settles
<1>1. /\ todo \subseteq Tx /\ good \subseteq Tx /\ list \in Seq(Tx)
      /\ ready \in BOOLEAN /\ replaced \in BOOLEAN /\ more \in BOOLEAN
  BY DEF SyncTypeOK, TypeOK
<1>2. ASSUME NEW n \in Tx, Imports(n)
      PROVE  Stands'
  BY <1>2, ImportKeeps DEF Imports
<1>3. ASSUME UNCHANGED <<queueVars, displaced>>
      PROVE  Stands' /\ Settles
  <2>1. UNCHANGED <<containers, displaced, ready, replaced>>
    BY <1>3 DEF queueVars
  <2> QED
    BY <1>1, <2>1, Rests
<1>4. ASSUME NEW t \in Tx, Submit(t)
      PROVE  Imports(t)
  BY <1>4 DEF Submit, Imports
<1>5. CASE ClearQueue
  BY <1>5, ClearKeeps DEF ClearQueue, Settles, Clear
<1>6. CASE ImportBlocks
  BY <1>3, <1>6 DEF ImportBlocks
<1>7. CASE NoBlocks
  BY <1>3, <1>7 DEF NoBlocks
<1>8. CASE ResubmitDead
  <2>1. ASSUME NEW t \in todo, ImportAgain(t)
        PROVE  Imports(t) \/ (Stands' /\ Settles)
    BY <1>1, <1>3, <2>1, ImportAgainMoves
  <2> QED
    BY <1>1, <1>2, <1>3, <1>8, <2>1 DEF ResubmitDead
<1>9. CASE DropMined
  <2>1. ASSUME NEW t \in good, DropGood(t), displaced' = displaced
        PROVE  Stands' /\ Settles
    BY <1>1, <2>1, DropGoodKeeps DEF Settles, DropGood
  <2> QED
    BY <1>3, <1>9, <2>1 DEF DropMined, Lowest
<1>10. CASE ResyncAfterImport
  BY <1>3, <1>10 DEF ResyncAfterImport
<1>11. CASE ResyncBeforeList
  BY <1>3, <1>11 DEF ResyncBeforeList
<1>12. CASE Resubmit
  <2>1. ASSUME NEW t \in todo, ImportAgain(t)
        PROVE  Imports(t) \/ (Stands' /\ Settles)
    BY <1>1, <1>3, <2>1, ImportAgainMoves
  <2>2. ASSUME ready' = TRUE, UNCHANGED <<containers, replaced, displaced>>
        PROVE  Stands' /\ Settles
    BY <1>1, <2>2, Rests
  <2> QED
    BY <1>1, <1>2, <1>12, <2>1, <2>2 DEF Resubmit, Lowest
<1>13. CASE ResetState
  BY <1>1, <1>13, Rests DEF ResetState
<1>14. CASE ResetDone
  BY <1>1, <1>14, Rests DEF ResetDone
<1>15. CASE TakeReady
  BY <1>1, <1>15, Rests DEF TakeReady
<1>16. CASE SkipSync
  BY <1>3, <1>16 DEF SkipSync
<1>17. CASE ListTop
  BY <1>3, <1>17 DEF ListTop
<1>18. CASE SkipExecuted
  BY <1>3, <1>18 DEF SkipExecuted, GoOn
<1>19. CASE DropOversized
  <2>1. list[at] \in Tx /\ DropIfKnown(list[at]) /\ displaced' = displaced
    BY <1>1, <1>19, ListAt DEF DropOversized, GoOn
  <2> QED
    BY <2>1, DropMoves
<1>20. CASE LeaveForNow
  BY <1>3, <1>20 DEF LeaveForNow, GoOn
<1>21. CASE DropOld
  <2>1. list[at] \in Tx /\ DropIfKnown(list[at]) /\ displaced' = displaced
    BY <1>1, <1>21, ListAt DEF DropOld, NonceSeen, GoOn
  <2> QED
    BY <2>1, DropMoves
<1>22. CASE AskWaiting
  BY <1>3, <1>22 DEF AskWaiting
<1>23. CASE DropTooNew
  <2>1. list[at] \in Tx /\ DropIfKnown(list[at]) /\ displaced' = displaced
    BY <1>1, <1>23, ListAt DEF DropTooNew, GoOn
  <2> QED
    BY <2>1, DropMoves
<1>24. CASE MakeFuture
  <2>1. /\ list[at] \in Tx /\ displaced' = displaced
        /\ IF list[at] \in byHash THEN SetFuture(list[at]) ELSE UNCHANGED queueVars
    BY <1>1, <1>24, ListAt DEF MakeFuture, GoOn
  <2> QED
    BY <2>1, MakeFutureMoves
<1>25. CASE Execute
  BY <1>3, <1>25 DEF Execute, GoOn
<1>26. CASE PassOver
  BY <1>3, <1>26 DEF PassOver
<1>27. CASE TakeAnswer
  BY <1>1, <1>27, Rests DEF TakeAnswer
<1> QED
  BY <1>2, <1>4, <1>5, <1>6, <1>7, <1>8, <1>9, <1>10, <1>11, <1>12, <1>13, <1>14,
     <1>15, <1>16, <1>17, <1>18, <1>19, <1>20, <1>21, <1>22, <1>23, <1>24, <1>25,
     <1>26, <1>27 DEF SyncNext

-----------------------------------------------------------------------------
(***************************************************************************)
(* Types, and where Block::sync is in its list                             *)
(***************************************************************************)

\* The part of SyncTypeOK that is about the worker.
WorkerTypes ==
    /\ mined \subseteq Tx /\ base \subseteq Tx /\ working \subseteq Tx
    /\ todo \subseteq Tx /\ good \subseteq Tx
    /\ behind \in BOOLEAN /\ every \in BOOLEAN /\ more \in BOOLEAN
    /\ pc \in Steps
    /\ list \in Seq(Tx)
    /\ at \in Nat
    /\ events \in 0..MaxEvents

\* What topTransactions() returns.
LEMMA TopTransactions ==
    ASSUME Stands, SyncTypeOK, ListTop
    PROVE  /\ list' \in Seq(Tx) /\ Len(list') \in Nat
           /\ ToSet(list') \subseteq byHash \ working
           /\ Len(list') < MaxSync => ToSet(list') = byHash \ working
           /\ list' = <<>> => pc' = "answer" /\ byHash \subseteq working
           /\ list' # <<>> => pc' = "pass" /\ 1 <= Len(list')
           /\ more' = (Len(list') = MaxSync)
           /\ Len(list') <= MaxSync
<1> DEFINE open == Without(current, working)
           n == Min({Len(open), MaxSync})
           top == SubSeq(open, 1, n)
<1>1. Lists(current, byHash) /\ byHash \in SUBSET Tx /\ MaxSync \in Nat \ {0}
  BY StandsFacts, SyncAssumption
<1>2. Lists(open, byHash \ working)
  BY <1>1, ListsWithout
<1>3. /\ list' = top /\ more' = (Len(top) = MaxSync)
      /\ pc' = IF top = <<>> THEN "answer" ELSE "pass"
  BY DEF ListTop
<1>4. Len(open) \in Nat /\ open \in Seq(byHash \ working)
  BY <1>2, ListsElements
<1> HIDE DEF open
<1>5. n = IF Len(open) < MaxSync THEN Len(open) ELSE MaxSync
  <2>1. \A x \in {Len(open), MaxSync} : x = Len(open) \/ x = MaxSync
    OBVIOUS
  <2>2. \E x \in {Len(open), MaxSync} : \A y \in {Len(open), MaxSync} : x <= y
    BY <1>1, <1>4
  <2>3. n \in {Len(open), MaxSync} /\ \A y \in {Len(open), MaxSync} : n <= y
    BY <2>2 DEF Min
  <2> QED
    BY <1>1, <1>4, <2>3
<1> HIDE DEF n
<1>6. n \in Nat /\ n <= Len(open) /\ n <= MaxSync
  BY <1>1, <1>4, <1>5
<1>7. top \in Seq(byHash \ working) /\ Len(top) = n
  BY <1>4, <1>6, SubSeqProperties
<1>8. Lists(top, FirstOf(open, n)) /\ FirstOf(open, n) \subseteq byHash \ working
  BY <1>2, <1>6, ListsCut
<1> HIDE DEF top
<1>9. ToSet(top) = FirstOf(open, n)
  BY <1>8, ListsToSet
<1>10. top \in Seq(Tx)
  <2>1. byHash \ working \subseteq Tx
    BY <1>1
  <2> QED
    BY <1>7, <2>1, SeqMonotonic
<1>11. Len(top) < MaxSync => ToSet(top) = byHash \ working
  <2> SUFFICES ASSUME Len(top) < MaxSync
               PROVE  byHash \ working \subseteq ToSet(top)
    BY <1>8, <1>9
  <2>1. n = Len(open)
    BY <1>1, <1>4, <1>5, <1>7
  <2>2. \A x \in byHash \ working : \E i \in 1..Len(open) : open[i] = x
    BY <1>2 DEF Lists
  <2> QED
    BY <1>9, <2>1, <2>2 DEF FirstOf
<1>12. top = <<>> => byHash \subseteq working
  <2> SUFFICES ASSUME top = <<>>
               PROVE  byHash \subseteq working
    OBVIOUS
  <2>1. Len(top) = 0 /\ ToSet(top) = {}
    BY DEF ToSet
  <2> QED
    BY <1>1, <1>11, <2>1
<1>13. top # <<>> => 1 <= Len(top)
  BY <1>6, <1>7, EmptySeq
<1> QED
  BY <1>3, <1>6, <1>7, <1>8, <1>9, <1>10, <1>11, <1>12, <1>13

LEMMA WorkerTypesNext ==
    ASSUME Stands, SyncTypeOK, InList, SyncNext
    PROVE  WorkerTypes' /\ InList'
<1>1. /\ mined \subseteq Tx /\ base \subseteq Tx /\ working \subseteq Tx
      /\ todo \subseteq Tx /\ good \subseteq Tx
      /\ behind \in BOOLEAN /\ every \in BOOLEAN /\ more \in BOOLEAN
      /\ pc \in Steps /\ list \in Seq(Tx) /\ at \in Nat /\ events \in 0..MaxEvents
  BY DEF SyncTypeOK
<1>2. Len(list) \in Nat /\ MaxEvents \in Nat
  BY <1>1, SyncAssumption
<1> USE DEF chainVars, passVars, queueVars, Steps, Passing
<1>3. ASSUME NEW t \in Tx, Submit(t)
      PROVE  WorkerTypes' /\ InList'
  BY <1>1, <1>2, <1>3 DEF Submit, WorkerTypes, InList
<1>4. CASE ListTop
  <2>1. /\ list' \in Seq(Tx) /\ Len(list') \in Nat
        /\ list' = <<>> => pc' = "answer"
        /\ list' # <<>> => pc' = "pass" /\ 1 <= Len(list')
        /\ more' = (Len(list') = MaxSync)
    BY <1>4, TopTransactions
  <2>2. at' = 1 /\ every' = TRUE /\ UNCHANGED <<chainVars, working, todo, good, events>>
    BY <1>4 DEF ListTop
  <2> QED
    BY <1>1, <2>1, <2>2 DEF WorkerTypes, InList
<1>5. CASE ClearQueue
  BY <1>1, <1>2, <1>5 DEF ClearQueue, WorkerTypes, InList
<1>6. CASE ImportBlocks
  BY <1>1, <1>2, <1>6 DEF ImportBlocks, WorkerTypes, InList
<1>7. CASE NoBlocks
  BY <1>1, <1>2, <1>7 DEF NoBlocks, WorkerTypes, InList
<1>8. CASE ResubmitDead
  BY <1>1, <1>2, <1>8 DEF ResubmitDead, WorkerTypes, InList
<1>9. CASE DropMined
  BY <1>1, <1>2, <1>9 DEF DropMined, WorkerTypes, InList
<1>10. CASE ResyncAfterImport
  BY <1>1, <1>2, <1>10 DEF ResyncAfterImport, Restart, WorkerTypes, InList
<1>11. CASE ResyncBeforeList
  BY <1>1, <1>2, <1>11 DEF ResyncBeforeList, Restart, WorkerTypes, InList
<1>12. CASE Resubmit
  BY <1>1, <1>2, <1>12 DEF Resubmit, WorkerTypes, InList
<1>13. CASE ResetState
  BY <1>1, <1>2, <1>13 DEF ResetState, WorkerTypes, InList
<1>14. CASE ResetDone
  BY <1>1, <1>2, <1>14 DEF ResetDone, WorkerTypes, InList
<1>15. CASE TakeReady
  BY <1>1, <1>2, <1>15 DEF TakeReady, WorkerTypes, InList
<1>16. CASE SkipSync
  BY <1>1, <1>2, <1>16 DEF SkipSync, WorkerTypes, InList
<1>17. CASE SkipExecuted
  <2>1. list # <<>> /\ at \in 1..Len(list) /\ list[at] \in Tx
    BY <1>1, <1>17, ListAt, EmptySeq DEF SkipExecuted
  <2> QED
    BY <1>1, <1>2, <1>17, <2>1 DEF SkipExecuted, GoOn, WorkerTypes, InList
<1>18. CASE DropOversized
  <2>1. list # <<>> /\ at \in 1..Len(list) /\ list[at] \in Tx
    BY <1>1, <1>18, ListAt, EmptySeq DEF DropOversized
  <2> QED
    BY <1>1, <1>2, <1>18, <2>1 DEF DropOversized, GoOn, WorkerTypes, InList
<1>19. CASE LeaveForNow
  <2>1. list # <<>> /\ at \in 1..Len(list) /\ list[at] \in Tx
    BY <1>1, <1>19, ListAt, EmptySeq DEF LeaveForNow
  <2> QED
    BY <1>1, <1>2, <1>19, <2>1 DEF LeaveForNow, GoOn, WorkerTypes, InList
<1>20. CASE DropOld
  <2>1. list # <<>> /\ at \in 1..Len(list) /\ list[at] \in Tx
    BY <1>1, <1>20, ListAt, EmptySeq DEF DropOld, NonceSeen
  <2> QED
    BY <1>1, <1>2, <1>20, <2>1 DEF DropOld, NonceSeen, GoOn, WorkerTypes, InList
<1>21. CASE AskWaiting
  BY <1>1, <1>2, <1>21 DEF AskWaiting, NonceSeen, WorkerTypes, InList
<1>22. CASE DropTooNew
  <2>1. list # <<>> /\ at \in 1..Len(list) /\ list[at] \in Tx
    BY <1>1, <1>22, ListAt, EmptySeq DEF DropTooNew
  <2> QED
    BY <1>1, <1>2, <1>22, <2>1 DEF DropTooNew, GoOn, WorkerTypes, InList
<1>23. CASE MakeFuture
  <2>1. list # <<>> /\ at \in 1..Len(list) /\ list[at] \in Tx
    BY <1>1, <1>23, ListAt, EmptySeq DEF MakeFuture
  <2> QED
    BY <1>1, <1>2, <1>23, <2>1 DEF MakeFuture, GoOn, WorkerTypes, InList
<1>24. CASE Execute
  <2>1. list # <<>> /\ at \in 1..Len(list) /\ list[at] \in Tx
    BY <1>1, <1>24, ListAt, EmptySeq DEF Execute, NonceSeen
  <2> QED
    BY <1>1, <1>2, <1>24, <2>1 DEF Execute, NonceSeen, GoOn, WorkerTypes, InList
<1>25. CASE PassOver
  <2>1. pc = "passed" /\ list # <<>> /\ 1 \in 1..Len(list) /\ at = Len(list) + 1
    BY <1>1, <1>2, <1>25, EmptySeq DEF PassOver, InList
  <2>2. /\ pc' \in {"answer", "pass"} /\ list' = list /\ at' \in {at, 1}
        /\ pc' = "pass" => at' = 1
        /\ every' \in BOOLEAN /\ more' \in BOOLEAN
    BY <1>1, <1>25 DEF PassOver
  <2>3. UNCHANGED <<chainVars, working, todo, good, events>>
    BY <1>25 DEF PassOver
  <2>4. WorkerTypes'
    BY <1>1, <2>2, <2>3 DEF WorkerTypes
  <2> QED
    BY <2>1, <2>2, <2>4 DEF InList
<1>26. CASE TakeAnswer
  <2>1. /\ list' = <<>> /\ at' = 0 /\ every' = FALSE /\ more' = FALSE /\ pc' = "top"
        /\ UNCHANGED <<chainVars, working, todo, good, events>>
    BY <1>26 DEF TakeAnswer
  <2>2. <<>> \in Seq(Tx) /\ 0 \in Nat /\ "top" \in Steps
    BY EmptySeq
  <2> HIDE DEF Steps
  <2>3. WorkerTypes'
    <3>1. mined' \subseteq Tx /\ base' \subseteq Tx /\ working' \subseteq Tx
          /\ todo' \subseteq Tx /\ good' \subseteq Tx /\ behind' \in BOOLEAN
          /\ events' \in 0..MaxEvents
      BY <1>1, <2>1
    <3>2. every' \in BOOLEAN /\ more' \in BOOLEAN /\ pc' \in Steps
          /\ list' \in Seq(Tx) /\ at' \in Nat
      BY <2>1, <2>2
    <3> QED
      BY <3>1, <3>2 DEF WorkerTypes
  <2> QED
    BY <2>1, <2>3 DEF InList
<1> QED
  BY <1>3, <1>4, <1>5, <1>6, <1>7, <1>8, <1>9, <1>10, <1>11, <1>12,
     <1>13, <1>14, <1>15, <1>16, <1>17, <1>18, <1>19, <1>20,
     <1>21, <1>22, <1>23, <1>24, <1>25, <1>26 DEF SyncNext

-----------------------------------------------------------------------------
(***************************************************************************)
(* What was replaced                                                       *)
(***************************************************************************)

\* The worker lists and executes nothing but what is current when it looks.
LEMMA PendingStep ==
    ASSUME Stands, SyncTypeOK, InList, ClearedEmpty, SyncNext
    PROVE  /\ working' \cup ToSet(list') \subseteq working \cup ToSet(list) \cup byHash
           /\ ClearedEmpty'
<1>1. list \in Seq(Tx) /\ ToSet(<<>>) = {}
  BY DEF SyncTypeOK, ToSet
<1>2. ASSUME working' \in {working, {}}, list' \in {list, <<>>}
      PROVE  working' \cup ToSet(list') \subseteq working \cup ToSet(list) \cup byHash
  BY <1>1, <1>2
<1> USE DEF passVars, ClearedEmpty
<1>3. ASSUME NEW t \in Tx, Submit(t)
      PROVE  working' = working /\ list' = list /\ pc' = pc
  BY <1>3 DEF Submit
<1>4. CASE ListTop
  <2>1. ToSet(list') \subseteq byHash /\ working' = working /\ pc' # "clear"
    BY <1>4, TopTransactions DEF ListTop
  <2> QED
    BY <2>1
<1>5. CASE Execute
  <2>1. list[at] \in ToSet(list)
    BY <1>1, <1>5, ListAt DEF Execute, NonceSeen
  <2> QED
    BY <1>5, <2>1 DEF Execute, GoOn
<1>6. CASE ClearQueue
  BY <1>2, <1>6 DEF ClearQueue
<1>7. CASE ImportBlocks
  BY <1>2, <1>7 DEF ImportBlocks
<1>8. CASE NoBlocks
  BY <1>2, <1>8 DEF NoBlocks
<1>9. CASE ResubmitDead
  BY <1>2, <1>9 DEF ResubmitDead
<1>10. CASE DropMined
  BY <1>2, <1>10 DEF DropMined
<1>11. CASE ResyncAfterImport
  BY <1>2, <1>11 DEF ResyncAfterImport, Restart
<1>12. CASE ResyncBeforeList
  BY <1>2, <1>12 DEF ResyncBeforeList, Restart
<1>13. CASE Resubmit
  BY <1>2, <1>13 DEF Resubmit
<1>14. CASE ResetState
  BY <1>2, <1>14 DEF ResetState
<1>15. CASE ResetDone
  BY <1>2, <1>15 DEF ResetDone
<1>16. CASE TakeReady
  BY <1>2, <1>16 DEF TakeReady
<1>17. CASE SkipSync
  BY <1>2, <1>17 DEF SkipSync
<1>18. CASE SkipExecuted
  BY <1>2, <1>18 DEF SkipExecuted, GoOn
<1>19. CASE DropOversized
  BY <1>2, <1>19 DEF DropOversized, GoOn
<1>20. CASE LeaveForNow
  BY <1>2, <1>20 DEF LeaveForNow, GoOn
<1>21. CASE DropOld
  BY <1>2, <1>21 DEF DropOld, GoOn
<1>22. CASE AskWaiting
  BY <1>2, <1>22 DEF AskWaiting
<1>23. CASE DropTooNew
  BY <1>2, <1>23 DEF DropTooNew, GoOn
<1>24. CASE MakeFuture
  BY <1>2, <1>24 DEF MakeFuture, GoOn
<1>25. CASE PassOver
  BY <1>2, <1>25 DEF PassOver
<1>26. CASE TakeAnswer
  BY <1>2, <1>26 DEF TakeAnswer
<1> QED
  BY <1>2, <1>3, <1>4, <1>5, <1>6, <1>7, <1>8, <1>9, <1>10, <1>11, <1>12, <1>13,
     <1>14, <1>15, <1>16, <1>17, <1>18, <1>19, <1>20, <1>21,
     <1>22, <1>23, <1>24, <1>25, <1>26 DEF SyncNext

LEMMA DisplacedGoneNext ==
    ASSUME Stands, SyncTypeOK, InList, DisplacedGone, SyncNext
    PROVE  DisplacedGone'
<1>1. (\E n \in Tx : Imports(n)) \/ Settles
  BY QueueStep
<1>2. CASE Settles
  BY <1>2 DEF Settles, DisplacedGone
<1>3. ASSUME NEW n \in Tx, Imports(n)
      PROVE  DisplacedGone'
  <2>1. /\ byHash' \cup future' \subseteq byHash \cup future \cup {n}
        /\ \A u \in byHash' \cup future' : SameSlot(n, u) => u = n
    BY <1>3, ImportKeeps DEF Imports
  <2>2. displaced' = (displaced \cup (InSlotsOf(byNonce, {n}) \ {n})) \ {n}
    BY <1>3 DEF Imports, Note
  <2>3. \A u \in InSlotsOf(byNonce, {n}) : SameSlot(n, u)
    BY DEF InSlotsOf, SameSlot
  <2> QED
    BY <2>1, <2>2, <2>3 DEF DisplacedGone
<1> QED
  BY <1>1, <1>2, <1>3

LEMMA DisplacedToldNext ==
    ASSUME Stands, SyncTypeOK, InList, DisplacedGone, DisplacedTold, ClearedEmpty, SyncNext
    PROVE  DisplacedTold'
<1>1. (\E n \in Tx : Imports(n)) \/ Settles
  BY QueueStep
<1>2. working' \cup ToSet(list') \subseteq working \cup ToSet(list) \cup byHash
  BY PendingStep
<1>3. pc = "clear" => working \cup ToSet(list) = {}
  BY DEF ClearedEmpty, InList, Passing, ToSet
<1>4. CASE Settles
  BY <1>2, <1>3, <1>4 DEF Settles, DisplacedGone, DisplacedTold
<1>5. ASSUME NEW n \in Tx, Imports(n)
      PROVE  DisplacedTold'
  <2>1. replaced' = (replaced \/ InSlotsOf(byNonce, {n}) # {})
    BY <1>5 DEF Imports, Import
  <2>2. displaced' = (displaced \cup (InSlotsOf(byNonce, {n}) \ {n})) \ {n}
    BY <1>5 DEF Imports, Note
  <2> QED
    BY <1>2, <2>1, <2>2 DEF DisplacedGone, DisplacedTold
<1> QED
  BY <1>1, <1>4, <1>5

-----------------------------------------------------------------------------
(***************************************************************************)
(* The pending block continues the chain                                   *)
(***************************************************************************)

\* m_working continues the chain it was built on, which is the head whenever the
\* worker fills it.
HeadKept ==
    /\ IsChain(mined) /\ IsChain(base)
    /\ IsChain(base \cup working)
    /\ base \cap working = {}
    /\ ~behind => base = mined
    /\ pc \in {"resubmitTx", "list"} \cup Passing => ~behind

\* The nonces of an account in a chain are 0 to one less than their number.
LEMMA ChainNonces ==
    ASSUME NEW S \in SUBSET Tx, IsChain(S), NEW t \in Tx
    PROVE  LET A == {u \in S : Sender[u] = Sender[t]}
           IN  /\ Cardinality(A) \in Nat
               /\ \A u \in A : Nonce[u] \in Nat /\ Nonce[u] < Cardinality(A)
               /\ \A n \in 0..(Cardinality(A) - 1) : \E u \in A : Nonce[u] = n
<1> DEFINE A == {u \in S : Sender[u] = Sender[t]}
           k == Cardinality(A)
           rank == [u \in A |-> Nonce[u] + 1]
<1>1. A \in SUBSET Tx /\ \A u \in A : Nonce[u] \in Nat
  BY TxAssumption
<1>2. IsFiniteSet(A) /\ k \in Nat
  BY <1>1, Subsets
<1>3. \A u, w \in A : Nonce[u] = Nonce[w] => u = w
  BY DEF IsChain, SameSlot
<1>4. \A u \in A : \A n \in 0..(Nonce[u] - 1) : \E w \in A : Nonce[w] = n
  BY DEF IsChain
<1> HIDE DEF A, k
<1>5. ASSUME NEW u \in A
      PROVE  Nonce[u] + 1 \in 1..k
  <2> DEFINE m == Nonce[u] + 1
             with == [i \in 1..m |-> CHOOSE w \in A : Nonce[w] = i - 1]
  <2>1. m \in Nat /\ 1 <= m
    BY <1>1
  <2>2. \A i \in 1..m : \E w \in A : Nonce[w] = i - 1
    <3>1. \A i \in 1..m : i - 1 = Nonce[u] \/ i - 1 \in 0..(Nonce[u] - 1)
      BY <1>1, <2>1
    <3> QED
      BY <1>4, <3>1
  <2>3. \A i \in 1..m : with[i] \in A /\ Nonce[with[i]] = i - 1
    BY <2>2
  <2>4. with \in [1..m -> A]
    BY <2>3
  <2> HIDE DEF with, m
  <2>5. with \in Injection(1..m, A)
    <3>1. \A i, j \in 1..m : with[i] = with[j] => i = j
      BY <2>1, <2>3
    <3> QED
      BY <2>4, <3>1 DEF Injection, IsInjective
  <2>6. Cardinality(1..m) <= Cardinality(A)
    BY <1>2, <2>5, FS_Injection
  <2>7. Cardinality(1..m) = m
    BY <2>1, FS_Interval
  <2> QED
    BY <1>1, <1>2, <2>1, <2>6, <2>7 DEF m, k
<1>6. rank \in Injection(A, 1..k)
  <2>1. \A u, w \in A : rank[u] = rank[w] => u = w
    BY <1>1, <1>3
  <2> QED
    BY <1>5, <2>1 DEF Injection, IsInjective
<1>7. IsFiniteSet(1..k) /\ Cardinality(1..k) = k
  BY <1>2, FS_Interval
<1>8. rank \in Surjection(A, 1..k)
  BY <1>2, <1>6, <1>7, FS_Injection DEF k
<1>9. \A n \in 0..(k - 1) : \E u \in A : Nonce[u] = n
  <2>1. \A i \in 1..k : \E u \in A : rank[u] = i
    BY <1>8 DEF Surjection
  <2>2. \A n \in 0..(k - 1) : n + 1 \in 1..k /\ n \in Nat
    BY <1>2
  <2>3. \A n \in 0..(k - 1) : \E u \in A : Nonce[u] + 1 = n + 1
    BY <2>1, <2>2
  <2> QED
    BY <1>1, <2>2, <2>3
<1>10. \A u \in A : Nonce[u] \in Nat /\ Nonce[u] < k
  BY <1>1, <1>2, <1>5
<1> QED
  BY <1>2, <1>9, <1>10 DEF A, k

\* Executing a transaction with the nonce that is required continues a chain.
LEMMA ChainGrows ==
    ASSUME NEW S \in SUBSET Tx, IsChain(S), NEW t \in Tx,
           Cardinality({u \in S : Sender[u] = Sender[t]}) = Nonce[t]
    PROVE  t \notin S /\ IsChain(S \cup {t})
<1> DEFINE A == {u \in S : Sender[u] = Sender[t]}
           k == Cardinality(A)
<1>1. /\ k \in Nat
      /\ \A u \in A : Nonce[u] \in Nat /\ Nonce[u] < k
      /\ \A n \in 0..(k - 1) : \E u \in A : Nonce[u] = n
  BY ChainNonces
<1>2. k = Nonce[t]
  OBVIOUS
<1>3. \A u : u \in A <=> u \in S /\ Sender[u] = Sender[t]
  OBVIOUS
<1> HIDE DEF A, k
<1>4. \A u \in A : Nonce[u] # Nonce[t]
  BY <1>1, <1>2
<1>5. t \notin S
  BY <1>3, <1>4
<1>6. \A u, w \in S \cup {t} : SameSlot(u, w) => u = w
  <2>1. \A u \in S : ~SameSlot(u, t) /\ ~SameSlot(t, u)
    BY <1>3, <1>4 DEF SameSlot
  <2>2. \A u, w \in S : SameSlot(u, w) => u = w
    BY DEF IsChain
  <2> QED
    BY <2>1, <2>2
<1>7. \A u \in S \cup {t} : \A n \in 0..(Nonce[u] - 1) :
         \E w \in S \cup {t} : Sender[w] = Sender[u] /\ Nonce[w] = n
  <2>1. \A u \in S : \A n \in 0..(Nonce[u] - 1) :
           \E w \in S : Sender[w] = Sender[u] /\ Nonce[w] = n
    BY DEF IsChain
  <2>2. \A n \in 0..(Nonce[t] - 1) : \E w \in S : Sender[w] = Sender[t] /\ Nonce[w] = n
    BY <1>1, <1>2, <1>3
  <2> QED
    BY <2>1, <2>2
<1> QED
  BY <1>5, <1>6, <1>7 DEF IsChain

LEMMA HeadNext ==
    ASSUME Stands, SyncTypeOK, InList, HeadKept, SyncNext
    PROVE  HeadKept'
<1>1. /\ mined \subseteq Tx /\ base \subseteq Tx /\ working \subseteq Tx /\ list \in Seq(Tx)
      /\ IsChain(mined) /\ IsChain(base) /\ IsChain(base \cup working)
      /\ base \cap working = {}
      /\ ~behind => base = mined
      /\ pc \in {"resubmitTx", "list"} \cup Passing => ~behind
  BY DEF SyncTypeOK, HeadKept
<1>2. ASSUME UNCHANGED <<mined, base, behind, working>>,
             pc' \in {"resubmitTx", "list"} \cup Passing => ~behind
      PROVE  HeadKept'
  BY <1>1, <1>2 DEF HeadKept
<1>3. ASSUME Restart, UNCHANGED mined
      PROVE  HeadKept'
  <2>1. base' \cup working' = mined /\ base' \cap working' = {}
    BY <1>3 DEF Restart
  <2> QED
    BY <1>1, <1>3, <2>1 DEF Restart, HeadKept
<1> USE DEF chainVars, passVars
<1>5. ASSUME NEW t \in Tx, Submit(t)
      PROVE  HeadKept'
  BY <1>1, <1>2, <1>5 DEF Submit
<1>6. CASE ImportBlocks
  <2>1. IsChain(mined') /\ behind' = TRUE /\ base' = base /\ working' = working /\ pc' = "dead"
    BY <1>6 DEF ImportBlocks
  <2> QED
    BY <1>1, <2>1 DEF HeadKept, Passing
<1>7. CASE ResyncAfterImport
  BY <1>1, <1>2, <1>3, <1>7 DEF ResyncAfterImport, Passing
<1>8. CASE ResyncBeforeList
  BY <1>1, <1>2, <1>3, <1>8 DEF ResyncBeforeList, Passing
<1>9. CASE ResetState
  <2>1. CASE replaced
    <3>1. working' = {} /\ UNCHANGED <<mined, base, behind>> /\ pc' = "clear"
      BY <1>9, <2>1 DEF ResetState
    <3>2. base' \cup working' = base
      BY <3>1
    <3> QED
      BY <1>1, <3>1, <3>2 DEF HeadKept, Passing
  <2>2. CASE ~replaced
    BY <1>2, <1>9, <2>2 DEF ResetState, Passing
  <2> QED
    BY <2>1, <2>2
<1>10. CASE Execute
  <2> DEFINE t == list[at]
  <2>1. /\ t \in Tx /\ t \notin working
        /\ Cardinality({u \in base \cup working : Sender[u] = Sender[t]}) = Nonce[t]
        /\ working' = working \cup {t}
        /\ UNCHANGED <<mined, base, behind>>
        /\ pc \in Passing
    BY <1>1, <1>10, ListAt DEF Execute, NonceSeen, NonceRequired, GoOn, Passing
  <2> HIDE DEF t
  <2>2. base \cup working \in SUBSET Tx
    BY <1>1
  <2>3. t \notin base \cup working /\ IsChain((base \cup working) \cup {t})
    BY <1>1, <2>1, <2>2, ChainGrows
  <2>4. base' \cup working' = (base \cup working) \cup {t}
    BY <2>1
  <2> QED
    BY <1>1, <2>1, <2>3, <2>4 DEF HeadKept
<1>11. CASE ClearQueue
  BY <1>1, <1>2, <1>11 DEF ClearQueue, Passing
<1>12. CASE NoBlocks
  BY <1>1, <1>2, <1>12 DEF NoBlocks, Passing
<1>13. CASE ResubmitDead
  BY <1>1, <1>2, <1>13 DEF ResubmitDead, Passing
<1>14. CASE DropMined
  BY <1>1, <1>2, <1>14 DEF DropMined, Passing
<1>15. CASE Resubmit
  BY <1>1, <1>2, <1>15 DEF Resubmit, Passing
<1>16. CASE ResetDone
  BY <1>1, <1>2, <1>16 DEF ResetDone, Passing
<1>17. CASE TakeReady
  BY <1>1, <1>2, <1>17 DEF TakeReady, Passing
<1>18. CASE SkipSync
  BY <1>1, <1>2, <1>18 DEF SkipSync, Passing
<1>19. CASE ListTop
  BY <1>1, <1>2, <1>19 DEF ListTop, Passing
<1>20. CASE SkipExecuted
  BY <1>1, <1>2, <1>20 DEF SkipExecuted, GoOn, Passing
<1>21. CASE DropOversized
  BY <1>1, <1>2, <1>21 DEF DropOversized, GoOn, Passing
<1>22. CASE LeaveForNow
  BY <1>1, <1>2, <1>22 DEF LeaveForNow, GoOn, Passing
<1>23. CASE DropOld
  BY <1>1, <1>2, <1>23 DEF DropOld, GoOn, NonceSeen, Passing
<1>24. CASE AskWaiting
  BY <1>1, <1>2, <1>24 DEF AskWaiting, NonceSeen, Passing
<1>25. CASE DropTooNew
  BY <1>1, <1>2, <1>25 DEF DropTooNew, GoOn, Passing
<1>26. CASE MakeFuture
  BY <1>1, <1>2, <1>26 DEF MakeFuture, GoOn, Passing
<1>27. CASE PassOver
  BY <1>1, <1>2, <1>27 DEF PassOver, Passing
<1>28. CASE TakeAnswer
  BY <1>1, <1>2, <1>28 DEF TakeAnswer, Passing
<1> QED
  BY <1>5, <1>6, <1>7, <1>8, <1>9, <1>10, <1>11, <1>12, <1>13, <1>14, <1>15, <1>16,
     <1>17, <1>18, <1>19, <1>20, <1>21, <1>22, <1>23, <1>24, <1>25, <1>26, <1>27, <1>28 DEF SyncNext

-----------------------------------------------------------------------------
(***************************************************************************)
(* Nothing is overlooked                                                   *)
(***************************************************************************)

\* Between two fillings of the pending block.
Between == {"top", "dead", "good", "resync", "check", "clear", "try"}

\* With m_syncTransactionQueue clear, what is current is pending or known to be
\* missed between two fillings; during one that will answer "nothing more", it is
\* pending or on the list; and the list is executed up to where the pass is.
Covered ==
    /\ pc \in Between /\ ~ready => byHash \subseteq working \cup missed
    /\ pc \in Passing /\ ~more /\ ~ready => byHash \subseteq working \cup ToSet(list)
    /\ pc \in {"pass", "tooNew", "early", "passed"} /\ every =>
          \A i \in 1..(at - 1) : list[i] \in working
    /\ pc = "answer" /\ ~more => ToSet(list) \subseteq working

LEMMA CoveredNext ==
    ASSUME Stands, SyncTypeOK, InList, Covered, SyncNext
    PROVE  Covered'
<1>1. /\ list \in Seq(Tx) /\ Len(list) \in Nat /\ DOMAIN list = 1..Len(list) /\ at \in Nat
      /\ todo \subseteq Tx /\ good \subseteq Tx
      /\ ready \in BOOLEAN /\ more \in BOOLEAN /\ every \in BOOLEAN
      /\ ToSet(current) = byHash /\ ToSet(<<>>) = {}
  BY StandsFacts DEF SyncTypeOK, TypeOK, ToSet
<1> USE DEF chainVars, passVars, queueVars, containers, Between, Passing
\* What the environment does, in whatever step the worker is.
<1>2. ASSUME byHash' \subseteq byHash \/ ready', ready \/ ready' \/ missed' = missed,
             ready' \/ ready' = ready,
             UNCHANGED <<working, list, at, every, more>>,
             \/ pc' = pc
             \/ pc \in Between /\ pc' \in Between
             \/ pc' \notin Between \cup Passing
      PROVE  Covered'
  BY <1>1, <1>2 DEF Covered
<1>3. ASSUME NEW n, Imports(n)
      PROVE  ready' = TRUE
  BY <1>3 DEF Imports, Import
<1>4. ASSUME NEW t \in Tx, Submit(t)
      PROVE  Covered'
  BY <1>1, <1>2, <1>4 DEF Submit, Import
<1>5. CASE ClearQueue
  <2>1. byHash' = {} /\ ready' = ready /\ missed' = missed /\ pc' = pc
        /\ UNCHANGED <<working, list, at, every, more>>
    BY <1>5 DEF ClearQueue, Clear, Become
  <2> QED
    BY <1>2, <2>1
<1>6. CASE ImportBlocks
  BY <1>1, <1>2, <1>6 DEF ImportBlocks
<1>7. CASE NoBlocks
  BY <1>1, <1>2, <1>7 DEF NoBlocks
<1>8. CASE ResubmitDead
  <2>1. ASSUME NEW t \in todo, ImportAgain(t)
        PROVE  ready' = TRUE \/ UNCHANGED <<byHash, ready, missed>>
    BY <1>1, <1>3, <2>1, ImportAgainMoves
  <2>2. /\ ready' = TRUE \/ UNCHANGED <<byHash, ready, missed>>
        /\ pc \in Between /\ pc' \in Between
        /\ UNCHANGED <<working, list, at, every, more>>
    BY <1>8, <2>1 DEF ResubmitDead
  <2> QED
    BY <1>1, <1>2, <2>2
<1>9. CASE DropMined
  <2>1. ASSUME NEW t \in good, DropGood(t), Unmiss
        PROVE  /\ byHash' \subseteq byHash \/ ready'
               /\ ready \/ ready' \/ missed' = missed
               /\ ready' \/ ready' = ready
    <3>1. ready' = (ready \/ RunAfter(Containers, t) # <<>>)
      BY <2>1 DEF DropGood
    <3> QED
      BY <1>1, <2>1, <3>1, DropGoodKeeps DEF Unmiss
  <2>2. /\ byHash' \subseteq byHash \/ ready'
        /\ ready \/ ready' \/ missed' = missed
        /\ ready' \/ ready' = ready
        /\ pc \in Between /\ pc' \in Between
        /\ UNCHANGED <<working, list, at, every, more>>
    BY <1>9, <2>1 DEF DropMined, Lowest
  <2> QED
    BY <1>2, <2>2
<1>10. CASE ResyncAfterImport
  <2>1. CASE pc' = "resubmit"
    BY <1>10, <2>1 DEF Covered
  <2>2. CASE pc' # "resubmit"
    BY <1>1, <1>2, <1>10, <2>2 DEF ResyncAfterImport
  <2> QED
    BY <2>1, <2>2
<1>11. CASE ResyncBeforeList
  <2>1. pc' \notin Between \cup Passing
    BY <1>11 DEF ResyncBeforeList
  <2> QED
    BY <2>1 DEF Covered
<1>12. CASE Resubmit
  <2>1. pc' \notin Between \cup Passing \/ (ready' = TRUE /\ pc' \notin Passing)
    BY <1>12 DEF Resubmit
  <2> QED
    BY <2>1 DEF Covered
<1>13. CASE ResetState
  <2>1. CASE replaced
    <3>1. ready' = TRUE /\ pc' \notin Passing
      BY <1>13, <2>1 DEF ResetState
    <3> QED
      BY <3>1 DEF Covered
  <2>2. CASE ~replaced
    BY <1>1, <1>2, <1>13, <2>2 DEF ResetState, Unmiss
  <2> QED
    BY <2>1, <2>2
<1>14. CASE ResetDone
  BY <1>1, <1>2, <1>14 DEF ResetDone
<1>15. CASE TakeReady
  BY <1>15 DEF TakeReady, Covered
<1>16. CASE SkipSync
  BY <1>1, <1>2, <1>16 DEF SkipSync
<1>17. CASE ListTop
  <2>1. /\ ToSet(list') \subseteq byHash \ working
        /\ Len(list') < MaxSync => ToSet(list') = byHash \ working
        /\ list' = <<>> => pc' = "answer"
        /\ list' # <<>> => pc' = "pass"
        /\ more' = (Len(list') = MaxSync)
        /\ Len(list') <= MaxSync /\ Len(list') \in Nat
    BY <1>17, TopTransactions
  <2>2. at' = 1 /\ UNCHANGED <<byHash, working>>
    BY <1>17 DEF ListTop
  <2>3. ~more' => byHash' \subseteq working' \cup ToSet(list')
    <3>1. ~more' => Len(list') # MaxSync
      BY <2>1
    <3>2. ~more' => Len(list') < MaxSync
      BY <2>1, <3>1, SyncAssumption
    <3>3. byHash \subseteq working \cup (byHash \ working)
      OBVIOUS
    <3> QED
      BY <2>1, <2>2, <3>2, <3>3
  <2>4. pc' = "answer" => ToSet(list') = {}
    BY <1>1, <2>1
  <2> QED
    BY <2>1, <2>2, <2>3, <2>4 DEF Covered
\* A transaction of the list that is not executed: the pass is not clean.
<1>18. ASSUME byHash' \subseteq byHash, ready' = ready, missed' = missed,
              working' = working, GoOn(FALSE), pc \in {"pass", "tooNew", "early"}
       PROVE  Covered'
  BY <1>1, <1>18 DEF Covered, GoOn
<1>19. CASE SkipExecuted
  BY <1>18, <1>19 DEF SkipExecuted, GoOn
<1>20. CASE DropOversized
  <2>1. list[at] \in Tx /\ DropIfKnown(list[at]) /\ displaced' = displaced
    BY <1>1, <1>20, ListAt DEF DropOversized, GoOn
  <2> QED
    BY <1>18, <1>20, <2>1, DropMoves DEF DropOversized, GoOn
<1>21. CASE LeaveForNow
  BY <1>18, <1>21 DEF LeaveForNow, GoOn
<1>22. CASE DropOld
  <2>1. list[at] \in Tx /\ DropIfKnown(list[at]) /\ displaced' = displaced
    BY <1>1, <1>22, ListAt DEF DropOld, NonceSeen, GoOn
  <2> QED
    BY <1>18, <1>22, <2>1, DropMoves DEF DropOld, NonceSeen, GoOn
<1>23. CASE AskWaiting
  BY <1>1, <1>23 DEF AskWaiting, NonceSeen, Covered
<1>24. CASE DropTooNew
  <2>1. list[at] \in Tx /\ DropIfKnown(list[at]) /\ displaced' = displaced
    BY <1>1, <1>24, ListAt DEF DropTooNew, GoOn
  <2> QED
    BY <1>18, <1>24, <2>1, DropMoves DEF DropTooNew, GoOn
<1>25. CASE MakeFuture
  <2>1. /\ list[at] \in Tx /\ displaced' = displaced
        /\ IF list[at] \in byHash THEN SetFuture(list[at]) ELSE UNCHANGED queueVars
    BY <1>1, <1>25, ListAt DEF MakeFuture, GoOn
  <2> QED
    BY <1>18, <1>25, <2>1, MakeFutureMoves DEF MakeFuture, GoOn
<1>26. CASE Execute
  <2>1. /\ at \in 1..Len(list) /\ working' = working \cup {list[at]}
        /\ UNCHANGED <<byHash, ready, missed, list, more>>
        /\ at' = at + 1 /\ every' = every
        /\ pc = "pass" /\ pc' \in {"pass", "passed"}
    BY <1>1, <1>26, ListAt DEF Execute, NonceSeen, GoOn
  <2>2. every => \A i \in 1..(at' - 1) : list[i] \in working'
    <3>1. \A i \in 1..(at' - 1) : i = at \/ i \in 1..(at - 1)
      BY <1>1, <2>1
    <3> QED
      BY <2>1, <3>1 DEF Covered
  <2> QED
    BY <2>1, <2>2 DEF Covered
<1>27. CASE PassOver
  <2>1. pc = "passed" /\ at = Len(list) + 1
    BY <1>27 DEF PassOver, InList
  <2>2. every => ToSet(list) \subseteq working
    BY <1>1, <2>1 DEF Covered, ToSet
  <2>3. UNCHANGED <<byHash, ready, working, list>>
    BY <1>27 DEF PassOver
  <2>4. \/ pc' = "answer" /\ more' = TRUE
        \/ every /\ pc' = "answer" /\ more' = more
        \/ pc' = "pass" /\ at' = 1 /\ more' = more
    BY <1>27 DEF PassOver
  <2> QED
    BY <2>1, <2>2, <2>3, <2>4 DEF Covered
<1>28. CASE TakeAnswer
  <2>1. /\ pc = "answer" /\ pc' = "top" /\ ready' = more /\ UNCHANGED <<byHash, working>>
        /\ missed' = IF more THEN {} ELSE IF ready THEN ToSet(current) \ working ELSE missed
    BY <1>28 DEF TakeAnswer
  <2>2. ~more => byHash \subseteq working \cup missed'
    BY <1>1, <2>1 DEF Covered
  <2> QED
    BY <2>1, <2>2 DEF Covered
<1> QED
  BY <1>4, <1>5, <1>6, <1>7, <1>8, <1>9, <1>10, <1>11, <1>12, <1>13, <1>14, <1>15,
     <1>16, <1>17, <1>19, <1>20, <1>21, <1>22, <1>23, <1>24, <1>25, <1>26, <1>27,
     <1>28 DEF SyncNext

-----------------------------------------------------------------------------
(***************************************************************************)
(* The theorems                                                            *)
(***************************************************************************)

\* The inductive invariant. What was replaced leaves the pending block because
\* it has left the queue (DisplacedGone), so that only what the worker listed
\* before can still be executed (DisplacedTold), and because the flag falls only
\* when nothing is pending or listed (ClearedEmpty, InList).
SyncInv ==
    /\ Stands /\ SyncTypeOK /\ InList
    /\ DisplacedGone /\ DisplacedTold /\ ClearedEmpty
    /\ HeadKept
    /\ Covered

LEMMA MissedNext ==
    ASSUME Stands, SyncTypeOK, SyncNext
    PROVE  missed' \subseteq Tx
<1>1. missed \subseteq Tx /\ ToSet(current) \subseteq Tx
  BY StandsFacts DEF SyncTypeOK
<1>2. Unmiss => missed' \subseteq Tx
  BY <1>1 DEF Unmiss
<1>3. \A t : ImportAgain(t) => missed' \subseteq Tx
  BY <1>1, <1>2 DEF ImportAgain
<1>4. \A t : Submit(t) => missed' \subseteq Tx
  BY <1>2 DEF Submit
<1>5. ResubmitDead \/ Resubmit \/ DropMined => missed' \subseteq Tx
  BY <1>1, <1>2, <1>3 DEF ResubmitDead, Resubmit, DropMined
<1>6. TakeAnswer => missed' \subseteq Tx
  BY <1>1 DEF TakeAnswer
<1>7. GoOn(TRUE) \/ GoOn(FALSE) => missed' = missed
  BY DEF GoOn
<1>8. ResetState => missed' \subseteq Tx
  BY <1>2 DEF ResetState
<1>9. \/ ClearQueue \/ ImportBlocks \/ NoBlocks \/ ResyncAfterImport \/ ResyncBeforeList
      \/ ResetDone \/ TakeReady \/ SkipSync \/ ListTop \/ AskWaiting \/ PassOver
      => missed' = missed
  BY DEF ClearQueue, ImportBlocks, NoBlocks, ResyncAfterImport, ResyncBeforeList,
         ResetDone, TakeReady, SkipSync, ListTop, AskWaiting, PassOver
<1>10. \/ SkipExecuted \/ DropOversized \/ LeaveForNow \/ DropOld \/ DropTooNew
       \/ MakeFuture \/ Execute
       => missed' = missed
  BY <1>7 DEF SkipExecuted, DropOversized, LeaveForNow, DropOld, DropTooNew,
              MakeFuture, Execute
<1> QED
  BY <1>1, <1>4, <1>5, <1>6, <1>8, <1>9, <1>10 DEF SyncNext

LEMMA SyncTypesNext ==
    ASSUME Stands, SyncTypeOK, InList, SyncNext
    PROVE  SyncTypeOK'
<1>1. Stands' /\ ((\E n \in Tx : Imports(n)) \/ Settles)
  BY QueueStep
<1>2. TypeOK'
  <2>1. Stands' => TypeOK'
    BY StandsIInv, PTL DEF IInv
  <2> QED
    BY <1>1, <2>1
<1>3. displaced' \subseteq Tx
  <2>1. displaced \subseteq Tx /\ byNonce \subseteq Tx
    BY DEF SyncTypeOK, TypeOK
  <2>2. ASSUME NEW n \in Tx, Imports(n)
        PROVE  displaced' \subseteq Tx
    BY <2>1, <2>2 DEF Imports, Note, InSlotsOf
  <2> QED
    BY <1>1, <2>1, <2>2 DEF Settles
<1>4. missed' \subseteq Tx
  BY MissedNext
<1> QED
  BY <1>2, <1>3, <1>4, WorkerTypesNext DEF SyncTypeOK, WorkerTypes

LEMMA SyncInvInit == SyncInit => SyncInv
<1> SUFFICES ASSUME SyncInit
             PROVE  SyncInv
  OBVIOUS
<1>1. Stands /\ TypeOK
  BY StandsInit, StandsIInv DEF SyncInit, IInv
<1>2. <<>> \in Seq(Tx) /\ ToSet(<<>>) = {} /\ 0 \in 0..MaxEvents
  BY EmptySeq, SyncAssumption DEF ToSet
<1>3. byHash = {} /\ future = {}
  BY DEF SyncInit, Init
<1>4. IsChain({})
  BY DEF IsChain
<1>5. SyncTypeOK
  BY <1>1, <1>2 DEF SyncInit, SyncTypeOK, Steps
<1>6. InList /\ DisplacedGone /\ DisplacedTold /\ ClearedEmpty
  BY <1>2, <1>3 DEF SyncInit, InList, DisplacedGone, DisplacedTold, ClearedEmpty, Passing
<1>7. HeadKept
  <2>1. base \cup working = {}
    BY DEF SyncInit
  <2> QED
    BY <1>4, <2>1 DEF SyncInit, HeadKept, Passing
<1>8. Covered
  BY <1>3 DEF SyncInit, Covered, Passing
<1> QED
  BY <1>1, <1>5, <1>6, <1>7, <1>8 DEF SyncInv

LEMMA SyncInvNext == SyncInv /\ [SyncNext]_syncVars => SyncInv'
<1> SUFFICES ASSUME SyncInv, [SyncNext]_syncVars
             PROVE  SyncInv'
  OBVIOUS
<1>1. CASE SyncNext
  BY <1>1, QueueStep, SyncTypesNext, WorkerTypesNext, DisplacedGoneNext,
     DisplacedToldNext, PendingStep, HeadNext, CoveredNext DEF SyncInv
<1>2. CASE UNCHANGED syncVars
  <2> USE <1>2 DEF syncVars, queueVars, containers, chainVars, passVars, SyncInv
  <2>1. Stands' /\ SyncTypeOK' /\ InList'
    BY DEF Stands, Containers, SyncTypeOK, TypeOK, InList
  <2>2. DisplacedGone' /\ DisplacedTold' /\ ClearedEmpty'
    BY DEF DisplacedGone, DisplacedTold, ClearedEmpty
  <2>3. HeadKept' /\ Covered'
    BY DEF HeadKept, Covered
  <2> QED
    BY <2>1, <2>2, <2>3
<1> QED
  BY <1>1, <1>2

\* The inductive invariant holds in every state.
THEOREM SyncInvariant == SyncSpec => []SyncInv
BY SyncInvInit, SyncInvNext, PTL DEF SyncSpec

\* The containers of the queue stay right when the worker clears and raises the
\* flags of the subscribers, and when doWork and Block::sync make the calls.
THEOREM QueueInvariantInClient == SyncSpec => [](SyncTypeOK /\ IInv)
<1>1. SyncInv => SyncTypeOK /\ IInv
  BY StandsIInv DEF SyncInv
<1> QED
  BY <1>1, SyncInvariant, PTL

\* doWork clears m_needStateReset after resetState(): a transaction that made
\* room is not left in the pending block by a replacement in between.
THEOREM ReplacedIsReset == SyncSpec => []ReplacedLeavesPending
<1>1. SyncInv => ReplacedLeavesPending
  BY DEF SyncInv, DisplacedTold, ReplacedLeavesPending
<1> QED
  BY <1>1, SyncInvariant, PTL

\* Block::sync executes on the head of the chain, and the pending block continues
\* it, whatever was imported or put off in between.
THEOREM PendingContinuesChain == SyncSpec => []SyncsOnHead
<1>1. SyncInv => SyncsOnHead
  BY DEF SyncInv, HeadKept, Passing, SyncsOnHead
<1> QED
  BY <1>1, SyncInvariant, PTL

\* When the worker is about to wait, nothing current could be executed but what
\* came while Block::sync was at work.
THEOREM NothingIsOverlooked == SyncSpec => []NothingOverlooked
<1>1. SyncInv => NothingOverlooked
  <2>1. Stands => ToSet(current) = byHash
    BY StandsFacts
  <2> QED
    BY <2>1 DEF SyncInv, Covered, Between, NothingOverlooked, Executable
<1> QED
  BY <1>1, SyncInvariant, PTL
=============================================================================
