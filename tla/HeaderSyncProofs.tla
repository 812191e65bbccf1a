-------------------------- MODULE HeaderSyncProofs --------------------------
(***************************************************************************)
(* Proofs about HeaderSync: who downloads what, and where the download     *)
(* continues from.                                                         *)
(*                                                                         *)
(* The handlers are chains of operators, from worlds to worlds. A lemma    *)
(* about each says that it leaves a fit world fit; the handlers' loops are *)
(* folds of such operators, and what every step keeps, the loop keeps.     *)
(***************************************************************************)
EXTENDS HeaderSync, QueueOpsProofs, NaturalsInduction, WellFoundedInduction

-----------------------------------------------------------------------------
(***************************************************************************)
(* Naturals                                                                *)
(***************************************************************************)

\* The least natural number of a set.
LEMMA LeastExists ==
    ASSUME NEW S \in SUBSET Nat, S # {}
    PROVE  Min(S) \in S /\ \A m \in S : Min(S) <= m
<1> DEFINE R == {ss \in Nat \X Nat : ss[1] < ss[2]}
<1>1. IsWellFoundedOn(R, Nat)
  BY NatLessThanWellFounded DEF OpToRel
<1>2. \E x \in S : \A y \in S : ~(<<y, x>> \in R)
  <2> HIDE DEF R
  <2> QED
    BY <1>1, WFMin
<1>3. PICK x \in S : \A y \in S : x <= y
  <2>1. PICK x \in S : \A y \in S : ~(<<y, x>> \in R)
    BY <1>2
  <2>2. ASSUME NEW y \in S
        PROVE  x <= y
    <3>1. <<y, x>> \in Nat \X Nat /\ <<y, x>>[1] = y /\ <<y, x>>[2] = x
      OBVIOUS
    <3>2. ~(y < x)
      BY <2>1, <3>1
    <3> QED
      BY <3>2
  <2> QED
    BY <2>2
<1> QED
  BY <1>3 DEF Min

\* Induction, for a set in the place of a predicate.
LEMMA SetInduction ==
    ASSUME NEW G, 0 \in G, \A n \in Nat : n \in G => n + 1 \in G
    PROVE  \A n \in Nat : n \in G
<1> SUFFICES ASSUME Nat \ G # {}
             PROVE  FALSE
  OBVIOUS
<1> DEFINE m == Min(Nat \ G)
<1>1. m \in Nat \ G /\ \A n \in Nat \ G : m <= n
  BY LeastExists
<1> HIDE DEF m
<1>2. m # 0 /\ m - 1 \in Nat /\ m - 1 \in G
  BY <1>1
<1> QED
  BY <1>1, <1>2

LEMMA FiniteIsBounded ==
    ASSUME NEW S \in SUBSET Nat, IsFiniteSet(S)
    PROVE  \E m \in Nat : \A n \in S : n <= m
<1> DEFINE Bounded(T) == \E m \in Nat : \A n \in T : n <= m
           G == {k \in Nat : \A T \in SUBSET Nat :
                    IsFiniteSet(T) /\ Cardinality(T) = k => Bounded(T)}
<1>1. 0 \in G
  BY FS_EmptySet
<1>2. ASSUME NEW k \in Nat, k \in G
      PROVE  k + 1 \in G
  <2> SUFFICES ASSUME NEW T \in SUBSET Nat, IsFiniteSet(T), Cardinality(T) = k + 1
               PROVE  Bounded(T)
    <3> HIDE DEF Bounded
    <3> QED
      OBVIOUS
  <2>1. PICK x : x \in T
    BY FS_EmptySet
  <2>2. IsFiniteSet(T \ {x}) /\ Cardinality(T \ {x}) = Cardinality(T) - 1
    BY <2>1, FS_RemoveElement
  <2>3. PICK m \in Nat : \A n \in T \ {x} : n <= m
    BY <1>2, <2>2
  <2>4. \A n \in T : n <= m + x
    BY <2>1, <2>3
  <2> QED
    BY <2>1, <2>4
<1> HIDE DEF G
<1>3. Cardinality(S) \in G
  BY <1>1, <1>2, SetInduction, FS_CardinalityType
<1> QED
  BY <1>3 DEF G

\* The greatest natural number of a finite set.
LEMMA GreatestExists ==
    ASSUME NEW S \in SUBSET Nat, IsFiniteSet(S), S # {}
    PROVE  Max(S) \in S /\ \A m \in S : Max(S) >= m
<1> DEFINE U == {m \in Nat : \A n \in S : n <= m}
           m0 == Min(U)
<1>1. U # {} /\ U \in SUBSET Nat
  BY FiniteIsBounded
<1>2. m0 \in U /\ \A m \in U : m0 <= m
  BY <1>1, LeastExists
<1> HIDE DEF m0
<1>3. m0 \in S
  <2> SUFFICES ASSUME m0 \notin S
               PROVE  FALSE
    OBVIOUS
  <2>1. \A n \in S : n <= m0 - 1 /\ m0 - 1 \in Nat
    BY <1>2
  <2>2. m0 - 1 \in U
    BY <2>1
  <2> QED
    BY <1>2, <2>2
<1>4. \A n \in S : m0 >= n
  BY <1>2
<1> QED
  BY <1>3, <1>4 DEF Max

-----------------------------------------------------------------------------
(***************************************************************************)
(* Folds                                                                   *)
(***************************************************************************)

\* it is the recursive function that a fold of n steps is made of.
IsFold(it, W, base, n, step) ==
    /\ it \in [SUBSET (1..n) -> W]
    /\ it[{}] = base
    /\ \A s \in SUBSET (1..n) : s # {} => it[s] = step[Max(s)][it[s \ {Max(s)}]]

\* It exists, when each step leads from W to W.
LEMMA FoldExists ==
    ASSUME NEW W, NEW base \in W, NEW n \in Nat, NEW step \in [1..n -> [W -> W]]
    PROVE  \E it : IsFold(it, W, base, n, step)
<1> DEFINE Eq(it, i) ==
             \A s \in SUBSET (1..i) :
                it[s] = IF s = {} THEN base ELSE step[Max(s)][it[s \ {Max(s)}]]
           G == {i \in Nat : i <= n => \E it \in [SUBSET (1..i) -> W] : Eq(it, i)}
<1>0. \A i \in 0..n : \A s \in SUBSET (1..i) : s # {} =>
        Max(s) \in s /\ \A m \in s : Max(s) >= m
  <2> SUFFICES ASSUME NEW i \in 0..n, NEW s \in SUBSET (1..i), s # {}
               PROVE  Max(s) \in s /\ \A m \in s : Max(s) >= m
    OBVIOUS
  <2>1. IsFiniteSet(1..i) /\ s \subseteq 1..i
    BY FS_Interval
  <2>2. IsFiniteSet(s)
    BY <2>1, FS_Subset
  <2>3. s \in SUBSET Nat
    BY <2>1
  <2> QED
    BY <2>2, <2>3, GreatestExists
<1>1. 0 \in G
  <2>1. SUBSET (1..0) = {{}}
    OBVIOUS
  <2>2. [s \in SUBSET (1..0) |-> base] \in [SUBSET (1..0) -> W]
    OBVIOUS
  <2>3. Eq([s \in SUBSET (1..0) |-> base], 0)
    BY <2>1
  <2> QED
    BY <2>2, <2>3
<1>2. ASSUME NEW i \in Nat, i \in G
      PROVE  i + 1 \in G
  <2>0. i + 1 \in Nat
    OBVIOUS
  <2> SUFFICES ASSUME i + 1 <= n
               PROVE  \E it \in [SUBSET (1..(i + 1)) -> W] : Eq(it, i + 1)
    <3> HIDE DEF Eq
    <3> QED
      BY <2>0
  <2>1. PICK old \in [SUBSET (1..i) -> W] : Eq(old, i)
    <3>1. i <= n
      OBVIOUS
    <3> HIDE DEF Eq
    <3> QED
      BY <1>2, <3>1
  <2> DEFINE new == [s \in SUBSET (1..(i + 1)) |->
                       IF i + 1 \in s THEN step[i + 1][old[s \ {i + 1}]] ELSE old[s]]
  <2>2. \A s \in SUBSET (1..(i + 1)) :
          IF i + 1 \in s THEN s \ {i + 1} \in SUBSET (1..i) ELSE s \in SUBSET (1..i)
    OBVIOUS
  <2>3. i + 1 \in 1..n /\ i + 1 \in 0..n /\ i \in 0..n
    OBVIOUS
  <2>4. new \in [SUBSET (1..(i + 1)) -> W]
    BY <2>1, <2>2, <2>3
  <2>5. ASSUME NEW s \in SUBSET (1..(i + 1)), s # {}, i + 1 \in s
        PROVE  Max(s) = i + 1 /\ i + 1 \notin s \ {i + 1}
               /\ s \ {i + 1} \in SUBSET (1..(i + 1))
    <3>1. Max(s) \in 1..(i + 1) /\ Max(s) >= i + 1
      BY <1>0, <2>3, <2>5
    <3> QED
      BY <3>1
  <2>6. ASSUME NEW s \in SUBSET (1..(i + 1)), s # {}, i + 1 \notin s
        PROVE  /\ s \in SUBSET (1..i) /\ s \ {Max(s)} \in SUBSET (1..i)
               /\ i + 1 \notin s \ {Max(s)}
               /\ s \ {Max(s)} \in SUBSET (1..(i + 1))
    BY <2>2, <2>6
  <2>7. Eq(new, i + 1)
    <3> SUFFICES ASSUME NEW s \in SUBSET (1..(i + 1))
                 PROVE  new[s] = IF s = {} THEN base
                                 ELSE step[Max(s)][new[s \ {Max(s)}]]
      OBVIOUS
    <3>1. CASE s = {}
      BY <2>1, <3>1
    <3>2. CASE s # {} /\ i + 1 \in s
      <4>1. new[s] = step[i + 1][old[s \ {i + 1}]]
        BY <3>2
      <4>2. new[s \ {i + 1}] = old[s \ {i + 1}]
        BY <2>5, <3>2
      <4> QED
        BY <2>5, <3>2, <4>1, <4>2
    <3>3. CASE s # {} /\ i + 1 \notin s
      <4>1. new[s] = old[s] /\ new[s \ {Max(s)}] = old[s \ {Max(s)}]
        BY <2>6, <3>3
      <4> QED
        BY <2>1, <2>6, <3>3, <4>1
    <3> QED
      BY <3>1, <3>2, <3>3
  <2> QED
    BY <2>4, <2>7
<1> HIDE DEF G
<1>3. n \in G
  BY <1>1, <1>2, SetInduction
<1>4. PICK it \in [SUBSET (1..n) -> W] : Eq(it, n)
  <2> HIDE DEF Eq
  <2> QED
    BY <1>3, n <= n DEF G
<1> QED
  BY <1>4 DEF IsFold

\* A step of a fold takes the last element.
LEMMA LastOf ==
    ASSUME NEW n \in Nat
    PROVE  /\ \A s \in SUBSET (1..n) : s # {} => /\ Max(s) \in 1..n
                                              /\ s \ {Max(s)} \in SUBSET (1..n)
           /\ \A i \in 1..n : /\ 1..i \in SUBSET (1..n) /\ 1..i # {}
                              /\ Max(1..i) = i /\ (1..i) \ {i} = 1..(i - 1)
<1>1. ASSUME NEW s \in SUBSET (1..n), s # {}
      PROVE  Max(s) \in s /\ \A m \in s : Max(s) >= m
  <2>1. IsFiniteSet(1..n)
    BY FS_Interval
  <2>3. s \subseteq 1..n /\ s \in SUBSET Nat
    OBVIOUS
  <2>2. IsFiniteSet(s)
    BY <2>1, <2>3, FS_Subset
  <2> QED
    BY <1>1, <2>2, <2>3, GreatestExists
<1>2. ASSUME NEW i \in 1..n
      PROVE  /\ 1..i \in SUBSET (1..n) /\ 1..i # {}
             /\ Max(1..i) = i /\ (1..i) \ {i} = 1..(i - 1)
  <2>1. 1..i \in SUBSET (1..n) /\ i \in 1..i /\ (1..i) \ {i} = 1..(i - 1)
    OBVIOUS
  <2>2. Max(1..i) \in 1..i /\ Max(1..i) >= i
    BY <1>1, <2>1
  <2> QED
    BY <2>1, <2>2
<1> QED
  BY <1>1, <1>2

\* What holds before the loop and is kept by every step holds after it.
LEMMA FoldStays ==
    ASSUME NEW W, NEW n \in Nat, NEW it, it[{}] \in W,
           \A i \in 1..n : it[1..(i - 1)] \in W => it[1..i] \in W
    PROVE  it[1..n] \in W
<1> DEFINE G == {i \in Nat : i <= n => it[1..i] \in W}
<1>1. 0 \in G
  <2>1. 1..0 = {}
    OBVIOUS
  <2> QED
    BY <2>1
<1>2. ASSUME NEW i \in Nat, i \in G
      PROVE  i + 1 \in G
  <2>1. CASE i + 1 <= n
    <3>1. i + 1 \in 1..n /\ (i + 1) - 1 = i /\ i <= n
      BY <2>1
    <3>2. it[1..i] \in W
      BY <1>2, <3>1
    <3>3. it[1..(i + 1)] \in W
      BY <3>1, <3>2
    <3> QED
      BY <3>3
  <2> QED
    BY <2>1
<1> HIDE DEF G
<1>3. n \in G
  BY <1>1, <1>2, SetInduction
<1> QED
  BY <1>3 DEF G

-----------------------------------------------------------------------------
(***************************************************************************)
(* Branches of the block tree                                              *)
(***************************************************************************)

LEMMA Heights ==
    /\ \A b \in Chain : Number[b] \in Nat /\ (Number[b] = 0 <=> b = Genesis)
    /\ \A b \in Block : b \in Chain /\ Parent[b] \in Chain
                        /\ Number[Parent[b]] = Number[b] - 1 /\ Number[b] > 0
BY HeaderAssumption DEF Chain

LEMMA BlocksFinite ==
    ASSUME NEW S \in SUBSET Block
    PROVE  IsFiniteSet(S) /\ Cardinality(S) \in Nat
BY HeaderAssumption, FS_Subset, FS_CardinalityType

LEMMA BranchHolds ==
    ASSUME NEW b \in Chain
    PROVE  b \in Branch[b] /\ Branch[b] \subseteq Chain /\ WithParents(Branch[b])
<1>1. Branch[b] = {c \in Chain : \A s \in SUBSET Chain : b \in s /\ WithParents(s) => c \in s}
  BY DEF Branch
<1>2. ASSUME NEW c \in Branch[b] \ {Genesis}
      PROVE  Parent[c] \in Branch[b]
  <2>1. c \in Block /\ Parent[c] \in Chain
    BY <1>1, Heights DEF Chain
  <2>2. \A s \in SUBSET Chain : b \in s /\ WithParents(s) => Parent[c] \in s
    BY <1>1 DEF WithParents
  <2> QED
    BY <1>1, <2>1, <2>2
<1> QED
  BY <1>1, <1>2 DEF WithParents

LEMMA BranchWithin ==
    ASSUME NEW s \in SUBSET Chain, WithParents(s), NEW b \in s
    PROVE  Branch[b] \subseteq s
BY DEF Branch

\* A branch has a block of every number up to that of its last block.
LEMMA OnBranchIs ==
    ASSUME NEW b \in Chain, NEW n \in Nat, n <= Number[b]
    PROVE  OnBranch(b, n) \in Branch[b] /\ Number[OnBranch(b, n)] = n
<1> DEFINE G == {k \in Nat : k <= Number[b] =>
                    \E c \in Branch[b] : Number[c] = Number[b] - k}
<1>1. Number[b] \in Nat
  BY Heights
<1>2. 0 \in G
  BY <1>1, BranchHolds
<1>3. ASSUME NEW k \in Nat, k \in G
      PROVE  k + 1 \in G
  <2> SUFFICES ASSUME k + 1 <= Number[b]
               PROVE  \E c \in Branch[b] : Number[c] = Number[b] - (k + 1)
    BY <1>1
  <2>1. PICK c \in Branch[b] : Number[c] = Number[b] - k
    BY <1>1, <1>3
  <2>2. c \in Block
    BY <1>1, <2>1, BranchHolds, Heights DEF Chain
  <2>3. Parent[c] \in Branch[b] /\ Number[Parent[c]] = Number[c] - 1
    BY <2>1, <2>2, BranchHolds, Heights, HeaderAssumption DEF WithParents
  <2> QED
    BY <1>1, <2>1, <2>3
<1> HIDE DEF G
<1>4. Number[b] - n \in Nat /\ Number[b] - n \in G
  BY <1>1, <1>2, <1>3, SetInduction
<1>5. \E c \in Branch[b] : Number[c] = n
  BY <1>1, <1>4 DEF G
<1> QED
  BY <1>1, <1>5 DEF OnBranch

-----------------------------------------------------------------------------
(***************************************************************************)
(* Blocks in the order of their numbers                                    *)
(***************************************************************************)

Sorted(s) == \A i, j \in DOMAIN s : Number[s[i]] < Number[s[j]] => i < j

\* A list of a set is one of its SetToSeqs.
LEMMA ListIsSetToSeqs ==
    ASSUME NEW S, NEW s, Lists(s, S)
    PROVE  s \in SetToSeqs(S)
<1>1. IsFiniteSet(S) /\ Cardinality(S) = Len(s)
  BY ListsCardinality
<1>2. s \in [1..Len(s) -> S] /\ Len(s) \in Nat
  BY ListsElements
<1>3. \A i, j \in 1..Len(s) : i # j => s[i] # s[j]
  BY DEF Lists
<1> QED
  BY <1>1, <1>2, <1>3 DEF SetToSeqs

LEMMA ListExists ==
    ASSUME NEW S, IsFiniteSet(S)
    PROVE  \E s : Lists(s, S)
<1> DEFINE n == Cardinality(S)
<1>1. n \in Nat /\ ExistsBijection(1..n, S)
  BY FS_CardinalityType
<1> HIDE DEF n
<1>2. PICK s \in Bijection(1..n, S) : TRUE
  BY <1>1 DEF ExistsBijection
<1>3. /\ s \in [1..n -> S]
      /\ \A x \in S : \E i \in 1..n : s[i] = x
      /\ \A i, j \in 1..n : s[i] = s[j] => i = j
  BY <1>2 DEF Bijection, Injection, Surjection, IsInjective
<1>4. s \in Seq(S) /\ Len(s) = n
  BY <1>1, <1>3
<1> QED
  BY <1>3, <1>4 DEF Lists

LEMMA SortedExists ==
    ASSUME NEW S \in SUBSET Block
    PROVE  \E s : Lists(s, S) /\ Sorted(s)
<1> DEFINE Below(n) == {b \in S : Number[b] < n}
           G == {n \in Nat : \E s : Lists(s, Below(n)) /\ Sorted(s)}
<1>0. \A b \in S : Number[b] \in Nat
  BY Heights
<1>1. 0 \in G
  <2>1. Below(0) = {}
    BY <1>0
  <2>2. Sorted(<<>>)
    BY DEF Sorted
  <2> QED
    BY <2>1, <2>2, ListsEmpty
<1>2. ASSUME NEW n \in Nat, n \in G
      PROVE  n + 1 \in G
  <2> DEFINE level == {b \in S : Number[b] = n}
             low == Below(n)
  <2>1. PICK s : Lists(s, low) /\ Sorted(s)
    BY <1>2
  <2>2. IsFiniteSet(level)
    BY BlocksFinite
  <2>3. PICK t : Lists(t, level)
    BY <2>2, ListExists
  <2>4. low \cap level = {} /\ Below(n + 1) = low \cup level
    BY <1>0
  <2> HIDE DEF low
  <2>5. Lists(s \o t, low \cup level)
    <3> HIDE DEF level
    <3> QED
      BY <2>1, <2>3, <2>4, ListsConcat
  <2>6. /\ Len(s) \in Nat /\ Len(t) \in Nat
        /\ DOMAIN s = 1..Len(s)
        /\ \A i \in 1..Len(s) : s[i] \in low
        /\ \A i \in 1..Len(t) : t[i] \in level
    BY <2>1, <2>3, ListsElements
  <2>7. /\ DOMAIN (s \o t) = 1..(Len(s) + Len(t))
        /\ \A i \in 1..(Len(s) + Len(t)) :
              (s \o t)[i] = IF i <= Len(s) THEN s[i] ELSE t[i - Len(s)]
    <3>1. s \in Seq(S) /\ t \in Seq(S)
      <4>1. s \in Seq(low) /\ t \in Seq(level) /\ low \subseteq S /\ level \subseteq S
        BY <2>1, <2>3, ListsElements DEF low
      <4> QED
        BY <4>1, SeqMonotonic
    <3>2. /\ s \o t \in Seq(S) /\ Len(s \o t) = Len(s) + Len(t)
          /\ \A i \in 1..Len(s \o t) :
                (s \o t)[i] = IF i <= Len(s) THEN s[i] ELSE t[i - Len(s)]
      BY <3>1, ConcatProperties
    <3> QED
      BY <3>2
  <2>8. Sorted(s \o t)
    <3> SUFFICES ASSUME NEW i \in 1..(Len(s) + Len(t)), NEW j \in 1..(Len(s) + Len(t)),
                        Number[(s \o t)[i]] < Number[(s \o t)[j]]
                 PROVE  i < j
      BY <2>7 DEF Sorted
    <3>1. \A k \in 1..(Len(s) + Len(t)) :
             IF k <= Len(s)
             THEN (s \o t)[k] = s[k] /\ Number[(s \o t)[k]] < n
                  /\ Number[(s \o t)[k]] \in Nat
             ELSE Number[(s \o t)[k]] = n
      <4> SUFFICES ASSUME NEW k \in 1..(Len(s) + Len(t))
                   PROVE  IF k <= Len(s)
                          THEN (s \o t)[k] = s[k] /\ Number[(s \o t)[k]] < n
                               /\ Number[(s \o t)[k]] \in Nat
                          ELSE Number[(s \o t)[k]] = n
        OBVIOUS
      <4>1. CASE k <= Len(s)
        <5>1. k \in 1..Len(s)
          BY <2>6, <4>1
        <5> QED
          BY <1>0, <2>6, <2>7, <4>1, <5>1 DEF low
      <4>2. CASE ~(k <= Len(s))
        <5>1. k - Len(s) \in 1..Len(t)
          BY <2>6, <4>2
        <5> QED
          BY <2>6, <2>7, <4>2, <5>1
      <4> QED
        BY <4>1, <4>2
    <3>2. CASE j <= Len(s)
      <4>1. i <= Len(s) /\ i \in DOMAIN s /\ j \in DOMAIN s
        BY <2>6, <3>1, <3>2
      <4> QED
        BY <2>1, <3>1, <3>2, <4>1 DEF Sorted
    <3>3. CASE ~(j <= Len(s))
      BY <2>6, <3>1, <3>3
    <3> QED
      BY <3>2, <3>3
  <2>9. Lists(s \o t, Below(n + 1)) /\ n + 1 \in Nat
    BY <2>4, <2>5
  <2> QED
    BY <2>8, <2>9
<1> HIDE DEF G
<1>3. \E n \in Nat : \A b \in S : Number[b] <= n
  <2> DEFINE heights == {Number[b] : b \in S}
             height == [b \in S |-> Number[b]]
  <2>0. height \in Surjection(S, heights) /\ IsFiniteSet(S)
    BY BlocksFinite DEF Surjection
  <2>1. IsFiniteSet(heights) /\ heights \in SUBSET Nat
    <3>1. heights \in SUBSET Nat
      BY <1>0
    <3> HIDE DEF heights, height
    <3> QED
      BY <2>0, <3>1, FS_Surjection
  <2> QED
    BY <2>1, FiniteIsBounded
<1>4. PICK n \in Nat : \A b \in S : Number[b] <= n
  BY <1>3
<1>5. Below(n + 1) = S /\ n + 1 \in Nat
  BY <1>0, <1>4
<1>6. n + 1 \in G
  BY <1>1, <1>2, <1>5, SetInduction
<1> QED
  BY <1>5, <1>6 DEF G

LEMMA ByNumberLists ==
    ASSUME NEW S \in SUBSET Block
    PROVE  Lists(ByNumber(S), S) /\ Sorted(ByNumber(S))
<1>1. IsFiniteSet(S)
  BY BlocksFinite
<1>2. \E s \in SetToSeqs(S) : Sorted(s)
  BY SortedExists, ListIsSetToSeqs
<1>3. ByNumber(S) \in SetToSeqs(S) /\ Sorted(ByNumber(S))
  BY <1>2 DEF ByNumber, Sorted
<1> QED
  BY <1>1, <1>3, SetToSeqsList

-----------------------------------------------------------------------------
(***************************************************************************)
(* The chunks of m_headers and m_bodies                                    *)
(***************************************************************************)

Positive == Nat \ {0}

\* The finite functions from positive numbers to R.
Chunks(R) == UNION {[d -> R] : d \in {e \in SUBSET Positive : IsFiniteSet(e)}}

LEMMA ChunksAre ==
    ASSUME NEW R, NEW f
    PROVE  f \in Chunks(R) <=> /\ f \in [DOMAIN f -> R]
                               /\ DOMAIN f \in SUBSET Positive
                               /\ IsFiniteSet(DOMAIN f)
BY DEF Chunks

LEMMA NoChunks == \A R : <<>> \in Chunks(R)
<1> SUFFICES ASSUME NEW R
             PROVE  <<>> \in Chunks(R)
  OBVIOUS
<1>1. DOMAIN <<>> = {} /\ <<>> \in [{} -> R]
  OBVIOUS
<1> QED
  BY <1>1, FS_EmptySet, ChunksAre

LEMMA RestrictChunks ==
    ASSUME NEW R, NEW f \in Chunks(R), NEW d \in SUBSET DOMAIN f
    PROVE  /\ Restrict(f, d) \in Chunks(R)
           /\ DOMAIN Restrict(f, d) = d
           /\ \A n \in d : Restrict(f, d)[n] = f[n]
<1>1. /\ f \in [DOMAIN f -> R] /\ DOMAIN f \in SUBSET Positive
      /\ IsFiniteSet(DOMAIN f)
  BY ChunksAre
<1>2. Restrict(f, d) = [n \in d |-> f[n]]
  BY DEF Restrict
<1>3. IsFiniteSet(d)
  BY <1>1, FS_Subset
<1>4. DOMAIN Restrict(f, d) = d /\ Restrict(f, d) \in [d -> R]
  BY <1>1, <1>2
<1> QED
  BY <1>1, <1>2, <1>3, <1>4, ChunksAre

LEMMA PutChunks ==
    ASSUME NEW R, NEW f \in Chunks(R), NEW n \in Positive, NEW x \in R
    PROVE  /\ Put(f, n, x) \in Chunks(R)
           /\ DOMAIN Put(f, n, x) = DOMAIN f \cup {n}
           /\ Put(f, n, x)[n] = x
           /\ \A m \in DOMAIN f \ {n} : Put(f, n, x)[m] = f[m]
<1> DEFINE g == Put(f, n, x)
           d == DOMAIN f \cup {n}
<1>1. /\ f \in [DOMAIN f -> R] /\ DOMAIN f \in SUBSET Positive
      /\ IsFiniteSet(DOMAIN f)
  BY ChunksAre
<1>2. g = [m \in d |-> IF m = n THEN x ELSE f[m]]
  BY DEF Put
<1>3. IsFiniteSet(d) /\ d \in SUBSET Positive
  BY <1>1, FS_AddElement
<1>4. DOMAIN g = d /\ g \in [d -> R]
  BY <1>1, <1>2
<1>5. g \in Chunks(R)
  <2> HIDE DEF g, d
  <2> QED
    BY <1>3, <1>4, ChunksAre
<1>6. g[n] = x /\ \A m \in DOMAIN f \ {n} : g[m] = f[m]
  BY <1>2
<1> QED
  BY <1>4, <1>5, <1>6

LEMMA FirstIs ==
    ASSUME NEW R, NEW f \in Chunks(R), f # <<>>
    PROVE  First(f) \in DOMAIN f /\ First(f) \in Positive
           /\ \A n \in DOMAIN f : First(f) <= n
<1>1. f \in [DOMAIN f -> R] /\ DOMAIN f \in SUBSET Nat /\ DOMAIN f \in SUBSET Positive
  BY ChunksAre DEF Positive
<1>2. DOMAIN f # {}
  BY <1>1
<1> QED
  BY <1>1, <1>2, LeastExists DEF First

LEMMA RunEndIs ==
    ASSUME NEW R, NEW f \in Chunks(R), NEW n \in DOMAIN f
    PROVE  RunEnd(f, n) \in DOMAIN f /\ RunEnd(f, n) \in Positive
           /\ n..RunEnd(f, n) \subseteq DOMAIN f /\ n <= RunEnd(f, n)
<1> DEFINE runs == {m \in DOMAIN f : n..m \subseteq DOMAIN f}
<1>1. DOMAIN f \in SUBSET Nat /\ IsFiniteSet(DOMAIN f) /\ DOMAIN f \in SUBSET Positive
  BY ChunksAre DEF Positive
<1>2. runs \in SUBSET Nat /\ IsFiniteSet(runs)
  BY <1>1, FS_Subset
<1>3. n \in runs
  BY <1>1
<1>4. Max(runs) \in runs /\ Max(runs) >= n
  BY <1>2, <1>3, GreatestExists
<1> QED
  BY <1>1, <1>4 DEF RunEnd

-----------------------------------------------------------------------------
(***************************************************************************)
(* Types                                                                   *)
(***************************************************************************)

Bodies == {Body[b] : b \in Chain}

Requests ==
    [hash : Chain \cup {NoBlock}] \cup [from : Nat, count : Nat]
        \cup [hashes : SUBSET Block]

\* A peer that has told its status has a head, and the answer that is awaited
\* is of the kind it was asked for.
PeerType ==
    {e \in [statusReceived : BOOLEAN, totalDifficulty : Nat,
            latestHash : Chain \cup {NoBlock},
            asking : {"Nothing", "BlockHeaders", "BlockBodies"},
            asked : Requests] :
        /\ e.statusReceived => e.latestHash \in Chain
        /\ e.asking = "BlockHeaders" =>
              e.asked \in [hash : Chain] \cup [from : Nat, count : Nat]
        /\ e.asking = "BlockBodies" => e.asked \in [hashes : SUBSET Block]}

\* Headers are kept under their own numbers.
SyncType ==
    {s \in [state : {"Idle", "NotSynced", "Blocks", "Waiting"},
            headers : Chunks(Block), bodies : Chunks(Bodies),
            headerIdToNumber : UNION {[d -> Positive] : d \in SUBSET Bodies},
            downloadingHeaders : SUBSET Nat, downloadingBodies : SUBSET Nat,
            headerSyncPeers : [Peer -> SUBSET Nat],
            bodySyncPeers : [Peer -> SUBSET Nat],
            haveCommonHeader : BOOLEAN, syncingTotalDifficulty : Nat,
            lastImportedBlock : Nat, lastImportedBlockHash : Chain \cup {NoBlock}] :
        \A n \in DOMAIN s.headers : Number[s.headers[n]] = n}

QueueType ==
    [ready : Seq(Block), draining : SUBSET Block, unknown : SUBSET Block,
     knownBad : SUBSET Block, unknownSize : Nat, struckOut : Nat]

Results ==
    {"", "Success", "Malformed", "AlreadyInChain", "AlreadyKnown", "UnknownParent"}

World ==
    [sync : SyncType, eth : [Peer -> PeerType], queue : QueueType,
     result : Results, over : BOOLEAN]

-----------------------------------------------------------------------------
(***************************************************************************)
(* Worlds that are fit                                                     *)
(***************************************************************************)

\* What DownloadsOwned says, for the sessions S.
Owned(s, e, S) ==
    /\ \A n \in s.downloadingHeaders : \E p \in S :
            n \in s.headerSyncPeers[p] /\ e[p].asking = "BlockHeaders"
    /\ \A n \in s.downloadingBodies : \E p \in S :
            n \in s.bodySyncPeers[p] /\ e[p].asking = "BlockBodies"

\* The blocks that LastImportedKnown speaks of.
Has(q) == chain \cup batch \cup Range(q.ready) \cup q.draining \cup q.knownBad

\* What LastImportedKnown says.
Continues(s, q) ==
    s.haveCommonHeader =>
        \/ /\ s.lastImportedBlockHash \in Has(q)
           /\ Number[s.lastImportedBlockHash] = s.lastImportedBlock
        \/ /\ Stored = {Genesis}
           /\ s.lastImportedBlockHash = NoBlock /\ s.lastImportedBlock = 1

\* The parent of a block in the queue is ahead of it, draining or in the chain.
ParentsAhead(q) ==
    \A i \in 1..Len(q.ready) :
        Parent[q.ready[i]] \in chain \cup q.draining \cup {q.ready[j] : j \in 1..(i - 1)}

Fit(w, S) ==
    /\ w \in World
    /\ Owned(w.sync, w.eth, S)
    /\ Continues(w.sync, w.queue)
    /\ ParentsAhead(w.queue)
    /\ w.queue.draining \subseteq batch \cup chain

\* The database holds whole branches; the node is never below where it started.
ChainWhole ==
    /\ chain \in SUBSET Chain /\ Genesis \in chain /\ WithParents(chain)
    /\ head \in chain
    /\ \A b \in Stored : Number[b] <= Number[head]

\* What the worker has taken out can be added to the chain; what it tells of is
\* there.
BatchFollows ==
    /\ batch \in SUBSET Block
    /\ \A b \in batch : Parent[b] \in chain
    /\ \A b, c \in batch : b = c
    /\ imported \subseteq chain

SessionsOpen ==
    /\ session \in SUBSET Peer /\ live \subseteq session
    /\ remote \in [Peer -> Chain]

HeaderInv ==
    /\ Fit(Now, session)
    /\ ChainWhole
    /\ BatchFollows
    /\ SessionsOpen

-----------------------------------------------------------------------------
(***************************************************************************)
(* Who owns what is being downloaded                                       *)
(***************************************************************************)

LEMMA SyncFields ==
    ASSUME NEW s \in SyncType
    PROVE  /\ s.headers \in Chunks(Block) /\ s.bodies \in Chunks(Bodies)
           /\ s.headerSyncPeers \in [Peer -> SUBSET Nat]
           /\ s.bodySyncPeers \in [Peer -> SUBSET Nat]
           /\ s.downloadingHeaders \in SUBSET Nat
           /\ s.downloadingBodies \in SUBSET Nat
           /\ s.headerIdToNumber \in UNION {[d -> Positive] : d \in SUBSET Bodies}
           /\ s.lastImportedBlock \in Nat
           /\ s.lastImportedBlockHash \in Chain \cup {NoBlock}
           /\ s.haveCommonHeader \in BOOLEAN
           /\ \A n \in DOMAIN s.headers : Number[s.headers[n]] = n
BY DEF SyncType

\* Once p owns nothing, it does not matter what p is being asked for.
LEMMA OwnedAfterClear ==
    ASSUME NEW S \in SUBSET Peer, NEW s \in SyncType, NEW e, NEW f, NEW p \in Peer,
           Owned(s, e, S), \A q \in S \ {p} : f[q].asking = e[q].asking
    PROVE  /\ ClearPeerDownload(s, p) \in SyncType
           /\ Owned(ClearPeerDownload(s, p), f, S \ {p})
<1> DEFINE t == ClearPeerDownload(s, p)
<1>1. t \in SyncType
  BY DEF ClearPeerDownload, SyncType
<1>2. /\ t.downloadingHeaders = s.downloadingHeaders \ s.headerSyncPeers[p]
      /\ t.downloadingBodies = s.downloadingBodies \ s.bodySyncPeers[p]
      /\ \A q \in Peer \ {p} : /\ t.headerSyncPeers[q] = s.headerSyncPeers[q]
                               /\ t.bodySyncPeers[q] = s.bodySyncPeers[q]
  BY DEF ClearPeerDownload, SyncType
<1> HIDE DEF t
<1>3. Owned(t, f, S \ {p})
  BY <1>2 DEF Owned
<1> QED
  BY <1>1, <1>3 DEF t

\* An idle peer owns nothing.
LEMMA OwnedByOthers ==
    ASSUME NEW S \in SUBSET Peer, NEW s, NEW e, NEW p, Owned(s, e, S),
           e[p].asking = "Nothing"
    PROVE  Owned(s, e, S \ {p})
BY DEF Owned

\* What p is asked for is what is added to its account.
LEMMA OwnedAfterAsk ==
    ASSUME NEW S \in SUBSET Peer, NEW p \in S, NEW s, NEW t, NEW e, NEW f,
           Owned(s, e, S \ {p}),
           \A q \in S \ {p} : /\ f[q].asking = e[q].asking
                              /\ t.headerSyncPeers[q] = s.headerSyncPeers[q]
                              /\ t.bodySyncPeers[q] = s.bodySyncPeers[q],
           \A n \in t.downloadingHeaders \ s.downloadingHeaders :
                n \in t.headerSyncPeers[p] /\ f[p].asking = "BlockHeaders",
           \A n \in t.downloadingBodies \ s.downloadingBodies :
                n \in t.bodySyncPeers[p] /\ f[p].asking = "BlockBodies"
    PROVE  Owned(t, f, S)
BY DEF Owned

\* Numbers that are given up need no owner.
LEMMA OwnedLess ==
    ASSUME NEW S, NEW s, NEW t, NEW e, Owned(s, e, S),
           t.downloadingHeaders \subseteq s.downloadingHeaders,
           t.downloadingBodies \subseteq s.downloadingBodies,
           t.headerSyncPeers = s.headerSyncPeers,
           t.bodySyncPeers = s.bodySyncPeers
    PROVE  Owned(t, e, S)
BY DEF Owned

\* Without downloads there is nothing to own.
LEMMA OwnedNothing ==
    ASSUME NEW S, NEW s, NEW e, s.downloadingHeaders = {}, s.downloadingBodies = {}
    PROVE  Owned(s, e, S)
BY DEF Owned

LEMMA FitMore ==
    ASSUME NEW S, NEW T, S \subseteq T, NEW w, Fit(w, S)
    PROVE  Fit(w, T)
BY DEF Fit, Owned

-----------------------------------------------------------------------------
(***************************************************************************)
(* The resets                                                              *)
(***************************************************************************)

\* A world whose sync alone changes.
LEMMA FitSync ==
    ASSUME NEW S, NEW w, Fit(w, S), NEW s \in SyncType, NEW v,
           v = [w EXCEPT !.sync = s],
           Owned(s, w.eth, S), Continues(s, w.queue)
    PROVE  Fit(v, S) /\ v.eth = w.eth /\ v.queue = w.queue /\ v.sync = s
<1>1. v \in World /\ v.eth = w.eth /\ v.queue = w.queue /\ v.sync = s
  BY DEF Fit, World
<1> QED
  BY <1>1 DEF Fit

LEMMA ResetIs ==
    ASSUME NEW s \in SyncType
    PROVE  LET r == ResetSync(s)
           IN  /\ r \in SyncType
               /\ r.downloadingHeaders = {} /\ r.downloadingBodies = {}
               /\ r.haveCommonHeader = s.haveCommonHeader
               /\ r.lastImportedBlock = s.lastImportedBlock
               /\ r.lastImportedBlockHash = s.lastImportedBlockHash
<1> DEFINE r == ResetSync(s)
<1>1. /\ <<>> \in Chunks(Block) /\ <<>> \in Chunks(Bodies)
      /\ <<>> \in UNION {[d -> Positive] : d \in SUBSET Bodies}
      /\ NoPeer \in [Peer -> SUBSET Nat]
      /\ DOMAIN <<>> = {}
  <2>1. <<>> \in [{} -> Positive] /\ {} \in SUBSET Bodies
    OBVIOUS
  <2> QED
    BY <2>1, NoChunks DEF NoPeer
<1>2. /\ r \in [state : {"Idle", "NotSynced", "Blocks", "Waiting"},
            headers : Chunks(Block), bodies : Chunks(Bodies),
            headerIdToNumber : UNION {[d -> Positive] : d \in SUBSET Bodies},
            downloadingHeaders : SUBSET Nat, downloadingBodies : SUBSET Nat,
            headerSyncPeers : [Peer -> SUBSET Nat],
            bodySyncPeers : [Peer -> SUBSET Nat],
            haveCommonHeader : BOOLEAN, syncingTotalDifficulty : Nat,
            lastImportedBlock : Nat, lastImportedBlockHash : Chain \cup {NoBlock}]
      /\ r.headers = <<>>
      /\ r.downloadingHeaders = {} /\ r.downloadingBodies = {}
      /\ r.haveCommonHeader = s.haveCommonHeader
      /\ r.lastImportedBlock = s.lastImportedBlock
      /\ r.lastImportedBlockHash = s.lastImportedBlockHash
  BY <1>1 DEF ResetSync, SyncType
<1> HIDE DEF r
<1>3. r \in SyncType
  BY <1>1, <1>2 DEF SyncType
<1> QED
  BY <1>2, <1>3 DEF r

\* After a restart nothing is owed, and the common header is to be found.
LEMMA RestartFit ==
    ASSUME ChainWhole, NEW S, NEW w \in World, w.queue.draining \subseteq batch \cup chain
    PROVE  Fit(RestartSync(w), S)
<1> DEFINE v == RestartSync(w)
           r == ResetSync(w.sync)
           t == [r EXCEPT !.haveCommonHeader = FALSE, !.lastImportedBlock = Number[head],
                          !.lastImportedBlockHash = head]
<1>1. /\ r \in SyncType
      /\ r.downloadingHeaders = {} /\ r.downloadingBodies = {}
  BY ResetIs DEF World
<1>2. head \in Chain /\ Number[head] \in Nat
  BY Heights DEF ChainWhole
<1> HIDE DEF r
<1>3. /\ t \in SyncType /\ t.haveCommonHeader = FALSE
      /\ t.downloadingHeaders = {} /\ t.downloadingBodies = {}
  BY <1>1, <1>2 DEF SyncType
<1>4. Cleared(w.queue) \in QueueType /\ Cleared(w.queue).ready = <<>>
      /\ Cleared(w.queue).draining = {}
  <2>1. w.queue \in QueueType /\ <<>> \in Seq(Block) /\ 0 \in Nat
    BY DEF World
  <2> QED
    BY <2>1 DEF QueueType, Cleared
<1>5. v = [w EXCEPT !.sync = t, !.queue = Cleared(w.queue)]
  BY DEF RestartSync, r
<1> HIDE DEF t, v
<1>6. v \in World /\ v.sync = t /\ v.queue = Cleared(w.queue)
  BY <1>3, <1>4, <1>5 DEF World
<1>7. Owned(v.sync, v.eth, S) /\ Continues(v.sync, v.queue)
  BY <1>3, <1>6, OwnedNothing DEF Continues
<1>8. ParentsAhead(v.queue) /\ v.queue.draining \subseteq batch \cup chain
  BY <1>4, <1>6 DEF ParentsAhead
<1> QED
  BY <1>6, <1>7, <1>8 DEF Fit, v

LEMMA CompleteFit ==
    ASSUME NEW S, NEW w, Fit(w, S)
    PROVE  Fit(CompleteSync(w), S)
<1> DEFINE r == ResetSync(w.sync)
           t == [r EXCEPT !.state = "Idle"]
<1>1. /\ r \in SyncType
      /\ r.downloadingHeaders = {} /\ r.downloadingBodies = {}
      /\ r.haveCommonHeader = w.sync.haveCommonHeader
      /\ r.lastImportedBlock = w.sync.lastImportedBlock
      /\ r.lastImportedBlockHash = w.sync.lastImportedBlockHash
  BY ResetIs DEF World, Fit
<1> HIDE DEF r
<1>2. /\ t \in SyncType
      /\ t.downloadingHeaders = {} /\ t.downloadingBodies = {}
      /\ t.haveCommonHeader = w.sync.haveCommonHeader
      /\ t.lastImportedBlock = w.sync.lastImportedBlock
      /\ t.lastImportedBlockHash = w.sync.lastImportedBlockHash
  BY <1>1 DEF SyncType
<1>3. CompleteSync(w) = [w EXCEPT !.sync = t]
  BY DEF CompleteSync, r
<1> HIDE DEF t
<1>4. Owned(t, w.eth, S) /\ Continues(t, w.queue)
  BY <1>2, OwnedNothing DEF Fit, Continues
<1> QED
  BY <1>2, <1>3, <1>4, FitSync

-----------------------------------------------------------------------------
(***************************************************************************)
(* What a peer is asked for                                                *)
(***************************************************************************)

\* The kinds of requests.
IsRequest(kind, what) ==
    \/ kind = "BlockHeaders" /\ what \in [hash : Chain] \cup [from : Nat, count : Nat]
    \/ kind = "BlockBodies" /\ what \in [hashes : SUBSET Block]

LEMMA AskingIs ==
    ASSUME NEW w \in World, NEW p \in Peer, NEW kind, NEW what, IsRequest(kind, what)
    PROVE  LET v == Asking(w, p, kind, what)
           IN  /\ v \in World /\ v.sync = w.sync /\ v.queue = w.queue
               /\ v.eth[p].asking = kind
               /\ \A q \in Peer \ {p} : v.eth[q] = w.eth[q]
<1> DEFINE e == [w.eth[p] EXCEPT !.asking = kind, !.asked = what]
           v == Asking(w, p, kind, what)
<1>1. w.eth \in [Peer -> PeerType] /\ w.eth[p] \in PeerType
  BY DEF World
<1>2. what \in Requests /\ kind \in {"Nothing", "BlockHeaders", "BlockBodies"}
  BY DEF IsRequest, Requests
<1>3. e \in [statusReceived : BOOLEAN, totalDifficulty : Nat,
             latestHash : Chain \cup {NoBlock},
             asking : {"Nothing", "BlockHeaders", "BlockBodies"}, asked : Requests]
      /\ e.asking = kind /\ e.asked = what
      /\ e.statusReceived = w.eth[p].statusReceived
      /\ e.latestHash = w.eth[p].latestHash
  BY <1>1, <1>2 DEF PeerType
<1> HIDE DEF e
<1>4. e \in PeerType
  BY <1>1, <1>3 DEF PeerType, IsRequest
<1>5. v = [w EXCEPT !.eth[p] = e]
  BY DEF Asking, e
<1> HIDE DEF v
<1>6. /\ v \in World /\ v.sync = w.sync /\ v.queue = w.queue /\ v.eth[p] = e
      /\ \A q \in Peer \ {p} : v.eth[q] = w.eth[q]
  BY <1>1, <1>4, <1>5 DEF World
<1> QED
  BY <1>3, <1>6 DEF v

\* A request that goes with no numbers, or with numbers of its kind.
LEMMA AskFit ==
    ASSUME NEW S \in SUBSET Peer, NEW p \in S, NEW w, Fit(w, S \ {p}),
           NEW u \in World, NEW kind, NEW what, IsRequest(kind, what),
           u.queue = w.queue, u.eth = w.eth, Continues(u.sync, u.queue),
           \A q \in S \ {p} : /\ u.sync.headerSyncPeers[q] = w.sync.headerSyncPeers[q]
                              /\ u.sync.bodySyncPeers[q] = w.sync.bodySyncPeers[q],
           \A n \in u.sync.downloadingHeaders \ w.sync.downloadingHeaders :
                n \in u.sync.headerSyncPeers[p] /\ kind = "BlockHeaders",
           \A n \in u.sync.downloadingBodies \ w.sync.downloadingBodies :
                n \in u.sync.bodySyncPeers[p] /\ kind = "BlockBodies"
    PROVE  Fit(Asking(u, p, kind, what), S)
<1> DEFINE v == Asking(u, p, kind, what)
<1>1. /\ v \in World /\ v.sync = u.sync /\ v.queue = u.queue
      /\ v.eth[p].asking = kind
      /\ \A q \in Peer \ {p} : v.eth[q] = u.eth[q]
  BY AskingIs
<1> HIDE DEF v
<1>2. Owned(w.sync, w.eth, S \ {p})
  BY DEF Fit
<1>3. Owned(v.sync, v.eth, S)
  BY <1>1, <1>2, OwnedAfterAsk
<1>4. ParentsAhead(v.queue) /\ v.queue.draining \subseteq batch \cup chain
  BY <1>1 DEF Fit
<1> QED
  BY <1>1, <1>3, <1>4 DEF Fit, v

LEMMA NeededAreHeaders ==
    ASSUME NEW s \in SyncType
    PROVE  NeededBodies(s) \subseteq DOMAIN s.headers
<1>1. CASE s.headers = <<>>
  BY <1>1 DEF NeededBodies
<1>2. CASE s.headers # <<>>
  <2>1. s.headers \in Chunks(Block)
    BY SyncFields
  <2>2. First(s.headers) \in DOMAIN s.headers
    BY <1>2, <2>1, FirstIs
  <2>3. First(s.headers)..RunEnd(s.headers, First(s.headers)) \subseteq DOMAIN s.headers
    BY <2>1, <2>2, RunEndIs
  <2> QED
    BY <2>3 DEF NeededBodies
<1> QED
  BY <1>1, <1>2

LEMMA AskBodiesFit ==
    ASSUME NEW S \in SUBSET Peer, NEW p \in S, NEW w, Fit(w, S \ {p}),
           NEW numbers \in SUBSET DOMAIN w.sync.headers
    PROVE  Fit(AskBodies(w, p, numbers), S)
<1> DEFINE s == w.sync
           t == [s EXCEPT !.downloadingBodies = @ \cup numbers,
                          !.bodySyncPeers[p] = numbers]
           u == [w EXCEPT !.sync = t]
           what == [hashes |-> {s.headers[n] : n \in numbers}]
<1>1. s \in SyncType /\ w \in World
  BY DEF Fit, World
<1>2. numbers \in SUBSET Nat /\ \A n \in numbers : s.headers[n] \in Block
  BY <1>1, SyncFields, ChunksAre DEF Positive
<1>3. t \in SyncType
  BY <1>1, <1>2 DEF SyncType
<1>4. /\ t.downloadingHeaders = s.downloadingHeaders
      /\ t.downloadingBodies = s.downloadingBodies \cup numbers
      /\ t.headerSyncPeers = s.headerSyncPeers
      /\ t.bodySyncPeers[p] = numbers
      /\ \A q \in S \ {p} : t.bodySyncPeers[q] = s.bodySyncPeers[q]
      /\ t.haveCommonHeader = s.haveCommonHeader
      /\ t.lastImportedBlock = s.lastImportedBlock
      /\ t.lastImportedBlockHash = s.lastImportedBlockHash
  BY <1>1 DEF SyncType
<1>5. IsRequest("BlockBodies", what)
  BY <1>2 DEF IsRequest
<1>6. AskBodies(w, p, numbers) = Asking(u, p, "BlockBodies", what)
  BY <1>1 DEF AskBodies, World, SyncType
<1> HIDE DEF t
<1>7. u \in World /\ u.sync = t /\ u.eth = w.eth /\ u.queue = w.queue
  BY <1>1, <1>3 DEF World
<1>8. Continues(u.sync, u.queue)
  BY <1>4, <1>7 DEF Fit, Continues
<1> HIDE DEF u, what
<1> QED
  BY <1>4, <1>5, <1>6, <1>7, <1>8, AskFit

\* The window of a request is of naturals, and its count is its size.
LEMMA AskGapFit ==
    ASSUME NEW S \in SUBSET Peer, NEW p \in S, NEW w, Fit(w, S \ {p})
    PROVE  Fit(AskGap(w, p), S)
<1> DEFINE s == w.sync
           start == s.lastImportedBlock + 1
           have == DOMAIN s.headers
           base == IF have # {} /\ start >= First(s.headers)
                   THEN RunEnd(s.headers, First(s.headers)) ELSE start - 1
           missing == {n \in (base + 1)..Max(have \cup {base}) :
                           n \notin have \cup s.downloadingHeaders}
           from == Min(missing)
           gap == 1 + Max({base} \cup {n \in have : n \in base..from})
           window == {n \in missing :
                           /\ \A m \in have : m > from => m > n
                           /\ (n - gap) \div MaxRequest = (from - gap) \div MaxRequest}
           t == [s EXCEPT !.downloadingHeaders = @ \cup window,
                          !.headerSyncPeers[p] = window]
           u == [w EXCEPT !.sync = t]
           what == [from |-> from, count |-> Cardinality(window)]
<1>1. s \in SyncType /\ w \in World
  BY DEF Fit, World
<1>2. AskGap(w, p) = IF missing = {} THEN w ELSE Asking(u, p, "BlockHeaders", what)
  BY <1>1 DEF AskGap, World, SyncType
<1>3. base \in Nat
  <2>1. s.headers \in Chunks(Block) /\ start - 1 \in Nat
    BY <1>1, SyncFields
  <2>2. ASSUME have # {}
        PROVE  RunEnd(s.headers, First(s.headers)) \in Nat
    <3>1. s.headers # <<>>
      BY <2>2
    <3>2. First(s.headers) \in DOMAIN s.headers
      BY <2>1, <3>1, FirstIs
    <3> QED
      BY <2>1, <3>2, RunEndIs DEF Positive
  <2> QED
    BY <2>1, <2>2
<1>4. have \in SUBSET Nat /\ IsFiniteSet(have)
  BY <1>1, SyncFields, ChunksAre DEF Positive
<1> HIDE DEF base
<1>5. IsFiniteSet(missing) /\ missing \in SUBSET Nat
  <2>1. have \cup {base} \in SUBSET Nat /\ IsFiniteSet(have \cup {base})
    BY <1>3, <1>4, FS_AddElement
  <2>2. Max(have \cup {base}) \in Nat
    BY <2>1, GreatestExists
  <2>3. IsFiniteSet((base + 1)..Max(have \cup {base}))
    BY <1>3, <2>2, FS_Interval
  <2>4. IsFiniteSet(missing)
    <3>1. missing \subseteq (base + 1)..Max(have \cup {base})
      OBVIOUS
    <3> HIDE DEF missing
    <3> QED
      BY <2>3, <3>1, FS_Subset
  <2> QED
    BY <1>3, <2>2, <2>4
<1> HIDE DEF missing
<1>6. window \subseteq missing
  OBVIOUS
<1> HIDE DEF window
<1>7. window \in SUBSET Nat /\ Cardinality(window) \in Nat
  BY <1>5, <1>6, FS_Subset, FS_CardinalityType
<1>8. CASE missing = {}
  BY <1>2, <1>8, FitMore
<1>9. CASE missing # {}
  <2>1. from \in Nat
    BY <1>5, <1>9, LeastExists
  <2>2. IsRequest("BlockHeaders", what)
    BY <1>7, <2>1 DEF IsRequest
  <2>3. t \in SyncType
    BY <1>1, <1>7 DEF SyncType
  <2>4. /\ t.downloadingHeaders = s.downloadingHeaders \cup window
        /\ t.downloadingBodies = s.downloadingBodies
        /\ t.headerSyncPeers[p] = window
        /\ t.bodySyncPeers = s.bodySyncPeers
        /\ \A q \in S \ {p} : t.headerSyncPeers[q] = s.headerSyncPeers[q]
        /\ t.haveCommonHeader = s.haveCommonHeader
        /\ t.lastImportedBlock = s.lastImportedBlock
        /\ t.lastImportedBlockHash = s.lastImportedBlockHash
    BY <1>1 DEF SyncType
  <2> HIDE DEF t
  <2>5. u \in World /\ u.sync = t /\ u.eth = w.eth /\ u.queue = w.queue
    BY <1>1, <2>3 DEF World
  <2>6. Continues(u.sync, u.queue)
    BY <2>4, <2>5 DEF Fit, Continues
  <2>7. AskGap(w, p) = Asking(u, p, "BlockHeaders", what)
    BY <1>2, <1>9
  <2> HIDE DEF u, what, from
  <2> QED
    BY <2>2, <2>4, <2>5, <2>6, <2>7, AskFit
<1> QED
  BY <1>8, <1>9

\* Block 1 of the node's branch, or block 0, is in the database, unless the
\* node has no more than the genesis block: the exception.
LEMMA AskBackwardsFit ==
    ASSUME ChainWhole, NEW S \in SUBSET Peer, NEW p \in S, NEW w, Fit(w, S \ {p}),
           ~w.sync.haveCommonHeader
    PROVE  Fit(AskBackwards(w, p), S)
<1> DEFINE s == w.sync
           start == IF s.headers = <<>> THEN s.lastImportedBlock
                    ELSE Min({s.lastImportedBlock, First(s.headers) - 1})
           c == OnBranch(head, start)
           t == [s EXCEPT !.lastImportedBlock = start, !.lastImportedBlockHash = c]
           u == [w EXCEPT !.sync = t]
           common == [t EXCEPT !.haveCommonHeader = TRUE]
           v == [w EXCEPT !.sync = common]
           what == [from |-> start, count |-> 1]
<1>1. s \in SyncType /\ w \in World
  BY DEF Fit, World
<1>2. start \in Nat
  <2>1. s.headers \in Chunks(Block) /\ s.lastImportedBlock \in Nat
    BY <1>1, SyncFields
  <2>2. CASE s.headers # <<>>
    <3>1. First(s.headers) - 1 \in Nat
      BY <2>1, <2>2, FirstIs DEF Positive
    <3>2. {s.lastImportedBlock, First(s.headers) - 1} \in SUBSET Nat
      BY <2>1, <3>1
    <3> QED
      BY <2>2, <3>2, LeastExists
  <2> QED
    BY <2>1, <2>2
<1>3. /\ head \in Chain /\ chain \in SUBSET Chain
      /\ Number[head] \in Nat /\ Number[head] >= 0
  BY Heights DEF ChainWhole
<1> HIDE DEF start
<1>6. \/ c \in chain /\ Number[c] = start
      \/ c = NoBlock /\ start > Number[head]
  <2>1. CASE start <= Number[head]
    <3>1. c \in Branch[head] /\ Number[c] = start
      BY <1>2, <1>3, <2>1, OnBranchIs
    <3>2. Branch[head] \subseteq chain
      BY <1>3, BranchWithin DEF ChainWhole
    <3> QED
      BY <3>1, <3>2
  <2>2. CASE start > Number[head]
    BY <2>2 DEF OnBranch
  <2> QED
    BY <1>2, <1>3, <2>1, <2>2
<1> HIDE DEF c
<1>7. c \in Chain \cup {NoBlock}
  BY <1>3, <1>6
<1>8. /\ t \in SyncType /\ common \in SyncType
      /\ t.lastImportedBlock = start /\ t.lastImportedBlockHash = c
      /\ common.lastImportedBlock = start /\ common.lastImportedBlockHash = c
      /\ common.haveCommonHeader = TRUE /\ ~t.haveCommonHeader
      /\ t.downloadingHeaders = s.downloadingHeaders
      /\ t.downloadingBodies = s.downloadingBodies
      /\ t.headerSyncPeers = s.headerSyncPeers
      /\ t.bodySyncPeers = s.bodySyncPeers
      /\ common.downloadingHeaders = s.downloadingHeaders
      /\ common.downloadingBodies = s.downloadingBodies
      /\ common.headerSyncPeers = s.headerSyncPeers
      /\ common.bodySyncPeers = s.bodySyncPeers
  BY <1>1, <1>2, <1>7 DEF SyncType
<1>9. AskBackwards(w, p) = IF start <= 1 THEN AskGap(v, p)
                           ELSE Asking(u, p, "BlockHeaders", what)
  <2>1. [u EXCEPT !.sync.haveCommonHeader = TRUE] = v
    BY <1>1 DEF World, SyncType
  <2>2. u = [w EXCEPT !.sync.lastImportedBlock = start,
                      !.sync.lastImportedBlockHash = c]
    BY <1>1 DEF World, SyncType
  <2>3. AskBackwards(w, p) =
          IF start <= 1
          THEN AskGap([[w EXCEPT !.sync.lastImportedBlock = start,
                                 !.sync.lastImportedBlockHash = c]
                          EXCEPT !.sync.haveCommonHeader = TRUE], p)
          ELSE Asking([w EXCEPT !.sync.lastImportedBlock = start,
                                !.sync.lastImportedBlockHash = c],
                      p, "BlockHeaders", what)
    BY DEF AskBackwards, start, c
  <2> HIDE DEF t, u, common, v, what
  <2> QED
    BY <2>1, <2>2, <2>3
<1> HIDE DEF t, common
<1>10. CASE start <= 1
  <2>1. Owned(common, w.eth, S \ {p})
    BY <1>8, OwnedLess DEF Fit
  <2>2. Continues(common, w.queue)
    <3>1. CASE c \in chain /\ Number[c] = start
      BY <1>8, <3>1 DEF Continues, Has
    <3>2. CASE c = NoBlock /\ start > Number[head]
      <4>1. start = 1 /\ Number[head] = 0
        BY <1>2, <1>3, <1>10, <3>2
      <4>2. \A b \in Stored : b = Genesis
        BY <4>1, Heights, HeaderAssumption DEF ChainWhole
      <4>3. Stored = {Genesis}
        BY <4>2, HeaderAssumption
      <4> QED
        BY <1>8, <3>2, <4>1, <4>3 DEF Continues
    <3> QED
      BY <1>6, <3>1, <3>2
  <2>3. Fit(v, S \ {p})
    BY <1>8, <2>1, <2>2, FitSync
  <2> HIDE DEF v
  <2> QED
    BY <1>9, <1>10, <2>3, AskGapFit
<1>11. CASE ~(start <= 1)
  <2>1. u \in World /\ u.sync = t /\ u.eth = w.eth /\ u.queue = w.queue
    BY <1>1, <1>8 DEF World
  <2>2. Continues(u.sync, u.queue)
    BY <1>8, <2>1 DEF Continues
  <2>3. IsRequest("BlockHeaders", what)
    BY <1>2 DEF IsRequest
  <2>4. AskBackwards(w, p) = Asking(u, p, "BlockHeaders", what)
    BY <1>9, <1>11
  <2> HIDE DEF u, what
  <2> QED
    BY <1>8, <2>1, <2>2, <2>3, <2>4, AskFit
<1> QED
  BY <1>10, <1>11

\* With the account of p closed, the others own what is left, whatever p was
\* being asked for.
LEMMA ClearFit ==
    ASSUME NEW S \in SUBSET Peer, NEW p \in Peer, NEW w \in World, NEW e,
           Owned(w.sync, e, S), \A q \in S \ {p} : w.eth[q].asking = e[q].asking,
           Continues(w.sync, w.queue), ParentsAhead(w.queue),
           w.queue.draining \subseteq batch \cup chain
    PROVE  Fit([w EXCEPT !.sync = ClearPeerDownload(@, p)], S \ {p})
<1> DEFINE t == ClearPeerDownload(w.sync, p)
           v == [w EXCEPT !.sync = t]
<1>1. w.sync \in SyncType
  BY DEF World
<1>2. t \in SyncType /\ Owned(t, w.eth, S \ {p})
  BY <1>1, OwnedAfterClear
<1>3. /\ t.haveCommonHeader = w.sync.haveCommonHeader
      /\ t.lastImportedBlock = w.sync.lastImportedBlock
      /\ t.lastImportedBlockHash = w.sync.lastImportedBlockHash
  BY <1>1 DEF ClearPeerDownload, SyncType
<1>4. [w EXCEPT !.sync = ClearPeerDownload(@, p)] = v
  OBVIOUS
<1> HIDE DEF t
<1>5. v \in World /\ v.sync = t /\ v.eth = w.eth /\ v.queue = w.queue
  BY <1>2 DEF World
<1>6. Continues(t, w.queue)
  BY <1>3 DEF Continues
<1> QED
  BY <1>2, <1>4, <1>5, <1>6 DEF Fit

LEMMA RequestBlocksFit ==
    ASSUME ChainWhole, NEW S \in SUBSET Peer, NEW p \in S, NEW w0, Fit(w0, S)
    PROVE  Fit(RequestBlocks(w0, p), S)
<1> DEFINE w == [w0 EXCEPT !.sync = ClearPeerDownload(@, p)]
           needed == NeededBodies(w.sync)
<1>1. Fit(w, S \ {p})
  BY ClearFit DEF Fit
<1>2. RequestBlocks(w0, p) =
        CASE KnownFull(w.queue) -> [w EXCEPT !.sync.state = "Waiting"]
          [] ~KnownFull(w.queue) /\ needed # {} -> AskBodies(w, p, needed)
          [] ~KnownFull(w.queue) /\ needed = {} ->
                IF w.sync.haveCommonHeader THEN AskGap(w, p)
                ELSE AskBackwards(w, p)
  BY DEF RequestBlocks
<1> HIDE DEF w
<1>3. w.sync \in SyncType /\ w \in World
  BY <1>1 DEF Fit, World
<1>4. CASE KnownFull(w.queue)
  <2> DEFINE t == [w.sync EXCEPT !.state = "Waiting"]
             v == [w EXCEPT !.sync = t]
  <2>1. /\ t \in SyncType
        /\ t.downloadingHeaders = w.sync.downloadingHeaders
        /\ t.downloadingBodies = w.sync.downloadingBodies
        /\ t.headerSyncPeers = w.sync.headerSyncPeers
        /\ t.bodySyncPeers = w.sync.bodySyncPeers
        /\ t.haveCommonHeader = w.sync.haveCommonHeader
        /\ t.lastImportedBlock = w.sync.lastImportedBlock
        /\ t.lastImportedBlockHash = w.sync.lastImportedBlockHash
    BY <1>3 DEF SyncType
  <2>2. [w EXCEPT !.sync.state = "Waiting"] = v
    BY <1>3 DEF World
  <2>3. RequestBlocks(w0, p) = v
    BY <1>2, <1>4, <2>2
  <2> HIDE DEF t
  <2>4. Owned(t, w.eth, S \ {p}) /\ Continues(t, w.queue)
    BY <1>1, <2>1, OwnedLess DEF Fit, Continues
  <2>5. Fit(v, S \ {p})
    BY <1>1, <2>1, <2>4, FitSync
  <2> HIDE DEF v
  <2> QED
    BY <2>3, <2>5, FitMore
<1>5. CASE ~KnownFull(w.queue) /\ needed # {}
  <2>1. needed \in SUBSET DOMAIN w.sync.headers
    BY <1>3, NeededAreHeaders
  <2>2. RequestBlocks(w0, p) = AskBodies(w, p, needed)
    BY <1>2, <1>5
  <2> HIDE DEF needed
  <2> QED
    BY <1>1, <2>1, <2>2, AskBodiesFit
<1>6. CASE ~KnownFull(w.queue) /\ needed = {}
  <2>1. RequestBlocks(w0, p) = IF w.sync.haveCommonHeader THEN AskGap(w, p)
                               ELSE AskBackwards(w, p)
    BY <1>2, <1>6
  <2> QED
    BY <1>1, <2>1, AskGapFit, AskBackwardsFit
<1> QED
  BY <1>4, <1>5, <1>6

LEMMA SyncPeerFit ==
    ASSUME ChainWhole, NEW S \in SUBSET Peer, NEW p \in S, NEW w, Fit(w, S),
           NEW force \in BOOLEAN
    PROVE  Fit(SyncPeer(w, p, force), S)
<1> DEFINE own == Number[head] + QueuedDifficulty(w.queue)
           better == w.eth[p].totalDifficulty >
                         Max({w.sync.syncingTotalDifficulty, own})
           t == [w.sync EXCEPT !.syncingTotalDifficulty = w.eth[p].totalDifficulty,
                               !.state = IF @ \in {"Idle", "NotSynced"} THEN "Blocks"
                                         ELSE @]
           u == [w EXCEPT !.sync = t]
           what == [hash |-> w.eth[p].latestHash]
<1>1. w \in World /\ w.sync \in SyncType /\ w.eth[p] \in PeerType
  BY DEF Fit, World
<1>2. [w EXCEPT !.sync.syncingTotalDifficulty = w.eth[p].totalDifficulty,
                !.sync.state = IF @ \in {"Idle", "NotSynced"} THEN "Blocks" ELSE @] = u
  BY <1>1 DEF World, SyncType
<1>3. SyncPeer(w, p, force) =
        IF ~w.eth[p].statusReceived \/ w.eth[p].asking # "Nothing"
           \/ w.sync.state = "Waiting" THEN w
        ELSE IF force \/ better THEN Asking(u, p, "BlockHeaders", what)
        ELSE IF w.sync.state = "Blocks" THEN RequestBlocks(w, p) ELSE w
  <2> HIDE DEF u
  <2> QED
    BY <1>2 DEF SyncPeer
<1> HIDE DEF better
<1>4. ASSUME w.eth[p].statusReceived, w.eth[p].asking = "Nothing"
      PROVE  Fit(Asking(u, p, "BlockHeaders", what), S)
  <2>1. Owned(w.sync, w.eth, S \ {p})
    BY <1>4, OwnedByOthers DEF Fit
  <2>2. Fit(w, S \ {p})
    BY <2>1 DEF Fit
  <2>3. /\ t \in SyncType
        /\ t.downloadingHeaders = w.sync.downloadingHeaders
        /\ t.downloadingBodies = w.sync.downloadingBodies
        /\ t.headerSyncPeers = w.sync.headerSyncPeers
        /\ t.bodySyncPeers = w.sync.bodySyncPeers
        /\ t.haveCommonHeader = w.sync.haveCommonHeader
        /\ t.lastImportedBlock = w.sync.lastImportedBlock
        /\ t.lastImportedBlockHash = w.sync.lastImportedBlockHash
    BY <1>1 DEF SyncType, PeerType
  <2> HIDE DEF t
  <2>4. u \in World /\ u.sync = t /\ u.eth = w.eth /\ u.queue = w.queue
    BY <1>1, <2>3 DEF World
  <2>5. Continues(u.sync, u.queue)
    BY <2>3, <2>4 DEF Fit, Continues
  <2>6. IsRequest("BlockHeaders", what)
    BY <1>1, <1>4 DEF IsRequest, PeerType
  <2> HIDE DEF u, what
  <2> QED
    BY <2>2, <2>3, <2>4, <2>5, <2>6, AskFit
<1> HIDE DEF u, what
<1>5. Fit(RequestBlocks(w, p), S)
  BY RequestBlocksFit
<1> QED
  BY <1>3, <1>4, <1>5

-----------------------------------------------------------------------------
(***************************************************************************)
(* The loops                                                               *)
(***************************************************************************)

LEMMA ContinueSyncFit ==
    ASSUME ChainWhole, NEW S \in SUBSET Peer, NEW w, Fit(w, S), NEW order \in Seq(S)
    PROVE  Fit(ContinueSync(w, order), S)
<1> DEFINE W == {v \in World : Fit(v, S)}
           n == Len(order)
           step == [i \in 1..n |-> [v \in W |-> SyncPeer(v, order[i], FALSE)]]
           Is(it) == it = [s \in SUBSET DOMAIN order |->
                             IF s = {} THEN w
                             ELSE SyncPeer(it[s \ {Max(s)}], order[Max(s)], FALSE)]
           loop == CHOOSE it : Is(it)
<1>1. n \in Nat /\ DOMAIN order = 1..n /\ \A i \in 1..n : order[i] \in S
  OBVIOUS
<1> HIDE DEF n
<1>2. ContinueSync(w, order) = loop[DOMAIN order]
  BY DEF ContinueSync, FoldLeft, MapThenFoldSet
<1>3. w \in W
  BY DEF Fit
<1>4. \A i \in 1..n : \A v \in W : SyncPeer(v, order[i], FALSE) \in W
  <2> SUFFICES ASSUME NEW i \in 1..n, NEW v \in W
               PROVE  SyncPeer(v, order[i], FALSE) \in W
    OBVIOUS
  <2>1. Fit(SyncPeer(v, order[i], FALSE), S)
    BY <1>1, SyncPeerFit
  <2> QED
    BY <2>1 DEF Fit
<1>5. \E it : Is(it)
  <2>1. step \in [1..n -> [W -> W]]
    BY <1>4
  <2>2. PICK it : IsFold(it, W, w, n, step)
    <3> HIDE DEF step, W
    <3> QED
      BY <1>1, <1>3, <2>1, FoldExists
  <2>3. \A s \in SUBSET (1..n) : s # {} =>
            step[Max(s)][it[s \ {Max(s)}]] =
                SyncPeer(it[s \ {Max(s)}], order[Max(s)], FALSE)
    <3>1. \A s \in SUBSET (1..n) : s # {} => it[s \ {Max(s)}] \in W
      BY <1>1, <2>2, LastOf DEF IsFold
    <3> HIDE DEF W
    <3> QED
      BY <1>1, <3>1, LastOf
  <2> HIDE DEF step
  <2>4. it = [s \in SUBSET DOMAIN order |->
                IF s = {} THEN w
                ELSE SyncPeer(it[s \ {Max(s)}], order[Max(s)], FALSE)]
    BY <1>1, <2>2, <2>3 DEF IsFold
  <2> QED
    BY <2>4
<1>6. Is(loop)
  <2> HIDE DEF Is
  <2> QED
    BY <1>5
<1> HIDE DEF loop
<1>7. loop[{}] = w
  BY <1>1, <1>6
<1>8. \A i \in 1..n : loop[1..i] = SyncPeer(loop[1..(i - 1)], order[i], FALSE)
  <2> SUFFICES ASSUME NEW i \in 1..n
               PROVE  loop[1..i] = SyncPeer(loop[1..(i - 1)], order[i], FALSE)
    OBVIOUS
  <2>1. /\ 1..i \in SUBSET DOMAIN order /\ 1..i # {}
        /\ Max(1..i) = i /\ (1..i) \ {i} = 1..(i - 1)
    BY <1>1, LastOf
  <2>2. loop[1..i] = SyncPeer(loop[(1..i) \ {Max(1..i)}], order[Max(1..i)], FALSE)
    BY <1>6, <2>1
  <2> QED
    BY <2>1, <2>2
<1> HIDE DEF W
<1>9. loop[1..n] \in W
  <2>1. loop[{}] \in W
    BY <1>3, <1>7
  <2>2. \A i \in 1..n : loop[1..(i - 1)] \in W => loop[1..i] \in W
    BY <1>4, <1>8
  <2> QED
    BY <1>1, <2>1, <2>2, FoldStays
<1> QED
  BY <1>1, <1>2, <1>9 DEF W

-----------------------------------------------------------------------------
(***************************************************************************)
(* The import into the block queue                                         *)
(***************************************************************************)

LEMMA RangeOf ==
    ASSUME NEW R, NEW s \in Seq(R)
    PROVE  Range(s) = {s[i] : i \in 1..Len(s)} /\ Range(s) \subseteq R
BY DEF Range

LEMMA ReadyOf ==
    ASSUME NEW q \in QueueType
    PROVE  /\ q.ready \in Seq(Block) /\ Len(q.ready) \in Nat
           /\ q.unknown \in SUBSET Block /\ q.unknownSize \in Nat
           /\ Range(q.ready) = {q.ready[i] : i \in 1..Len(q.ready)}
           /\ Range(q.ready) \subseteq Block
BY RangeOf DEF QueueType

\* What is released has its parent in the queue, or released with it.
LEMMA ReleasedFollow ==
    ASSUME NEW q
    PROVE  /\ Released(q) \subseteq q.unknown
           /\ \A b \in Released(q) : Parent[b] \in Range(q.ready) \cup Released(q)
<1> DEFINE r == Released(q)
           Closed(t) == \A c \in q.unknown : Parent[c] \in Range(q.ready) \cup t => c \in t
<1>1. r = {b \in q.unknown : \A t \in SUBSET q.unknown : Closed(t) => b \in t}
  BY DEF Released
<1> HIDE DEF r
<1>2. Closed(r)
  <2> SUFFICES ASSUME NEW c \in q.unknown, Parent[c] \in Range(q.ready) \cup r
               PROVE  c \in r
    OBVIOUS
  <2>1. ASSUME NEW t \in SUBSET q.unknown, Closed(t)
        PROVE  c \in t
    <3>1. r \subseteq t
      BY <1>1, <2>1
    <3> QED
      BY <2>1, <3>1
  <2> QED
    BY <1>1, <2>1
<1>3. ASSUME NEW b \in r, Parent[b] \notin Range(q.ready) \cup r
      PROVE  FALSE
  <2>1. r \ {b} \in SUBSET q.unknown
    BY <1>1
  <2>2. Closed(r \ {b})
    BY <1>2, <1>3
  <2>3. b \in r \ {b}
    <3> HIDE DEF Closed
    <3> QED
      BY <1>1, <1>3, <2>1, <2>2
  <2> QED
    BY <2>3
<1> QED
  BY <1>1, <1>3 DEF r

LEMMA NoteReadyIs ==
    ASSUME NEW q \in QueueType, ParentsAhead(q)
    PROVE  LET v == NoteReady(q)
           IN  /\ v \in QueueType /\ ParentsAhead(v)
               /\ v.draining = q.draining /\ v.knownBad = q.knownBad
               /\ Range(q.ready) \subseteq Range(v.ready)
<1> DEFINE rel == Released(q)
           r == ByNumber(rel)
           v == NoteReady(q)
           n == Len(q.ready)
<1>1. rel \in SUBSET Block
  BY ReleasedFollow, ReadyOf
<1>2. Lists(r, rel) /\ Sorted(r)
  BY <1>1, ByNumberLists
<1>3. /\ \A b \in rel : Parent[b] \in Range(q.ready) \cup rel
      /\ Cardinality(rel) \in Nat
  BY <1>1, ReleasedFollow, BlocksFinite
<1>4. /\ q.ready \in Seq(Block) /\ n \in Nat /\ q.unknownSize \in Nat
      /\ q.unknown \in SUBSET Block
      /\ Range(q.ready) = {q.ready[i] : i \in 1..n}
  BY ReadyOf
<1>5. v = [q EXCEPT !.ready = @ \o r, !.unknown = @ \ rel,
                    !.unknownSize = (@ - Cardinality(rel)) % SizeModulus]
  BY DEF NoteReady
<1> HIDE DEF rel, r, v, n
<1>6. /\ r \in Seq(Block) /\ Len(r) \in Nat /\ DOMAIN r = 1..Len(r)
      /\ \A i \in 1..Len(r) : r[i] \in rel
      /\ \A b \in rel : \E i \in 1..Len(r) : r[i] = b
  <2>1. r \in Seq(rel)
    BY <1>2, ListsElements
  <2> QED
    BY <1>1, <1>2, <2>1, ListsElements, SeqMonotonic DEF Lists
<1>7. /\ q.ready \o r \in Seq(Block) /\ Len(q.ready \o r) = n + Len(r)
      /\ \A i \in 1..(n + Len(r)) :
            (q.ready \o r)[i] = IF i <= n THEN q.ready[i] ELSE r[i - n]
  BY <1>4, <1>6, ConcatProperties DEF n
<1>8. (q.unknownSize - Cardinality(rel)) % SizeModulus \in Nat
  <2>1. SizeModulus \in Nat /\ SizeModulus > 0
    BY HeaderAssumption, BlocksFinite
  <2>2. q.unknownSize - Cardinality(rel) \in Int
    BY <1>3, <1>4
  <2> QED
    BY <2>1, <2>2
<1>9. /\ v \in QueueType /\ v.ready = q.ready \o r
      /\ v.draining = q.draining /\ v.knownBad = q.knownBad
  BY <1>4, <1>5, <1>7, <1>8 DEF QueueType
<1>10. Range(v.ready) = {v.ready[i] : i \in 1..(n + Len(r))}
  BY <1>7, <1>9, ReadyOf
<1>11. Range(q.ready) \subseteq Range(v.ready)
  <2>1. \A i \in 1..n : i \in 1..(n + Len(r)) /\ v.ready[i] = q.ready[i]
    BY <1>4, <1>6, <1>7, <1>9
  <2> QED
    BY <1>4, <1>10, <2>1
<1>12. ParentsAhead(v)
  <2> DEFINE Ahead(i) == chain \cup q.draining \cup {v.ready[j] : j \in 1..(i - 1)}
  <2>1. ASSUME NEW i \in 1..(n + Len(r))
        PROVE  Parent[v.ready[i]] \in Ahead(i)
    <3>1. CASE i <= n
      <4>1. i \in 1..n /\ v.ready[i] = q.ready[i]
        BY <1>4, <1>6, <1>7, <1>9, <3>1
      <4>2. Parent[q.ready[i]] \in chain \cup q.draining \cup {q.ready[j] : j \in 1..(i - 1)}
        BY <4>1 DEF ParentsAhead, n
      <4>3. \A j \in 1..(i - 1) : v.ready[j] = q.ready[j]
        BY <1>4, <1>6, <1>7, <1>9, <3>1
      <4> QED
        BY <4>1, <4>2, <4>3
    <3>2. CASE ~(i <= n)
      <4>1. i - n \in 1..Len(r) /\ v.ready[i] = r[i - n]
        BY <1>4, <1>6, <1>7, <1>9, <3>2
      <4>2. r[i - n] \in rel /\ r[i - n] \in Block
        BY <1>1, <1>6, <4>1
      <4>3. CASE Parent[r[i - n]] \in Range(q.ready)
        <5>1. PICK j \in 1..n : q.ready[j] = Parent[r[i - n]]
          BY <1>4, <4>3
        <5>2. j \in 1..(i - 1) /\ v.ready[j] = q.ready[j]
          BY <1>4, <1>6, <1>7, <1>9, <3>2
        <5> QED
          BY <4>1, <5>1, <5>2
      <4>4. CASE Parent[r[i - n]] \in rel
        <5>1. PICK k \in 1..Len(r) : r[k] = Parent[r[i - n]]
          BY <1>6, <4>4
        <5>2. Number[r[k]] < Number[r[i - n]]
          BY <4>2, <5>1, Heights
        <5>3. k < i - n
          BY <1>2, <1>6, <4>1, <5>2 DEF Sorted
        <5>4. n + k \in 1..(i - 1) /\ n + k \in 1..(n + Len(r))
              /\ ~(n + k <= n) /\ (n + k) - n = k
          BY <1>4, <1>6, <3>2, <5>3
        <5>5. v.ready[n + k] = r[k]
          BY <1>7, <1>9, <5>4
        <5> QED
          BY <4>1, <5>1, <5>4, <5>5
      <4> QED
        BY <1>3, <4>2, <4>3, <4>4
    <3> QED
      BY <3>1, <3>2
  <2> QED
    BY <1>7, <1>9, <2>1 DEF ParentsAhead
<1> QED
  BY <1>9, <1>11, <1>12 DEF v

WithQueue(w, q, r) == [w EXCEPT !.queue = q, !.result = r]

\* Nothing that Has speaks of is lost.
LEMMA FitQueue ==
    ASSUME NEW S, NEW w, Fit(w, S), NEW q \in QueueType, NEW r \in Results, NEW v,
           v = WithQueue(w, q, r),
           ParentsAhead(q), q.draining = w.queue.draining,
           q.knownBad = w.queue.knownBad,
           Range(w.queue.ready) \subseteq Range(q.ready)
    PROVE  /\ Fit(v, S) /\ v.sync = w.sync /\ v.eth = w.eth /\ v.queue = q
           /\ v.over = w.over /\ v.result = r
<1>1. /\ v \in World /\ v.sync = w.sync /\ v.eth = w.eth /\ v.queue = q
      /\ v.over = w.over /\ v.result = r
  BY DEF Fit, World, WithQueue
<1>2. Continues(v.sync, v.queue)
  BY <1>1 DEF Fit, Continues, Has
<1> QED
  BY <1>1, <1>2 DEF Fit

LEMMA ImportFit ==
    ASSUME NEW S, NEW w, Fit(w, S), NEW b \in Block, NEW body
    PROVE  LET v == Import(w, b, body)
           IN  /\ Fit(v, S) /\ v.sync = w.sync /\ v.eth = w.eth /\ v.over = w.over
               /\ v.result = "Success" => b \in Range(v.queue.ready)
               /\ v.result \in {"Success", "Malformed", "AlreadyInChain",
                                "AlreadyKnown", "UnknownParent"}
<1> DEFINE v == Import(w, b, body)
           Good == /\ Fit(v, S) /\ v.sync = w.sync /\ v.eth = w.eth
                   /\ v.over = w.over
                   /\ v.result = "Success" => b \in Range(v.queue.ready)
                   /\ v.result \in {"Success", "Malformed", "AlreadyInChain",
                                    "AlreadyKnown", "UnknownParent"}
           q == w.queue
           q1 == [q EXCEPT !.ready = Append(@, b)]
           q2 == NoteReady(q1)
           q3 == Wait(q, b)
<1>1. w \in World /\ q \in QueueType /\ ParentsAhead(q)
  BY DEF Fit, World
<1>2. /\ InQueue(q, b) => v = [w EXCEPT !.result = "AlreadyKnown"]
      /\ ~InQueue(q, b) /\ body # Body[b] => v = [w EXCEPT !.result = "Malformed"]
      /\ ~InQueue(q, b) /\ body = Body[b] /\ b \in chain =>
            v = [w EXCEPT !.result = "AlreadyInChain"]
      /\ ~InQueue(q, b) /\ body = Body[b] /\ b \notin chain =>
            v = IF Held(w, Parent[b])
                THEN WithQueue(w, q2, "Success")
                ELSE WithQueue(w, q3, "UnknownParent")
  <2>1. v = CASE InQueue(q, b) -> [w EXCEPT !.result = "AlreadyKnown"]
              [] ~InQueue(q, b) /\ body # Body[b] -> [w EXCEPT !.result = "Malformed"]
              [] ~InQueue(q, b) /\ body = Body[b] /\ b \in chain ->
                    [w EXCEPT !.result = "AlreadyInChain"]
              [] ~InQueue(q, b) /\ body = Body[b] /\ b \notin chain ->
                    IF Held(w, Parent[b])
                    THEN WithQueue(w, q2, "Success")
                    ELSE WithQueue(w, q3, "UnknownParent")
    BY DEF Import, WithQueue
  <2> HIDE DEF v, q, q2, q3
  <2> QED
    BY <2>1
<1>3. ASSUME NEW r \in {"Malformed", "AlreadyInChain", "AlreadyKnown"},
             v = [w EXCEPT !.result = r]
      PROVE  Good
  <2>1. v = WithQueue(w, q, r)
    BY <1>1, <1>3 DEF World, WithQueue
  <2>2. /\ r \in Results /\ q.draining = w.queue.draining
        /\ q.knownBad = w.queue.knownBad /\ Range(w.queue.ready) \subseteq Range(q.ready)
    BY DEF Results
  <2> HIDE DEF v, q
  <2>3. /\ Fit(v, S) /\ v.sync = w.sync /\ v.eth = w.eth /\ v.over = w.over /\ v.result = r
    BY <1>1, <2>1, <2>2, FitQueue
  <2> QED
    BY <1>3, <2>3
<1>4. ASSUME v = WithQueue(w, q2, "Success"), Held(w, Parent[b])
      PROVE  Good
  <2>1. /\ q.ready \in Seq(Block) /\ Len(q.ready) \in Nat
        /\ Range(q.ready) = {q.ready[i] : i \in 1..Len(q.ready)}
    BY <1>1, ReadyOf
  <2>3. /\ Append(q.ready, b) \in Seq(Block)
        /\ Len(Append(q.ready, b)) = Len(q.ready) + 1
        /\ Append(q.ready, b)[Len(q.ready) + 1] = b
        /\ \A i \in 1..Len(q.ready) : Append(q.ready, b)[i] = q.ready[i]
    BY <2>1
  <2>2. /\ q1 \in QueueType /\ q1.ready = Append(q.ready, b)
        /\ q1.draining = q.draining /\ q1.knownBad = q.knownBad
    BY <1>1, <2>1, <2>3 DEF QueueType
  <2> HIDE DEF q1
  <2>4. Range(q1.ready) = {q1.ready[i] : i \in 1..(Len(q.ready) + 1)}
    BY <2>2, <2>3, ReadyOf
  <2>5. Range(q.ready) \subseteq Range(q1.ready) /\ b \in Range(q1.ready)
    BY <2>1, <2>2, <2>3, <2>4
  <2>6. ParentsAhead(q1)
    <3> SUFFICES ASSUME NEW i \in 1..(Len(q.ready) + 1)
                 PROVE  Parent[q1.ready[i]] \in chain \cup q.draining
                                \cup {q1.ready[j] : j \in 1..(i - 1)}
      BY <2>2, <2>3 DEF ParentsAhead
    <3>1. \A j \in 1..(i - 1) : j \in 1..Len(q.ready) /\ q1.ready[j] = q.ready[j]
      BY <2>1, <2>2, <2>3
    <3>2. CASE i = Len(q.ready) + 1
      <4>1. Parent[b] \in Range(q.ready) \cup q.draining \cup chain /\ q1.ready[i] = b
        BY <1>4, <2>2, <2>3, <3>2 DEF Held
      <4>2. ASSUME Parent[b] \in Range(q.ready)
            PROVE  Parent[b] \in {q1.ready[j] : j \in 1..(i - 1)}
        <5>1. PICK j \in 1..Len(q.ready) : q.ready[j] = Parent[b]
          BY <2>1, <4>2
        <5>2. j \in 1..(i - 1)
          BY <2>1, <3>2
        <5> QED
          BY <3>1, <5>1, <5>2
      <4> QED
        BY <4>1, <4>2
    <3>3. CASE i # Len(q.ready) + 1
      <4>1. i \in 1..Len(q.ready) /\ q1.ready[i] = q.ready[i]
        BY <2>1, <2>2, <2>3, <3>3
      <4>2. Parent[q.ready[i]] \in chain \cup q.draining \cup {q.ready[j] : j \in 1..(i - 1)}
        BY <1>1, <4>1 DEF ParentsAhead
      <4> QED
        BY <3>1, <4>1, <4>2
    <3> QED
      BY <3>2, <3>3
  <2>7. /\ q2 \in QueueType /\ ParentsAhead(q2)
        /\ q2.draining = q1.draining /\ q2.knownBad = q1.knownBad
        /\ Range(q1.ready) \subseteq Range(q2.ready)
    BY <2>2, <2>6, NoteReadyIs
  <2>9. /\ "Success" \in Results /\ q2.draining = w.queue.draining
        /\ q2.knownBad = w.queue.knownBad /\ Range(w.queue.ready) \subseteq Range(q2.ready)
    BY <2>2, <2>5, <2>7 DEF Results
  <2> HIDE DEF q2, v, q
  <2>8. /\ Fit(v, S) /\ v.sync = w.sync /\ v.eth = w.eth /\ v.queue = q2
        /\ v.over = w.over /\ v.result = "Success"
    BY <1>4, <2>7, <2>9, FitQueue
  <2> QED
    BY <2>5, <2>7, <2>8
<1>5. ASSUME v = WithQueue(w, q3, "UnknownParent")
      PROVE  Good
  <2>1. /\ q3 \in QueueType /\ q3.ready = q.ready /\ q3.draining = q.draining
        /\ q3.knownBad = q.knownBad
    BY <1>1 DEF QueueType, Wait
  <2> HIDE DEF q3, v
  <2>4. /\ "UnknownParent" \in Results /\ q3.draining = w.queue.draining
        /\ q3.knownBad = w.queue.knownBad /\ Range(w.queue.ready) \subseteq Range(q3.ready)
    BY <2>1 DEF Results
  <2>2. ParentsAhead(q3)
    BY <1>1, <2>1 DEF ParentsAhead
  <2>3. /\ Fit(v, S) /\ v.sync = w.sync /\ v.eth = w.eth /\ v.over = w.over
        /\ v.result = "UnknownParent"
    BY <1>5, <2>1, <2>2, <2>4, FitQueue
  <2> QED
    BY <2>3
<1> HIDE DEF v, q2, q3
<1>7. Good
  BY <1>2, <1>3, <1>4, <1>5
<1> QED
  BY <1>7 DEF v

LEMMA FitOver ==
    ASSUME NEW S, NEW w, Fit(w, S), NEW o \in BOOLEAN
    PROVE  LET v == [w EXCEPT !.over = o]
           IN  Fit(v, S) /\ v.over = o /\ v.sync = w.sync /\ v.queue = w.queue
               /\ v.eth = w.eth
<1> DEFINE v == [w EXCEPT !.over = o]
<1>1. /\ v \in World /\ v.sync = w.sync /\ v.eth = w.eth /\ v.queue = w.queue
      /\ v.over = o
  BY DEF Fit, World
<1> HIDE DEF v
<1>2. Fit(v, S)
  BY <1>1 DEF Fit
<1> QED
  BY <1>1, <1>2 DEF v

\* A sync without downloads that has no common header yet.
LEMMA RestartsFit ==
    ASSUME NEW S, NEW w, Fit(w, S)
    PROVE  Fit([w EXCEPT !.sync = [ResetSync(@) EXCEPT !.haveCommonHeader = FALSE]], S)
<1> DEFINE r == ResetSync(w.sync)
           t == [r EXCEPT !.haveCommonHeader = FALSE]
<1>1. /\ r \in SyncType
      /\ r.downloadingHeaders = {} /\ r.downloadingBodies = {}
  BY ResetIs DEF World, Fit
<1>2. [w EXCEPT !.sync = [ResetSync(@) EXCEPT !.haveCommonHeader = FALSE]]
        = [w EXCEPT !.sync = t]
  OBVIOUS
<1> HIDE DEF r
<1>3. /\ t \in SyncType /\ t.haveCommonHeader = FALSE
      /\ t.downloadingHeaders = {} /\ t.downloadingBodies = {}
  BY <1>1 DEF SyncType
<1> HIDE DEF t
<1>4. Owned(t, w.eth, S) /\ Continues(t, w.queue)
  BY <1>3, OwnedNothing DEF Continues
<1> QED
  BY <1>2, <1>3, <1>4, FitSync

\* The download continues from a block that the node has.
LEMMA ContinueFromFit ==
    ASSUME NEW S, NEW w, Fit(w, S), NEW b \in Block, b \in Has(w.queue)
    PROVE  Fit([w EXCEPT !.sync.lastImportedBlock = Number[b],
                         !.sync.lastImportedBlockHash = b], S)
<1> DEFINE t == [w.sync EXCEPT !.lastImportedBlock = Number[b],
                               !.lastImportedBlockHash = b]
<1>1. w \in World /\ w.sync \in SyncType /\ Number[b] \in Nat /\ b \in Chain
  BY Heights DEF Fit, World, Chain
<1>2. /\ t \in SyncType /\ t.lastImportedBlock = Number[b]
      /\ t.lastImportedBlockHash = b
      /\ t.downloadingHeaders = w.sync.downloadingHeaders
      /\ t.downloadingBodies = w.sync.downloadingBodies
      /\ t.headerSyncPeers = w.sync.headerSyncPeers
      /\ t.bodySyncPeers = w.sync.bodySyncPeers
  BY <1>1 DEF SyncType
<1>3. [w EXCEPT !.sync.lastImportedBlock = Number[b],
                !.sync.lastImportedBlockHash = b] = [w EXCEPT !.sync = t]
  BY <1>1 DEF World, SyncType
<1> HIDE DEF t
<1>4. Owned(t, w.eth, S)
  BY <1>2, OwnedLess DEF Fit
<1>5. Continues(t, w.queue)
  BY <1>2 DEF Continues
<1> QED
  BY <1>2, <1>3, <1>4, <1>5, FitSync

LEMMA ImportNumberFit ==
    ASSUME ChainWhole, NEW S, NEW v, Fit(v, S), NEW b \in Block, NEW body
    PROVE  Fit(ImportNumber(v, b, body), S)
<1> DEFINE r == Import(v, b, body)
           n == Number[b]
           u == [r EXCEPT !.sync.lastImportedBlock = n, !.sync.lastImportedBlockHash = b]
           x == RestartSync(r)
           y == [r EXCEPT !.sync = [ResetSync(@) EXCEPT !.haveCommonHeader = FALSE]]
<1>1. /\ Fit(r, S)
      /\ r.result = "Success" => b \in Range(r.queue.ready)
      /\ r.result \in {"Success", "Malformed", "AlreadyInChain",
                       "AlreadyKnown", "UnknownParent"}
  BY ImportFit
<1>2. ImportNumber(v, b, body) =
        CASE v.over \/ r.result = "AlreadyInChain" -> v
          [] ~v.over /\ r.result = "Success" ->
                IF n > r.sync.lastImportedBlock THEN u ELSE r
          [] ~v.over /\ r.result = "Malformed" -> [x EXCEPT !.over = TRUE]
          [] ~v.over /\ r.result \in {"AlreadyKnown", "UnknownParent"} ->
                IF n > r.sync.lastImportedBlock THEN [y EXCEPT !.over = TRUE]
                ELSE [r EXCEPT !.over = TRUE]
  <2>1. [r EXCEPT !.over = TRUE, !.sync = [ResetSync(@) EXCEPT !.haveCommonHeader = FALSE]]
          = [y EXCEPT !.over = TRUE]
    <3> HIDE DEF r
    <3> QED
      BY <1>1 DEF Fit, World
  <2> HIDE DEF y
  <2> QED
    BY <2>1 DEF ImportNumber
<1> HIDE DEF r
<1>3. r.result = "Success" => Fit(u, S)
  <2>1. r.result = "Success" => b \in Has(r.queue)
    BY <1>1 DEF Has
  <2> QED
    BY <1>1, <2>1, ContinueFromFit
<1>4. Fit([x EXCEPT !.over = TRUE], S)
  <2>1. Fit(x, S)
    BY <1>1, RestartFit DEF Fit
  <2> HIDE DEF x
  <2> QED
    BY <2>1, FitOver
<1>5. Fit([y EXCEPT !.over = TRUE], S)
  <2>1. Fit(y, S)
    BY <1>1, RestartsFit
  <2> HIDE DEF y
  <2> QED
    BY <2>1, FitOver
<1>6. Fit([r EXCEPT !.over = TRUE], S)
  BY <1>1, FitOver
<1> HIDE DEF n, u, x, y
<1>7. v.over \in BOOLEAN
  BY DEF Fit, World
<1> QED
  BY <1>1, <1>2, <1>3, <1>4, <1>5, <1>6, <1>7

\* The loop of collectBlocks: n blocks from number first on.
Collected(w, hs, bs, first, n) ==
    LET import(v, m) == ImportNumber(v, hs[m], bs[m])
    IN  FoldLeft(import, w, [i \in 1..n |-> first + i - 1])

LEMMA CollectLoopFit ==
    ASSUME ChainWhole, NEW S, NEW w, Fit(w, S), NEW hs, NEW bs,
           NEW first \in Nat, NEW n \in Nat,
           \A i \in 1..n : hs[first + i - 1] \in Block
    PROVE  Fit(Collected(w, hs, bs, first, n), S)
<1> DEFINE W == {v \in World : Fit(v, S)}
           order == [i \in 1..n |-> first + i - 1]
           Do(v, m) == ImportNumber(v, hs[m], bs[m])
           step == [i \in 1..n |-> [v \in W |-> Do(v, order[i])]]
           Is(it) == it = [s \in SUBSET DOMAIN order |->
                             IF s = {} THEN w ELSE Do(it[s \ {Max(s)}], order[Max(s)])]
           loop == CHOOSE it : Is(it)
<1>1. DOMAIN order = 1..n /\ \A i \in 1..n : order[i] = first + i - 1
  OBVIOUS
<1>2. FoldLeft(Do, w, order) = loop[DOMAIN order]
  BY DEF FoldLeft, MapThenFoldSet
<1> HIDE DEF order
<1>3. w \in W
  BY DEF Fit
<1>4. \A i \in 1..n : \A v \in W : Do(v, order[i]) \in W
  <2> SUFFICES ASSUME NEW i \in 1..n, NEW v \in W
               PROVE  Do(v, order[i]) \in W
    OBVIOUS
  <2>1. Fit(Do(v, order[i]), S)
    BY <1>1, ImportNumberFit
  <2> QED
    BY <2>1 DEF Fit
<1>5. \E it : Is(it)
  <2>1. step \in [1..n -> [W -> W]]
    <3> HIDE DEF Do, W
    <3> QED
      BY <1>4
  <2>2. PICK it : IsFold(it, W, w, n, step)
    <3> HIDE DEF step, W
    <3> QED
      BY <1>3, <2>1, FoldExists
  <2>3. \A s \in SUBSET (1..n) : s # {} =>
            step[Max(s)][it[s \ {Max(s)}]] = Do(it[s \ {Max(s)}], order[Max(s)])
    <3>1. \A s \in SUBSET (1..n) : s # {} => it[s \ {Max(s)}] \in W
      BY <2>2, LastOf DEF IsFold
    <3> HIDE DEF W, Do
    <3> QED
      BY <3>1, LastOf
  <2> HIDE DEF step, Do
  <2>4. it = [s \in SUBSET DOMAIN order |->
                IF s = {} THEN w ELSE Do(it[s \ {Max(s)}], order[Max(s)])]
    BY <1>1, <2>2, <2>3 DEF IsFold
  <2> QED
    BY <2>4
<1>6. Is(loop)
  <2> HIDE DEF Is
  <2> QED
    BY <1>5
<1> HIDE DEF loop, Do
<1>7. loop[{}] = w
  BY <1>1, <1>6
<1>8. \A i \in 1..n : loop[1..i] = Do(loop[1..(i - 1)], order[i])
  <2> SUFFICES ASSUME NEW i \in 1..n
               PROVE  loop[1..i] = Do(loop[1..(i - 1)], order[i])
    OBVIOUS
  <2>1. /\ 1..i \in SUBSET DOMAIN order /\ 1..i # {}
        /\ Max(1..i) = i /\ (1..i) \ {i} = 1..(i - 1)
    BY <1>1, LastOf
  <2>2. loop[1..i] = Do(loop[(1..i) \ {Max(1..i)}], order[Max(1..i)])
    BY <1>6, <2>1
  <2> QED
    BY <2>1, <2>2
<1> HIDE DEF W, Is
<1>9. loop[1..n] \in W
  <2>1. loop[{}] \in W
    BY <1>3, <1>7
  <2>2. \A i \in 1..n : loop[1..(i - 1)] \in W => loop[1..i] \in W
    BY <1>4, <1>8
  <2> QED
    BY <2>1, <2>2, FoldStays
<1>10. Fit(FoldLeft(Do, w, order), S)
  BY <1>1, <1>2, <1>9 DEF W
<1> QED
  BY <1>10 DEF Do, order, Collected

\* Giving up numbers of the chunks.
LEMMA FewerChunksFit ==
    ASSUME NEW S, NEW w, Fit(w, S), NEW gone
    PROVE  Fit([w EXCEPT !.sync.headers = Restrict(@, DOMAIN @ \ gone),
                         !.sync.bodies = Restrict(@, DOMAIN @ \ gone)], S)
<1> DEFINE s == w.sync
           h == Restrict(s.headers, DOMAIN s.headers \ gone)
           c == Restrict(s.bodies, DOMAIN s.bodies \ gone)
           t == [s EXCEPT !.headers = h, !.bodies = c]
<1>1. s \in SyncType /\ w \in World
  BY DEF Fit, World
<1>2. s.headers \in Chunks(Block) /\ s.bodies \in Chunks(Bodies)
      /\ \A n \in DOMAIN s.headers : Number[s.headers[n]] = n
  BY <1>1, SyncFields
<1>3. /\ h \in Chunks(Block) /\ c \in Chunks(Bodies)
      /\ \A n \in DOMAIN h : Number[h[n]] = n
  BY <1>2, RestrictChunks
<1>4. [w EXCEPT !.sync.headers = Restrict(@, DOMAIN @ \ gone),
                !.sync.bodies = Restrict(@, DOMAIN @ \ gone)] = [w EXCEPT !.sync = t]
  BY <1>1 DEF World, SyncType
<1> HIDE DEF h, c
<1>5. /\ t \in SyncType
      /\ t.downloadingHeaders = s.downloadingHeaders
      /\ t.downloadingBodies = s.downloadingBodies
      /\ t.headerSyncPeers = s.headerSyncPeers
      /\ t.bodySyncPeers = s.bodySyncPeers
      /\ t.haveCommonHeader = s.haveCommonHeader
      /\ t.lastImportedBlock = s.lastImportedBlock
      /\ t.lastImportedBlockHash = s.lastImportedBlockHash
  BY <1>1, <1>3 DEF SyncType
<1> HIDE DEF t
<1>6. Owned(t, w.eth, S) /\ Continues(t, w.queue)
  BY <1>5, OwnedLess DEF Fit, Continues
<1> QED
  BY <1>4, <1>5, <1>6, FitSync

LEMMA CollectBlocksFit ==
    ASSUME ChainWhole, NEW S, NEW w, Fit(w, S)
    PROVE  Fit(CollectBlocks(w), S)
<1> DEFINE s == w.sync
           first == First(s.headers)
           last == Min({RunEnd(s.headers, first), RunEnd(s.bodies, first)})
           done == Collected(w, s.headers, s.bodies, first, last - first + 1)
           rest == [done EXCEPT !.sync.headers = Restrict(@, DOMAIN @ \ (first..last)),
                                !.sync.bodies = Restrict(@, DOMAIN @ \ (first..last))]
           Stop == \/ ~s.haveCommonHeader \/ s.headers = <<>> \/ s.bodies = <<>>
                   \/ first # s.lastImportedBlock + 1 \/ First(s.bodies) # first
<1>1. s \in SyncType /\ s.headers \in Chunks(Block) /\ s.bodies \in Chunks(Bodies)
  <2>1. s \in SyncType
    BY DEF Fit, World
  <2> QED
    BY <2>1, SyncFields
<1>2. CollectBlocks(w) =
        IF Stop THEN w
        ELSE IF done.over THEN [done EXCEPT !.over = FALSE]
        ELSE IF UnknownFull(done.queue) THEN RestartSync(done)
        ELSE IF rest.sync.headers = <<>> THEN CompleteSync(rest)
        ELSE rest
  BY DEF CollectBlocks, Collected
<1>3. CASE ~Stop
  <2>1. first \in DOMAIN s.headers /\ first \in DOMAIN s.bodies /\ first \in Nat
    BY <1>1, <1>3, FirstIs DEF Positive
  <2>2. /\ RunEnd(s.headers, first) \in Nat /\ first <= RunEnd(s.headers, first)
        /\ RunEnd(s.bodies, first) \in Nat /\ first <= RunEnd(s.bodies, first)
        /\ first..RunEnd(s.headers, first) \subseteq DOMAIN s.headers
    <3> HIDE DEF first, s
    <3> QED
      BY <1>1, <2>1, RunEndIs DEF Positive
  <2>3. /\ last \in Nat /\ first <= last /\ last <= RunEnd(s.headers, first)
    <3> DEFINE ends == {RunEnd(s.headers, first), RunEnd(s.bodies, first)}
    <3>1. ends \in SUBSET Nat /\ ends # {}
      BY <2>2
    <3> HIDE DEF first, s
    <3>2. Min(ends) \in ends /\ \A m \in ends : Min(ends) <= m
      BY <3>1, LeastExists
    <3> QED
      BY <2>2, <3>2
  <2> HIDE DEF last, first
  <2>4. last - first + 1 \in Nat
    BY <2>1, <2>3
  <2>5. \A i \in 1..(last - first + 1) : s.headers[first + i - 1] \in Block
    <3> SUFFICES ASSUME NEW i \in 1..(last - first + 1)
                 PROVE  s.headers[first + i - 1] \in Block
      OBVIOUS
    <3>1. first + i - 1 \in DOMAIN s.headers
      BY <2>1, <2>2, <2>3
    <3>2. s.headers \in [DOMAIN s.headers -> Block]
      BY <1>1, ChunksAre
    <3> QED
      BY <3>1, <3>2
  <2>6. Fit(done, S)
    <3> HIDE DEF s
    <3> QED
      BY <2>1, <2>4, <2>5, CollectLoopFit
  <2> HIDE DEF done
  <2>7. Fit([done EXCEPT !.over = FALSE], S)
    BY <2>6, FitOver
  <2>8. Fit(RestartSync(done), S)
    BY <2>6, RestartFit DEF Fit
  <2>9. Fit(rest, S)
    BY <2>6, FewerChunksFit
  <2> HIDE DEF rest
  <2>10. Fit(CompleteSync(rest), S)
    BY <2>9, CompleteFit
  <2> HIDE DEF Stop
  <2> QED
    BY <1>2, <1>3, <2>7, <2>8, <2>9, <2>10
<1> HIDE DEF Stop, rest, done
<1>4. CASE Stop
  BY <1>2, <1>4
<1> QED
  BY <1>3, <1>4

-----------------------------------------------------------------------------
(***************************************************************************)
(* The answers                                                             *)
(***************************************************************************)

\* m_headerIdToNumber.
Ids == UNION {[d -> Positive] : d \in SUBSET Bodies}

LEMMA IdsAre ==
    ASSUME NEW f
    PROVE  f \in Ids <=> f \in [DOMAIN f -> Positive] /\ DOMAIN f \in SUBSET Bodies
BY DEF Ids

LEMMA RestrictIds ==
    ASSUME NEW f \in Ids, NEW d \in SUBSET DOMAIN f
    PROVE  Restrict(f, d) \in Ids
<1>1. f \in [DOMAIN f -> Positive] /\ DOMAIN f \in SUBSET Bodies
  BY IdsAre
<1>2. Restrict(f, d) = [n \in d |-> f[n]]
  BY DEF Restrict
<1>3. DOMAIN Restrict(f, d) = d /\ Restrict(f, d) \in [d -> Positive]
  BY <1>1, <1>2
<1> QED
  BY <1>1, <1>3, IdsAre

LEMMA PutIds ==
    ASSUME NEW f \in Ids, NEW c \in Bodies, NEW n \in Positive
    PROVE  Put(f, c, n) \in Ids
<1>1. f \in [DOMAIN f -> Positive] /\ DOMAIN f \in SUBSET Bodies
  BY IdsAre
<1>2. Put(f, c, n) = [m \in DOMAIN f \cup {c} |-> IF m = c THEN n ELSE f[m]]
  BY DEF Put
<1>3. /\ DOMAIN Put(f, c, n) = DOMAIN f \cup {c}
      /\ Put(f, c, n) \in [DOMAIN f \cup {c} -> Positive]
  BY <1>1, <1>2
<1> QED
  BY <1>1, <1>3, IdsAre

\* A sync that has the same downloads, or fewer, and continues from the same
\* block.
Keeps(s, t) ==
    /\ t.downloadingHeaders \subseteq s.downloadingHeaders
    /\ t.downloadingBodies \subseteq s.downloadingBodies
    /\ t.headerSyncPeers = s.headerSyncPeers
    /\ t.bodySyncPeers = s.bodySyncPeers
    /\ t.haveCommonHeader = s.haveCommonHeader
    /\ t.lastImportedBlock = s.lastImportedBlock
    /\ t.lastImportedBlockHash = s.lastImportedBlockHash

LEMMA FitKeeps ==
    ASSUME NEW S, NEW w, Fit(w, S), NEW t \in SyncType, Keeps(w.sync, t)
    PROVE  Fit([w EXCEPT !.sync = t], S)
<1>1. Owned(t, w.eth, S) /\ Continues(t, w.queue)
  BY OwnedLess DEF Fit, Continues, Keeps
<1> QED
  BY <1>1, FitSync

LEMMA RemoveFromIs ==
    ASSUME NEW R, NEW f \in Chunks(R), NEW n
    PROVE  /\ RemoveFrom(f, n) \in Chunks(R)
           /\ DOMAIN RemoveFrom(f, n) \subseteq DOMAIN f
           /\ \A m \in DOMAIN RemoveFrom(f, n) : RemoveFrom(f, n)[m] = f[m]
BY RestrictChunks DEF RemoveFrom

LEMMA RemoveItemIs ==
    ASSUME NEW R, NEW f \in Chunks(R), NEW n
    PROVE  /\ RemoveItem(f, n) \in Chunks(R)
           /\ DOMAIN RemoveItem(f, n) \subseteq DOMAIN f
           /\ \A m \in DOMAIN RemoveItem(f, n) : RemoveItem(f, n)[m] = f[m]
BY RestrictChunks DEF RemoveItem

LEMMA DropFollowingIs ==
    ASSUME NEW s \in SyncType, NEW b
    PROVE  DropFollowing(s, b) \in SyncType /\ Keeps(s, DropFollowing(s, b))
<1> DEFINE n == Number[b] + 1
           run == n..RunEnd(s.headers, n)
           i == Restrict(s.headerIdToNumber, DOMAIN s.headerIdToNumber \ {Body[b]})
           h == RemoveFrom(s.headers, n)
           c == RemoveFrom(s.bodies, n)
           t == [s EXCEPT !.headerIdToNumber = i,
                          !.downloadingBodies = @ \ run, !.downloadingHeaders = @ \ run,
                          !.headers = h, !.bodies = c]
<1>1. /\ s.headers \in Chunks(Block) /\ s.bodies \in Chunks(Bodies)
      /\ s.headerIdToNumber \in Ids
      /\ \A m \in DOMAIN s.headers : Number[s.headers[m]] = m
  BY SyncFields DEF Ids
<1>2. /\ h \in Chunks(Block) /\ c \in Chunks(Bodies)
      /\ \A m \in DOMAIN h : Number[h[m]] = m
  <2> HIDE DEF n
  <2> QED
    BY <1>1, RemoveFromIs
<1>3. i \in Ids
  BY <1>1, RestrictIds
<1>4. DropFollowing(s, b) = s \/ DropFollowing(s, b) = t
  BY DEF DropFollowing
<1> HIDE DEF i, h, c, run, n
<1>5. t \in SyncType
  BY <1>2, <1>3 DEF SyncType, Ids
<1>6. Keeps(s, t)
  BY DEF SyncType, Keeps
<1>7. Keeps(s, s)
  BY DEF Keeps
<1> QED
  BY <1>4, <1>5, <1>6, <1>7

LEMMA PutHeader ==
    ASSUME NEW f \in Chunks(Block), NEW b \in Block, Number[b] \in Positive,
           \A m \in DOMAIN f : Number[f[m]] = m
    PROVE  /\ Put(f, Number[b], b) \in Chunks(Block)
           /\ \A m \in DOMAIN Put(f, Number[b], b) :
                 Number[Put(f, Number[b], b)[m]] = m
<1> SUFFICES ASSUME NEW n \in Positive, n = Number[b]
               PROVE  /\ Put(f, n, b) \in Chunks(Block)
                      /\ \A m \in DOMAIN Put(f, n, b) : Number[Put(f, n, b)[m]] = m
  OBVIOUS
<1>2. Put(f, n, b) \in Chunks(Block)
  BY PutChunks
<1>3. Put(f, n, b) = [m \in DOMAIN f \cup {n} |-> IF m = n THEN b ELSE f[m]]
  BY DEF Put
<1> QED
  BY <1>2, <1>3

\* The header becomes one of m_headers, its number known by its body.
LEMMA MergedIs ==
    ASSUME NEW s \in SyncType, NEW b \in Block
    PROVE  LET n == Number[b]
               merged == [s EXCEPT !.headers = Put(@, n, b)]
               full == [merged EXCEPT !.bodies = IF n \in DOMAIN @ THEN @
                                                 ELSE Put(@, n, Body[b])]
               open == [merged EXCEPT !.headerIdToNumber = Put(@, Body[b], n)]
           IN  full \in SyncType /\ open \in SyncType /\ Keeps(s, full) /\ Keeps(s, open)
<1> DEFINE n == Number[b]
           h == Put(s.headers, n, b)
           c == IF n \in DOMAIN s.bodies THEN s.bodies ELSE Put(s.bodies, n, Body[b])
           i == Put(s.headerIdToNumber, Body[b], n)
           merged == [s EXCEPT !.headers = Put(@, n, b)]
           full == [merged EXCEPT !.bodies = IF n \in DOMAIN @ THEN @
                                             ELSE Put(@, n, Body[b])]
           open == [merged EXCEPT !.headerIdToNumber = Put(@, Body[b], n)]
<1>1. /\ s.headers \in Chunks(Block) /\ s.bodies \in Chunks(Bodies)
      /\ s.headerIdToNumber \in Ids
      /\ \A m \in DOMAIN s.headers : Number[s.headers[m]] = m
  BY SyncFields DEF Ids
<1>2. n \in Positive /\ Number[b] = n /\ Body[b] \in Bodies
  BY Heights, HeaderAssumption DEF Positive, Bodies, Chain
<1> HIDE DEF n
<1>3. h \in Chunks(Block) /\ \A m \in DOMAIN h : Number[h[m]] = m
  BY <1>1, <1>2, PutHeader DEF n
<1>5. c \in Chunks(Bodies) /\ i \in Ids
  BY <1>1, <1>2, PutChunks, PutIds
<1>6. /\ merged = [s EXCEPT !.headers = h]
      /\ full = [s EXCEPT !.headers = h, !.bodies = c]
      /\ open = [s EXCEPT !.headers = h, !.headerIdToNumber = i]
  BY DEF SyncType
<1> HIDE DEF h, c, i, merged, full, open
<1>7. full \in SyncType /\ open \in SyncType
  BY <1>3, <1>5, <1>6 DEF SyncType, Ids
<1>8. Keeps(s, full) /\ Keeps(s, open)
  BY <1>6 DEF SyncType, Keeps
<1> QED
  BY <1>7, <1>8 DEF full, open, merged, n

LEMMA AddHeaderFit ==
    ASSUME ChainWhole, NEW S, NEW w, Fit(w, S), NEW b \in Chain
    PROVE  Fit(AddHeader(w, b), S)
<1> DEFINE s == w.sync
           n == Number[b]
           restart == [RestartSync(w) EXCEPT !.over = TRUE]
           common == [s EXCEPT !.haveCommonHeader = TRUE, !.lastImportedBlock = n,
                               !.lastImportedBlockHash = b]
           fits == IF s.haveCommonHeader THEN DropFollowing(s, b) ELSE s
           merged == [fits EXCEPT !.headers = Put(@, n, b)]
           full == [merged EXCEPT !.bodies = IF n \in DOMAIN @ THEN @
                                             ELSE Put(@, n, Body[b])]
           open == [merged EXCEPT !.headerIdToNumber = Put(@, Body[b], n)]
<1>1. w \in World /\ s \in SyncType /\ n \in Nat
  BY Heights DEF Fit, World
<1>2. \/ AddHeader(w, b) = w
      \/ AddHeader(w, b) = restart
      \/ AddHeader(w, b) = [w EXCEPT !.sync = common] /\ Held(w, b)
      \/ AddHeader(w, b) = [w EXCEPT !.sync = full] /\ ~Held(w, b)
      \/ AddHeader(w, b) = [w EXCEPT !.sync = open] /\ ~Held(w, b)
  <2> DEFINE Known == w.over \/ n \in DOMAIN s.headers
                          \/ (n <= s.lastImportedBlock /\ s.haveCommonHeader)
             empty == [merged EXCEPT !.bodies = IF n \in DOMAIN @ THEN @
                                                ELSE Put(@, n, EmptyBody)]
  <2>1. AddHeader(w, b) =
           CASE Known -> w
             [] OTHER ->
                IF Held(w, b)
                THEN IF n + 1 \in DOMAIN s.headers /\ First(s.headers) = n + 1
                        /\ Parent[s.headers[n + 1]] # b
                     THEN restart
                     ELSE [w EXCEPT !.sync = common]
                ELSE IF s.haveCommonHeader /\ Contradicts(s, b)
                THEN restart
                ELSE IF Body[b] = EmptyBody THEN [w EXCEPT !.sync = empty]
                ELSE [w EXCEPT !.sync = open]
    BY DEF AddHeader
  <2>2. Body[b] = EmptyBody => empty = full
    <3> HIDE DEF merged
    <3> QED
      OBVIOUS
  <2> HIDE DEF Known, restart, common, empty, full, open, s, n
  <2> QED
    BY <2>1, <2>2
<1>3. Fit(restart, S)
  <2>1. Fit(RestartSync(w), S)
    BY <1>1, RestartFit DEF Fit
  <2> QED
    BY <2>1, FitOver
<1>4. Held(w, b) => Fit([w EXCEPT !.sync = common], S)
  <2>1. /\ common \in SyncType /\ common.lastImportedBlock = n
        /\ common.lastImportedBlockHash = b
        /\ common.downloadingHeaders = s.downloadingHeaders
        /\ common.downloadingBodies = s.downloadingBodies
        /\ common.headerSyncPeers = s.headerSyncPeers
        /\ common.bodySyncPeers = s.bodySyncPeers
    BY <1>1 DEF SyncType
  <2> HIDE DEF common
  <2>2. Owned(common, w.eth, S)
    BY <2>1, OwnedLess DEF Fit
  <2>3. Held(w, b) => Continues(common, w.queue)
    BY <2>1 DEF Held, Has, Continues
  <2> QED
    BY <2>1, <2>2, <2>3, FitSync
<1>5. ~Held(w, b) => /\ Fit([w EXCEPT !.sync = full], S)
                     /\ Fit([w EXCEPT !.sync = open], S)
  <2> SUFFICES ASSUME ~Held(w, b)
               PROVE  Fit([w EXCEPT !.sync = full], S) /\ Fit([w EXCEPT !.sync = open], S)
    OBVIOUS
  <2>1. b \in Block
    BY DEF Held, ChainWhole, Chain
  <2>2. fits \in SyncType /\ Keeps(s, fits)
    BY <1>1, DropFollowingIs DEF Keeps
  <2> HIDE DEF fits
  <2>3. full \in SyncType /\ open \in SyncType /\ Keeps(fits, full) /\ Keeps(fits, open)
    BY <2>1, <2>2, MergedIs
  <2> HIDE DEF full, open
  <2>4. Keeps(s, full) /\ Keeps(s, open)
    BY <2>2, <2>3 DEF Keeps
  <2> QED
    BY <2>3, <2>4, FitKeeps
<1> HIDE DEF restart, common, full, open
<1> QED
  BY <1>2, <1>3, <1>4, <1>5

LEMMA HeadersFit ==
    ASSUME ChainWhole, NEW S, NEW w, Fit(w, S), NEW answer \in Seq(Chain)
    PROVE  Fit(FoldLeft(AddHeader, w, answer), S)
<1> DEFINE W == {v \in World : Fit(v, S)}
           n == Len(answer)
           step == [i \in 1..n |-> [v \in W |-> AddHeader(v, answer[i])]]
           Is(it) == it = [s \in SUBSET DOMAIN answer |->
                             IF s = {} THEN w
                             ELSE AddHeader(it[s \ {Max(s)}], answer[Max(s)])]
           loop == CHOOSE it : Is(it)
<1>1. n \in Nat /\ DOMAIN answer = 1..n /\ \A i \in 1..n : answer[i] \in Chain
  OBVIOUS
<1> HIDE DEF n
<1>2. FoldLeft(AddHeader, w, answer) = loop[DOMAIN answer]
  BY DEF FoldLeft, MapThenFoldSet
<1>3. w \in W
  BY DEF Fit
<1>4. \A i \in 1..n : \A v \in W : AddHeader(v, answer[i]) \in W
  <2> SUFFICES ASSUME NEW i \in 1..n, NEW v \in W
               PROVE  AddHeader(v, answer[i]) \in W
    OBVIOUS
  <2>1. Fit(AddHeader(v, answer[i]), S)
    BY <1>1, AddHeaderFit
  <2> QED
    BY <2>1 DEF Fit
<1>5. \E it : Is(it)
  <2>1. step \in [1..n -> [W -> W]]
    BY <1>4
  <2>2. PICK it : IsFold(it, W, w, n, step)
    <3> HIDE DEF step, W
    <3> QED
      BY <1>1, <1>3, <2>1, FoldExists
  <2>3. \A s \in SUBSET (1..n) : s # {} =>
            step[Max(s)][it[s \ {Max(s)}]] = AddHeader(it[s \ {Max(s)}], answer[Max(s)])
    <3>1. \A s \in SUBSET (1..n) : s # {} => it[s \ {Max(s)}] \in W
      BY <1>1, <2>2, LastOf DEF IsFold
    <3> HIDE DEF W
    <3> QED
      BY <1>1, <3>1, LastOf
  <2> HIDE DEF step
  <2>4. it = [s \in SUBSET DOMAIN answer |->
                IF s = {} THEN w ELSE AddHeader(it[s \ {Max(s)}], answer[Max(s)])]
    BY <1>1, <2>2, <2>3 DEF IsFold
  <2> QED
    BY <2>4
<1>6. Is(loop)
  <2> HIDE DEF Is
  <2> QED
    BY <1>5
<1> HIDE DEF loop
<1>7. loop[{}] = w
  BY <1>1, <1>6
<1>8. \A i \in 1..n : loop[1..i] = AddHeader(loop[1..(i - 1)], answer[i])
  <2> SUFFICES ASSUME NEW i \in 1..n
               PROVE  loop[1..i] = AddHeader(loop[1..(i - 1)], answer[i])
    OBVIOUS
  <2>1. /\ 1..i \in SUBSET DOMAIN answer /\ 1..i # {}
        /\ Max(1..i) = i /\ (1..i) \ {i} = 1..(i - 1)
    BY <1>1, LastOf
  <2>2. loop[1..i] = AddHeader(loop[(1..i) \ {Max(1..i)}], answer[Max(1..i)])
    BY <1>6, <2>1
  <2> QED
    BY <2>1, <2>2
<1> HIDE DEF W
<1>9. loop[1..n] \in W
  <2>1. loop[{}] \in W
    BY <1>3, <1>7
  <2>2. \A i \in 1..n : loop[1..(i - 1)] \in W => loop[1..i] \in W
    BY <1>4, <1>8
  <2> QED
    BY <1>1, <2>1, <2>2, FoldStays
<1> QED
  BY <1>1, <1>2, <1>9 DEF W

\* With the account of p closed, its answer is taken in.
LEMMA OnPeerBlockHeadersFit ==
    ASSUME ChainWhole, NEW S \in SUBSET Peer, NEW p \in Peer, NEW w0,
           Fit([w0 EXCEPT !.sync = ClearPeerDownload(@, p)], S),
           NEW answer \in Seq(Chain), NEW order \in Seq(S)
    PROVE  Fit(OnPeerBlockHeaders(w0, p, answer, order), S)
<1> DEFINE w == [w0 EXCEPT !.sync = ClearPeerDownload(@, p)]
           added == FoldLeft(AddHeader, w, answer)
           got == CollectBlocks(added)
<1>1. OnPeerBlockHeaders(w0, p, answer, order) =
        IF w.sync.state # "Blocks" THEN w
        ELSE IF added.over THEN [added EXCEPT !.over = FALSE]
        ELSE ContinueSync(got, order)
  BY DEF OnPeerBlockHeaders
<1> HIDE DEF w
<1>2. Fit(w, S)
  BY DEF w
<1>3. Fit(added, S)
  BY <1>2, HeadersFit
<1> HIDE DEF added
<1>4. Fit([added EXCEPT !.over = FALSE], S)
  BY <1>3, FitOver
<1>5. Fit(got, S)
  BY <1>3, CollectBlocksFit
<1> HIDE DEF got
<1>6. Fit(ContinueSync(got, order), S)
  BY <1>5, ContinueSyncFit
<1> QED
  BY <1>1, <1>2, <1>4, <1>6

LEMMA AddBodyFit ==
    ASSUME NEW S, NEW w, Fit(w, S), NEW body \in Bodies
    PROVE  Fit(AddBody(w, body), S)
<1> DEFINE s == w.sync
           n == s.headerIdToNumber[body]
           i == Restrict(s.headerIdToNumber, DOMAIN s.headerIdToNumber \ {body})
           c == Put(s.bodies, n, body)
           t == [s EXCEPT !.headerIdToNumber = i, !.bodies = c]
<1>1. w \in World /\ s \in SyncType
  BY DEF Fit, World
<1>2. s.bodies \in Chunks(Bodies) /\ s.headerIdToNumber \in Ids
  BY <1>1, SyncFields DEF Ids
<1>3. AddBody(w, body) = IF \/ body \notin DOMAIN s.headerIdToNumber
                            \/ n \notin DOMAIN s.headers \/ n \in DOMAIN s.bodies
                         THEN w ELSE [w EXCEPT !.sync = t]
  <2>1. [w EXCEPT !.sync.headerIdToNumber = Restrict(@, DOMAIN @ \ {body}),
                  !.sync.bodies = Put(@, n, body)] = [w EXCEPT !.sync = t]
    BY <1>1 DEF World, SyncType
  <2> HIDE DEF t
  <2> QED
    BY <2>1 DEF AddBody
<1>4. ASSUME body \in DOMAIN s.headerIdToNumber
      PROVE  Fit([w EXCEPT !.sync = t], S)
  <2>1. n \in Positive
    BY <1>2, <1>4, IdsAre
  <2>2. i \in Ids
    BY <1>2, RestrictIds
  <2> HIDE DEF n
  <2>3. c \in Chunks(Bodies)
    BY <1>2, <2>1, PutChunks
  <2> HIDE DEF i, c
  <2>4. t \in SyncType
    BY <1>1, <2>2, <2>3 DEF SyncType, Ids
  <2>5. Keeps(s, t)
    BY <1>1 DEF SyncType, Keeps
  <2> HIDE DEF t
  <2> QED
    BY <2>4, <2>5, FitKeeps
<1> HIDE DEF t
<1> QED
  BY <1>3, <1>4

LEMMA BodiesFit ==
    ASSUME NEW S, NEW w, Fit(w, S), NEW answer \in Seq(Bodies)
    PROVE  Fit(FoldLeft(AddBody, w, answer), S)
<1> DEFINE W == {v \in World : Fit(v, S)}
           n == Len(answer)
           step == [i \in 1..n |-> [v \in W |-> AddBody(v, answer[i])]]
           Is(it) == it = [s \in SUBSET DOMAIN answer |->
                             IF s = {} THEN w
                             ELSE AddBody(it[s \ {Max(s)}], answer[Max(s)])]
           loop == CHOOSE it : Is(it)
<1>1. n \in Nat /\ DOMAIN answer = 1..n /\ \A i \in 1..n : answer[i] \in Bodies
  OBVIOUS
<1> HIDE DEF n
<1>2. FoldLeft(AddBody, w, answer) = loop[DOMAIN answer]
  BY DEF FoldLeft, MapThenFoldSet
<1>3. w \in W
  BY DEF Fit
<1>4. \A i \in 1..n : \A v \in W : AddBody(v, answer[i]) \in W
  <2> SUFFICES ASSUME NEW i \in 1..n, NEW v \in W
               PROVE  AddBody(v, answer[i]) \in W
    OBVIOUS
  <2>1. Fit(AddBody(v, answer[i]), S)
    BY <1>1, AddBodyFit
  <2> QED
    BY <2>1 DEF Fit
<1>5. \E it : Is(it)
  <2>1. step \in [1..n -> [W -> W]]
    BY <1>4
  <2>2. PICK it : IsFold(it, W, w, n, step)
    <3> HIDE DEF step, W
    <3> QED
      BY <1>1, <1>3, <2>1, FoldExists
  <2>3. \A s \in SUBSET (1..n) : s # {} =>
            step[Max(s)][it[s \ {Max(s)}]] = AddBody(it[s \ {Max(s)}], answer[Max(s)])
    <3>1. \A s \in SUBSET (1..n) : s # {} => it[s \ {Max(s)}] \in W
      BY <1>1, <2>2, LastOf DEF IsFold
    <3> HIDE DEF W
    <3> QED
      BY <1>1, <3>1, LastOf
  <2> HIDE DEF step
  <2>4. it = [s \in SUBSET DOMAIN answer |->
                IF s = {} THEN w ELSE AddBody(it[s \ {Max(s)}], answer[Max(s)])]
    BY <1>1, <2>2, <2>3 DEF IsFold
  <2> QED
    BY <2>4
<1>6. Is(loop)
  <2> HIDE DEF Is
  <2> QED
    BY <1>5
<1> HIDE DEF loop
<1>7. loop[{}] = w
  BY <1>1, <1>6
<1>8. \A i \in 1..n : loop[1..i] = AddBody(loop[1..(i - 1)], answer[i])
  <2> SUFFICES ASSUME NEW i \in 1..n
               PROVE  loop[1..i] = AddBody(loop[1..(i - 1)], answer[i])
    OBVIOUS
  <2>1. /\ 1..i \in SUBSET DOMAIN answer /\ 1..i # {}
        /\ Max(1..i) = i /\ (1..i) \ {i} = 1..(i - 1)
    BY <1>1, LastOf
  <2>2. loop[1..i] = AddBody(loop[(1..i) \ {Max(1..i)}], answer[Max(1..i)])
    BY <1>6, <2>1
  <2> QED
    BY <2>1, <2>2
<1> HIDE DEF W
<1>9. loop[1..n] \in W
  <2>1. loop[{}] \in W
    BY <1>3, <1>7
  <2>2. \A i \in 1..n : loop[1..(i - 1)] \in W => loop[1..i] \in W
    BY <1>4, <1>8
  <2> QED
    BY <1>1, <2>1, <2>2, FoldStays
<1> QED
  BY <1>1, <1>2, <1>9 DEF W

LEMMA OnPeerBlockBodiesFit ==
    ASSUME ChainWhole, NEW S \in SUBSET Peer, NEW p \in Peer, NEW w0,
           Fit([w0 EXCEPT !.sync = ClearPeerDownload(@, p)], S),
           NEW answer \in Seq(Bodies), NEW order \in Seq(S)
    PROVE  Fit(OnPeerBlockBodies(w0, p, answer, order), S)
<1> DEFINE w == [w0 EXCEPT !.sync = ClearPeerDownload(@, p)]
           added == FoldLeft(AddBody, w, answer)
           got == CollectBlocks(added)
<1>1. OnPeerBlockBodies(w0, p, answer, order) =
        IF w.sync.state # "Blocks" THEN w ELSE ContinueSync(got, order)
  BY DEF OnPeerBlockBodies
<1> HIDE DEF w
<1>2. Fit(w, S)
  BY DEF w
<1>3. Fit(added, S)
  BY <1>2, BodiesFit
<1> HIDE DEF added
<1>5. Fit(got, S)
  BY <1>3, CollectBlocksFit
<1> HIDE DEF got
<1>6. Fit(ContinueSync(got, order), S)
  BY <1>5, ContinueSyncFit
<1> QED
  BY <1>1, <1>2, <1>6

-----------------------------------------------------------------------------
(***************************************************************************)
(* The announcements                                                       *)
(***************************************************************************)

LEMMA MaxOfTwo ==
    ASSUME NEW m \in Nat, NEW n \in Nat
    PROVE  Max({m, n}) = IF n > m THEN n ELSE m
<1>1. {m, n} \in SUBSET Nat /\ {m, n} # {} /\ IsFiniteSet({m, n})
  <2>1. IsFiniteSet({n}) /\ {m, n} = {n} \cup {m}
    BY FS_Singleton
  <2>2. IsFiniteSet({n} \cup {m})
    BY <2>1, FS_AddElement
  <2> QED
    BY <2>1, <2>2
<1>2. Max({m, n}) \in {m, n} /\ \A k \in {m, n} : Max({m, n}) >= k
  BY <1>1, GreatestExists
<1> QED
  BY <1>2

\* What the sync knows of a peer, its requests apart.
LEMMA HeardFit ==
    ASSUME NEW S \in SUBSET Peer, NEW p \in Peer, NEW w, Fit(w, S), NEW b \in Chain
    PROVE  Fit([w EXCEPT !.eth[p].latestHash = b], S)
<1> DEFINE e == [w.eth[p] EXCEPT !.latestHash = b]
           v == [w EXCEPT !.eth[p].latestHash = b]
<1>1. w \in World /\ w.eth \in [Peer -> PeerType] /\ w.eth[p] \in PeerType
  BY DEF Fit, World
<1>2. e \in PeerType /\ e.asking = w.eth[p].asking
  <2>1. /\ e \in [statusReceived : BOOLEAN, totalDifficulty : Nat,
                  latestHash : Chain \cup {NoBlock},
                  asking : {"Nothing", "BlockHeaders", "BlockBodies"}, asked : Requests]
        /\ e.asking = w.eth[p].asking /\ e.asked = w.eth[p].asked
        /\ e.latestHash = b
    BY <1>1 DEF PeerType
  <2> HIDE DEF e
  <2> QED
    BY <1>1, <2>1 DEF PeerType
<1>3. v = [w EXCEPT !.eth[p] = e]
  BY <1>1 DEF World
<1> HIDE DEF e, v
<1>4. /\ v \in World /\ v.sync = w.sync /\ v.queue = w.queue
      /\ \A q \in Peer : v.eth[q].asking = w.eth[q].asking
  BY <1>1, <1>2, <1>3 DEF World
<1>5. Owned(v.sync, v.eth, S)
  BY <1>4 DEF Fit, Owned
<1> QED
  BY <1>4, <1>5 DEF Fit, v

LEMMA ForgetFit ==
    ASSUME NEW S, NEW w, Fit(w, S), NEW b \in Block, b \in Range(w.queue.ready)
    PROVE  Fit([w EXCEPT !.sync = Forget(@, b)], S)
<1> DEFINE s == w.sync
           n == Number[b]
           l == s.lastImportedBlock
           m == Max({l, n})
           x == IF n > l THEN b ELSE s.lastImportedBlockHash
           h == RemoveItem(s.headers, n)
           c == RemoveItem(s.bodies, n)
           t == [s EXCEPT !.lastImportedBlock = m, !.lastImportedBlockHash = x,
                          !.downloadingBodies = @ \ {n}, !.downloadingHeaders = @ \ {n},
                          !.headers = h, !.bodies = c]
<1>1. w \in World /\ s \in SyncType /\ n \in Nat /\ b \in Chain
  BY Heights DEF Fit, World
<1>2. /\ s.headers \in Chunks(Block) /\ s.bodies \in Chunks(Bodies) /\ l \in Nat
      /\ s.lastImportedBlockHash \in Chain \cup {NoBlock}
      /\ \A k \in DOMAIN s.headers : Number[s.headers[k]] = k
  BY <1>1, SyncFields
<1>3. Forget(s, b) = t
  BY DEF Forget
<1>4. m = IF n > l THEN n ELSE l
  BY <1>1, <1>2, MaxOfTwo
<1>5. /\ h \in Chunks(Block) /\ c \in Chunks(Bodies)
      /\ \A k \in DOMAIN h : Number[h[k]] = k
  <2> HIDE DEF n
  <2> QED
    BY <1>2, RemoveItemIs
<1> HIDE DEF h, c, m
<1>6. /\ t \in SyncType
      /\ t.downloadingHeaders \subseteq s.downloadingHeaders
      /\ t.downloadingBodies \subseteq s.downloadingBodies
      /\ t.headerSyncPeers = s.headerSyncPeers
      /\ t.bodySyncPeers = s.bodySyncPeers
      /\ t.haveCommonHeader = s.haveCommonHeader
      /\ t.lastImportedBlock = m
      /\ t.lastImportedBlockHash = x
  <2>1. m \in Nat /\ x \in Chain \cup {NoBlock}
    BY <1>1, <1>2, <1>4
  <2> HIDE DEF x, n
  <2> QED
    BY <1>1, <1>5, <2>1 DEF SyncType
<1> HIDE DEF t
<1>7. Owned(t, w.eth, S)
  BY <1>6, OwnedLess DEF Fit
<1>8. Continues(t, w.queue)
  <2>1. CASE n > l
    BY <1>4, <1>6, <2>1 DEF Continues, Has
  <2>2. CASE ~(n > l)
    BY <1>4, <1>6, <2>2 DEF Fit, Continues
  <2> QED
    BY <2>1, <2>2
<1> QED
  BY <1>3, <1>6, <1>7, <1>8, FitSync

LEMMA OnPeerNewBlockFit ==
    ASSUME ChainWhole, NEW S \in SUBSET Peer, NEW p \in S, NEW w, Fit(w, S),
           NEW b \in Block
    PROVE  Fit(OnPeerNewBlock(w, p, b), S)
<1> DEFINE r == Import(w, b, Body[b])
           known == [r EXCEPT !.sync = Forget(@, b)]
           heard == [w EXCEPT !.eth[p].latestHash = b]
           Far == Number[b] > w.sync.lastImportedBlock + 1
<1>1. /\ Fit(r, S)
      /\ r.result = "Success" => b \in Range(r.queue.ready)
  BY ImportFit
<1>2. Fit(heard, S)
  BY HeardFit DEF Chain
<1>3. OnPeerNewBlock(w, p, b) =
        CASE Far -> SyncPeer(heard, p, TRUE)
          [] ~Far /\ r.result = "Success" ->
                IF known.sync.headers = <<>> THEN CompleteSync(known) ELSE known
          [] ~Far /\ r.result = "UnknownParent" ->
                IF Number[b] > w.eth[p].totalDifficulty THEN SyncPeer(r, p, TRUE)
                ELSE r
          [] OTHER -> w
  <2>1. Number[b] \in Nat /\ w.sync.lastImportedBlock \in Nat
    BY Heights, SyncFields DEF Fit, World
  <2>2. Number[b] <= w.sync.lastImportedBlock + 1 <=> ~Far
    BY <2>1
  <2> HIDE DEF r, known, heard, Far
  <2> QED
    BY <2>2 DEF OnPeerNewBlock, r, known, heard, Far
<1> HIDE DEF r, heard, Far
<1>4. r.result = "Success" => Fit(known, S)
  BY <1>1, ForgetFit
<1> HIDE DEF known
<1>5. r.result = "Success" => Fit(CompleteSync(known), S)
  BY <1>4, CompleteFit
<1>6. Fit(SyncPeer(r, p, TRUE), S) /\ Fit(SyncPeer(heard, p, TRUE), S)
  BY <1>1, <1>2, SyncPeerFit
<1> QED
  BY <1>1, <1>3, <1>4, <1>5, <1>6

LEMMA OnPeerNewHashesFit ==
    ASSUME ChainWhole, NEW S \in SUBSET Peer, NEW p \in S, NEW w, Fit(w, S),
           NEW b \in Block
    PROVE  Fit(OnPeerNewHashes(w, p, b), S)
<1> DEFINE heard == [w EXCEPT !.eth[p].latestHash = b]
<1>1. Fit(heard, S)
  BY HeardFit DEF Chain
<1>2. OnPeerNewHashes(w, p, b) = w \/ OnPeerNewHashes(w, p, b) = SyncPeer(heard, p, TRUE)
  BY DEF OnPeerNewHashes
<1> HIDE DEF heard
<1>3. Fit(SyncPeer(heard, p, TRUE), S)
  BY <1>1, SyncPeerFit
<1> QED
  BY <1>2, <1>3

-----------------------------------------------------------------------------
(***************************************************************************)
(* The actions of the peers                                                *)
(***************************************************************************)

\* A handler that leaves a fit world leaves a fit state.
LEMMA BecomeFit ==
    ASSUME NEW S, NEW v, Fit(v, S), Become(v), chain' = chain, batch' = batch,
           session' = S
    PROVE  Fit(Now, session)'
<1>1. /\ Now'.sync = v.sync /\ Now'.eth = v.eth /\ Now'.queue = v.queue
      /\ Now' \in World
  BY DEF Fit, World, Become, Now, Results
<1> HIDE DEF Now
<1> QED
  BY <1>1 DEF Fit, Owned, Continues, Has, ParentsAhead

LEMMA OthersKeep ==
    ASSUME HeaderInv, chain' = chain, head' = head, batch' = batch,
           imported' = imported
    PROVE  ChainWhole' /\ BatchFollows'
BY DEF HeaderInv, ChainWhole, BatchFollows

LEMMA NowIs ==
    ASSUME HeaderInv
    PROVE  /\ Fit(Now, session) /\ ChainWhole /\ session \in SUBSET Peer
           /\ Now \in World /\ Now.sync = sync /\ Now.eth = eth /\ Now.queue = queue
           /\ sync \in SyncType /\ eth \in [Peer -> PeerType] /\ queue \in QueueType
<1>1. Now.sync = sync /\ Now.eth = eth /\ Now.queue = queue
  BY DEF Now
<1> QED
  BY <1>1 DEF HeaderInv, Fit, World, SessionsOpen

\* A world whose record of p changes, when p owns nothing.
LEMMA PeerFit ==
    ASSUME NEW S \in SUBSET Peer, NEW w, Fit(w, S), NEW p \in Peer, p \notin S, NEW e \in PeerType
    PROVE  Fit([w EXCEPT !.eth[p] = e], S)
<1> DEFINE v == [w EXCEPT !.eth[p] = e]
<1>1. /\ v \in World /\ v.sync = w.sync /\ v.queue = w.queue
      /\ \A q \in Peer \ {p} : v.eth[q] = w.eth[q]
  BY DEF Fit, World
<1> HIDE DEF v
<1>2. Owned(v.sync, v.eth, S)
  BY <1>1 DEF Fit, Owned
<1>3. Fit(v, S)
  BY <1>1, <1>2 DEF Fit
<1> QED
  BY <1>3 DEF v

LEMMA OrderOf ==
    ASSUME NEW S \in SUBSET Peer, NEW order \in SetToSeqs(S)
    PROVE  order \in Seq(S)
<1>1. IsFiniteSet(S)
  BY HeaderAssumption, FS_Subset
<1> QED
  BY <1>1, SetToSeqsList DEF Lists

LEMMA ConnectFit ==
    ASSUME HeaderInv, NEW p \in Peer, Connect(p)
    PROVE  HeaderInv'
<1> DEFINE e == [eth[p] EXCEPT !.statusReceived = TRUE,
                               !.totalDifficulty = Number[remote[p]],
                               !.latestHash = remote[p]]
           w == [Now EXCEPT !.eth[p] = e]
           S == session \cup {p}
<1>1. /\ Fit(Now, session) /\ ChainWhole /\ session \in SUBSET Peer
      /\ eth \in [Peer -> PeerType]
  BY NowIs
<1>2. e \in PeerType
  <2>1. eth[p] \in PeerType /\ remote[p] \in Chain /\ Number[remote[p]] \in Nat
    BY <1>1, Heights DEF HeaderInv, SessionsOpen
  <2>2. /\ e \in [statusReceived : BOOLEAN, totalDifficulty : Nat,
                  latestHash : Chain \cup {NoBlock},
                  asking : {"Nothing", "BlockHeaders", "BlockBodies"}, asked : Requests]
        /\ e.asking = eth[p].asking /\ e.asked = eth[p].asked
        /\ e.latestHash \in Chain
    BY <2>1 DEF PeerType
  <2> HIDE DEF e
  <2> QED
    BY <2>1, <2>2 DEF PeerType
<1>3. Become(SyncPeer(w, p, FALSE)) /\ session' = S /\ p \notin session
      /\ live' = live \cup {p} /\ UNCHANGED <<worker, remote, budget>>
  <2>1. w = [Now EXCEPT !.eth[p] = [@ EXCEPT !.statusReceived = TRUE,
                                    !.totalDifficulty = Number[remote[p]],
                                    !.latestHash = remote[p]]]
    BY NowIs
  <2> HIDE DEF w
  <2> QED
    BY <2>1 DEF Connect
<1> HIDE DEF e
<1>4. Fit(w, session)
  BY <1>1, <1>2, <1>3, PeerFit
<1> HIDE DEF w
<1>5. Fit(w, S) /\ S \in SUBSET Peer /\ p \in S
  BY <1>1, <1>4, FitMore
<1> HIDE DEF S
<1>6. Fit(SyncPeer(w, p, FALSE), S)
  BY <1>1, <1>5, SyncPeerFit
<1>7. Fit(Now, session)'
  BY <1>3, <1>6, BecomeFit DEF worker
<1>8. ChainWhole' /\ BatchFollows'
  BY <1>3, OthersKeep DEF worker
<1>9. SessionsOpen'
  BY <1>3, <1>5 DEF S, HeaderInv, SessionsOpen
<1> QED
  BY <1>7, <1>8, <1>9 DEF HeaderInv

LEMMA AnnounceKeeps ==
    ASSUME HeaderInv, NEW p \in Peer, NEW b \in Block, Announce(p, b)
    PROVE  /\ p \in session /\ session' = session
           /\ chain' = chain /\ batch' = batch
           /\ ChainWhole' /\ BatchFollows' /\ SessionsOpen'
<1>1. /\ p \in live /\ UNCHANGED <<worker, session, live>>
      /\ remote' = [remote EXCEPT ![p] = b]
  BY DEF Announce
<1>2. ChainWhole' /\ BatchFollows'
  BY <1>1, OthersKeep DEF worker
<1>3. SessionsOpen'
  BY <1>1 DEF HeaderInv, SessionsOpen, Chain
<1> QED
  BY <1>1, <1>2, <1>3 DEF HeaderInv, SessionsOpen, worker

LEMMA NewBlockFit ==
    ASSUME HeaderInv, NEW p \in Peer, NEW b \in Block, NewBlock(p, b)
    PROVE  HeaderInv'
<1>1. Announce(p, b) /\ Become(OnPeerNewBlock(Now, p, b))
  BY DEF NewBlock
<1>2. /\ p \in session /\ session' = session /\ chain' = chain /\ batch' = batch
      /\ ChainWhole' /\ BatchFollows' /\ SessionsOpen'
  BY <1>1, AnnounceKeeps
<1>3. Fit(OnPeerNewBlock(Now, p, b), session)
  BY <1>2, NowIs, OnPeerNewBlockFit
<1>4. Fit(Now, session)'
  BY <1>1, <1>2, <1>3, BecomeFit
<1> QED
  BY <1>2, <1>4 DEF HeaderInv

LEMMA NewBlockHashesFit ==
    ASSUME HeaderInv, NEW p \in Peer, NEW b \in Block, NewBlockHashes(p, b)
    PROVE  HeaderInv'
<1>1. Announce(p, b) /\ Become(OnPeerNewHashes(Now, p, b))
  BY DEF NewBlockHashes
<1>2. /\ p \in session /\ session' = session /\ chain' = chain /\ batch' = batch
      /\ ChainWhole' /\ BatchFollows' /\ SessionsOpen'
  BY <1>1, AnnounceKeeps
<1>3. Fit(OnPeerNewHashes(Now, p, b), session)
  BY <1>2, NowIs, OnPeerNewHashesFit
<1>4. Fit(Now, session)'
  BY <1>1, <1>2, <1>3, BecomeFit
<1> QED
  BY <1>2, <1>4 DEF HeaderInv

LEMMA DropFit ==
    ASSUME HeaderInv, NEW p \in Peer, Drop(p)
    PROVE  HeaderInv'
<1>1. /\ live' = live \ {p}
      /\ UNCHANGED <<sync, eth, queue, worker, session, remote>>
  BY DEF Drop
<1>2. ChainWhole' /\ BatchFollows'
  BY <1>1, OthersKeep DEF worker
<1>3. Fit(Now, session) /\ Become(Now)
  BY <1>1, NowIs DEF Become
<1>4. Fit(Now, session)'
  BY <1>1, <1>3, BecomeFit DEF worker
<1>5. SessionsOpen'
  BY <1>1 DEF HeaderInv, SessionsOpen
<1> QED
  BY <1>2, <1>4, <1>5 DEF HeaderInv

\* A peer that answers owns nothing any more, once its account is closed.
LEMMA IdleFit ==
    ASSUME HeaderInv, NEW p \in session
    PROVE  Fit([Idle(p) EXCEPT !.sync = ClearPeerDownload(@, p)], session)
<1> DEFINE none == NoOne.asked
           e == [eth[p] EXCEPT !.asking = "Nothing", !.asked = none]
           w == [Now EXCEPT !.eth[p] = e]
<1>1. /\ Fit(Now, session) /\ session \in SUBSET Peer /\ p \in Peer
      /\ Now \in World /\ Now.sync = sync /\ Now.eth = eth /\ Now.queue = queue
      /\ eth \in [Peer -> PeerType] /\ eth[p] \in PeerType
  BY NowIs
<1>2. e \in PeerType
  <2>1. none \in Requests
    BY DEF NoOne, Requests
  <2> HIDE DEF none
  <2>2. /\ e \in [statusReceived : BOOLEAN, totalDifficulty : Nat,
                  latestHash : Chain \cup {NoBlock},
                  asking : {"Nothing", "BlockHeaders", "BlockBodies"}, asked : Requests]
        /\ e.asking = "Nothing"
        /\ e.statusReceived = eth[p].statusReceived
        /\ e.latestHash = eth[p].latestHash
    BY <1>1, <2>1 DEF PeerType
  <2> HIDE DEF e
  <2> QED
    BY <1>1, <2>2 DEF PeerType
<1>3. Idle(p) = w
  BY <1>1 DEF Idle
<1> HIDE DEF e
<1>4. /\ w \in World /\ w.sync = sync /\ w.queue = queue
      /\ \A q \in session \ {p} : w.eth[q].asking = eth[q].asking
  BY <1>1, <1>2 DEF World
<1> HIDE DEF w
<1>5. /\ Owned(w.sync, eth, session) /\ Continues(w.sync, w.queue)
      /\ ParentsAhead(w.queue) /\ w.queue.draining \subseteq batch \cup chain
  BY <1>1, <1>4 DEF Fit
<1>6. Fit([w EXCEPT !.sync = ClearPeerDownload(@, p)], session \ {p})
  BY <1>1, <1>4, <1>5, ClearFit
<1> QED
  BY <1>3, <1>6, FitMore

\* The peers answer with blocks of their branches.
LEMMA HeadersAre ==
    ASSUME NEW p \in Peer, remote[p] \in Chain,
           NEW asked \in [hash : Chain] \cup [from : Nat, count : Nat]
    PROVE  Headers(p, asked) \in Seq(Chain)
<1>1. CASE asked \in [hash : Chain]
  BY <1>1 DEF Headers
<1>2. CASE asked \in [from : Nat, count : Nat]
  <2> DEFINE can == {n \in 1..asked.count : asked.from + n - 1 <= Number[remote[p]]}
             count == Max({0} \cup can)
             answer == [i \in 1..count |-> OnBranch(remote[p], asked.from + i - 1)]
  <2>1. asked.from \in Nat /\ asked.count \in Nat /\ Number[remote[p]] \in Nat
    BY <1>2, Heights
  <2>2. can \in SUBSET Nat /\ IsFiniteSet(can)
    <3>1. IsFiniteSet(1..asked.count)
      BY <2>1, FS_Interval
    <3>2. can \subseteq 1..asked.count
      OBVIOUS
    <3> HIDE DEF can
    <3> QED
      BY <2>1, <3>1, <3>2, FS_Subset
  <2>3. count \in {0} \cup can
    <3> HIDE DEF can
    <3>1. {0} \cup can \in SUBSET Nat /\ {0} \cup can # {} /\ IsFiniteSet({0} \cup can)
      <4>1. IsFiniteSet(can \cup {0}) /\ can \cup {0} = {0} \cup can
        BY <2>2, FS_AddElement
      <4> QED
        BY <2>2, <4>1
    <3> QED
      BY <3>1, GreatestExists
  <2>4. count \in Nat /\ (count # 0 => asked.from + count - 1 <= Number[remote[p]])
    <3> HIDE DEF count
    <3> QED
      BY <2>2, <2>3
  <2>5. Headers(p, asked) = answer
    <3>1. "hash" \notin DOMAIN asked
      BY <1>2
    <3> QED
      BY <3>1 DEF Headers
  <2> HIDE DEF count, can
  <2>6. \A i \in 1..count : OnBranch(remote[p], asked.from + i - 1) \in Chain
    <3> SUFFICES ASSUME NEW i \in 1..count
                 PROVE  OnBranch(remote[p], asked.from + i - 1) \in Chain
      OBVIOUS
    <3>1. asked.from + i - 1 \in Nat /\ asked.from + i - 1 <= Number[remote[p]]
      BY <2>1, <2>4
    <3>2. OnBranch(remote[p], asked.from + i - 1) \in Branch[remote[p]]
      BY <3>1, OnBranchIs
    <3> QED
      BY <3>2, BranchHolds
  <2> QED
    BY <2>4, <2>5, <2>6
<1> QED
  BY <1>1, <1>2

LEMMA AnswerHeadersFit ==
    ASSUME HeaderInv, NEW p \in Peer, NEW part, AnswerHeaders(p, part)
    PROVE  HeaderInv'
<1>1. /\ p \in live /\ eth[p].asking = "BlockHeaders"
      /\ part \in 0..Len(Headers(p, eth[p].asked))
      /\ UNCHANGED <<worker, session, live, remote, budget>>
  BY DEF AnswerHeaders
<1>2. /\ p \in session /\ session \in SUBSET Peer /\ ChainWhole
      /\ eth[p] \in PeerType /\ remote[p] \in Chain
  BY <1>1, NowIs DEF HeaderInv, SessionsOpen
<1> DEFINE all == Headers(p, eth[p].asked)
           answer == SubSeq(all, 1, part)
<1>3. all \in Seq(Chain)
  <2>1. eth[p].asked \in [hash : Chain] \cup [from : Nat, count : Nat]
    BY <1>1, <1>2 DEF PeerType
  <2> QED
    BY <1>2, <2>1, HeadersAre
<1>4. PICK order \in SetToSeqs(session) :
        Become(OnPeerBlockHeaders(Idle(p), p, answer, order))
  BY DEF AnswerHeaders
<1>5. order \in Seq(session)
  BY <1>2, <1>4, OrderOf
<1>6. answer \in Seq(Chain)
  <2> HIDE DEF all
  <2> QED
    BY <1>1, <1>3, SubSeqProperties DEF all
<1> HIDE DEF answer
<1>7. Fit([Idle(p) EXCEPT !.sync = ClearPeerDownload(@, p)], session)
  BY <1>2, IdleFit
<1>8. Fit(OnPeerBlockHeaders(Idle(p), p, answer, order), session)
  BY <1>2, <1>5, <1>6, <1>7, OnPeerBlockHeadersFit
<1>9. Fit(Now, session)'
  BY <1>1, <1>4, <1>8, BecomeFit DEF worker
<1>10. ChainWhole' /\ BatchFollows'
  BY <1>1, OthersKeep DEF worker
<1>11. SessionsOpen'
  BY <1>1 DEF HeaderInv, SessionsOpen
<1> QED
  BY <1>9, <1>10, <1>11 DEF HeaderInv

LEMMA AnswerBodiesFit ==
    ASSUME HeaderInv, NEW p \in Peer, NEW part, AnswerBodies(p, part)
    PROVE  HeaderInv'
<1>1. /\ p \in live /\ eth[p].asking = "BlockBodies"
      /\ part \subseteq eth[p].asked.hashes
      /\ UNCHANGED <<worker, session, live, remote, budget>>
  BY DEF AnswerBodies
<1>2. /\ p \in session /\ session \in SUBSET Peer /\ ChainWhole
      /\ eth[p] \in PeerType
  BY <1>1, NowIs DEF HeaderInv, SessionsOpen
<1> DEFINE n == Cardinality(part)
           answer == [i \in 1..n |-> Body[ByNumber(part)[i]]]
<1>3. part \in SUBSET Block
  BY <1>1, <1>2 DEF PeerType
<1>4. PICK order \in SetToSeqs(session) :
        Become(OnPeerBlockBodies(Idle(p), p, answer, order))
  BY DEF AnswerBodies
<1>5. order \in Seq(session)
  BY <1>2, <1>4, OrderOf
<1>6. answer \in Seq(Bodies)
  <2>1. Lists(ByNumber(part), part)
    BY <1>3, ByNumberLists
  <2>2. n = Len(ByNumber(part))
    BY <2>1, ListsCardinality
  <2>3. n \in Nat /\ \A i \in 1..n : ByNumber(part)[i] \in part
    BY <2>1, <2>2, ListsElements
  <2> HIDE DEF n
  <2>4. \A i \in 1..n : Body[ByNumber(part)[i]] \in Bodies
    BY <1>3, <2>3 DEF Bodies, Chain
  <2> QED
    BY <2>3, <2>4
<1> HIDE DEF answer
<1>7. Fit([Idle(p) EXCEPT !.sync = ClearPeerDownload(@, p)], session)
  BY <1>2, IdleFit
<1>8. Fit(OnPeerBlockBodies(Idle(p), p, answer, order), session)
  BY <1>2, <1>5, <1>6, <1>7, OnPeerBlockBodiesFit
<1>9. Fit(Now, session)'
  BY <1>1, <1>4, <1>8, BecomeFit DEF worker
<1>10. ChainWhole' /\ BatchFollows'
  BY <1>1, OthersKeep DEF worker
<1>11. SessionsOpen'
  BY <1>1 DEF HeaderInv, SessionsOpen
<1> QED
  BY <1>9, <1>10, <1>11 DEF HeaderInv

\* With the accounts of those who are gone closed, the others own what is left.
LEMMA ClearGoneFit ==
    ASSUME NEW S \in SUBSET Peer, NEW w, Fit(w, S), NEW there \in SUBSET S
    PROVE  Fit([w EXCEPT !.sync = ClearGone(@, there)], there)
<1> DEFINE s == w.sync
           freedHeaders == UNION {s.headerSyncPeers[p] : p \in Peer \ there}
           freedBodies == UNION {s.bodySyncPeers[p] : p \in Peer \ there}
           leftHeaders == [p \in Peer |-> IF p \in there THEN s.headerSyncPeers[p] ELSE {}]
           leftBodies == [p \in Peer |-> IF p \in there THEN s.bodySyncPeers[p] ELSE {}]
           t == [s EXCEPT !.downloadingHeaders = @ \ freedHeaders,
                          !.headerSyncPeers = leftHeaders,
                          !.downloadingBodies = @ \ freedBodies,
                          !.bodySyncPeers = leftBodies]
<1>1. w \in World /\ s \in SyncType
  BY DEF Fit, World
<1>2. ClearGone(s, there) = t
  BY DEF ClearGone
<1>3. leftHeaders \in [Peer -> SUBSET Nat] /\ leftBodies \in [Peer -> SUBSET Nat]
  BY <1>1, SyncFields
<1>4. /\ \A p \in there : leftHeaders[p] = s.headerSyncPeers[p]
                          /\ leftBodies[p] = s.bodySyncPeers[p]
      /\ \A p \in S \ there : s.headerSyncPeers[p] \subseteq freedHeaders
                              /\ s.bodySyncPeers[p] \subseteq freedBodies
  OBVIOUS
<1> HIDE DEF freedHeaders, freedBodies, leftHeaders, leftBodies
<1>5. /\ t \in SyncType
      /\ t.downloadingHeaders = s.downloadingHeaders \ freedHeaders
      /\ t.downloadingBodies = s.downloadingBodies \ freedBodies
      /\ t.headerSyncPeers = leftHeaders /\ t.bodySyncPeers = leftBodies
      /\ t.haveCommonHeader = s.haveCommonHeader
      /\ t.lastImportedBlock = s.lastImportedBlock
      /\ t.lastImportedBlockHash = s.lastImportedBlockHash
  BY <1>1, <1>3 DEF SyncType
<1> HIDE DEF t
<1>6. Owned(t, w.eth, there)
  BY <1>4, <1>5 DEF Fit, Owned
<1>7. Continues(t, w.queue)
  BY <1>5 DEF Fit, Continues
<1> DEFINE v == [w EXCEPT !.sync = t]
<1>8. /\ v \in World /\ v.sync = t /\ v.eth = w.eth /\ v.queue = w.queue
      /\ [w EXCEPT !.sync = ClearGone(@, there)] = v
  BY <1>1, <1>2, <1>5 DEF World
<1> HIDE DEF v
<1>9. Fit(v, there)
  BY <1>6, <1>7, <1>8 DEF Fit
<1> QED
  BY <1>8, <1>9

LEMMA NoOneIs == NoOne \in PeerType
BY DEF NoOne, PeerType, Requests

LEMMA DisconnectFit ==
    ASSUME HeaderInv, NEW p \in Peer, Disconnect(p)
    PROVE  HeaderInv'
<1> DEFINE there == session \ {p}
           clear == [Now EXCEPT !.sync = ClearGone(@, there)]
<1>1. /\ Fit(Now, session) /\ session \in SUBSET Peer /\ ChainWhole
      /\ there \in SUBSET session /\ there \in SUBSET Peer /\ p \notin there
  BY NowIs
<1>2. /\ p \in session \ live /\ session' = there
      /\ UNCHANGED <<worker, live, remote, budget>>
  BY DEF Disconnect
<1>3. PICK order \in SetToSeqs(there) :
        Become([ContinueSync(clear, order) EXCEPT !.eth[p] = NoOne])
  BY DEF Disconnect
<1>4. Fit(clear, there)
  BY <1>1, ClearGoneFit
<1> HIDE DEF clear, there
<1>5. order \in Seq(there)
  BY <1>1, <1>3, OrderOf
<1>6. Fit(ContinueSync(clear, order), there)
  BY <1>1, <1>4, <1>5, ContinueSyncFit
<1>7. Fit([ContinueSync(clear, order) EXCEPT !.eth[p] = NoOne], there)
  BY <1>1, <1>6, PeerFit, NoOneIs
<1>8. Fit(Now, session)'
  BY <1>2, <1>3, <1>7, BecomeFit DEF worker
<1>9. ChainWhole' /\ BatchFollows'
  BY <1>2, OthersKeep DEF worker
<1>10. SessionsOpen'
  BY <1>2 DEF HeaderInv, SessionsOpen, there
<1> QED
  BY <1>8, <1>9, <1>10 DEF HeaderInv

-----------------------------------------------------------------------------
(***************************************************************************)
(* The actions of the client's worker and of the verifiers                 *)
(***************************************************************************)

LEMMA RoomAvailableFit ==
    ASSUME HeaderInv, RoomAvailable
    PROVE  HeaderInv'
<1> DEFINE t == [sync EXCEPT !.state = "Blocks"]
           w == [Now EXCEPT !.sync = t]
<1>1. /\ Fit(Now, session) /\ session \in SUBSET Peer /\ ChainWhole
      /\ Now \in World /\ Now.sync = sync /\ sync \in SyncType
  BY NowIs
<1>2. UNCHANGED <<chain, head, batch, imported, session, live, remote, budget>>
  BY DEF RoomAvailable
<1>3. Fit(w, session)
  <2>1. t \in SyncType
    BY <1>1 DEF SyncType
  <2>2. Keeps(sync, t)
    BY <1>1 DEF SyncType, Keeps
  <2> HIDE DEF t
  <2> QED
    BY <1>1, <2>1, <2>2, FitKeeps
<1>4. [Now EXCEPT !.sync.state = "Blocks"] = w
  BY <1>1 DEF World
<1> HIDE DEF w
<1>5. ASSUME NEW order \in SetToSeqs(session)
      PROVE  Fit(ContinueSync(w, order), session)
  <2>1. order \in Seq(session)
    BY <1>1, OrderOf
  <2> QED
    BY <1>1, <1>3, <2>1, ContinueSyncFit
<1>6. \/ Become(Now)
      \/ \E order \in SetToSeqs(session) : Become(ContinueSync(w, order))
  BY <1>4 DEF RoomAvailable
<1>7. Fit(Now, session)'
  <2>1. CASE Become(Now)
    BY <1>1, <1>2, <2>1, BecomeFit
  <2>2. CASE \E order \in SetToSeqs(session) : Become(ContinueSync(w, order))
    <3>1. PICK order \in SetToSeqs(session) : Become(ContinueSync(w, order))
      BY <2>2
    <3>2. Fit(ContinueSync(w, order), session)
      BY <1>5
    <3> QED
      BY <1>2, <3>1, <3>2, BecomeFit
  <2> QED
    BY <1>6, <2>1, <2>2
<1>8. ChainWhole' /\ BatchFollows'
  BY <1>2, OthersKeep
<1>9. SessionsOpen'
  BY <1>2 DEF HeaderInv, SessionsOpen
<1> QED
  BY <1>7, <1>8, <1>9 DEF HeaderInv

LEMMA NowFit ==
    ASSUME sync' \in SyncType, eth' \in [Peer -> PeerType], queue' \in QueueType,
           Owned(sync', eth', session'), Continues(sync, queue)', ParentsAhead(queue)',
           queue'.draining \subseteq batch' \cup chain'
    PROVE  Fit(Now, session)'
<1>1. /\ Now'.sync = sync' /\ Now'.eth = eth' /\ Now'.queue = queue'
      /\ Now' \in World
  BY DEF World, Now, Results
<1> HIDE DEF Now
<1> QED
  BY <1>1 DEF Fit, Owned, Continues, Has, ParentsAhead

LEMMA StateFit ==
    ASSUME HeaderInv
    PROVE  /\ Owned(sync, eth, session) /\ Continues(sync, queue)
           /\ ParentsAhead(queue) /\ queue.draining \subseteq batch \cup chain
           /\ ChainWhole /\ BatchFollows /\ SessionsOpen
<1>1. Now.sync = sync /\ Now.eth = eth /\ Now.queue = queue
  BY DEF Now
<1> HIDE DEF Now
<1> QED
  BY <1>1 DEF HeaderInv, Fit

LEMMA DrainFit ==
    ASSUME HeaderInv, Drain
    PROVE  HeaderInv'
<1> DEFINE b == Head(queue.ready)
           n == Len(queue.ready)
           tail == Tail(queue.ready)
<1>1. /\ batch = {} /\ queue.draining = {} /\ queue.ready # <<>>
      /\ batch' = {b}
      /\ queue' = [queue EXCEPT !.ready = tail, !.draining = {b}]
      /\ UNCHANGED <<sync, eth, chain, head, imported, session, live, remote, budget>>
  BY DEF Drain
<1>2. /\ sync \in SyncType /\ eth \in [Peer -> PeerType] /\ queue \in QueueType
  BY NowIs
<1>3. /\ queue.ready \in Seq(Block) /\ n \in Nat
      /\ Range(queue.ready) = {queue.ready[i] : i \in 1..n}
  BY <1>2, ReadyOf
<1>4. /\ n >= 1 /\ b \in Block /\ b = queue.ready[1]
      /\ tail \in Seq(Block) /\ Len(tail) = n - 1
      /\ \A i \in 1..(n - 1) : tail[i] = queue.ready[i + 1]
  BY <1>1, <1>3
<1> HIDE DEF b, n, tail
<1>5. /\ queue' \in QueueType /\ queue'.ready = tail /\ queue'.draining = {b}
      /\ queue'.knownBad = queue.knownBad
  BY <1>1, <1>2, <1>4 DEF QueueType
<1>6. Range(queue'.ready) = {tail[i] : i \in 1..(n - 1)}
  BY <1>4, <1>5, RangeOf
<1>7. \A c \in Range(queue.ready) : c = b \/ c \in Range(queue'.ready)
  <2> SUFFICES ASSUME NEW i \in 1..n, queue.ready[i] # b
               PROVE  queue.ready[i] \in {tail[j] : j \in 1..(n - 1)}
    BY <1>3, <1>6
  <2>1. i # 1 /\ i - 1 \in 1..(n - 1) /\ (i - 1) + 1 = i
    BY <1>3, <1>4
  <2>2. tail[i - 1] = queue.ready[i]
    BY <1>4, <2>1
  <2> QED
    BY <2>1, <2>2
<1>8. ParentsAhead(queue)'
  <2> SUFFICES ASSUME NEW i \in 1..(n - 1)
               PROVE  Parent[tail[i]] \in chain \cup {b} \cup {tail[j] : j \in 1..(i - 1)}
    BY <1>1, <1>4, <1>5 DEF ParentsAhead
  <2>1. i + 1 \in 1..n /\ tail[i] = queue.ready[i + 1] /\ (i + 1) - 1 = i
    BY <1>3, <1>4
  <2>2. Parent[queue.ready[i + 1]] \in chain \cup {queue.ready[j] : j \in 1..i}
    BY <1>1, <2>1, StateFit DEF ParentsAhead, n
  <2>3. ASSUME NEW j \in 1..i, j # 1
        PROVE  queue.ready[j] \in {tail[k] : k \in 1..(i - 1)}
    <3>1. j - 1 \in 1..(i - 1) /\ j - 1 \in 1..(n - 1) /\ (j - 1) + 1 = j
      BY <1>3, <2>3
    <3>2. tail[j - 1] = queue.ready[j]
      BY <1>4, <3>1
    <3> QED
      BY <3>1, <3>2
  <2>4. CASE Parent[queue.ready[i + 1]] \in chain
    BY <2>1, <2>4
  <2>5. CASE Parent[queue.ready[i + 1]] \notin chain
    <3>1. PICK j \in 1..i : queue.ready[j] = Parent[queue.ready[i + 1]]
      BY <2>2, <2>5
    <3>2. j = 1 => queue.ready[j] = b
      BY <1>4
    <3>3. j # 1 => queue.ready[j] \in {tail[k] : k \in 1..(i - 1)}
      BY <2>3
    <3> QED
      BY <2>1, <3>1, <3>2, <3>3
  <2> QED
    BY <2>4, <2>5
<1>9. Continues(sync, queue)'
  <2>1. Has(queue) \subseteq Has(queue)'
    BY <1>1, <1>5, <1>7 DEF Has
  <2> QED
    BY <1>1, <2>1, StateFit DEF Continues
<1>10. Owned(sync', eth', session')
  BY <1>1, StateFit
<1>11. Fit(Now, session)'
  BY <1>1, <1>2, <1>5, <1>8, <1>9, <1>10, NowFit
<1>12. ChainWhole' /\ SessionsOpen'
  BY <1>1, StateFit DEF ChainWhole, SessionsOpen
<1>13. BatchFollows'
  <2>1. 1 \in 1..n /\ 1..(1 - 1) = {}
    BY <1>3, <1>4
  <2>2. Parent[b] \in chain
    BY <1>1, <1>4, <2>1, StateFit DEF ParentsAhead, n
  <2> QED
    BY <1>1, <1>4, <2>2, StateFit DEF BatchFollows
<1> QED
  BY <1>11, <1>12, <1>13 DEF HeaderInv

LEMMA EnactFit ==
    ASSUME HeaderInv, Enact
    PROVE  HeaderInv'
<1>1. PICK b \in batch \ chain :
        /\ batch' = {} /\ chain' = chain \cup {b}
        /\ head' \in {c \in {b, head} : Number[c] >= Number[b] /\ Number[c] >= Number[head]}
        /\ imported' = {head'} \ {head}
        /\ UNCHANGED <<sync, eth, queue, wasFull, session, live, remote, budget>>
  BY DEF Enact
<1>2. /\ sync \in SyncType /\ eth \in [Peer -> PeerType] /\ queue \in QueueType
  BY NowIs
<1>3. /\ b \in Block /\ b \in Chain /\ Number[b] \in Nat /\ Parent[b] \in chain
      /\ batch = {b} /\ chain \in SUBSET Chain /\ head \in chain
      /\ Number[head] \in Nat /\ queue.draining \subseteq {b} \cup chain
  BY StateFit, Heights DEF BatchFollows, ChainWhole
<1>4. Continues(sync, queue)'
  <2>1. Has(queue) \subseteq Has(queue)'
    BY <1>1, <1>3 DEF Has
  <2> QED
    BY <1>1, <2>1, StateFit DEF Continues
<1>5. ParentsAhead(queue)'
  BY <1>1, <1>3, StateFit DEF ParentsAhead
<1>6. Owned(sync', eth', session') /\ queue'.draining \subseteq batch' \cup chain'
  BY <1>1, <1>3, StateFit
<1>7. Fit(Now, session)'
  BY <1>1, <1>2, <1>4, <1>5, <1>6, NowFit
<1>8. ChainWhole'
  <2>1. WithParents(chain')
    BY <1>1, <1>3, StateFit DEF ChainWhole, WithParents
  <2>2. head' \in chain' /\ Number[head'] >= Number[head] /\ Number[head'] \in Nat
    BY <1>1, <1>3
  <2>3. \A c \in Stored : Number[c] <= Number[head']
    <3>1. \A c \in Stored : Number[c] <= Number[head] /\ Number[c] \in Nat
      BY StateFit, Heights, HeaderAssumption DEF ChainWhole
    <3> QED
      BY <1>3, <2>2, <3>1
  <2> QED
    BY <1>1, <1>3, <2>1, <2>2, <2>3, StateFit DEF ChainWhole
<1>9. BatchFollows' /\ SessionsOpen'
  BY <1>1, <1>3, StateFit DEF BatchFollows, SessionsOpen
<1> QED
  BY <1>7, <1>8, <1>9 DEF HeaderInv

LEMMA EnactAgainFit ==
    ASSUME HeaderInv, EnactAgain
    PROVE  HeaderInv'
<1>1. /\ batch \cap chain # {} /\ batch' = {}
      /\ UNCHANGED <<sync, eth, queue, chain, head, imported, wasFull, session, live,
                     remote, budget>>
  BY DEF EnactAgain
<1>2. batch \subseteq chain
  BY <1>1, StateFit DEF BatchFollows
<1>3. /\ sync \in SyncType /\ eth \in [Peer -> PeerType] /\ queue \in QueueType
  BY NowIs
<1>4. Continues(sync, queue)' /\ ParentsAhead(queue)'
  BY <1>1, <1>2, StateFit DEF Continues, Has, ParentsAhead
<1>5. Owned(sync', eth', session') /\ queue'.draining \subseteq batch' \cup chain'
  BY <1>1, <1>2, StateFit
<1>6. Fit(Now, session)'
  BY <1>1, <1>3, <1>4, <1>5, NowFit
<1>7. ChainWhole' /\ BatchFollows' /\ SessionsOpen'
  BY <1>1, StateFit DEF ChainWhole, BatchFollows, SessionsOpen
<1> QED
  BY <1>6, <1>7 DEF HeaderInv

LEMMA BlockImportedFit ==
    ASSUME HeaderInv, BlockImported
    PROVE  HeaderInv'
<1>1. PICK b \in imported :
        /\ imported' = {} /\ sync' = OnBlockImported(sync, b)
        /\ UNCHANGED <<eth, queue, chain, head, batch, wasFull, session, live, remote,
                       budget>>
  BY DEF BlockImported
<1>2. /\ sync \in SyncType /\ eth \in [Peer -> PeerType] /\ queue \in QueueType
  BY NowIs
<1>3. b \in chain /\ b \in Chain /\ Number[b] \in Nat
  BY StateFit, Heights DEF BatchFollows, ChainWhole
<1>4. /\ sync' \in SyncType
      /\ sync'.downloadingHeaders = sync.downloadingHeaders
      /\ sync'.downloadingBodies = sync.downloadingBodies
      /\ sync'.headerSyncPeers = sync.headerSyncPeers
      /\ sync'.bodySyncPeers = sync.bodySyncPeers
      /\ sync'.haveCommonHeader = sync.haveCommonHeader
      /\ \/ /\ sync'.lastImportedBlock = sync.lastImportedBlock
            /\ sync'.lastImportedBlockHash = sync.lastImportedBlockHash
         \/ sync'.lastImportedBlock = Number[b] /\ sync'.lastImportedBlockHash = b
  BY <1>1, <1>2, <1>3 DEF OnBlockImported, SyncType
<1>5. Continues(sync, queue)'
  BY <1>1, <1>3, <1>4, StateFit DEF Continues, Has
<1>6. ParentsAhead(queue)' /\ queue'.draining \subseteq batch' \cup chain'
  BY <1>1, StateFit DEF ParentsAhead
<1>7. Owned(sync', eth', session')
  BY <1>1, <1>4, StateFit, OwnedLess
<1>8. Fit(Now, session)'
  BY <1>1, <1>2, <1>4, <1>5, <1>6, <1>7, NowFit
<1>9. ChainWhole' /\ BatchFollows' /\ SessionsOpen'
  BY <1>1, StateFit DEF ChainWhole, BatchFollows, SessionsOpen
<1> QED
  BY <1>8, <1>9 DEF HeaderInv

\* What leaves m_drainingSet at the end is in the chain.
LEMMA DoneDrainFit ==
    ASSUME HeaderInv, DoneDrain
    PROVE  HeaderInv'
<1>1. /\ batch = {} /\ queue' = [queue EXCEPT !.draining = {}]
      /\ UNCHANGED <<sync, eth, chain, head, batch, imported, session, live, remote>>
  BY DEF DoneDrain, worker
<1>2. /\ sync \in SyncType /\ eth \in [Peer -> PeerType] /\ queue \in QueueType
  BY NowIs
<1>3. /\ queue' \in QueueType /\ queue'.ready = queue.ready /\ queue'.draining = {}
      /\ queue'.knownBad = queue.knownBad
  BY <1>1, <1>2 DEF QueueType
<1>4. queue.draining \subseteq chain
  BY <1>1, StateFit
<1>5. Continues(sync, queue)' /\ ParentsAhead(queue)'
  BY <1>1, <1>3, <1>4, StateFit DEF Continues, Has, ParentsAhead
<1>6. Owned(sync', eth', session') /\ queue'.draining \subseteq batch' \cup chain'
  BY <1>1, <1>3, StateFit
<1>7. Fit(Now, session)'
  BY <1>1, <1>2, <1>3, <1>5, <1>6, NowFit
<1>8. ChainWhole' /\ BatchFollows' /\ SessionsOpen'
  BY <1>1, StateFit DEF ChainWhole, BatchFollows, SessionsOpen
<1> QED
  BY <1>7, <1>8 DEF HeaderInv

\* A rejected block is known to be bad from then on. None that follows it in the
\* queue is its child: a child of a bad block is not made.
LEMMA RejectFit ==
    ASSUME HeaderInv, NEW b \in Bad, Reject(b)
    PROVE  HeaderInv'
<1> DEFINE old == queue.ready
           n == Len(old)
           gone == {b}
           new == Without(old, gone)
           f == KeptAt(old, gone)
<1>1. /\ queue' = [queue EXCEPT !.ready = new, !.knownBad = @ \cup {b},
                                !.struckOut = @ + 1]
      /\ UNCHANGED <<sync, eth, worker, session, live, remote, budget>>
  BY DEF Reject
<1>2. /\ sync \in SyncType /\ eth \in [Peer -> PeerType] /\ queue \in QueueType
      /\ b \in Block /\ \A c \in Block : Parent[c] # b
  BY NowIs, HeaderAssumption
<1>3. /\ old \in Seq(Block) /\ n \in Nat
      /\ Range(queue.ready) = {old[i] : i \in 1..n}
      /\ \A i \in 1..n : old[i] \in Block
  BY <1>2, ReadyOf
<1>4. /\ new \in Seq(Block)
      /\ \A k \in 1..Len(new) : f[k] \in Kept(old, gone) /\ new[k] = old[f[k]]
      /\ \A k, l \in 1..Len(new) : k < l => f[k] < f[l]
      /\ \A i \in Kept(old, gone) : \E k \in 1..Len(new) : f[k] = i
  <2> HIDE DEF old, n, gone
  <2> QED
    BY <1>3, WithoutRenumbers
<1>5. /\ Len(new) \in Nat
      /\ \A i : i \in Kept(old, gone) <=> i \in 1..n /\ old[i] # b
  BY <1>4 DEF Kept, n, gone
<1> HIDE DEF old, n, gone, new, f
<1>6. /\ queue' \in QueueType /\ queue'.ready = new
      /\ queue'.draining = queue.draining
      /\ queue'.knownBad = queue.knownBad \cup {b}
  <2>1. queue.knownBad \cup {b} \in SUBSET Block /\ queue.struckOut + 1 \in Nat
    BY <1>2 DEF QueueType
  <2>2. queue' = [queue EXCEPT !.ready = new,
                               !.knownBad = queue.knownBad \cup {b},
                               !.struckOut = queue.struckOut + 1]
    BY <1>1
  <2> QED
    BY <1>2, <1>4, <2>1, <2>2 DEF QueueType
<1>7. \A c \in Range(queue.ready) : c = b \/ c \in Range(queue'.ready)
  <2> SUFFICES ASSUME NEW i \in 1..n, old[i] # b
               PROVE  old[i] \in {new[k] : k \in 1..Len(new)}
    BY <1>3, <1>4, <1>6, RangeOf
  <2>1. PICK k \in 1..Len(new) : f[k] = i
    BY <1>4, <1>5
  <2> QED
    BY <1>4, <2>1
<1>8. ParentsAhead(queue)'
  <2> SUFFICES ASSUME NEW k \in 1..Len(new),
                      Parent[new[k]] \notin chain \cup queue.draining
               PROVE  Parent[new[k]] \in {new[l] : l \in 1..(k - 1)}
    BY <1>1, <1>6 DEF ParentsAhead, worker
  <2>1. f[k] \in 1..n /\ new[k] = old[f[k]] /\ old[f[k]] \in Block
    BY <1>3, <1>4, <1>5
  <2>2. Parent[old[f[k]]] \in chain \cup queue.draining \cup {old[j] : j \in 1..(f[k] - 1)}
    BY <2>1, StateFit DEF ParentsAhead, old, n
  <2>3. PICK j \in 1..(f[k] - 1) : old[j] = Parent[old[f[k]]]
    BY <2>1, <2>2
  <2>4. j \in 1..n /\ j < f[k] /\ old[j] # b
    BY <1>2, <1>3, <2>1, <2>3
  <2>5. PICK l \in 1..Len(new) : f[l] = j
    BY <1>4, <1>5, <2>4
  <2>6. l < k
    <3> SUFFICES ASSUME ~(l < k)
                 PROVE  FALSE
      OBVIOUS
    <3>1. k < l \/ k = l
      BY <1>5
    <3>2. f[k] < f[l] \/ f[k] = f[l]
      BY <1>4, <3>1
    <3> QED
      BY <1>3, <2>1, <2>4, <2>5, <3>2
  <2>7. l \in 1..(k - 1)
    BY <1>5, <2>6
  <2> QED
    BY <1>4, <2>1, <2>3, <2>5, <2>7
<1>9. Continues(sync, queue)'
  <2>1. Has(queue) \subseteq Has(queue)'
    BY <1>1, <1>6, <1>7 DEF Has, worker
  <2> QED
    BY <1>1, <2>1, StateFit DEF Continues
<1>10. Owned(sync', eth', session') /\ queue'.draining \subseteq batch' \cup chain'
  BY <1>1, <1>6, StateFit DEF worker
<1>11. Fit(Now, session)'
  BY <1>1, <1>2, <1>6, <1>8, <1>9, <1>10, NowFit
<1>12. ChainWhole' /\ BatchFollows'
  BY <1>1, OthersKeep DEF worker
<1>13. SessionsOpen'
  BY <1>1, StateFit DEF SessionsOpen
<1> QED
  BY <1>11, <1>12, <1>13 DEF HeaderInv

-----------------------------------------------------------------------------
(***************************************************************************)
(* The theorems                                                            *)
(***************************************************************************)

LEMMA InitFit == Init => HeaderInv
<1> SUFFICES ASSUME Init
             PROVE  HeaderInv
  OBVIOUS
<1>1. /\ head \in Stored /\ (\A c \in Stored : Number[c] <= Number[head])
      /\ chain = Stored /\ batch = {} /\ imported = {} /\ session = {} /\ live = {} /\ remote = Remote
      /\ Stored \subseteq Chain /\ Remote \in [Peer -> Chain]
  BY HeaderAssumption DEF Init
<1>2. sync \in SyncType /\ Owned(sync, eth, session) /\ Continues(sync, queue)
  <2>1. /\ <<>> \in Chunks(Block) /\ <<>> \in Chunks(Bodies)
        /\ NoPeer \in [Peer -> SUBSET Nat] /\ DOMAIN <<>> = {}
    BY NoChunks DEF NoPeer
  <2>2. <<>> \in Ids
    <3>1. <<>> \in [{} -> Positive] /\ {} \in SUBSET Bodies
      OBVIOUS
    <3> QED
      BY <3>1 DEF Ids
  <2>3. Number[head] \in Nat /\ head \in Chain
    BY <1>1, Heights
  <2>4. sync \in SyncType
    BY <2>1, <2>2, <2>3 DEF Init, SyncType, Ids
  <2>5. /\ sync.downloadingHeaders = {} /\ sync.downloadingBodies = {}
        /\ sync.haveCommonHeader = FALSE
    BY DEF Init
  <2> QED
    BY <2>4, <2>5, OwnedNothing DEF Continues
<1>3. /\ queue \in QueueType /\ ParentsAhead(queue)
      /\ queue.draining \subseteq batch \cup chain
  <2>1. <<>> \in Seq(Block) /\ Len(<<>>) = 0
    OBVIOUS
  <2> QED
    BY <2>1 DEF Init, QueueType, ParentsAhead
<1>4. eth \in [Peer -> PeerType]
  <2>1. eth = [p \in Peer |-> NoOne]
    BY DEF Init
  <2> QED
    BY <2>1, NoOneIs
<1>5. Fit(Now, session)
  <2>1. /\ Now.sync = sync /\ Now.eth = eth /\ Now.queue = queue /\ Now \in World
    BY <1>2, <1>3, <1>4 DEF World, Now, Results
  <2> HIDE DEF Now
  <2> QED
    BY <1>2, <1>3, <2>1 DEF Fit
<1>6. ChainWhole
  <2>1. Genesis \in chain /\ WithParents(chain)
    BY <1>1, HeaderAssumption DEF WithParents
  <2> QED
    BY <1>1, <2>1 DEF ChainWhole
<1>7. BatchFollows /\ SessionsOpen
  BY <1>1 DEF BatchFollows, SessionsOpen
<1> QED
  BY <1>5, <1>6, <1>7 DEF HeaderInv

\* Every step of the peers, the worker and the verifiers keeps the invariant.
LEMMA NextFit == HeaderInv /\ [Next]_vars => HeaderInv'
<1> SUFFICES ASSUME HeaderInv, [Next]_vars
             PROVE  HeaderInv'
  OBVIOUS
<1>1. ASSUME NEW p \in Peer, Connect(p)
      PROVE  HeaderInv'
  BY <1>1, ConnectFit
<1>2. ASSUME NEW p \in Peer, NEW part \in 0..MaxRequest, AnswerHeaders(p, part)
      PROVE  HeaderInv'
  BY <1>2, AnswerHeadersFit
<1>3. ASSUME NEW p \in Peer, NEW part \in SUBSET Block, AnswerBodies(p, part)
      PROVE  HeaderInv'
  BY <1>3, AnswerBodiesFit
<1>4. ASSUME NEW p \in Peer, NEW b \in Block, NewBlock(p, b) \/ NewBlockHashes(p, b)
      PROVE  HeaderInv'
  BY <1>4, NewBlockFit, NewBlockHashesFit
<1>5. ASSUME NEW p \in Peer, Drop(p)
      PROVE  HeaderInv'
  BY <1>5, DropFit
<1>6. ASSUME NEW p \in Peer, Disconnect(p)
      PROVE  HeaderInv'
  BY <1>6, DisconnectFit
<1>7. CASE Drain
  BY <1>7, DrainFit
<1>8. CASE RoomAvailable
  BY <1>8, RoomAvailableFit
<1>9. CASE Enact
  BY <1>9, EnactFit
<1>10. CASE EnactAgain
  BY <1>10, EnactAgainFit
<1>11. CASE BlockImported
  BY <1>11, BlockImportedFit
<1>12. CASE DoneDrain
  BY <1>12, DoneDrainFit
<1>13. ASSUME NEW b \in Bad, Reject(b)
       PROVE  HeaderInv'
  BY <1>13, RejectFit
<1>14. CASE UNCHANGED vars
  <2>1. UNCHANGED <<sync, eth, queue, worker, session, live, remote>>
    BY <1>14 DEF vars, worker
  <2>2. Fit(Now, session) /\ Become(Now)
    BY <2>1, NowIs DEF Become
  <2>3. Fit(Now, session)'
    BY <2>1, <2>2, BecomeFit DEF worker
  <2>4. ChainWhole' /\ BatchFollows'
    BY <2>1, OthersKeep DEF worker
  <2>5. SessionsOpen'
    BY <2>1, StateFit DEF SessionsOpen
  <2> QED
    BY <2>3, <2>4, <2>5 DEF HeaderInv
<1> QED
  BY <1>1, <1>2, <1>3, <1>4, <1>5, <1>6, <1>7, <1>8, <1>9, <1>10, <1>11, <1>12, <1>13,
     <1>14 DEF Next

\* The sync, its record of the peers and the block queue stay of their types in
\* every handler, and between the handlers each number being downloaded has its
\* owner, the block that the download continues from is there, every block in
\* the queue has its parent ahead of it, and the database holds whole branches
\* (BlockChainSync under x_sync, BlockQueue, Client::syncBlockQueue).
THEOREM HeaderInvariant == Spec => []HeaderInv
<1>1. Init => HeaderInv
  BY InitFit
<1>2. HeaderInv /\ [Next]_vars => HeaderInv'
  BY NextFit
<1> QED
  BY <1>1, <1>2, PTL DEF Spec

\* No number is marked as being downloaded without a peer that is being asked
\* for it, whatever the order of answers, disconnections and announcements
\* (m_downloadingHeaders and m_downloadingBodies against m_headerSyncPeers,
\* m_bodySyncPeers and EthereumPeer::m_asking).
THEOREM DownloadsAreOwned == Spec => []DownloadsOwned
<1>1. HeaderInv => DownloadsOwned
  <2> SUFFICES ASSUME HeaderInv
               PROVE  DownloadsOwned
    OBVIOUS
  <2>1. Owned(sync, eth, session)
    BY StateFit
  <2> QED
    BY <2>1 DEF Owned, DownloadsOwned
<1> QED
  BY <1>1, HeaderInvariant, PTL

\* The download continues from a block of the chain, of the queue or of the
\* rejected ones, under that block's own number, in all the places where
\* m_lastImportedBlock and m_lastImportedBlockHash are assigned; or from block 1
\* without a hash, when the node started with the genesis block alone.
THEOREM ContinuesFromKnown == Spec => []LastImportedKnown
<1>1. HeaderInv => LastImportedKnown
  <2> SUFFICES ASSUME HeaderInv
               PROVE  LastImportedKnown
    OBVIOUS
  <2>1. Continues(sync, queue)
    BY StateFit
  <2> QED
    BY <2>1 DEF Continues, Has, LastImportedKnown
<1> QED
  BY <1>1, HeaderInvariant, PTL
=============================================================================
