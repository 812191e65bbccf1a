--------------------------- MODULE QueueOpsProofs ---------------------------
(***************************************************************************)
(* Sequences that hold each of their elements once, for the proofs about   *)
(* the queues.                                                             *)
(***************************************************************************)
EXTENDS QueueOps, SequencesExt, TLAPS, FiniteSetTheorems, SequenceTheorems

(***************************************************************************)
(* Without                                                                 *)
(***************************************************************************)

\* The positions that Without keeps.
Kept(s, gone) == {i \in 1..Len(s) : s[i] \notin gone}

\* The position of s that the k-th element of Without(s, gone) comes from.
KeptAt(s, gone) ==
    [k \in 1..Cardinality(Kept(s, gone)) |->
        CHOOSE i \in Kept(s, gone) : Cardinality({j \in Kept(s, gone) : j <= i}) = k]

\* Without(s, gone) is s read through an increasing renumbering of the
\* positions it keeps: SizedBlockQueue::removeIf keeps the order of the rest.
LEMMA WithoutRenumbers ==
    ASSUME NEW S, NEW s \in Seq(S), NEW gone
    PROVE  LET w == Without(s, gone)
               f == KeptAt(s, gone)
           IN  /\ w \in Seq(S)
               /\ \A k \in 1..Len(w) : f[k] \in Kept(s, gone) /\ w[k] = s[f[k]]
               /\ \A k, l \in 1..Len(w) : k < l => f[k] < f[l]
               /\ \A i \in Kept(s, gone) : \E k \in 1..Len(w) : f[k] = i
<1> DEFINE kept == {i \in 1..Len(s) : s[i] \notin gone}
           n == Cardinality(kept)
           upTo(i) == {j \in kept : j <= i}
           rank == [i \in kept |-> Cardinality(upTo(i))]
<1>1. /\ Len(s) \in Nat
      /\ IsFiniteSet(kept)
      /\ n \in Nat
  <2>1. Len(s) \in Nat
    OBVIOUS
  <2>2. IsFiniteSet(1..Len(s))
    BY <2>1, FS_Interval
  <2>3. IsFiniteSet(kept)
    BY <2>2, FS_Subset
  <2> QED
    BY <2>1, <2>3, FS_CardinalityType
<1>2. \A i \in kept : upTo(i) \subseteq kept /\ i \in upTo(i)
  BY <1>1
<1>3. \A i \in kept : rank[i] \in 1..n /\ rank[i] \in Int
  <2> TAKE i \in kept
  <2>1. IsFiniteSet(upTo(i)) /\ Cardinality(upTo(i)) <= n
    BY <1>1, <1>2, FS_Subset
  <2>2. Cardinality(upTo(i)) \in Nat /\ Cardinality(upTo(i)) # 0
    BY <1>2, <2>1, FS_EmptySet, FS_CardinalityType
  <2> QED
    BY <1>1, <2>1, <2>2
<1>4. \A i, j \in kept : i < j => rank[i] < rank[j]
  <2> SUFFICES ASSUME NEW i \in kept, NEW j \in kept, i < j
               PROVE  rank[i] < rank[j]
    OBVIOUS
  <2>1. IsFiniteSet(upTo(j))
    BY <1>1, <1>2, FS_Subset
  <2>2. upTo(i) \subseteq upTo(j) /\ j \notin upTo(i) /\ j \in upTo(j)
    BY <1>1
  <2>3. Cardinality(upTo(i)) <= Cardinality(upTo(j)) /\ Cardinality(upTo(i)) # Cardinality(upTo(j))
    BY <2>1, <2>2, FS_Subset
  <2>4. rank[i] = Cardinality(upTo(i)) /\ rank[j] = Cardinality(upTo(j))
    OBVIOUS
  <2>5. rank[i] \in Int /\ rank[j] \in Int
    BY <1>3
  <2> HIDE DEF rank
  <2> QED
    BY <2>3, <2>4, <2>5
<1>5. \A i, j \in kept : rank[i] = rank[j] => i = j
  <2> SUFFICES ASSUME NEW i \in kept, NEW j \in kept, i # j
               PROVE  rank[i] # rank[j]
    OBVIOUS
  <2>1. i < j \/ j < i
    BY <1>1
  <2> HIDE DEF rank
  <2>2. rank[i] \in Int /\ rank[j] \in Int
    BY <1>3
  <2> QED
    BY <1>4, <2>1, <2>2
<1>6. \A k \in 1..n : \E i \in kept : rank[i] = k
  <2>1. rank \in Injection(kept, 1..n)
    <3>1. rank \in [kept -> 1..n]
      BY <1>3
    <3> QED
      BY <3>1, <1>5 DEF Injection, IsInjective
  <2>2. IsFiniteSet(1..n) /\ Cardinality(1..n) = n
    BY <1>1, FS_Interval
  <2>3. rank \in Surjection(kept, 1..n)
    BY <2>1, <2>2, FS_Injection
  <2> QED
    BY <2>3 DEF Surjection
<1> DEFINE f == [k \in 1..n |-> CHOOSE i \in kept : Cardinality(upTo(i)) = k]
<1>7. \A k \in 1..n : f[k] \in kept /\ rank[f[k]] = k
  BY <1>6
<1>8. \A i \in kept : \E k \in 1..n : f[k] = i
  <2> TAKE i \in kept
  <2>1. rank[i] \in 1..n
    BY <1>3
  <2>2. f[rank[i]] = i
    BY <2>1, <1>5, <1>7
  <2> QED
    BY <2>1, <2>2
<1>9. \A k, l \in 1..n : k < l => f[k] < f[l]
  <2> SUFFICES ASSUME NEW k \in 1..n, NEW l \in 1..n, k < l, ~(f[k] < f[l])
               PROVE  FALSE
    OBVIOUS
  <2> HIDE DEF f, rank
  <2>1. f[k] \in kept /\ f[l] \in kept /\ f[k] \in Int /\ f[l] \in Int
    BY <1>1, <1>7
  <2>2. f[l] < f[k] \/ f[l] = f[k]
    BY <2>1
  <2>3. rank[f[l]] < rank[f[k]] \/ rank[f[l]] = rank[f[k]]
    BY <1>4, <2>1, <2>2
  <2>4. l < k \/ l = k
    BY <1>7, <2>3
  <2> QED
    BY <1>1, <2>4
<1>10. Without(s, gone) = [k \in 1..n |-> s[f[k]]]
  <2>1. DOMAIN s = 1..Len(s)
    OBVIOUS
  <2> QED
    BY <2>1 DEF Without
<1>11. f \in [1..n -> kept]
  BY <1>7
<1> DEFINE w == Without(s, gone)
<1>12. w \in Seq(S) /\ Len(w) = n /\ \A k \in 1..n : w[k] = s[f[k]]
  <2> HIDE DEF n, f
  <2>1. \A k \in 1..n : s[f[k]] \in S
    BY <1>11
  <2> QED
    BY <1>1, <1>10, <2>1
<1>13. kept = Kept(s, gone)
  BY DEF Kept
<1>14. f = KeptAt(s, gone)
  BY DEF KeptAt, Kept
<1> HIDE DEF n, f, kept, w
<1>15. /\ w \in Seq(S)
       /\ \A k \in 1..Len(w) : f[k] \in kept /\ w[k] = s[f[k]]
       /\ \A k, l \in 1..Len(w) : k < l => f[k] < f[l]
       /\ \A i \in kept : \E k \in 1..Len(w) : f[k] = i
  BY <1>8, <1>9, <1>11, <1>12
<1> QED
  BY <1>13, <1>14, <1>15 DEF w

-----------------------------------------------------------------------------
(***************************************************************************)
(* Sequences that list a set                                               *)
(***************************************************************************)

\* s lists the elements of S, each once.
Lists(s, S) ==
    /\ s \in Seq(S)
    /\ \A x \in S : \E i \in 1..Len(s) : s[i] = x
    /\ \A i, j \in 1..Len(s) : s[i] = s[j] => i = j

LEMMA ListsElements ==
    ASSUME NEW S, NEW s, Lists(s, S)
    PROVE  /\ s \in Seq(S)
           /\ Len(s) \in Nat
           /\ DOMAIN s = 1..Len(s)
           /\ \A i \in 1..Len(s) : s[i] \in S
BY DEF Lists

\* The other way of saying it, with the operators of SequencesExt.
LEMMA ListsIsInjective ==
    ASSUME NEW S, NEW s \in Seq(S)
    PROVE  Lists(s, S) <=> ToSet(s) = S /\ IsInjective(s)
<1>1. DOMAIN s = 1..Len(s) /\ \A i \in 1..Len(s) : s[i] \in S
  OBVIOUS
<1>2. IsInjective(s) <=> \A i, j \in 1..Len(s) : s[i] = s[j] => i = j
  BY <1>1 DEF IsInjective
<1>3. ToSet(s) = S <=> \A x \in S : \E i \in 1..Len(s) : s[i] = x
  BY <1>1 DEF ToSet
<1> QED
  BY <1>2, <1>3 DEF Lists

LEMMA ListsEmpty == Lists(<<>>, {})
BY DEF Lists

LEMMA ListsConcat ==
    ASSUME NEW S, NEW T, NEW s, NEW t, Lists(s, S), Lists(t, T), S \cap T = {}
    PROVE  Lists(s \o t, S \cup T)
<1> DEFINE st == s \o t
<1>1. s \in Seq(S) /\ t \in Seq(T) /\ s \in Seq(S \cup T) /\ t \in Seq(S \cup T)
  BY SeqMonotonic DEF Lists
<1>2. /\ st \in Seq(S \cup T)
      /\ Len(st) = Len(s) + Len(t)
      /\ \A i \in 1..Len(st) : st[i] = IF i <= Len(s) THEN s[i] ELSE t[i - Len(s)]
  BY <1>1, ConcatProperties
<1>3. /\ Len(s) \in Nat /\ Len(t) \in Nat
      /\ \A i \in 1..Len(s) : s[i] \in S
      /\ \A i \in 1..Len(t) : t[i] \in T
      /\ \A x \in S : \E i \in 1..Len(s) : s[i] = x
      /\ \A x \in T : \E i \in 1..Len(t) : t[i] = x
      /\ \A i, j \in 1..Len(s) : s[i] = s[j] => i = j
      /\ \A i, j \in 1..Len(t) : t[i] = t[j] => i = j
  BY <1>1 DEF Lists
<1> HIDE DEF st
<1>4. ASSUME NEW x \in S \cup T
      PROVE  \E i \in 1..Len(st) : st[i] = x
  <2>1. CASE x \in S
    <3>1. PICK i \in 1..Len(s) : s[i] = x
      BY <1>3, <2>1
    <3> QED
      BY <1>2, <1>3, <3>1
  <2>2. CASE x \in T
    <3>1. PICK i \in 1..Len(t) : t[i] = x
      BY <1>3, <2>2
    <3>2. i + Len(s) \in 1..Len(st) /\ st[i + Len(s)] = x
      BY <1>2, <1>3, <3>1
    <3> QED
      BY <3>2
  <2> QED
    BY <1>4, <2>1, <2>2
<1>5. ASSUME NEW i \in 1..Len(st), NEW j \in 1..Len(st), st[i] = st[j]
      PROVE  i = j
  <2>1. i <= Len(s) => st[i] = s[i] /\ s[i] \in S /\ i \in 1..Len(s)
    BY <1>2, <1>3
  <2>2. ~(i <= Len(s)) => st[i] = t[i - Len(s)] /\ t[i - Len(s)] \in T /\ i - Len(s) \in 1..Len(t)
    BY <1>2, <1>3
  <2>3. j <= Len(s) => st[j] = s[j] /\ s[j] \in S /\ j \in 1..Len(s)
    BY <1>2, <1>3
  <2>4. ~(j <= Len(s)) => st[j] = t[j - Len(s)] /\ t[j - Len(s)] \in T /\ j - Len(s) \in 1..Len(t)
    BY <1>2, <1>3
  <2>5. CASE i <= Len(s) /\ j <= Len(s)
    BY <1>3, <1>5, <2>1, <2>3, <2>5
  <2>6. CASE ~(i <= Len(s)) /\ ~(j <= Len(s))
    <3>1. i - Len(s) = j - Len(s)
      BY <1>3, <1>5, <2>2, <2>4, <2>6
    <3> QED
      BY <1>3, <1>2, <3>1
  <2>7. (i <= Len(s)) <=> (j <= Len(s))
    BY <1>5, <2>1, <2>2, <2>3, <2>4
  <2> QED
    BY <2>5, <2>6, <2>7
<1>6. Lists(st, S \cup T)
  BY <1>2, <1>4, <1>5 DEF Lists
<1> QED
  BY <1>6 DEF st

LEMMA ListsSingle == \A x : Lists(<<x>>, {x})
BY DEF Lists

LEMMA ListsAppend ==
    ASSUME NEW S, NEW s, NEW x, Lists(s, S), x \notin S
    PROVE  Lists(Append(s, x), S \cup {x})
<1>1. s \in Seq(S \cup {x}) /\ x \in S \cup {x}
  BY SeqMonotonic DEF Lists
<1>2. Append(s, x) = s \o <<x>>
  BY <1>1, AppendIsConcat
<1>3. Lists(<<x>>, {x}) /\ S \cap {x} = {}
  BY ListsSingle
<1> QED
  BY <1>2, <1>3, ListsConcat

\* The first n elements of s.
FirstOf(s, n) == {s[i] : i \in 1..n}

\* Cutting a list in two.
LEMMA ListsCut ==
    ASSUME NEW S, NEW s, NEW n \in Nat, Lists(s, S), n <= Len(s)
    PROVE  /\ FirstOf(s, n) \subseteq S
           /\ Lists(SubSeq(s, 1, n), FirstOf(s, n))
           /\ Lists(SubSeq(s, n + 1, Len(s)), S \ FirstOf(s, n))
<1> DEFINE front == {s[i] : i \in 1..n}
           rest == S \ front
<1>1. /\ s \in Seq(S) /\ Len(s) \in Nat
      /\ \A i \in 1..Len(s) : s[i] \in S
      /\ \A x \in S : \E i \in 1..Len(s) : s[i] = x
      /\ \A i, j \in 1..Len(s) : s[i] = s[j] => i = j
  BY ListsElements DEF Lists
<1>2. front \subseteq S
  BY <1>1
<1>3. Lists(SubSeq(s, 1, n), front)
  <2> DEFINE w == SubSeq(s, 1, n)
  <2>1. Len(w) = n /\ \A k \in 1..n : w[k] = s[k]
    BY <1>1
  <2>2. w \in Seq(front)
    <3>1. w \in Seq(S) /\ DOMAIN w = 1..n /\ \A k \in 1..n : w[k] \in front
      BY <1>1, <2>1
    <3> HIDE DEF w, front
    <3> QED
      BY <2>1, <3>1
  <2>3. \A x \in front : \E k \in 1..n : s[k] = x
    OBVIOUS
  <2>4. \A k, l \in 1..n : s[k] = s[l] => k = l
    <3>1. \A k \in 1..n : k \in 1..Len(s)
      BY <1>1
    <3> QED
      BY <1>1, <3>1
  <2> HIDE DEF front, w
  <2>5. Lists(w, front)
    BY <2>1, <2>2, <2>3, <2>4 DEF Lists
  <2> QED
    BY <2>5 DEF w
<1>4. Lists(SubSeq(s, n + 1, Len(s)), rest)
  <2> DEFINE w == SubSeq(s, n + 1, Len(s))
             m == Len(s) - n
  <2>0. m \in Nat /\ m \in Int /\ Len(s) = n + m
    BY <1>1
  <2>1. w \in Seq(S) /\ Len(w) = m /\ \A k \in 1..m : w[k] = s[n + k]
    <3>1. \A i \in n + 1..Len(s) : s[i] \in S
      BY <1>1
    <3>2. /\ w \in Seq(S)
          /\ Len(w) = IF n + 1 <= Len(s) THEN Len(s) - (n + 1) + 1 ELSE 0
          /\ \A i \in 1..Len(s) - (n + 1) + 1 : w[i] = s[n + 1 + i - 1]
      BY <1>1, <3>1, SubSeqProperties
    <3> HIDE DEF w, m
    <3>3. Len(s) - (n + 1) + 1 = m /\ \A i \in 1..m : n + 1 + i - 1 = n + i
      BY <1>1, <2>0
    <3> QED
      BY <1>1, <2>0, <3>2, <3>3
  <2>3. \A k \in 1..m : n + k \in 1..Len(s)
    <3> HIDE DEF m
    <3> QED
      BY <2>0
  <2> HIDE DEF m, w
  <2>5. \A k \in 1..m : s[n + k] \in rest
    <3> SUFFICES ASSUME NEW k \in 1..m, NEW j \in 1..n, s[n + k] = s[j]
                 PROVE  FALSE
      BY <1>1, <2>3
    <3>1. n + k \in 1..Len(s) /\ j \in 1..Len(s) /\ n + k # j
      BY <1>1, <2>0, <2>3
    <3> QED
      BY <1>1, <3>1
  <2>6. \A x \in rest : \E k \in 1..m : s[n + k] = x
    <3> TAKE x \in rest
    <3>1. PICK i \in 1..Len(s) : s[i] = x
      BY <1>1
    <3>2. i \notin 1..n
      BY <3>1
    <3>3. i - n \in 1..m /\ n + (i - n) = i
      BY <1>1, <2>0, <3>2
    <3> QED
      BY <3>1, <3>3
  <2> HIDE DEF rest
  <2>7. w \in Seq(rest)
    <3>1. DOMAIN w = 1..Len(w) /\ \A k \in 1..Len(w) : w[k] \in rest
      BY <2>0, <2>1, <2>5
    <3> QED
      BY <2>1, <3>1
  <2>8. \A k, l \in 1..Len(w) : w[k] = w[l] => k = l
    <3> SUFFICES ASSUME NEW k \in 1..m, NEW l \in 1..m, w[k] = w[l]
                 PROVE  k = l
      BY <2>1
    <3>1. n + k \in 1..Len(s) /\ n + l \in 1..Len(s) /\ s[n + k] = s[n + l]
      BY <2>1, <2>3
    <3>2. n + k = n + l
      BY <1>1, <3>1
    <3> QED
      BY <2>0, <3>2
  <2>9. \A x \in rest : \E k \in 1..Len(w) : w[k] = x
    BY <2>1, <2>6
  <2>10. Lists(w, rest)
    BY <2>7, <2>8, <2>9 DEF Lists
  <2> QED
    BY <2>10 DEF w
<1> HIDE DEF front, rest
<1>5. /\ front \subseteq S
      /\ Lists(SubSeq(s, 1, n), front)
      /\ Lists(SubSeq(s, n + 1, Len(s)), S \ front)
  BY <1>2, <1>3, <1>4 DEF rest
<1> QED
  BY <1>5 DEF front, FirstOf

LEMMA ListsTail ==
    ASSUME NEW S, NEW s, Lists(s, S), s # <<>>
    PROVE  Head(s) \in S /\ Lists(Tail(s), S \ {Head(s)})
<1>1. s \in Seq(S) /\ Len(s) \in Nat /\ 1 <= Len(s)
  BY EmptySeq DEF Lists
<1>2. Tail(s) = SubSeq(s, 2, Len(s))
  BY <1>1, TailIsSubSeq
<1>3. Lists(SubSeq(s, 1 + 1, Len(s)), S \ FirstOf(s, 1))
  BY <1>1, ListsCut
<1>4. FirstOf(s, 1) = {Head(s)}
  BY <1>1 DEF FirstOf
<1>5. Head(s) \in S
  BY <1>1
<1>6. 1 + 1 = 2
  OBVIOUS
<1> QED
  BY <1>2, <1>3, <1>4, <1>5, <1>6

LEMMA ListsWithout ==
    ASSUME NEW S, NEW s, NEW gone, Lists(s, S)
    PROVE  Lists(Without(s, gone), S \ gone)
<1> DEFINE w == Without(s, gone)
           f == KeptAt(s, gone)
<1>1. /\ s \in Seq(S) /\ Len(s) \in Nat
      /\ \A i \in 1..Len(s) : s[i] \in S
      /\ \A x \in S : \E i \in 1..Len(s) : s[i] = x
  BY ListsElements DEF Lists
<1>2. s \in Seq(S)
  BY <1>1
<1>3. /\ w \in Seq(S)
      /\ \A k \in 1..Len(w) : f[k] \in Kept(s, gone) /\ w[k] = s[f[k]]
      /\ \A k, l \in 1..Len(w) : k < l => f[k] < f[l]
      /\ \A i \in Kept(s, gone) : \E k \in 1..Len(w) : f[k] = i
  BY <1>2, WithoutRenumbers
<1> HIDE DEF w, f
<1>4. \A k \in 1..Len(w) : f[k] \in Int /\ f[k] \in 1..Len(s) /\ s[f[k]] \notin gone
  <2> TAKE k \in 1..Len(w)
  <2>1. f[k] \in Kept(s, gone)
    BY <1>3
  <2> QED
    BY <1>1, <2>1 DEF Kept
<1>5. \A k, l \in 1..Len(w) : f[k] = f[l] => k = l
  <2> SUFFICES ASSUME NEW k \in 1..Len(w), NEW l \in 1..Len(w), f[k] = f[l], k # l
               PROVE  FALSE
    OBVIOUS
  <2>0. Len(w) \in Nat
    BY <1>3
  <2>1. k < l \/ l < k
    BY <2>0
  <2>2. f[k] < f[l] \/ f[l] < f[k]
    BY <1>3, <2>1
  <2> QED
    BY <1>4, <2>2
<1>6. w \in Seq(S \ gone)
  <2>1. \A k \in 1..Len(w) : w[k] \in S \ gone
    BY <1>1, <1>3, <1>4
  <2>2. DOMAIN w = 1..Len(w)
    BY <1>3
  <2> QED
    BY <1>3, <2>1, <2>2
<1>7. \A x \in S \ gone : \E k \in 1..Len(w) : w[k] = x
  <2> TAKE x \in S \ gone
  <2>1. PICK i \in 1..Len(s) : s[i] = x
    BY <1>1
  <2>2. PICK k \in 1..Len(w) : f[k] = i
    BY <1>3, <2>1 DEF Kept
  <2> QED
    BY <1>3, <2>1, <2>2
<1>8. \A k, l \in 1..Len(w) : w[k] = w[l] => k = l
  <2> SUFFICES ASSUME NEW k \in 1..Len(w), NEW l \in 1..Len(w), w[k] = w[l]
               PROVE  k = l
    OBVIOUS
  <2>1. f[k] \in 1..Len(s) /\ f[l] \in 1..Len(s) /\ s[f[k]] = s[f[l]]
    BY <1>3, <1>4
  <2>2. f[k] = f[l]
    BY <2>1 DEF Lists
  <2> QED
    BY <1>5, <2>2
<1>9. Lists(w, S \ gone)
  BY <1>6, <1>7, <1>8 DEF Lists
<1> QED
  BY <1>9 DEF w

LEMMA ListsToSet ==
    ASSUME NEW S, NEW s, Lists(s, S)
    PROVE  ToSet(s) = S
<1>1. s \in Seq(S)
  BY ListsElements
<1> QED
  BY <1>1, ListsIsInjective

LEMMA ListsNothing ==
    ASSUME NEW s, Lists(s, {})
    PROVE  s = <<>>
<1>1. s \in Seq({}) /\ Len(s) \in Nat /\ \A i \in 1..Len(s) : s[i] \in {}
  BY ListsElements
<1>2. Len(s) = 0
  BY <1>1
<1> QED
  BY <1>1, <1>2, EmptySeq

LEMMA ListsCardinality ==
    ASSUME NEW S, NEW s, Lists(s, S)
    PROVE  IsFiniteSet(S) /\ Cardinality(S) = Len(s)
<1>1. s \in [1..Len(s) -> S] /\ Len(s) \in Nat
  BY ListsElements
<1>2. s \in Bijection(1..Len(s), S)
  BY <1>1 DEF Lists, Bijection, Injection, Surjection, IsInjective
<1>3. ExistsBijection(1..Len(s), S)
  BY <1>2 DEF ExistsBijection
<1>4. IsFiniteSet(1..Len(s)) /\ Cardinality(1..Len(s)) = Len(s)
  <2>1. Len(s) \in Int /\ 1 \in Int /\ (1 > Len(s) => Len(s) = 0) /\ Len(s) - 1 + 1 = Len(s)
    BY <1>1
  <2> QED
    BY <2>1, FS_Interval
<1> QED
  BY <1>3, <1>4, FS_Bijection

\* The sequences that \E s \in SetToSeqs(S) ranges over list S.
LEMMA SetToSeqsList ==
    ASSUME NEW S, IsFiniteSet(S), NEW s \in SetToSeqs(S)
    PROVE  Lists(s, S)
<1> DEFINE n == Cardinality(S)
<1>1. n \in Nat
  BY FS_CardinalityType
<1>2. s \in [1..n -> S] /\ \A i, j \in 1..n : i # j => s[i] # s[j]
  BY DEF SetToSeqs
<1> HIDE DEF n
<1>3. s \in Injection(1..n, S)
  BY <1>2 DEF Injection, IsInjective
<1>4. s \in Surjection(1..n, S)
  <2>1. IsFiniteSet(1..n) /\ Cardinality(1..n) = n
    BY <1>1, FS_Interval
  <2> QED
    BY <1>3, <2>1, FS_Injection DEF n
<1>5. \A x \in S : \E i \in 1..n : s[i] = x
  BY <1>4 DEF Surjection
<1>6. s \in Seq(S) /\ Len(s) = n
  BY <1>1, <1>2
<1> QED
  BY <1>2, <1>5, <1>6 DEF Lists

\* The first position that Without keeps.
LEMMA FirstKept ==
    ASSUME NEW S, NEW s \in Seq(S), NEW gone, Kept(s, gone) # {}
    PROVE  \E i \in Kept(s, gone) : \A j \in 1..(i - 1) : s[j] \in gone
<1> DEFINE w == Without(s, gone)
           f == KeptAt(s, gone)
<1>1. /\ w \in Seq(S)
      /\ \A k \in 1..Len(w) : f[k] \in Kept(s, gone)
      /\ \A k, l \in 1..Len(w) : k < l => f[k] < f[l]
      /\ \A i \in Kept(s, gone) : \E k \in 1..Len(w) : f[k] = i
  BY WithoutRenumbers
<1> HIDE DEF w, f
<1>2. Len(w) \in Nat /\ Len(s) \in Nat /\ \A i \in Kept(s, gone) : i \in 1..Len(s) /\ i \in Int
  BY <1>1 DEF Kept
<1>3. 1 \in 1..Len(w)
  <2>1. PICK i \in Kept(s, gone) : TRUE
    OBVIOUS
  <2>2. PICK k \in 1..Len(w) : f[k] = i
    BY <1>1
  <2> QED
    BY <1>2, <2>2
<1>4. f[1] \in Kept(s, gone)
  BY <1>1, <1>3
<1>5. \A j \in 1..(f[1] - 1) : s[j] \in gone
  <2> SUFFICES ASSUME NEW j \in 1..(f[1] - 1), s[j] \notin gone
               PROVE  FALSE
    OBVIOUS
  <2>1. j \in 1..Len(s)
    BY <1>2, <1>4
  <2>2. j \in Kept(s, gone)
    BY <2>1 DEF Kept
  <2>3. PICK k \in 1..Len(w) : f[k] = j
    BY <1>1, <2>2
  <2>4. k = 1 \/ 1 < k
    BY <1>2
  <2>5. f[1] = f[k] \/ f[1] < f[k]
    BY <1>1, <1>3, <2>3, <2>4
  <2> QED
    BY <1>2, <1>4, <2>3, <2>5
<1> QED
  BY <1>4, <1>5
=============================================================================
