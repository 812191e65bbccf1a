-------------------------- MODULE BlockOrderProofs --------------------------
(***************************************************************************)
(* Proofs about the order of the blocks in BlockQueue: a parent is ahead   *)
(* of its child, nothing goes to the chain on top of a bad parent, and the *)
(* queue implements BlockLifecycle.                                        *)
(***************************************************************************)
EXTENDS BlockQueueProofs

(***************************************************************************)
(* Sequences in which a parent comes first                                 *)
(***************************************************************************)

\* Each block of s has its parent in A, or ahead of it in s, or is in F.
Behind(s, A, F) ==
    \A i \in 1..Len(s) :
        \/ Parent[s[i]] \in A
        \/ s[i] \in F
        \/ \E j \in 1..(i - 1) : s[j] = Parent[s[i]]

LEMMA BehindMore ==
    ASSUME NEW s, NEW A, NEW F, NEW B, NEW G, Behind(s, A, F), A \subseteq B, F \subseteq G
    PROVE  Behind(s, B, G)
BY DEF Behind

LEMMA BehindNothing == \A A, F : Behind(<<>>, A, F)
BY DEF Behind

LEMMA ConcatToSet ==
    ASSUME NEW S, NEW s \in Seq(S), NEW t \in Seq(S)
    PROVE  ToSet(s \o t) = ToSet(s) \cup ToSet(t)
<1>1. /\ Len(s) \in Nat /\ Len(t) \in Nat
      /\ DOMAIN s = 1..Len(s) /\ DOMAIN t = 1..Len(t)
      /\ DOMAIN (s \o t) = 1..(Len(s) + Len(t))
      /\ \A i \in 1..(Len(s) + Len(t)) :
            (s \o t)[i] = IF i <= Len(s) THEN s[i] ELSE t[i - Len(s)]
  BY ConcatProperties
<1>2. \A i \in 1..Len(s) : i \in DOMAIN (s \o t) /\ (s \o t)[i] = s[i]
  BY <1>1
<1>3. \A i \in 1..Len(t) : i + Len(s) \in DOMAIN (s \o t) /\ (s \o t)[i + Len(s)] = t[i]
  BY <1>1
<1>4. \A i \in DOMAIN (s \o t) : i \in 1..Len(s) \/ i - Len(s) \in 1..Len(t)
  BY <1>1
<1>5. \A x \in ToSet(s \o t) : x \in ToSet(s) \cup ToSet(t)
  BY <1>1, <1>4 DEF ToSet
<1>6. \A x \in ToSet(s) \cup ToSet(t) : x \in ToSet(s \o t)
  <2>1. \A x \in ToSet(s) : x \in ToSet(s \o t)
    <3> DEFINE st == s \o t
    <3>1. \A i \in 1..Len(s) : i \in DOMAIN st /\ st[i] = s[i]
      BY <1>2
    <3> HIDE DEF st
    <3> QED
      BY <1>1, <3>1 DEF ToSet, st
  <2>2. \A x \in ToSet(t) : x \in ToSet(s \o t)
    <3> DEFINE st == s \o t
    <3>1. \A i \in 1..Len(t) : i + Len(s) \in DOMAIN st /\ st[i + Len(s)] = t[i]
      BY <1>3
    <3> HIDE DEF st
    <3> QED
      BY <1>1, <3>1 DEF ToSet, st
  <2> QED
    BY <2>1, <2>2
<1> QED
  BY <1>5, <1>6

LEMMA BehindConcat ==
    ASSUME NEW s \in Seq(Block), NEW t \in Seq(Block), NEW A, NEW B, NEW F,
           Behind(s, A, F), Behind(t, B, F), B \subseteq A \cup ToSet(s)
    PROVE  Behind(s \o t, A, F)
<1> DEFINE st == s \o t
<1>1. /\ Len(st) = Len(s) + Len(t) /\ Len(s) \in Nat /\ Len(t) \in Nat
      /\ \A i \in 1..Len(st) : st[i] = IF i <= Len(s) THEN s[i] ELSE t[i - Len(s)]
  BY ConcatProperties
<1> HIDE DEF st
<1>2. ASSUME NEW i \in 1..Len(st)
      PROVE  \/ Parent[st[i]] \in A
             \/ st[i] \in F
             \/ \E j \in 1..(i - 1) : st[j] = Parent[st[i]]
  <2>1. CASE i <= Len(s)
    <3>1. i \in 1..Len(s) /\ st[i] = s[i] /\ \A j \in 1..(i - 1) : st[j] = s[j]
      BY <1>1, <2>1
    <3> QED
      BY <3>1 DEF Behind
  <2>2. CASE i > Len(s)
    <3>1. i - Len(s) \in 1..Len(t) /\ st[i] = t[i - Len(s)]
      BY <1>1, <2>2
    <3>2. CASE Parent[st[i]] \in B
      <4>1. CASE Parent[st[i]] \in ToSet(s)
        <5>1. PICK j \in 1..Len(s) : s[j] = Parent[st[i]]
          BY <4>1 DEF ToSet
        <5>2. j \in 1..(i - 1) /\ j \in 1..Len(st) /\ st[j] = s[j]
          BY <1>1, <2>2
        <5> QED
          BY <5>1, <5>2
      <4> QED
        BY <3>2, <4>1
    <3>3. CASE \E j \in 1..((i - Len(s)) - 1) : t[j] = Parent[st[i]]
      <4>1. PICK j \in 1..((i - Len(s)) - 1) : t[j] = Parent[st[i]]
        BY <3>3
      <4>2. i \in Nat /\ j \in Nat /\ 1 <= j /\ j < i - Len(s) /\ i <= Len(s) + Len(t)
        BY <1>1, <2>2
      <4>3. j + Len(s) \in 1..(i - 1) /\ j + Len(s) \in 1..Len(st)
        BY <1>1, <4>2
      <4>4. st[j + Len(s)] = t[j]
        BY <1>1, <4>2, <4>3
      <4> QED
        BY <4>1, <4>3, <4>4
    <3> QED
      BY <3>1, <3>2, <3>3 DEF Behind
  <2> QED
    BY <1>1, <2>1, <2>2
<1> QED
  BY <1>2 DEF Behind, st

LEMMA BehindCut ==
    ASSUME NEW s \in Seq(Block), NEW n \in Nat, n <= Len(s), NEW A, NEW F, Behind(s, A, F)
    PROVE  /\ Behind(SubSeq(s, 1, n), A, F)
           /\ Behind(SubSeq(s, n + 1, Len(s)), A \cup ToSet(SubSeq(s, 1, n)), F)
<1> DEFINE front == SubSeq(s, 1, n)
           rest == SubSeq(s, n + 1, Len(s))
<1>1. /\ Len(s) \in Nat
      /\ Len(front) = n /\ \A i \in 1..n : front[i] = s[i]
      /\ Len(rest) = Len(s) - n /\ \A i \in 1..(Len(s) - n) : rest[i] = s[n + i]
  BY SubSeqProperties
<1>2. DOMAIN front = 1..n
  BY <1>1
<1> HIDE DEF front, rest
<1>3. Behind(front, A, F)
  BY <1>1 DEF Behind
<1>4. Behind(rest, A \cup ToSet(front), F)
  <2> SUFFICES ASSUME NEW i \in 1..(Len(s) - n)
               PROVE  \/ Parent[rest[i]] \in A \cup ToSet(front)
                      \/ rest[i] \in F
                      \/ \E j \in 1..(i - 1) : rest[j] = Parent[rest[i]]
    BY <1>1 DEF Behind
  <2>1. n + i \in 1..Len(s) /\ rest[i] = s[n + i]
    BY <1>1
  <2>2. ASSUME NEW j \in 1..((n + i) - 1), s[j] = Parent[s[n + i]]
        PROVE  \/ Parent[rest[i]] \in ToSet(front)
               \/ \E k \in 1..(i - 1) : rest[k] = Parent[rest[i]]
    <3>1. j \in Nat /\ 1 <= j /\ j < n + i /\ i \in Nat /\ i <= Len(s) - n
      BY <1>1
    <3>2. CASE j <= n
      <4>1. j \in 1..n /\ front[j] = Parent[rest[i]]
        BY <1>1, <2>1, <2>2, <3>1, <3>2
      <4> QED
        BY <1>2, <4>1 DEF ToSet
    <3>3. CASE j > n
      <4>1. j - n \in 1..(i - 1) /\ j - n \in 1..(Len(s) - n) /\ n + (j - n) = j
        BY <1>1, <3>1, <3>3
      <4>2. rest[j - n] = Parent[rest[i]]
        BY <1>1, <2>1, <2>2, <4>1
      <4> QED
        BY <4>1, <4>2
    <3> QED
      BY <3>1, <3>2, <3>3
  <2>3. \/ Parent[s[n + i]] \in A
        \/ s[n + i] \in F
        \/ \E j \in 1..((n + i) - 1) : s[j] = Parent[s[n + i]]
    BY <2>1 DEF Behind
  <2> QED
    BY <2>1, <2>2, <2>3
<1> QED
  BY <1>3, <1>4 DEF front, rest

\* What is taken out of s goes to G.
LEMMA BehindRenumbered ==
    ASSUME NEW s, NEW t, Len(s) \in Nat, Len(t) \in Nat, NEW f, NEW A, NEW G, NEW F,
           \A k \in 1..Len(t) : f[k] \in 1..Len(s) /\ t[k] = s[f[k]],
           \A k, l \in 1..Len(t) : k < l => f[k] < f[l],
           \A i \in 1..Len(s) : s[i] \in G \/ \E k \in 1..Len(t) : f[k] = i,
           Behind(s, A, F)
    PROVE  Behind(t, A \cup G, F)
<1> SUFFICES ASSUME NEW k \in 1..Len(t),
                    Parent[t[k]] \notin A \cup G, t[k] \notin F
             PROVE  \E l \in 1..(k - 1) : t[l] = Parent[t[k]]
  BY DEF Behind
<1>1. f[k] \in 1..Len(s) /\ t[k] = s[f[k]]
  OBVIOUS
<1>2. PICK j \in 1..(f[k] - 1) : s[j] = Parent[t[k]]
  BY <1>1 DEF Behind
<1>3. j \in 1..Len(s) /\ j < f[k]
  BY <1>1
<1>4. PICK l \in 1..Len(t) : f[l] = j
  BY <1>2, <1>3
<1>5. l < k
  <2>1. ~(k < l)
    BY <1>1, <1>3, <1>4
  <2>2. k # l
    BY <1>1, <1>3, <1>4
  <2> QED
    BY <2>1, <2>2
<1>6. t[l] = Parent[t[k]] /\ l \in 1..(k - 1)
  BY <1>2, <1>4, <1>5
<1> QED
  BY <1>6

LEMMA BehindWithout ==
    ASSUME NEW s \in Seq(Block), NEW gone, NEW A, NEW F, Behind(s, A, F)
    PROVE  Behind(Without(s, gone), A \cup gone, F)
<1> DEFINE w == Without(s, gone)
           f == KeptAt(s, gone)
<1>1. /\ w \in Seq(Block)
      /\ \A k \in 1..Len(w) : f[k] \in Kept(s, gone) /\ w[k] = s[f[k]]
      /\ \A k, l \in 1..Len(w) : k < l => f[k] < f[l]
      /\ \A i \in Kept(s, gone) : \E k \in 1..Len(w) : f[k] = i
  BY WithoutRenumbers
<1>2. Len(w) \in Nat /\ Len(s) \in Nat
  BY <1>1
<1> HIDE DEF w, f
<1>3. \A k \in 1..Len(w) : f[k] \in 1..Len(s) /\ w[k] = s[f[k]]
  BY <1>1 DEF Kept
<1>4. \A i \in 1..Len(s) : s[i] \in gone \/ \E k \in 1..Len(w) : f[k] = i
  BY <1>1 DEF Kept
<1>5. Behind(w, A \cup gone, F)
  BY <1>1, <1>2, <1>3, <1>4, BehindRenumbered
<1> QED
  BY <1>5 DEF w

\* The same of the blocks of a list of entries.
LEMMA BehindEntries ==
    ASSUME NEW E \in SUBSET Entry, NEW entries, Lists(entries, E), NEW gone, NEW G,
           \A e \in E \cap gone : e.block \in G,
           NEW A, NEW F, Behind(Blocks(entries), A, F)
    PROVE  Behind(Blocks(Without(entries, gone)), A \cup G, F)
<1> DEFINE w == Without(entries, gone)
           f == KeptAt(entries, gone)
           s == Blocks(entries)
           t == Blocks(w)
<1>1. /\ entries \in Seq(Entry) /\ Len(entries) \in Nat
      /\ \A i \in 1..Len(entries) : entries[i] \in E
  BY ListsElements, SeqMonotonic
<1>2. /\ w \in Seq(Entry)
      /\ \A k \in 1..Len(w) : f[k] \in Kept(entries, gone) /\ w[k] = entries[f[k]]
      /\ \A k, l \in 1..Len(w) : k < l => f[k] < f[l]
      /\ \A i \in Kept(entries, gone) : \E k \in 1..Len(w) : f[k] = i
  BY <1>1, WithoutRenumbers
<1> HIDE DEF w, f
<1>3. /\ Len(w) \in Nat
      /\ Len(s) = Len(entries) /\ \A i \in 1..Len(entries) : s[i] = entries[i].block
      /\ Len(t) = Len(w) /\ \A k \in 1..Len(w) : t[k] = w[k].block
  BY <1>1, <1>2 DEF Blocks
<1> HIDE DEF s, t
<1>4. \A k \in 1..Len(t) : f[k] \in 1..Len(s) /\ t[k] = s[f[k]]
  BY <1>2, <1>3 DEF Kept
<1>5. \A i \in 1..Len(s) : s[i] \in G \/ \E k \in 1..Len(t) : f[k] = i
  BY <1>1, <1>2, <1>3 DEF Kept
<1>6. \A k, l \in 1..Len(t) : k < l => f[k] < f[l]
  BY <1>2, <1>3
<1>7. Behind(t, A \cup G, F)
  BY <1>1, <1>3, <1>4, <1>5, <1>6, BehindRenumbered DEF s
<1> QED
  BY <1>7 DEF t, w

LEMMA BlocksOfFinish ==
    ASSUME NEW E \in SUBSET Entry, NEW entries, Lists(entries, E), NEW b \in Block
    PROVE  Blocks(Finish(entries, b)) = Blocks(entries)
<1>1. CASE \E i \in DOMAIN entries : entries[i] = Placeholder(b)
  <2> DEFINE Q(k) == /\ entries[k] = Placeholder(b)
                     /\ \A j \in 1..(k - 1) : entries[j] # Placeholder(b)
  <2>1. /\ DOMAIN entries = 1..Len(entries) /\ Len(entries) \in Nat
        /\ \A i, j \in 1..Len(entries) : entries[i] = entries[j] => i = j
    BY ListsElements DEF Lists
  <2>2. PICK i \in DOMAIN entries : entries[i] = Placeholder(b)
    BY <1>1
  <2>3. Q(i) /\ \A k \in DOMAIN entries : Q(k) => k = i
    BY <2>1, <2>2
  <2>4. (CHOOSE k \in DOMAIN entries : Q(k)) = i
    <3> HIDE DEF Q
    <3> QED
      BY <2>3
  <2>5. Finish(entries, b) = [entries EXCEPT ![i] = Finished(b)]
    BY <1>1, <2>4 DEF Finish
  <2>6. Finished(b).block = entries[i].block
    BY <2>2 DEF Finished, Placeholder
  <2> DEFINE t == [entries EXCEPT ![i] = Finished(b)]
  <2>7. DOMAIN t = DOMAIN entries /\ \A k \in DOMAIN entries : t[k].block = entries[k].block
    BY <2>6
  <2> HIDE DEF t
  <2>8. Blocks(t) = Blocks(entries)
    BY <2>7 DEF Blocks
  <2> QED
    BY <2>5, <2>8 DEF t
<1>2. CASE ~ \E i \in DOMAIN entries : entries[i] = Placeholder(b)
  BY <1>2 DEF Finish
<1> QED
  BY <1>1, <1>2

-----------------------------------------------------------------------------
(***************************************************************************)
(* The inductive invariant                                                 *)
(***************************************************************************)

\* The three queues one after the other, without concatenating them.
InOrder(vd, vg, uv, A, F) ==
    /\ Behind(vd, A, F)
    /\ Behind(Blocks(vg), A \cup ToSet(vd), F)
    /\ Behind(uv, A \cup ToSet(vd) \cup BlocksOf(ToSet(vg)), F)

\* Where a parent no longer stands in the way of its child.
Elsewhere == chain \cup drainingSet \cup knownBad

\* BlockChain::import() accepts a block on a parent it has.
ChainRooted ==
    /\ Genesis \in chain
    /\ \A b \in chain \ {Genesis} : Parent[b] \in chain

\* A block that waits for its time is neither bad nor in the chain already.
FutureApart == future \cap (chain \cup knownBad) = {}

OrderInv ==
    /\ IInv
    /\ InOrder(verified, verifying, unverified, Elsewhere, forced)
    /\ VerifiedNotDoomed
    /\ ChainRooted
    /\ FutureApart

LEMMA InOrderMore ==
    ASSUME NEW vd, NEW vg, NEW uv, NEW A, NEW F, NEW B, NEW G,
           InOrder(vd, vg, uv, A, F), A \subseteq B, F \subseteq G
    PROVE  InOrder(vd, vg, uv, B, G)
<1>1. /\ A \cup ToSet(vd) \subseteq B \cup ToSet(vd)
      /\ A \cup ToSet(vd) \cup BlocksOf(ToSet(vg)) \subseteq B \cup ToSet(vd) \cup BlocksOf(ToSet(vg))
  OBVIOUS
<1> QED
  BY <1>1, BehindMore DEF InOrder

\* BlocksOf(ToSet(vg)) is what Blocks(vg) holds.
LEMMA BlocksToSet ==
    ASSUME NEW vg \in Seq(Entry)
    PROVE  ToSet(Blocks(vg)) = BlocksOf(ToSet(vg)) /\ Blocks(vg) \in Seq(Block)
<1>1. Blocks(vg) = [i \in 1..Len(vg) |-> vg[i].block] /\ Len(vg) \in Nat
  BY DEF Blocks
<1>2. \A i \in 1..Len(vg) : vg[i].block \in Block
  BY EntryFields
<1>3. Blocks(vg) \in Seq(Block)
  BY <1>1, <1>2
<1> QED
  BY <1>1, <1>3 DEF ToSet, BlocksOf

LEMMA InOrderParentFirst ==
    ASSUME TypeOK, InOrder(verified, verifying, unverified, Elsewhere, forced)
    PROVE  ParentFirst
<1> DEFINE bs == Blocks(verifying)
<1>1. verified \in Seq(Block) /\ bs \in Seq(Block) /\ unverified \in Seq(Block)
  BY BlocksToSet DEF TypeOK
<1>2. ToSet(bs) = BlocksOf(ToSet(verifying))
  BY BlocksToSet DEF TypeOK
<1>3. Behind(bs \o unverified, Elsewhere \cup ToSet(verified), forced)
  <2>1. Behind(bs, Elsewhere \cup ToSet(verified), forced)
    BY DEF InOrder
  <2>2. Behind(unverified, Elsewhere \cup ToSet(verified) \cup ToSet(bs), forced)
    BY <1>2 DEF InOrder
  <2> HIDE DEF bs
  <2> QED
    BY <1>1, <2>1, <2>2, BehindConcat
<1>4. Behind(verified, Elsewhere, forced)
  BY DEF InOrder
<1> HIDE DEF bs
<1>5. bs \o unverified \in Seq(Block)
  BY <1>1
<1>6. Behind(verified \o (bs \o unverified), Elsewhere, forced)
  BY <1>1, <1>3, <1>4, <1>5, BehindConcat
<1>7. verified \o (bs \o unverified) = Pipeline
  BY <1>1 DEF Pipeline, bs
<1>8. Pipeline \in Seq(Block)
  <2>1. verified \o (bs \o unverified) \in Seq(Block)
    BY <1>1, <1>5, ConcatProperties
  <2> QED
    BY <1>7, <2>1
<1>9. DOMAIN Pipeline = 1..Len(Pipeline)
  BY <1>8
<1> QED
  BY <1>6, <1>7, <1>9 DEF ParentFirst, Behind, Elsewhere

-----------------------------------------------------------------------------
(***************************************************************************)
(* The order of three queues, whatever else their parents may be           *)
(***************************************************************************)

\* The blocks of m_verifying with one more place.
LEMMA BlocksOfAppend ==
    ASSUME NEW vg \in Seq(Entry), NEW b \in Block
    PROVE  /\ Blocks(Append(vg, Placeholder(b))) = Blocks(vg) \o <<b>>
           /\ BlocksOf(ToSet(Append(vg, Placeholder(b)))) = BlocksOf(ToSet(vg)) \cup {b}
<1> DEFINE bs == Blocks(vg)
           p == Placeholder(b)
           new == Append(vg, p)
<1>1. p \in Entry /\ p.block = b
  BY PlaceholderFields
<1> HIDE DEF p
<1>2. /\ new \in Seq(Entry) /\ Len(new) = Len(vg) + 1 /\ Len(vg) \in Nat
      /\ \A i \in 1..Len(new) : new[i] = IF i <= Len(vg) THEN vg[i] ELSE p
      /\ DOMAIN vg = 1..Len(vg) /\ DOMAIN new = 1..Len(new)
  BY <1>1
<1>3. /\ bs \in Seq(Block) /\ Len(bs) = Len(vg)
      /\ \A i \in 1..Len(vg) : bs[i] = vg[i].block
  BY BlocksToSet DEF Blocks
<1> HIDE DEF new
<1>4. /\ Blocks(new) \in Seq(Block) /\ Len(Blocks(new)) = Len(new)
      /\ \A i \in 1..Len(new) : Blocks(new)[i] = new[i].block
  <2>1. Blocks(new) \in Seq(Block)
    BY <1>2, BlocksToSet
  <2>2. Len(Blocks(new)) = Len(new) /\ \A i \in 1..Len(new) : Blocks(new)[i] = new[i].block
    BY <1>2 DEF Blocks
  <2> QED
    BY <2>1, <2>2
<1> HIDE DEF bs
<1>5. /\ bs \o <<b>> \in Seq(Block) /\ Len(bs \o <<b>>) = Len(bs) + 1
      /\ \A i \in 1..(Len(bs) + 1) : (bs \o <<b>>)[i] = IF i <= Len(bs) THEN bs[i] ELSE b
  BY <1>3
<1>6. ASSUME NEW i \in 1..(Len(vg) + 1)
      PROVE  Blocks(new)[i] = (bs \o <<b>>)[i]
  <2>1. Blocks(new)[i] = new[i].block
    BY <1>2, <1>4
  <2>2. CASE i <= Len(vg)
    <3>1. i \in 1..Len(vg) /\ new[i] = vg[i]
      BY <1>2, <2>2
    <3>2. (bs \o <<b>>)[i] = bs[i]
      BY <1>3, <1>5, <2>2
    <3> QED
      BY <1>3, <2>1, <3>1, <3>2
  <2>3. CASE ~(i <= Len(vg))
    <3>1. new[i] = p
      BY <1>2, <2>3
    <3>2. (bs \o <<b>>)[i] = b
      BY <1>3, <1>5, <2>3
    <3> QED
      BY <1>1, <2>1, <3>1, <3>2
  <2> QED
    BY <2>2, <2>3
<1>7. Blocks(new) = bs \o <<b>>
  BY <1>2, <1>3, <1>4, <1>5, <1>6, SeqEqual
<1>8. ToSet(new) = ToSet(vg) \cup {p}
  <2>1. Len(new) \in DOMAIN new /\ new[Len(new)] = p
    BY <1>2
  <2>2. \A i \in DOMAIN vg : i \in DOMAIN new /\ new[i] = vg[i]
    BY <1>2
  <2>3. \A i \in DOMAIN new : i \in DOMAIN vg \/ new[i] = p
    BY <1>2
  <2> QED
    BY <2>1, <2>2, <2>3 DEF ToSet
<1>9. BlocksOf(ToSet(new)) = BlocksOf(ToSet(vg)) \cup {b}
  BY <1>1, <1>8 DEF BlocksOf
<1> QED
  BY <1>7, <1>9 DEF new, bs, p

\* The head of a queue and the rest.
LEMMA HeadAndTail ==
    ASSUME NEW uv \in Seq(Block), uv # <<>>
    PROVE  /\ Head(uv) \in Block /\ Tail(uv) \in Seq(Block)
           /\ Len(uv) \in Nat /\ 1 <= Len(uv)
           /\ SubSeq(uv, 1, 1) = <<Head(uv)>>
           /\ SubSeq(uv, 1 + 1, Len(uv)) = Tail(uv)
           /\ ToSet(<<Head(uv)>>) = {Head(uv)}
           /\ <<Head(uv)>> \in Seq(Block)
<1>1. Len(uv) \in Nat /\ 1 <= Len(uv) /\ Head(uv) \in Block /\ Tail(uv) \in Seq(Block)
  OBVIOUS
<1>2. SubSeq(uv, 2, Len(uv)) = Tail(uv)
  BY <1>1, TailIsSubSeq
<1>3. SubSeq(uv, 1, 1) = <<Head(uv)>>
  <2> DEFINE one == SubSeq(uv, 1, 1)
             b == Head(uv)
  <2>1. one \in Seq(Block) /\ Len(one) = 1 /\ one[1] = uv[1]
    BY <1>1, SubSeqProperties
  <2>2. uv[1] = b
    BY <1>1
  <2> HIDE DEF one, b
  <2>3. b \in Block
    BY <1>1 DEF b
  <2>4. <<b>> \in Seq(Block) /\ Len(<<b>>) = 1 /\ <<b>>[1] = b
    BY <2>3
  <2>5. \A i \in 1..1 : one[i] = <<b>>[i]
    BY <2>1, <2>2, <2>4
  <2>6. one = <<b>>
    BY <2>1, <2>4, <2>5, SeqEqual
  <2> QED
    BY <2>6 DEF one, b
<1>4. \A b \in Block : ToSet(<<b>>) = {b} /\ <<b>> \in Seq(Block)
  BY DEF ToSet
<1> QED
  BY <1>1, <1>2, <1>3, <1>4

\* A verifier takes the next block: its place is at the end of m_verifying.
LEMMA TakeInOrder ==
    ASSUME NEW vd \in Seq(Block), NEW vg \in Seq(Entry), NEW uv \in Seq(Block), uv # <<>>,
           NEW A, NEW F, InOrder(vd, vg, uv, A, F)
    PROVE  InOrder(vd, Append(vg, Placeholder(Head(uv))), Tail(uv), A, F)
<1> DEFINE b == Head(uv)
           bs == Blocks(vg)
           B == A \cup ToSet(vd)
           C == B \cup ToSet(bs)
<1>1. /\ b \in Block /\ Tail(uv) \in Seq(Block) /\ Len(uv) \in Nat /\ 1 <= Len(uv)
      /\ SubSeq(uv, 1, 1) = <<b>> /\ SubSeq(uv, 1 + 1, Len(uv)) = Tail(uv)
      /\ ToSet(<<b>>) = {b} /\ <<b>> \in Seq(Block)
  BY HeadAndTail
<1>2. /\ bs \in Seq(Block) /\ ToSet(bs) = BlocksOf(ToSet(vg))
      /\ Behind(bs, B, F) /\ Behind(uv, C, F)
  BY BlocksToSet DEF InOrder
<1> HIDE DEF b, bs, B
<1>3. Behind(<<b>>, C, F) /\ Behind(Tail(uv), C \cup {b}, F)
  <2> HIDE DEF C
  <2>1. /\ Behind(SubSeq(uv, 1, 1), C, F)
        /\ Behind(SubSeq(uv, 1 + 1, Len(uv)), C \cup ToSet(SubSeq(uv, 1, 1)), F)
    BY <1>1, <1>2, BehindCut
  <2> QED
    BY <1>1, <2>1
<1>4. Behind(bs \o <<b>>, B, F)
  BY <1>1, <1>2, <1>3, BehindConcat
<1>5. /\ Blocks(Append(vg, Placeholder(b))) = bs \o <<b>>
      /\ BlocksOf(ToSet(Append(vg, Placeholder(b)))) = ToSet(bs) \cup {b}
  BY <1>1, <1>2, BlocksOfAppend DEF bs
<1>6. /\ Behind(vd, A, F)
      /\ C \cup {b} = A \cup ToSet(vd) \cup BlocksOf(ToSet(Append(vg, Placeholder(b))))
  BY <1>5 DEF InOrder, B
<1> QED
  BY <1>3, <1>4, <1>5, <1>6 DEF InOrder, b, B

\* What leaves the queues is something for the rest to lean on.
LEMMA StrikeOutInOrder ==
    ASSUME NEW vd \in Seq(Block), NEW E \in SUBSET Entry, NEW vg, Lists(vg, E),
           NEW uv \in Seq(Block), NEW S, NEW gone, \A e \in E \cap gone : e.block \in S,
           NEW A, NEW F, InOrder(vd, vg, uv, A, F)
    PROVE  InOrder(Without(vd, S), Without(vg, gone), Without(uv, S), A \cup S, F)
<1>1. ToSet(vg) = E /\ ToSet(Without(vg, gone)) = E \ gone
  BY ListsWithout, ListsToSet
<1>2. ToSet(vd) \subseteq ToSet(Without(vd, S)) \cup S
  <2>1. ASSUME NEW i \in 1..Len(vd), vd[i] \notin S PROVE vd[i] \in ToSet(Without(vd, S))
    <3> DEFINE w == Without(vd, S)
               f == KeptAt(vd, S)
    <3>1. /\ w \in Seq(Block)
          /\ \A k \in 1..Len(w) : f[k] \in Kept(vd, S) /\ w[k] = vd[f[k]]
          /\ \A j \in Kept(vd, S) : \E k \in 1..Len(w) : f[k] = j
      BY WithoutRenumbers
    <3>2. i \in Kept(vd, S)
      BY <2>1 DEF Kept
    <3> HIDE DEF w, f
    <3>3. PICK k \in 1..Len(w) : f[k] = i
      BY <3>1, <3>2
    <3>4. w[k] = vd[i] /\ k \in DOMAIN w
      BY <3>1, <3>3
    <3>5. vd[i] \in ToSet(w)
      BY <3>4 DEF ToSet
    <3> QED
      BY <3>5 DEF w
  <2> QED
    BY <2>1 DEF ToSet
<1>3. BlocksOf(E) \subseteq BlocksOf(E \ gone) \cup S
  BY DEF BlocksOf
<1>4. Behind(Without(vd, S), A \cup S, F)
  BY BehindWithout DEF InOrder
<1>5. Behind(Blocks(Without(vg, gone)), A \cup S \cup ToSet(Without(vd, S)), F)
  <2> DEFINE B == A \cup ToSet(vd)
  <2>1. Behind(Blocks(vg), B, F)
    BY DEF InOrder
  <2> HIDE DEF B
  <2>2. Behind(Blocks(Without(vg, gone)), B \cup S, F)
    BY <2>1, BehindEntries
  <2>3. B \cup S \subseteq A \cup S \cup ToSet(Without(vd, S))
    BY <1>2 DEF B
  <2> QED
    BY <2>2, <2>3, BehindMore
<1>6. Behind(Without(uv, S), A \cup S \cup ToSet(Without(vd, S)) \cup BlocksOf(ToSet(Without(vg, gone))), F)
  <2> DEFINE B == A \cup ToSet(vd) \cup BlocksOf(ToSet(vg))
  <2>1. Behind(uv, B, F)
    BY DEF InOrder
  <2> HIDE DEF B
  <2>2. Behind(Without(uv, S), B \cup S, F)
    BY <2>1, BehindWithout
  <2>3. B \cup S \subseteq A \cup S \cup ToSet(Without(vd, S)) \cup BlocksOf(ToSet(Without(vg, gone)))
    BY <1>1, <1>2, <1>3 DEF B
  <2> QED
    BY <2>2, <2>3, BehindMore
<1> QED
  BY <1>4, <1>5, <1>6 DEF InOrder

\* drain(): the front of m_verified, and what stays behind it.
LEMMA DrainInOrder ==
    ASSUME NEW vd \in Seq(Block), NEW vg, NEW uv, NEW n \in Nat, n <= Len(vd),
           NEW A, NEW F, InOrder(vd, vg, uv, A, F)
    PROVE  /\ Behind(SubSeq(vd, 1, n), A, F)
           /\ InOrder(SubSeq(vd, n + 1, Len(vd)), vg, uv, A \cup ToSet(SubSeq(vd, 1, n)), F)
<1> DEFINE out == SubSeq(vd, 1, n)
           rest == SubSeq(vd, n + 1, Len(vd))
<1>1. Behind(out, A, F) /\ Behind(rest, A \cup ToSet(out), F)
  BY BehindCut DEF InOrder
<1>2. /\ out \in Seq(Block) /\ Len(out) = n /\ \A i \in 1..n : out[i] = vd[i]
      /\ rest \in Seq(Block) /\ Len(rest) = Len(vd) - n
      /\ \A i \in 1..(Len(vd) - n) : rest[i] = vd[n + i]
  BY SubSeqProperties
<1>3. ToSet(vd) \subseteq ToSet(out) \cup ToSet(rest)
  <2> HIDE DEF out, rest
  <2>1. ASSUME NEW i \in 1..Len(vd) PROVE vd[i] \in ToSet(out) \cup ToSet(rest)
    <3>1. Len(vd) \in Nat /\ i \in Nat /\ DOMAIN out = 1..n /\ DOMAIN rest = 1..(Len(vd) - n)
      BY <1>2
    <3>2. CASE i <= n
      <4>1. i \in DOMAIN out /\ out[i] = vd[i]
        BY <1>2, <3>1, <3>2
      <4> QED
        BY <4>1 DEF ToSet
    <3>3. CASE ~(i <= n)
      <4>1. i - n \in 1..(Len(vd) - n) /\ n + (i - n) = i
        BY <3>1, <3>3
      <4>2. rest[i - n] = vd[i] /\ i - n \in DOMAIN rest
        BY <1>2, <3>1, <4>1
      <4> QED
        BY <4>2 DEF ToSet
    <3> QED
      BY <3>2, <3>3
  <2> QED
    BY <2>1 DEF ToSet
<1> HIDE DEF out, rest
<1>4. Behind(Blocks(vg), A \cup ToSet(out) \cup ToSet(rest), F)
  <2>1. A \cup ToSet(vd) \subseteq A \cup ToSet(out) \cup ToSet(rest)
    BY <1>3
  <2> QED
    BY <2>1, BehindMore DEF InOrder
<1>5. Behind(uv, A \cup ToSet(out) \cup ToSet(rest) \cup BlocksOf(ToSet(vg)), F)
  <2>1. A \cup ToSet(vd) \cup BlocksOf(ToSet(vg))
           \subseteq A \cup ToSet(out) \cup ToSet(rest) \cup BlocksOf(ToSet(vg))
    BY <1>3
  <2> QED
    BY <2>1, BehindMore DEF InOrder
<1> QED
  BY <1>1, <1>4, <1>5 DEF InOrder, out, rest

\* import(): a block whose parent is at hand, and a cascade behind it.
LEMMA ImportReadyInOrder ==
    ASSUME NEW vd, NEW vg, NEW uv \in Seq(Block), NEW A, NEW F, InOrder(vd, vg, uv, A, F),
           NEW b \in Block, NEW s \in Seq(Block), Behind(s, {b}, F),
           Parent[b] \in A \cup ToSet(vd) \cup BlocksOf(ToSet(vg)) \cup ToSet(uv)
    PROVE  InOrder(vd, vg, uv \o <<b>> \o s, A, F)
<1> DEFINE B == A \cup ToSet(vd) \cup BlocksOf(ToSet(vg))
           one == <<b>>
           two == uv \o one
<1>1. Behind(uv, B, F) /\ Behind(one, B \cup ToSet(uv), F)
  BY DEF InOrder, Behind
<1>2. one \in Seq(Block) /\ ToSet(one) = {b}
  <2>1. one \in Seq(Block)
    OBVIOUS
  <2>2. ToSet(one) = {b}
    BY DEF ToSet
  <2> QED
    BY <2>1, <2>2
<1> HIDE DEF B, one
<1>3. two \in Seq(Block) /\ ToSet(two) = ToSet(uv) \cup {b} /\ Behind(two, B, F)
  BY <1>1, <1>2, ConcatProperties, ConcatToSet, BehindConcat
<1> HIDE DEF two
<1>4. Behind(two \o s, B, F)
  BY <1>3, BehindConcat
<1> QED
  BY <1>4 DEF InOrder, B, one, two

LEMMA NothingInOrder == \A A, F : InOrder(<<>>, <<>>, <<>>, A, F)
<1>1. Blocks(<<>>) = <<>>
  BY DEF Blocks
<1> QED
  BY <1>1, BehindNothing DEF InOrder

\* retryAllUnknown(): blocks that nothing is asked of.
LEMMA RetryInOrder ==
    ASSUME NEW vd, NEW vg, NEW uv \in Seq(Block), NEW A, NEW F, InOrder(vd, vg, uv, A, F),
           NEW G, F \subseteq G, NEW s \in Seq(Block), \A i \in 1..Len(s) : s[i] \in G
    PROVE  InOrder(vd, vg, uv \o s, A, G)
<1> DEFINE B == A \cup ToSet(vd) \cup BlocksOf(ToSet(vg))
<1>1. InOrder(vd, vg, uv, A, G)
  BY InOrderMore
<1>2. Behind(uv, B, G)
  BY <1>1 DEF InOrder
<1>3. Behind(s, {}, G)
  BY DEF Behind
<1> HIDE DEF B
<1>4. {} \subseteq B \cup ToSet(uv)
  OBVIOUS
<1>5. Behind(uv \o s, B, G)
  BY <1>2, <1>3, <1>4, BehindConcat
<1> QED
  BY <1>1, <1>5 DEF InOrder, B

\* drainVerified_WITH_BOTH_LOCKS: what it refuses is among the bad of B.
LEMMA DrainVerifiedInOrder ==
    ASSUME NEW E \in SUBSET Entry, NEW entries, Lists(entries, E), OneEntryEach(E),
           verified \in Seq(Block), NEW A, NEW F, Behind(verified, A, F),
           Behind(Blocks(entries), A \cup ToSet(verified), F),
           Behind(unverified, A \cup ToSet(verified) \cup BlocksOf(E), F),
           NEW ready, NEW bad, DrainVerified(entries, ready, bad), unverified' = unverified,
           NEW B, A \cup knownBad' \subseteq B
    PROVE  InOrder(verified', verifying', unverified', B, F)
<1> DEFINE n == FinishedPrefix(entries)
           bs == Blocks(entries)
           front == SubSeq(bs, 1, n)
           rest == SubSeq(entries, n + 1, Len(entries))
           C == A \cup ToSet(verified)
<1>1. /\ entries \in Seq(Entry) /\ Len(entries) \in Nat
      /\ \A i \in 1..Len(entries) : entries[i] \in E
  BY ListsElements, SeqMonotonic
<1>2. n \in Nat /\ n <= Len(entries)
  BY <1>1, FinishedPrefixDone
<1>3. /\ bs \in Seq(Block) /\ Len(bs) = Len(entries)
      /\ \A i \in 1..Len(entries) : bs[i] = entries[i].block
      /\ Lists(bs, BlocksOf(E))
  BY BlocksList
<1>4. PICK refused \in SUBSET ToSet(front) :
         /\ \A i \in 1..n :
               front[i] \in refused <=>
                   Parent[front[i]] \in bad \cup
                       {front[j] : j \in {k \in 1..(i - 1) : front[k] \in refused}}
         /\ verifying' = rest
         /\ verified' = verified \o Without(front, refused)
         /\ knownBad' = bad \cup refused
  BY DEF DrainVerified
<1> HIDE DEF n, bs
<1>5. /\ Behind(front, C, F)
      /\ Behind(SubSeq(bs, n + 1, Len(bs)), C \cup ToSet(front), F)
  <2>1. Behind(bs, C, F)
    BY DEF bs
  <2> HIDE DEF C
  <2> QED
    BY <1>2, <1>3, <2>1, BehindCut
<1>6. Lists(front, FirstOf(bs, n)) /\ FirstOf(bs, n) \subseteq BlocksOf(E)
  BY <1>2, <1>3, ListsCut
<1>7. /\ front \in Seq(Block) /\ Len(front) = n /\ DOMAIN front = 1..n
      /\ ToSet(front) = FirstOf(bs, n) /\ ToSet(front) \subseteq BlocksOf(E)
  <2>1. front \in Seq(Block) /\ Len(front) = n
    BY <1>2, <1>3, SubSeqProperties
  <2> QED
    BY <1>6, <2>1, ListsToSet
<1>8. Blocks(rest) = SubSeq(bs, n + 1, Len(bs))
  <2>1. /\ rest \in Seq(Entry) /\ Len(rest) = Len(entries) - n
        /\ \A i \in 1..(Len(entries) - n) : rest[i] = entries[n + i]
    BY <1>1, <1>2, SubSeqProperties
  <2>2. /\ SubSeq(bs, n + 1, Len(bs)) \in Seq(Block)
        /\ Len(SubSeq(bs, n + 1, Len(bs))) = Len(entries) - n
        /\ \A i \in 1..(Len(entries) - n) : SubSeq(bs, n + 1, Len(bs))[i] = bs[n + i]
    BY <1>1, <1>2, <1>3, SubSeqProperties
  <2> HIDE DEF rest
  <2>3. /\ Blocks(rest) \in Seq(Block) /\ Len(Blocks(rest)) = Len(rest)
        /\ \A i \in 1..Len(rest) : Blocks(rest)[i] = rest[i].block
    <3>1. Blocks(rest) \in Seq(Block)
      BY <2>1, BlocksToSet
    <3>2. Len(Blocks(rest)) = Len(rest) /\ \A i \in 1..Len(rest) : Blocks(rest)[i] = rest[i].block
      BY <2>1 DEF Blocks
    <3> QED
      BY <3>1, <3>2
  <2>4. \A i \in 1..(Len(entries) - n) : n + i \in 1..Len(entries)
    BY <1>1, <1>2
  <2>5. \A i \in 1..Len(Blocks(rest)) : Blocks(rest)[i] = SubSeq(bs, n + 1, Len(bs))[i]
    BY <1>3, <2>1, <2>2, <2>3, <2>4
  <2> QED
    BY <2>1, <2>2, <2>3, <2>5, SeqEqual
<1> HIDE DEF front, rest
<1> DEFINE w == Without(front, refused)
<1>9. w \in Seq(Block) /\ ToSet(w) = ToSet(front) \ refused
  <2>1. Lists(w, ToSet(front) \ refused)
    BY <1>6, <1>7, ListsWithout
  <2>2. ToSet(front) \ refused \subseteq Block
    BY <1>7 DEF ToSet
  <2> QED
    BY <2>1, <2>2, ListsToSet, ListsElements, SeqMonotonic
<1>10. ToSet(verified') = ToSet(verified) \cup ToSet(w)
  <2> HIDE DEF w
  <2>1. verified' = verified \o w
    BY <1>4 DEF w
  <2> QED
    BY <1>9, <2>1, ConcatToSet
<1>11. refused \subseteq B
  BY <1>4
<1>12. Behind(verified', B, F)
  <2>1. Behind(w, C \cup refused, F)
    BY <1>5, <1>7, BehindWithout
  <2>2. Behind(verified, B, F)
    BY BehindMore
  <2>3. C \cup refused \subseteq B \cup ToSet(verified)
    BY <1>11
  <2> HIDE DEF w, C
  <2>4. Behind(verified \o w, B, F)
    BY <1>9, <2>1, <2>2, <2>3, BehindConcat
  <2> QED
    BY <1>4, <2>4 DEF w
<1>13. Behind(Blocks(verifying'), B \cup ToSet(verified'), F)
  <2>1. C \cup ToSet(front) \subseteq B \cup ToSet(verified')
    BY <1>9, <1>10, <1>11
  <2> HIDE DEF C, w
  <2> QED
    BY <1>4, <1>5, <1>8, <2>1, BehindMore
<1>14. Behind(unverified', B \cup ToSet(verified') \cup BlocksOf(ToSet(verifying')), F)
  <2>1. BlocksOf(E) \subseteq ToSet(front) \cup BlocksOf(ToSet(verifying'))
    <3>1. ToSet(verifying') = E \ FirstOf(entries, n)
      <4>1. Lists(rest, E \ FirstOf(entries, n))
        BY <1>2, ListsCut DEF rest
      <4> QED
        BY <1>4, <4>1, ListsToSet
    <3>2. BlocksOf(FirstOf(entries, n)) = FirstOf(bs, n)
      <4>1. \A i \in 1..n : i \in 1..Len(entries) /\ bs[i] = entries[i].block
        BY <1>1, <1>2, <1>3
      <4> QED
        BY <4>1 DEF BlocksOf, FirstOf
    <3> QED
      BY <1>7, <3>1, <3>2 DEF BlocksOf
  <2>2. A \cup ToSet(verified) \cup BlocksOf(E)
           \subseteq B \cup ToSet(verified') \cup BlocksOf(ToSet(verifying'))
    BY <1>9, <1>10, <1>11, <2>1
  <2> QED
    BY <2>2, BehindMore
<1> QED
  BY <1>12, <1>13, <1>14 DEF InOrder

-----------------------------------------------------------------------------
(***************************************************************************)
(* Every action keeps it                                                   *)
(***************************************************************************)

LEMMA OrderInit == Init => OrderInv
<1> SUFFICES ASSUME Init
             PROVE  OrderInv
  OBVIOUS
<1>1. Blocks(<<>>) = <<>> /\ ToSet(<<>>) = {}
  BY DEF Blocks, ToSet
<1>2. InOrder(verified, verifying, unverified, Elsewhere, forced)
  BY <1>1, BehindNothing DEF Init, InOrder
<1>3. VerifiedNotDoomed
  BY <1>1 DEF Init, VerifiedNotDoomed
<1>4. ChainRooted /\ FutureApart
  BY DEF Init, ChainRooted, FutureApart
<1> QED
  BY <1>2, <1>3, <1>4, InitEstablishes DEF OrderInv

\* What a step that leaves the queues alone has to show.
LEMMA OrderAlone ==
    ASSUME OrderInv, IInv', UNCHANGED <<queueVars, knownBad, drainingSet, chain, forced>>,
           future' \cap (chain \cup knownBad) = {}
    PROVE  OrderInv'
<1> USE DEF queueVars
<1>1. InOrder(verified', verifying', unverified', Elsewhere', forced')
  BY DEF OrderInv, Elsewhere
<1>2. VerifiedNotDoomed' /\ ChainRooted' /\ FutureApart'
  BY DEF OrderInv, VerifiedNotDoomed, ChainRooted, FutureApart
<1> QED
  BY <1>1, <1>2 DEF OrderInv

LEMMA OrderChainImport ==
    ASSUME OrderInv, IInv', NEW b \in Block, ChainImport(b)
    PROVE  OrderInv'
<1> USE DEF setVars, waitVars, queueVars
<1>1. /\ b \in drainingSet /\ Parent[b] \in chain /\ chain' = chain \cup {b}
      /\ UNCHANGED <<setVars, waitVars, queueVars, forced>>
  BY DEF ChainImport
<1>2. Elsewhere \subseteq Elsewhere'
  BY <1>1 DEF Elsewhere
<1>3. InOrder(verified', verifying', unverified', Elsewhere', forced')
  BY <1>1, <1>2, InOrderMore DEF OrderInv
<1>4. VerifiedNotDoomed' /\ ChainRooted'
  BY <1>1 DEF OrderInv, VerifiedNotDoomed, ChainRooted
<1>5. FutureApart'
  BY <1>1 DEF OrderInv, FutureApart, IInv, OnePlace
<1> QED
  BY <1>3, <1>4, <1>5 DEF OrderInv

\* updateBad: what it takes out of the queues turns bad.
LEMMA OrderStrikeOut ==
    ASSUME OrderInv, IInv', NEW bad \in SUBSET Block, NEW S \in SUBSET Block,
           IsStruckOut(S, bad), StrikeOut(S, bad),
           drainingSet \subseteq drainingSet' \cup chain \cup bad,
           bad \cap future = {}, UNCHANGED <<chain, forced, future>>
    PROVE  OrderInv'
<1>1. PICK V \in SUBSET Block, U \in SUBSET Block, E \in SUBSET Entry :
         /\ Lists(verified, V) /\ ToSet(verified) = V
         /\ Lists(verifying, E) /\ ToSet(verifying) = E
         /\ Lists(unverified, U) /\ ToSet(unverified) = U
  BY QueuesSets DEF OrderInv
<1>2. /\ TypeOK /\ OnePlace /\ Queues(verified, verifying, unverified, readySet)
      /\ InOrder(verified, verifying, unverified, Elsewhere, forced)
  BY DEF OrderInv, IInv
<1> DEFINE gone == {e \in ToSet(verifying) :
                       \/ Parent[e.block] \in knownBad \cup bad \cup S
                       \/ e \in {Placeholder(b) : b \in knownBad \cup bad \cup S}}
<1>3. /\ knownBad' = knownBad \cup bad \cup S
      /\ verified' = Without(verified, S)
      /\ unverified' = Without(unverified, S)
      /\ verifying' = Without(verifying, gone)
  BY DEF StrikeOut
<1>4. \A e \in ToSet(verifying) \ ToSet(verifying') : e.block \in S
  BY <1>2, StrikeOutMoves
<1> HIDE DEF gone
<1>5. ToSet(verified') = V \ S /\ ToSet(unverified') = U \ S /\ ToSet(verifying') = E \ gone
  <2>1. Lists(verified', V \ S) /\ Lists(unverified', U \ S)
    BY <1>1, <1>3, ListsWithout
  <2>2. Lists(verifying', E \ gone)
    BY <1>1, <1>3, ListsWithout
  <2> QED
    BY <2>1, <2>2, ListsToSet
<1>6. \A e \in E \cap gone : e.block \in S
  BY <1>1, <1>4, <1>5
<1>7. Elsewhere \cup S \subseteq Elsewhere'
  BY <1>3 DEF Elsewhere
<1>8. verified \in Seq(Block) /\ unverified \in Seq(Block)
  BY <1>2 DEF TypeOK
<1>9. InOrder(verified', verifying', unverified', Elsewhere', forced')
  <2>1. InOrder(Without(verified, S), Without(verifying, gone), Without(unverified, S),
                Elsewhere \cup S, forced)
    BY <1>1, <1>2, <1>6, <1>8, StrikeOutInOrder
  <2> QED
    BY <1>3, <1>7, <2>1, InOrderMore
<1>10. VerifiedNotDoomed'
  <2>1. \A b \in ToSet(verified) : Parent[b] \in S \cup knownBad \cup bad => b \in S
    BY DEF IsStruckOut
  <2> QED
    BY <1>1, <1>3, <1>5, <2>1 DEF VerifiedNotDoomed
<1>11. FutureApart'
  <2>1. S \subseteq unknown \cup readySet
    BY <1>2, StrikeOutMoves
  <2> QED
    BY <1>2, <1>3, <2>1 DEF OrderInv, OnePlace, FutureApart
<1> QED
  BY <1>9, <1>10, <1>11 DEF OrderInv, ChainRooted

LEMMA OrderVerifierTake ==
    ASSUME OrderInv, IInv', NEW v \in Verifier, VerifierTake(v)
    PROVE  OrderInv'
<1>1. /\ unverified # <<>>
      /\ unverified' = Tail(unverified)
      /\ verifying' = Append(verifying, Placeholder(Head(unverified)))
      /\ UNCHANGED <<setVars, future, verified, chain, forced>>
  BY DEF VerifierTake, waitVars
<1>2. /\ verified \in Seq(Block) /\ verifying \in Seq(Entry) /\ unverified \in Seq(Block)
      /\ InOrder(verified, verifying, unverified, Elsewhere, forced)
  BY DEF OrderInv, IInv, TypeOK
<1>3. InOrder(verified', verifying', unverified', Elsewhere, forced)
  BY <1>1, <1>2, TakeInOrder
<1> QED
  BY <1>1, <1>3 DEF OrderInv, VerifiedNotDoomed, ChainRooted, FutureApart, Elsewhere, setVars

\* drainVerified_WITH_BOTH_LOCKS refuses what stands on a bad block, and as the
\* parent is ahead in the queue nothing that stands on a bad block gets past it.
LEMMA OrderDrainVerified ==
    ASSUME OrderInv, IInv', NEW E \in SUBSET Entry, NEW entries, Lists(entries, E),
           OneEntryEach(E), ToSet(verified) \cap BlocksOf(E) = {},
           NEW gone \in SUBSET Block,
           gone \subseteq knownBad \cup (readySet \ ToSet(verified)),
           BlocksOf(E) \subseteq readySet,
           BlocksOf(ToSet(verifying)) \subseteq BlocksOf(E) \cup gone,
           Behind(Blocks(entries), Elsewhere \cup ToSet(verified) \cup gone, forced),
           NEW ready, DrainVerified(entries, ready, knownBad \cup gone),
           UNCHANGED <<drainingSet, waitVars, unverified, chain, forced>>
    PROVE  OrderInv'
<1> DEFINE n == FinishedPrefix(entries)
           bs == Blocks(entries)
           front == SubSeq(bs, 1, n)
           bad == knownBad \cup gone
           A == Elsewhere \cup ToSet(verified) \cup gone
<1>1. /\ entries \in Seq(Entry) /\ Len(entries) \in Nat
      /\ \A i \in 1..Len(entries) : entries[i] \in E
  BY ListsElements, SeqMonotonic
<1>2. n \in Nat /\ n <= Len(entries)
  BY <1>1, FinishedPrefixDone
<1>3. /\ bs \in Seq(Block) /\ Len(bs) = Len(entries)
      /\ \A i \in 1..Len(entries) : bs[i] = entries[i].block
      /\ Lists(bs, BlocksOf(E))
  BY BlocksList
<1>4. PICK refused \in SUBSET ToSet(front) :
         /\ \A i \in 1..n :
               front[i] \in refused <=>
                   Parent[front[i]] \in bad \cup
                       {front[j] : j \in {k \in 1..(i - 1) : front[k] \in refused}}
         /\ verified' = verified \o Without(front, refused)
         /\ knownBad' = bad \cup refused
  BY DEF DrainVerified
<1> HIDE DEF n, bs
<1>5. Behind(front, A, forced)
  <2>1. Behind(bs, A, forced)
    BY DEF bs
  <2> HIDE DEF A
  <2> QED
    BY <1>2, <1>3, <2>1, BehindCut
<1>6. Lists(front, FirstOf(bs, n)) /\ FirstOf(bs, n) \subseteq BlocksOf(E)
  BY <1>2, <1>3, ListsCut
<1>7. /\ front \in Seq(Block) /\ Len(front) = n /\ DOMAIN front = 1..n
      /\ ToSet(front) = FirstOf(bs, n) /\ ToSet(front) \subseteq BlocksOf(E)
  <2>1. front \in Seq(Block) /\ Len(front) = n
    BY <1>2, <1>3, SubSeqProperties
  <2> QED
    BY <1>6, <2>1, ListsToSet
<1> HIDE DEF front
<1> DEFINE w == Without(front, refused)
<1>9. w \in Seq(Block) /\ ToSet(w) = ToSet(front) \ refused
  <2>1. Lists(w, ToSet(front) \ refused)
    BY <1>6, <1>7, ListsWithout
  <2>2. ToSet(front) \ refused \subseteq Block
    BY <1>7 DEF ToSet
  <2> QED
    BY <2>1, <2>2, ListsToSet, ListsElements, SeqMonotonic
<1>10. verified \in Seq(Block) /\ ToSet(verified') = ToSet(verified) \cup ToSet(w)
  <2>1. verified \in Seq(Block)
    BY DEF OrderInv, IInv, TypeOK
  <2> HIDE DEF w
  <2>2. verified' = verified \o w
    BY <1>4 DEF w
  <2> QED
    BY <1>9, <2>1, <2>2, ConcatToSet
<1>11. Elsewhere \cup gone \cup refused \subseteq Elsewhere'
  BY <1>4 DEF Elsewhere, waitVars
<1>12. InOrder(verified', verifying', unverified', Elsewhere', forced')
  <2> DEFINE B == Elsewhere \cup gone
  <2>1. Behind(verified, Elsewhere, forced)
    BY DEF OrderInv, InOrder
  <2>2. Behind(unverified, Elsewhere \cup ToSet(verified) \cup BlocksOf(ToSet(verifying)), forced)
    BY DEF OrderInv, InOrder
  <2>3. /\ Elsewhere \subseteq B
        /\ Elsewhere \cup ToSet(verified) \cup BlocksOf(ToSet(verifying))
               \subseteq B \cup ToSet(verified) \cup BlocksOf(E)
        /\ A = B \cup ToSet(verified)
    OBVIOUS
  <2>4. B \cup knownBad' \subseteq Elsewhere'
    BY <1>11 DEF Elsewhere
  <2> HIDE DEF A, B, bad
  <2>5. /\ Behind(verified, B, forced)
        /\ Behind(unverified, B \cup ToSet(verified) \cup BlocksOf(E), forced)
    BY <2>1, <2>2, <2>3, BehindMore
  <2>6. Behind(Blocks(entries), B \cup ToSet(verified), forced)
    BY <2>3 DEF A
  <2>7. DrainVerified(entries, ready, bad)
    BY DEF bad
  <2> QED
    BY <1>10, <2>4, <2>5, <2>6, <2>7, DrainVerifiedInOrder
<1>13. VerifiedNotDoomed'
  <2> SUFFICES ASSUME NEW b \in ToSet(verified'), Parent[b] \in bad \cup refused, b \notin forced
               PROVE  FALSE
    BY <1>4 DEF VerifiedNotDoomed
  <2>1. refused \subseteq readySet \ ToSet(verified)
    BY <1>7
  <2>2. (readySet \ ToSet(verified)) \cap Elsewhere = {}
    BY DEF OrderInv, IInv, OnePlace, Elsewhere
  <2>3. CASE b \in ToSet(verified)
    <3>1. PICK i \in 1..Len(verified) : verified[i] = b
      BY <1>10, <2>3 DEF ToSet
    <3>2. Parent[b] \in Elsewhere \/ \E j \in 1..(i - 1) : verified[j] = Parent[b]
      BY <3>1 DEF OrderInv, InOrder, Behind
    <3>3. \A j \in 1..(i - 1) : verified[j] \in ToSet(verified)
      BY <1>10, <3>1 DEF ToSet
    <3>4. Parent[b] \notin knownBad
      BY <2>3 DEF OrderInv, VerifiedNotDoomed
    <3> QED
      BY <2>1, <2>2, <3>2, <3>3, <3>4
  <2>4. CASE b \in ToSet(w)
    <3>1. PICK i \in 1..n : front[i] = b
      BY <1>7, <1>9, <2>4 DEF ToSet
    <3>2. b \notin refused
      BY <1>9, <2>4
    <3>3. /\ Parent[b] \notin bad
          /\ \A j \in 1..(i - 1) : front[j] \in refused => front[j] # Parent[b]
      BY <1>4, <3>1, <3>2
    <3>4. Parent[b] \in refused
      BY <3>3
    <3>5. Parent[b] \in A \/ \E j \in 1..(i - 1) : front[j] = Parent[b]
      BY <1>5, <1>7, <3>1 DEF Behind
    <3>6. Parent[b] \in A
      BY <3>3, <3>4, <3>5
    <3>7. refused \cap ToSet(verified) = {} /\ refused \cap Elsewhere = {}
      BY <2>1, <2>2
    <3> QED
      BY <3>3, <3>4, <3>6, <3>7
  <2> QED
    BY <1>10, <2>3, <2>4
<1>14. ChainRooted' /\ FutureApart'
  <2>1. gone \cup refused \subseteq knownBad \cup readySet
    BY <1>7
  <2>2. (knownBad \cup readySet) \cap future = {}
    BY DEF OrderInv, IInv, OnePlace, FutureApart
  <2> QED
    BY <1>4, <2>1, <2>2 DEF OrderInv, ChainRooted, FutureApart, waitVars
<1> QED
  BY <1>12, <1>13, <1>14 DEF OrderInv

LEMMA OrderVerifierFail ==
    ASSUME OrderInv, IInv', NEW v \in Verifier, VerifierFail(v)
    PROVE  OrderInv'
<1> DEFINE b == job[v]
           p == Placeholder(b)
           entries == Without(verifying, {p})
<1>1. /\ TypeOK /\ OnePlace /\ BusyHasJob /\ PlacesAndJobs
      /\ InOrder(verified, verifying, unverified, Elsewhere, forced)
  BY DEF OrderInv, IInv
<1>2. /\ pc[v] = "busy"
      /\ DrainVerified(entries, readySet \ {b}, knownBad \cup {b})
      /\ UNCHANGED <<drainingSet, waitVars, unverified, chain, forced>>
  BY DEF VerifierFail
<1>3. PICK V \in SUBSET Block, U \in SUBSET Block, E \in SUBSET Entry :
         /\ Lists(verified, V) /\ ToSet(verified) = V
         /\ Lists(verifying, E) /\ ToSet(verifying) = E
         /\ OneEntryEach(E)
         /\ V \cap BlocksOf(E) = {}
         /\ readySet = V \cup BlocksOf(E) \cup U
  BY QueuesSets DEF OrderInv
<1>4. b \in Block
  BY <1>1, <1>2 DEF TypeOK, BusyHasJob
<1>5. b \in knownBad \cup (readySet \ ToSet(verified))
  <2>1. p \in E \/ b \in knownBad
    BY <1>1, <1>3, <1>4, BlockAssumption DEF PlacesAndJobs
  <2>2. p.block = b
    BY <1>4, PlaceholderFields
  <2>3. p \in E => b \in BlocksOf(E)
    BY <2>2 DEF BlocksOf
  <2> QED
    BY <1>3, <2>1, <2>3
<1> DEFINE D == E \ {p}
<1>6. /\ Lists(entries, D) /\ D \in SUBSET Entry /\ OneEntryEach(D)
      /\ BlocksOf(D) \subseteq BlocksOf(E) /\ BlocksOf(E) \subseteq BlocksOf(D) \cup {b}
  <2>1. Lists(entries, D)
    BY <1>3, ListsWithout
  <2>2. p.block = b
    BY <1>4, PlaceholderFields
  <2> HIDE DEF p
  <2> QED
    BY <1>3, <2>1, <2>2 DEF BlocksOf, OneEntryEach
<1>7. Behind(Blocks(entries), Elsewhere \cup ToSet(verified) \cup {b}, forced)
  <2>1. \A e \in E \cap {p} : e.block \in {b}
    BY <1>4, PlaceholderFields
  <2>2. Behind(Blocks(verifying), Elsewhere \cup ToSet(verified), forced)
    BY <1>1 DEF InOrder
  <2> QED
    BY <1>3, <2>1, <2>2, BehindEntries
<1>8. {b} \in SUBSET Block /\ {b} \subseteq knownBad \cup (readySet \ ToSet(verified))
  BY <1>4, <1>5
<1>9. ToSet(verified) \cap BlocksOf(D) = {} /\ BlocksOf(D) \subseteq readySet
  BY <1>3, <1>6
<1>10. BlocksOf(ToSet(verifying)) \subseteq BlocksOf(D) \cup {b}
  BY <1>3, <1>6
<1> HIDE DEF b, entries, D
<1> QED
  BY <1>2, <1>6, <1>7, <1>8, <1>9, <1>10, OrderDrainVerified

LEMMA OrderVerifierSucceed ==
    ASSUME OrderInv, IInv', NEW v \in Verifier, VerifierSucceed(v)
    PROVE  OrderInv'
<1> DEFINE b == job[v]
           p == Placeholder(b)
           entries == Finish(verifying, b)
<1>1. /\ TypeOK /\ OnePlace /\ BusyHasJob /\ PlacesAndJobs
      /\ InOrder(verified, verifying, unverified, Elsewhere, forced)
  BY DEF OrderInv, IInv
<1>2. /\ pc[v] = "busy"
      /\ UNCHANGED <<drainingSet, waitVars, unverified, chain, forced>>
      /\ \/ DrainVerified(entries, readySet, knownBad)
         \/ verifying' = entries /\ UNCHANGED <<verified, readySet, knownBad>>
  BY DEF VerifierSucceed
<1>3. PICK V \in SUBSET Block, U \in SUBSET Block, E \in SUBSET Entry :
         /\ Lists(verified, V) /\ ToSet(verified) = V
         /\ Lists(verifying, E) /\ ToSet(verifying) = E
         /\ OneEntryEach(E)
         /\ V \cap BlocksOf(E) = {}
         /\ readySet = V \cup BlocksOf(E) \cup U
  BY QueuesSets DEF OrderInv
<1>4. b \in Block
  BY <1>1, <1>2 DEF TypeOK, BusyHasJob
<1>5. PICK D \in SUBSET Entry : /\ OneEntryEach(D)
                               /\ BlocksOf(D) = BlocksOf(E)
                               /\ Lists(entries, D)
  <2> DEFINE G == IF p \in E THEN (E \ {p}) \cup {Finished(b)} ELSE E
  <2>1. G \subseteq Entry /\ OneEntryEach(G) /\ BlocksOf(G) = BlocksOf(E) /\ Lists(entries, G)
    BY <1>3, <1>4, FinishList
  <2> HIDE DEF G
  <2> QED
    BY <2>1
<1>6. Blocks(entries) = Blocks(verifying)
  BY <1>3, <1>4, BlocksOfFinish
<1>7. ToSet(entries) = D
  BY <1>5, ListsToSet
<1> HIDE DEF b, p, entries
<1>8. CASE DrainVerified(entries, readySet, knownBad)
  <2>1. Behind(Blocks(entries), Elsewhere \cup ToSet(verified) \cup {}, forced)
    BY <1>1, <1>6 DEF InOrder
  <2>2. DrainVerified(entries, readySet, knownBad \cup {})
    BY <1>8
  <2>3. /\ ToSet(verified) \cap BlocksOf(D) = {}
        /\ BlocksOf(D) \subseteq readySet
        /\ BlocksOf(ToSet(verifying)) \subseteq BlocksOf(D) \cup {}
    BY <1>3, <1>5
  <2> QED
    BY <1>2, <1>5, <2>1, <2>2, <2>3, OrderDrainVerified
<1>9. CASE verifying' = entries /\ UNCHANGED <<verified, readySet, knownBad>>
  <2>1. BlocksOf(ToSet(verifying')) = BlocksOf(ToSet(verifying))
    BY <1>3, <1>5, <1>7, <1>9
  <2>2. Elsewhere' = Elsewhere
    BY <1>2, <1>9 DEF Elsewhere
  <2>3. InOrder(verified', verifying', unverified', Elsewhere', forced')
    BY <1>1, <1>2, <1>6, <1>9, <2>1, <2>2 DEF InOrder
  <2>4. VerifiedNotDoomed' /\ ChainRooted' /\ FutureApart'
    BY <1>2, <1>9 DEF OrderInv, VerifiedNotDoomed, ChainRooted, FutureApart, waitVars
  <2> QED
    BY <2>3, <2>4 DEF OrderInv
<1> QED
  BY <1>2, <1>8, <1>9

LEMMA OrderDrain ==
    ASSUME OrderInv, IInv', NEW max \in 1..MaxDrain, Drain(max)
    PROVE  OrderInv'
<1> DEFINE n == IF max < Len(verified) THEN max ELSE Len(verified)
           out == SubSeq(verified, 1, n)
           rest == SubSeq(verified, n + 1, Len(verified))
<1>1. /\ drainingSet = {} /\ drainingSet' = ToSet(out)
      /\ verified' = rest
      /\ UNCHANGED <<knownBad, waitVars, unverified, verifying, chain, forced>>
  BY DEF Drain
<1>2. verified \in Seq(Block)
  BY DEF OrderInv, IInv, TypeOK
<1>3. n \in Nat /\ n <= Len(verified)
  BY <1>2, BlockAssumption
<1> HIDE DEF n
<1>4. /\ out \in Seq(Block) /\ rest \in Seq(Block)
      /\ ToSet(verified) = ToSet(out) \cup ToSet(rest)
  <2>1. PICK V \in SUBSET Block : Lists(verified, V) /\ ToSet(verified) = V
    BY QueuesSets DEF OrderInv
  <2>3. /\ FirstOf(verified, n) \subseteq V
        /\ Lists(out, FirstOf(verified, n))
        /\ Lists(rest, V \ FirstOf(verified, n))
    BY <1>3, <2>1, ListsCut
  <2>2. ToSet(out) = FirstOf(verified, n) /\ ToSet(rest) = V \ FirstOf(verified, n)
    <3> HIDE DEF out, rest
    <3> QED
      BY <2>3, ListsToSet
  <2> QED
    BY <1>2, <1>3, <2>1, <2>2, <2>3, SubSeqProperties
<1>5. InOrder(rest, verifying, unverified, Elsewhere \cup ToSet(out), forced)
  <2>1. InOrder(verified, verifying, unverified, Elsewhere, forced)
    BY DEF OrderInv
  <2> QED
    BY <1>2, <1>3, <2>1, DrainInOrder
<1> HIDE DEF out, rest
<1>6. Elsewhere' = Elsewhere \cup ToSet(out)
  BY <1>1 DEF Elsewhere
<1>7. InOrder(verified', verifying', unverified', Elsewhere', forced')
  BY <1>1, <1>5, <1>6
<1>8. VerifiedNotDoomed' /\ ChainRooted' /\ FutureApart'
  BY <1>1, <1>4 DEF OrderInv, VerifiedNotDoomed, ChainRooted, FutureApart, waitVars
<1> QED
  BY <1>7, <1>8 DEF OrderInv

LEMMA OrderDoneDrain ==
    ASSUME OrderInv, IInv', DoneDrain(drainingSet \ chain)
    PROVE  OrderInv'
<1> DEFINE bad == drainingSet \ chain
<1>1. /\ bad \in SUBSET Block /\ drainingSet \subseteq drainingSet' \cup chain \cup bad
      /\ bad \cap future = {}
      /\ UNCHANGED <<chain, forced, future>>
  BY DEF OrderInv, IInv, TypeOK, OnePlace, DoneDrain
<1>2. CASE bad = {}
  <2>1. UNCHANGED <<knownBad, queueVars>>
    BY <1>2 DEF DoneDrain
  <2>2. Elsewhere \subseteq Elsewhere'
    BY <1>1, <1>2, <2>1 DEF Elsewhere
  <2>3. InOrder(verified', verifying', unverified', Elsewhere', forced')
    BY <1>1, <2>1, <2>2, InOrderMore DEF OrderInv, queueVars
  <2>4. VerifiedNotDoomed' /\ ChainRooted' /\ FutureApart'
    BY <1>1, <2>1 DEF OrderInv, VerifiedNotDoomed, ChainRooted, FutureApart, queueVars
  <2> QED
    BY <2>3, <2>4 DEF OrderInv
<1>3. CASE bad # {}
  <2>1. PICK S \in SUBSET Block : IsStruckOut(S, bad) /\ StrikeOut(S, bad)
    BY <1>3 DEF DoneDrain
  <2> HIDE DEF bad
  <2> QED
    BY <1>1, <2>1, OrderStrikeOut
<1> QED
  BY <1>2, <1>3

LEMMA OrderImportBadChain ==
    ASSUME OrderInv, IInv', NEW b \in Block, Importable(b), ImportBadChain(b),
           UNCHANGED <<chain, forced>>
    PROVE  OrderInv'
<1>1. PICK S \in SUBSET Block : IsStruckOut(S, {b}) /\ StrikeOut(S, {b})
  BY DEF ImportBadChain
<1>2. /\ {b} \in SUBSET Block
      /\ drainingSet \subseteq drainingSet' \cup chain \cup {b}
      /\ UNCHANGED <<chain, forced, future>>
  BY DEF ImportBadChain
<1>3. {b} \cap future = {}
  BY FreshBlock DEF OrderInv
<1> QED
  BY <1>1, <1>2, <1>3, OrderStrikeOut

LEMMA NoOwnParent == \A b \in Block : Parent[b] # b
<1>1. PICK number \in [Block -> 1..Cardinality(Block)] :
        \A b \in Block : Parent[b] \in Block => number[Parent[b]] < number[b]
  BY ParentAssumption
<1>2. Cardinality(Block) \in Nat
  BY BlockAssumption, FS_CardinalityType
<1> QED
  BY <1>1, <1>2

\* noteReady, breadth first, puts no block ahead of its parent.
LEMMA CascadeBehind ==
    ASSUME NEW S \in SUBSET Block, NEW s, Lists(s, S), NEW b \in Block, b \notin S,
           \A u \in S : Parent[u] \in S \cup {b}, BreadthFirst(s, b)
    PROVE  \A F : Behind(s, {b}, F)
<1> SUFFICES ASSUME NEW i \in 1..Len(s), Parent[s[i]] # b
             PROVE  \E j \in 1..(i - 1) : s[j] = Parent[s[i]]
  BY DEF Behind
<1> DEFINE position(x) == IF x = b THEN 0 ELSE CHOOSE k \in DOMAIN s : s[k] = x
<1>1. /\ DOMAIN s = 1..Len(s) /\ Len(s) \in Nat
      /\ \A k \in 1..Len(s) : s[k] \in S
      /\ \A x \in S : \E k \in 1..Len(s) : s[k] = x
      /\ \A j, k \in 1..Len(s) : s[j] = s[k] => j = k
  BY ListsElements DEF Lists
<1>2. s[i] \in S /\ Parent[s[i]] \in S
  BY <1>1
<1>3. PICK k \in 1..Len(s) : s[k] = Parent[s[i]]
  BY <1>1, <1>2
<1>4. position(Parent[s[i]]) = k
  <2>1. (CHOOSE l \in DOMAIN s : s[l] = Parent[s[i]]) = k
    BY <1>1, <1>3
  <2> QED
    BY <2>1
<1>5. k # i
  BY <1>2, <1>3, NoOwnParent
<1>6. /\ i \in Nat /\ k \in Nat /\ Len(s) \in Nat /\ 1 <= k /\ k <= Len(s) /\ i <= Len(s)
      /\ k < i => k \in 1..(i - 1)
  BY <1>1
<1>7. CASE i < Len(s)
  <2>1. i \in DOMAIN s /\ Len(s) \in DOMAIN s
    BY <1>1
  <2>2. position(Parent[s[i]]) < i
    BY <1>7, <2>1 DEF BreadthFirst
  <2> HIDE DEF position
  <2>3. k < i
    BY <1>4, <2>2
  <2> QED
    BY <1>3, <1>6, <2>3
<1>8. CASE i = Len(s)
  <2>1. k < i
    BY <1>5, <1>6, <1>8
  <2> QED
    BY <1>3, <1>6, <2>1
<1> QED
  BY <1>6, <1>7, <1>8

LEMMA OrderImportReady ==
    ASSUME OrderInv, IInv', NEW b \in Block, Importable(b), ImportReady(b),
           UNCHANGED <<chain, forced>>
    PROVE  OrderInv'
<1>1. b \notin readySet \cup drainingSet \cup unknown \cup knownBad \cup future \cup chain
  BY FreshBlock DEF OrderInv
<1>2. PICK S \in SUBSET unknown : \E s \in SetToSeqs(S) :
         /\ IsCascade(S, b)
         /\ BreadthFirst(s, b)
         /\ unverified' = unverified \o <<b>> \o s
  BY DEF ImportReady
<1>3. PICK s \in SetToSeqs(S) :
         /\ IsCascade(S, b)
         /\ BreadthFirst(s, b)
         /\ unverified' = unverified \o <<b>> \o s
  BY <1>2
<1>4. /\ ParentAtHand(b)
      /\ UNCHANGED <<drainingSet, knownBad, future, verifying, verified>>
  BY DEF ImportReady
<1>5. S \in SUBSET Block /\ IsFiniteSet(S) /\ b \notin S
  BY <1>1, FS_Subset, BlockAssumption DEF OrderInv, IInv, TypeOK
<1>6. Lists(s, S) /\ s \in Seq(Block)
  BY <1>5, SetToSeqsList, ListsElements, SeqMonotonic
<1>7. PICK V \in SUBSET Block, U \in SUBSET Block, E \in SUBSET Entry :
         /\ ToSet(verified) = V
         /\ ToSet(verifying) = E
         /\ ToSet(unverified) = U
         /\ readySet = V \cup BlocksOf(E) \cup U
  BY QueuesSets DEF OrderInv
<1>8. /\ unverified \in Seq(Block)
      /\ InOrder(verified, verifying, unverified, Elsewhere, forced)
  BY DEF OrderInv, IInv, TypeOK
<1>9. Parent[b] \in Elsewhere \cup ToSet(verified) \cup BlocksOf(ToSet(verifying)) \cup ToSet(unverified)
  BY <1>4, <1>7 DEF ParentAtHand, Elsewhere
<1>10. Behind(s, {b}, forced)
  <2>1. \A u \in S : Parent[u] \in S \cup {b}
    BY <1>3 DEF IsCascade
  <2> QED
    BY <1>3, <1>5, <1>6, <2>1, CascadeBehind
<1>11. InOrder(verified', verifying', unverified', Elsewhere', forced')
  <2>1. InOrder(verified, verifying, unverified \o <<b>> \o s, Elsewhere, forced)
    BY <1>6, <1>8, <1>9, <1>10, ImportReadyInOrder
  <2> QED
    BY <1>3, <1>4, <2>1 DEF Elsewhere
<1> QED
  BY <1>4, <1>11 DEF OrderInv, VerifiedNotDoomed, ChainRooted, FutureApart

LEMMA OrderImport ==
    ASSUME OrderInv, IInv', NEW b \in Block, NEW isOurs \in BOOLEAN, Import(b, isOurs)
    PROVE  OrderInv'
<1>1. Importable(b) /\ UNCHANGED <<chain, forced>>
  BY DEF Import
<1>2. CASE ImportFuture(b)
  <2>1. future' = future \cup {b} /\ b \notin chain /\ b \notin knownBad
    BY <1>1, <1>2 DEF ImportFuture, Importable, Known
  <2>2. UNCHANGED <<queueVars, knownBad, drainingSet, chain, forced>>
    BY <1>1, <1>2 DEF ImportFuture, setVars
  <2>3. future' \cap (chain \cup knownBad) = {}
    BY <2>1 DEF OrderInv, FutureApart
  <2> QED
    BY <2>2, <2>3, OrderAlone
<1>3. CASE ImportUnknownParent(b)
  <2>1. UNCHANGED <<queueVars, knownBad, drainingSet, chain, forced, future>>
    BY <1>1, <1>3 DEF ImportUnknownParent, setVars
  <2>2. future' \cap (chain \cup knownBad) = {}
    BY <2>1 DEF OrderInv, FutureApart
  <2> QED
    BY <2>1, <2>2, OrderAlone
<1>4. ImportFuture(b) \/ ImportBadChain(b) \/ ImportUnknownParent(b) \/ ImportReady(b)
  BY DEF Import
<1> QED
  BY <1>1, <1>2, <1>3, <1>4, OrderImportBadChain, OrderImportReady

\* retryAllUnknown() asks for no order: what it releases is in forced.
LEMMA OrderRetryAllUnknown ==
    ASSUME OrderInv, IInv', RetryAllUnknown
    PROVE  OrderInv'
<1>1. PICK s \in SetToSeqs(unknown) : unverified' = unverified \o s
  BY DEF RetryAllUnknown
<1>2. /\ forced' = forced \cup unknown
      /\ UNCHANGED <<drainingSet, knownBad, future, verifying, verified, chain>>
  BY DEF RetryAllUnknown
<1>3. unknown \subseteq Block /\ unverified \in Seq(Block)
  BY DEF OrderInv, IInv, TypeOK
<1>4. Lists(s, unknown) /\ s \in Seq(Block) /\ \A i \in 1..Len(s) : s[i] \in unknown
  BY <1>3, SetToSeqsList, ListsElements, SeqMonotonic, FS_Subset, BlockAssumption
<1>5. InOrder(verified', verifying', unverified', Elsewhere', forced')
  <2>1. InOrder(verified, verifying, unverified, Elsewhere, forced)
    BY DEF OrderInv
  <2>2. \A i \in 1..Len(s) : s[i] \in forced'
    BY <1>2, <1>4
  <2>3. forced \subseteq forced'
    BY <1>2
  <2>4. InOrder(verified, verifying, unverified \o s, Elsewhere, forced')
    BY <1>3, <1>4, <2>1, <2>2, <2>3, RetryInOrder
  <2> QED
    BY <1>1, <1>2, <2>4 DEF Elsewhere
<1> QED
  BY <1>2, <1>5 DEF OrderInv, VerifiedNotDoomed, ChainRooted, FutureApart

LEMMA OrderClear ==
    ASSUME OrderInv, IInv', QuietClear
    PROVE  OrderInv'
<1>1. /\ verified' = <<>> /\ verifying' = <<>> /\ unverified' = <<>> /\ future' = {}
      /\ UNCHANGED <<chain, forced>>
  BY DEF QuietClear, Clear
<1>2. InOrder(verified', verifying', unverified', Elsewhere', forced') /\ ToSet(<<>>) = {}
  BY <1>1, NothingInOrder DEF ToSet
<1> QED
  BY <1>1, <1>2 DEF OrderInv, VerifiedNotDoomed, ChainRooted, FutureApart

LEMMA OrderNext == OrderInv /\ [QuietNext]_vars => OrderInv'
<1> SUFFICES ASSUME OrderInv, [QuietNext]_vars
             PROVE  OrderInv'
  OBVIOUS
<1> USE DEF setVars, waitVars, queueVars
<1>1. IInv'
  BY NextKeeps DEF OrderInv
<1>2. CASE \E b \in Block : \E isOurs \in BOOLEAN : Import(b, isOurs) /\ UNCHANGED todo
  BY <1>1, <1>2, OrderImport
<1>3. ASSUME UNCHANGED <<queueVars, knownBad, drainingSet, chain, forced>>, future' \subseteq future
      PROVE  OrderInv'
  <2>1. future' \cap (chain \cup knownBad) = {}
    BY <1>3 DEF OrderInv, FutureApart
  <2> QED
    BY <1>1, <1>3, <2>1, OrderAlone
<1>4. CASE TickTake
  BY <1>3, <1>4 DEF TickTake
<1>5. CASE \E b \in Block : TickImport(b)
  <2>1. PICK b \in Block : TickImport(b)
    BY <1>5
  <2>2. CASE Import(b, FALSE)
    BY <1>1, <2>2, OrderImport
  <2>3. CASE ~Import(b, FALSE)
    BY <1>3, <2>1, <2>3 DEF TickImport
  <2> QED
    BY <2>2, <2>3
<1>6. CASE \E v \in Verifier : VerifierStep(v)
  <2>1. PICK v \in Verifier : VerifierStep(v)
    BY <1>6
  <2>2. CASE VerifierWait(v) \/ OnReady(v) \/ VerifierExit(v)
    BY <1>3, <2>2 DEF VerifierWait, OnReady, VerifierExit
  <2> QED
    BY <1>1, <2>1, <2>2, OrderVerifierTake, OrderVerifierFail, OrderVerifierSucceed
    DEF VerifierStep
<1>7. CASE \E max \in 1..MaxDrain : Drain(max)
  BY <1>1, <1>7, OrderDrain
<1>8. CASE drainingSet # {} /\ DoneDrain(drainingSet \ chain)
  BY <1>1, <1>8, OrderDoneDrain
<1>9. CASE RetryAllUnknown
  BY <1>1, <1>9, OrderRetryAllUnknown
<1>10. CASE Stop \/ ClockTick \/ UNCHANGED vars
  BY <1>3, <1>10 DEF Stop, ClockTick, vars
<1>11. CASE \E b \in Block : ChainImport(b)
  BY <1>1, <1>11, OrderChainImport
<1>12. CASE QuietClear
  BY <1>1, <1>12, OrderClear
<1> QED
  BY <1>2, <1>4, <1>5, <1>6, <1>7, <1>8, <1>9, <1>10, <1>11, <1>12
  DEF QuietNext, OrderlyNext

\* The inductive invariant of the order of the blocks.
THEOREM OrderInvariant == QuietSpec => []OrderInv
BY OrderInit, OrderNext, PTL DEF QuietSpec

\* drain() hands blocks over parents first, whichever verifier was faster.
THEOREM ParentsFirst == QuietSpec => []ParentFirst
<1>1. OrderInv => ParentFirst
  BY InOrderParentFirst DEF OrderInv, IInv
<1> QED
  BY <1>1, OrderInvariant, PTL

\* drainVerified_WITH_BOTH_LOCKS and updateBad let no block through to
\* m_verified on top of a bad one.
THEOREM NothingDoomed == QuietSpec => []VerifiedNotDoomed
<1>1. OrderInv => VerifiedNotDoomed
  BY DEF OrderInv
<1> QED
  BY <1>1, OrderInvariant, PTL

-----------------------------------------------------------------------------
(***************************************************************************)
(* The queue implements BlockLifecycle                                     *)
(***************************************************************************)

\* The sets are disjoint, so that the order in which blockStatus() asks them
\* does not matter.
StatusSets ==
    \A b \in Block :
        /\ Status(b) = "Ready" <=> b \in readySet
        /\ Status(b) = "Importing" <=> b \in drainingSet
        /\ Status(b) = "UnknownParent" <=> b \in unknown
        /\ Status(b) = "Bad" <=> b \in knownBad
        /\ Status(b) = "Future" <=> b \in future
        /\ Status(b) = "Imported" <=> b \in chain \ drainingSet
        /\ Status(b) = "Unknown" <=>
               b \notin readySet \cup drainingSet \cup unknown \cup knownBad \cup future \cup chain

LEMMA StatusTold == OrderInv => StatusSets
<1> SUFFICES ASSUME OrderInv
             PROVE  StatusSets
  OBVIOUS
<1>1. /\ unknown = unknownSet /\ future = futureSet
      /\ readySet \cap (drainingSet \cup unknown \cup future \cup knownBad \cup chain) = {}
      /\ drainingSet \cap (unknown \cup future \cup knownBad) = {}
      /\ unknown \cap (future \cup knownBad \cup chain) = {}
      /\ knownBad \cap (future \cup chain) = {} /\ future \cap chain = {}
  BY DEF OrderInv, IInv, OnePlace, FutureApart
<1>2. ASSUME NEW b \in Block
      PROVE  Status(b) = IF b \in readySet THEN "Ready"
                         ELSE IF b \in drainingSet THEN "Importing"
                         ELSE IF b \in unknown THEN "UnknownParent"
                         ELSE IF b \in knownBad THEN "Bad"
                         ELSE IF b \in future THEN "Future"
                         ELSE IF b \in chain THEN "Imported" ELSE "Unknown"
  BY <1>1 DEF Status
<1> QED
  BY <1>1, <1>2 DEF StatusSets

LEMMA StatusToldNext == OrderInv' => StatusSets'
BY StatusTold, PTL

\* The sets of BlockLifecycle, before a step.
LEMMA LifecycleSets ==
    ASSUME OrderInv
    PROVE  /\ Lifecycle!Is("Ready") = readySet
           /\ Lifecycle!Is("Importing") = drainingSet
           /\ Lifecycle!Is("UnknownParent") = unknown
           /\ Lifecycle!Is("Bad") = knownBad
           /\ Lifecycle!Is("Future") = future
           /\ Lifecycle!Is("Imported") = chain \ (drainingSet \cup {Genesis})
           /\ Lifecycle!AtHand = readySet \cup drainingSet \cup chain
           /\ \A b \in Block : b \in Lifecycle!Is("Unknown") <=>
                  b \notin readySet \cup drainingSet \cup unknown \cup knownBad \cup future \cup chain
<1>1. StatusSets
  BY StatusTold
<1>2. /\ readySet \subseteq Block /\ drainingSet \subseteq Block /\ unknown \subseteq Block
      /\ knownBad \subseteq Block /\ future \subseteq Block /\ chain \subseteq Block \cup {Genesis}
      /\ Genesis \in chain
  BY DEF OrderInv, IInv, TypeOK, ChainRooted
<1>3. \A st : Lifecycle!Is(st) = {b \in Block : Status(b) = st}
  BY DEF Lifecycle!Is
<1>4. /\ Lifecycle!Is("Ready") = readySet
      /\ Lifecycle!Is("Importing") = drainingSet
      /\ Lifecycle!Is("UnknownParent") = unknown
      /\ Lifecycle!Is("Bad") = knownBad
      /\ Lifecycle!Is("Future") = future
  BY <1>1, <1>2, <1>3 DEF StatusSets
<1>5. Lifecycle!Is("Imported") = chain \ (drainingSet \cup {Genesis})
  <2>1. Genesis \notin Block
    BY BlockAssumption
  <2> QED
    BY <1>1, <1>2, <1>3, <2>1 DEF StatusSets
<1>6. Lifecycle!AtHand = readySet \cup drainingSet \cup chain
  BY <1>2, <1>4, <1>5 DEF Lifecycle!AtHand
<1>7. \A b \in Block : b \in Lifecycle!Is("Unknown") <=>
          b \notin readySet \cup drainingSet \cup unknown \cup knownBad \cup future \cup chain
  BY <1>1, <1>3 DEF StatusSets
<1> QED
  BY <1>4, <1>5, <1>6, <1>7

StatusOfAll == [b \in Block |-> Status(b)]

LEMMA MoveTold ==
    ASSUME NEW S, NEW st, \A b \in Block : Status(b)' = IF b \in S THEN st ELSE Status(b)
    PROVE  Lifecycle!Move(S, st)
BY DEF Lifecycle!Move

LifecycleStep == [Lifecycle!Next]_<<StatusOfAll, forced>>

\* Steps inside a status.
LEMMA StayStep ==
    ASSUME OrderInv, OrderInv', UNCHANGED <<readySet, drainingSet, unknown, knownBad, future, forced>>,
           chain' \ drainingSet = chain \ drainingSet
    PROVE  LifecycleStep
<1>1. StatusSets /\ StatusSets'
  BY StatusTold, StatusToldNext
<1>2. \A b \in Block : Status(b)' = Status(b)
  BY <1>1 DEF StatusSets, Status
<1> QED
  BY <1>2 DEF LifecycleStep, StatusOfAll

\* Whatever finds blocks bad takes all that waits for one along.
LEMMA CondemnStep ==
    ASSUME OrderInv, OrderInv', NEW X \in SUBSET Block,
           readySet' = readySet \ X, knownBad' = knownBad \cup X, unknown' = unknown \ X,
           UNCHANGED <<drainingSet, future, chain, forced>>
    PROVE  LifecycleStep
<1> DEFINE S == X \ knownBad
<1>1. StatusSets /\ StatusSets'
  BY StatusTold, StatusToldNext
<1>2. S \cap (drainingSet \cup future \cup chain \cup knownBad) = {}
  BY DEF OrderInv, IInv, OnePlace, FutureApart
<1>3. \A b \in Block : Status(b)' = IF b \in S THEN "Bad" ELSE Status(b)
  BY <1>1, <1>2 DEF StatusSets, OrderInv, IInv, OnePlace
<1>4. S \in SUBSET (Lifecycle!Is("Unknown") \cup Lifecycle!Is("UnknownParent") \cup Lifecycle!Is("Ready"))
  BY <1>2, LifecycleSets
<1>5. \A u \in Lifecycle!Is("UnknownParent") \ S : Parent[u] \notin S
  <2>1. Lifecycle!Is("UnknownParent") = unknown
    BY LifecycleSets
  <2>2. \A u \in unknown' : Parent[u] \notin knownBad'
    BY DEF OrderInv, IInv, NoOrphanForgotten
  <2>3. unknown \ S \subseteq unknown'
    BY DEF OrderInv, IInv, OnePlace
  <2> QED
    BY <2>1, <2>2, <2>3
<1>6. Lifecycle!Move(S, "Bad")
  BY <1>3, MoveTold
<1>7. Lifecycle!Condemn
  BY <1>4, <1>5, <1>6 DEF Lifecycle!Condemn
<1> QED
  BY <1>7 DEF LifecycleStep, Lifecycle!Next

LEMMA ImportStep ==
    ASSUME OrderInv, OrderInv', NEW b \in Block, NEW isOurs \in BOOLEAN, Import(b, isOurs)
    PROVE  LifecycleStep
<1>1. Importable(b) /\ UNCHANGED <<chain, forced>>
  BY DEF Import
<1>2. b \notin readySet \cup drainingSet \cup unknown \cup knownBad \cup future \cup chain
  BY <1>1, FreshBlock DEF OrderInv
<1>3. StatusSets /\ StatusSets'
  BY StatusTold, StatusToldNext
<1>4. Status(b) = "Unknown"
  BY <1>2, <1>3 DEF StatusSets
<1>5. CASE ImportFuture(b)
  <2>1. /\ future' = future \cup {b}
        /\ UNCHANGED <<readySet, drainingSet, knownBad, unknown>>
    BY <1>5 DEF ImportFuture, setVars
  <2>2. \A c \in Block : Status(c)' = IF c \in {b} THEN "Future" ELSE Status(c)
    BY <1>1, <1>2, <1>3, <2>1 DEF StatusSets
  <2>3. Lifecycle!Move({b}, "Future")
    BY <2>2, MoveTold
  <2>4. Lifecycle!Wait(b)
    BY <1>1, <1>4, <2>3 DEF Lifecycle!Wait
  <2> QED
    BY <2>4 DEF LifecycleStep, Lifecycle!Next
<1>6. CASE ImportUnknownParent(b)
  <2>1. /\ unknown' = unknown \cup {b}
        /\ UNCHANGED <<readySet, drainingSet, knownBad, future>>
        /\ Parent[b] \notin readySet \cup drainingSet \cup chain
    BY <1>6 DEF ImportUnknownParent, setVars, ParentAtHand
  <2>2. \A c \in Block : Status(c)' = IF c \in {b} THEN "UnknownParent" ELSE Status(c)
    BY <1>1, <1>2, <1>3, <2>1 DEF StatusSets
  <2>3. Lifecycle!Move({b}, "UnknownParent")
    BY <2>2, MoveTold
  <2>4. Parent[b] \notin Lifecycle!AtHand
    BY <2>1, LifecycleSets
  <2>5. Lifecycle!Wait(b)
    BY <1>1, <1>4, <2>3, <2>4 DEF Lifecycle!Wait
  <2> QED
    BY <2>5 DEF LifecycleStep, Lifecycle!Next
<1>7. CASE ImportReady(b)
  <2>1. PICK S \in SUBSET unknown : /\ IsCascade(S, b)
                                   /\ readySet' = readySet \cup {b} \cup S
                                   /\ unknown' = unknown \ S
    BY <1>7 DEF ImportReady
  <2>2. /\ UNCHANGED <<drainingSet, knownBad, future>>
        /\ Parent[b] \in readySet \cup drainingSet \cup chain
    BY <1>7 DEF ImportReady, ParentAtHand
  <2>3. \A c \in Block : Status(c)' = IF c \in S \cup {b} THEN "Ready" ELSE Status(c)
    BY <1>1, <1>2, <1>3, <2>1, <2>2 DEF StatusSets
  <2>4. Lifecycle!Move(S \cup {b}, "Ready")
    BY <2>3, MoveTold
  <2>5. S \in SUBSET Lifecycle!Is("UnknownParent")
        /\ S = {u \in Lifecycle!Is("UnknownParent") : Parent[u] \in S \cup {b}}
        /\ Parent[b] \in Lifecycle!AtHand
    BY <2>1, <2>2, LifecycleSets DEF IsCascade
  <2>6. Lifecycle!Accept(b)
    BY <1>1, <1>4, <2>4, <2>5 DEF Lifecycle!Accept
  <2> QED
    BY <2>6 DEF LifecycleStep, Lifecycle!Next
<1>8. CASE ImportBadChain(b)
  <2>1. PICK S \in SUBSET Block : IsStruckOut(S, {b}) /\ StrikeOut(S, {b})
    BY <1>8 DEF ImportBadChain
  <2>2. /\ readySet' = readySet \ S /\ knownBad' = knownBad \cup {b} \cup S
        /\ unknown' \subseteq unknown \ S
    <3>1. TypeOK /\ OnePlace /\ Queues(verified, verifying, unverified, readySet)
      BY DEF OrderInv, IInv
    <3>2. {b} \in SUBSET Block
      OBVIOUS
    <3> QED
      BY <2>1, <3>1, <3>2, StrikeOutMoves
  <2>3. unknown' = unknown \ S
    <3>1. unknown' = unknown \ {u \in unknown : Parent[u] \in S \cup {b}}
      BY <2>1 DEF StrikeOut
    <3>2. {u \in unknown : Parent[u] \in S \cup {b}} \subseteq S
      BY <2>1 DEF IsStruckOut
    <3> QED
      BY <2>2, <3>1, <3>2
  <2>4. /\ readySet' = readySet \ (S \cup {b}) /\ knownBad' = knownBad \cup (S \cup {b})
        /\ unknown' = unknown \ (S \cup {b}) /\ S \cup {b} \in SUBSET Block
    BY <1>2, <2>2, <2>3
  <2>5. UNCHANGED <<drainingSet, future, chain, forced>>
    BY <1>1, <1>8 DEF ImportBadChain
  <2> QED
    BY <2>4, <2>5, CondemnStep
<1>9. ImportFuture(b) \/ ImportBadChain(b) \/ ImportUnknownParent(b) \/ ImportReady(b)
  BY DEF Import
<1> QED
  BY <1>5, <1>6, <1>7, <1>8, <1>9

LEMMA VerifierStepStep ==
    ASSUME OrderInv, OrderInv', NEW v \in Verifier, VerifierStep(v)
    PROVE  LifecycleStep
<1> USE DEF setVars, waitVars
<1>1. CASE VerifierWait(v) \/ VerifierTake(v) \/ OnReady(v) \/ VerifierExit(v)
  BY <1>1, StayStep DEF VerifierWait, VerifierTake, OnReady, VerifierExit
<1>2. ASSUME NEW entries, NEW X, X \subseteq Block,
             DrainVerified(entries, readySet \ X, knownBad \cup X), X \cap unknown = {},
             UNCHANGED <<drainingSet, waitVars, chain, forced>>
      PROVE  LifecycleStep
  <2>1. PICK refused : /\ readySet' = (readySet \ X) \ refused
                       /\ knownBad' = knownBad \cup X \cup refused
    BY <1>2 DEF DrainVerified
  <2> DEFINE Y == X \cup refused
  <2>2. Y \in SUBSET Block /\ Y \cap unknown = {}
    BY <1>2, <2>1 DEF OrderInv, IInv, TypeOK, OnePlace
  <2>3. readySet' = readySet \ Y /\ knownBad' = knownBad \cup Y /\ unknown' = unknown \ Y
    BY <1>2, <2>1, <2>2
  <2> HIDE DEF Y
  <2> QED
    BY <1>2, <2>2, <2>3, CondemnStep
<1>3. CASE VerifierFail(v)
  <2>1. job[v] \in Block /\ (Placeholder(job[v]) \in ToSet(verifying) \/ job[v] \in knownBad)
    BY <1>3, BlockAssumption
    DEF VerifierFail, OrderInv, IInv, TypeOK, BusyHasJob, PlacesAndJobs
  <2>2. Placeholder(job[v]) \in ToSet(verifying) => job[v] \in readySet
    <3>1. PICK V \in SUBSET Block, U \in SUBSET Block, E \in SUBSET Entry :
             /\ ToSet(verifying) = E
             /\ readySet = V \cup BlocksOf(E) \cup U
      BY QueuesSets DEF OrderInv
    <3> QED
      BY <2>1, <3>1, PlaceholderFields DEF BlocksOf
  <2>3. {job[v]} \cap unknown = {}
    BY <2>1, <2>2 DEF OrderInv, IInv, OnePlace
  <2>4. UNCHANGED <<drainingSet, waitVars, chain, forced>>
    BY <1>3 DEF VerifierFail
  <2> QED
    BY <1>2, <1>3, <2>1, <2>3, <2>4 DEF VerifierFail
<1>4. CASE VerifierSucceed(v)
  <2>1. UNCHANGED <<drainingSet, waitVars, chain, forced>>
    BY <1>4 DEF VerifierSucceed
  <2>2. CASE UNCHANGED <<verified, readySet, knownBad>>
    BY <2>1, <2>2, StayStep
  <2>3. CASE DrainVerified(Finish(verifying, job[v]), readySet, knownBad)
    <3>1. /\ DrainVerified(Finish(verifying, job[v]), readySet \ {}, knownBad \cup {})
          /\ {} \subseteq Block /\ {} \cap unknown = {}
      BY <2>3
    <3> QED
      BY <1>2, <2>1, <3>1
  <2> QED
    BY <1>4, <2>2, <2>3 DEF VerifierSucceed
<1> QED
  BY <1>1, <1>3, <1>4 DEF VerifierStep

\* drain(): the blocks go with their parents, or after them.
LEMMA DrainStep ==
    ASSUME OrderInv, OrderInv', NEW max \in 1..MaxDrain, Drain(max)
    PROVE  LifecycleStep
<1> DEFINE n == IF max < Len(verified) THEN max ELSE Len(verified)
           out == SubSeq(verified, 1, n)
           S == ToSet(out)
<1>1. /\ drainingSet = {} /\ drainingSet' = S /\ readySet' = readySet \ S
      /\ UNCHANGED <<knownBad, unknown, future, chain, forced>>
  BY DEF Drain, waitVars
<1>2. verified \in Seq(Block) /\ \A b \in ToSet(verified) : b \in readySet
  <2>1. PICK V \in SUBSET Block, U \in SUBSET Block, E \in SUBSET Entry :
           ToSet(verified) = V /\ readySet = V \cup BlocksOf(E) \cup U
    BY QueuesSets DEF OrderInv
  <2> QED
    BY <2>1 DEF OrderInv, IInv, TypeOK
<1>3. n \in Nat /\ n <= Len(verified)
  BY <1>2, BlockAssumption
<1>4. Behind(out, Elsewhere, forced)
  <2>1. Behind(verified, Elsewhere, forced)
    BY DEF OrderInv, InOrder
  <2> HIDE DEF n
  <2> QED
    BY <1>2, <1>3, <2>1, BehindCut
<1>5. /\ out \in Seq(Block) /\ DOMAIN out = 1..Len(out) /\ Len(out) = n
      /\ \A i \in 1..n : out[i] = verified[i] /\ i \in DOMAIN verified
  <2> HIDE DEF n
  <2> QED
    BY <1>2, <1>3, SubSeqProperties
<1>6. S \subseteq ToSet(verified)
  BY <1>5 DEF ToSet
<1> HIDE DEF n, out
<1>7. StatusSets /\ StatusSets'
  BY StatusTold, StatusToldNext
<1>8. S \subseteq readySet
  BY <1>2, <1>6
<1>9. \A b \in Block : Status(b)' = IF b \in S THEN "Importing" ELSE Status(b)
  <2>1. \A b \in S : b \notin chain
    BY <1>8 DEF OrderInv, IInv, OnePlace
  <2> HIDE DEF S
  <2> QED
    BY <1>1, <1>7, <1>8, <2>1 DEF StatusSets
<1>10. Lifecycle!Move(S, "Importing")
  BY <1>9, MoveTold
<1>11. \A b \in S : \/ Parent[b] \in S \cup Lifecycle!Is("Imported") \cup {Genesis}
                    \/ b \in forced
  <2> SUFFICES ASSUME NEW b \in S, b \notin forced
               PROVE  Parent[b] \in S \cup Lifecycle!Is("Imported") \cup {Genesis}
    OBVIOUS
  <2>1. PICK i \in 1..Len(out) : out[i] = b
    BY <1>5 DEF ToSet
  <2>2. Parent[b] \in Elsewhere \/ \E j \in 1..(i - 1) : out[j] = Parent[b]
    BY <1>4, <2>1 DEF Behind
  <2>3. ASSUME NEW j \in 1..(i - 1) PROVE out[j] \in S
    <3>1. j \in DOMAIN out
      BY <1>3, <1>5, <2>1
    <3> QED
      BY <3>1 DEF ToSet
  <2>4. Parent[b] \notin knownBad
    BY <1>6 DEF OrderInv, VerifiedNotDoomed
  <2>5. Lifecycle!Is("Imported") = chain \ (drainingSet \cup {Genesis})
    BY LifecycleSets
  <2> QED
    BY <1>1, <2>2, <2>3, <2>4, <2>5 DEF Elsewhere
<1>12. Lifecycle!Is("Importing") = {} /\ S \in SUBSET Lifecycle!Is("Ready")
  BY <1>1, <1>8, LifecycleSets
<1>13. Lifecycle!HandOver
  BY <1>1, <1>10, <1>11, <1>12 DEF Lifecycle!HandOver
<1> QED
  BY <1>13 DEF LifecycleStep, Lifecycle!Next

\* doneDrain(): the blocks of the chain have their parents there, and what stood
\* on one that is not there is bad.
LEMMA DoneDrainStep ==
    ASSUME OrderInv, OrderInv', DoneDrain(drainingSet \ chain)
    PROVE  LifecycleStep
<1> DEFINE bad == drainingSet \ chain
           imported == drainingSet \ bad
<1>1. drainingSet' = {} /\ UNCHANGED <<future, chain, forced>>
  BY DEF DoneDrain
<1>2. StatusSets /\ StatusSets'
  BY StatusTold, StatusToldNext
<1>3. PICK S \in SUBSET Block :
        /\ S \subseteq unknown \cup readySet
        /\ readySet' = readySet \ S /\ unknown' = unknown \ S
        /\ knownBad' = knownBad \cup bad \cup S
        /\ bad = {} => S = {}
        /\ bad # {} => \A b \in readySet \ S : Parent[b] \notin bad \cup S
  <2>1. CASE bad = {}
    <3>1. UNCHANGED <<readySet, knownBad, unknown>>
      BY <2>1 DEF DoneDrain
    <3>2. {} \in SUBSET Block /\ readySet' = readySet \ {} /\ unknown' = unknown \ {}
          /\ knownBad' = knownBad \cup bad \cup {}
      BY <2>1, <3>1
    <3> HIDE DEF bad
    <3> QED
      BY <2>1, <3>2
  <2>2. CASE bad # {}
    <3>1. PICK S \in SUBSET Block : IsStruckOut(S, bad) /\ StrikeOut(S, bad)
      BY <2>2 DEF DoneDrain
    <3>2. bad \in SUBSET Block
      BY DEF OrderInv, IInv, TypeOK
    <3> HIDE DEF bad
    <3>3. /\ readySet' = readySet \ S /\ knownBad' = knownBad \cup bad \cup S
          /\ unknown' \subseteq unknown \ S
          /\ S \subseteq unknown \cup readySet
      <4>1. TypeOK /\ OnePlace /\ Queues(verified, verifying, unverified, readySet)
        BY DEF OrderInv, IInv
      <4> QED
        BY <3>1, <3>2, <4>1, StrikeOutMoves
    <3>4. unknown' = unknown \ S
      <4>1. unknown' = unknown \ {u \in unknown : Parent[u] \in S \cup bad}
        BY <3>1 DEF StrikeOut
      <4>2. {u \in unknown : Parent[u] \in S \cup bad} \subseteq S
        BY <3>1 DEF IsStruckOut
      <4> QED
        BY <3>3, <4>1, <4>2
    <3>5. \A b \in readySet \ S : Parent[b] \notin bad \cup S
      <4> TAKE b \in readySet \ S
      <4>1. PICK V \in SUBSET Block, U \in SUBSET Block, E \in SUBSET Entry :
               /\ ToSet(verified) = V /\ ToSet(verifying) = E /\ ToSet(unverified) = U
               /\ readySet = V \cup BlocksOf(E) \cup U
        BY QueuesSets DEF OrderInv
      <4>2. CASE b \in V \cup U
        BY <3>1, <4>1, <4>2 DEF IsStruckOut
      <4>3. CASE b \in BlocksOf(E)
        <5>1. PICK e \in E : e.block = b
          BY <4>3 DEF BlocksOf
        <5> QED
          BY <3>1, <4>1, <5>1 DEF IsStruckOut
      <4> QED
        BY <4>1, <4>2, <4>3
    <3> QED
      BY <2>2, <3>3, <3>4, <3>5
  <2> QED
    BY <2>1, <2>2
<1>4. S \cap (drainingSet \cup future \cup chain \cup knownBad) = {}
  BY <1>3 DEF OrderInv, IInv, OnePlace
<1>5. StatusOfAll' = [b \in Block |-> IF b \in bad \cup S THEN "Bad"
                                      ELSE IF b \in imported THEN "Imported"
                                      ELSE StatusOfAll[b]]
  <2>1. drainingSet \cap (readySet \cup unknown \cup future \cup knownBad) = {}
    BY DEF OrderInv, IInv, OnePlace
  <2>2. \A b \in Block : Status(b)' = IF b \in bad \cup S THEN "Bad"
                                      ELSE IF b \in imported THEN "Imported"
                                      ELSE Status(b)
    BY <1>1, <1>2, <1>3, <1>4, <2>1 DEF StatusSets
  <2> QED
    BY <2>2 DEF StatusOfAll
<1>6. /\ bad \in SUBSET Lifecycle!Is("Importing")
      /\ S \in SUBSET (Lifecycle!Is("UnknownParent") \cup Lifecycle!Is("Ready"))
      /\ imported = Lifecycle!Is("Importing") \ bad
  BY <1>3, LifecycleSets
<1>7. \A b \in imported : Parent[b] \in imported \cup Lifecycle!Is("Imported") \cup {Genesis}
  <2> TAKE b \in imported
  <2>1. b \in chain \ {Genesis}
    BY BlockAssumption DEF OrderInv, IInv, TypeOK
  <2>2. Parent[b] \in chain
    BY <2>1 DEF OrderInv, ChainRooted
  <2> QED
    BY <2>2, LifecycleSets
<1>8. bad # {} => \A b \in (Lifecycle!Is("UnknownParent") \cup Lifecycle!Is("Ready")) \ S :
                      Parent[b] \notin bad \cup S
  <2>1. \A u \in unknown' : Parent[u] \notin knownBad'
    BY DEF OrderInv, IInv, NoOrphanForgotten
  <2>2. Lifecycle!Is("UnknownParent") = unknown /\ Lifecycle!Is("Ready") = readySet
    BY LifecycleSets
  <2> QED
    BY <1>3, <2>1, <2>2
<1> HIDE DEF bad, imported
<1>9. Lifecycle!Settle
  <2> DEFINE I == Lifecycle!Is("Importing")
             M == Lifecycle!Is("Imported")
             W == Lifecycle!Is("UnknownParent") \cup Lifecycle!Is("Ready")
  <2>1. bad \in SUBSET I /\ S \in SUBSET W /\ imported = I \ bad
    BY <1>6
  <2>2. /\ \A b \in I \ bad : Parent[b] \in (I \ bad) \cup M \cup {Genesis}
        /\ bad # {} => \A b \in W \ S : Parent[b] \notin bad \cup S
        /\ bad = {} => S = {}
    BY <1>3, <1>7, <1>8, <2>1
  <2>3. [b \in Block |-> Status(b)]' = [b \in Block |-> IF b \in bad \cup S THEN "Bad"
                                                     ELSE IF b \in I \ bad THEN "Imported"
                                                     ELSE [c \in Block |-> Status(c)][b]]
    BY <1>5, <2>1 DEF StatusOfAll
  <2> HIDE DEF I, M, W
  <2>4. UNCHANGED forced
    BY <1>1
  <2> QED
    BY <2>1, <2>2, <2>3, <2>4 DEF Lifecycle!Settle, I, M, W
<1> QED
  BY <1>9 DEF LifecycleStep, Lifecycle!Next

LEMMA OtherSteps ==
    ASSUME OrderInv, OrderInv', TickTake \/ RetryAllUnknown \/ QuietClear
    PROVE  LifecycleStep
<1>1. StatusSets /\ StatusSets'
  BY StatusTold, StatusToldNext
<1>2. CASE TickTake
  <2> DEFINE due == {b \in future : Timestamp[b] <= now}
  <2>1. future' = future \ due /\ UNCHANGED <<readySet, drainingSet, knownBad, unknown, chain, forced>>
    BY <1>2 DEF TickTake, setVars
  <2> HIDE DEF due
  <2>2. \A b \in Block : Status(b)' = IF b \in due \cap future THEN "Unknown" ELSE Status(b)
    BY <1>1, <2>1 DEF StatusSets
  <2>3. Lifecycle!Move(due \cap future, "Unknown")
    BY <2>2, MoveTold
  <2>4. due \cap future \in SUBSET Lifecycle!Is("Future")
    BY LifecycleSets
  <2>5. Lifecycle!Mature
    BY <2>1, <2>3, <2>4 DEF Lifecycle!Mature
  <2> QED
    BY <2>5 DEF LifecycleStep, Lifecycle!Next
<1>3. CASE RetryAllUnknown
  <2>1. /\ readySet' = readySet \cup unknown /\ unknown' = {} /\ forced' = forced \cup unknown
        /\ UNCHANGED <<drainingSet, knownBad, future, chain>>
    BY <1>3 DEF RetryAllUnknown
  <2>2. \A b \in Block : Status(b)' = IF b \in unknown THEN "Ready" ELSE Status(b)
    BY <1>1, <2>1 DEF StatusSets
  <2>3. Lifecycle!Move(unknown, "Ready")
    BY <2>2, MoveTold
  <2>4. Lifecycle!Is("UnknownParent") = unknown
    BY LifecycleSets
  <2>5. Lifecycle!Release
    BY <2>1, <2>3, <2>4 DEF Lifecycle!Release
  <2> QED
    BY <2>5 DEF LifecycleStep, Lifecycle!Next
<1>4. CASE QuietClear
  <2> DEFINE S == future \cup unknown \cup readySet
  <2>1. /\ drainingSet = {} /\ readySet' = {} /\ drainingSet' = {} /\ unknown' = {} /\ future' = {}
        /\ UNCHANGED <<knownBad, chain, forced>>
    BY <1>4 DEF QuietClear, Clear
  <2>2. S \cap (knownBad \cup chain) = {}
    BY DEF OrderInv, IInv, OnePlace, FutureApart
  <2>3. \A b \in Block : Status(b)' = IF b \in S THEN "Unknown" ELSE Status(b)
    BY <1>1, <2>1, <2>2 DEF StatusSets
  <2> HIDE DEF S
  <2>4. Lifecycle!Move(S, "Unknown")
    BY <2>3, MoveTold
  <2>5. /\ Lifecycle!Is("Importing") = {}
        /\ S = Lifecycle!Is("Future") \cup Lifecycle!Is("UnknownParent") \cup Lifecycle!Is("Ready")
    BY <2>1, LifecycleSets DEF S
  <2>6. Lifecycle!Forget
    BY <2>1, <2>4, <2>5 DEF Lifecycle!Forget
  <2> QED
    BY <2>6 DEF LifecycleStep, Lifecycle!Next
<1> QED
  BY <1>2, <1>3, <1>4

LEMMA NextImplements == OrderInv /\ OrderInv' /\ [QuietNext]_vars => LifecycleStep
<1> SUFFICES ASSUME OrderInv, OrderInv', [QuietNext]_vars
             PROVE  LifecycleStep
  OBVIOUS
<1> USE DEF setVars, waitVars
<1>1. CASE \E b \in Block : \E isOurs \in BOOLEAN : Import(b, isOurs) /\ UNCHANGED todo
  BY <1>1, ImportStep
<1>2. CASE \E b \in Block : TickImport(b)
  <2>1. PICK b \in Block : TickImport(b)
    BY <1>2
  <2>2. CASE Import(b, FALSE)
    BY <2>2, ImportStep
  <2>3. CASE ~Import(b, FALSE)
    BY <2>1, <2>3, StayStep DEF TickImport
  <2> QED
    BY <2>2, <2>3
<1>3. CASE \E v \in Verifier : VerifierStep(v)
  BY <1>3, VerifierStepStep
<1>4. CASE \E max \in 1..MaxDrain : Drain(max)
  BY <1>4, DrainStep
<1>5. CASE drainingSet # {} /\ DoneDrain(drainingSet \ chain)
  BY <1>5, DoneDrainStep
<1>6. CASE Stop \/ ClockTick \/ UNCHANGED vars
  BY <1>6, StayStep DEF Stop, ClockTick, vars
<1>7. CASE \E b \in Block : ChainImport(b)
  BY <1>7, StayStep DEF ChainImport
<1>8. CASE TickTake \/ RetryAllUnknown \/ QuietClear
  BY <1>8, OtherSteps
<1> QED
  BY <1>1, <1>2, <1>3, <1>4, <1>5, <1>6, <1>7, <1>8 DEF QuietNext, OrderlyNext

LEMMA InitImplements == Init => Lifecycle!Init
<1> SUFFICES ASSUME Init
             PROVE  Lifecycle!Init
  OBVIOUS
<1>1. \A b \in Block : Status(b) = "Unknown"
  BY BlockAssumption DEF Init, Status
<1> QED
  BY <1>1 DEF Init, Lifecycle!Init

\* Whatever its threads do and in whatever order, the queue moves each block as
\* BlockLifecycle promises.
THEOREM ImplementsLifecycle == QuietSpec => FollowsLifecycle
<1>1. OrderInv /\ OrderInv' /\ [QuietNext]_vars =>
          [Lifecycle!Next]_<<[b \in Block |-> Status(b)], forced>>
  BY NextImplements DEF LifecycleStep, StatusOfAll
<1> QED
  BY <1>1, InitImplements, OrderInvariant, PTL DEF QuietSpec, FollowsLifecycle, Lifecycle!Spec
=============================================================================
