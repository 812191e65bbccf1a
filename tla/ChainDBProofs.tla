--------------------------- MODULE ChainDBProofs ---------------------------
(***************************************************************************)
(* For any tree of blocks, however imports, rewinds, reads and crashes     *)
(* follow one another: the disk always holds a chain to start from, and    *)
(* the head, the numbers, the cached numbers and the children say of the   *)
(* tree what they should.                                                  *)
(***************************************************************************)
EXTENDS ChainDB, TLAPS

---------------------------------------------------------------------------
(* Chains.                                                                 *)

LEMMA ChainSelf ==
    ASSUME NEW b \in Known
    PROVE  b \in ChainOf[b] /\ ChainOf[b] \subseteq Known
BY DEF ChainOf

\* Whatever is closed under the walk has the whole walk.
LEMMA ChainWithin ==
    ASSUME NEW b \in Known, NEW S \in SUBSET Known, b \in S, IsPath(S)
    PROVE  ChainOf[b] \subseteq S
BY DEF ChainOf

LEMMA ChainOfParent ==
    ASSUME NEW b \in Block
    PROVE  ChainOf[Parent[b]] \subseteq ChainOf[b]
<1>1. b \in Known /\ Parent[b] \in Known /\ b # Genesis
    BY TreeAssumption DEF Known
<1>2. ASSUME NEW c \in Known, NEW S \in SUBSET Known, b \in S, IsPath(S),
             \A T \in SUBSET Known : Parent[b] \in T /\ IsPath(T) => c \in T
      PROVE  c \in S
    BY <1>1, <1>2 DEF IsPath
<1> QED
    BY <1>1, <1>2 DEF ChainOf

LEMMA NumberOfParent ==
    ASSUME NEW b \in Known
    PROVE  /\ Number[b] \in Nat
           /\ b # Genesis => b \in Block /\ Parent[b] \in Known
                                         /\ Number[b] = Number[Parent[b]] + 1
           /\ b = Genesis => Number[b] = 0
BY TreeAssumption DEF Known

\* The walk goes down.
LEMMA ChainGoesDown ==
    ASSUME NEW b \in Known, NEW c \in ChainOf[b]
    PROVE  Number[c] <= Number[b]
<1> DEFINE S == {d \in Known : Number[d] <= Number[b]}
<1>1. b \in S /\ Genesis \in S
    BY NumberOfParent DEF Known
<1>2. ASSUME NEW d \in S \ {Genesis} PROVE Parent[d] \in S
  <2>1. d \in Known /\ Parent[d] \in Known /\ Number[d] = Number[Parent[d]] + 1
        BY <1>2, NumberOfParent
  <2> QED  BY <2>1, NumberOfParent, Number[d] <= Number[b]
<1>3. IsPath(S)
    BY <1>1, <1>2 DEF IsPath
<1> QED
    BY <1>1, <1>3, ChainWithin

\* A chain is itself closed under the walk.
LEMMA ChainIsPath ==
    ASSUME NEW b \in Known
    PROVE  IsPath(ChainOf[b])
<1>1. Genesis \in Known
    BY DEF Known
<1>2. Genesis \in ChainOf[b]
    BY <1>1 DEF ChainOf, IsPath
<1>3. ASSUME NEW c \in ChainOf[b], c # Genesis PROVE Parent[c] \in ChainOf[b]
  <2>1. c \in Known /\ Parent[c] \in Known
        BY <1>3, ChainSelf, NumberOfParent
  <2>2. ASSUME NEW S \in SUBSET Known, b \in S, IsPath(S) PROVE Parent[c] \in S
    <3>1. c \in S
          BY <1>3, <2>2, ChainWithin
    <3> QED  BY <1>3, <2>2, <3>1 DEF IsPath
  <2> QED  BY <2>1, <2>2 DEF ChainOf
<1> QED
    BY <1>2, <1>3 DEF IsPath

LEMMA ChainTransitive ==
    ASSUME NEW b \in Known, NEW a \in ChainOf[b]
    PROVE  a \in Known /\ ChainOf[a] \subseteq ChainOf[b]
<1>1. a \in Known /\ ChainOf[b] \in SUBSET Known
    BY ChainSelf
<1> QED
    BY <1>1, ChainIsPath, ChainWithin

\* Below a block, its chain is its parent's.
LEMMA ChainBelow ==
    ASSUME NEW b \in Block, NEW a \in ChainOf[b], a # b
    PROVE  a \in ChainOf[Parent[b]] /\ Number[a] < Number[b]
<1> DEFINE S == {b} \cup ChainOf[Parent[b]]
<1>1. b \in Known /\ b # Genesis /\ Parent[b] \in Known
    BY TreeAssumption DEF Known
<1>2. ChainOf[Parent[b]] \subseteq Known /\ Parent[b] \in ChainOf[Parent[b]]
    BY <1>1, ChainSelf
<1>3. IsPath(S)
    BY <1>1, <1>2, ChainIsPath DEF IsPath
<1>4. a \in ChainOf[Parent[b]]
  <2>1. S \in SUBSET Known /\ b \in S
        BY <1>1, <1>2
  <2> HIDE DEF S
  <2>2. ChainOf[b] \subseteq S
        BY <1>1, <1>3, <2>1, ChainWithin
  <2> QED  BY <2>2 DEF S
<1>5. Number[a] <= Number[Parent[b]] /\ a \in Known
    BY <1>1, <1>2, <1>4, ChainGoesDown
<1> QED
    BY <1>1, <1>4, <1>5, NumberOfParent

\* Of two blocks of a chain the lower one is in the chain of the other.
LEMMA ChainLinear ==
    ASSUME NEW b \in Known, NEW a \in ChainOf[b], NEW c \in ChainOf[b],
           Number[c] <= Number[a]
    PROVE  c \in ChainOf[a]
<1> DEFINE above == {d \in ChainOf[b] : Number[d] > Number[a] /\ a \in ChainOf[d]}
           S == ChainOf[a] \cup above
<1>1. a \in Known /\ c \in Known /\ ChainOf[b] \subseteq Known /\ b \in ChainOf[b]
      /\ a \in ChainOf[a] /\ ChainOf[a] \subseteq Known
    BY ChainSelf
<1>2. \A d \in Known : Number[d] \in Nat
    BY NumberOfParent
\* Whatever has a in its chain is a or above it.
<1>3. ASSUME NEW d \in ChainOf[b], a \in ChainOf[d] PROVE d \in S
  <2>1. CASE d = a
        BY <1>1, <2>1
  <2>2. CASE d # a
    <3>1. d \in Known /\ (d = Genesis => Number[a] <= 0)
          BY <1>1, <1>3, ChainGoesDown, NumberOfParent
    <3>2. d # Genesis
      <4>1. SUFFICES ASSUME d = Genesis PROVE FALSE
            OBVIOUS
      <4>2. Number[a] = 0
            BY <1>1, <1>2, <3>1, <4>1
      <4>3. a = Genesis
        <5>1. a # Genesis => Number[a] = Number[Parent[a]] + 1 /\ Parent[a] \in Known
              BY <1>1, NumberOfParent
        <5> QED  BY <1>2, <4>2, <5>1
      <4> QED  BY <2>2, <4>1, <4>3
    <3>3. d \in Block
          BY <3>1, <3>2, NumberOfParent
    <3>4. Number[a] < Number[d]
          BY <1>3, <2>2, <3>3, ChainBelow
    <3> QED  BY <1>1, <1>2, <1>3, <3>1, <3>4
  <2> QED  BY <2>1, <2>2
<1>4. b \in S
    BY <1>1, <1>3
<1>5. Genesis \in ChainOf[a] /\ \A d \in ChainOf[a] \ {Genesis} : Parent[d] \in ChainOf[a]
    BY <1>1, ChainIsPath DEF IsPath
<1>6. ASSUME NEW d \in above, d # Genesis PROVE Parent[d] \in S
  <2>1. d \in Block /\ d # a /\ a \in ChainOf[d]
        BY <1>1, <1>2, <1>6, NumberOfParent
  <2>2. a \in ChainOf[Parent[d]]
        BY <2>1, ChainBelow
  <2>3. Parent[d] \in ChainOf[b]
        BY <1>6, ChainIsPath DEF IsPath
  <2> QED  BY <1>3, <2>2, <2>3
<1>7. IsPath(S)
    BY <1>5, <1>6 DEF IsPath
<1>8. S \in SUBSET Known
    BY <1>1
<1> HIDE DEF S
<1>9. ChainOf[b] \subseteq S
    BY <1>4, <1>7, <1>8, ChainWithin
<1>10. c \notin above
    BY <1>1, <1>2
<1> QED
    BY <1>9, <1>10 DEF S

\* A chain has one block of each number.
LEMMA ChainUnique ==
    ASSUME NEW b \in Known, NEW a \in ChainOf[b], NEW c \in ChainOf[b],
           Number[c] = Number[a]
    PROVE  c = a
<1>1. a \in Known /\ c \in Known /\ Number[a] \in Nat
    BY ChainSelf, NumberOfParent
<1>2. c \in ChainOf[a]
    BY <1>1, ChainLinear
<1>3. CASE a = Genesis
  <2>1. c # Genesis => Number[c] = Number[Parent[c]] + 1 /\ Number[Parent[c]] \in Nat
        BY <1>1, NumberOfParent
  <2>2. Number[a] = 0
        BY <1>1, <1>3, NumberOfParent
  <2> QED  BY <1>3, <2>1, <2>2
<1>4. CASE a # Genesis
  <2>1. a \in Block
        BY <1>1, <1>4, NumberOfParent
  <2> QED  BY <1>1, <1>2, <2>1, ChainBelow
<1> QED
    BY <1>3, <1>4

---------------------------------------------------------------------------
(* Two chains and their last common block.                                 *)

\* The chains of two blocks have a highest block in common.
LEMMA CommonExists ==
    ASSUME NEW a \in Known, NEW b \in Known
    PROVE  \E c \in ChainOf[a] \cap ChainOf[b] :
              \A d \in ChainOf[a] \cap ChainOf[b] : Number[d] <= Number[c]
<1> DEFINE both == ChainOf[a] \cap ChainOf[b]
           S == {x \in ChainOf[a] : \A e \in both : Number[e] <= Number[x]} \cup {Genesis}
<1>1. SUFFICES ASSUME \A c \in both : \E d \in both : ~(Number[d] <= Number[c])
               PROVE  FALSE
    OBVIOUS
<1>2. /\ ChainOf[a] \subseteq Known /\ a \in ChainOf[a] /\ Genesis \in both
      /\ \A d \in Known : Number[d] \in Nat
      /\ Number[Genesis] = 0
    BY ChainSelf, ChainIsPath, NumberOfParent DEF IsPath, Known
<1>3. a \in S
    BY <1>2, ChainGoesDown
<1>4. ASSUME NEW x \in S, x # Genesis PROVE Parent[x] \in S
  <2>1. /\ x \in ChainOf[a] /\ x \in Known /\ Parent[x] \in Known
        /\ Number[x] = Number[Parent[x]] + 1
        /\ \A e \in both : Number[e] <= Number[x]
        BY <1>2, <1>4, NumberOfParent
  <2>2. Parent[x] \in ChainOf[a]
        BY <1>4, <2>1, ChainIsPath DEF IsPath
  <2>3. x \notin both
        BY <1>1, <2>1
  <2>4. \A e \in both : Number[e] # Number[x]
        BY <2>1, <2>3, ChainUnique
  <2>5. \A e \in both : Number[e] <= Number[Parent[x]]
        BY <1>2, <2>1, <2>4
  <2> QED  BY <2>2, <2>5
<1>5. IsPath(S) /\ S \in SUBSET Known
    BY <1>2, <1>4 DEF IsPath
<1>6. PICK e \in both : ~(Number[e] <= Number[Genesis])
    BY <1>1, <1>2
<1> HIDE DEF S
<1>7. e \in S
    BY <1>3, <1>5, ChainWithin
<1>8. \A d \in both : Number[d] <= Number[e]
    BY <1>2, <1>6, <1>7 DEF S
<1> QED
    BY <1>1, <1>8

\* What is in both chains is at most as high as CommonNumber, what is in one of
\* them only is higher.
LEMMA CommonDivides ==
    ASSUME NEW b \in Known, last \in Known
    PROVE  /\ CommonNumber(b) \in Nat
           /\ CommonNumber(b) <= Number[b] /\ CommonNumber(b) <= Number[last]
           /\ \A c \in ChainOf[b] \cap ChainOf[last] : Number[c] <= CommonNumber(b)
           /\ \A c \in Fresh(b) : Number[c] > CommonNumber(b)
<1> DEFINE both == ChainOf[last] \cap ChainOf[b]
           top == CHOOSE c \in both : \A d \in both : Number[d] <= Number[c]
<1>1. top \in both /\ \A d \in both : Number[d] <= Number[top]
    BY CommonExists
<1>2. CommonNumber(b) = Number[top]
    BY DEF CommonNumber
<1> HIDE DEF top
<1>3. /\ top \in Known /\ Number[top] \in Nat
      /\ Number[top] <= Number[b] /\ Number[top] <= Number[last]
    BY <1>1, ChainSelf, ChainGoesDown, NumberOfParent
<1>4. ASSUME NEW c \in Fresh(b) PROVE Number[c] > Number[top]
  <2>1. c \in ChainOf[b] /\ c \notin ChainOf[last] /\ c \in Known /\ Number[c] \in Nat
        BY ChainSelf, NumberOfParent DEF Fresh
  <2>2. Number[c] <= Number[top] => c \in ChainOf[top]
        BY <1>1, <2>1, ChainLinear
  <2>3. ChainOf[top] \subseteq ChainOf[last]
        BY <1>1, ChainTransitive
  <2> QED  BY <1>3, <2>1, <2>2, <2>3
<1> QED
    BY <1>1, <1>2, <1>3, <1>4

---------------------------------------------------------------------------
(* The inductive invariant.                                                *)

Detail == DOMAIN childrenDB

\* What has details on disk has the rest, down to the genesis block.
TreeOnDisk ==
    /\ Genesis \in Detail /\ Detail \subseteq Known
    /\ \A b \in Detail \ {Genesis} :
          b \in blocksDB /\ b \in stateDB /\ Parent[b] \in Detail

\* The caches never run ahead of the disk, and neither does the head.
MemoryOnDisk ==
    /\ DOMAIN children \subseteq Detail
    /\ reading.of = "details" => reading.key \in Detail
    /\ last = bestDB /\ bestDB \in Detail

\* A number leads to a block that has details and this number.
Leads(n, b) == b \in Detail /\ Number[b] = n

NumbersLead ==
    /\ \A n \in DOMAIN hashesDB : Leads(n, hashesDB[n])
    /\ \A n \in DOMAIN blockHashes : Leads(n, blockHashes[n])
    /\ reading.of = "number" => Leads(reading.key, reading.value)

\* Every number up to the head's has an entry, so that rewind() finds a block.
NumbersThere == \A n \in 1..Number[last] : n \in DOMAIN hashesDB

\* A chain has a block of every number.
ChainsWhole ==
    \A b \in Detail : \A n \in 1..Number[b] : \E c \in ChainOf[b] : Number[c] = n

\* What the import under way has reached.
ImportReady ==
    /\ step \in {"idle", "enacted", "collected", "blocks", "extras"}
    /\ step # "idle" =>
          importing \in Block /\ importing \in stateDB /\ Parent[importing] \in Detail
    /\ step \in {"blocks", "extras"} => importing \in blocksDB

BatchReady ==
    /\ step \in {"collected", "blocks"} =>
          /\ DOMAIN batch.children = {Parent[importing], importing}
          /\ \A n \in DOMAIN batch.hashes :
                /\ batch.hashes[n] \in Detail \cup {importing}
                /\ Number[batch.hashes[n]] = n
          /\ batch.best => \A n \in 1..Number[importing] :
                              n \in DOMAIN batch.hashes \cup DOMAIN hashesDB
    /\ step = "extras" =>
          /\ importing \in Detail
          /\ \A n \in 1..Number[importing] : n \in DOMAIN hashesDB

IInv == /\ TreeOnDisk /\ MemoryOnDisk /\ NumbersLead /\ NumbersThere /\ ChainsWhole
        /\ ImportReady /\ BatchReady

LEMMA InitIInv == Init => IInv
<1> SUFFICES ASSUME Init PROVE IInv
    OBVIOUS
<1>1. Detail = {Genesis} /\ Genesis \in Known /\ Number[Genesis] = 0
    BY TreeAssumption DEF Init, Detail, Known
<1>2. DOMAIN Empty = {}
    BY DEF Empty
<1>3. TreeOnDisk /\ MemoryOnDisk
    BY <1>1 DEF Init, TreeOnDisk, MemoryOnDisk, NotReading
<1>4. NumbersLead /\ NumbersThere
    BY <1>1, <1>2 DEF Init, NumbersLead, NumbersThere, NotReading
<1>5. ChainsWhole /\ ImportReady /\ BatchReady
    BY <1>1 DEF Init, ChainsWhole, ImportReady, BatchReady
<1> QED
    BY <1>3, <1>4, <1>5 DEF IInv

---------------------------------------------------------------------------
(* The import, step by step.                                               *)

\* The chain of the block being imported is on disk, but for the block itself.
LEMMA ChainOfImported ==
    ASSUME TreeOnDisk, NEW b \in Block, Parent[b] \in Detail
    PROVE  ChainOf[b] \subseteq Detail \cup {b}
<1>1. b \in Known /\ Genesis \in Known /\ Detail \cup {b} \in SUBSET Known
    BY DEF TreeOnDisk, Known
<1>2. IsPath(Detail \cup {b})
    BY DEF TreeOnDisk, IsPath
<1> QED
    BY <1>1, <1>2, ChainWithin

\* Its chain has a block of every number, as its parent's has.
LEMMA ImportedChainWhole ==
    ASSUME TreeOnDisk, ChainsWhole, NEW b \in Block, Parent[b] \in Detail,
           NEW n \in 1..Number[b]
    PROVE  \E c \in ChainOf[b] : Number[c] = n
<1>1. b \in Known /\ b # Genesis
    BY TreeAssumption DEF Known
<1>2. Parent[b] \in Known /\ Number[b] = Number[Parent[b]] + 1 /\ Number[Parent[b]] \in Nat
    BY <1>1, NumberOfParent
<1>3. CASE n = Number[b]
    BY <1>1, <1>3, ChainSelf
<1>4. CASE n # Number[b]
  <2>1. n \in 1..Number[Parent[b]]
        BY <1>2, <1>4
  <2>2. PICK c \in ChainOf[Parent[b]] : Number[c] = n
        BY <2>1 DEF ChainsWhole
  <2> QED  BY <2>2, ChainOfParent
<1> QED
    BY <1>3, <1>4

LEMMA EnactKeeps ==
    ASSUME IInv, NEW b \in Block, Enact(b)
    PROVE  IInv'
<1>1. Parent[b] \in Detail
    BY DEF IInv, Enact, IsKnown, HasDetails, MemoryOnDisk, TreeOnDisk, Detail
<1>2. UNCHANGED <<Detail, childrenDB, blocksDB, hashesDB, bestDB, children, blockHashes,
                  last, reading, batch>>
    BY DEF Enact, cacheVars, Detail
<1>3. step' = "enacted" /\ importing' = b /\ stateDB' = stateDB \cup {b}
    BY DEF Enact
<1>4. TreeOnDisk' /\ MemoryOnDisk'
    BY <1>2, <1>3 DEF IInv, TreeOnDisk, MemoryOnDisk
<1>5. NumbersLead' /\ NumbersThere' /\ ChainsWhole'
    BY <1>2 DEF IInv, NumbersLead, Leads, NumbersThere, ChainsWhole
<1>6. ImportReady' /\ BatchReady'
    BY <1>1, <1>2, <1>3 DEF ImportReady, BatchReady
<1> QED
    BY <1>4, <1>5, <1>6 DEF IInv

LEMMA CollectKeeps ==
    ASSUME IInv, Collect
    PROVE  IInv'
<1> DEFINE b == importing
           best == BecomesBest(b)
           fresh == {Number[c] : c \in Fresh(b)}
<1>1. step = "enacted" /\ step' = "collected" /\ importing' = importing
      /\ b \in Block /\ Parent[b] \in Detail /\ b \in stateDB
    BY DEF Collect, IInv, ImportReady
<1>2. UNCHANGED <<Detail, childrenDB, blocksDB, stateDB, hashesDB, bestDB, last, reading>>
    BY DEF Collect, diskVars, Detail
<1>3. DOMAIN children' = DOMAIN children \cup {Parent[b]}
      /\ \A n \in DOMAIN blockHashes' : n \in DOMAIN blockHashes
                                       /\ blockHashes'[n] = blockHashes[n]
    BY DEF Collect, Written, Without
<1>4. /\ DOMAIN batch'.children = {Parent[b], b}
      /\ batch'.hashes = IF best THEN [n \in fresh |-> CHOOSE c \in Fresh(b) : Number[c] = n]
                         ELSE Empty
      /\ batch'.best = best
    BY DEF Collect
<1>5. TreeOnDisk' /\ MemoryOnDisk'
    BY <1>1, <1>2, <1>3 DEF IInv, TreeOnDisk, MemoryOnDisk
<1>6. NumbersLead' /\ NumbersThere' /\ ChainsWhole'
    BY <1>2, <1>3 DEF IInv, NumbersLead, Leads, NumbersThere, ChainsWhole
<1>7. ASSUME NEW n \in DOMAIN batch'.hashes
      PROVE  batch'.hashes[n] \in Detail \cup {b} /\ Number[batch'.hashes[n]] = n
  <2>1. best /\ n \in fresh /\ batch'.hashes[n] = CHOOSE c \in Fresh(b) : Number[c] = n
        BY <1>4, <1>7 DEF Empty
  <2>2. batch'.hashes[n] \in Fresh(b) /\ Number[batch'.hashes[n]] = n
        BY <2>1
  <2> QED  BY <1>1, <2>2, ChainOfImported DEF Fresh, IInv
<1>8. ASSUME best, NEW n \in 1..Number[b]
      PROVE  n \in DOMAIN batch'.hashes \cup DOMAIN hashesDB
  <2>1. PICK c \in ChainOf[b] : Number[c] = n
        BY <1>1, ImportedChainWhole DEF IInv
  <2>2. CASE c \in Fresh(b)
        BY <1>4, <1>8, <2>1, <2>2
  <2>3. CASE c \notin Fresh(b)
    <3>1. c \in ChainOf[last] /\ last \in Known
          BY <2>1, <2>3 DEF Fresh, IInv, MemoryOnDisk, TreeOnDisk
    <3>2. n <= Number[last] /\ Number[last] \in Nat
          BY <2>1, <3>1, ChainGoesDown, NumberOfParent
    <3>3. b \in Known
          BY <1>1 DEF Known
    <3>4. n \in 1..Number[last]
          BY <1>8, <3>2, <3>3, NumberOfParent
    <3> QED  BY <3>4 DEF IInv, NumbersThere
  <2> QED  BY <2>2, <2>3
<1>9. ImportReady' /\ BatchReady'
    BY <1>1, <1>2, <1>4, <1>7, <1>8 DEF ImportReady, BatchReady
<1> QED
    BY <1>5, <1>6, <1>9 DEF IInv

LEMMA CommitBlocksKeeps ==
    ASSUME IInv, CommitBlocks
    PROVE  IInv'
<1>1. step = "collected" /\ step' = "blocks" /\ blocksDB' = blocksDB \cup {importing}
    BY DEF CommitBlocks
<1>2. UNCHANGED <<Detail, childrenDB, stateDB, hashesDB, bestDB, children, blockHashes, last,
                  reading, importing, batch>>
    BY DEF CommitBlocks, cacheVars, Detail
<1>3. TreeOnDisk' /\ MemoryOnDisk'
    BY <1>1, <1>2 DEF IInv, TreeOnDisk, MemoryOnDisk
<1>4. NumbersLead' /\ NumbersThere' /\ ChainsWhole'
    BY <1>2 DEF IInv, NumbersLead, Leads, NumbersThere, ChainsWhole
<1>5. ImportReady' /\ BatchReady'
    BY <1>1, <1>2 DEF IInv, ImportReady, BatchReady
<1> QED
    BY <1>3, <1>4, <1>5 DEF IInv

LEMMA CommitExtrasKeeps ==
    ASSUME IInv, CommitExtras
    PROVE  IInv'
<1> DEFINE b == importing
<1>1. step = "blocks" /\ b \in Block /\ b \in stateDB /\ b \in blocksDB
      /\ Parent[b] \in Detail
    BY DEF CommitExtras, IInv, ImportReady
<1>2. UNCHANGED <<stateDB, blocksDB, bestDB, children, blockHashes, last, reading>>
    BY DEF CommitExtras, cacheVars
<1>3. Detail' = Detail \cup {b}
    BY <1>1 DEF CommitExtras, Written, Detail, IInv, BatchReady
<1>4. DOMAIN hashesDB' = DOMAIN hashesDB \cup DOMAIN batch.hashes
      /\ \A n \in DOMAIN hashesDB' :
            hashesDB'[n] = IF n \in DOMAIN batch.hashes THEN batch.hashes[n] ELSE hashesDB[n]
    BY DEF CommitExtras, Written
<1>5. b \in Known /\ b # Genesis
    BY <1>1, TreeAssumption DEF Known
<1>6. TreeOnDisk'
    BY <1>1, <1>2, <1>3, <1>5 DEF IInv, TreeOnDisk
<1>7. MemoryOnDisk'
    BY <1>2, <1>3 DEF IInv, MemoryOnDisk
<1>8. NumbersLead'
  <2>1. ASSUME NEW n \in DOMAIN hashesDB' PROVE hashesDB'[n] \in Detail' /\ Number[hashesDB'[n]] = n
        BY <1>1, <1>3, <1>4, <2>1 DEF IInv, NumbersLead, Leads, BatchReady
  <2> QED  BY <1>2, <1>3, <2>1 DEF IInv, NumbersLead, Leads
<1>9. NumbersThere'
    BY <1>2, <1>4 DEF IInv, NumbersThere
<1>10. ChainsWhole'
    BY <1>1, <1>3, ImportedChainWhole DEF IInv, ChainsWhole
<1>11. CASE batch.best
  <2>1. step' = "extras" /\ UNCHANGED <<importing, batch>>
        BY <1>11 DEF CommitExtras
  <2>2. ImportReady'
        BY <1>1, <1>2, <1>3, <2>1 DEF ImportReady
  <2>3. BatchReady'
        BY <1>1, <1>3, <1>4, <1>11, <2>1 DEF IInv, BatchReady
  <2> QED  BY <1>6, <1>7, <1>8, <1>9, <1>10, <2>2, <2>3 DEF IInv
<1>12. CASE ~batch.best
  <2>1. step' = "idle"
        BY <1>12 DEF CommitExtras, Idle
  <2> QED  BY <1>6, <1>7, <1>8, <1>9, <1>10, <2>1 DEF IInv, ImportReady, BatchReady
<1> QED
    BY <1>11, <1>12

LEMMA SetBestKeeps ==
    ASSUME IInv, SetBest
    PROVE  IInv'
<1>1. step = "extras" /\ step' = "idle" /\ last' = importing /\ bestDB' = importing
      /\ importing \in Detail
    BY DEF SetBest, Idle, IInv, BatchReady
<1>2. UNCHANGED <<Detail, childrenDB, stateDB, blocksDB, hashesDB, children, blockHashes, reading>>
    BY DEF SetBest, cacheVars, Detail
<1>3. TreeOnDisk' /\ MemoryOnDisk'
    BY <1>1, <1>2 DEF IInv, TreeOnDisk, MemoryOnDisk
<1>4. NumbersLead' /\ ChainsWhole'
    BY <1>2 DEF IInv, NumbersLead, Leads, ChainsWhole
<1>5. NumbersThere'
    BY <1>1, <1>2 DEF IInv, BatchReady, NumbersThere
<1> QED
    BY <1>1, <1>3, <1>4, <1>5 DEF IInv, ImportReady, BatchReady

---------------------------------------------------------------------------
(* The other steps.                                                        *)

\* rewind() finds the block of the number it is given.
LEMMA RewindTarget ==
    ASSUME IInv, NEW n \in Numbers, n < Number[last]
    PROVE  Leads(n, NumberHash(n)) /\ n \in Nat /\ Number[last] \in Nat
<1>1. n \in Nat /\ Number[last] \in Nat
    BY NumberOfParent DEF Numbers, IInv, MemoryOnDisk, TreeOnDisk
<1>2. CASE n = 0
  <2>1. Genesis \in Detail /\ Number[Genesis] = 0
        BY NumberOfParent DEF IInv, TreeOnDisk
  <2>2. NumberHash(n) = Genesis
        BY <1>2 DEF NumberHash
  <2> QED  BY <1>1, <1>2, <2>1, <2>2 DEF Leads
<1>3. CASE n # 0
  <2>1. n \in DOMAIN hashesDB
        BY <1>1, <1>3 DEF IInv, NumbersThere
  <2>2. CASE n \in DOMAIN blockHashes
    <3>1. NumberHash(n) = blockHashes[n]
          BY <1>3, <2>2 DEF NumberHash
    <3> QED  BY <1>1, <2>2, <3>1 DEF IInv, NumbersLead
  <2>3. CASE n \notin DOMAIN blockHashes
    <3>1. NumberHash(n) = hashesDB[n]
          BY <1>3, <2>3 DEF NumberHash
    <3> QED  BY <1>1, <2>1, <3>1 DEF IInv, NumbersLead
  <2> QED  BY <2>2, <2>3
<1> QED
    BY <1>1, <1>2, <1>3

LEMMA RewindKeeps ==
    ASSUME IInv, NEW n \in Numbers, Rewind(n)
    PROVE  IInv'
<1> DEFINE head == NumberHash(n)
<1>1. head \in Detail /\ Number[head] = n /\ n \in Nat /\ Number[last] \in Nat /\ n < Number[last]
    BY RewindTarget DEF Rewind, Leads
<1>2. step = "idle" /\ last' = head /\ bestDB' = head
    BY DEF Rewind
<1>3. UNCHANGED <<Detail, childrenDB, stateDB, blocksDB, hashesDB, children, reading,
                  importing, step, batch>>
    BY DEF Rewind, importVars, Detail
<1>4. \A m \in DOMAIN blockHashes' :
          \/ m \in DOMAIN blockHashes /\ blockHashes'[m] = blockHashes[m]
          \/ m = n /\ blockHashes'[m] = head
    BY DEF Rewind, Written, Without
<1>5. TreeOnDisk' /\ MemoryOnDisk'
    BY <1>1, <1>2, <1>3 DEF IInv, TreeOnDisk, MemoryOnDisk
<1>6. NumbersLead' /\ ChainsWhole'
    BY <1>1, <1>3, <1>4 DEF IInv, NumbersLead, Leads, ChainsWhole
<1>7. NumbersThere'
    BY <1>1, <1>2, <1>3 DEF IInv, NumbersThere
<1> QED
    BY <1>2, <1>3, <1>5, <1>6, <1>7 DEF IInv, ImportReady, BatchReady

LEMMA RestartKeeps ==
    ASSUME IInv, Restart
    PROVE  IInv'
<1>1. /\ step' = "idle" /\ last' = bestDB /\ reading' = NotReading
      /\ children' = Empty /\ blockHashes' = Empty
      /\ UNCHANGED <<Detail, childrenDB, stateDB, blocksDB, hashesDB, bestDB>>
    BY DEF Restart, diskVars, Detail
<1>2. TreeOnDisk' /\ MemoryOnDisk'
    BY <1>1 DEF IInv, TreeOnDisk, MemoryOnDisk, Empty, NotReading
<1>3. NumbersLead' /\ NumbersThere' /\ ChainsWhole'
    BY <1>1 DEF IInv, NumbersLead, Leads, NumbersThere, ChainsWhole, MemoryOnDisk, Empty,
                NotReading
<1> QED
    BY <1>1, <1>2, <1>3 DEF IInv, ImportReady, BatchReady

LEMMA GarbageCollectKeeps ==
    ASSUME IInv, NEW b \in Polled, GarbageCollect(b)
    PROVE  IInv'
BY DEF GarbageCollect, Without, diskVars, importVars, IInv, Detail, TreeOnDisk, MemoryOnDisk,
       NumbersLead, Leads, NumbersThere, ChainsWhole, ImportReady, BatchReady

LEMMA LookUpsKeep ==
    ASSUME IInv, (\E n \in Numbers : LookUpNumber(n)) \/ (\E b \in Polled : LookUpDetails(b))
    PROVE  IInv'
<1>1. /\ UNCHANGED <<Detail, childrenDB, stateDB, blocksDB, hashesDB, bestDB, children,
                     blockHashes, last, importing, step, batch>>
      /\ reading'.of = "details" => reading'.key \in Detail
      /\ reading'.of = "number" => Leads(reading'.key, reading'.value)
    BY DEF LookUpNumber, LookUpDetails, diskVars, cacheVars, importVars, Detail, IInv, NumbersLead
<1> QED
    BY <1>1 DEF IInv, TreeOnDisk, MemoryOnDisk, NumbersLead, Leads, NumbersThere, ChainsWhole,
                ImportReady, BatchReady

LEMMA FillsKeep ==
    ASSUME IInv, FillNumber \/ FillDetails
    PROVE  IInv'
<1>1. UNCHANGED <<Detail, childrenDB, stateDB, blocksDB, hashesDB, bestDB, last, importing,
                  step, batch>>
    BY DEF FillNumber, FillDetails, diskVars, importVars, Detail
<1>2. reading' = NotReading
    BY DEF FillNumber, FillDetails
<1>3. DOMAIN children' \subseteq Detail
    BY DEF FillNumber, FillDetails, Written, IInv, MemoryOnDisk
<1>4. \A n \in DOMAIN blockHashes' : Leads(n, blockHashes'[n])
    BY DEF FillNumber, FillDetails, Written, IInv, NumbersLead
<1> QED
    BY <1>1, <1>2, <1>3, <1>4 DEF IInv, TreeOnDisk, MemoryOnDisk, NumbersLead, Leads,
       NumbersThere, ChainsWhole, ImportReady, BatchReady, NotReading

LEMMA NextIInv == IInv /\ [Next]_vars => IInv'
<1> SUFFICES ASSUME IInv, [Next]_vars PROVE IInv'
    OBVIOUS
<1>1. CASE UNCHANGED vars
    BY <1>1 DEF vars, diskVars, cacheVars, importVars, IInv, Detail, TreeOnDisk, MemoryOnDisk,
       NumbersLead, Leads, NumbersThere, ChainsWhole, ImportReady, BatchReady
<1>2. CASE \E b \in Block : Enact(b)
    BY <1>2, EnactKeeps
<1>3. CASE Collect \/ CommitBlocks \/ CommitExtras \/ SetBest
    BY <1>3, CollectKeeps, CommitBlocksKeeps, CommitExtrasKeeps, SetBestKeeps
<1>4. CASE \E n \in Numbers : Rewind(n)
    BY <1>4, RewindKeeps
<1>5. CASE \E b \in Polled : GarbageCollect(b)
    BY <1>5, GarbageCollectKeeps
<1>6. CASE Restart
    BY <1>6, RestartKeeps
<1>7. CASE (\E n \in Numbers : LookUpNumber(n)) \/ (\E b \in Polled : LookUpDetails(b))
    BY <1>7, LookUpsKeep
<1>8. CASE FillNumber \/ FillDetails
    BY <1>8, FillsKeep
<1> QED
    BY <1>1, <1>2, <1>3, <1>4, <1>5, <1>6, <1>7, <1>8 DEF Next

\* The inductive invariant of the chain's databases and caches.
THEOREM ChainInvariant == Spec => []IInv
BY InitIInv, NextIInv, PTL DEF Spec

\* Whenever the process dies, the next one finds a chain, whatever the tree of
\* blocks and the order of imports, rewinds, reads and crashes.
THEOREM CrashLeavesChain == Spec => []RestartFindsChain
<1>1. IInv => RestartFindsChain
    BY DEF IInv, TreeOnDisk, MemoryOnDisk, Detail, RestartFindsChain
<1> QED
    BY <1>1, ChainInvariant, PTL

---------------------------------------------------------------------------
(* What an import collects, and what becomes of it.                        *)

\* The batch of the extras is the one this block calls for, and nothing has
\* moved the head since it was collected.
BatchIs ==
    /\ step \in {"idle", "enacted"} => batch = NoBatch
    /\ step \in {"collected", "blocks"} =>
          /\ batch.best \in BOOLEAN
          /\ batch.best <=> BecomesBest(importing)
          /\ batch.hashes = IF batch.best
                            THEN [n \in {Number[c] : c \in Fresh(importing)} |->
                                    CHOOSE c \in Fresh(importing) : Number[c] = n]
                            ELSE Empty
    /\ step = "extras" =>
          /\ batch.best /\ BecomesBest(importing)
          /\ DOMAIN batch.hashes = {Number[c] : c \in Fresh(importing)}

\* What leaves an import under way alone.
Aside ==
    \/ \E n \in Numbers : LookUpNumber(n)
    \/ \E b \in Polled : LookUpDetails(b)
    \/ FillNumber \/ FillDetails

LEMMA AsideLeaves ==
    ASSUME Aside
    PROVE  UNCHANGED <<diskVars, last, importVars, torn, outdone>>
BY DEF Aside, LookUpNumber, LookUpDetails, FillNumber, FillDetails, historyVars

LEMMA BatchIsKept ==
    ASSUME IInv, BatchIs, [Next]_vars
    PROVE  BatchIs'
<1>1. ASSUME NEW b \in Block, Enact(b) PROVE BatchIs'
  <2>1. step = "idle" /\ step' = "enacted" /\ batch' = batch
        BY <1>1 DEF Enact
  <2> QED  BY <2>1 DEF BatchIs
<1>2. CASE Collect
  <2>1. /\ step' = "collected" /\ importing' = importing /\ last' = last
        /\ batch'.best = BecomesBest(importing)
        /\ batch'.hashes = IF BecomesBest(importing)
                           THEN [n \in {Number[c] : c \in Fresh(importing)} |->
                                   CHOOSE c \in Fresh(importing) : Number[c] = n]
                           ELSE Empty
        BY <1>2 DEF Collect
  <2> QED  BY <2>1 DEF BatchIs, BecomesBest, Heavier, Fresh
<1>3. CASE CommitBlocks
  <2>1. /\ step = "collected" /\ step' = "blocks"
        /\ UNCHANGED <<importing, last, batch>>
        BY <1>3 DEF CommitBlocks
  <2> QED  BY <2>1 DEF BatchIs, BecomesBest, Fresh
<1>4. CASE CommitExtras
  <2>1. step = "blocks" /\ last' = last
        BY <1>4 DEF CommitExtras
  <2>2. CASE batch.best
    <3>1. step' = "extras" /\ importing' = importing /\ batch' = batch
          BY <1>4, <2>2 DEF CommitExtras
    <3>2. batch.best /\ BecomesBest(importing)
          /\ DOMAIN batch.hashes = {Number[c] : c \in Fresh(importing)}
          BY <2>1, <2>2 DEF BatchIs
    <3> QED  BY <2>1, <3>1, <3>2 DEF BatchIs, BecomesBest, Fresh
  <2>3. CASE ~batch.best
    <3>1. step' = "idle" /\ batch' = NoBatch
          BY <1>4, <2>3 DEF CommitExtras, Idle
    <3> QED  BY <3>1 DEF BatchIs
  <2> QED  BY <2>2, <2>3
<1>5. CASE SetBest \/ Restart
  <2>1. step' = "idle" /\ batch' = NoBatch
        BY <1>5 DEF SetBest, Restart, Idle
  <2> QED  BY <2>1 DEF BatchIs
<1>6. CASE (\E n \in Numbers : Rewind(n)) \/ (\E b \in Polled : GarbageCollect(b))
  <2>1. step = "idle" /\ step' = "idle" /\ batch' = batch
        BY <1>6 DEF Rewind, GarbageCollect, importVars
  <2> QED  BY <2>1 DEF BatchIs
<1>7. CASE Aside \/ UNCHANGED vars
  <2>1. UNCHANGED <<step, importing, batch, last>>
        BY <1>7, AsideLeaves DEF vars, importVars
  <2> QED  BY <2>1 DEF BatchIs, BecomesBest, Fresh
<1> QED
    BY <1>1, <1>2, <1>3, <1>4, <1>5, <1>6, <1>7 DEF Next, Aside

---------------------------------------------------------------------------
(* The heaviest block is the head.                                         *)

LEMMA HeavierOrders ==
    ASSUME NEW a \in Known, NEW b \in Known, NEW c \in Known
    PROVE  /\ ~Heavier(a, a)
           /\ Heavier(a, b) /\ Heavier(b, c) => Heavier(a, c)
BY TreeAssumption DEF Heavier

\* No block with details is heavier than the head, but for what was given up and
\* the one about to become the head.
HeadHeaviest ==
    \A b \in Detail \ {Genesis} :
        Heavier(b, last) => b \in outdone \/ (step = "extras" /\ b = importing)

LEMMA HeadHeaviestKept ==
    ASSUME IInv, BatchIs, HeadHeaviest, [Next]_vars
    PROVE  HeadHeaviest'
<1>0. Detail \subseteq Known /\ last \in Known /\ (step # "idle" => importing \in Known)
    BY DEF IInv, TreeOnDisk, MemoryOnDisk, ImportReady, Known
<1>1. ASSUME NEW b \in Block, Enact(b) PROVE HeadHeaviest'
  <2>1. UNCHANGED <<Detail, last, outdone>> /\ step = "idle"
        BY <1>1 DEF Enact, Detail, historyVars
  <2> QED  BY <2>1 DEF HeadHeaviest
<1>2. CASE Collect \/ CommitBlocks
  <2>1. UNCHANGED <<Detail, last, outdone, importing>> /\ step # "extras"
        BY <1>2 DEF Collect, CommitBlocks, Detail, diskVars, historyVars
  <2> QED  BY <2>1 DEF HeadHeaviest
<1>3. CASE CommitExtras
  <2>1. step = "blocks" /\ last' = last /\ outdone' = outdone
        BY <1>3 DEF CommitExtras
  <2>2. Detail' = Detail \cup {importing}
    <3>1. DOMAIN batch.children = {Parent[importing], importing} /\ Parent[importing] \in Detail
          BY <2>1 DEF IInv, BatchReady, ImportReady
    <3> QED  BY <1>3, <3>1 DEF CommitExtras, Written, Detail
  <2>3. Heavier(importing, last) => step' = "extras" /\ importing' = importing
        BY <1>3, <2>1 DEF CommitExtras, BatchIs, BecomesBest
  <2> QED  BY <2>1, <2>2, <2>3 DEF HeadHeaviest
<1>4. CASE SetBest
  <2>1. /\ step = "extras" /\ last' = importing
        /\ outdone' = {b \in outdone : Heavier(b, importing)}
        /\ Detail' = Detail
        BY <1>4 DEF SetBest, Detail
  <2>2. Heavier(importing, last)
        BY <2>1 DEF BatchIs, BecomesBest
  <2>3. ASSUME NEW b \in Detail \ {Genesis}, Heavier(b, importing) PROVE b \in outdone
    <3>1. Heavier(b, last) /\ b # importing
          BY <1>0, <2>1, <2>2, <2>3, HeavierOrders
    <3> QED  BY <2>3, <3>1 DEF HeadHeaviest
  <2> QED  BY <2>1, <2>3 DEF HeadHeaviest
<1>5. CASE \E n \in Numbers : Rewind(n)
  <2>1. PICK n \in Numbers : Rewind(n)
        BY <1>5
  <2>2. /\ outdone' = {b \in Detailed : Heavier(b, last')}
        /\ Detail' = Detail
        BY <2>1 DEF Rewind, Detail
  <2>3. Detail \ {Genesis} \subseteq Detailed
        BY <1>0 DEF IInv, TreeOnDisk, Detailed, IsKnown, HasDetails, Detail, Known
  <2> QED  BY <2>2, <2>3 DEF HeadHeaviest
<1>6. CASE \E b \in Polled : GarbageCollect(b)
  <2>1. UNCHANGED <<Detail, last, outdone, step, importing>>
        BY <1>6 DEF GarbageCollect, Detail, diskVars, importVars, historyVars
  <2> QED  BY <2>1 DEF HeadHeaviest
<1>7. CASE Restart
  <2>1. /\ last' = last /\ Detail' = Detail
        /\ outdone' = IF step = "extras" THEN outdone \cup {importing} ELSE outdone
        BY <1>7 DEF Restart, diskVars, Detail, IInv, MemoryOnDisk
  <2> QED  BY <2>1 DEF HeadHeaviest
<1>8. CASE Aside \/ UNCHANGED vars
  <2>1. UNCHANGED <<Detail, last, outdone, step, importing>>
        BY <1>8, AsideLeaves DEF vars, diskVars, importVars, historyVars, Detail
  <2> QED  BY <2>1 DEF HeadHeaviest
<1> QED
    BY <1>1, <1>2, <1>3, <1>4, <1>5, <1>6, <1>7, <1>8 DEF Next, Aside

---------------------------------------------------------------------------
(* The cached numbers.                                                     *)

\* A cached number that is not marked is the one on disk, and the import under
\* way does not touch it.
CacheAgrees ==
    \A n \in DOMAIN blockHashes \ crossed :
        /\ n \in DOMAIN hashesDB /\ blockHashes[n] = hashesDB[n]
        /\ ~AboveHead(n)

\* A number that is being read has an entry.
NumberRead == reading.of = "number" => reading.key \in DOMAIN hashesDB

LEMMA NumberReadKept ==
    ASSUME NumberRead, [Next]_vars
    PROVE  NumberRead'
<1>1. CASE \E n \in Numbers : LookUpNumber(n)
    BY <1>1 DEF LookUpNumber, diskVars, NumberRead
<1>2. CASE Restart \/ FillNumber \/ FillDetails \/ \E b \in Polled : LookUpDetails(b)
    BY <1>2 DEF Restart, FillNumber, FillDetails, LookUpDetails, NotReading, NumberRead
<1>3. CASE CommitExtras
    BY <1>3 DEF CommitExtras, Written, NumberRead
<1>4. CASE \/ \E b \in Block : Enact(b)
           \/ Collect \/ CommitBlocks \/ SetBest
           \/ \E n \in Numbers : Rewind(n)
           \/ \E b \in Polled : GarbageCollect(b)
           \/ UNCHANGED vars
  <2>1. UNCHANGED <<hashesDB, reading>>
        BY <1>4 DEF Enact, Collect, CommitBlocks, SetBest, Rewind, GarbageCollect, vars, diskVars
  <2> QED  BY <2>1 DEF NumberRead
<1> QED
    BY <1>1, <1>2, <1>3, <1>4 DEF Next

LEMMA CollectedNumbers ==
    ASSUME BatchIs, step \in {"collected", "blocks", "extras"}, NEW n
    PROVE  n \in DOMAIN batch.hashes => batch.best /\ \E c \in Fresh(importing) : Number[c] = n
BY DEF BatchIs, Empty

LEMMA CacheAgreesKept ==
    ASSUME IInv, BatchIs, NumberRead, CacheAgrees, [Next]_vars
    PROVE  CacheAgrees'
<1>0. /\ last \in Known /\ Number[last] \in Nat
      /\ step # "idle" => importing \in Known /\ Number[importing] \in Nat
      /\ \A n \in DOMAIN hashesDB \cup DOMAIN blockHashes : n \in Nat
  <2>1. last \in Known /\ (step # "idle" => importing \in Known)
        BY DEF IInv, MemoryOnDisk, TreeOnDisk, ImportReady, Known
  <2>2. \A n \in DOMAIN hashesDB \cup DOMAIN blockHashes : \E c \in Known : n = Number[c]
        BY DEF IInv, NumbersLead, Leads, TreeOnDisk
  <2> QED  BY <2>1, <2>2, NumberOfParent
<1>1. ASSUME NEW b \in Block, Enact(b) PROVE CacheAgrees'
  <2>1. UNCHANGED <<blockHashes, crossed, hashesDB, last, batch>> /\ batch = NoBatch
        BY <1>1 DEF Enact, cacheVars, historyVars, BatchIs
  <2>2. ~batch.best
        BY <2>1 DEF NoBatch
  <2> QED  BY <2>1, <2>2 DEF CacheAgrees, AboveHead
<1>2. CASE Collect
  <2> DEFINE b == importing
             best == BecomesBest(b)
             cleared == IF best /\ CommonNumber(b) # Number[last]
                        THEN ClearedFrom(CommonNumber(b) + 1) ELSE {}
  <2>1. /\ UNCHANGED <<hashesDB, last, importing>>
        /\ DOMAIN blockHashes' = DOMAIN blockHashes \ cleared
        /\ \A n \in DOMAIN blockHashes' : blockHashes'[n] = blockHashes[n]
        /\ crossed' = crossed \ cleared
        /\ batch'.best = best
        /\ DOMAIN batch'.hashes = IF best THEN {Number[c] : c \in Fresh(b)} ELSE {}
        BY <1>2 DEF Collect, diskVars, Without, Empty
  <2>2. /\ CommonNumber(b) \in Nat /\ CommonNumber(b) <= Number[b]
        /\ CommonNumber(b) <= Number[last]
        /\ \A c \in Fresh(b) : Number[c] > CommonNumber(b)
    <3>1. b \in Known
          BY <1>0, <1>2 DEF Collect
    <3> QED  BY <1>0, <3>1, CommonDivides
  <2>3. ASSUME NEW n \in DOMAIN blockHashes' \ crossed'
        PROVE  /\ n \in DOMAIN hashesDB' /\ blockHashes'[n] = hashesDB'[n]
               /\ ~AboveHead(n)'
    <3>1. n \in DOMAIN blockHashes \ crossed /\ n \notin cleared
          BY <2>1, <2>3
    <3>2. n \in DOMAIN hashesDB /\ blockHashes[n] = hashesDB[n] /\ ~(n > Number[last])
          BY <3>1 DEF CacheAgrees, AboveHead
    <3>3. n \in Nat /\ n <= Number[last]
          BY <1>0, <3>2
    <3>4. best => n <= CommonNumber(b)
      <4>1. best /\ CommonNumber(b) # Number[last] => ~(CommonNumber(b) + 1 <= n)
            BY <3>1, <3>3 DEF ClearedFrom
      <4> QED  BY <1>0, <2>2, <3>3, <4>1
    <3>5. best => n \notin DOMAIN batch'.hashes /\ n <= Number[b]
      <4> HIDE DEF best, b
      <4>1. best => \A c \in Fresh(b) : Number[c] # n
            BY <2>2, <3>3, <3>4
      <4>2. b \in Known /\ Number[b] \in Nat
            BY <1>0, <1>2 DEF Collect, b
      <4> QED  BY <2>1, <2>2, <3>3, <3>4, <4>1, <4>2
    <3>6. best => ~(n > Number[b])
          BY <1>0, <1>2, <3>3, <3>5 DEF Collect
    <3> QED  BY <2>1, <2>3, <3>2, <3>5, <3>6 DEF AboveHead
  <2> QED  BY <2>3 DEF CacheAgrees
<1>3. CASE CommitBlocks
  <2>1. UNCHANGED <<blockHashes, crossed, hashesDB, last, importing, batch>>
        BY <1>3 DEF CommitBlocks, cacheVars, historyVars
  <2> QED  BY <2>1 DEF CacheAgrees, AboveHead
<1>4. CASE CommitExtras
  <2>1. /\ UNCHANGED <<blockHashes, crossed, last>>
        /\ hashesDB' = Written(hashesDB, batch.hashes)
        /\ step = "blocks"
        BY <1>4 DEF CommitExtras, cacheVars
  <2>2. IF batch.best THEN UNCHANGED <<importing, batch>> ELSE batch' = NoBatch
        BY <1>4 DEF CommitExtras, Idle
  <2>3. \A n \in DOMAIN batch.hashes : batch.best
        BY <2>1, CollectedNumbers
  <2>4. \A n \in DOMAIN blockHashes \ crossed : n \notin DOMAIN batch.hashes
        BY <2>3 DEF CacheAgrees, AboveHead
  <2>5. \A n \in DOMAIN blockHashes \ crossed :
           n \in DOMAIN hashesDB' /\ hashesDB'[n] = hashesDB[n]
        BY <2>1, <2>4 DEF Written, CacheAgrees
  <2> QED  BY <2>1, <2>2, <2>5 DEF CacheAgrees, AboveHead, NoBatch
<1>5. CASE SetBest
  <2>1. /\ UNCHANGED <<blockHashes, crossed, hashesDB>>
        /\ step = "extras" /\ last' = importing /\ batch' = NoBatch
        BY <1>5 DEF SetBest, Idle, cacheVars
  <2>2. batch.best
        BY <2>1 DEF BatchIs
  <2> QED  BY <2>1, <2>2 DEF CacheAgrees, AboveHead, NoBatch
<1>6. CASE \E n \in Numbers : Rewind(n)
  <2>1. PICK n \in Numbers : Rewind(n)
        BY <1>6
  <2> DEFINE cleared == ClearedFrom(n + 1)
             head == NumberHash(n)
  <2>2. /\ UNCHANGED <<hashesDB, batch>> /\ step = "idle"
        /\ blockHashes' = Written(Without(blockHashes, cleared), [m \in {n} \ {0} |-> head])
        /\ crossed' = crossed \ cleared
        /\ last' = head
        BY <2>1 DEF Rewind, importVars
  <2>3. Number[head] = n /\ n \in Nat
        BY <2>1, RewindTarget DEF Rewind, Leads
  <2>4. ~batch.best
        BY <2>2 DEF BatchIs, NoBatch
  <2>5. n \notin cleared
        BY <2>3 DEF ClearedFrom
  <2>6. ASSUME NEW m \in DOMAIN blockHashes' \ crossed'
        PROVE  /\ m \in DOMAIN hashesDB /\ blockHashes'[m] = hashesDB[m] /\ m <= n
    <3>1. CASE m = n /\ m # 0
      <4>1. n \in DOMAIN hashesDB
            BY <2>1, <2>3, <3>1, <1>0 DEF Rewind, IInv, NumbersThere
      <4>2. n \notin crossed
            BY <2>2, <2>5, <2>6, <3>1
      <4>3. head = hashesDB[n]
            BY <3>1, <4>2 DEF NumberHash, CacheAgrees
      <4>4. blockHashes'[m] = head
            BY <2>2, <3>1 DEF Written
      <4> QED  BY <2>3, <3>1, <4>1, <4>3, <4>4
    <3>2. CASE ~(m = n /\ m # 0)
      <4>1. m \in DOMAIN blockHashes \ cleared /\ blockHashes'[m] = blockHashes[m]
            BY <2>2, <2>6, <3>2 DEF Written, Without
      <4>2. m \notin crossed
            BY <2>2, <2>6, <4>1
      <4>3. m \in DOMAIN hashesDB /\ blockHashes[m] = hashesDB[m] /\ ~(m > Number[last])
            BY <4>1, <4>2 DEF CacheAgrees, AboveHead
      <4>4. m \in Nat
            BY <1>0, <4>3
      <4>5. ~(n + 1 <= m)
            BY <1>0, <4>1, <4>3, <4>4 DEF ClearedFrom
      <4> QED  BY <2>3, <4>1, <4>3, <4>4, <4>5
    <3> QED  BY <3>1, <3>2
  <2>7. ASSUME NEW m \in DOMAIN blockHashes' \ crossed' PROVE ~AboveHead(m)'
    <3>1. m <= n /\ m \in Nat
          BY <1>0, <2>6
    <3> QED  BY <2>2, <2>3, <2>4, <3>1 DEF AboveHead
  <2> QED  BY <2>2, <2>6, <2>7 DEF CacheAgrees
<1>7. CASE \E b \in Polled : GarbageCollect(b)
  <2>1. UNCHANGED <<blockHashes, crossed, hashesDB, last, importing, batch>>
        BY <1>7 DEF GarbageCollect, diskVars, importVars, historyVars
  <2> QED  BY <2>1 DEF CacheAgrees, AboveHead
<1>8. CASE Restart
  <2>1. DOMAIN blockHashes' = {}
        BY <1>8 DEF Restart, Empty
  <2> QED  BY <2>1 DEF CacheAgrees
<1>9. CASE FillNumber
  <2> DEFINE n == reading.key
  <2>1. UNCHANGED <<hashesDB, last, importing, batch>>
        BY <1>9 DEF FillNumber, diskVars, importVars
  <2>2. CASE n \in DOMAIN blockHashes
    <3>1. UNCHANGED <<blockHashes, crossed>>
          BY <1>9, <2>2 DEF FillNumber
    <3> QED  BY <2>1, <3>1 DEF CacheAgrees, AboveHead
  <2>3. CASE n \notin DOMAIN blockHashes
    <3>1. /\ blockHashes' = Written(blockHashes, [m \in {n} |-> reading.value])
          /\ crossed' = IF AboveHead(n) \/ reading.value # hashesDB[n]
                        THEN crossed \cup {n} ELSE crossed
          BY <1>9, <2>3 DEF FillNumber
    <3>2. DOMAIN blockHashes' = DOMAIN blockHashes \cup {n}
          /\ blockHashes'[n] = reading.value
          /\ \A m \in DOMAIN blockHashes : blockHashes'[m] = blockHashes[m]
          BY <2>3, <3>1 DEF Written
    <3>3. n \in DOMAIN hashesDB
          BY <1>9 DEF FillNumber, NumberRead
    <3> QED  BY <2>1, <3>1, <3>2, <3>3 DEF CacheAgrees, AboveHead
  <2> QED  BY <2>2, <2>3
<1>10. CASE (\E n \in Numbers : LookUpNumber(n)) \/ (\E b \in Polled : LookUpDetails(b))
            \/ FillDetails \/ UNCHANGED vars
  <2>1. UNCHANGED <<blockHashes, crossed, hashesDB, last, importing, batch>>
        BY <1>10 DEF LookUpNumber, LookUpDetails, FillDetails, vars, diskVars, cacheVars,
                    importVars, historyVars
  <2> QED  BY <2>1 DEF CacheAgrees, AboveHead
<1> QED
    BY <1>1, <1>2, <1>3, <1>4, <1>5, <1>6, <1>7, <1>8, <1>9, <1>10 DEF Next

---------------------------------------------------------------------------
(* The numbers on disk.                                                    *)

\* In the entries hashes, the numbers outside T lead from b down its chain.
Agrees(hashes, b, T) ==
    \A c \in ChainOf[b] \ {Genesis} : Number[c] \notin T => hashes[Number[c]] = c

\* The numbers whose entries may lead elsewhere than down the head's chain: those
\* of a crashed import, and those of one about to become the head.
Taken == torn \cup (IF step = "extras" THEN DOMAIN batch.hashes ELSE {})

NumbersAgree ==
    /\ Agrees(hashesDB, last, Taken)
    /\ \A n \in 1..Number[last] : Agrees(hashesDB, hashesDB[n], Taken)
    /\ step = "extras" =>
          /\ Agrees(hashesDB, importing, torn)
          /\ \A n \in 1..Number[importing] : Agrees(hashesDB, hashesDB[n], torn)

\* What is true of a chain is true of the chains of its blocks.
LEMMA AgreesBelow ==
    ASSUME NEW b \in Known, NEW c \in ChainOf[b], NEW hashes, NEW T,
           Agrees(hashes, b, T)
    PROVE  Agrees(hashes, c, T)
BY ChainTransitive DEF Agrees

\* Below the genesis block there is nothing.
LEMMA AgreesGenesis ==
    ASSUME NEW hashes, NEW T
    PROVE  Agrees(hashes, Genesis, T)
<1>1. Genesis \in Known /\ {Genesis} \in SUBSET Known /\ IsPath({Genesis})
    BY DEF Known, IsPath
<1>2. ChainOf[Genesis] \subseteq {Genesis}
    BY <1>1, ChainWithin
<1> QED
    BY <1>2 DEF Agrees

\* The extras of a block that becomes the head.
LEMMA ExtrasAgree ==
    ASSUME IInv, BatchIs, NumbersAgree, CommitExtras, batch.best
    PROVE  NumbersAgree'
<1> DEFINE b == importing
           taken == DOMAIN batch.hashes
<1>1. /\ step = "blocks" /\ step' = "extras"
      /\ UNCHANGED <<last, importing, batch>>
      /\ hashesDB' = Written(hashesDB, batch.hashes)
      /\ torn' = torn \ taken
    BY DEF CommitExtras
<1>2. /\ b \in Block /\ b \in Known /\ Parent[b] \in Detail
      /\ last \in Detail /\ last \in Known
      /\ Number[b] \in Nat /\ Number[last] \in Nat
    BY <1>1, NumberOfParent DEF IInv, ImportReady, MemoryOnDisk, TreeOnDisk, Known
<1>3. /\ taken = {Number[c] : c \in Fresh(b)}
      /\ \A n \in taken : batch.hashes[n] \in Fresh(b) /\ Number[batch.hashes[n]] = n
  <2>1. batch.hashes = [n \in {Number[c] : c \in Fresh(b)} |-> CHOOSE c \in Fresh(b) : Number[c] = n]
        BY <1>1 DEF BatchIs
  <2> QED  BY <2>1
<1>4. \A n : n \in taken => hashesDB'[n] = batch.hashes[n]
    BY <1>1 DEF Written
<1>5. \A n \in DOMAIN hashesDB : n \notin taken => hashesDB'[n] = hashesDB[n]
    BY <1>1 DEF Written
<1>6. Agrees(hashesDB, last, torn) /\ \A n \in 1..Number[last] : Agrees(hashesDB, hashesDB[n], torn)
    BY <1>1 DEF NumbersAgree, Taken
<1>7. Taken' = torn \cup taken /\ Taken = torn
    BY <1>1 DEF Taken
<1>8. \A n \in 1..Number[last] : n \in DOMAIN hashesDB
    BY DEF IInv, NumbersThere
\* A block of the head's chain, or of the chain of a number's block.
<1>9. \A c \in Known \ {Genesis} : Number[c] <= Number[last] => Number[c] \in 1..Number[last]
  <2>1. \A c \in Known \ {Genesis} : Number[c] \in Nat /\ Number[c] # 0
    <3>1. ASSUME NEW c \in Known \ {Genesis} PROVE Number[c] \in Nat /\ Number[c] # 0
      <4>1. Number[c] = Number[Parent[c]] + 1 /\ Parent[c] \in Known
            BY NumberOfParent
      <4>2. Number[Parent[c]] \in Nat
            BY <4>1, NumberOfParent
      <4> QED  BY <4>1, <4>2
    <3> QED  BY <3>1
  <2> QED  BY <1>2, <2>1
<1> HIDE DEF taken
\* Whatever agreed before agrees still where nothing is taken.
<1>10. ASSUME NEW d \in Known, Number[d] <= Number[last], Agrees(hashesDB, d, torn)
       PROVE  \A c \in ChainOf[d] \ {Genesis} :
                 Number[c] \notin torn \cup taken => hashesDB'[Number[c]] = c
  <2>1. SUFFICES ASSUME NEW c \in ChainOf[d] \ {Genesis}, Number[c] \notin torn \cup taken
                 PROVE  hashesDB'[Number[c]] = c
        OBVIOUS
  <2>2. c \in Known /\ Number[c] <= Number[d] /\ Number[c] \in Nat /\ Number[d] \in Nat
        BY <2>1, ChainSelf, ChainGoesDown, NumberOfParent
  <2>3. Number[c] \in DOMAIN hashesDB
        BY <1>2, <1>8, <1>9, <1>10, <2>1, <2>2
  <2> QED  BY <1>5, <1>10, <2>1, <2>3 DEF Agrees
<1>11. ASSUME NEW n \in 1..Number[last]
       PROVE  hashesDB[n] \in Known /\ Number[hashesDB[n]] = n
    BY <1>8 DEF IInv, NumbersLead, Leads, TreeOnDisk
\* The chain of the new head: what is fresh is taken, the rest is the head's.
<1>12. ASSUME NEW c \in ChainOf[b] \ {Genesis}, Number[c] \notin torn'
       PROVE  hashesDB'[Number[c]] = c
  <2>1. CASE Number[c] \in taken
    <3>1. hashesDB'[Number[c]] = batch.hashes[Number[c]]
          BY <1>4, <2>1
    <3>2. batch.hashes[Number[c]] \in ChainOf[b] /\ Number[batch.hashes[Number[c]]] = Number[c]
          BY <1>3, <2>1 DEF Fresh
    <3> HIDE DEF b
    <3>3. batch.hashes[Number[c]] = c
          BY <1>2, <3>2, ChainUnique
    <3> QED  BY <3>1, <3>3
  <2>2. CASE Number[c] \notin taken
    <3>1. c \in ChainOf[last] /\ Number[c] \notin torn
          BY <1>1, <1>3, <1>12, <2>2 DEF Fresh
    <3> QED  BY <1>2, <1>6, <1>10, <2>2, <3>1
  <2> QED  BY <2>1, <2>2
<1>13. Agrees(hashesDB', b, torn')
    BY <1>1, <1>12 DEF Agrees
<1>14. ASSUME NEW n \in taken PROVE hashesDB'[n] \in ChainOf[b]
    BY <1>3, <1>4, <1>14 DEF Fresh
<1>15. ASSUME NEW n \in 1..Number[b] PROVE Agrees(hashesDB', hashesDB'[n], torn')
  <2>1. CASE n \in taken
    <3>1. \A c \in ChainOf[hashesDB'[n]] : c \in ChainOf[b]
          BY <1>2, <1>14, <2>1, ChainTransitive
    <3> QED  BY <1>12, <3>1 DEF Agrees
  <2>2. CASE n \notin taken
    <3>1. PICK f \in ChainOf[b] : Number[f] = n
          BY <1>2, <1>15, ImportedChainWhole DEF IInv
    <3>2. f \in ChainOf[last]
          BY <1>3, <2>2, <3>1 DEF Fresh
    <3>3. n <= CommonNumber(b) /\ \A c \in Fresh(b) : Number[c] > CommonNumber(b)
          BY <1>2, <3>1, <3>2, CommonDivides
    <3>4. n <= Number[last]
          BY <1>2, <3>1, <3>2, ChainGoesDown
    <3>5. n \in 1..Number[last]
          BY <1>2, <1>15, <3>4
    <3>6. hashesDB'[n] = hashesDB[n]
          BY <1>5, <1>8, <2>2, <3>5
    <3>7. ASSUME NEW c \in ChainOf[hashesDB[n]] \ {Genesis}, Number[c] \notin torn'
          PROVE  hashesDB'[Number[c]] = c
      <4>1. Number[c] <= n /\ Number[c] \in Nat
            BY <1>11, <3>5, <3>7, ChainSelf, ChainGoesDown, NumberOfParent
      <4>2. Number[c] \notin taken
        <5>1. SUFFICES ASSUME NEW e \in Fresh(b), Number[e] = Number[c] PROVE FALSE
              BY <1>3
        <5>2. CommonNumber(b) \in Nat
              BY <1>2, CommonDivides
        <5> QED  BY <1>15, <3>3, <4>1, <5>1, <5>2
      <4>3. Agrees(hashesDB, hashesDB[n], torn)
            BY <1>6, <3>5
      <4> QED  BY <1>1, <1>10, <1>11, <3>4, <3>5, <3>7, <4>2, <4>3
    <3> QED  BY <3>6, <3>7 DEF Agrees
  <2> QED  BY <2>1, <2>2
<1>16. Agrees(hashesDB', last, Taken')
    BY <1>1, <1>2, <1>6, <1>7, <1>10 DEF Agrees
<1>17. ASSUME NEW n \in 1..Number[last] PROVE Agrees(hashesDB', hashesDB'[n], Taken')
  <2>1. CASE n \in taken
    <3>1. \A c \in ChainOf[hashesDB'[n]] : c \in ChainOf[b]
          BY <1>2, <1>14, <2>1, ChainTransitive
    <3>2. torn' \subseteq Taken'
          BY <1>1, <1>7
    <3> QED  BY <1>12, <3>1, <3>2 DEF Agrees
  <2>2. CASE n \notin taken
    <3>1. hashesDB'[n] = hashesDB[n]
          BY <1>5, <1>8, <2>2
    <3> QED  BY <1>6, <1>7, <1>10, <1>11, <3>1 DEF Agrees
  <2> QED  BY <2>1, <2>2
<1> QED
    BY <1>1, <1>13, <1>15, <1>16, <1>17 DEF NumbersAgree

\* The head and the numbers below it, when no import is under way.
LEMMA NumbersAgreeIdle ==
    ASSUME step' = "idle", Agrees(hashesDB', last', torn'),
           \A n \in 1..Number[last'] : Agrees(hashesDB', hashesDB'[n], torn')
    PROVE  NumbersAgree'
<1>1. Taken' = torn'
    BY DEF Taken
<1> QED
    BY <1>1 DEF NumbersAgree

LEMMA RewindAgrees ==
    ASSUME IInv, BatchIs, CacheAgrees, NumbersAgree, NEW n \in Numbers, Rewind(n)
    PROVE  NumbersAgree'
<1> DEFINE head == NumberHash(n)
<1>1. /\ step = "idle" /\ step' = "idle" /\ hashesDB' = hashesDB /\ last' = head
      /\ torn' = IF n \in crossed THEN Numbers ELSE torn
    BY DEF Rewind, importVars
<1>2. head \in Known /\ Number[head] = n /\ n \in Nat /\ Number[last] \in Nat /\ n < Number[last]
    BY RewindTarget DEF Rewind, Leads, IInv, TreeOnDisk
<1>3. \A m \in 1..n : m \in 1..Number[last]
    BY <1>2
\* A head from a stale cache: no number is claimed.
<1>4. CASE n \in crossed
  <2>1. ASSUME NEW b \in Known PROVE Agrees(hashesDB, b, Numbers)
        BY ChainSelf DEF Agrees, Numbers
  <2>2. ASSUME NEW m \in 1..n PROVE hashesDB[m] \in Known
        BY <1>3, <2>2 DEF IInv, NumbersThere, NumbersLead, Leads, TreeOnDisk
  <2> HIDE DEF head
  <2>3. \A m \in 1..n : Agrees(hashesDB, hashesDB[m], Numbers)
        BY <2>1, <2>2
  <2>4. Agrees(hashesDB, head, Numbers)
        BY <1>2, <2>1
  <2> QED  BY <1>1, <1>2, <1>4, <2>3, <2>4, NumbersAgreeIdle
<1>5. CASE n \notin crossed
  <2>1. \A m \in 1..Number[last] : Agrees(hashesDB, hashesDB[m], torn)
        BY <1>1 DEF NumbersAgree, Taken
  <2>2. ASSUME n = 0 PROVE Agrees(hashesDB, head, torn)
    <3>1. head = Genesis
          BY <2>2 DEF NumberHash
    <3> HIDE DEF head
    <3> QED  BY <3>1, AgreesGenesis
  <2>3. ASSUME n # 0 PROVE Agrees(hashesDB, head, torn)
    <3>1. head = hashesDB[n] /\ n \in 1..Number[last]
          BY <1>2, <1>5, <2>3 DEF NumberHash, CacheAgrees
    <3> HIDE DEF head
    <3> QED  BY <2>1, <3>1
  <2>4. Agrees(hashesDB, head, torn)
        BY <2>2, <2>3
  <2> HIDE DEF head
  <2> QED  BY <1>1, <1>2, <1>3, <1>5, <2>1, <2>4, NumbersAgreeIdle
<1> QED
    BY <1>4, <1>5

LEMMA NumbersAgreeKept ==
    ASSUME IInv, BatchIs, CacheAgrees, NumbersAgree, [Next]_vars
    PROVE  NumbersAgree'
<1>1. CASE \/ \E b \in Block : Enact(b)
           \/ Collect \/ CommitBlocks
           \/ \E b \in Polled : GarbageCollect(b)
  <2>1. UNCHANGED <<hashesDB, last, torn>> /\ step # "extras" /\ step' # "extras"
        BY <1>1 DEF Enact, Collect, CommitBlocks, GarbageCollect, diskVars, historyVars, importVars
  <2> QED  BY <2>1 DEF NumbersAgree, Taken
<1>2. CASE CommitExtras
  <2>1. CASE batch.best
        BY <1>2, <2>1, ExtrasAgree
  <2>2. CASE ~batch.best
    <3>1. step = "blocks" /\ step' = "idle" /\ last' = last
          /\ hashesDB' = Written(hashesDB, batch.hashes) /\ torn' = torn \ DOMAIN batch.hashes
          BY <1>2, <2>2 DEF CommitExtras, Idle
    <3>2. DOMAIN batch.hashes = {}
          BY <2>2, <3>1, CollectedNumbers
    <3>3. DOMAIN hashesDB' = DOMAIN hashesDB
          /\ \A n \in DOMAIN hashesDB : hashesDB'[n] = hashesDB[n]
          BY <3>1, <3>2 DEF Written
    <3>4. torn' = torn /\ Taken' = torn /\ Taken = torn
          BY <3>1, <3>2 DEF Taken
    <3>5. ASSUME NEW b \in Known, Number[b] <= Number[last], Agrees(hashesDB, b, torn)
          PROVE  Agrees(hashesDB', b, torn)
      <4>1. ASSUME NEW c \in ChainOf[b] \ {Genesis} PROVE Number[c] \in DOMAIN hashesDB
        <5>1. c \in Known /\ Number[c] <= Number[b] /\ Number[b] \in Nat
              BY ChainSelf, ChainGoesDown, NumberOfParent
        <5>2. Number[c] = Number[Parent[c]] + 1 /\ Number[Parent[c]] \in Nat
              BY <4>1, <5>1, NumberOfParent
        <5>3. Number[last] \in Nat
              BY NumberOfParent DEF IInv, MemoryOnDisk, TreeOnDisk
        <5>4. Number[c] \in 1..Number[last]
              BY <3>5, <5>1, <5>2, <5>3
        <5> QED  BY <5>4 DEF IInv, NumbersThere
      <4> QED  BY <3>3, <3>5, <4>1 DEF Agrees
    <3>6. Agrees(hashesDB', last, torn)
      <4>1. last \in Known /\ Number[last] <= Number[last]
            BY NumberOfParent DEF IInv, MemoryOnDisk, TreeOnDisk
      <4> QED  BY <3>4, <3>5, <4>1 DEF NumbersAgree
    <3>7. ASSUME NEW n \in 1..Number[last] PROVE Agrees(hashesDB', hashesDB'[n], torn)
      <4>1. n \in DOMAIN hashesDB /\ hashesDB[n] \in Known /\ Number[hashesDB[n]] = n
            BY <3>7 DEF IInv, NumbersThere, NumbersLead, Leads, TreeOnDisk
      <4>2. hashesDB'[n] = hashesDB[n] /\ n <= Number[last]
            BY <3>3, <3>7, <4>1
      <4> QED  BY <3>4, <3>5, <3>7, <4>1, <4>2 DEF NumbersAgree
    <3> QED  BY <3>1, <3>4, <3>6, <3>7 DEF NumbersAgree
  <2> QED  BY <2>1, <2>2
<1>3. CASE SetBest
  <2>1. step = "extras" /\ step' = "idle" /\ last' = importing /\ UNCHANGED <<hashesDB, torn>>
        BY <1>3 DEF SetBest, Idle
  <2> QED  BY <2>1 DEF NumbersAgree, Taken
<1>4. CASE \E n \in Numbers : Rewind(n)
    BY <1>4, RewindAgrees
<1>5. CASE Restart
  <2>1. /\ step' = "idle" /\ last' = last /\ hashesDB' = hashesDB
        /\ torn' = IF step = "extras" THEN torn \cup DOMAIN batch.hashes ELSE torn
        BY <1>5 DEF Restart, diskVars, IInv, MemoryOnDisk
  <2>2. Taken' = Taken
        BY <2>1 DEF Taken
  <2> QED  BY <2>1, <2>2 DEF NumbersAgree
<1>6. CASE Aside \/ UNCHANGED vars
  <2>1. UNCHANGED <<hashesDB, last, torn, step, importing, batch>>
        BY <1>6, AsideLeaves DEF vars, diskVars, importVars, historyVars
  <2> QED  BY <2>1 DEF NumbersAgree, Taken
<1> QED
    BY <1>1, <1>2, <1>3, <1>4, <1>5, <1>6 DEF Next, Aside

---------------------------------------------------------------------------
(* The children.                                                           *)

Sons(p) == {b \in Block : Parent[b] = p}

\* A block is listed under its parent unless it is marked; the cached details lack
\* nothing else of those on disk; those the import has collected are the cached
\* ones, with the block.
ChildrenAgree ==
    /\ \A p \in Detail : childrenDB[p] \subseteq Sons(p)
    /\ \A p \in DOMAIN children :
          /\ children[p] \subseteq Sons(p)
          /\ childrenDB[p] \ children[p] \subseteq unlisted
    /\ reading.of = "details" => reading.value \subseteq Sons(reading.key)
    /\ \A b \in Detail \ {Genesis} : b \in childrenDB[Parent[b]] \cup unlisted
    /\ step \in {"collected", "blocks"} =>
          /\ Parent[importing] \in DOMAIN children
          /\ importing \in children[Parent[importing]]
          /\ batch.children[Parent[importing]] = children[Parent[importing]]
          /\ batch.children[importing] = {}

LEMMA ChildrenCollected ==
    ASSUME IInv, ChildrenAgree, Collect
    PROVE  ChildrenAgree'
<1> DEFINE b == importing
           p == Parent[b]
           siblings == DetailsOf(p) \cup {b}
<1>1. /\ step = "enacted" /\ step' = "collected" /\ importing' = importing
      /\ UNCHANGED <<Detail, childrenDB, unlisted, reading>>
      /\ children' = Written(children, [q \in {p} |-> siblings])
      /\ batch'.children = [x \in {p, b} |-> IF x = b THEN {} ELSE siblings]
    BY DEF Collect, diskVars, Detail
<1>2. b \in Block /\ p \in Detail /\ p # b
  <2>1. b \in Block /\ p \in Detail /\ b \in Known
        BY <1>1 DEF IInv, ImportReady, Known
  <2>2. Number[b] = Number[p] + 1 /\ Number[p] \in Nat
        BY <2>1, NumberOfParent, TreeAssumption DEF Known
  <2> QED  BY <2>1, <2>2
<1>3. /\ DOMAIN children' = DOMAIN children \cup {p}
      /\ children'[p] = siblings
      /\ \A q \in DOMAIN children : q # p => children'[q] = children[q]
    BY <1>1 DEF Written
<1>4. siblings \subseteq Sons(p)
    BY <1>2 DEF ChildrenAgree, DetailsOf, Sons
<1>5. childrenDB[p] \ siblings \subseteq unlisted
    BY DEF ChildrenAgree, DetailsOf
<1>6. batch'.children[p] = siblings /\ batch'.children[b] = {} /\ b \in siblings
    BY <1>1, <1>2
<1> QED
    BY <1>1, <1>3, <1>4, <1>5, <1>6 DEF ChildrenAgree

LEMMA ChildrenCommitted ==
    ASSUME IInv, ChildrenAgree, CommitExtras
    PROVE  ChildrenAgree'
<1> DEFINE b == importing
           p == Parent[b]
<1>1. /\ step = "blocks" /\ step' \notin {"collected", "blocks"}
      /\ UNCHANGED <<children, reading>>
      /\ childrenDB' = Written(childrenDB, batch.children)
      /\ unlisted' = (unlisted \ {b}) \cup (IF b \in Detail THEN childrenDB[b] ELSE {})
    BY DEF CommitExtras, Idle, cacheVars, Detail
<1>2. b \in Block /\ p \in Detail /\ p # b /\ DOMAIN batch.children = {p, b} /\ b # Genesis
  <2>1. b \in Block /\ p \in Detail /\ b \in Known /\ DOMAIN batch.children = {p, b} /\ b # Genesis
        BY <1>1, TreeAssumption DEF IInv, ImportReady, BatchReady, Known
  <2>2. Number[b] = Number[p] + 1 /\ Number[p] \in Nat
        BY <2>1, NumberOfParent, TreeAssumption DEF Known
  <2> QED  BY <2>1, <2>2
<1>3. /\ p \in DOMAIN children /\ b \in children[p]
      /\ batch.children[p] = children[p] /\ batch.children[b] = {}
    BY <1>1 DEF ChildrenAgree
<1>4. /\ Detail' = Detail \cup {b}
      /\ childrenDB'[p] = children[p] /\ childrenDB'[b] = {}
      /\ \A q \in Detail : q \notin {p, b} => childrenDB'[q] = childrenDB[q]
    BY <1>1, <1>2, <1>3 DEF Written, Detail
<1>5. \A q \in Detail' : childrenDB'[q] \subseteq Sons(q)
    BY <1>3, <1>4 DEF ChildrenAgree
<1>6. ASSUME NEW q \in DOMAIN children
      PROVE  childrenDB'[q] \ children[q] \subseteq unlisted'
  <2>1. CASE q \in {p, b}
        BY <1>4, <2>1
  <2>2. CASE q \notin {p, b}
    <3>1. q \in Detail
          BY <1>6 DEF IInv, MemoryOnDisk
    <3>2. childrenDB'[q] = childrenDB[q] /\ b \notin childrenDB[q]
          BY <1>4, <2>2, <3>1 DEF ChildrenAgree, Sons
    <3> QED  BY <1>1, <3>2 DEF ChildrenAgree
  <2> QED  BY <2>1, <2>2
<1>7. ASSUME NEW c \in Detail' \ {Genesis}
      PROVE  c \in childrenDB'[Parent[c]] \cup unlisted'
  <2>1. CASE c = b
        BY <1>3, <1>4, <2>1
  <2>2. CASE c # b
    <3>1. c \in Detail \ {Genesis} /\ Parent[c] \in Detail
          BY <1>4, <1>7, <2>2 DEF IInv, TreeOnDisk
    <3>2. c \in unlisted => c \in unlisted'
          BY <1>1, <2>2
    <3>3. CASE c \in childrenDB[Parent[c]]
      <4>1. CASE Parent[c] = b
            BY <1>1, <3>1, <3>3, <4>1
      <4>2. CASE Parent[c] = p
            BY <1>3, <1>4, <3>2, <3>3, <4>2 DEF ChildrenAgree
      <4>3. CASE Parent[c] \notin {p, b}
            BY <1>4, <3>1, <3>3, <4>3
      <4> QED  BY <4>1, <4>2, <4>3
    <3> QED  BY <3>1, <3>2, <3>3 DEF ChildrenAgree
  <2> QED  BY <2>1, <2>2
<1> QED
    BY <1>1, <1>5, <1>6, <1>7 DEF ChildrenAgree

LEMMA ChildrenAgreeKept ==
    ASSUME IInv, ChildrenAgree, [Next]_vars
    PROVE  ChildrenAgree'
<1>1. CASE \/ \E b \in Block : Enact(b)
           \/ SetBest
           \/ \E n \in Numbers : Rewind(n)
  <2>1. UNCHANGED <<Detail, childrenDB, children, unlisted, reading>>
        /\ step' \notin {"collected", "blocks"}
        BY <1>1 DEF Enact, SetBest, Rewind, Idle, cacheVars, historyVars, importVars, Detail
  <2> QED  BY <2>1 DEF ChildrenAgree
<1>2. CASE Collect \/ CommitExtras
    BY <1>2, ChildrenCollected, ChildrenCommitted
<1>3. CASE \/ CommitBlocks
           \/ \E n \in Numbers : LookUpNumber(n)
           \/ FillNumber
           \/ UNCHANGED vars
  <2>1. /\ UNCHANGED <<Detail, childrenDB, children, unlisted, importing, batch>>
        /\ step' \in {"collected", "blocks"} => step \in {"collected", "blocks"}
        /\ reading' = reading \/ reading'.of # "details"
        BY <1>3 DEF CommitBlocks, LookUpNumber, FillNumber, NotReading, vars, diskVars, cacheVars,
                    historyVars, importVars, Detail
  <2> QED  BY <2>1 DEF ChildrenAgree
<1>4. CASE \E b \in Polled : GarbageCollect(b)
  <2>1. /\ UNCHANGED <<Detail, childrenDB, unlisted, reading>>
        /\ step' \notin {"collected", "blocks"}
        /\ DOMAIN children' \subseteq DOMAIN children
        /\ \A p \in DOMAIN children' : children'[p] = children[p]
        BY <1>4 DEF GarbageCollect, Without, diskVars, historyVars, importVars, Detail
  <2> QED  BY <2>1 DEF ChildrenAgree
<1>5. CASE Restart
  <2>1. /\ UNCHANGED <<Detail, childrenDB, unlisted>>
        /\ step' = "idle" /\ DOMAIN children' = {} /\ reading'.of # "details"
        BY <1>5 DEF Restart, NotReading, Empty, diskVars, Detail
  <2> QED  BY <2>1 DEF ChildrenAgree
<1>6. CASE \E b \in Polled : LookUpDetails(b)
  <2>1. PICK b \in Polled : LookUpDetails(b)
        BY <1>6
  <2>2. /\ UNCHANGED <<Detail, childrenDB, children, unlisted, importing, batch, step>>
        /\ b \in Detail /\ reading' = [of |-> "details", key |-> b, value |-> childrenDB[b]]
        BY <2>1 DEF LookUpDetails, diskVars, cacheVars, historyVars, importVars, Detail
  <2> QED  BY <2>2 DEF ChildrenAgree
<1>7. CASE FillDetails
  <2> DEFINE b == reading.key
  <2>1. /\ UNCHANGED <<Detail, childrenDB, importing, batch, step>>
        /\ reading.of = "details" /\ reading'.of # "details"
        BY <1>7 DEF FillDetails, NotReading, diskVars, importVars, Detail
  <2>2. CASE b \in DOMAIN children
    <3>1. UNCHANGED <<children, unlisted>>
          BY <1>7, <2>2 DEF FillDetails
    <3> QED  BY <2>1, <3>1 DEF ChildrenAgree
  <2>3. CASE b \notin DOMAIN children
    <3>1. /\ children' = Written(children, [c \in {b} |-> reading.value])
          /\ unlisted' = unlisted \cup (childrenDB[b] \ reading.value)
          BY <1>7, <2>3 DEF FillDetails
    <3>2. /\ DOMAIN children' = DOMAIN children \cup {b}
          /\ children'[b] = reading.value
          /\ \A p \in DOMAIN children : children'[p] = children[p]
          BY <2>3, <3>1 DEF Written
    <3> QED  BY <2>1, <3>1, <3>2 DEF ChildrenAgree
  <2> QED  BY <2>2, <2>3
<1> QED
    BY <1>1, <1>2, <1>3, <1>4, <1>5, <1>6, <1>7 DEF Next

---------------------------------------------------------------------------
(* What follows.                                                           *)

TreeInv == /\ IInv /\ BatchIs /\ HeadHeaviest /\ NumberRead /\ CacheAgrees /\ NumbersAgree
           /\ ChildrenAgree

LEMMA InitTreeInv == Init => TreeInv
<1> SUFFICES ASSUME Init PROVE TreeInv
    OBVIOUS
<1>1. IInv
    BY InitIInv
<1>2. Detail = {Genesis} /\ Number[Genesis] = 0 /\ DOMAIN Empty = {}
    BY TreeAssumption DEF Init, Detail, Empty
<1>3. BatchIs /\ HeadHeaviest /\ NumberRead /\ CacheAgrees
    BY <1>2 DEF Init, BatchIs, HeadHeaviest, NumberRead, CacheAgrees, NotReading
<1>4. NumbersAgree
    BY <1>2, AgreesGenesis DEF Init, NumbersAgree
<1>5. ChildrenAgree
    BY <1>2 DEF Init, ChildrenAgree, NotReading
<1> QED
    BY <1>1, <1>3, <1>4, <1>5 DEF TreeInv

LEMMA NextTreeInv == TreeInv /\ [Next]_vars => TreeInv'
BY NextIInv, BatchIsKept, HeadHeaviestKept, NumberReadKept, CacheAgreesKept, NumbersAgreeKept,
   ChildrenAgreeKept DEF TreeInv

\* The second inductive invariant: what the head, the numbers, the cached numbers
\* and the children in the details say of the tree.
THEOREM TreeInvariant == Spec => []TreeInv
BY InitTreeInv, NextTreeInv, PTL DEF Spec

\* Between imports the numbers lead down the chain of the head, except those a
\* crashed import has overwritten (insertBlockAndExtras(), rewind()).
THEOREM NumbersFollowHead == Spec => []NumbersFollowBest
<1>1. TreeInv => NumbersFollowBest
    BY DEF TreeInv, NumbersAgree, Agrees, Taken, NumbersFollowBest
<1> QED
    BY <1>1, TreeInvariant, PTL

\* Between imports nothing in the tree is heavier than the head but what a rewind
\* or a crash gave up (insertBlockAndExtras(), rewind(), open()).
THEOREM HeadIsHeaviest == Spec => []HeaviestIsBest
<1>1. TreeInv => HeaviestIsBest
  <2>1. SUFFICES ASSUME TreeInv PROVE HeaviestIsBest
        OBVIOUS
  <2>2. Detailed \subseteq Detail \ {Genesis}
        BY <2>1, TreeAssumption DEF TreeInv, IInv, MemoryOnDisk, Detailed, IsKnown, HasDetails,
           Detail, Known
  <2> QED  BY <2>1, <2>2 DEF TreeInv, HeadHeaviest, HeaviestIsBest
<1> QED
    BY <1>1, TreeInvariant, PTL

\* A cached number is the one on disk unless it was read above the head or across
\* an import (queryExtras(), clearCachesDuringChainReversion()).
THEOREM CachedNumbersCurrent == Spec => []CachedNumberCurrent
<1>1. TreeInv => CachedNumberCurrent
    BY DEF TreeInv, CacheAgrees, CachedNumberCurrent
<1> QED
    BY <1>1, TreeInvariant, PTL

\* Every block with details is among the children of its parent's details, unless
\* the parent was imported again or a reader put old details back
\* (insertBlockAndExtras(), queryExtras()).
THEOREM ChildrenStayListed == Spec => []ChildrenListed
<1>1. TreeInv => ChildrenListed
  <2>1. SUFFICES ASSUME TreeInv PROVE ChildrenListed
        OBVIOUS
  <2>2. Detailed \subseteq Detail \ {Genesis}
        BY <2>1, TreeAssumption DEF TreeInv, IInv, MemoryOnDisk, Detailed, IsKnown, HasDetails,
           Detail, Known
  <2> QED  BY <2>1, <2>2 DEF TreeInv, ChildrenAgree, ChildrenListed
<1> QED
    BY <1>1, TreeInvariant, PTL
=============================================================================
