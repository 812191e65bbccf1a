----------------------------- MODULE HeaderSync -----------------------------
(***************************************************************************)
(* BlockChainSync: how the node learns from its peers which blocks it      *)
(* lacks. It asks for headers, first the one of a peer's head, then        *)
(* backwards until one it knows, then what is missing in between; for the  *)
(* bodies of the headers that follow its own chain; and it imports each    *)
(* block into the block queue once it has both.                            *)
(*                                                                         *)
(* Every handler holds x_sync from its first line to its last: a handler   *)
(* is one action, made of operators from a world (the state the handlers   *)
(* change) to a world. The maps of chunks m_headers and m_bodies are       *)
(* functions from numbers: a chunk is a maximal run of their domain.       *)
(*                                                                         *)
(* The peers are honest: they answer from their chain, late, in part or    *)
(* not at all, and their chains differ; some end in a block that           *)
(* verification rejects. Every block has difficulty 1, so that a number is *)
(* a total difficulty.                                                     *)
(***************************************************************************)
EXTENDS Integers, FiniteSets, Sequences, SequencesExt, QueueOps

CONSTANTS
    Peer, Block, Genesis, NoBlock,
    Parent,         \* [Block -> Block \cup {Genesis}]
    Number,         \* the height of a block
    Body,           \* what identifies its body: transactionsRoot, sha3Uncles
    EmptyBody,      \* the body of a block without transactions and uncles
    Bad,            \* the blocks that verification rejects
    Stored,         \* the node's chain at startup
    Remote,         \* [Peer -> Block]: the heads of the peers' chains
    MaxRequest,     \* c_maxRequestHeaders and c_maxRequestBodies
    MaxKnown,       \* c_maxKnownCount of the block queue
    MaxUnknown,     \* c_maxUnknownCount of the block queue
    MaxUnknownSize, \* c_maxUnknownSize, in blocks of one size
    SizeModulus,    \* size_t counts modulo this
    MaxAnnounced,   \* bound: blocks the peers announce
    MaxDropped      \* bound: connections that break

Chain == Block \cup {Genesis}

ASSUME HeaderAssumption ==
    /\ IsFiniteSet(Peer) /\ IsFiniteSet(Block)
    /\ Genesis \notin Block /\ NoBlock \notin Chain
    /\ Parent \in [Block -> Chain]
    /\ Number \in [Chain -> Nat] /\ Number[Genesis] = 0
    /\ \A b \in Block : Number[b] = Number[Parent[b]] + 1
    /\ DOMAIN Body = Chain
    /\ Genesis \in Stored /\ Stored \subseteq Chain
    /\ \A b \in Stored \ {Genesis} : Parent[b] \in Stored
    /\ Bad \subseteq Block \ Stored /\ \A b \in Block : Parent[b] \notin Bad
    /\ Remote \in [Peer -> Chain]
    /\ MaxRequest \in Nat \ {0}
    /\ {MaxKnown, MaxUnknown, MaxUnknownSize, MaxAnnounced, MaxDropped} \subseteq Nat
    /\ SizeModulus \in Nat /\ SizeModulus > MaxUnknownSize + Cardinality(Block)

VARIABLES
    sync,       \* the members of BlockChainSync
    eth,        \* EthereumCapability::m_peers
    queue,      \* the block queue: ready (in order), draining, unknown with
                \* the unknownSize it counts, knownBad, and how many were
                \* struckOut since the last clear()
    chain,      \* the blocks of the node's database
    head,       \* the head of its best chain
    batch,      \* the blocks the client's worker is importing
    imported,   \* the new head, until onBlockImported has been called for it
    wasFull,    \* drain() took them from a full queue, and has not yet looked
                \* whether it made room
    session,    \* the peers with a session object
    live,       \* those of them whose socket is open
    remote,     \* the heads of the peers' chains
    budget      \* what is left of the two bounds

vars == <<sync, eth, queue, chain, head, batch, imported, wasFull, session, live,
          remote, budget>>

-----------------------------------------------------------------------------
(* The operations of the chunk maps and of the environment's data.         *)

First(f) == Min(DOMAIN f)

\* The last number of the chunk that n is in.
RunEnd(f, n) == Max({m \in DOMAIN f : n..m \subseteq DOMAIN f})

\* removeItem: from n to the end of its chunk.
RemoveItem(f, n) ==
    IF n \in DOMAIN f THEN Restrict(f, DOMAIN f \ (n..RunEnd(f, n))) ELSE f

RemoveFrom(f, n) == Restrict(f, {m \in DOMAIN f : m < n})

\* The function with x under n, whatever was there.
Put(f, n, x) == [m \in DOMAIN f \cup {n} |-> IF m = n THEN x ELSE f[m]]

\* A set of blocks with the parent of each.
WithParents(s) == \A c \in s \ {Genesis} : Parent[c] \in s

\* The branch that ends with a block: it and all it descends from.
Branch == [b \in Chain |-> {c \in Chain :
    \A s \in SUBSET Chain : b \in s /\ WithParents(s) => c \in s}]

\* The block of number n on the branch of b.
OnBranch(b, n) ==
    IF n > Number[b] THEN NoBlock
    ELSE CHOOSE c \in Branch[b] : Number[c] = n

InQueue(q, b) == b \in Range(q.ready) \cup q.draining \cup q.unknown \cup q.knownBad

\* Ready or Importing to the queue, or in the chain.
Held(w, b) == b \in Range(w.queue.ready) \cup w.queue.draining \cup chain

-----------------------------------------------------------------------------
(* BlockQueue::import and clear, as far as the sync can tell.              *)

\* The blocks of a set, lower numbers first.
ByNumber(blocks) ==
    CHOOSE s \in SetToSeqs(blocks) :
        \A i, j \in DOMAIN s : Number[s[i]] < Number[s[j]] => i < j

\* What waited for a block that is ready, directly or not.
Released(q) ==
    {b \in q.unknown : \A t \in SUBSET q.unknown :
        (\A c \in q.unknown : Parent[c] \in Range(q.ready) \cup t => c \in t)
            => b \in t}

\* noteReady: what waited for the block follows it, and m_unknown counts less
\* by its size.
NoteReady(q) ==
    [q EXCEPT !.ready = @ \o ByNumber(Released(q)),
              !.unknown = @ \ Released(q),
              !.unknownSize = (@ - Cardinality(Released(q))) % SizeModulus]

\* SizedBlockMap::insert. unknownSize stays: the size added is that of _blockData
\* after it was moved away, and nothing is left of it.
Wait(q, b) == [q EXCEPT !.unknown = @ \cup {b}]

\* The world after the import of a block put together from a header and a
\* body; result is what import() returns.
Import(w, b, body) ==
    CASE InQueue(w.queue, b) -> [w EXCEPT !.result = "AlreadyKnown"]
      [] ~InQueue(w.queue, b) /\ body # Body[b] ->
            [w EXCEPT !.result = "Malformed"]
      [] ~InQueue(w.queue, b) /\ body = Body[b] /\ b \in chain ->
            [w EXCEPT !.result = "AlreadyInChain"]
      [] ~InQueue(w.queue, b) /\ body = Body[b] /\ b \notin chain ->
            IF Held(w, Parent[b])
            THEN [w EXCEPT !.queue = NoteReady([@ EXCEPT !.ready = Append(@, b)]),
                           !.result = "Success"]
            ELSE [w EXCEPT !.queue = Wait(@, b), !.result = "UnknownParent"]

Cleared(q) == [q EXCEPT !.ready = <<>>, !.draining = {}, !.unknown = {},
                        !.unknownSize = 0, !.struckOut = 0]

KnownFull(q) == Len(q.ready) > MaxKnown
UnknownFull(q) == q.unknownSize > MaxUnknownSize \/ Cardinality(q.unknown) > MaxUnknown

\* isActive and difficulty: what the queue adds to the node's difficulty, the
\* rejected blocks included, whose share nobody takes back.
QueuedDifficulty(q) ==
    IF q.ready = <<>> /\ q.draining = {} THEN 0
    ELSE Len(q.ready) + Cardinality(q.draining) + Cardinality(q.unknown) + q.struckOut

-----------------------------------------------------------------------------
(* The private operations of BlockChainSync.                               *)

NoPeer == [p \in Peer |-> {}]

ResetSync(s) ==
    [s EXCEPT !.downloadingHeaders = {}, !.downloadingBodies = {},
              !.headers = <<>>, !.bodies = <<>>,
              !.headerSyncPeers = NoPeer, !.bodySyncPeers = NoPeer,
              !.headerIdToNumber = <<>>, !.syncingTotalDifficulty = 0,
              !.state = "NotSynced"]

RestartSync(w) ==
    [w EXCEPT !.sync = [ResetSync(@) EXCEPT !.haveCommonHeader = FALSE,
                                            !.lastImportedBlock = Number[head],
                                            !.lastImportedBlockHash = head],
              !.queue = Cleared(@)]

CompleteSync(w) ==
    [w EXCEPT !.sync = [ResetSync(@) EXCEPT !.state = "Idle"]]

ClearPeerDownload(s, p) ==
    [s EXCEPT !.downloadingHeaders = @ \ s.headerSyncPeers[p],
              !.headerSyncPeers[p] = {},
              !.downloadingBodies = @ \ s.bodySyncPeers[p],
              !.bodySyncPeers[p] = {}]

\* A plausible fault: see the mutants.
ClearGoneNot(s, there) == s

\* clearPeerDownload() without a peer: those whose session is gone.
ClearGone(s, there) ==
    LET left(kept) == [p \in Peer |-> IF p \in there THEN kept[p] ELSE {}]
        freed(kept) == UNION {kept[p] : p \in Peer \ there}
    IN  [s EXCEPT !.downloadingHeaders = @ \ freed(s.headerSyncPeers),
                  !.headerSyncPeers = left(s.headerSyncPeers),
                  !.downloadingBodies = @ \ freed(s.bodySyncPeers),
                  !.bodySyncPeers = left(s.bodySyncPeers)]

Asking(w, p, kind, what) ==
    [w EXCEPT !.eth[p] = [@ EXCEPT !.asking = kind, !.asked = what]]

\* The validated numbers whose bodies nobody was asked for, at most
\* MaxRequest of them.
NeededBodies(s) ==
    IF s.haveCommonHeader /\ s.headers # <<>>
          /\ First(s.headers) = s.lastImportedBlock + 1
    THEN LET missing == (First(s.headers)..RunEnd(s.headers, First(s.headers)))
                            \ (s.downloadingBodies \cup DOMAIN s.bodies)
         IN  {n \in missing : Cardinality({m \in missing : m < n}) < MaxRequest}
    ELSE {}

AskBodies(w, p, numbers) ==
    LET s == w.sync
        ask == [w EXCEPT !.sync.downloadingBodies = @ \cup numbers,
                         !.sync.bodySyncPeers[p] = numbers]
    IN  Asking(ask, p, "BlockBodies",
               [hashes |-> {s.headers[n] : n \in numbers}])

\* A plausible fault: the headers the node has are not passed over.
AskGapHeld(w, p) ==
    LET s == w.sync
        start == s.lastImportedBlock + 1
        missing == {n \in start..Max(DOMAIN s.headers \cup {start - 1}) :
                        n \notin s.downloadingHeaders}
        window == {n \in missing : n < Min(missing) + MaxRequest}
    IN  IF missing = {} THEN w
        ELSE Asking([w EXCEPT !.sync.downloadingHeaders = @ \cup window,
                              !.sync.headerSyncPeers[p] = window],
                    p, "BlockHeaders",
                    [from |-> Min(missing), count |-> Cardinality(window)])

\* The first numbers below the last chunk that nobody was asked for, within
\* one request of the gap they are in.
AskGap(w, p) ==
    LET s == w.sync
        start == s.lastImportedBlock + 1
        have == DOMAIN s.headers
        base == IF have # {} /\ start >= First(s.headers)
                THEN RunEnd(s.headers, First(s.headers)) ELSE start - 1
        missing == {n \in (base + 1)..Max(have \cup {base}) :
                        n \notin have \cup s.downloadingHeaders}
        from == Min(missing)
        gap == 1 + Max({base} \cup {n \in have : n \in base..from})
        window == {n \in missing :
                        /\ \A m \in have : m > from => m > n
                        /\ (n - gap) \div MaxRequest = (from - gap) \div MaxRequest}
    IN  IF missing = {} THEN w
        ELSE Asking([w EXCEPT !.sync.downloadingHeaders = @ \cup window,
                              !.sync.headerSyncPeers[p] = window],
                    p, "BlockHeaders",
                    [from |-> from, count |-> Cardinality(window)])

\* One header further back, until one is known. The block after the start of
\* the chain counts as known.
AskBackwards(w, p) ==
    LET s == w.sync
        start == IF s.headers = <<>> THEN s.lastImportedBlock
                 ELSE Min({s.lastImportedBlock, First(s.headers) - 1})
        back == [w EXCEPT !.sync.lastImportedBlock = start,
                          !.sync.lastImportedBlockHash = OnBranch(head, start)]
    IN  IF start <= 1
        THEN AskGap([back EXCEPT !.sync.haveCommonHeader = TRUE], p)
        ELSE Asking(back, p, "BlockHeaders", [from |-> start, count |-> 1])

RequestBlocks(w0, p) ==
    LET w == [w0 EXCEPT !.sync = ClearPeerDownload(@, p)]
        needed == NeededBodies(w.sync)
    IN  CASE KnownFull(w.queue) -> [w EXCEPT !.sync.state = "Waiting"]
          [] ~KnownFull(w.queue) /\ needed # {} -> AskBodies(w, p, needed)
          [] ~KnownFull(w.queue) /\ needed = {} ->
                IF w.sync.haveCommonHeader THEN AskGap(w, p)
                ELSE AskBackwards(w, p)

SyncPeer(w, p, force) ==
    LET own == Number[head] + QueuedDifficulty(w.queue)
        better == w.eth[p].totalDifficulty >
                      Max({w.sync.syncingTotalDifficulty, own})
        start == [w EXCEPT
            !.sync.syncingTotalDifficulty = w.eth[p].totalDifficulty,
            !.sync.state = IF @ \in {"Idle", "NotSynced"} THEN "Blocks" ELSE @]
    IN  IF \/ ~w.eth[p].statusReceived
           \/ w.eth[p].asking # "Nothing"
           \/ w.sync.state = "Waiting"
        THEN w
        ELSE IF force \/ better
        THEN Asking(start, p, "BlockHeaders", [hash |-> w.eth[p].latestHash])
        ELSE IF w.sync.state = "Blocks" THEN RequestBlocks(w, p)
        ELSE w

ContinueSync(w, order) ==
    LET next(v, p) == SyncPeer(v, p, FALSE) IN FoldLeft(next, w, order)

\* One block of collectBlocks' loop, which leaves with over when it returns
\* from the function.
ImportNumber(v, b, body) ==
    LET r == Import(v, b, body)
        n == Number[b]
    IN  CASE v.over \/ r.result = "AlreadyInChain" -> v
          [] ~v.over /\ r.result = "Success" ->
                IF n > r.sync.lastImportedBlock
                THEN [r EXCEPT !.sync.lastImportedBlock = n,
                               !.sync.lastImportedBlockHash = b]
                ELSE r
          [] ~v.over /\ r.result = "Malformed" ->
                [RestartSync(r) EXCEPT !.over = TRUE]
          [] ~v.over /\ r.result \in {"AlreadyKnown", "UnknownParent"} ->
                IF n > r.sync.lastImportedBlock
                THEN [r EXCEPT !.over = TRUE,
                               !.sync = [ResetSync(@) EXCEPT
                                            !.haveCommonHeader = FALSE]]
                ELSE [r EXCEPT !.over = TRUE]

\* Imports what is complete from lastImportedBlock on.
CollectBlocks(w) ==
    LET s == w.sync
        first == First(s.headers)
        last == Min({RunEnd(s.headers, first), RunEnd(s.bodies, first)})
        import(v, n) == ImportNumber(v, s.headers[n], s.bodies[n])
        done == FoldLeft(import, w, [i \in 1..(last - first + 1) |-> first + i - 1])
        rest == [done EXCEPT !.sync.headers = Restrict(@, DOMAIN @ \ (first..last)),
                             !.sync.bodies = Restrict(@, DOMAIN @ \ (first..last))]
    IN  IF \/ ~s.haveCommonHeader \/ s.headers = <<>> \/ s.bodies = <<>>
           \/ first # s.lastImportedBlock + 1 \/ First(s.bodies) # first
        THEN w
        ELSE IF done.over THEN [done EXCEPT !.over = FALSE]
        ELSE IF UnknownFull(done.queue) THEN RestartSync(done)
        ELSE IF rest.sync.headers = <<>> THEN CompleteSync(rest)
        ELSE rest

-----------------------------------------------------------------------------
(* The handlers of BlockChainSync.                                         *)

\* A header that contradicts its neighbours restarts the sync; one that the
\* header after it contradicts drops that one and all that follow.
Contradicts(s, b) ==
    LET n == Number[b]
    IN  \/ n - 1 \in DOMAIN s.headers /\ s.headers[n - 1] # Parent[b]
        \/ n = s.lastImportedBlock + 1 /\ s.lastImportedBlockHash # Parent[b]

DropFollowing(s, b) ==
    LET n == Number[b] + 1
        run == n..RunEnd(s.headers, n)
    IN  IF ~(n \in DOMAIN s.headers /\ Parent[s.headers[n]] # b) THEN s
        ELSE [s EXCEPT !.headerIdToNumber = Restrict(@, DOMAIN @ \ {Body[b]}),
                       !.downloadingBodies = @ \ run,
                       !.downloadingHeaders = @ \ run,
                       !.headers = RemoveFrom(@, n),
                       !.bodies = RemoveFrom(@, n)]

\* The loop of onPeerBlockHeaders leaves with over when it restarts the sync.
AddHeader(w, b) ==
    LET s == w.sync
        n == Number[b]
        restart == [RestartSync(w) EXCEPT !.over = TRUE]
        common == [s EXCEPT !.haveCommonHeader = TRUE, !.lastImportedBlock = n,
                            !.lastImportedBlockHash = b]
        fits == IF s.haveCommonHeader THEN DropFollowing(s, b) ELSE s
        merged == [fits EXCEPT !.headers = Put(@, n, b)]
    IN  CASE w.over \/ n \in DOMAIN s.headers
                    \/ (n <= s.lastImportedBlock /\ s.haveCommonHeader) -> w
          [] OTHER ->
             IF Held(w, b)
             THEN IF n + 1 \in DOMAIN s.headers /\ First(s.headers) = n + 1
                     /\ Parent[s.headers[n + 1]] # b
                  THEN restart
                  ELSE [w EXCEPT !.sync = common]
             ELSE IF s.haveCommonHeader /\ Contradicts(s, b)
             THEN restart
             ELSE IF Body[b] = EmptyBody
             THEN [w EXCEPT !.sync = [merged EXCEPT
                        !.bodies = IF n \in DOMAIN @ THEN @ ELSE Put(@, n, EmptyBody)]]
             ELSE [w EXCEPT !.sync = [merged EXCEPT
                                        !.headerIdToNumber = Put(@, Body[b], n)]]

OnPeerBlockHeaders(w0, p, answer, order) ==
    LET w == [w0 EXCEPT !.sync = ClearPeerDownload(@, p)]
        added == FoldLeft(AddHeader, w, answer)
    IN  IF w.sync.state # "Blocks" THEN w
        ELSE IF added.over THEN [added EXCEPT !.over = FALSE]
        ELSE ContinueSync(CollectBlocks(added), order)

AddBody(w, body) ==
    LET s == w.sync
        n == s.headerIdToNumber[body]
    IN  IF \/ body \notin DOMAIN s.headerIdToNumber
           \/ n \notin DOMAIN s.headers \/ n \in DOMAIN s.bodies
        THEN w
        ELSE [w EXCEPT !.sync.headerIdToNumber = Restrict(@, DOMAIN @ \ {body}),
                       !.sync.bodies = Put(@, n, body)]

OnPeerBlockBodies(w0, p, answer, order) ==
    LET w == [w0 EXCEPT !.sync = ClearPeerDownload(@, p)]
    IN  IF w.sync.state # "Blocks" THEN w
        ELSE ContinueSync(CollectBlocks(FoldLeft(AddBody, w, answer)), order)

\* A plausible fault: the number moves on, the hash does not.
ForgetNumberOnly(s, b) ==
    LET n == Number[b]
    IN  [s EXCEPT !.lastImportedBlock = Max({@, n}),
                  !.downloadingBodies = @ \ {n}, !.downloadingHeaders = @ \ {n},
                  !.headers = RemoveItem(@, n), !.bodies = RemoveItem(@, n)]

\* What a block imported from an announcement makes superfluous.
Forget(s, b) ==
    LET n == Number[b]
        ahead == n > s.lastImportedBlock
    IN  [s EXCEPT !.lastImportedBlock = Max({@, n}),
                  !.lastImportedBlockHash = IF ahead THEN b ELSE @,
                  !.downloadingBodies = @ \ {n}, !.downloadingHeaders = @ \ {n},
                  !.headers = RemoveItem(@, n), !.bodies = RemoveItem(@, n)]

OnPeerNewBlock(w, p, b) ==
    LET r == Import(w, b, Body[b])
        known == [r EXCEPT !.sync = Forget(@, b)]
    IN  CASE Number[b] > w.sync.lastImportedBlock + 1 ->
                SyncPeer([w EXCEPT !.eth[p].latestHash = b], p, TRUE)
          [] Number[b] <= w.sync.lastImportedBlock + 1 /\ r.result = "Success" ->
                IF known.sync.headers = <<>> THEN CompleteSync(known) ELSE known
          [] Number[b] <= w.sync.lastImportedBlock + 1
             /\ r.result = "UnknownParent" ->
                IF Number[b] > w.eth[p].totalDifficulty THEN SyncPeer(r, p, TRUE)
                ELSE r
          [] OTHER -> w

OnPeerNewHashes(w, p, b) ==
    IF w.eth[p].asking # "Nothing" \/ Held(w, b) \/ InQueue(w.queue, b) THEN w
    ELSE SyncPeer([w EXCEPT !.eth[p].latestHash = b], p, TRUE)

OnBlockImported(s, b) ==
    IF Number[b] > s.lastImportedBlock
    THEN [s EXCEPT !.lastImportedBlock = Number[b], !.lastImportedBlockHash = b]
    ELSE s

-----------------------------------------------------------------------------
(* The actions. The order in which continueSync visits the peers is that   *)
(* of their ratings: any order.                                            *)

worker == <<chain, head, batch, imported, wasFull>>

Now == [sync |-> sync, eth |-> eth, queue |-> queue, result |-> "", over |-> FALSE]

Become(w) == sync' = w.sync /\ eth' = w.eth /\ queue' = w.queue

NoOne == [statusReceived |-> FALSE, totalDifficulty |-> 0, latestHash |-> NoBlock,
          asking |-> "Nothing", asked |-> [hash |-> NoBlock]]

Init ==
    /\ head \in {b \in Stored : \A c \in Stored : Number[c] <= Number[b]}
    /\ sync = [state |-> "Idle", headers |-> <<>>, bodies |-> <<>>,
               headerIdToNumber |-> <<>>,
               downloadingHeaders |-> {}, downloadingBodies |-> {},
               headerSyncPeers |-> NoPeer, bodySyncPeers |-> NoPeer,
               haveCommonHeader |-> FALSE, syncingTotalDifficulty |-> 0,
               lastImportedBlock |-> Number[head], lastImportedBlockHash |-> head]
    /\ eth = [p \in Peer |-> NoOne]
    /\ queue = [ready |-> <<>>, draining |-> {}, unknown |-> {}, knownBad |-> {},
                unknownSize |-> 0, struckOut |-> 0]
    /\ chain = Stored
    /\ batch = {} /\ imported = {} /\ wasFull = FALSE
    /\ session = {} /\ live = {}
    /\ remote = Remote
    /\ budget = [announced |-> MaxAnnounced, dropped |-> MaxDropped]

\* setIdle, before a handler sees the answer of p.
Idle(p) == [Now EXCEPT !.eth[p] = [@ EXCEPT !.asking = "Nothing",
                                            !.asked = NoOne.asked]]

\* A connection with p, up to its StatusPacket and onPeerStatus.
Connect(p) ==
    /\ p \notin session
    /\ session' = session \cup {p} /\ live' = live \cup {p}
    /\ Become(SyncPeer([Now EXCEPT !.eth[p] =
                    [@ EXCEPT !.statusReceived = TRUE,
                              !.totalDifficulty = Number[remote[p]],
                              !.latestHash = remote[p]]], p, FALSE))
    /\ UNCHANGED <<worker, remote, budget>>

\* The headers the peer has of those it was asked for.
Headers(p, asked) ==
    IF "hash" \in DOMAIN asked THEN <<asked.hash>>
    ELSE LET count == Max({0} \cup {n \in 1..asked.count :
                                asked.from + n - 1 <= Number[remote[p]]})
         IN  [i \in 1..count |-> OnBranch(remote[p], asked.from + i - 1)]

\* The peer answers with a first part of the headers, or with none.
AnswerHeaders(p, part) ==
    /\ p \in live /\ eth[p].asking = "BlockHeaders"
    /\ part \in 0..Len(Headers(p, eth[p].asked))
    /\ "hash" \in DOMAIN eth[p].asked => part = 1
    /\ \E order \in SetToSeqs(session) :
            Become(OnPeerBlockHeaders(Idle(p), p,
                        SubSeq(Headers(p, eth[p].asked), 1, part), order))
    /\ UNCHANGED <<worker, session, live, remote, budget>>

\* The peer answers with those of the bodies it has.
AnswerBodies(p, part) ==
    /\ p \in live /\ eth[p].asking = "BlockBodies"
    /\ part \subseteq eth[p].asked.hashes
    /\ \E order \in SetToSeqs(session) :
            Become(OnPeerBlockBodies(Idle(p), p,
                [i \in 1..Cardinality(part) |-> Body[ByNumber(part)[i]]], order))
    /\ UNCHANGED <<worker, session, live, remote, budget>>

\* The chain of p grows to block b, or changes to its branch; p announces it.
Announce(p, b) ==
    /\ p \in live /\ budget.announced > 0 /\ Number[b] > Number[remote[p]]
    /\ remote' = [remote EXCEPT ![p] = b]
    /\ budget' = [budget EXCEPT !.announced = @ - 1]
    /\ UNCHANGED <<worker, session, live>>

NewBlock(p, b) == Announce(p, b) /\ Become(OnPeerNewBlock(Now, p, b))

NewBlockHashes(p, b) == Announce(p, b) /\ Become(OnPeerNewHashes(Now, p, b))

\* The connection breaks, or p answered too late; the session object stays
\* until its last handler has run, and takes requests until then.
Drop(p) ==
    /\ p \in live /\ budget.dropped > 0
    /\ live' = live \ {p}
    /\ budget' = [budget EXCEPT !.dropped = @ - 1]
    /\ UNCHANGED <<sync, eth, queue, worker, session, remote>>

\* ~Session: onDisconnect, which is onPeerAborting.
Disconnect(p) ==
    LET there == session \ {p}
        clear == [Now EXCEPT !.sync = ClearGone(@, there)]
    IN  /\ p \in session \ live
        /\ session' = there
        /\ \E order \in SetToSeqs(there) :
                Become([ContinueSync(clear, order) EXCEPT !.eth[p] = NoOne])
        /\ UNCHANGED <<worker, live, remote, budget>>

\* The client's worker takes a block from the queue: drain(), under its lock.
Drain ==
    LET b == Head(queue.ready)
    IN  /\ batch = {} /\ imported = {} /\ queue.draining = {}
        /\ queue.ready # <<>> /\ b \notin Bad
        /\ batch' = {b}
        /\ wasFull' = KnownFull(queue)
        /\ queue' = [queue EXCEPT !.ready = Tail(@), !.draining = {b}]
        /\ UNCHANGED <<sync, eth, chain, head, imported, session, live, remote, budget>>

\* A plausible fault: nobody is told of the room.
RoomUnnoticed ==
    /\ wasFull
    /\ wasFull' = FALSE
    /\ UNCHANGED <<sync, eth, queue, chain, head, batch, imported, session, live,
                   remote, budget>>

\* The end of drain(), without the lock: onRoomAvailable.
RoomAvailable ==
    /\ wasFull
    /\ wasFull' = FALSE
    /\ IF KnownFull(queue) THEN Become(Now)
       ELSE \E order \in SetToSeqs(session) :
                Become(ContinueSync([Now EXCEPT !.sync.state = "Blocks"], order))
    /\ UNCHANGED <<chain, head, batch, imported, session, live, remote, budget>>

\* The block enters the chain. It becomes the head when its branch is heavier,
\* or as heavy with more gas used.
Enact ==
    \E b \in batch \ chain :
        /\ ~wasFull
        /\ batch' = {}
        /\ chain' = chain \cup {b}
        /\ head' \in {c \in {b, head} : Number[c] >= Number[b] /\ Number[c] >= Number[head]}
        /\ imported' = {head'} \ {head}
        /\ UNCHANGED <<sync, eth, queue, wasFull, session, live, remote, budget>>

\* AlreadyHaveBlock: a block that was queued once more, after a clear(), while
\* the worker had it in its hands.
EnactAgain ==
    /\ ~wasFull /\ batch \cap chain # {}
    /\ batch' = {}
    /\ UNCHANGED <<sync, eth, queue, chain, head, imported, wasFull, session, live,
                   remote, budget>>

\* The end of insertBlockAndExtras, for a new head: m_onBlockImport.
BlockImported ==
    \E b \in imported :
        /\ imported' = {}
        /\ sync' = OnBlockImported(sync, b)
        /\ UNCHANGED <<eth, queue, chain, head, batch, wasFull, session, live, remote,
                       budget>>

\* The end of BlockChain::sync: doneDrain, with nothing bad.
DoneDrain ==
    /\ batch = {} /\ imported = {} /\ queue.draining # {}
    /\ queue' = [queue EXCEPT !.draining = {}]
    /\ UNCHANGED <<sync, eth, worker, session, live, remote, budget>>

\* A verifier rejects a block.
Reject(b) ==
    /\ b \in Bad \cap Range(queue.ready)
    /\ queue' = [queue EXCEPT !.ready = Without(@, {b}),
                              !.knownBad = @ \cup {b}, !.struckOut = @ + 1]
    /\ UNCHANGED <<sync, eth, worker, session, live, remote, budget>>

Next ==
    \/ \E p \in Peer :
        \/ Connect(p)
        \/ \E part \in 0..MaxRequest : AnswerHeaders(p, part)
        \/ \E part \in SUBSET Block : AnswerBodies(p, part)
        \/ \E b \in Block : NewBlock(p, b) \/ NewBlockHashes(p, b)
        \/ Drop(p)
        \/ Disconnect(p)
    \/ Drain
    \/ RoomAvailable
    \/ Enact
    \/ EnactAgain
    \/ BlockImported
    \/ DoneDrain
    \/ \E b \in Bad : Reject(b)

Spec == Init /\ [][Next]_vars

-----------------------------------------------------------------------------
(* Fairness. A peer that is asked again and again answers in full again    *)
(* and again (one that does not is disconnected after its time is up); who *)
(* leaves comes back; the client's worker never rests while there is work. *)
(* Connect, Disconnect, AnswerInFull and RoomAvailable are fair as with     *)
(* SF_vars, with their guards written out: each of them changes the state  *)
(* whenever its guard holds (EveryAnswerCounts for the answers).           *)

Asked(p) == p \in live /\ eth[p].asking # "Nothing"

AnswerInFull(p) ==
    IF eth[p].asking = "BlockHeaders"
    THEN AnswerHeaders(p, Len(Headers(p, eth[p].asked)))
    ELSE AnswerBodies(p, eth[p].asked.hashes)

PeersFair ==
    \A p \in Peer :
        /\ []<>(p \notin session) => []<><<Connect(p)>>_vars
        /\ []<>(p \in session \ live) => []<><<Disconnect(p)>>_vars
        /\ []<>Asked(p) => []<><<AnswerInFull(p)>>_vars

WorkerFair ==
    /\ WF_vars(Drain \/ Enact \/ EnactAgain \/ BlockImported \/ DoneDrain)
    /\ []<>wasFull => []<><<RoomAvailable>>_vars

FairSpec == Spec /\ PeersFair /\ WorkerFair

-----------------------------------------------------------------------------
(* Properties.                                                             *)

\* A number marked as being downloaded is one that a peer is being asked for,
\* in one session, with a request of that kind. A number marked for nobody is
\* never asked for again (m_downloadingHeaders and m_downloadingBodies
\* against m_headerSyncPeers, m_bodySyncPeers and EthereumPeer::m_asking).
DownloadsOwned ==
    /\ \A n \in sync.downloadingHeaders : \E p \in session :
            n \in sync.headerSyncPeers[p] /\ eth[p].asking = "BlockHeaders"
    /\ \A n \in sync.downloadingBodies : \E p \in session :
            n \in sync.bodySyncPeers[p] /\ eth[p].asking = "BlockBodies"

\* Once the common block is found, the block the download continues from is one
\* the node has, in the queue or in the chain, or one that it has since found to
\* be bad, and its number is its own: m_lastImportedBlock and
\* m_lastImportedBlockHash are assigned in eight places. One exception: a node
\* that started with the genesis block alone looks up block 1 of its chain when
\* that block may still be in the queue, and numberHash() knows none.
LastImportedKnown ==
    sync.haveCommonHeader =>
        \/ /\ sync.lastImportedBlockHash
                  \in chain \cup batch \cup Range(queue.ready) \cup queue.draining
                            \cup queue.knownBad
           /\ Number[sync.lastImportedBlockHash] = sync.lastImportedBlock
        \/ /\ Stored = {Genesis}
           /\ sync.lastImportedBlockHash = NoBlock /\ sync.lastImportedBlock = 1

\* An answer in full moves the sync on: the peer is never asked for the same
\* once more with nothing changed, whatever the order in which the peers are
\* visited (onPeerBlockHeaders and onPeerBlockBodies, by way of continueSync).
EveryAnswerCounts ==
    \A p \in session : Asked(p) => \A order \in SetToSeqs(session) :
        LET asked == eth[p].asked
            after == IF eth[p].asking = "BlockHeaders"
                     THEN OnPeerBlockHeaders(Idle(p), p, Headers(p, asked), order)
                     ELSE OnPeerBlockBodies(Idle(p), p,
                            [i \in 1..Cardinality(asked.hashes) |->
                                Body[ByNumber(asked.hashes)[i]]], order)
        IN  <<after.sync, after.eth, after.queue>> # <<sync, eth, queue>>

\* The node gets to the best head of its peers and stays there: what the sync is
\* for ("Syncs to peers and keeps up to date", BlockChainSync.h).
CatchesUp == <>[](\A p \in live : Number[head] >= Number[remote[p]])

\* The queue is full of blocks with unknown parents only when it holds as many:
\* the sync starts from nothing then ("Too many unknown blocks, restarting sync",
\* BlockChainSync.cpp:713, on unknownFull() of a map that "Tracks total size in
\* bytes", BlockQueue.h:215).
FullOfUnknown ==
    UnknownFull(queue) =>
        \/ Cardinality(queue.unknown) > MaxUnknown
        \/ Cardinality(queue.unknown) > MaxUnknownSize

\* A paused download will be resumed: the queue is still full, or the drain()
\* that took from the full queue has not yet looked at it. m_bqRoomAvailable is
\* what leaves Waiting ("Triggered once block queue has space for more blocks").
PauseEnds == sync.state = "Waiting" => KnownFull(queue) \/ wasFull
=============================================================================
