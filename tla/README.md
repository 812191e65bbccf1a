# Verification of aleth's core

TLA+ models of the parts of aleth, a C++ Ethereum node, in which several threads
or peers share state, the TLC runs that check them and the TLAPS proofs about
them. Paths are relative to the repository; `PROJECT.json` maps each definition
to the lines it models.

## The system

A block travels from the network to the chain like this:

    peers -> EthereumCapability -> BlockChainSync -> BlockQueue -> Client -> BlockChain
                                                     (verifiers)   (worker)
    peers, RPC -> TransactionQueue -> Client -> pending Block -> Ethash farm
                  (verifiers)

| Component | State it keeps | Operations | Interaction and what is hard | Correct when |
|---|---|---|---|---|
| **BlockQueue** `libethereum/BlockQueue.*` | known-bad, draining and ready sets; unknown-parent and future maps; three queues (unverified, verifying, verified); difficulty sums | `import`, `tick`, `drain`, `doneDrain`, `retryAllUnknown`, `clear`, `stop`, verifier threads | two locks taken in several combinations; verifiers finish in any order; `clear` under a working verifier; a bad block takes its descendants along in every container | sets and queues agree; each block in one place; parents before children; no work forgotten, no lost wake-up |
| **Client worker** `libethereum/Client.*` | atomic flags (`m_syncBlockQueue`, `m_syncTransactionQueue`, `m_needStateReset`, `m_remoteWorking`), pre-sealed, sealing and post-sealed blocks, function queue | `doWork` and what it calls; callbacks of both queues; `rewind`, `reopenChain` | flags set by callbacks while the worker writes them back | what is announced is done; no block condemned without cause |
| **BlockChain** `BlockChain.*` | best block, caches, two databases | `sync`, `import`, `insert`, `rewind`, `garbageCollect`, `rebuild` | three writes per block with crashes in between; reorganisation; cache ahead of database | best has the most difficulty; canonical numbers are its ancestors; a restart finds a consistent chain |
| **TransactionQueue** `TransactionQueue.*` | current multiset with two indices, future map, known, dropped, verification queue | `import`, `drop`, `dropGood`, `setFuture`, `clear`, `topTransactions`, `enqueue`, verifiers | chains of moves between four containers; comparator depends on mutable index; limits | indices agree; one transaction per account and nonce; limits; subscribers told |
| **Block, State, Executive** | pending transactions, receipts, state cache and journal | `sync(TransactionQueue)`, `execute`, `commitToSeal` | stale list of transactions against a queue that changes | sequential data |
| **BlockChainSync** `BlockChainSync.*` | state, headers and bodies by number, who downloads what | `onPeerStatus`, `onPeerBlockHeaders`, `onPeerBlockBodies`, `onPeerNewBlock`, `restartSync`, `onBlockImported` | peers that leave with a request out, answers out of order or mismatched, pausing on a full queue | every number asked of one peer; headers linked; sync never stuck |
| **EthereumCapability, EthereumPeer** | peers with status, asking, lastAsk, known blocks | packets in, requests out, keep-alive, gossip | a timeout that races an answer | one request at a time; a silent peer is dropped |
| **Warp, snapshots** | snapshot download, chunk sets | status, chunk and manifest packets | peers that leave, bad chunks | every chunk once |
| **Worker** `libdevcore/Worker.*` | state (Starting ... Killed) under a lock, atomic transitions | `startWorking`, `stopWorking`, `terminate` | handshake of two threads on one atomic | ends, no transition lost |
| **State database** `OverlayDB`, `StateCacheDB`, `LevelDB` | node reference counts, batch | insert, kill, commit with retries, rollback | failing write, retry of a batch that was moved away | what is committed is on disk |
| **p2p Host, Session, NodeTable, RLPx** | peers, sessions, slots, buckets, sent pings, evictions | connect, accept, handshake, keep-alive, discovery | timers against packets, slots counted in two places | slots respected; validated endpoints only; no lost eviction |
| **Sealing** `GenericFarm`, miners | work package, running miners | `setWork`, `submitProof`, `start`, `stop` | solution for old work | only current work accepted |
| Others | tries, RLP, crypto, EVMs, RPC, tools | | data or I/O | see `PROJECT.json` |

The hazards, line by line, are in `PROJECT.json` under "hazards", with the
properties that watch them or the reason none does yet.

## Modules

| Module | Models |
|---|---|
| `QueueOps` | removal of elements from a sequence, used by both queues |
| `BlockQueue` | `BlockQueue.cpp` with its verifier threads, and the two things around it that it depends on: the chain and the clock |
| `BlockLifecycle` | abstract: what the queue promises of each block (`QueueStatus`, and how a block moves) |
| `ClientSync` | extends `BlockQueue` with `Client::doWork`'s block side, `syncBlockQueue`, `BlockChain::sync` |
| `HeaderSync` | `BlockChainSync.cpp` with the peers' side of `EthereumCapability` and `EthereumPeer`, over a block queue reduced to what the download can tell |
| `ChainDB` | `BlockChain`'s import, rewind, caches and databases, with crashes and restarts |
| `TransactionQueue` | `TransactionQueue.cpp` without its verification queue |
| `TransactionSync` | extends `TransactionQueue` with `doWork`'s transaction side and `Block::sync` |
| `WorkerThread` | `Worker.cpp`: the thread that `Client` and `Host` derive from |
| `MC...` | the instances for TLC |
| `QueueOpsProofs` | lemmas about removal from sequences and lists of distinct elements |
| `BlockQueueProofs`, `BlockOrderProofs` | `BlockQueue`: its sets and queues; then their order, and `BlockLifecycle` |
| `ClientSyncProofs`, `HeaderSyncProofs`, `ChainDBProofs`, `WorkerThreadProofs` | the module they are named after |
| `TransactionProofs` | `TransactionQueue`, then `TransactionSync` |

### BlockQueue

Variables are the members of the class (`m_readySet` is `readySet`, and so on),
each verifier's program counter and the block in its hands, the chain and the
time. An action is a critical section, so the places where a lock is released
are where actions end:

- a verifier takes the first unverified block and leaves a placeholder in
  `m_verifying` (`VerifierTake`), verifies it with no lock held, then, under both
  locks, either strikes the block out (`VerifierFail`) or finishes its place
  (`VerifierSucceed`) and, when the place was first, moves all that is finished
  to `m_verified`; it calls `m_onReady` after releasing the locks (`OnReady`);
- waiting on `m_moreToVerify` is a state of its own ("asleep"), notify-one wakes
  any one sleeper, notify-all wakes them all;
- `import` is one action with the early returns as guards (known bad, future,
  unknown parent) and the release of waiting descendants inside it, as
  `noteReady_WITH_LOCK` does; `tick` first takes the due blocks (`TickTake`), then
  imports them one at a time (`TickImport`), with other threads in between;
- `updateBad_WITH_LOCK` and `collectUnknownBad_WITH_BOTH_LOCKS` call each other until
  nothing is left; `IsStruckOut` describes the set they arrive at;
- `doneDrain` is given the drained blocks that are not in the chain, which is
  what its comment asks of the caller. `ClientSync` replaces that by what
  `BlockChain::sync` really passes.

Data is abstract: a block is a model value with a parent, a time, a malformed
header or not, a bad seal or not. Difficulty is a multiset of blocks (how often
each is counted), so that "too little" can be told for any numbers. The order
in which hash maps are walked is free.

Left out: `m_size`, `knownFull`, `unknownFull` and `m_onRoomAvailable` (which
`HeaderSync` has, in blocks instead of bytes); reads that change nothing (`status`,
`blockStatus`, `items`); logging.

`Spec` lets `clear()` come at any time, as `restartSync` and `rewind` call it.
`QuietSpec` has `clear()` only while no verifier holds a block and nothing is
draining. The difference is not cosmetic: with `Spec` the class's own
`invariants()` fails: a verifier's late verdict on an old copy of a block takes the
hash of the new copy out of `m_readySet`. So the safety properties are stated of
`QuietSpec`, and `ClientSync` uses the unrestricted one.

### ClientSync

The worker is at one of four points: idle, about to drain, importing, about to
write the flag back. `BlockChain::import` has six outcomes, an action each: already
there, unknown parent, future time, transient error, failed execution,
inserted. `FutureTime` and `TransientError` skip the block, `UnknownParent` and a failed
execution report it. `Rewind` is what `rewind()` has the worker do: blocks above the
new head are not current any more, but stay in the database (`stored`), where
`import` still finds them as parents; the `clear()` that ends `rewind()` comes later.
`dropped` and `missed` are history variables: they record
that a block was skipped, and how verified blocks came to wait unannounced;
no action depends on them. The worker stops before the queue, as in `~Client`.

### TransactionQueue

`m_current` is a sequence in the order of the multiset, its two indices are sets.
The four private helpers are operators from a state of the containers to the
states they may leave, and each public operation is the chain of helper calls
the code makes. The comparator reads the lowest nonce of each account from the
index, so its verdicts change under the multiset; emplacement then allows every
position both of whose neighbours agree with the comparator. The red-black
tree's shape, which would choose one, is not modelled: this is an
over-approximation, sound for the properties that pass, and the counterexample
of `tx_order` was replayed by hand on a tree of three nodes. `m_onReady` and `m_onReplaced`
are flags that `Attend`, the client thread, takes down.

Left out: `enqueue`, its bounded queue and verifier threads, the reads
`topTransactions`, `maxNonce`, `waiting`, `status`.

### TransactionSync

`ready` and `replaced` of `TransactionQueue` are `m_syncTransactionQueue` and
`m_needStateReset` here. The worker's program counter goes through `doWork` in the
code's order: first what the block side left to do (resubmitting the
transactions of dead blocks, `dropGood` for those of the new ones, a new
`m_working`), then the reset, then `Block::sync`: it copies the top transactions
once and goes through the copy, in passes, while importers and chain changes
come between any two of its steps. A block is the set of transactions in it, and
only the nonce decides whether one can be executed. `displaced` and `missed` are
history variables.

Left out: sealing (`m_preSeal` and `m_postSeal` are `m_working` wherever they are
read), `clearPending`, and the second thread that `flushTransactions` can send
into `doWork` (`Eth.cpp:358`). A transaction priced a little under the asked
price is left alone as one that finds the block full is (`LeaveForNow`).

### ChainDB

A block's state, its body, its details with its parent's, its number, and
"best" are written in four steps (`Enact`, `CommitBlocks`, `CommitExtras`, `SetBest`), and
`Restart` may come between any two: it empties what is in memory. `Rewind` and
`GarbageCollect` are the worker's, `LookUp...` and `Fill...` are the two halves of a read
through the caches by another thread, with the database read unlocked. Four
history variables name the leftovers that the code tolerates: numbers that a
dying import overwrote, cached numbers read at the wrong moment, blocks given
up by a rewind, children lost from their parent's details. The invariants say
that there are no others. A number that was looked up above the head, or across
an import, does stay stale for ever (`crossed`), although `BlockChain.h:105` calls the
data disk-backed and thread-safe.

Left out: receipts, blooms and transaction addresses, which are in the same
batch; rebuild and rescue; blocks inserted without a parent (snapshots).

### HeaderSync

Every handler holds `x_sync` throughout, so it is one action: an operator from a
world (the members of `BlockChainSync`, what each peer is being asked for, the
block queue) to a world, composed as the code's calls are. `m_headers` and
`m_bodies` are functions from numbers, of which a chunk is a maximal run. The
loops of `onPeerBlockHeaders`, `collectBlocks` and `continueSync` are folds; `continueSync`
visits the peers in any order, since ratings decide it.

Peers answer from their chain: with the header of a hash, with the first part
of the headers asked for by number, or none, with any part of the bodies; late,
or never. Announcements change a peer's chain. A broken connection (`Drop`) leaves
the session object, and with it the peer's requests, until `Disconnect`. The block
queue is what `ready`, `draining`, `unknown` and `knownBad` tell, with the two counters
that the sync reads: the difficulty, in which rejected blocks stay
(`struckOut`), and the size of `m_unknown`, which misses what is inserted; `Drain` and `RoomAvailable`
are the two halves of `drain()`, inside and outside its lock; `Reject` is a
verifier's verdict. `BlockChain::sync` goes on with the insertion (`Enact`, or `EnactAgain`
for a block that came twice through the queue), `onBlockImported` when that made a new head
(`BlockImported`), and `doneDrain` (`DoneDrain`), each a step of its own: in between the
block is in the chain and still counts in the queue.

Left out: the DAO challenge, blocks whose time is to come, descendants of a
bad block, peers that are disabled for what they send, `abortSync`, `rewind`, and
sizes that differ between blocks. Handlers are atomic towards the queue, although each of their
calls takes its locks anew.

### WorkerThread

`m_state`, where the thread is, which call each caller is in, and who sleeps on
the condition variable. `doWork` may throw. `overtaken` is history: a
`stopWorking()` that another thread's `startWorking()` came before, which then waits
for the next stop.

## Runs

| Run | Question | Result |
|---|---|---|
| `block_queue` | Do the sets and queues agree, parents stay ahead of children, nothing is stranded, and does every step follow `BlockLifecycle`? | holds |
| `client_sync` | What can end in `m_knownBad`, and can verified blocks wait unnoticed? | only the listed causes; only the two listed ways |
| `client_live` | Are blocks taken up and drained, and does `stop()` end? | holds |
| `header_sync` | Is every number marked as being downloaded really asked of a connected peer, and does the download go on from a block the node has? | holds |
| `header_live` | Does a node whose peers agree get to their head, and does every full answer move it on? | holds |
| `header_paused` | Does room in the queue always end a pause? | violated: room that a rejected block makes is announced to nobody |
| `header_sizes` | Is the queue full of blocks with unknown parents only when it has many? | violated: the byte count wraps when one is released, and the sync starts over |
| `chain_db` | Is there a usable chain after a crash at any point, is the head the heaviest, and are numbers, caches and children right? | holds, but for the leftovers named |
| `tx_queue` | Do indices, slots, counters, limits and signals agree under any order of calls? | holds |
| `tx_order` | Are an account's transactions in nonce order? | violated: heights move under the multiset |
| `tx_sync` | Does the pending block stay on the head, lose what was replaced and miss nothing? | holds; what an overwritten flag hides is named (`missed`) |
| `worker` | Does nobody sleep through the change it waits for, is a stopped worker out of its loop, and does every call return? | holds, but for stops that were overtaken |

The three violations are described with the lines they contradict in
`PROJECT.json` under "findings". Smaller disagreements that showed up while
modelling, and for which no run is kept: `onBlockImported` with a block of another
fork moves the last imported block past the downloaded headers ("Header is too
old" in `BlockChainSync::invariants()`), after which they are never collected;
headers that arrive while the common block is not yet known are not checked
against their neighbours; when the only peer with the best head disconnects
before it gives that header, `m_syncingTotalDifficulty` keeps equal peers from
being asked for it; `onPeerNewBlock` leaves `m_headerSyncPeers` with numbers that are
no longer in `m_downloadingHeaders` (`BlockChainSync.cpp:783`); a replacement that arrives
after `doWork` looked at `m_needStateReset` is dropped as too old
(`Client.cpp:687`); a node that starts with the genesis block alone asks its chain for
block 1 as the start of the search for the common block, although that block may still be
in the queue, and `numberHash()` answers with the zero hash (`BlockChainSync.cpp:337`), the one
exception in `LastImportedKnown`; `dropGood` is called for transactions of side blocks
(`Client.cpp:564`).

### Bounds, and why they are enough

- `block_queue`: four blocks, a fork a-b and a-c-d where c's seal is bad and b's time
  is to come, so one run has a bad block with a child in any container, a good
  sibling behind it, a future block and an orphan chain of two; two verifiers,
  the least that finish out of order; at most two blocks per drain, so that
  partial drains happen; one clock step. The verifiers are symmetric and nothing
  in the properties of these runs names one of them.
- `client_sync`: three blocks, one with a bad seal, one that may fail transiently and
  whose time may be ahead of the worker's, and its child, which is good and must
  not be condemned; two verifiers; rewinds to the genesis block at any time
  (`RewindTo`).
- `client_live` is without symmetry, two blocks, drains of one, so that the worker must
  come back for the second; the execution of one of
  them fails, and nothing is rewound.
- `tx_queue`: one account with three nonces and a replacement, another account
  competing for two current places and one future place, so that eviction,
  replacement, gaps and trimming meet in one operation.
- `tx_sync`: the same two accounts with five transactions, one of them a replacement
  and one too big for a block; two transactions per pass and two per block, so that
  a pass leaves some behind and a block fills; four events from outside, such as an
  import or a change of the chain (`MaxEvents`);
  `dropGood` gets the transactions of the blocks that became live (`MaxSide` is 0;
  with 1, where those of a side block are among them or one is missing, the same
  properties hold in 2.5 million states, too many for a routine run).
- `chain_db`: two branches of two blocks. The lighter branch's first block ties
  with the head of the other one and has used more gas, so there is a
  reorganisation to a shorter chain and one to a longer; restarts, rewinds and
  collections are unbounded. Reads through the cache and its collection are about
  the first block's details only (`Polled`).
- `header_sync`: two branches that part above the block both peers begin with, the
  second with a bad end; one announcement (`MaxAnnounced`) and one broken connection
  (`MaxDropped`), so a peer changes branch under a download or leaves with a request
  out. Requests of two and a queue that is full above one make partial answers and
  pauses happen. Sizes are counted in blocks, modulo a number that the blocks of the
  instance cannot count to (`SizeModulus`).
- `header_live`: one branch of seven, two peers at its end. `header_paused` and
  `header_sizes` are `header_sync` with another announcement and no broken connection.
- `worker`: three callers, each of which may start, stop and destroy.

`MaxTime` (clock), `MaxDrain` (blocks per drain), `MaxSync`, `MaxRequest`, `MaxKnown` and
`MaxUnknown` stand for limits of the code; `MaxEvents`, `MaxSide`, `MaxAnnounced`,
`MaxDropped`, `RewindTo` and the finite sets are the only bounds on what happens. No queue needs
a cap, since a block or transaction is accepted once.

### Fairness

Each verifier thread is weakly fair: it is an operating-system thread whose
steps are enabled until it takes them, and sleeping is not a step. The worker's
`Sync` and `ClientTick` are weakly fair: `doWork` goes round at least once a second
(`wait_for` with a timeout in `Client::doWork`), and does both parts in turn. Nothing
else is fair there: no import, no clock tick and no `clear()` is ever promised.

In `WorkerThread` the thread's steps are weakly fair, and so is every caller that has
been woken. `CallsReturn` asks that no more `startWorking()` comes from some point on:
a stop can be overtaken by starts for ever.

In `HeaderSync` (`FairSpec`) a peer that is asked again and again answers in full
again and again, since one that does not is disconnected after its time is up; who
leaves comes back; the client's worker does not rest while there is work. No
announcement and no broken connection is promised. The peers' part, and the look
for room after a drain, are written with the guards of the actions, which is strong
fairness where each such step changes the state: for the answers that is `EveryAnswerCounts`, checked by the same run. `CatchesUp`
holds under it for peers with equal heads only: of two honest peers, one a block
ahead, the sync completes at the head of the other while the last header is on
its way, and then ignores it as unexpected (`BlockChainSync.cpp:733`); nothing
is asked before the next announcement.

## Proofs

### BlockQueue

`BlockQueueProofs` proves, for any finite set of blocks, any parent function, any
verifiers, bad seals, times and bounds, that `QuietSpec` keeps:

| Theorem | Says |
|---|---|
| `TypeCorrect` | the types; `m_difficulty` never goes below zero |
| `InvariantsHold`, `ReadySetExact` | `BlockQueue::invariants()`, and what it stands for |
| `OnePlaceOnly` | a block is in at most one of the sets |
| `NoBlockForgotten` | no block waits for a parent that has come |
| `NoPlaceAbandoned` | each unfinished place has one thread working on it |
| `DifficultyCovered` | the difficulty sum counts every queued block |
| `NoLostWakeUp` | with work to do, someone is awake |

They rest on two assumptions on the constants (`BlockAssumption`, `ParentAssumption`),
which the runs evaluate, and on one inductive invariant (`InductiveInvariant`):

    IInv == TypeOK /\ Queues /\ OnePlace /\ NoOrphanForgotten /\ BusyHasJob
            /\ PlacesAndJobs /\ DifficultyCovers /\ SomeoneAwake

None of the parts is inductive alone. That `m_readySet` is exactly the pipeline
needs to know that a thread's placeholder is in `m_verifying` or its block already
struck out (`PlacesAndJobs`), or a late failure would erase a hash that is queued
again; that needs threads to hold distinct blocks, which needs the unverified
queue disjoint from the places (`Queues`, `OnePlace`). `OnePlace` needs
`NoOrphanForgotten` when import releases waiting blocks, and `DifficultyCovers` needs
the draining part to be exact before `doneDrain` subtracts it. `SomeoneAwake` needs
`BusyHasJob` to know that a thread that leaves the loop was not the last. The proof has one lemma per
action; `QueueOpsProofs` has the facts about removal from sequences (range, length,
injectivity, distribution over concatenation) they rest on.

`BlockOrderProofs` goes on to the order of the blocks, under the same assumptions:

| Theorem | Says |
|---|---|
| `ParentsFirst` | a queued block has its parent ahead of it, draining, in the chain or bad, unless `retryAllUnknown` released it |
| `NothingDoomed` | no verified block has a parent that is known to be bad, with the same exception |
| `ImplementsLifecycle` | each step is a step of `BlockLifecycle` or leaves every block where it was |

    OrderInv == IInv /\ InOrder(verified, verifying, unverified, Elsewhere, forced)
                /\ VerifiedNotDoomed /\ ChainRooted /\ FutureApart

`InOrder` is `ParentFirst` without concatenating the queues: each is behind the ones before it,
so that a step that changes one of them is about that one. Verifiers finish in any
order; the places in `m_verifying` keep the blocks in theirs, and finishing or leaving
a place renumbers the rest. `VerifiedNotDoomed` needs the order in its turn: when a block turns out bad, its
descendants are behind it, in the prefix that `drainVerified_WITH_BOTH_LOCKS` goes
through or in what `updateBad_WITH_LOCK` strikes out, never already ahead of it. The
refinement adds that the chain is closed under parents (`ChainRooted`), as what
`BlockLifecycle` asks of imported blocks, and that a block that waits for its time is
neither in the chain nor bad (`FutureApart`): only then do the sets tell the status of a
block whatever order `blockStatus` looks at them in.

The lemmas about `InOrder` speak of any three sequences and any set of settled
parents, and `ClientSyncProofs` uses them with another set.

### ClientSync

`ClientSyncProofs` proves, for any tree of blocks, any verifiers, rewinds and outcomes
of execution (`BlockAssumption`, `ParentAssumption`, `ClientAssumption`), that
`ClientSpec` keeps `KnownBadJustified` (`BadForAReason`) and `VerifiedAnnounced`
(`AnnouncementsReach`). Here `clear()` comes at any time, so `IInv` above does not hold and what is left of
it is the start of the inductive invariant:

    SyncInv == ClientTypeOK /\ QueuedOnce /\ ReadyQueued /\ SealsGood /\ WorkInOrder
               /\ ReportsJustified /\ KnownBadJustified
    ClientInv == SyncInv /\ VerifiedAnnounced

A thread that took a block before a `clear()` may bring its verdict to a queue that
holds the block once more. A failure then takes the hash out of `m_readySet` and
leaves the queued copy, so `ReadyQueued` allows exactly that: what is queued and not
ready has a bad seal and is known to be bad. `SealsGood` keeps such a copy out of `m_verified`,
which is why `doneDrain`'s answer, read off `m_readySet`, is never "nothing" over verified
blocks. For `KnownBadJustified` the danger is `UnknownParent`: `sync` reports a block
whose parent the database does not have. `WorkInOrder` shows that the parent was stored,
bad, reported or skipped (`Settled`) before its child's turn came, from the unverified queue through
the list that `sync` holds; a rewind does not matter, since it removes nothing from the
database. `ReportsJustified` carries the reasons from the report to `doneDrain`.

### TransactionQueue

`TransactionProofs` proves, for any finite set of transactions, any senders, nonces, prices
and limits (`TxAssumption`), every invariant and action property that `tx_queue` checks:
`IndicesStayTrue`, `SlotsAreSingle`, `FutureSizeExact`, `KnownFollows`, `NothingUnderbid`, `ReplacementsTold`,
`NewcomersTold`, `LimitsKept`, `SuccessorsFollow`. The inductive invariant is the conjunction of
five state properties (`KnownCovers`, that what is queued is known, is one of them and is not
run by itself: `KnownFollowsQueue` says when a hash must also leave); they lean on one another, as a replaced transaction is found through
the slot index and erased from the multiset, and `m_futureSize` is decremented for what the
slots say is there. An operation is a chain of helpers that may run many times over
(`makeCurrent` moves a run of nonces, an import evicts until the limit is met), so the lemmas
are about a record of the containers and say of each helper that it leaves them
`Sound` and what it moved. Nothing is assumed about the multiset's comparator: its verdicts change
under the elements, and none of these theorems needs the order.

### TransactionSync

`TransactionProofs` goes on to prove, under `TxAssumption` and `SyncAssumption`, `ReplacedIsReset`,
`PendingContinuesChain` and `NothingIsOverlooked`, the three invariants of `tx_sync`, and that the
queue's own invariant survives the composition (`QueueInvariantInClient`).

    SyncInv == Stands /\ SyncTypeOK /\ InList /\ DisplacedGone /\ DisplacedTold
               /\ ClearedEmpty /\ HeadKept /\ Covered

`ReplacedLeavesPending` must be strengthened to the list in `Block::sync`'s hands (`DisplacedTold`):
a transaction replaced after the list was taken is executed all the same. `HeadKept` has
the nonces: the pending block continues its base without gaps, and the base is
the head whenever the worker fills the block. `Covered` is the account of who is responsible for
a current transaction at each point of `doWork`: the pending block, the list, the flag, or
`missed`. A pass that executed everything before its place (`every`) is what entitles
`Block::sync` to answer "nothing more".

### WorkerThread

`WorkerThreadProofs` proves, for any set of callers, that `Spec` keeps `WorkerInvariant`
and what follows from it: `WorkerTypeCorrect`, `NoLostNotify` (whoever sleeps on the
condition variable waits for something that has not happened yet) and
`StoppedMeansOut` (a worker whose state is `Stopped` is out of its loop). The one
assumption (`CallersAssumption`) is that a caller is neither the worker nor nobody.
The inductive invariant is

    IInv == WorkerTypeOK /\ SleepersWait /\ StoppedIsOutOfLoop /\ InRound /\ DestructorAlone

`SleepersWait` needs to know where in its round the thread can be in each state
(`InRound`), and that once the destructor has begun nobody starts or stops the
worker (`DestructorAlone`), or a notification could be meant for somebody else.

### ChainDB

`ChainDBProofs` proves, for any tree of blocks (`TreeAssumption`), that `Spec` keeps
`ChainInvariant`, and with it `CrashLeavesChain`: at whatever write the process dies,
"best" has details, and everything with details has its body, its state and a
parent with details. The inductive invariant is

    IInv == TreeOnDisk /\ MemoryOnDisk /\ NumbersLead /\ NumbersThere /\ ChainsWhole
            /\ ImportReady /\ BatchReady

That "best" has details needs more than the order of the writes. `rewind()` takes its
new head from the numbers, through a cache that an RPC thread may have filled with
something stale, so every number, on disk, in the cache, in the batch or on its way
there, must lead to a block with details (`NumbersLead`, `BatchReady`); there must be an
entry for each number up to the head's (`NumbersThere`); and for that to survive a
reorganisation the chains must have no holes (`ChainsWhole`). `ChainOf` is the
least set closed under the walk to the parent, so that what it contains is proved by
showing a closed set, with no induction over the tree.

A second invariant says what the head, the numbers, the caches and the children tell
of the tree:

    TreeInv == IInv /\ BatchIs /\ HeadHeaviest /\ NumberRead /\ CacheAgrees
               /\ NumbersAgree /\ ChildrenAgree

| Theorem | Property |
|---|---|
| `NumbersFollowHead` | `NumbersFollowBest` |
| `HeadIsHeaviest` | `HeaviestIsBest` |
| `CachedNumbersCurrent` | `CachedNumberCurrent` |
| `ChildrenStayListed` | `ChildrenListed` |

`NumbersFollowBest` needs three facts about chains, proved the same way: a chain has one
block of each number (`ChainUnique`), of two of its blocks the lower is in the chain of
the other (`ChainLinear`), and the common number divides two chains (`CommonDivides`), so
that the numbers an import leaves alone are those both chains share. It is
not inductive: `rewind` makes any number's block the head, so each number's entry must lead to
a block whose own chain the lower numbers follow (`NumbersAgree`). What an import writes was computed
some steps before, from the head of then; `BatchIs` says that the head has not moved since.
`HeadHeaviest` covers the step between the details on disk and `m_lastBlockHash`.
`ChildrenAgree` has the copies of the details in the cache, in a reader's hands and in the
batch, since each of them can be written over the one on disk.

### HeaderSync

`HeaderSyncProofs` proves, for any finite sets of peers and blocks, any tree of blocks with any
bodies and bad ends, and any limits (`HeaderAssumption`), `DownloadsAreOwned` and
`ContinuesFromKnown`, the two invariants of `header_sync`. The inductive invariant
(`HeaderInvariant`) is

    HeaderInv == Fit(Now, session) /\ ChainWhole /\ BatchFollows /\ SessionsOpen

| Part | Says |
|---|---|
| `Fit` | the world is well typed, its downloads are owned by the sessions (`Owned`), it continues from a block that is there (`Continues`), and each block in the queue has its parent ahead of it, draining or in the chain (`ParentsAhead`) |
| `ChainWhole` | the database holds whole branches, and the node is never below where it started |
| `BatchFollows` | what the worker has taken out can be added to the chain or is already there, and what it reports as imported is there |
| `SessionsOpen` | a socket is open in a session only |

`DownloadsOwned` is about pairs of a mark and its owner, and every handler touches both: it
releases what the answering peer was asked for, then asks this one and others for
more. A peer may be asked anew only after what it was asked before is released, or its old
marks would be left without the request that stands for them; so the lemmas on
`AskBodies`, `AskGap` and `AskBackwards` start from a world in which the other sessions own all
that is marked (`Fit(w, S \ {p})`), and `ClearPeerDownload` and `ClearGone` lead to one.

`LastImportedKnown` is not inductive because of where the blocks are that it speaks of. A block
leaves the queue by being drained, enacted or rejected, and only if nothing
is lost on the way does it stay known: `ParentsAhead` and `BatchFollows` say that what is
drained can be enacted. `AskBackwards` looks up the node's own block under a number (`numberHash()`),
and that there is one needs a chain without holes whose head never drops (`ChainWhole`). The
search for the common block stops at block 1 without asking whether the node has it: a
node that holds the genesis block alone has not, which is the exception in the property, and
the last disjunct of `Continues`.

The loops of the handlers are folds. `FoldExists` proves once, by the
least number for which it fails, that the function behind a fold exists, `LastOf` what it returns,
and `FoldStays` that a set of worlds which every step keeps is kept by the loop. The step is an element of
a function set in these lemmas, not an operator, which is why they can be instantiated. Each
operator on worlds then has a lemma "fit in, fit out" (`RequestBlocksFit`, `CollectBlocksFit`, ...), each
action one on the invariant, and `NextFit` puts them together.

### Only model-checked

`EveryAnswerCounts` of `HeaderSync`: that a handler makes progress on a full answer depends on
what its folds compute, header by header, and not only on what they keep, which would be an
induction over data; and it is checked where all peers have the same chain.

The liveness properties stay with TLC for good, since they need ENABLED: those of
`client_live`, `CallsReturn` and `CatchesUp`.

## Plan

Done: `BlockQueue`, its abstract specification, its proofs and the refinement;
`ClientSync`, `TransactionQueue`, `TransactionSync`, `ChainDB`, `WorkerThread`, `HeaderSync` and their
proofs. What would come next:

1. `EveryAnswerCounts` as a theorem, for peers of one chain: what `AddHeader` adds, header
   by header.
2. `StateDB`: `OverlayDB::commit` with a failing database; reference counts.
3. `NodeTable` and `Host`: pings, evictions, slots.
4. `Snapshot` download and `GenericFarm`, if they add a question of their own.

## Not modelled, and why

Execution of transactions, tries, RLP, cryptography and the virtual machines
are sequential functions on data: their outcome (a seal is bad, an execution
fails) is a constant of the block here. RPC translates requests into the calls
that the models already make at any time. UPnP, the tools and vendored code
have no state of the node. Each is listed with its reason in `PROJECT.json`.
