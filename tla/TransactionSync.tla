--------------------------- MODULE TransactionSync ---------------------------
(***************************************************************************)
(* How the client keeps its pending block in step with the chain and with  *)
(* the transaction queue: the worker loop of Client.cpp (doWork), and      *)
(* Block::sync, which fills the pending block.                             *)
(*                                                                         *)
(* The queue is TransactionQueue, whose ready and replaced are now the     *)
(* flags its subscribers raise: m_syncTransactionQueue and                 *)
(* m_needStateReset. The worker looks at the flags and at the queue at     *)
(* different times; the verifiers of the queue and the RPC threads change  *)
(* both in between. A node that does not seal; m_postSeal is m_working     *)
(* then wherever it is read.                                               *)
(***************************************************************************)
EXTENDS TransactionQueue

CONSTANTS
    Oversized,      \* transactions of more gas than a block has
    BlockRoom,      \* how many transactions the gas limit of a block lets in
    MaxSync,        \* c_maxSyncTransactions
    MaxEvents,      \* bound: imports, clears and changes of the chain
    MaxSide         \* bound: by how many transactions the live blocks differ
                    \* from the blocks that were imported

ASSUME SyncAssumption ==
    /\ Oversized \subseteq Tx
    /\ BlockRoom \in Nat
    /\ MaxSync \in Nat \ {0}
    /\ MaxEvents \in Nat
    /\ MaxSide \in Nat

VARIABLES
    mined,      \* the transactions of the chain
    base,       \* those of the chain m_working was built on
    behind,     \* m_working is not built on the head of the chain
    working,    \* the transactions m_working has executed (m_transactionSet)
    pc,         \* where the worker is in doWork
    todo,       \* the transactions it will import again
    good,       \* the transactions it will call dropGood for
    list,       \* what Block::sync goes through
    at,         \* where it is in list
    every,      \* every transaction of list so far was executed in this pass
    more,       \* what Block::sync will answer: there is more to do
    events,     \* how often the environment acted
    displaced,  \* history: made room for another, and not imported since
    missed      \* history: not pending when a call of onReady was overwritten

chainVars == <<mined, base, behind>>
passVars == <<list, at, every, more>>
containers == <<current, byHash, byNonce, future, futureSize, known, dropped>>
queueVars == <<containers, ready, replaced>>
syncVars == <<queueVars, chainVars, working, pc, todo, good, passVars, events,
              displaced, missed>>

Steps == {"top", "dead", "good", "resync", "check", "clear", "try", "resyncTx",
          "resubmit", "resubmitTx", "list", "pass", "tooNew", "early", "passed",
          "answer"}

SyncTypeOK ==
    /\ TypeOK
    /\ mined \subseteq Tx /\ base \subseteq Tx /\ working \subseteq Tx
    /\ todo \subseteq Tx /\ good \subseteq Tx
    /\ behind \in BOOLEAN /\ every \in BOOLEAN /\ more \in BOOLEAN
    /\ pc \in Steps
    /\ list \in Seq(Tx)
    /\ at \in Nat
    /\ events \in 0..MaxEvents
    /\ displaced \subseteq Tx /\ missed \subseteq Tx

SyncInit ==
    /\ Init
    /\ mined = {} /\ base = {} /\ behind = FALSE
    /\ working = {}
    /\ pc = "top" /\ todo = {} /\ good = {}
    /\ list = <<>> /\ at = 0 /\ every = FALSE /\ more = FALSE
    /\ events = 0
    /\ displaced = {} /\ missed = {}

-----------------------------------------------------------------------------
(* The state of the accounts                                               *)

\* Transactions a chain can have: every account's nonces from 0, each once.
IsChain(S) ==
    /\ \A t, u \in S : SameSlot(t, u) => t = u
    /\ \A t \in S : \A n \in 0..(Nonce[t] - 1) :
          \E u \in S : Sender[u] = Sender[t] /\ Nonce[u] = n

\* State::getNonce in the pending block, at the sender of t.
NonceRequired(t) == Cardinality({u \in base \cup working : Sender[u] = Sender[t]})

HasRoom == Cardinality(working) < BlockRoom

\* TransactionQueue::waiting, at the sender of t.
Waiting(t) == Cardinality({u \in byNonce \cup future : Sender[u] = Sender[t]})

\* The members of S that none of their account in S go before.
Lowest(S) == {t \in S : \A u \in S : Sender[u] = Sender[t] => Nonce[u] >= Nonce[t]}

-----------------------------------------------------------------------------
(* The other threads                                                       *)

\* What an import leaves in the history: who made room in m_current for whom.
Note(t) ==
    displaced' = (displaced \cup (InSlotsOf(byNonce, {t}) \ {t})) \ {t}

\* ready' is known: a call of onReady wipes out what was missed before.
Unmiss == missed' = IF ready' /\ ~ready THEN {} ELSE missed

\* import(t, Ignore), from a verifier thread or from the RPC. m_onReplaced and
\* m_onReady are called while m_lock is held: the worker cannot look into the
\* queue before the import is complete.
Submit(t) ==
    /\ events < MaxEvents
    /\ Import(t, FALSE)
    /\ Note(t)
    /\ Unmiss
    /\ events' = events + 1
    /\ UNCHANGED <<chainVars, working, pc, todo, good, passVars>>

\* TransactionQueue::clear, from Client::rewind on an RPC thread.
ClearQueue ==
    /\ events < MaxEvents
    /\ Clear
    /\ events' = events + 1
    /\ UNCHANGED <<chainVars, working, pc, todo, good, passVars, displaced, missed>>

-----------------------------------------------------------------------------
(* The worker: the chain                                                   *)

\* import(t, Retry) of one of the transactions to do; those of one block go in
\* the order of their nonces.
ImportAgain(t) ==
    \/ /\ Import(t, TRUE)
       /\ Note(t)
       /\ Unmiss
    \/ /\ ~(Accepted(t, TRUE) /\ ~Overbid(Containers, t))
       /\ UNCHANGED <<queueVars, displaced, missed>>

\* syncBlockQueue: blocks were imported, some of which became live. D are the
\* transactions of the dead blocks, L those of the live ones, which may have been
\* imported earlier, and G those of the blocks imported now (goodTranactions),
\* which may be on a side chain.
ImportBlocks ==
    /\ pc = "top"
    /\ events < MaxEvents
    /\ \E D \in SUBSET mined : \E L \in SUBSET (Tx \ (Oversized \cup (mined \ D))) :
          /\ IsChain(mined \ D)
          /\ IsChain((mined \ D) \cup L)
          /\ mined' = (mined \ D) \cup L
          /\ todo' = D
          /\ \E G \in SUBSET (Tx \ Oversized) :
                /\ Cardinality((L \ G) \cup (G \ L)) <= MaxSide
                /\ good' = G
    /\ behind' = TRUE
    /\ pc' = "dead"
    /\ events' = events + 1
    /\ UNCHANGED <<queueVars, base, working, passVars, displaced, missed>>

\* syncBlockQueue: nothing became part of the chain.
NoBlocks ==
    /\ pc = "top"
    /\ pc' = "check"
    /\ UNCHANGED <<queueVars, chainVars, working, todo, good, passVars, events,
                   displaced, missed>>

\* onDeadBlocks. The dead blocks come newest first: transactions of an account
\* may come in either order.
ResubmitDead ==
    /\ pc = "dead"
    /\ \/ \E t \in todo :
             /\ ImportAgain(t)
             /\ todo' = todo \ {t}
             /\ pc' = pc
       \/ /\ todo = {}
          /\ pc' = "good"
          /\ UNCHANGED <<queueVars, todo, displaced, missed>>
    /\ UNCHANGED <<chainVars, working, good, passVars, events>>

\* onChainChanged: dropGood of what the imported blocks contain.
DropMined ==
    /\ pc = "good"
    /\ \/ \E t \in Lowest(good) :
             /\ DropGood(t)
             /\ Unmiss
             /\ good' = good \ {t}
             /\ pc' = pc
       \/ /\ good = {}
          /\ pc' = "resync"
          /\ UNCHANGED <<queueVars, good, missed>>
    /\ UNCHANGED <<chainVars, working, todo, passVars, events, displaced>>

\* Faulty variant: what was pending stays, on another chain.
RestartInPlace ==
    /\ base' = mined
    /\ behind' = FALSE
    /\ UNCHANGED <<working, todo>>

\* restartMining, up to the transactions of m_postSeal.
Restart ==
    /\ base' = mined
    /\ behind' = FALSE
    /\ working' = {}
    /\ todo' = working

\* onChainChanged: resyncStateFromChain, unless isMajorSyncing().
ResyncAfterImport ==
    /\ pc = "resync"
    /\ \/ behind /\ Restart /\ pc' = "resubmit"
       \/ pc' = "check" /\ UNCHANGED <<base, behind, working, todo>>
    /\ UNCHANGED <<queueVars, mined, good, passVars, events, displaced, missed>>

\* syncTransactionQueue: resyncStateFromChain.
ResyncBeforeList ==
    /\ pc = "resyncTx"
    /\ IF behind
       THEN Restart /\ pc' = "resubmitTx"
       ELSE pc' = "list" /\ UNCHANGED <<base, behind, working, todo>>
    /\ UNCHANGED <<queueVars, mined, good, passVars, events, displaced, missed>>

\* restartMining: what was pending is imported again, and then the worker calls
\* onTransactionQueueReady itself.
Resubmit ==
    /\ pc \in {"resubmit", "resubmitTx"}
    /\ \/ \E t \in Lowest(todo) :
             /\ ImportAgain(t)
             /\ todo' = todo \ {t}
             /\ pc' = pc
       \/ /\ todo = {}
          /\ ready' = TRUE
          /\ Unmiss
          /\ pc' = IF pc = "resubmit" THEN "check" ELSE "list"
          /\ UNCHANGED <<containers, replaced, todo, displaced>>
    /\ UNCHANGED <<chainVars, working, good, passVars, events>>

-----------------------------------------------------------------------------
(* The worker: the pending block                                           *)

\* Faulty variant: m_working keeps what it has executed.
ResetKeepsWorking ==
    /\ pc = "check"
    /\ IF replaced
       THEN pc' = "clear" /\ ready' = TRUE
       ELSE pc' = "try" /\ UNCHANGED ready
    /\ Unmiss
    /\ UNCHANGED <<containers,
                   replaced, working, chainVars, todo, good, passVars, events,
                   displaced>>

\* Faulty variant: does not ask for the pending block to be filled again.
ResetQuietly ==
    /\ pc = "check"
    /\ IF replaced
       THEN pc' = "clear" /\ working' = {}
       ELSE pc' = "try" /\ UNCHANGED working
    /\ UNCHANGED <<queueVars, chainVars, todo, good, passVars, events, displaced,
                   missed>>

\* doWork: if m_needStateReset, resetState().
ResetState ==
    /\ pc = "check"
    /\ IF replaced
       THEN pc' = "clear" /\ working' = {} /\ ready' = TRUE
       ELSE pc' = "try" /\ UNCHANGED <<working, ready>>
    /\ Unmiss
    /\ UNCHANGED <<containers,
                   replaced, chainVars, todo, good, passVars, events, displaced>>

\* doWork: m_needStateReset = false.
ResetDone ==
    /\ pc = "clear"
    /\ replaced' = FALSE
    /\ pc' = "try"
    /\ UNCHANGED <<containers,
                   ready, chainVars, working, todo, good, passVars, events,
                   displaced, missed>>

\* doWork: the compare_exchange of m_syncTransactionQueue.
TakeReady ==
    /\ pc = "try"
    /\ ready
    /\ ready' = FALSE
    /\ pc' = "resyncTx"
    /\ UNCHANGED <<containers,
                   replaced, chainVars, working, todo, good, passVars, events,
                   displaced, missed>>

\* doWork: there is nothing to sync, or isMajorSyncing(), or m_remoteWorking.
SkipSync ==
    /\ pc = "try"
    /\ pc' = "top"
    /\ UNCHANGED <<queueVars, chainVars, working, todo, good, passVars, events,
                   displaced, missed>>

\* Block::sync: topTransactions(c_maxSyncTransactions, m_transactionSet).
ListTop ==
    LET open == Without(current, working)
        top == SubSeq(open, 1, Min({Len(open), MaxSync}))
    IN  /\ pc = "list"
        /\ list' = top
        /\ at' = 1
        /\ every' = TRUE
        /\ more' = (Len(top) = MaxSync)
        /\ pc' = IF top = <<>> THEN "answer" ELSE "pass"
        /\ UNCHANGED <<queueVars, chainVars, working, todo, good, events,
                       displaced, missed>>

\* Block::sync has dealt with list[at].
GoOn(executed) ==
    /\ at' = at + 1
    /\ every' = (every /\ executed)
    /\ pc' = IF at = Len(list) THEN "passed" ELSE "pass"
    /\ UNCHANGED <<chainVars, todo, good, list, more, events, displaced, missed>>

\* TransactionQueue::drop.
DropIfKnown(t) == IF t \in known THEN Drop(t) ELSE UNCHANGED queueVars

\* In m_transactionSet since an earlier pass.
SkipExecuted ==
    /\ pc = "pass"
    /\ list[at] \in working
    /\ GoOn(FALSE)
    /\ UNCHANGED <<queueVars, working>>

\* BlockGasLimitReached, for any block. A transaction far below the price asked
\* is dropped in the same way, before it is executed.
DropOversized ==
    /\ pc = "pass"
    /\ list[at] \in Oversized \ working
    /\ DropIfKnown(list[at])
    /\ GoOn(FALSE)
    /\ UNCHANGED working

\* BlockGasLimitReached: it is left alone.
LeaveForNow ==
    /\ pc = "pass"
    /\ list[at] \notin Oversized \cup working
    /\ ~HasRoom
    /\ GoOn(FALSE)
    /\ UNCHANGED <<queueVars, working>>

\* list[at] is executed as far as the check of its nonce.
NonceSeen ==
    /\ pc = "pass"
    /\ list[at] \notin Oversized \cup working
    /\ HasRoom

\* InvalidNonce, required > got: too old.
DropOld ==
    /\ NonceSeen
    /\ NonceRequired(list[at]) > Nonce[list[at]]
    /\ DropIfKnown(list[at])
    /\ GoOn(FALSE)
    /\ UNCHANGED working

\* InvalidNonce, got > required: waiting() is asked, and its answer compared.
AskWaiting ==
    LET t == list[at]
    IN  /\ NonceSeen
        /\ NonceRequired(t) < Nonce[t]
        /\ pc' = IF Nonce[t] > NonceRequired(t) + Waiting(t) THEN "tooNew" ELSE "early"
        /\ UNCHANGED <<queueVars, chainVars, working, todo, good, passVars,
                       events, displaced, missed>>

DropTooNew ==
    /\ pc = "tooNew"
    /\ DropIfKnown(list[at])
    /\ GoOn(FALSE)
    /\ UNCHANGED working

MakeFuture ==
    /\ pc = "early"
    /\ IF list[at] \in byHash THEN SetFuture(list[at]) ELSE UNCHANGED queueVars
    /\ GoOn(FALSE)
    /\ UNCHANGED working

Execute ==
    /\ NonceSeen
    /\ NonceRequired(list[at]) = Nonce[list[at]]
    /\ working' = working \cup {list[at]}
    /\ GoOn(TRUE)
    /\ UNCHANGED queueVars

\* The end of a pass: past the deadline, or every transaction was executed, or
\* list is gone through again.
PassOver ==
    /\ pc = "passed"
    /\ \/ pc' = "answer" /\ more' = TRUE /\ UNCHANGED <<list, at, every>>
       \/ every /\ pc' = "answer" /\ UNCHANGED passVars
       \/ ~every /\ pc' = "pass" /\ at' = 1 /\ every' = TRUE /\ UNCHANGED <<list, more>>
    /\ UNCHANGED <<queueVars, chainVars, working, todo, good, events, displaced, missed>>

\* syncTransactionQueue: the answer of Block::sync is m_syncTransactionQueue,
\* whatever that was meanwhile. The rest of doWork changes nothing here.
TakeAnswer ==
    /\ pc = "answer"
    /\ ready' = more
    /\ missed' = IF more THEN {} ELSE IF ready THEN ToSet(current) \ working ELSE missed
    /\ list' = <<>> /\ at' = 0 /\ every' = FALSE /\ more' = FALSE
    /\ pc' = "top"
    /\ UNCHANGED <<containers, replaced, chainVars, working, todo, good, events,
                   displaced>>

-----------------------------------------------------------------------------
SyncNext ==
    \/ \E t \in Tx : Submit(t)
    \/ ClearQueue
    \/ ImportBlocks
    \/ NoBlocks
    \/ ResubmitDead
    \/ DropMined
    \/ ResyncAfterImport
    \/ ResyncBeforeList
    \/ Resubmit
    \/ ResetState
    \/ ResetDone
    \/ TakeReady
    \/ SkipSync
    \/ ListTop
    \/ SkipExecuted
    \/ DropOversized
    \/ LeaveForNow
    \/ DropOld
    \/ AskWaiting
    \/ DropTooNew
    \/ MakeFuture
    \/ Execute
    \/ PassOver
    \/ TakeAnswer

SyncSpec == SyncInit /\ [][SyncNext]_syncVars

-----------------------------------------------------------------------------
(* Properties                                                              *)

\* A transaction that made room for another, in the queue, is in the pending
\* block only while m_needStateReset is set. doWork clears the flag after
\* resetState(), not before: a replacement in between is announced in vain, but
\* m_working is empty then and cannot contain what was replaced.
ReplacedLeavesPending == (working \cap displaced # {}) => replaced

\* A current transaction that m_working could execute.
Executable(t) ==
    /\ t \in ToSet(current) \ (working \cup Oversized)
    /\ HasRoom
    /\ NonceRequired(t) = Nonce[t]

\* When the worker is about to wait and m_syncTransactionQueue is clear, no
\* current transaction could be executed, but those whose onReady() came while
\* Block::sync was at work and was overwritten by its answer.
NothingOverlooked ==
    pc = "top" /\ ~ready => \A t \in Tx : Executable(t) => t \in missed

\* "assert(_bc.currentHash() == m_currentBlock.parentHash())", Block::sync: what
\* it executes extends the head, whatever was imported or put off while the node
\* was syncing, and the pending block is a continuation of the chain.
SyncsOnHead ==
    pc \in {"list", "pass", "tooNew", "early", "passed", "answer"} =>
        ~behind /\ IsChain(mined \cup working) /\ mined \cap working = {}
=============================================================================
