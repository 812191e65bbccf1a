----------------------------- MODULE ClientSync -----------------------------
(***************************************************************************)
(* The worker thread of Client and the block queue it serves:              *)
(* Client::doWork, Client::syncBlockQueue and BlockChain::sync, composed   *)
(* with BlockQueue.                                                        *)
(*                                                                         *)
(* A verifier announces work by setting m_syncBlockQueue (m_onReady). The  *)
(* worker takes the flag, drains the queue, imports the blocks one by one, *)
(* reports the bad ones, and sets the flag again to what doneDrain()       *)
(* answered. The other threads run in between.                             *)
(***************************************************************************)
EXTENDS BlockQueue

CONSTANTS
    BadExec,    \* blocks the chain refuses for good: their execution fails
    Flaky,      \* blocks whose execution may meet a state that is not there
    RewindTo    \* the heights the chain may be rewound to, a bound of the model

ASSUME ClientAssumption ==
    /\ BadExec \subseteq Block
    /\ Flaky \subseteq Block
    /\ RewindTo \subseteq Nat

VARIABLES
    syncFlag,   \* m_syncBlockQueue
    phase,      \* where the worker is: idle, or at its next step in sync()
    drained,    \* blocks, in BlockChain::sync(): those still to import
    badBlocks,  \* badBlocks, in BlockChain::sync()
    more,       \* what doneDrain() returned
    stored,     \* the blocks in the chain's database: isKnown(b, false)
    dropped,    \* history: blocks sync() skipped without reporting them
    missed      \* history: how m_verified came to wait with no announcement

clientVars == <<syncFlag, phase, drained, badBlocks, more, stored, dropped, missed>>
bqVars == vars
allVars == <<bqVars, clientVars>>

ClientInit ==
    /\ Init
    /\ syncFlag = FALSE
    /\ phase = "idle"
    /\ drained = <<>>
    /\ badBlocks = {}
    /\ more = FALSE
    /\ stored = {Genesis}
    /\ dropped = {}
    /\ missed = {}

-----------------------------------------------------------------------------
(* The worker: doWork()                                                    *)

\* compare_exchange_strong(true, false) in doWork() succeeds.
TakeFlag ==
    /\ phase = "idle"
    /\ todo = {}
    /\ ~deleting
    /\ syncFlag
    /\ syncFlag' = FALSE
    /\ phase' = "drain"
    /\ UNCHANGED <<bqVars, drained, badBlocks, more, stored, dropped, missed>>

\* drain(blocks, m_syncAmount).
SyncDrain(max) ==
    /\ phase = "drain"
    /\ Drain(max)
    /\ drained' = SubSeq(verified, 1, Len(verified) - Len(verified'))
    /\ badBlocks' = {}
    /\ phase' = "import"
    /\ missed' = IF verified' = <<>> THEN {} ELSE missed
    /\ UNCHANGED <<syncFlag, more, stored, dropped>>

\* The loop of sync() goes on to the next block.
NextDrained ==
    /\ phase = "import"
    /\ drained # <<>>
    /\ drained' = Tail(drained)
    /\ UNCHANGED <<syncFlag, phase, more, missed>>

ChainUnchanged == UNCHANGED <<bqVars, stored>>

AlreadyHaveBlock ==
    /\ NextDrained
    /\ Head(drained) \in chain
    /\ UNCHANGED <<badBlocks, dropped>>
    /\ ChainUnchanged

\* Faulty variant: the parent has to be current.
UnknownParentCurrent ==
    /\ NextDrained
    /\ Head(drained) \notin chain
    /\ Parent[Head(drained)] \notin chain
    /\ badBlocks' = badBlocks \cup {Head(drained)}
    /\ UNCHANGED dropped
    /\ ChainUnchanged

\* The parent "doesn't have to be current": one above a rewound head will do.
UnknownParent ==
    /\ NextDrained
    /\ Head(drained) \notin chain
    /\ Parent[Head(drained)] \notin stored
    /\ badBlocks' = badBlocks \cup {Head(drained)}
    /\ UNCHANGED dropped
    /\ ChainUnchanged

ParentKnown == Head(drained) \notin chain /\ Parent[Head(drained)] \in stored

\* The block is skipped: neither imported nor reported nor queued again.
FutureTime ==
    /\ NextDrained
    /\ ParentKnown
    /\ Timestamp[Head(drained)] > now
    /\ dropped' = dropped \cup {Head(drained)}
    /\ UNCHANGED badBlocks
    /\ ChainUnchanged

\* BadRoot becomes TransientError, "Attempt in import later", and is skipped
\* like the above.
TransientError ==
    /\ NextDrained
    /\ ParentKnown
    /\ Timestamp[Head(drained)] <= now
    /\ Head(drained) \in Flaky
    /\ dropped' = dropped \cup {Head(drained)}
    /\ UNCHANGED badBlocks
    /\ ChainUnchanged

\* Any other exception.
ExecutionFails ==
    /\ NextDrained
    /\ ParentKnown
    /\ Timestamp[Head(drained)] <= now
    /\ Head(drained) \in BadExec
    /\ badBlocks' = badBlocks \cup {Head(drained)}
    /\ UNCHANGED dropped
    /\ ChainUnchanged

\* The heights of blocks, and of the head: difficulty grows with height here.
Number[b \in Block \cup {Genesis}] == IF b = Genesis THEN 0 ELSE Number[Parent[b]] + 1
LastNumber == Max({Number[b] : b \in chain})

\* isKnown(b): stored, and no higher than the head.
UpTo(n, blocks) == {b \in blocks : Number[b] <= n}

\* insertBlockAndExtras(). The block becomes the head if it is higher.
Inserted ==
    /\ NextDrained
    /\ ParentKnown
    /\ Timestamp[Head(drained)] <= now
    /\ Head(drained) \notin BadExec
    /\ stored' = stored \cup {Head(drained)}
    /\ chain' = UpTo(Max({LastNumber, Number[Head(drained)]}), stored')
    /\ UNCHANGED <<badBlocks, dropped, setVars, waitVars, todo, queueVars,
                   difficultyVars, threadVars, now, forced>>

ImportOne ==
    \/ AlreadyHaveBlock
    \/ UnknownParent
    \/ FutureTime
    \/ TransientError
    \/ ExecutionFails
    \/ Inserted

\* Faulty variant: looks at m_unverified only.
SyncDoneUnverifiedOnly ==
    /\ phase = "import"
    /\ drained = <<>>
    /\ DoneDrain(badBlocks)
    /\ more' = (unverified' # <<>>)
    /\ phase' = "assign"
    /\ missed' = IF verified' = <<>> THEN {} ELSE missed
    /\ UNCHANGED <<syncFlag, drained, badBlocks, stored, dropped>>

\* doneDrain(badBlocks), which answers whether anything is in the queue.
SyncDone ==
    /\ phase = "import"
    /\ drained = <<>>
    /\ DoneDrain(badBlocks)
    /\ more' = (readySet' # {})
    /\ phase' = "assign"
    /\ missed' = IF verified' = <<>> THEN {} ELSE missed
    /\ UNCHANGED <<syncFlag, drained, badBlocks, stored, dropped>>

\* m_syncBlockQueue is assigned the answer, whatever was put there meanwhile.
AssignFlag ==
    /\ phase = "assign"
    /\ syncFlag' = more
    /\ phase' = "idle"
    /\ missed' = IF ~more /\ syncFlag /\ verified # <<>>
                 THEN missed \cup {"overwritten"}
                 ELSE missed
    /\ UNCHANGED <<bqVars, drained, badBlocks, more, stored, dropped>>

Sync ==
    \/ TakeFlag
    \/ \E max \in 1..MaxDrain : SyncDrain(max)
    \/ ImportOne
    \/ SyncDone
    \/ AssignFlag

\* tick(), by the same thread.
ClientTick ==
    /\ phase = "idle"
    /\ ~deleting
    /\ TickTake \/ \E b \in Block : TickImport(b)
    /\ UNCHANGED clientVars

\* The function that Client::rewind() has the worker call. The blocks above the
\* new head stay in the database and are not current any more; the clear() that
\* ends rewind() comes later, on the caller's thread.
Rewind(n) ==
    /\ phase = "idle"
    /\ todo = {}
    /\ ~deleting
    /\ n < LastNumber
    /\ chain' = UpTo(n, stored)
    /\ UNCHANGED <<setVars, waitVars, todo, queueVars, difficultyVars, threadVars,
                   now, forced, clientVars>>

-----------------------------------------------------------------------------
(* The other threads                                                       *)

\* The failed verification of v fills m_verified and calls nobody.
FailureFillsVerified(v) ==
    /\ pc[v] = "busy"
    /\ pc'[v] = "idle"
    /\ verified = <<>>
    /\ verified' # <<>>

\* Faulty variant: onBlockQueueReady() forgets the flag.
VerifierForgetsFlag(v) ==
    /\ VerifierStep(v)
    /\ missed' = IF FailureFillsVerified(v) THEN missed \cup {"failed"} ELSE missed
    /\ UNCHANGED <<syncFlag, phase, drained, badBlocks, more, stored, dropped>>

\* A verifier thread; its m_onReady() is onBlockQueueReady().
VerifierAndClient(v) ==
    /\ VerifierStep(v)
    /\ syncFlag' = (syncFlag \/ pc[v] = "notify")
    /\ missed' = IF FailureFillsVerified(v) THEN missed \cup {"failed"} ELSE missed
    /\ UNCHANGED <<phase, drained, badBlocks, more, stored, dropped>>

\* clear(), by BlockChainSync::restartSync() on the network thread, or at the end
\* of Client::rewind() on its caller's thread, at any time.
ClearMeanwhile ==
    /\ Clear
    /\ missed' = {}
    /\ UNCHANGED <<syncFlag, phase, drained, badBlocks, more, stored, dropped>>

\* Client::~Client() joins the worker before the queue goes.
StopAfterWorker ==
    /\ phase = "idle"
    /\ todo = {}
    /\ Stop
    /\ UNCHANGED clientVars

OtherThreads ==
    \/ \E b \in Block : \E isOurs \in BOOLEAN :
          Import(b, isOurs) /\ UNCHANGED <<todo, clientVars>>
    \/ RetryAllUnknown /\ UNCHANGED clientVars
    \/ ClockTick /\ UNCHANGED clientVars
    \/ ClearMeanwhile
    \/ StopAfterWorker
    \/ \E v \in Verifier : VerifierAndClient(v)

ClientNext ==
    \/ Sync
    \/ ClientTick
    \/ \E n \in RewindTo : Rewind(n)
    \/ OtherThreads

\* The worker goes round its loop at least once a second (wait_for), its two
\* parts in turn, and every verifier thread runs.
ClientFairness ==
    /\ WF_allVars(Sync)
    /\ WF_allVars(ClientTick)
    /\ \A v \in Verifier : WF_allVars(VerifierAndClient(v))

ClientSpec == ClientInit /\ [][ClientNext]_allVars /\ ClientFairness

-----------------------------------------------------------------------------
(* Properties                                                              *)

\* Only four things make a block bad: its seal, its execution, a bad parent,
\* and a parent that is missing, because sync() skipped it (FutureTime,
\* TransientError) or retryAllUnknown() did not wait for it. Nothing else that
\* goes wrong for a while may end in m_knownBad, from which no code removes, and
\* neither may a rewind under the queue.
KnownBadJustified ==
    \A b \in knownBad :
        \/ b \in BadSeal \cup BadExec \cup forced
        \/ Parent[b] \in knownBad \cup dropped

\* Verified blocks never wait unnoticed: the flag is set, or the worker is at
\* a step that will look at the queue again, or a verifier is about to set the
\* flag. The two ways to miss them are the failed verification that announces
\* nothing and the assignment that overwrites an announcement.
VerifiedAnnounced ==
    verified # <<>> /\ missed = {} =>
        \/ syncFlag
        \/ phase \in {"drain", "import"}
        \/ phase = "assign" /\ more
        \/ \E v \in Verifier : pc[v] = "notify"

\* m_syncBlockQueue is set when m_bq needs syncing: verified blocks are taken,
\* until the client stops.
VerifiedTaken ==
    \A b \in Block :
        b \in ToSet(verified) ~> (b \notin ToSet(verified) \/ missed # {} \/ deleting)
=============================================================================
