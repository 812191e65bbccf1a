---------------------------- MODULE WorkerThread ----------------------------
(***************************************************************************)
(* dev::Worker, the base class of Client and Host: a thread that is        *)
(* started, stopped and started again by calls from other threads, and     *)
(* joined by terminate().  Every section under x_work is one action; a     *)
(* thread in m_state_notifier.wait() is in `asleep', which notify_all()    *)
(* empties, and looks at m_state again when it has the lock.               *)
(***************************************************************************)
CONSTANTS
    Callers,    \* threads that call startWorking(), stopWorking(), terminate()
    Nobody      \* not a caller

Worker == "worker"      \* the thread of m_work, in `asleep'

ASSUME CallersAssumption == Nobody \notin Callers /\ Worker \notin Callers

VARIABLES
    state,      \* m_state
    step,       \* where the thread of m_work is, "none" without m_work
    call,       \* the call each caller is in
    asleep,     \* callers and the worker waiting on m_state_notifier
    destroyer,  \* the caller running the destructor
    overtaken   \* history: callers whose stopWorking() met a startWorking()

vars == <<state, step, call, asleep, destroyer, overtaken>>

WorkerState == {"Starting", "Started", "Stopping", "Stopped", "Killing"}
WorkerSteps == {"none", "check", "set", "run", "left", "wait", "exited"}
Calls == {"none", "startWorking", "stopWorking", "terminate"}

Init ==
    /\ state = "Starting" /\ step = "none"
    /\ call = [c \in Callers |-> "none"]
    /\ asleep = {} /\ destroyer = Nobody /\ overtaken = {}

---------------------------------------------------------------------------
(* The callers.  Calls that return at once and change nothing have no      *)
(* action: stopWorking() unless Started, terminate() without m_work.       *)

\* The tail of startWorking(): sleep while the state is Starting.
AwaitStarted(c, woken) ==
    /\ call' = [call EXCEPT ![c] = IF state' = "Starting" THEN "startWorking" ELSE "none"]
    /\ asleep' = woken \cup IF state' = "Starting" THEN {c} ELSE {}

StopWaiters == {d \in Callers : call[d] = "stopWorking"}

StartWorking(c) ==
    /\ call[c] = "none" /\ destroyer = Nobody
    /\ \/ /\ step # "none"
          /\ state' = IF state = "Stopped" THEN "Starting" ELSE state
          /\ overtaken' = IF state = "Stopped" THEN overtaken \cup StopWaiters ELSE overtaken
          /\ UNCHANGED step
       \/ /\ step = "none"
          /\ state' = "Starting" /\ step' = "check"
          /\ UNCHANGED overtaken
    /\ AwaitStarted(c, {})
    /\ UNCHANGED destroyer

StartWoken(c) ==
    /\ call[c] = "startWorking" /\ c \notin asleep
    /\ UNCHANGED state
    /\ AwaitStarted(c, asleep)
    /\ UNCHANGED <<step, destroyer, overtaken>>

StopWorking(c) ==
    /\ call[c] = "none" /\ destroyer \in {Nobody, c}
    /\ step # "none" /\ state = "Started"
    /\ state' = "Stopping"
    /\ call' = [call EXCEPT ![c] = "stopWorking"]
    /\ asleep' = {c}
    /\ UNCHANGED <<step, destroyer, overtaken>>

StopWoken(c) ==
    /\ call[c] = "stopWorking" /\ c \notin asleep
    /\ \/ /\ state = "Stopped"
          /\ call' = [call EXCEPT ![c] = "none"]
          /\ overtaken' = overtaken \ {c}
          /\ UNCHANGED asleep
       \/ /\ state # "Stopped"
          /\ asleep' = asleep \cup {c}
          /\ UNCHANGED <<call, overtaken>>
    /\ UNCHANGED <<state, step, destroyer>>

\* The destructor of the derived class: nobody else is in a call of the object.
BeginDestructor(c) ==
    /\ destroyer = Nobody
    /\ \A d \in Callers : call[d] = "none"
    /\ destroyer' = c
    /\ UNCHANGED <<state, step, call, asleep, overtaken>>

Terminate(c) ==
    /\ destroyer = c /\ call[c] = "none"
    /\ step # "none" /\ state # "Killing"
    /\ state' = "Killing"
    /\ call' = [call EXCEPT ![c] = "terminate"]
    /\ asleep' = {}
    /\ UNCHANGED <<step, destroyer, overtaken>>

\* m_work->join() and m_work.reset().
Join(c) ==
    /\ call[c] = "terminate" /\ step = "exited"
    /\ step' = "none"
    /\ call' = [call EXCEPT ![c] = "none"]
    /\ UNCHANGED <<state, asleep, destroyer, overtaken>>

---------------------------------------------------------------------------
(* The thread.                                                             *)

CheckKilling ==
    /\ step = "check"
    /\ step' = IF state = "Killing" THEN "exited" ELSE "set"
    /\ UNCHANGED <<state, call, asleep, destroyer, overtaken>>

\* A plausible fault: see the mutants.
SetStartedSilently ==
    /\ step = "set"
    /\ state' = "Started" /\ step' = "run" /\ UNCHANGED asleep
    /\ UNCHANGED <<call, destroyer, overtaken>>

SetStarted ==
    /\ step = "set"
    /\ state' = "Started" /\ step' = "run" /\ asleep' = {}
    /\ UNCHANGED <<call, destroyer, overtaken>>

\* A plausible fault: see the mutants.
StopReportedEarly ==
    /\ step = "run" /\ state # "Started"
    /\ step' = "left"
    /\ state' = IF state = "Stopping" THEN "Stopped" ELSE state
    /\ asleep' = {}
    /\ UNCHANGED <<call, destroyer, overtaken>>

\* workLoop() sees another state, after the doWork() it is in.
WorkLoopEnds ==
    /\ step = "run" /\ state # "Started"
    /\ step' = "left"
    /\ UNCHANGED <<state, call, asleep, destroyer, overtaken>>

\* startedWorking(), doWork() or doneWorking() throws.
WorkThrows ==
    /\ step = "run"
    /\ step' = "left"
    /\ UNCHANGED <<state, call, asleep, destroyer, overtaken>>

\* A plausible fault: see the mutants.
AnnounceOverKilling ==
    /\ step = "left"
    /\ state' = "Stopped" /\ step' = "wait" /\ asleep' = {}
    /\ UNCHANGED <<call, destroyer, overtaken>>

AnnounceStopped ==
    /\ step = "left"
    /\ state' = IF state \in {"Killing", "Starting"} THEN state ELSE "Stopped"
    /\ step' = "wait" /\ asleep' = {}
    /\ UNCHANGED <<call, destroyer, overtaken>>

AwaitRestart ==
    /\ step = "wait" /\ Worker \notin asleep
    /\ \/ /\ state = "Stopped" /\ asleep' = asleep \cup {Worker} /\ UNCHANGED step
       \/ /\ state # "Stopped" /\ step' = "check" /\ UNCHANGED asleep
    /\ UNCHANGED <<state, call, destroyer, overtaken>>

---------------------------------------------------------------------------
ThreadStep ==
    CheckKilling \/ SetStarted \/ WorkLoopEnds \/ AnnounceStopped \/ AwaitRestart

Woken(c) == StartWoken(c) \/ StopWoken(c) \/ Join(c)

Destructor(c) ==
    \/ BeginDestructor(c)
    \/ Terminate(c)

Next ==
    \/ \E c \in Callers : StartWorking(c) \/ StopWorking(c) \/ Woken(c) \/ Destructor(c)
    \/ ThreadStep
    \/ WorkThrows

Fairness ==
    /\ WF_vars(ThreadStep)
    /\ \A c \in Callers : WF_vars(Woken(c))

Spec == Init /\ [][Next]_vars /\ Fairness

---------------------------------------------------------------------------
WorkerTypeOK ==
    /\ state \in WorkerState /\ step \in WorkerSteps
    /\ call \in [Callers -> Calls]
    /\ asleep \subseteq Callers \cup {Worker}
    /\ destroyer \in Callers \cup {Nobody} /\ overtaken \subseteq Callers

(* Whoever is asleep still waits for something: no change of m_state that  *)
(* a thread waits for is made without waking it (Worker.cpp:37, 54, 76,    *)
(* 106, 122: each assignment and its notify_all()).                        *)
SleepersWait ==
    /\ Worker \in asleep => step = "wait" /\ state = "Stopped"
    /\ \A c \in asleep \cap Callers :
          \/ call[c] = "startWorking" /\ state = "Starting"
          \/ call[c] = "stopWorking" /\ state # "Stopped"

(* When m_state is Stopped the thread is out of its work loop, so whoever  *)
(* waited in stopWorking() may take apart what doWork() uses               *)
(* (Client::reopenChain); and a caller still waiting there has a thread on *)
(* the way to Stopped, unless a startWorking() of another thread overtook  *)
(* it (Worker.cpp:37 against 111).                                         *)
StoppedIsOutOfLoop ==
    /\ state = "Stopped" => step = "wait"
    /\ \A c \in StopWaiters \ overtaken :
          state \in {"Stopping", "Stopped"} /\ step \in {"run", "left", "wait"}

(* Every startWorking() and terminate() returns, and every stopWorking()   *)
(* that no startWorking() overtook, once no new startWorking() comes: while*)
(* they keep coming, a caller may look at m_state each time it is Starting *)
(* again (Worker.cpp:96, 111, 127).                                        *)
CallsReturn ==
    <>[][~\E c \in Callers : StartWorking(c)]_vars =>
        \A c \in Callers : call[c] # "none" ~> (call[c] = "none" \/ c \in overtaken)

=============================================================================
