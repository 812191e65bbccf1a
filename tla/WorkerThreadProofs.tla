------------------------ MODULE WorkerThreadProofs -------------------------
(***************************************************************************)
(* The safety of the start/stop/terminate handshake of dev::Worker, for    *)
(* any set of calling threads.                                             *)
(***************************************************************************)
EXTENDS WorkerThread, TLAPS

\* While m_state says Started or Stopping the thread is in its round of work.
InRound == state \in {"Started", "Stopping"} => step \in {"run", "left"}

\* The destructor runs alone.
DestructorAlone ==
    destroyer # Nobody => \A d \in Callers \ {destroyer} : call[d] = "none"

IInv == WorkerTypeOK /\ SleepersWait /\ StoppedIsOutOfLoop /\ InRound /\ DestructorAlone

LEMMA InitIInv == Init => IInv
BY CallersAssumption DEF Init, IInv, WorkerTypeOK, SleepersWait, StoppedIsOutOfLoop,
   InRound, DestructorAlone, WorkerState, WorkerSteps, Calls, StopWaiters, Worker

LEMMA NextIInv == IInv /\ [Next]_vars => IInv'
<1> SUFFICES ASSUME IInv, [Next]_vars PROVE IInv'
    OBVIOUS
<1> USE CallersAssumption
    DEF IInv, WorkerTypeOK, SleepersWait, StoppedIsOutOfLoop, InRound, DestructorAlone,
        WorkerState, WorkerSteps, Calls, StopWaiters
<1>1. ASSUME NEW c \in Callers, StartWorking(c) PROVE IInv'
    BY <1>1 DEF StartWorking, AwaitStarted
<1>2. ASSUME NEW c \in Callers, StartWoken(c) PROVE IInv'
    BY <1>2 DEF StartWoken, AwaitStarted
<1>3. ASSUME NEW c \in Callers, StopWorking(c) PROVE IInv'
    BY <1>3 DEF StopWorking
<1>4. ASSUME NEW c \in Callers, StopWoken(c) PROVE IInv'
    BY <1>4 DEF StopWoken
<1>5. ASSUME NEW c \in Callers, BeginDestructor(c) PROVE IInv'
    BY <1>5 DEF BeginDestructor
<1>6. ASSUME NEW c \in Callers, Terminate(c) PROVE IInv'
    BY <1>6 DEF Terminate
<1>7. ASSUME NEW c \in Callers, Join(c) PROVE IInv'
    BY <1>7 DEF Join
<1>8. CASE CheckKilling
    BY <1>8 DEF CheckKilling
<1>9. CASE SetStarted
    BY <1>9 DEF SetStarted
<1>10. CASE WorkLoopEnds
    BY <1>10 DEF WorkLoopEnds
<1>11. CASE WorkThrows
    BY <1>11 DEF WorkThrows
<1>12. CASE AnnounceStopped
    BY <1>12 DEF AnnounceStopped
<1>13. CASE AwaitRestart
    BY <1>13 DEF AwaitRestart
<1>14. CASE UNCHANGED vars
    BY <1>14 DEF vars
<1> QED
    BY <1>1, <1>2, <1>3, <1>4, <1>5, <1>6, <1>7, <1>8, <1>9, <1>10, <1>11, <1>12,
       <1>13, <1>14 DEF Next, ThreadStep, Woken, Destructor

(* The inductive invariant: the two properties below, what the thread is   *)
(* doing in each state, and that destructors run alone.                    *)
THEOREM WorkerInvariant == Spec => []IInv
BY InitIInv, NextIInv, PTL DEF Spec

(* Every variable keeps its type.                                         *)
THEOREM WorkerTypeCorrect == Spec => []WorkerTypeOK
<1>1. IInv => WorkerTypeOK
    BY DEF IInv
<1> QED
    BY <1>1, WorkerInvariant, PTL

(* No change of m_state that a sleeping thread waits for is made without a *)
(* notify_all() (Worker.cpp:37, 54, 76, 106, 122).                         *)
THEOREM NoLostNotify == Spec => []SleepersWait
<1>1. IInv => SleepersWait
    BY DEF IInv
<1> QED
    BY <1>1, WorkerInvariant, PTL

(* When m_state is Stopped the thread is out of its work loop, and whoever *)
(* waits in stopWorking() has the thread on its way there unless it was    *)
(* overtaken by startWorking() (Worker.cpp:106-112).                       *)
THEOREM StoppedMeansOut == Spec => []StoppedIsOutOfLoop
<1>1. IInv => StoppedIsOutOfLoop
    BY DEF IInv
<1> QED
    BY <1>1, WorkerInvariant, PTL
=============================================================================
