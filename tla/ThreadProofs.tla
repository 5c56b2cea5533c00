---------------------------- MODULE ThreadProofs ----------------------------
(***************************************************************************)
(* Theorems about class Thread, for every value of the constants: whether  *)
(* or not run() ends alone or can be cancelled, whether or not the owner   *)
(* joins before it starts again, and whether or not a thread can always be *)
(* created.  One step per action; the invariant is IInv of module Thread.  *)
(***************************************************************************)
EXTENDS Thread, TLAPS

\* Every step keeps every variable in its type: those of the owner, the pthread's,
\* the flags, and the mutexes.
LEMMA NextTypeOK == ASSUME TypeOK, [Next]_vars PROVE TypeOK'
<1> DEFINE OwnerOK == pc \in OwnerPCs /\ call \in Calls /\ result \in Results
           WorkerOK == /\ worker \in WorkerPCs /\ cancelled \in BOOLEAN
                       /\ m_thread \in {"null", "joinable"}
           FlagsOK == /\ started \in BOOLEAN /\ m_running \in BOOLEAN
                      /\ m_request_stop \in BOOLEAN
           MutexesOK == /\ continuemutex \in {"free", "owner", "worker"}
                        /\ continuemutex2 \in {"free", "owner", "worker"}
<1>1. OwnerOK /\ WorkerOK /\ FlagsOK /\ MutexesOK
  BY DEF TypeOK
<1>2. OwnerOK'
  <2>1. CASE Start
    BY ONLY <1>1, <2>1 DEF Start, OwnerPCs, StartPCs, Calls, Results, StartRefused, StartCall, StartReset, StartLock, Create,
       CreateOverJoinable, CreateThrows, SpinDone, StartUnlock, StartLock2, StartDone,
       Return,
       vars, ownerVars, workerVars, flags, mutexes
  <2>2. CASE Finish
    BY ONLY <1>1, <2>2 DEF Finish, OwnerPCs, StartPCs, Calls, Results, WaitCall, StopAndWaitCall, KillCall, KillCancel, WaitNothing,
       WaitBlocks, Join, KillClear, Destroy, Return, Waited,
       vars, ownerVars, workerVars, flags, mutexes
  <2>3. CASE Worker
    BY ONLY <1>1, <2>3 DEF Worker, OwnerPCs, StartPCs, Calls, Results, WorkerLock2, WorkerFlag, WorkerGate, WorkerPass, ThreadStarted,
       RunReturns, RunCancelled, WorkerLeaves,
       vars, ownerVars, workerVars, flags, mutexes
  <2>4. CASE Stop \/ UNCHANGED vars
    BY ONLY <1>1, <2>4 DEF Stop, vars, ownerVars, workerVars, flags, mutexes
  <2> QED
    BY <2>1, <2>2, <2>3, <2>4 DEF Next, Owner, Gone
<1>3. WorkerOK'
  <2>1. CASE Start
    BY ONLY <1>1, <2>1 DEF Start, WorkerPCs, Booting, InRun, StartRefused, StartCall, StartReset, StartLock, Create,
       CreateOverJoinable, CreateThrows, SpinDone, StartUnlock, StartLock2, StartDone,
       Return,
       vars, ownerVars, workerVars, flags, mutexes
  <2>2. CASE Finish
    BY ONLY <1>1, <2>2 DEF Finish, WorkerPCs, Booting, InRun, WaitCall, StopAndWaitCall, KillCall, KillCancel, WaitNothing,
       WaitBlocks, Join, KillClear, Destroy, Return, Waited,
       vars, ownerVars, workerVars, flags, mutexes
  <2>3. CASE Worker
    BY ONLY <1>1, <2>3 DEF Worker, WorkerPCs, Booting, InRun, WorkerLock2, WorkerFlag, WorkerGate, WorkerPass, ThreadStarted,
       RunReturns, RunCancelled, WorkerLeaves,
       vars, ownerVars, workerVars, flags, mutexes
  <2>4. CASE Stop \/ UNCHANGED vars
    BY ONLY <1>1, <2>4 DEF Stop, vars, ownerVars, workerVars, flags, mutexes
  <2> QED
    BY <2>1, <2>2, <2>3, <2>4 DEF Next, Owner, Gone
<1>4. FlagsOK'
  <2>1. CASE Start
    BY ONLY <1>1, <2>1 DEF Start, StartRefused, StartCall, StartReset, StartLock, Create,
       CreateOverJoinable, CreateThrows, SpinDone, StartUnlock, StartLock2, StartDone,
       Return,
       vars, ownerVars, workerVars, flags, mutexes
  <2>2. CASE Finish
    BY ONLY <1>1, <2>2 DEF Finish, WaitCall, StopAndWaitCall, KillCall, KillCancel, WaitNothing,
       WaitBlocks, Join, KillClear, Destroy, Return, Waited,
       vars, ownerVars, workerVars, flags, mutexes
  <2>3. CASE Worker
    BY ONLY <1>1, <2>3 DEF Worker, WorkerLock2, WorkerFlag, WorkerGate, WorkerPass, ThreadStarted,
       RunReturns, RunCancelled, WorkerLeaves,
       vars, ownerVars, workerVars, flags, mutexes
  <2>4. CASE Stop \/ UNCHANGED vars
    BY ONLY <1>1, <2>4 DEF Stop, vars, ownerVars, workerVars, flags, mutexes
  <2> QED
    BY <2>1, <2>2, <2>3, <2>4 DEF Next, Owner, Gone
<1>5. MutexesOK'
  <2>1. CASE Start
    BY ONLY <1>1, <2>1 DEF Start, StartRefused, StartCall, StartReset, StartLock, Create,
       CreateOverJoinable, CreateThrows, SpinDone, StartUnlock, StartLock2, StartDone,
       Return,
       vars, ownerVars, workerVars, flags, mutexes
  <2>2. CASE Finish
    BY ONLY <1>1, <2>2 DEF Finish, WaitCall, StopAndWaitCall, KillCall, KillCancel, WaitNothing,
       WaitBlocks, Join, KillClear, Destroy, Return, Waited,
       vars, ownerVars, workerVars, flags, mutexes
  <2>3. CASE Worker
    BY ONLY <1>1, <2>3 DEF Worker, WorkerLock2, WorkerFlag, WorkerGate, WorkerPass, ThreadStarted,
       RunReturns, RunCancelled, WorkerLeaves,
       vars, ownerVars, workerVars, flags, mutexes
  <2>4. CASE Stop \/ UNCHANGED vars
    BY ONLY <1>1, <2>4 DEF Stop, vars, ownerVars, workerVars, flags, mutexes
  <2> QED
    BY <2>1, <2>2, <2>3, <2>4 DEF Next, Owner, Gone
<1> QED
  BY <1>2, <1>3, <1>4, <1>5 DEF TypeOK

\* No step of the owner inside start() breaks the coherence of the object.
LEMMA StartCoherent ==
  ASSUME TypeOK, Coherent, pc # "terminate", Start
  PROVE  pc' # "terminate" => Coherent'
<1> USE DEF Coherent, CallMatchesPlace, WorkerMatchesPlace, MutexesMatchPlace,
        HandleIsStarted, RunningMatchesWorker,
        StartPCs, Booting, InRun, Settled,
        ownerVars, workerVars, flags, mutexes
<1>0. /\ m_thread \in {"null", "joinable"}
      /\ started \in BOOLEAN /\ m_running \in BOOLEAN /\ cancelled \in BOOLEAN
  BY DEF TypeOK
<1>1. CASE StartRefused
  BY <1>0, <1>1 DEF StartRefused
<1>2. CASE StartCall
  BY <1>0, <1>2 DEF StartCall
<1>3. CASE StartReset
  BY <1>0, <1>3 DEF StartReset
<1>4. CASE StartLock
  BY <1>0, <1>4 DEF StartLock
<1>5. CASE Create
  BY <1>0, <1>5 DEF Create
<1>6. CASE CreateOverJoinable
  BY <1>0, <1>6 DEF CreateOverJoinable
<1>7. CASE CreateThrows
  BY <1>0, <1>7 DEF CreateThrows, Return
<1>8. CASE SpinDone
  BY <1>0, <1>8 DEF SpinDone
<1>9. CASE StartUnlock
  BY <1>0, <1>9 DEF StartUnlock
<1>10. CASE StartLock2
  BY <1>0, <1>10 DEF StartLock2
<1>11. CASE StartDone
  BY <1>0, <1>11 DEF StartDone, Return
<1> QED
  BY <1>1, <1>2, <1>3, <1>4, <1>5, <1>6, <1>7, <1>8, <1>9, <1>10, <1>11 DEF Start

\* No step of the owner inside wait(), kill() or ~Thread() does.
LEMMA FinishCoherent ==
  ASSUME TypeOK, Coherent, pc # "terminate", Finish
  PROVE  pc' # "terminate" => Coherent'
<1> USE DEF Coherent, CallMatchesPlace, WorkerMatchesPlace, MutexesMatchPlace,
        HandleIsStarted, RunningMatchesWorker,
        StartPCs, Booting, InRun, Settled,
        ownerVars, workerVars, flags, mutexes
<1>0. /\ m_thread \in {"null", "joinable"}
      /\ started \in BOOLEAN /\ m_running \in BOOLEAN /\ cancelled \in BOOLEAN
  BY DEF TypeOK
<1>1. CASE WaitCall
  BY <1>0, <1>1 DEF WaitCall
<1>2. CASE StopAndWaitCall
  BY <1>0, <1>2 DEF StopAndWaitCall
<1>3. CASE \E c \in {"kill", "destroy"} : KillCall(c)
  BY <1>0, <1>3 DEF KillCall
<1>4. CASE KillCancel
  BY <1>0, <1>4 DEF KillCancel
<1>5. CASE WaitNothing
  BY <1>0, <1>5 DEF WaitNothing, Return
<1>6. CASE WaitBlocks
  BY <1>0, <1>6 DEF WaitBlocks
<1>7. CASE Join
  BY <1>0, <1>7 DEF Join, Return
<1>8. CASE KillClear
  BY <1>0, <1>8 DEF KillClear, Return
<1>9. CASE Destroy
  BY <1>0, <1>9 DEF Destroy
<1> QED
  BY <1>1, <1>2, <1>3, <1>4, <1>5, <1>6, <1>7, <1>8, <1>9 DEF Finish

\* No step of the pthread does.
LEMMA WorkerCoherent ==
  ASSUME TypeOK, Coherent, pc # "terminate", Worker
  PROVE  pc' # "terminate" => Coherent'
<1> USE DEF Coherent, CallMatchesPlace, WorkerMatchesPlace, MutexesMatchPlace,
        HandleIsStarted, RunningMatchesWorker,
        StartPCs, Booting, InRun, Settled,
        ownerVars, workerVars, flags, mutexes
<1>0. /\ m_thread \in {"null", "joinable"}
      /\ started \in BOOLEAN /\ m_running \in BOOLEAN /\ cancelled \in BOOLEAN
  BY DEF TypeOK
<1>1. CASE WorkerLock2
  BY <1>0, <1>1 DEF WorkerLock2, At
<1>2. CASE WorkerFlag
  BY <1>0, <1>2 DEF WorkerFlag, At
<1>3. CASE WorkerGate
  BY <1>0, <1>3 DEF WorkerGate, At
<1>4. CASE WorkerPass
  BY <1>0, <1>4 DEF WorkerPass, At
<1>5. CASE ThreadStarted
  BY <1>0, <1>5 DEF ThreadStarted, At
<1>6. CASE RunReturns
  BY <1>0, <1>6 DEF RunReturns, At
<1>7. CASE RunCancelled
  BY <1>0, <1>7 DEF RunCancelled
<1>8. CASE WorkerLeaves
  BY <1>0, <1>8 DEF WorkerLeaves, At
<1> QED
  BY <1>1, <1>2, <1>3, <1>4, <1>5, <1>6, <1>7, <1>8 DEF Worker

\* The process is terminated only by a start() over a thread that ended and
\* was never joined.
LEMMA TerminateStep ==
  ASSUME TypeOK, Coherent, pc # "terminate", [Next]_vars, pc' = "terminate"
  PROVE  Terminated'
<1> USE DEF vars, ownerVars, workerVars, flags, mutexes
<1>1. m_thread \in {"null", "joinable"} /\ m_running \in BOOLEAN
      /\ JoinsFirst \in BOOLEAN
  BY ThreadAssumption DEF TypeOK
<1>2. CASE Start
  <2>1. CreateOverJoinable
    BY <1>2 DEF Start, StartRefused, StartCall, StartReset, StartLock, Create,
       CreateThrows, SpinDone, StartUnlock, StartLock2, StartDone, Return
  <2> QED
    BY <1>1, <2>1 DEF CreateOverJoinable, Coherent, WorkerMatchesPlace,
       HandleIsStarted, RunningMatchesWorker, Terminated
<1>3. CASE Finish
  <2>1. Destroy
    BY <1>3 DEF Finish, WaitCall, StopAndWaitCall, KillCall, KillCancel,
       WaitNothing, WaitBlocks, Join, KillClear, Return
  <2> QED
    BY <2>1 DEF Destroy, Coherent, HandleIsStarted
<1>4. CASE Worker
  BY <1>4 DEF Worker, WorkerLock2, WorkerFlag, WorkerGate, WorkerPass,
     ThreadStarted, RunReturns, RunCancelled, WorkerLeaves
<1>5. CASE Stop \/ UNCHANGED vars
  BY <1>5 DEF Stop
<1> QED
  BY <1>2, <1>3, <1>4, <1>5 DEF Next, Owner, Gone

\* Every step, also stop() from another thread, keeps the invariant.
LEMMA NextIInv == ASSUME IInv, [Next]_vars PROVE IInv'
<1>1. TypeOK'
  BY NextTypeOK DEF IInv
<1>2. CASE pc = "terminate"
  <2>1. pc' = "terminate" /\ UNCHANGED <<worker, call, m_running>>
    BY <1>2 DEF Next, Owner, Start, Finish, Worker, Stop, Gone, At, Alive,
       StartRefused, StartCall, StartReset, StartLock, Create,
       CreateOverJoinable, CreateThrows, SpinDone, StartUnlock, StartLock2,
       StartDone, WaitCall, StopAndWaitCall, KillCall, KillCancel,
       WaitNothing, WaitBlocks, Join, KillClear, Destroy,
       WorkerLock2, WorkerFlag, WorkerGate, WorkerPass, ThreadStarted,
       RunReturns, RunCancelled, WorkerLeaves,
       vars, ownerVars, workerVars, flags
  <2> QED
    BY <1>1, <1>2, <2>1 DEF IInv, Terminated
<1>3. CASE pc # "terminate"
  <2>1. TypeOK /\ Coherent
    BY <1>3 DEF IInv
  <2>2. pc' # "terminate" => Coherent'
    <3>1. CASE Owner
      BY <1>3, <2>1, <3>1, StartCoherent, FinishCoherent DEF Owner
    <3>2. CASE Worker
      BY <1>3, <2>1, <3>2, WorkerCoherent
    <3>3. CASE Stop \/ UNCHANGED vars
      BY <2>1, <3>3 DEF Stop, Coherent, CallMatchesPlace, WorkerMatchesPlace,
         MutexesMatchPlace, HandleIsStarted, RunningMatchesWorker,
         vars, ownerVars, workerVars, flags, mutexes
    <3> QED
      BY <3>1, <3>2, <3>3 DEF Next, Gone
  <2> QED
    BY <1>1, <1>3, <2>1, <2>2, TerminateStep DEF IInv
<1> QED
  BY <1>2, <1>3

\* A new object satisfies the invariant.
LEMMA InitIInv == Init => IInv
BY DEF Init, IInv, Coherent, TypeOK, OwnerPCs, StartPCs, Calls, Results,
   WorkerPCs, Booting, InRun, Settled, CallMatchesPlace, WorkerMatchesPlace,
   MutexesMatchPlace, HandleIsStarted, RunningMatchesWorker

-----------------------------------------------------------------------------
\* The handshake of start(), the flags and the mutexes fit together in every
\* reachable state (threads.cpp:41-113).
THEOREM InductiveInvariant == Spec => []IInv
<1>1. Init => IInv
  BY InitIInv
<1>2. IInv /\ [Next]_vars => IInv'
  BY NextIInv
<1> QED
  BY <1>1, <1>2, PTL DEF Spec

\* Every variable keeps its type.
THEOREM TypeCorrect == Spec => []TypeOK
<1>1. IInv => TypeOK
  BY DEF IInv
<1> QED
  BY <1>1, InductiveInvariant, PTL

\* start() has recorded the thread before run() is entered (threads.cpp:60-73).
THEOREM RunSeenByStartHolds == Spec => []RunSeenByStart
<1>1. IInv => RunSeenByStart
  BY DEF IInv, Coherent, TypeOK, RunSeenByStart, InRun, Settled, StartPCs,
     Terminated, HandleIsStarted, WorkerMatchesPlace
<1> QED
  BY <1>1, InductiveInvariant, PTL

\* is_running() is true of a dead thread only inside the kill() that cancelled
\* it (threads.cpp:80-97).
THEOREM RunningIsTruthfulHolds == Spec => []RunningIsTruthful
<1>1. IInv => RunningIsTruthful
  BY DEF IInv, Coherent, TypeOK, RunningIsTruthful, InRun,
     Terminated, CallMatchesPlace, HandleIsStarted, RunningMatchesWorker
<1> QED
  BY <1>1, InductiveInvariant, PTL

\* After wait() or kill() the object can be used again (threads.cpp:41-50).
THEOREM ReapedIsCleanHolds == Spec => []ReapedIsClean
<1>1. IInv => ReapedIsClean
  BY DEF IInv, Coherent, TypeOK, ReapedIsClean, StartPCs, InRun,
     WorkerMatchesPlace, HandleIsStarted, MutexesMatchPlace,
     RunningMatchesWorker
<1> QED
  BY <1>1, InductiveInvariant, PTL

\* An owner that joins before it starts again never meets std::terminate()
\* (threads.cpp:61).
THEOREM NeverTerminatesHolds == JoinsFirst /\ Spec => []NeverTerminates
<1> SUFFICES ASSUME JoinsFirst PROVE Spec => []NeverTerminates
  OBVIOUS
<1>1. IInv => NeverTerminates
  BY DEF IInv, Terminated, NeverTerminates
<1> QED
  BY <1>1, InductiveInvariant, PTL

\* start() returns true only to find run() past ThreadStarted()
\* (threads.cpp:73-77, 103, 115).
THEOREM StartReturnsRunningHolds == Spec => StartReturnsRunning
<1>1. ASSUME IInv, [Next]_vars, call = "start", call' = "none", result' = "true"
      PROVE  worker \in Settled
  <2>1. pc \in StartPCs /\ (pc = "unlock2" => worker \in Settled)
    BY <1>1 DEF IInv, Coherent, Terminated, CallMatchesPlace,
       WorkerMatchesPlace, StartPCs
  <2> QED
    BY <1>1, <2>1
    DEF Next, Owner, Start, Finish, Worker, Stop, Gone, StartPCs,
        StartRefused, StartCall, StartReset, StartLock, Create,
        CreateOverJoinable, CreateThrows, SpinDone, StartUnlock, StartLock2,
        StartDone, WaitCall, StopAndWaitCall, KillCall, KillCancel,
        WaitNothing, WaitBlocks, Join, KillClear, Destroy,
        WorkerLock2, WorkerFlag, WorkerGate, WorkerPass, ThreadStarted,
        RunReturns, RunCancelled, WorkerLeaves, Return,
        vars, ownerVars
<1>2. IInv /\ [Next]_vars =>
        [call = "start" /\ call' = "none" /\ result' = "true"
           => worker \in Settled]_vars
  BY <1>1
<1> QED
  BY <1>2, InductiveInvariant, PTL DEF Spec, StartReturnsRunning

-----------------------------------------------------------------------------
\* A process that is not terminated, and why: the owner joins first.
LifeInv == TypeOK /\ Coherent /\ pc # "terminate"

\* A step of start() is a step of the client's view, or none: only the reset of
\* the stop flag and the creation of the std::thread show.
LEMMA StartLife ==
  ASSUME JoinsFirst, LifeInv, Start PROVE [Life!Next]_(Life!lifeVars)
<1> USE DEF LifeInv, Coherent, Life!Next, Life!lifeVars, ownerVars, workerVars,
        flags, mutexes
<1>1. CASE StartReset
  BY <1>1 DEF StartReset, HandleIsStarted, Life!Forget
<1>2. CASE Create
  BY <1>2 DEF Create, Life!Create, Booting
<1>3. CASE CreateOverJoinable
  BY <1>3 DEF CreateOverJoinable, HandleIsStarted
<1>4. CASE StartRefused \/ StartCall \/ StartLock \/ SpinDone \/ StartUnlock
             \/ StartLock2 \/ StartDone \/ CreateThrows
  BY <1>4 DEF StartRefused, StartCall, StartLock, SpinDone, StartUnlock,
     StartLock2, StartDone, CreateThrows
<1> QED
  BY <1>1, <1>2, <1>3, <1>4 DEF Start

\* A step of wait(), kill() or ~Thread(): the request to stop, the
\* cancellation and the join show.
LEMMA FinishLife ==
  ASSUME LifeInv, Finish PROVE [Life!Next]_(Life!lifeVars)
<1> USE DEF LifeInv, Coherent, Life!Next, Life!lifeVars, ownerVars, workerVars,
        flags, mutexes
<1>1. CASE StopAndWaitCall
  BY <1>1 DEF StopAndWaitCall, Life!Stop
<1>2. CASE KillCancel
  <2>1. m_thread = "joinable" /\ worker \in Settled
    BY <1>2 DEF KillCancel, HandleIsStarted, WorkerMatchesPlace, StartPCs,
       Settled
  <2> QED
    <3>1. cancelled' = TRUE /\ UNCHANGED <<worker, m_thread, m_request_stop>>
      BY <1>2, <2>1 DEF KillCancel
    <3> QED
      BY <2>1, <3>1 DEF Life!Kill, Settled, Booting
<1>3. CASE Join
  <2>1. m_thread = "joinable"
    BY <1>3 DEF Join, HandleIsStarted
  <2> QED
    BY <1>3, <2>1 DEF Join, Life!Reap, Booting
<1>4. CASE WaitCall \/ (\E c \in {"kill", "destroy"} : KillCall(c))
             \/ WaitNothing \/ WaitBlocks \/ KillClear \/ Destroy
  BY <1>4 DEF WaitCall, KillCall, WaitNothing, WaitBlocks, KillClear, Destroy
<1> QED
  BY <1>1, <1>2, <1>3, <1>4 DEF Finish

\* A step of the pthread: ThreadStarted() and the end of run() show.
LEMMA WorkerLife ==
  ASSUME LifeInv, Worker PROVE [Life!Next]_(Life!lifeVars)
<1> USE DEF LifeInv, Coherent, Life!Next, Life!lifeVars, ownerVars, workerVars,
        flags, mutexes, Booting, At
<1>0. worker \notin {"none", "ended"} => m_thread = "joinable"
  BY DEF TypeOK, HandleIsStarted
<1>1. CASE ThreadStarted
  BY <1>0, <1>1 DEF ThreadStarted, Life!Announce
<1>2. CASE RunCancelled
  <2>1. worker = "body"
    BY <1>0, <1>2 DEF RunCancelled, InRun, RunningMatchesWorker,
       WorkerMatchesPlace, StartPCs, Settled
  <2> QED
    BY <1>0, <1>2, <2>1 DEF RunCancelled, Life!End
<1>3. CASE RunReturns
  BY <1>0, <1>3 DEF RunReturns, Life!End
<1>4. CASE WorkerLock2 \/ WorkerFlag \/ WorkerGate \/ WorkerPass \/ WorkerLeaves
  BY <1>0, <1>4 DEF WorkerLock2, WorkerFlag, WorkerGate, WorkerPass, WorkerLeaves
<1> QED
  BY <1>1, <1>2, <1>3, <1>4 DEF Worker

\* The locks, flags and joins of class Thread give its clients the life cycle of
\* ThreadLife, when the owner joins before it starts again.
THEOREM ThreadImplementsLife == JoinsFirst /\ Spec => ImplementsLife
<1> SUFFICES ASSUME JoinsFirst PROVE Spec => ImplementsLife
  OBVIOUS
<1>1. Init => Life!Init
  BY DEF Init, Life!Init
<1>2. IInv => LifeInv
  BY DEF IInv, LifeInv, Terminated
<1>3. LifeInv /\ [Next]_vars => [Life!Next]_(Life!lifeVars)
  <2> SUFFICES ASSUME LifeInv, [Next]_vars PROVE [Life!Next]_(Life!lifeVars)
    OBVIOUS
  <2>1. CASE Owner
    BY <2>1, StartLife, FinishLife DEF Owner
  <2>2. CASE Worker
    BY <2>2, WorkerLife
  <2>3. CASE Stop
    BY <2>3 DEF Stop, Life!Stop, Life!Next, ownerVars, workerVars
  <2>4. CASE UNCHANGED vars
    BY <2>4 DEF vars, workerVars, flags, Life!lifeVars
  <2> QED
    BY <2>1, <2>2, <2>3, <2>4 DEF Next, Gone
<1> QED
  BY <1>1, <1>2, <1>3, InductiveInvariant, PTL
  DEF Spec, ImplementsLife, Life!Spec
=============================================================================
