------------------------------- MODULE Thread -------------------------------
(***************************************************************************)
(* One object of class Thread (threads.h, threads.cpp): the client thread  *)
(* that owns it (start, wait, kill, stop_and_wait, the destructor), the    *)
(* pthread that executes the_thread() and the run() of the subclass, and   *)
(* any other thread that calls stop().                                     *)
(*                                                                         *)
(* m_thread, a plain unique_ptr, is only ever touched by the owner, so one *)
(* thread makes the owner's calls; stop() only stores to an atomic.  Each  *)
(* action below lies between two accesses to state the other thread sees.  *)
(***************************************************************************)
EXTENDS Naturals

CONSTANTS
  EndsAlone,    \* run() may return although is_stopping() is false
  Cancellable,  \* run() contains a cancellation point (a sleep, blocking I/O)
  JoinsFirst,   \* the owner calls wait() or kill() before it starts again
  CreateMayFail \* the constructor of std::thread may throw

ASSUME ThreadAssumption ==
  /\ EndsAlone \in BOOLEAN
  /\ Cancellable \in BOOLEAN
  /\ JoinsFirst \in BOOLEAN
  /\ CreateMayFail \in BOOLEAN

VARIABLES
  pc,              \* where the owner is
  call,            \* the member function the owner is in
  result,          \* what its last call returned
  worker,          \* where the pthread is
  cancelled,       \* pthread_cancel() was called on it
  m_thread,        \* "null", or "joinable": a std::thread not yet joined
  started, m_running, m_request_stop,
  continuemutex, continuemutex2

flags   == <<started, m_running, m_request_stop>>
mutexes == <<continuemutex, continuemutex2>>
ownerVars  == <<pc, call, result>>
workerVars == <<worker, cancelled>>
vars == <<ownerVars, workerVars, m_thread, flags, mutexes>>

StartPCs  == {"reset", "lock", "create", "spin", "unlock", "lock2", "unlock2"}
OwnerPCs  == {"idle", "destroyed", "terminate"} \cup StartPCs
               \cup {"cancel", "wait", "join", "clear", "members"}
Calls     == {"none", "start", "wait", "stop_and_wait", "kill", "destroy"}
Results   == {"none", "true", "false", "void", "exception"}

\* The positions of the pthread: inside the_thread() up to the call of run(),
\* in run() before and after ThreadStarted(), after run(), and gone.  A worker
\* is settled once it has called ThreadStarted().
Booting   == {"boot", "flag", "gate", "pass"}
InRun     == {"entered", "body"}
Settled   == {"body", "leaving", "ended"}
WorkerPCs == {"none", "ended", "leaving"} \cup Booting \cup InRun

TypeOK ==
  /\ pc \in OwnerPCs
  /\ call \in Calls
  /\ result \in Results
  /\ worker \in WorkerPCs
  /\ cancelled \in BOOLEAN
  /\ m_thread \in {"null", "joinable"}
  /\ started \in BOOLEAN /\ m_running \in BOOLEAN /\ m_request_stop \in BOOLEAN
  /\ continuemutex \in {"free", "owner", "worker"}
  /\ continuemutex2 \in {"free", "owner", "worker"}

Init ==
  /\ pc = "idle" /\ call = "none" /\ result = "none"
  /\ worker = "none" /\ cancelled = FALSE
  /\ m_thread = "null"
  /\ started = FALSE /\ m_running = FALSE /\ m_request_stop = FALSE
  /\ continuemutex = "free" /\ continuemutex2 = "free"

\* The object exists and the process has not called std::terminate().
Alive == pc \notin {"destroyed", "terminate"}

-----------------------------------------------------------------------------
(* start() *)

\* The owner comes back from the member function it is in; the body of
\* ~Thread() is followed by the destruction of the members.
Return(r) ==
  /\ call' = IF call = "destroy" THEN "destroy" ELSE "none"
  /\ pc' = IF call = "destroy" THEN "members" ELSE "idle"
  /\ result' = r

StartRefused ==
  /\ pc = "idle" /\ m_running
  /\ result' = "false"
  /\ UNCHANGED <<pc, call, workerVars, m_thread, flags, mutexes>>

StartCall ==
  /\ pc = "idle" /\ ~m_running
  /\ JoinsFirst => m_thread = "null"
  /\ pc' = "reset" /\ call' = "start"
  /\ UNCHANGED <<result, workerVars, m_thread, flags, mutexes>>

StartReset ==
  /\ pc = "reset"
  /\ pc' = "lock"
  /\ m_request_stop' = FALSE
  /\ UNCHANGED <<call, result, workerVars, m_thread, started, m_running>>
  /\ UNCHANGED mutexes

StartLock ==
  /\ pc = "lock" /\ continuemutex = "free"
  /\ pc' = "create"
  /\ continuemutex' = "owner"
  /\ UNCHANGED <<call, result, workerVars, m_thread, flags, continuemutex2>>

\* make_unique builds the new std::thread ...
Create ==
  /\ pc = "create" /\ m_thread = "null"
  /\ pc' = "spin"
  /\ worker' = "boot" /\ cancelled' = FALSE
  /\ m_thread' = "joinable"
  /\ UNCHANGED <<call, result, flags, mutexes>>

\* ... and the assignment destroys the one m_thread held: that was never
\* joined, and its destructor calls std::terminate().
CreateOverJoinable ==
  /\ pc = "create" /\ m_thread = "joinable"
  /\ pc' = "terminate"
  /\ call' = "none" /\ result' = "none"
  /\ UNCHANGED <<workerVars, m_thread, flags, mutexes>>

\* std::system_error leaves start(): the branch that tests the pointer and
\* unlocks is not reached.
CreateThrows ==
  /\ CreateMayFail
  /\ pc = "create"
  /\ Return("exception")
  /\ UNCHANGED <<workerVars, m_thread, flags, mutexes>>

SpinDone ==
  /\ pc = "spin" /\ m_running
  /\ pc' = "unlock"
  /\ started' = TRUE
  /\ UNCHANGED <<call, result, workerVars, m_thread, m_running, m_request_stop>>
  /\ UNCHANGED mutexes

StartUnlock ==
  /\ pc = "unlock"
  /\ pc' = "lock2"
  /\ continuemutex' = "free"
  /\ UNCHANGED <<call, result, workerVars, m_thread, flags, continuemutex2>>

StartLock2 ==
  /\ pc = "lock2" /\ continuemutex2 = "free"
  /\ pc' = "unlock2"
  /\ continuemutex2' = "owner"
  /\ UNCHANGED <<call, result, workerVars, m_thread, flags, continuemutex>>

\* Mutant: the stop flag is cleared at the end of start(), not at its beginning.
StartDone_ResetsLate ==
  /\ pc = "unlock2"
  /\ continuemutex2' = "free" /\ m_request_stop' = FALSE
  /\ UNCHANGED <<workerVars, m_thread, started, m_running, continuemutex>>
  /\ Return("true")

StartDone ==
  /\ pc = "unlock2"
  /\ continuemutex2' = "free"
  /\ UNCHANGED <<workerVars, m_thread, flags, continuemutex>>
  /\ Return("true")

-----------------------------------------------------------------------------
(* stop(), wait(), stop_and_wait(), kill() and ~Thread() *)

\* stop() of the owner or of any other thread.
Stop ==
  /\ Alive
  /\ m_request_stop' = TRUE
  /\ UNCHANGED <<ownerVars, workerVars, m_thread, started, m_running, mutexes>>

WaitCall ==
  /\ pc = "idle"
  /\ pc' = "wait" /\ call' = "wait"
  /\ UNCHANGED <<result, workerVars, m_thread, flags, mutexes>>

StopAndWaitCall ==
  /\ pc = "idle"
  /\ pc' = "wait" /\ call' = "stop_and_wait"
  /\ m_request_stop' = TRUE
  /\ UNCHANGED <<result, workerVars, m_thread, started, m_running, mutexes>>

\* Mutant: without a running thread kill() returns at once, without wait().
KillCall_NoWait(c) ==
  /\ c \in {"kill", "destroy"}
  /\ pc = "idle"
  /\ UNCHANGED <<workerVars, m_thread, flags, mutexes>>
  /\ CASE m_running -> pc' = "cancel" /\ call' = c /\ UNCHANGED result
       [] ~m_running /\ c = "kill" ->
            result' = "false" /\ UNCHANGED <<pc, call>>
       [] OTHER -> pc' = "members" /\ call' = c /\ UNCHANGED result

\* kill() or ~Thread(); without a running thread it only waits.
KillCall(c) ==
  /\ c \in {"kill", "destroy"}
  /\ pc = "idle"
  /\ pc' = IF m_running THEN "cancel" ELSE "wait"
  /\ call' = c
  /\ UNCHANGED <<result, workerVars, m_thread, flags, mutexes>>

\* Mutant: pthread_cancel() is not called.
KillCancel_None ==
  /\ pc = "cancel"
  /\ pc' = "wait"
  /\ UNCHANGED <<call, result, workerVars, m_thread, flags, mutexes>>

KillCancel ==
  /\ pc = "cancel"
  /\ pc' = "wait"
  /\ cancelled' = (cancelled \/ m_thread = "joinable")
  /\ UNCHANGED <<call, result, worker, m_thread, flags, mutexes>>

\* What the call returns that ends with wait(): kill() is false there.
Waited == IF call \in {"kill", "destroy"} THEN "false" ELSE "void"

\* wait() has nothing to join.
WaitNothing ==
  /\ pc = "wait"
  /\ ~started \/ m_thread = "null"
  /\ started' = FALSE
  /\ UNCHANGED <<workerVars, m_thread, m_running, m_request_stop, mutexes>>
  /\ Return(Waited)

WaitBlocks ==
  /\ pc = "wait"
  /\ started /\ m_thread = "joinable"
  /\ pc' = "join"
  /\ UNCHANGED <<call, result, workerVars, m_thread, flags, mutexes>>

\* join() returns: the pointer and 'started' are cleared, and the branch of
\* kill() that cancelled the thread has one more assignment to make.
Join ==
  /\ pc = "join" /\ worker = "ended"
  /\ m_thread' = "null" /\ started' = FALSE
  /\ UNCHANGED <<workerVars, m_running, m_request_stop, mutexes>>
  /\ IF cancelled THEN pc' = "clear" /\ UNCHANGED <<call, result>>
                  ELSE Return(Waited)

\* Mutant: kill() leaves m_running as the dead thread left it.
KillClear_KeepsRunning ==
  /\ pc = "clear"
  /\ UNCHANGED <<workerVars, m_thread, flags, mutexes>>
  /\ Return("true")

KillClear ==
  /\ pc = "clear"
  /\ m_running' = FALSE
  /\ UNCHANGED <<workerVars, m_thread, started, m_request_stop, mutexes>>
  /\ Return("true")

\* The members of the object are destroyed: a std::thread that is still
\* joinable calls std::terminate().
Destroy ==
  /\ pc = "members"
  /\ pc' = IF m_thread = "null" THEN "destroyed" ELSE "terminate"
  /\ call' = "none" /\ result' = "none"
  /\ UNCHANGED <<workerVars, m_thread, flags, mutexes>>

-----------------------------------------------------------------------------
(* the_thread() and run(), in the pthread *)

At(place) == Alive /\ worker = place

\* Mutant: the_thread() does not take continuemutex2.
WorkerLock2_None ==
  /\ At("boot")
  /\ worker' = "flag"
  /\ UNCHANGED <<ownerVars, cancelled, m_thread, flags, mutexes>>

WorkerLock2 ==
  /\ At("boot") /\ continuemutex2 = "free"
  /\ worker' = "flag"
  /\ continuemutex2' = "worker"
  /\ UNCHANGED <<ownerVars, cancelled, m_thread, flags, continuemutex>>

WorkerFlag ==
  /\ At("flag")
  /\ worker' = "gate"
  /\ m_running' = TRUE
  /\ UNCHANGED <<ownerVars, cancelled, m_thread, started, m_request_stop>>
  /\ UNCHANGED mutexes

\* Mutant: the worker does not wait for start() to let continuemutex go.
WorkerGate_Open ==
  /\ At("gate")
  /\ worker' = "entered"
  /\ UNCHANGED <<ownerVars, cancelled, m_thread, flags, mutexes>>

WorkerGate ==
  /\ At("gate") /\ continuemutex = "free"
  /\ worker' = "pass"
  /\ continuemutex' = "worker"
  /\ UNCHANGED <<ownerVars, cancelled, m_thread, flags, continuemutex2>>

WorkerPass ==
  /\ At("pass")
  /\ worker' = "entered"
  /\ continuemutex' = "free"
  /\ UNCHANGED <<ownerVars, cancelled, m_thread, flags, continuemutex2>>

\* run() of every subclass in the repository begins with this call.
ThreadStarted ==
  /\ At("entered")
  /\ worker' = "body"
  /\ continuemutex2' = "free"
  /\ UNCHANGED <<ownerVars, cancelled, m_thread, flags, continuemutex>>

RunReturns ==
  /\ At("body")
  /\ EndsAlone \/ m_request_stop
  /\ worker' = "leaving"
  /\ UNCHANGED <<ownerVars, cancelled, m_thread, flags, mutexes>>

RunCancelled ==
  /\ Alive /\ worker \in InRun
  /\ Cancellable /\ cancelled
  /\ worker' = "ended"
  /\ UNCHANGED <<ownerVars, cancelled, m_thread, flags, mutexes>>

WorkerLeaves ==
  /\ At("leaving")
  /\ worker' = "ended"
  /\ m_running' = FALSE
  /\ UNCHANGED <<ownerVars, cancelled, m_thread, started, m_request_stop>>
  /\ UNCHANGED mutexes

-----------------------------------------------------------------------------
Start == \/ StartRefused \/ StartCall \/ StartReset \/ StartLock
         \/ Create \/ CreateOverJoinable \/ CreateThrows \/ SpinDone
         \/ StartUnlock \/ StartLock2 \/ StartDone
Finish == \/ WaitCall \/ StopAndWaitCall
          \/ \E c \in {"kill", "destroy"} : KillCall(c)
          \/ KillCancel \/ WaitNothing \/ WaitBlocks \/ Join \/ KillClear
          \/ Destroy
Owner == Start \/ Finish
Worker == \/ WorkerLock2 \/ WorkerFlag \/ WorkerGate \/ WorkerPass
          \/ ThreadStarted \/ RunReturns \/ RunCancelled \/ WorkerLeaves

\* After std::terminate() nothing moves; after ~Thread() there is no object.
Gone == ~Alive /\ UNCHANGED vars

Next == Owner \/ Worker \/ Stop \/ Gone

\* The steps of a call already made: the owner's thread is scheduled.
OwnerProceeds ==
  \/ StartReset \/ StartLock \/ Create \/ SpinDone \/ StartUnlock
  \/ StartLock2 \/ StartDone \/ KillCancel \/ WaitNothing \/ WaitBlocks
  \/ Join \/ KillClear \/ Destroy

Spec == Init /\ [][Next]_vars
FairSpec == Spec /\ WF_vars(OwnerProceeds) /\ WF_vars(Worker)

-----------------------------------------------------------------------------
(* The inductive invariant.  std::terminate() is only reached from start(). *)

\* Which call leads to which place, and where the pthread may be meanwhile.
CallMatchesPlace ==
  /\ pc \in StartPCs <=> call = "start"
  /\ pc \in {"idle", "destroyed"} <=> call = "none"
  /\ pc \in {"cancel", "clear"} => call \in {"kill", "destroy"}
  /\ pc = "members" => call = "destroy"

WorkerMatchesPlace ==
  /\ pc \in {"reset", "lock", "create"} => worker \in {"none", "ended"}
  /\ pc = "spin" => worker \in {"boot", "flag", "gate"}
  /\ pc = "unlock" => worker = "gate"
  /\ pc = "lock2" => worker \in {"gate", "pass", "entered"} \cup Settled
  /\ pc = "unlock2" => worker \in Settled
  /\ pc \notin StartPCs => worker \in {"none"} \cup Settled

MutexesMatchPlace ==
  /\ pc \in {"create", "spin", "unlock"} => continuemutex = "owner"
  /\ continuemutex = "owner" =>
       pc \in {"create", "spin", "unlock"} \/ CreateMayFail
  /\ continuemutex = "worker" <=> worker = "pass"
  /\ continuemutex2 = "owner" <=> pc = "unlock2"
  /\ continuemutex2 = "worker" <=>
       worker \in {"flag", "gate", "pass", "entered"}

\* 'started' and m_thread agree except while start() waits for the worker.
HandleIsStarted ==
  /\ started <=> m_thread = "joinable" /\ pc # "spin"
  /\ pc \in {"spin", "join"} => m_thread = "joinable"
  /\ JoinsFirst /\ pc \in {"reset", "lock", "create"} => m_thread = "null"
  /\ pc = "clear" => m_thread = "null" /\ cancelled
  /\ pc = "cancel" => m_thread = "joinable"
  /\ pc \in {"members", "destroyed"} => m_thread = "null"
  /\ m_thread = "null" => worker \in {"none", "ended"}
  /\ m_thread = "joinable" => worker # "none"

RunningMatchesWorker ==
  /\ worker \in {"gate", "pass", "leaving"} \cup InRun => m_running
  /\ worker \in {"none", "boot", "flag"} => ~m_running
  /\ m_running /\ worker = "ended" =>
       cancelled /\ (m_thread = "joinable" \/ pc = "clear")
  /\ cancelled /\ m_thread = "joinable" =>
       pc \in {"wait", "join"} /\ call \in {"kill", "destroy"}

\* What holds of the object while the process lives.
Coherent ==
  /\ CallMatchesPlace
  /\ WorkerMatchesPlace
  /\ MutexesMatchPlace
  /\ HandleIsStarted
  /\ RunningMatchesWorker

\* A thread that had ended was not joined before another start().
Terminated ==
  ~JoinsFirst /\ worker \in {"none", "ended"} /\ ~m_running /\ call = "none"

IInv ==
  /\ TypeOK
  /\ pc # "terminate" => Coherent
  /\ pc = "terminate" => Terminated

-----------------------------------------------------------------------------
(* What the two mutexes and the flags are there for *)

\* run() is not entered before start() has recorded that the thread exists, so
\* a run() that returns at once cannot clear m_running before start() saw it
\* (threads.cpp:60-73, 106-107).
RunSeenByStart == worker \in InRun \cup {"leaving"} => started

\* is_running() tells the truth about run(); it is true of a dead thread only
\* inside the kill() that cancelled it (threads.cpp:80-97, 104, 111).
RunningIsTruthful ==
  /\ worker \in InRun => m_running
  /\ m_running /\ worker \in {"none", "ended"} =>
       cancelled /\ call \in {"kill", "destroy"}

\* When wait() or kill() has returned and no std::thread is left, the object is
\* as good as new and can be started again (threads.cpp:41-50, 93-94).
ReapedIsClean ==
  pc \in {"idle", "destroyed"} /\ m_thread = "null" =>
    /\ worker \in {"none", "ended"}
    /\ ~started /\ ~m_running
    /\ continuemutex2 = "free"
    /\ CreateMayFail \/ continuemutex = "free"

\* A std::thread is never destroyed or overwritten while it is joinable
\* (threads.cpp:39, 61).
NeverTerminates == pc # "terminate"

\* start() returns true only when run() has announced itself through
\* ThreadStarted() (threads.cpp:73-77, 103, 115).
StartReturnsRunning ==
  [][call = "start" /\ call' = "none" /\ result' = "true"
       => worker \in Settled]_vars

\* The client's view of the object: one worker at a time, reaped before the
\* next one exists, and stop requests forgotten only between two workers.
Life == INSTANCE ThreadLife WITH
  life     <- IF m_thread = "null" THEN "absent"
              ELSE IF worker \in Booting \cup {"entered"} THEN "starting"
              ELSE IF worker = "body" THEN "running" ELSE "ended",
  stopping <- m_request_stop,
  killed   <- cancelled /\ m_thread = "joinable"
ImplementsLife == Life!Spec

\* start() comes back (threads.cpp:68-76 waits for the worker twice).
StartReturns == call = "start" ~> call = "none"

\* stop_and_wait() comes back, although run() loops until is_stopping().
StopAndWaitReturns == call = "stop_and_wait" ~> call = "none"

\* kill() and ~Thread() come back when run() has a cancellation point.
KillReturns == call \in {"kill", "destroy"} ~> call = "none"

\* Every call of the owner comes back: start() although it waits for the worker
\* twice, stop_and_wait() and kill() although they join it (threads.cpp:41-97).
CallsReturn == StartReturns /\ StopAndWaitReturns /\ KillReturns

\* A stop() made by anybody after run() was announced ends the run()
\* (threads.h:45-48).
StopEndsRun == m_request_stop /\ worker = "body" ~> worker = "ended"
=============================================================================
