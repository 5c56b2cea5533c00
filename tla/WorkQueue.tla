----------------------------- MODULE WorkQueue -----------------------------
(***************************************************************************)
(* ThreadPoolWorkQueue (threadpool.h) over two ThreadSafeQueues            *)
(* (threadsafequeue.h): providers write inputs, each worker runs the loop  *)
(* of TPTestWorker (unittests/test_threads.cpp), readers take outputs, and *)
(* one owner starts, stops, kills and destroys the pool.  Every queue      *)
(* operation is one critical section of the queue's mutex, so one step; a  *)
(* worker is a Thread seen through its life cycle, module ThreadLife.      *)
(***************************************************************************)
EXTENDS Naturals, Sequences, SequencesExt

CONSTANTS
  ThreadNumber,  \* size of the pool
  MaxItems,      \* bound: inputs ever written
  Readers,       \* threads that take outputs
  JoinsFirst     \* the owner calls stop_threads(true) or kill_threads()
                 \* before it starts workers it stopped, or destroys the pool

ASSUME WorkQueueAssumption ==
  /\ ThreadNumber \in Nat \ {0}
  /\ MaxItems \in Nat
  /\ JoinsFirst \in BOOLEAN

Workers == 1..ThreadNumber
Items   == 1..MaxItems
None    == 0           \* no item is held

VARIABLES
  input, output,       \* m_input_queue, m_output_queue
  written,             \* inputs written so far: the items 1..written
  received,            \* the outputs taken, in the order they were taken
  wpc, held,           \* of each worker: place in run(), item in its hands
  stopping, killed,    \* of each worker: m_request_stop, pthread_cancel()
  rpc,                 \* of each reader: "look", "pop" or "threw"
  op, step, turn,      \* the owner's call, and the worker its loop is at
  asked,               \* what the owner asked last: "start", "stop" or "join"
  process              \* "up", or what ended the process

queueVars  == <<input, output, written, received>>
workerVars == <<wpc, held>>
threadVars == <<stopping, killed>>
ownerVars  == <<op, step, turn, asked>>
vars == <<queueVars, workerVars, threadVars, rpc, ownerVars, process>>

Calls == {"start", "stop", "stop_wait", "kill"}
Destroying == {"destroy_stop", "destroy_kill", "destroyed"}
InRun == {"loop", "inner", "pop", "push", "sleep"}

TypeOK ==
  /\ input \in Seq(Items) /\ output \in Seq(Items) /\ received \in Seq(Items)
  /\ written \in 0..MaxItems
  /\ wpc \in [Workers -> InRun \cup {"absent", "starting", "ended"}]
  /\ held \in [Workers -> Items \cup {None}]
  /\ stopping \in [Workers -> BOOLEAN] /\ killed \in [Workers -> BOOLEAN]
  /\ rpc \in [Readers -> {"look", "pop", "threw"}]
  /\ op \in {"none"} \cup Calls \cup Destroying
  /\ step \in {"each", "create", "announced", "join"}
  /\ turn \in Workers
  /\ asked \in {"start", "stop", "join"}
  /\ process \in {"up", "uncaught exception", "joinable overwritten",
                  "queue used after destruction"}

Init ==
  /\ input = <<>> /\ output = <<>> /\ received = <<>> /\ written = 0
  /\ wpc = [w \in Workers |-> "absent"] /\ held = [w \in Workers |-> None]
  /\ stopping = [w \in Workers |-> FALSE] /\ killed = [w \in Workers |-> FALSE]
  /\ rpc = [r \in Readers |-> "look"]
  /\ op = "none" /\ step = "each" /\ turn = 1 /\ asked = "join"
  /\ process = "up"

-----------------------------------------------------------------------------
(* Providers and readers *)

Up == process = "up"
QueuesAlive == op \notin Destroying

WriteInput ==
  /\ Up /\ QueuesAlive
  /\ written < MaxItems
  /\ written' = written + 1
  /\ input' = Append(input, written')
  /\ UNCHANGED <<output, received, workerVars, threadVars, rpc, ownerVars,
                 process>>

\* while (!output_queue_empty()) ...
ReaderLooks(r) ==
  /\ Up /\ QueuesAlive
  /\ rpc[r] = "look" /\ output # <<>>
  /\ rpc' = [rpc EXCEPT ![r] = "pop"]
  /\ UNCHANGED <<queueVars, workerVars, threadVars, ownerVars, process>>

\* ... read_output(), which throws when another reader was faster.
ReaderPops(r) ==
  /\ Up /\ QueuesAlive
  /\ rpc[r] = "pop"
  /\ IF output = <<>>
       THEN /\ rpc' = [rpc EXCEPT ![r] = "threw"]
            /\ UNCHANGED <<output, received>>
       ELSE /\ rpc' = [rpc EXCEPT ![r] = "look"]
            /\ received' = Append(received, Head(output))
            /\ output' = Tail(output)
  /\ UNCHANGED <<input, written, workerVars, threadVars, ownerVars, process>>

-----------------------------------------------------------------------------
(* run() of a worker *)

In(w, places)  == Up /\ wpc[w] \in places
Goto(w, place) == wpc' = [wpc EXCEPT ![w] = place]

\* ThreadStarted(); start() of the owner goes on.
Announce(w) ==
  /\ In(w, {"starting"})
  /\ Goto(w, "loop")
  /\ UNCHANGED <<queueVars, held, threadVars, rpc, ownerVars, process>>

WorkerLoop(w) ==
  /\ In(w, {"loop"})
  /\ Goto(w, IF stopping[w] THEN "ended" ELSE "inner")
  /\ UNCHANGED <<queueVars, held, threadVars, rpc, ownerVars, process>>

\* while (!input_queue_empty()) ...
WorkerLooks(w) ==
  /\ In(w, {"inner"}) /\ QueuesAlive
  /\ Goto(w, IF input = <<>> THEN "sleep" ELSE "pop")
  /\ UNCHANGED <<queueVars, held, threadVars, rpc, ownerVars, process>>

\* Mutant: the newest input is taken first.
WorkerPops_Newest(w) ==
  /\ In(w, {"pop"}) /\ QueuesAlive
  /\ input # <<>>
  /\ held' = [held EXCEPT ![w] = Last(input)]
  /\ input' = Front(input)
  /\ Goto(w, "push")
  /\ UNCHANGED <<output, written, received, threadVars, rpc, ownerVars,
                 process>>

\* ... read_input_queue()
WorkerPops(w) ==
  /\ In(w, {"pop"}) /\ QueuesAlive
  /\ input # <<>>
  /\ held' = [held EXCEPT ![w] = Head(input)]
  /\ input' = Tail(input)
  /\ Goto(w, "push")
  /\ UNCHANGED <<output, written, received, threadVars, rpc, ownerVars,
                 process>>

\* Another worker was faster: ThreadSafeQueueEmptyException leaves run().
WorkerThrows(w) ==
  /\ In(w, {"pop"}) /\ QueuesAlive
  /\ input = <<>>
  /\ process' = "uncaught exception"
  /\ UNCHANGED <<queueVars, workerVars, threadVars, rpc, ownerVars>>

WorkerPushes(w) ==
  /\ In(w, {"push"}) /\ QueuesAlive
  /\ output' = Append(output, held[w])
  /\ held' = [held EXCEPT ![w] = None]
  /\ Goto(w, "inner")
  /\ UNCHANGED <<input, written, received, threadVars, rpc, ownerVars,
                 process>>

\* The queues are members of the class derived from the pool: they are gone
\* before ~ThreadPool() stops the workers.
WorkerUsesDestroyed(w) ==
  /\ In(w, {"inner", "pop", "push"}) /\ ~QueuesAlive
  /\ process' = "queue used after destruction"
  /\ UNCHANGED <<queueVars, workerVars, threadVars, rpc, ownerVars>>

\* Mutant: run() is left after the first sleep.
WorkerWakes_Leaves(w) ==
  /\ In(w, {"sleep"}) /\ ~killed[w]
  /\ Goto(w, "ended")
  /\ UNCHANGED <<queueVars, held, threadVars, rpc, ownerVars, process>>

WorkerWakes(w) ==
  /\ In(w, {"sleep"}) /\ ~killed[w]
  /\ Goto(w, "loop")
  /\ UNCHANGED <<queueVars, held, threadVars, rpc, ownerVars, process>>

\* Mutant: the cancellation is asynchronous, and loses what the worker holds.
WorkerCancelled_Anywhere(w) ==
  /\ In(w, InRun) /\ killed[w]
  /\ Goto(w, "ended")
  /\ held' = [held EXCEPT ![w] = None]
  /\ UNCHANGED <<queueVars, threadVars, rpc, ownerVars, process>>

\* The sleep is the only cancellation point of run().
WorkerCancelled(w) ==
  /\ In(w, {"sleep"}) /\ killed[w]
  /\ Goto(w, "ended")
  /\ UNCHANGED <<queueVars, held, threadVars, rpc, ownerVars, process>>

-----------------------------------------------------------------------------
(* The owner: loops over the workers, one call of a Thread at a time *)

Call(c) ==
  /\ Up /\ op = "none" /\ c \in Calls
  /\ JoinsFirst /\ c = "start" => asked # "stop"
  /\ op' = c /\ step' = "each" /\ turn' = 1
  /\ asked' = CASE c = "start"                       -> "start"
                [] c \in {"stop_wait", "kill"}        -> "join"
                [] c = "stop" /\ asked = "start"      -> "stop"
                [] OTHER                              -> asked
  /\ UNCHANGED <<queueVars, workerVars, threadVars, rpc, process>>

\* ~ThreadPoolWorkQueue(), then ~ThreadPool(): stop_threads(), and ~Thread(),
\* which is kill(), for each element of m_threads.
Destroy ==
  /\ Up /\ op = "none"
  /\ JoinsFirst => asked = "join"
  /\ op' = "destroy_stop" /\ step' = "each" /\ turn' = 1
  /\ UNCHANGED <<queueVars, workerVars, threadVars, rpc, asked, process>>

\* The loop goes on with the next worker, or the call ends.
NextTurn ==
  /\ step' = "each"
  /\ turn' = IF turn < ThreadNumber THEN turn + 1 ELSE 1
  /\ op' = IF turn < ThreadNumber THEN op
           ELSE CASE op = "destroy_stop" -> "destroy_kill"
                  [] op = "destroy_kill" -> "destroyed"
                  [] OTHER               -> "none"
  /\ UNCHANGED asked

At(calls, s) == Up /\ op \in calls /\ step = s

\* start() of a running worker returns false.
StartRunning ==
  /\ At({"start"}, "each")
  /\ wpc[turn] \in InRun
  /\ NextTurn
  /\ UNCHANGED <<queueVars, workerVars, threadVars, rpc, process>>

\* Otherwise it clears the stop request of the earlier run ...
StartForgets ==
  /\ At({"start"}, "each")
  /\ wpc[turn] \notin InRun
  /\ stopping' = [stopping EXCEPT ![turn] = FALSE]
  /\ step' = "create"
  /\ UNCHANGED <<queueVars, workerVars, killed, rpc, op, turn, asked, process>>

\* ... creates the pthread, which is fatal over one not joined ...
StartCreates ==
  /\ At({"start"}, "create")
  /\ IF wpc[turn] = "absent"
       THEN Goto(turn, "starting") /\ step' = "announced" /\ UNCHANGED process
       ELSE process' = "joinable overwritten" /\ UNCHANGED <<wpc, step>>
  /\ UNCHANGED <<queueVars, held, threadVars, rpc, op, turn, asked>>

\* ... and waits for it.
StartReturns ==
  /\ At({"start"}, "announced")
  /\ wpc[turn] # "starting"
  /\ NextTurn
  /\ UNCHANGED <<queueVars, workerVars, threadVars, rpc, process>>

StopOne ==
  /\ At({"stop", "destroy_stop"}, "each")
  /\ stopping' = [stopping EXCEPT ![turn] = TRUE]
  /\ NextTurn
  /\ UNCHANGED <<queueVars, workerVars, killed, rpc, process>>

\* Mutant: stop_threads(true) only stops.
StopAndWaitOne_NoWait ==
  /\ At({"stop_wait"}, "each")
  /\ stopping' = [stopping EXCEPT ![turn] = TRUE]
  /\ NextTurn
  /\ UNCHANGED <<queueVars, workerVars, killed, rpc, process>>

\* Mutant: stop_threads(true) only waits.
StopAndWaitOne_NoStop ==
  /\ At({"stop_wait"}, "each")
  /\ step' = "join"
  /\ UNCHANGED <<queueVars, workerVars, threadVars, rpc, op, turn, asked,
                 process>>

\* stop_and_wait() = stop(); wait()
StopAndWaitOne ==
  /\ At({"stop_wait"}, "each")
  /\ stopping' = [stopping EXCEPT ![turn] = TRUE]
  /\ step' = "join"
  /\ UNCHANGED <<queueVars, workerVars, killed, rpc, op, turn, asked, process>>

KillOne ==
  /\ At({"kill", "destroy_kill"}, "each")
  /\ killed' = IF wpc[turn] \in InRun THEN [killed EXCEPT ![turn] = TRUE]
               ELSE killed
  /\ step' = "join"
  /\ UNCHANGED <<queueVars, workerVars, stopping, rpc, op, turn, asked,
                 process>>

\* Mutant: wait() returns at once.
JoinOne_AtOnce ==
  /\ Up /\ step = "join"
  /\ NextTurn
  /\ UNCHANGED <<queueVars, workerVars, threadVars, rpc, process>>

\* wait(): there is no thread, or join() returns when it has ended.
JoinOne ==
  /\ Up /\ step = "join"
  /\ wpc[turn] \in {"absent", "ended"}
  /\ Goto(turn, "absent")
  /\ killed' = [killed EXCEPT ![turn] = FALSE]
  /\ NextTurn
  /\ UNCHANGED <<queueVars, held, stopping, rpc, process>>

-----------------------------------------------------------------------------
Worker(w) ==
  \/ Announce(w) \/ WorkerLoop(w) \/ WorkerLooks(w) \/ WorkerPops(w)
  \/ WorkerThrows(w) \/ WorkerPushes(w) \/ WorkerUsesDestroyed(w)
  \/ WorkerWakes(w) \/ WorkerCancelled(w)

OwnerLoops ==
  \/ StartRunning \/ StartForgets \/ StartCreates \/ StartReturns
  \/ StopOne \/ StopAndWaitOne \/ KillOne \/ JoinOne

Owner == (\E c \in Calls : Call(c)) \/ Destroy \/ OwnerLoops

Over == (~Up \/ op = "destroyed") /\ UNCHANGED vars

Next ==
  \/ WriteInput
  \/ \E r \in Readers : ReaderLooks(r) \/ ReaderPops(r)
  \/ \E w \in Workers : Worker(w)
  \/ Owner
  \/ Over

Spec == Init /\ [][Next]_vars

FairSpec == Spec /\ WF_vars(OwnerLoops) /\ \A w \in Workers : WF_vars(Worker(w))

-----------------------------------------------------------------------------
(* Properties *)

Held == {held[w] : w \in Workers} \ {None}

\* Whatever the workers, the readers and the owner do, kill included, every
\* input written is in exactly one place: queued, in a worker's hands, answered
\* or received (threadpool.h:118-156, threadsafequeue.h:49-65).
ItemsConserved ==
  /\ ToSet(input) \cup Held \cup ToSet(output) \cup ToSet(received) = 1..written
  /\ IsInjective(input) /\ IsInjective(output) /\ IsInjective(received)
  /\ ToSet(input) \cap ToSet(output) = {}
  /\ (ToSet(input) \cup ToSet(output)) \cap ToSet(received) = {}
  /\ (ToSet(input) \cup ToSet(output) \cup ToSet(received)) \cap Held = {}
  /\ \A v, w \in Workers : held[v] = held[w] /\ held[v] # None => v = w

\* A pool of one worker answers in the order of the inputs
\* (threadsafequeue.h:49-65).
SingleWorkerKeepsOrder ==
  ThreadNumber = 1 =>
    received \o output \o SetToSeq(Held) \o input = [i \in 1..written |-> i]

\* With one reader, output_queue_empty() followed by read_output() is safe
\* (threadpool.h:133-146).
ReaderNeverThrows == \A r \in Readers : rpc[r] # "threw"

\* No worker touches the queues after they are destroyed, and start_threads()
\* overwrites no std::thread (threadpool.h:51-54, 59-64, 116, 159-160).
OwnerIsSafe ==
  process \notin {"joinable overwritten", "queue used after destruction"}

\* No worker lets the exception of an empty queue leave run().
NoWorkerThrows == process # "uncaught exception"

\* stop_threads(true) and kill_threads() return only when no worker is left
\* (threadpool.h:70-87, threads.cpp:41-50).
JoinedMeansGone ==
  op = "none" /\ asked = "join" => \A w \in Workers : wpc[w] = "absent"

\* Each worker is a Thread as ThreadLife describes it.
Thread(w) == INSTANCE ThreadLife WITH
  EndsAlone   <- FALSE,
  Cancellable <- TRUE,
  life        <- IF wpc[w] \in InRun THEN "running" ELSE wpc[w],
  stopping    <- stopping[w],
  killed      <- killed[w]
WorkersAreThreads ==
  /\ \A w \in Workers : Thread(w)!Init
  /\ [][\A w \in Workers : [Thread(w)!Next]_(Thread(w)!lifeVars)]_vars

\* An input is answered when a worker runs that nobody stops or kills.
InputsAnswered ==
  \A i \in Items :
    i <= written /\ (\E w \in Workers : wpc[w] \in InRun)
      ~> \/ i \in ToSet(output) \cup ToSet(received)
         \/ \E w \in Workers : stopping[w] \/ killed[w]

\* Every call of the owner comes back, as long as inputs do not come in for
\* ever: a worker leaves its inner loop only when the queue is empty.
CallsReturn == op \in Calls ~> op = "none"
-----------------------------------------------------------------------------
(* Inductive invariants *)

\* A worker holds an item exactly between its pop and its push.
HandsMatchPlace == \A w \in Workers : held[w] # None <=> wpc[w] = "push"

\* Where the owner is in its loop, and which workers it has joined.
OwnerInv ==
  /\ step = "join" => op \in {"stop_wait", "kill", "destroy_kill"}
  /\ step \in {"create", "announced"} => op = "start"
  /\ op = "start" => asked = "start"
  /\ op = "stop" => asked # "start"
  /\ op \in {"stop_wait", "kill"} => asked = "join"
  /\ step = "create" => ~stopping[turn] /\ wpc[turn] \in {"absent", "ended"}
  /\ \A w \in Workers :
       /\ wpc[w] = "starting" => step = "announced" /\ turn = w
       /\ killed[w] =>
            step = "join" /\ turn = w /\ wpc[w] \in InRun \cup {"ended"}
       /\ op \in {"stop_wait", "kill"} /\ w < turn => wpc[w] = "absent"
       /\ op \in {"none", "stop"} /\ asked = "join" => wpc[w] = "absent"
       /\ JoinsFirst /\ op \in Destroying => wpc[w] = "absent"
       /\ JoinsFirst /\ asked = "start" /\ wpc[w] # "absent" =>
            ~stopping[w] /\ wpc[w] # "ended"

=============================================================================
