-------------------------- MODULE WorkQueueProofs --------------------------
(***************************************************************************)
(* Theorems about the work queue for every size of the pool, number of     *)
(* inputs and set of readers.  The types are proved together with          *)
(* HandsMatchPlace (an answer is an item only because the worker holds     *)
(* one); OwnerInv and ItemsConserved are each inductive on top of them.    *)
(***************************************************************************)
EXTENDS WorkQueue, SequenceTheorems, FiniteSetTheorems, TLAPS

-----------------------------------------------------------------------------
(* The elements of a queue *)

\* A push adds its item to the elements, and repeats none if it was not there.
LEMMA PushElements ==
  ASSUME NEW S, NEW s \in Seq(S), NEW e \in S
  PROVE  /\ Append(s, e) \in Seq(S)
         /\ ToSet(Append(s, e)) = ToSet(s) \cup {e}
         /\ IsInjective(s) /\ e \notin ToSet(s) => IsInjective(Append(s, e))
<1>1. /\ Append(s, e) \in Seq(S)
      /\ Len(s) \in Nat /\ Len(Append(s, e)) = Len(s) + 1
      /\ DOMAIN s = 1..Len(s) /\ DOMAIN Append(s, e) = 1..(Len(s) + 1)
      /\ \A i \in 1..Len(s) : Append(s, e)[i] = s[i]
      /\ Append(s, e)[Len(s) + 1] = e
  BY AppendProperties, LenProperties
<1>2. 1..(Len(s) + 1) = 1..Len(s) \cup {Len(s) + 1}
  BY <1>1
<1>3. ToSet(Append(s, e)) = ToSet(s) \cup {e}
  BY <1>1, <1>2 DEF ToSet
<1>4. ASSUME IsInjective(s), e \notin ToSet(s)  PROVE  IsInjective(Append(s, e))
  BY <1>1, <1>2, <1>4 DEF IsInjective, ToSet
<1> QED
  BY <1>1, <1>3, <1>4

\* A pop takes one element, for good when the queue repeats none.
LEMMA PopElements ==
  ASSUME NEW S, NEW s \in Seq(S), s # <<>>
  PROVE  /\ Head(s) \in S /\ Tail(s) \in Seq(S)
         /\ ToSet(s) = {Head(s)} \cup ToSet(Tail(s))
         /\ IsInjective(s) => /\ IsInjective(Tail(s))
                              /\ Head(s) \notin ToSet(Tail(s))
<1>1. /\ Head(s) \in S /\ Tail(s) \in Seq(S)
      /\ Len(s) \in Nat \ {0} /\ Len(Tail(s)) = Len(s) - 1
      /\ DOMAIN s = 1..Len(s) /\ DOMAIN Tail(s) = 1..(Len(s) - 1)
      /\ Head(s) = s[1]
      /\ \A i \in 1..(Len(s) - 1) : Tail(s)[i] = s[i + 1]
  BY HeadTailProperties, LenProperties, EmptySeq
<1>2. ToSet(s) \subseteq {Head(s)} \cup ToSet(Tail(s))
  <2>1. ASSUME NEW i \in 1..Len(s)
        PROVE  s[i] \in {Head(s)} \cup ToSet(Tail(s))
    <3>1. CASE i = 1
      BY <1>1, <3>1
    <3>2. CASE i # 1
      <4>1. i - 1 \in 1..(Len(s) - 1) /\ Tail(s)[i - 1] = s[i]
        BY <1>1, <3>2
      <4> QED
        BY <1>1, <4>1 DEF ToSet
    <3> QED
      BY <3>1, <3>2
  <2> QED
    BY <1>1, <2>1 DEF ToSet
<1>3. {Head(s)} \cup ToSet(Tail(s)) \subseteq ToSet(s)
  <2>1. \A i \in 1..(Len(s) - 1) : i + 1 \in 1..Len(s)
    BY <1>1
  <2>2. 1 \in 1..Len(s)
    BY <1>1
  <2> QED
    BY <1>1, <2>1, <2>2 DEF ToSet
<1>4. ASSUME IsInjective(s)
      PROVE  IsInjective(Tail(s)) /\ Head(s) \notin ToSet(Tail(s))
  <2>1. \A i \in 1..(Len(s) - 1) : i + 1 \in 1..Len(s) /\ i + 1 # 1
    BY <1>1
  <2>2. 1 \in 1..Len(s)
    BY <1>1
  <2>3. ASSUME NEW i \in 1..(Len(s) - 1), NEW j \in 1..(Len(s) - 1),
               Tail(s)[i] = Tail(s)[j]
        PROVE  i = j
    <3>1. i + 1 = j + 1
      BY <1>1, <1>4, <2>1, <2>3 DEF IsInjective
    <3> QED
      BY <3>1
  <2> QED
    BY <1>1, <1>4, <2>1, <2>2, <2>3 DEF IsInjective, ToSet
<1> QED
  BY <1>1, <1>2, <1>3, <1>4

-----------------------------------------------------------------------------
(* Types *)

\* The loop of a call stays within the pool.
LEMMA NextTurnTypes ==
  ASSUME NextTurn, turn \in Workers, op \in {"none"} \cup Calls \cup Destroying,
         asked \in {"start", "stop", "join"}
  PROVE  /\ step' = "each" /\ turn' \in Workers
         /\ op' \in {"none"} \cup Calls \cup Destroying
         /\ asked' \in {"start", "stop", "join"}
BY WorkQueueAssumption DEF NextTurn, Workers, Calls, Destroying

\* Every step keeps every variable in its type.
LEMMA NextTypeOK ==
  ASSUME TypeOK, HandsMatchPlace, [Next]_vars
  PROVE  TypeOK'
<1>0. MaxItems \in Nat /\ 1 \in Workers
  BY WorkQueueAssumption DEF Workers
<1> USE DEF TypeOK
<1>1. CASE WriteInput
  <2>1. written' \in Items /\ written' \in 0..MaxItems
    <3>1. written \in 0..MaxItems /\ written < MaxItems /\ written' = written + 1
      BY <1>1 DEF WriteInput
    <3> HIDE DEF TypeOK
    <3> QED
      BY <1>0, <3>1 DEF Items
  <2> QED
    BY <1>1, <2>1, PushElements DEF WriteInput, workerVars, threadVars, ownerVars
<1>2. ASSUME NEW r \in Readers, ReaderLooks(r)  PROVE  TypeOK'
  BY <1>2 DEF ReaderLooks, queueVars, workerVars, threadVars, ownerVars
<1>3. ASSUME NEW r \in Readers, ReaderPops(r)  PROVE  TypeOK'
  <2>1. CASE output = <<>>
    BY <1>3, <2>1 DEF ReaderPops, workerVars, threadVars, ownerVars
  <2>2. CASE output # <<>>
    <3>1. Head(output) \in Items /\ Tail(output) \in Seq(Items)
      BY <2>2, PopElements
    <3>2. Append(received, Head(output)) \in Seq(Items)
      BY <3>1, PushElements
    <3> QED
      BY <1>3, <2>2, <3>1, <3>2 DEF ReaderPops, workerVars, threadVars, ownerVars
  <2> QED
    BY <2>1, <2>2
<1>4. ASSUME NEW w \in Workers, Worker(w)  PROVE  TypeOK'
  <2> USE DEF In, Goto, InRun, queueVars, workerVars, threadVars, ownerVars
  <2>1. CASE Announce(w)
    BY <2>1 DEF Announce
  <2>2. CASE WorkerLoop(w)
    BY <2>2 DEF WorkerLoop
  <2>3. CASE WorkerLooks(w)
    BY <2>3 DEF WorkerLooks
  <2>4. CASE WorkerPops(w)
    <3>1. Head(input) \in Items /\ Tail(input) \in Seq(Items)
      BY <2>4, PopElements DEF WorkerPops
    <3> QED
      BY <2>4, <3>1 DEF WorkerPops
  <2>5. CASE WorkerThrows(w)
    BY <2>5 DEF WorkerThrows
  <2>6. CASE WorkerPushes(w)
    <3>1. held[w] \in Items
      BY <2>6 DEF WorkerPushes, HandsMatchPlace
    <3>2. output' \in Seq(Items)
      BY <2>6, <3>1, PushElements DEF WorkerPushes
    <3> QED
      BY <2>6, <3>2 DEF WorkerPushes
  <2>7. CASE WorkerUsesDestroyed(w)
    BY <2>7 DEF WorkerUsesDestroyed
  <2>8. CASE WorkerWakes(w)
    BY <2>8 DEF WorkerWakes
  <2>9. CASE WorkerCancelled(w)
    BY <2>9 DEF WorkerCancelled
  <2> QED
    BY <1>4, <2>1, <2>2, <2>3, <2>4, <2>5, <2>6, <2>7, <2>8, <2>9 DEF Worker
<1>5. CASE Owner
  <2> USE DEF At, Goto, queueVars, workerVars, threadVars, ownerVars
  <2>1. ASSUME NEW c \in Calls, Call(c)  PROVE  TypeOK'
    BY <1>0, <2>1 DEF Call
  <2>2. CASE Destroy
    BY <1>0, <2>2 DEF Destroy, Destroying
  <2>3. CASE StartRunning
    BY <2>3, NextTurnTypes DEF StartRunning
  <2>4. CASE StartForgets
    BY <2>4 DEF StartForgets
  <2>5. CASE StartCreates
    BY <2>5 DEF StartCreates
  <2>6. CASE StartReturns
    BY <2>6, NextTurnTypes DEF StartReturns
  <2>7. CASE StopOne
    BY <2>7, NextTurnTypes DEF StopOne
  <2>8. CASE StopAndWaitOne
    BY <2>8 DEF StopAndWaitOne
  <2>9. CASE KillOne
    BY <2>9 DEF KillOne
  <2>10. CASE JoinOne
    BY <2>10, NextTurnTypes DEF JoinOne
  <2> QED
    BY <1>5, <2>1, <2>2, <2>3, <2>4, <2>5, <2>6, <2>7, <2>8, <2>9, <2>10
       DEF Owner, OwnerLoops
<1>6. CASE UNCHANGED vars
  BY <1>6 DEF vars, queueVars, workerVars, threadVars, ownerVars
<1> QED
  BY <1>1, <1>2, <1>3, <1>4, <1>5, <1>6 DEF Next, Over

\* Every step keeps items in the hands of the workers that push, and no other.
LEMMA NextHands ==
  ASSUME TypeOK, HandsMatchPlace, [Next]_vars
  PROVE  HandsMatchPlace'
<1> USE DEF HandsMatchPlace
<1>0. /\ wpc \in [Workers -> InRun \cup {"absent", "starting", "ended"}]
      /\ held \in [Workers -> Items \cup {None}]
      /\ turn \in Workers
  BY DEF TypeOK
<1>1. CASE WriteInput
  BY <1>1 DEF WriteInput, workerVars
<1>2. ASSUME NEW r \in Readers, ReaderLooks(r) \/ ReaderPops(r)
      PROVE  HandsMatchPlace'
  BY <1>2 DEF ReaderLooks, ReaderPops, workerVars
<1>3. ASSUME NEW w \in Workers, Worker(w)  PROVE  HandsMatchPlace'
  <2> USE DEF In, Goto, workerVars
  <2>1. CASE WorkerPops(w)
    <3>1. Head(input) \in Items
      BY <2>1, PopElements DEF WorkerPops, TypeOK
    <3>2. Head(input) # None
      BY <3>1 DEF Items, None
    <3> QED
      BY <1>0, <2>1, <3>2 DEF WorkerPops
  <2>2. CASE WorkerPushes(w)
    BY <1>0, <2>2 DEF WorkerPushes
  <2>3. CASE \/ Announce(w) \/ WorkerLoop(w) \/ WorkerLooks(w)
             \/ WorkerWakes(w) \/ WorkerCancelled(w)
    BY <1>0, <2>3 DEF Announce, WorkerLoop, WorkerLooks, WorkerWakes,
       WorkerCancelled
  <2>4. CASE WorkerThrows(w) \/ WorkerUsesDestroyed(w)
    BY <2>4 DEF WorkerThrows, WorkerUsesDestroyed
  <2> QED
    BY <1>3, <2>1, <2>2, <2>3, <2>4 DEF Worker
<1>4. CASE Owner
  <2>1. CASE StartCreates
    BY <1>0, <2>1 DEF StartCreates, Goto
  <2>2. CASE JoinOne
    BY <1>0, <2>2 DEF JoinOne, Goto
  <2>3. CASE \/ \E c \in Calls : Call(c)
             \/ Destroy \/ StartRunning \/ StartForgets \/ StartReturns
             \/ StopOne \/ StopAndWaitOne \/ KillOne
    BY <2>3 DEF Call, Destroy, StartRunning, StartForgets, StartReturns,
       StopOne, StopAndWaitOne, KillOne, workerVars
  <2> QED
    BY <1>4, <2>1, <2>2, <2>3 DEF Owner, OwnerLoops
<1>5. CASE UNCHANGED vars
  BY <1>5 DEF vars, workerVars
<1> QED
  BY <1>1, <1>2, <1>3, <1>4, <1>5 DEF Next, Over

LEMMA InitTypes == Init => TypeOK /\ HandsMatchPlace
BY WorkQueueAssumption, EmptySeq
   DEF Init, TypeOK, HandsMatchPlace, Workers, Items, None, InRun

\* Every variable of the work queue keeps its type.
THEOREM TypesHold == Spec => [](TypeOK /\ HandsMatchPlace)
<1>1. Init => TypeOK /\ HandsMatchPlace
  BY InitTypes
<1>2. TypeOK /\ HandsMatchPlace /\ [Next]_vars => (TypeOK /\ HandsMatchPlace)'
  BY NextTypeOK, NextHands
<1> QED
  BY <1>1, <1>2, PTL DEF Spec

-----------------------------------------------------------------------------
(* The owner *)

\* A turn ends with the next worker, or with the call when all had theirs.
LEMMA NextTurnMoves ==
  ASSUME NextTurn, turn \in Workers
  PROVE  /\ step' = "each" /\ asked' = asked
         /\ \/ op' = op /\ \A w \in Workers : w < turn' => w < turn \/ w = turn
            \/ /\ op' = CASE op = "destroy_stop" -> "destroy_kill"
                          [] op = "destroy_kill" -> "destroyed"
                          [] OTHER               -> "none"
               /\ turn' = 1
               /\ \A w \in Workers : w < turn \/ w = turn
BY WorkQueueAssumption DEF NextTurn, Workers

\* No step of a worker disturbs what the owner relies on: a worker leaves
\* run() only when it was asked to.
LEMMA WorkerOwnerInv ==
  ASSUME TypeOK, OwnerInv, NEW w \in Workers, Worker(w)
  PROVE  OwnerInv'
<1>0. /\ wpc \in [Workers -> InRun \cup {"absent", "starting", "ended"}]
      /\ turn \in Workers
  BY DEF TypeOK
<1> USE <1>0 DEF OwnerInv, In, Goto, InRun, threadVars, ownerVars, workerVars
<1>1. CASE Announce(w)
  BY <1>1 DEF Announce
<1>2. CASE WorkerLoop(w)
  BY <1>2 DEF WorkerLoop
<1>3. CASE WorkerLooks(w)
  BY <1>3 DEF WorkerLooks
<1>4. CASE WorkerPops(w)
  BY <1>4 DEF WorkerPops
<1>5. CASE WorkerThrows(w)
  BY <1>5 DEF WorkerThrows
<1>6. CASE WorkerPushes(w)
  BY <1>6 DEF WorkerPushes
<1>7. CASE WorkerUsesDestroyed(w)
  BY <1>7 DEF WorkerUsesDestroyed
<1>8. CASE WorkerWakes(w)
  BY <1>8 DEF WorkerWakes
<1>9. CASE WorkerCancelled(w)
  BY <1>9 DEF WorkerCancelled, Destroying
<1> QED
  BY <1>1, <1>2, <1>3, <1>4, <1>5, <1>6, <1>7, <1>8, <1>9 DEF Worker

\* Nor does a step of the owner.
LEMMA OwnerOwnerInv ==
  ASSUME TypeOK, OwnerInv, Owner
  PROVE  OwnerInv'
<1>0. /\ wpc \in [Workers -> InRun \cup {"absent", "starting", "ended"}]
      /\ stopping \in [Workers -> BOOLEAN] /\ killed \in [Workers -> BOOLEAN]
      /\ turn \in Workers
      /\ op \in {"none"} \cup Calls \cup Destroying
      /\ asked \in {"start", "stop", "join"}
  BY DEF TypeOK
<1>a. \A w \in Workers : ~(w < 1)
  BY WorkQueueAssumption DEF Workers
<1> USE <1>0, <1>a
    DEF OwnerInv, At, Goto, InRun, Destroying, Calls, threadVars, ownerVars,
        workerVars
<1>1. ASSUME NEW c \in Calls, Call(c)  PROVE  OwnerInv'
  BY <1>1 DEF Call
<1>2. CASE Destroy
  BY <1>2 DEF Destroy
<1>3. CASE StartRunning
  BY <1>3, NextTurnMoves DEF StartRunning
<1>4. CASE StartForgets
  BY <1>4 DEF StartForgets
<1>5. CASE StartCreates
  BY <1>5 DEF StartCreates
<1>6. CASE StartReturns
  BY <1>6, NextTurnMoves DEF StartReturns
<1>7. CASE StopOne
  BY <1>7, NextTurnMoves DEF StopOne
<1>8. CASE StopAndWaitOne
  BY <1>8 DEF StopAndWaitOne
<1>9. CASE KillOne
  BY <1>9 DEF KillOne
<1>10. CASE JoinOne
  BY <1>10, NextTurnMoves DEF JoinOne
<1> QED
  BY <1>1, <1>2, <1>3, <1>4, <1>5, <1>6, <1>7, <1>8, <1>9, <1>10
     DEF Owner, OwnerLoops

LEMMA InitOwnerInv == Init => OwnerInv
BY DEF Init, OwnerInv, Destroying

LEMMA NextOwnerInv == ASSUME TypeOK, OwnerInv, [Next]_vars PROVE OwnerInv'
<1>1. CASE WriteInput
  BY <1>1 DEF OwnerInv, WriteInput, workerVars, threadVars, ownerVars
<1>2. ASSUME NEW r \in Readers, ReaderLooks(r) \/ ReaderPops(r)
      PROVE  OwnerInv'
  BY <1>2 DEF OwnerInv, ReaderLooks, ReaderPops, workerVars, threadVars, ownerVars
<1>3. CASE UNCHANGED vars
  BY <1>3 DEF OwnerInv, vars, workerVars, threadVars, ownerVars
<1> QED
  BY <1>1, <1>2, <1>3, WorkerOwnerInv, OwnerOwnerInv DEF Next, Over

\* Where the owner is in its calls says which workers it has joined.
THEOREM OwnerInvHolds == Spec => []OwnerInv
<1>1. TypeOK /\ OwnerInv /\ [Next]_vars => OwnerInv'
  BY NextOwnerInv
<1> QED
  BY <1>1, InitOwnerInv, TypesHold, PTL DEF Spec

\* stop_threads(true) and kill_threads() return only when no worker is left.
THEOREM JoinedMeansGoneHolds == Spec => []JoinedMeansGone
<1>1. OwnerInv => JoinedMeansGone
  BY DEF OwnerInv, JoinedMeansGone
<1> QED
  BY <1>1, OwnerInvHolds, PTL

\* An owner that joins before it starts again or destroys the pool never
\* overwrites a thread, and no worker of it meets a destroyed queue.
THEOREM OwnerIsSafeHolds == ASSUME JoinsFirst PROVE Spec => []OwnerIsSafe
<1>1. Init => OwnerIsSafe
  BY DEF Init, OwnerIsSafe
<1>2. TypeOK /\ OwnerInv /\ OwnerIsSafe /\ [Next]_vars => OwnerIsSafe'
  <2> SUFFICES ASSUME TypeOK, OwnerInv, OwnerIsSafe, [Next]_vars
               PROVE  OwnerIsSafe'
    OBVIOUS
  <2> USE DEF OwnerIsSafe
  <2>1. ASSUME NEW w \in Workers, WorkerUsesDestroyed(w)  PROVE  FALSE
    BY <2>1 DEF WorkerUsesDestroyed, OwnerInv, QueuesAlive, In
  <2>2. ASSUME NEW w \in Workers, Worker(w)  PROVE  OwnerIsSafe'
    BY <2>1, <2>2 DEF Worker, Announce, WorkerLoop, WorkerLooks, WorkerPops,
       WorkerThrows, WorkerPushes, WorkerWakes, WorkerCancelled
  <2>3. CASE StartCreates
    BY <2>3 DEF StartCreates, At, OwnerInv, TypeOK
  <2>4. CASE Owner
    BY <2>3, <2>4 DEF Owner, OwnerLoops, Call, Destroy, StartRunning,
       StartForgets, StartReturns, StopOne, StopAndWaitOne, KillOne, JoinOne
  <2>5. CASE WriteInput \/ \E r \in Readers : ReaderLooks(r) \/ ReaderPops(r)
    BY <2>5 DEF WriteInput, ReaderLooks, ReaderPops
  <2>6. CASE UNCHANGED vars
    BY <2>6 DEF vars
  <2> QED
    BY <2>2, <2>4, <2>5, <2>6 DEF Next, Over
<1> QED
  BY <1>1, <1>2, TypesHold, OwnerInvHolds, PTL DEF Spec

-----------------------------------------------------------------------------
(* The items *)

\* What a worker takes is held once; what it gives away is held no more.
LEMMA HeldMoves ==
  ASSUME held \in [Workers -> Items \cup {None}], NEW w \in Workers,
         NEW e \in Items \cup {None}, held' = [held EXCEPT ![w] = e],
         \A u, v \in Workers : held[u] = held[v] /\ held[u] # None => u = v
  PROVE  Held' = ((Held \ {held[w]}) \cup {e}) \ {None}
<1>1. \A v \in Workers : held'[v] = IF v = w THEN e ELSE held[v]
  OBVIOUS
<1> QED
  BY <1>1 DEF Held

\* Every step keeps each input written in exactly one place.
LEMMA NextItems ==
  ASSUME TypeOK, HandsMatchPlace, ItemsConserved, [Next]_vars
  PROVE  ItemsConserved'
<1>0. /\ input \in Seq(Items) /\ output \in Seq(Items)
      /\ received \in Seq(Items)
      /\ written \in 0..MaxItems
      /\ held \in [Workers -> Items \cup {None}]
  BY DEF TypeOK
<1>1. None \notin Items
  BY DEF None, Items
<1> USE DEF ItemsConserved
<1>2. CASE WriteInput
  <2>1. /\ written' = written + 1 /\ written' \in Items
        /\ 1..written' = 1..written \cup {written'} /\ written' \notin 1..written
    BY <1>0, <1>2, WorkQueueAssumption DEF WriteInput, Items
  <2>2. /\ ToSet(input') = ToSet(input) \cup {written'}
        /\ IsInjective(input')
    BY <1>0, <1>2, <2>1, PushElements DEF WriteInput
  <2>3. Held' = Held
    BY <1>2 DEF WriteInput, workerVars, Held
  <2> QED
    BY <1>2, <2>1, <2>2, <2>3 DEF WriteInput, workerVars
<1>3. ASSUME NEW w \in Workers, WorkerPops(w)  PROVE  ItemsConserved'
  <2>1. /\ Head(input) \in Items
        /\ ToSet(input) = {Head(input)} \cup ToSet(input')
        /\ IsInjective(input') /\ Head(input) \notin ToSet(input')
    BY <1>0, <1>3, PopElements DEF WorkerPops
  <2>2. held[w] = None
    BY <1>3 DEF WorkerPops, In, HandsMatchPlace
  <2>3. Held' = Held \cup {Head(input)}
    <3>1. Held' = ((Held \ {None}) \cup {Head(input)}) \ {None}
      BY <1>0, <1>3, <2>1, <2>2, HeldMoves DEF WorkerPops
    <3> QED
      BY <1>1, <2>1, <3>1 DEF Held
  <2>4. \A u, v \in Workers : held'[u] = held'[v] /\ held'[u] # None => u = v
    <3>1. \A v \in Workers : held[v] # Head(input)
      BY <1>1, <2>1 DEF Held
    <3> QED
      BY <1>0, <1>3, <3>1 DEF WorkerPops
  <2> QED
    BY <1>3, <2>1, <2>3, <2>4 DEF WorkerPops
<1>4. ASSUME NEW w \in Workers, WorkerPushes(w)  PROVE  ItemsConserved'
  <2>1. held[w] \in Items /\ held[w] \in Held
    BY <1>0, <1>4 DEF WorkerPushes, In, HandsMatchPlace, Held
  <2>2. ToSet(output') = ToSet(output) \cup {held[w]} /\ IsInjective(output')
    BY <1>0, <1>4, <2>1, PushElements DEF WorkerPushes
  <2>3. Held' = Held \ {held[w]}
    <3>1. Held' = ((Held \ {held[w]}) \cup {None}) \ {None}
      BY <1>0, <1>4, HeldMoves DEF WorkerPushes
    <3> QED
      BY <3>1 DEF Held
  <2>4. \A u, v \in Workers : held'[u] = held'[v] /\ held'[u] # None => u = v
    BY <1>0, <1>4 DEF WorkerPushes
  <2> QED
    BY <1>4, <2>1, <2>2, <2>3, <2>4 DEF WorkerPushes
<1>5. ASSUME NEW r \in Readers, ReaderPops(r)  PROVE  ItemsConserved'
  <2>1. CASE output = <<>>
    BY <1>5, <2>1 DEF ReaderPops, workerVars, Held
  <2>2. CASE output # <<>>
    <3>1. /\ Head(output) \in Items
          /\ ToSet(output) = {Head(output)} \cup ToSet(output')
          /\ IsInjective(output') /\ Head(output) \notin ToSet(output')
      <4>1. output' = Tail(output)
        BY <1>5, <2>2 DEF ReaderPops
      <4>2. IsInjective(output)
        OBVIOUS
      <4> HIDE DEF ItemsConserved
      <4> QED
        BY <1>0, <2>2, <4>1, <4>2, PopElements
    <3>2. /\ ToSet(received') = ToSet(received) \cup {Head(output)}
          /\ IsInjective(received')
      <4>1. received' = Append(received, Head(output))
        BY <1>5, <2>2 DEF ReaderPops
      <4>2. IsInjective(received) /\ Head(output) \notin ToSet(received)
        BY <3>1
      <4> HIDE DEF ItemsConserved
      <4> QED
        BY <1>0, <3>1, <4>1, <4>2, PushElements
    <3>3. Held' = Held
      BY <1>5 DEF ReaderPops, workerVars, Held
    <3> QED
      BY <1>5, <3>1, <3>2, <3>3 DEF ReaderPops, workerVars
  <2> QED
    BY <2>1, <2>2
<1>6. CASE UNCHANGED <<queueVars, held>>
  BY <1>6 DEF queueVars, Held
<1>7. ASSUME NEW w \in Workers,
             Worker(w), ~WorkerPops(w), ~WorkerPushes(w)
      PROVE  UNCHANGED <<queueVars, held>>
  BY <1>7 DEF Worker, Announce, WorkerLoop, WorkerLooks, WorkerThrows,
     WorkerUsesDestroyed, WorkerWakes, WorkerCancelled, workerVars
<1>8. CASE Owner
  <2>1. UNCHANGED <<queueVars, held>>
    BY <1>8 DEF Owner, OwnerLoops, Call, Destroy, StartRunning, StartForgets,
       StartCreates, StartReturns, StopOne, StopAndWaitOne, KillOne, JoinOne,
       workerVars
  <2> QED
    BY <1>6, <2>1
<1>9. ASSUME NEW r \in Readers, ReaderLooks(r)  PROVE  ItemsConserved'
  BY <1>6, <1>9 DEF ReaderLooks, workerVars
<1>10. CASE UNCHANGED vars
  BY <1>6, <1>10 DEF vars, workerVars
<1> QED
  BY <1>2, <1>3, <1>4, <1>5, <1>6, <1>7, <1>8, <1>9, <1>10 DEF Next, Over

LEMMA InitItems == Init => ItemsConserved
<1>1. ToSet(<<>>) = {} /\ IsInjective(<<>>)
  BY DEF ToSet, IsInjective
<1>2. 1..0 = {}
  OBVIOUS
<1> QED
  BY <1>1, <1>2 DEF Init, ItemsConserved, Held

\* Whatever the workers, the readers and the owner do, every input written is
\* in exactly one place: queued, in a worker's hands, answered or received.
THEOREM ItemsConservedHolds == Spec => []ItemsConserved
<1>1. TypeOK /\ HandsMatchPlace /\ ItemsConserved /\ [Next]_vars
        => ItemsConserved'
  BY NextItems
<1> QED
  BY <1>1, InitItems, TypesHold, PTL DEF Spec

\* A single reader never meets the exception of an empty queue, since nobody
\* else takes outputs between its look and its pop.
THEOREM ReaderNeverThrowsHolds ==
  ASSUME NEW r, Readers = {r}
  PROVE  Spec => []ReaderNeverThrows
<1> DEFINE ReaderInv == rpc[r] # "threw" /\ (rpc[r] = "pop" => output # <<>>)
<1>1. Init => ReaderInv
  BY DEF Init
<1>2. TypeOK /\ HandsMatchPlace /\ ReaderInv /\ [Next]_vars => ReaderInv'
  <2> SUFFICES ASSUME TypeOK, HandsMatchPlace, ReaderInv, [Next]_vars
               PROVE  ReaderInv'
    OBVIOUS
  <2>1. /\ output \in Seq(Items) /\ rpc \in [Readers -> {"look", "pop", "threw"}]
        /\ held \in [Workers -> Items \cup {None}]
    BY DEF TypeOK
  <2>2. CASE ReaderLooks(r)
    BY <2>1, <2>2 DEF ReaderLooks, queueVars
  <2>3. CASE ReaderPops(r)
    BY <2>1, <2>3 DEF ReaderPops
  <2>4. ASSUME NEW w \in Workers, WorkerPushes(w)  PROVE  ReaderInv'
    <3>1. held[w] \in Items
      BY <2>1, <2>4 DEF WorkerPushes, In, HandsMatchPlace
    <3>2. output' # <<>>
      BY <2>1, <2>4, <3>1, AppendProperties DEF WorkerPushes
    <3> QED
      BY <2>4, <3>2 DEF WorkerPushes
  <2>5. ASSUME NEW w \in Workers, Worker(w), ~WorkerPushes(w)
        PROVE  UNCHANGED <<output, rpc>>
    BY <2>5 DEF Worker, Announce, WorkerLoop, WorkerLooks, WorkerPops,
       WorkerThrows, WorkerUsesDestroyed, WorkerWakes, WorkerCancelled, queueVars
  <2>6. CASE Owner
    BY <2>6 DEF Owner, OwnerLoops, Call, Destroy, StartRunning, StartForgets,
       StartCreates, StartReturns, StopOne, StopAndWaitOne, KillOne, JoinOne,
       queueVars
  <2>7. CASE WriteInput \/ UNCHANGED vars
    BY <2>7 DEF WriteInput, vars, queueVars
  <2> QED
    BY <2>2, <2>3, <2>4, <2>5, <2>6, <2>7 DEF Next, Over
<1>3. ReaderInv => ReaderNeverThrows
  BY DEF ReaderNeverThrows
<1> QED
  BY <1>1, <1>2, <1>3, TypesHold, PTL DEF Spec

-----------------------------------------------------------------------------
(* The workers as threads *)

\* What a step may do to one worker as its Thread: nothing, or one step of the
\* life cycle.
LEMMA WorkerIsThread ==
  ASSUME JoinsFirst, TypeOK, OwnerInv, [Next]_vars, NEW v \in Workers
  PROVE  [Thread(v)!Next]_(Thread(v)!lifeVars)
<1> DEFINE life  == IF wpc[v] \in InRun THEN "running" ELSE wpc[v]
           Same  == life' = life /\ stopping'[v] = stopping[v]
                                 /\ killed'[v] = killed[v]
<1>0. /\ wpc \in [Workers -> InRun \cup {"absent", "starting", "ended"}]
      /\ stopping \in [Workers -> BOOLEAN] /\ killed \in [Workers -> BOOLEAN]
      /\ turn \in Workers
  BY DEF TypeOK
<1> USE <1>0 DEF In, At, Goto, InRun, threadVars, workerVars
<1>1. Same => [Thread(v)!Next]_(Thread(v)!lifeVars)
  BY DEF Thread!lifeVars
<1>2. ASSUME NEW w \in Workers, Worker(w)
      PROVE  [Thread(v)!Next]_(Thread(v)!lifeVars)
  <2>1. CASE Announce(w)
    <3>1. CASE v # w
      BY <1>1, <2>1, <3>1 DEF Announce
    <3>2. CASE v = w
      BY <2>1, <3>2 DEF Announce, Thread!Next, Thread!Announce
    <3> QED
      BY <3>1, <3>2
  <2>2. CASE WorkerLoop(w)
    <3>1. CASE v # w \/ ~stopping[w]
      BY <1>1, <2>2, <3>1 DEF WorkerLoop
    <3>2. CASE v = w /\ stopping[w]
      BY <2>2, <3>2 DEF WorkerLoop, Thread!Next, Thread!End
    <3> QED
      BY <3>1, <3>2
  <2>3. CASE \/ WorkerLooks(w) \/ WorkerPops(w) \/ WorkerPushes(w)
             \/ WorkerWakes(w)
    BY <1>1, <2>3 DEF WorkerLooks, WorkerPops, WorkerPushes, WorkerWakes
  <2>4. CASE WorkerThrows(w) \/ WorkerUsesDestroyed(w)
    BY <1>1, <2>4 DEF WorkerThrows, WorkerUsesDestroyed
  <2>5. CASE WorkerCancelled(w)
    <3>1. CASE v # w
      BY <1>1, <2>5, <3>1 DEF WorkerCancelled
    <3>2. CASE v = w
      BY <2>5, <3>2 DEF WorkerCancelled, Thread!Next, Thread!End
    <3> QED
      BY <3>1, <3>2
  <2> QED
    BY <1>2, <2>1, <2>2, <2>3, <2>4, <2>5 DEF Worker
<1>3. CASE Owner
  <2>1. CASE \/ \E c \in Calls : Call(c)
             \/ Destroy \/ StartRunning \/ StartReturns
    BY <1>1, <2>1 DEF Call, Destroy, StartRunning, StartReturns
  <2>2. CASE v # turn
    BY <1>1, <1>3, <2>2 DEF Owner, OwnerLoops, Call, Destroy, StartRunning,
       StartForgets, StartCreates, StartReturns, StopOne, StopAndWaitOne,
       KillOne, JoinOne
  <2>3. CASE StartForgets /\ v = turn
    <3>1. wpc[v] = "absent"
      BY <2>3 DEF StartForgets, OwnerInv
    <3> QED
      BY <2>3, <3>1 DEF StartForgets, Thread!Next, Thread!Forget
  <2>4. CASE StartCreates /\ v = turn
    BY <1>1, <2>4 DEF StartCreates, Thread!Next, Thread!Create
  <2>5. CASE (StopOne \/ StopAndWaitOne) /\ v = turn
    BY <2>5 DEF StopOne, StopAndWaitOne, Thread!Next, Thread!Stop
  <2>6. CASE KillOne /\ v = turn
    BY <1>1, <2>6 DEF KillOne, Thread!Next, Thread!Kill
  <2>7. CASE JoinOne /\ v = turn
    <3>0. /\ wpc[v] \in {"absent", "ended"} /\ wpc'[v] = "absent"
          /\ killed'[v] = FALSE /\ stopping'[v] = stopping[v]
      BY <2>7 DEF JoinOne
    <3>1. CASE wpc[v] = "absent"
      BY <1>1, <3>0, <3>1 DEF OwnerInv
    <3>2. CASE wpc[v] = "ended"
      BY <3>0, <3>2 DEF Thread!Next, Thread!Reap
    <3> QED
      BY <3>0, <3>1, <3>2
  <2> QED
    BY <1>3, <2>1, <2>2, <2>3, <2>4, <2>5, <2>6, <2>7 DEF Owner, OwnerLoops
<1>4. CASE WriteInput \/ \E r \in Readers : ReaderLooks(r) \/ ReaderPops(r)
  BY <1>1, <1>4 DEF WriteInput, ReaderLooks, ReaderPops
<1>5. CASE UNCHANGED vars
  BY <1>1, <1>5 DEF vars
<1> QED
  BY <1>2, <1>3, <1>4, <1>5 DEF Next, Over

\* Under an owner that joins before it starts again, each worker of the pool
\* is a Thread as its clients know it.
THEOREM PoolRunsThreads == ASSUME JoinsFirst PROVE Spec => WorkersAreThreads
<1>1. Init => \A w \in Workers : Thread(w)!Init
  BY DEF Init, InRun, Thread!Init
<1>2. TypeOK /\ OwnerInv /\ [Next]_vars
        => [\A w \in Workers : [Thread(w)!Next]_(Thread(w)!lifeVars)]_vars
  BY WorkerIsThread
<1> QED
  BY <1>1, <1>2, TypesHold, OwnerInvHolds, PTL DEF Spec, WorkersAreThreads

-----------------------------------------------------------------------------
(* Order, in a pool of one worker *)

\* An item goes from the front of a queue to the end of what is before it.
LEMMA MovesOver ==
  ASSUME NEW S, NEW s \in Seq(S), NEW t \in Seq(S), t # <<>>
  PROVE  Append(s, Head(t)) \o Tail(t) = s \o t
<1>1. /\ Head(t) \in S /\ Tail(t) \in Seq(S) /\ Head(t) = t[1]
      /\ Len(t) \in Nat \ {0} /\ Len(Tail(t)) = Len(t) - 1
      /\ \A i \in 1..(Len(t) - 1) : Tail(t)[i] = t[i + 1]
  BY HeadTailProperties, LenProperties, EmptySeq
<1> DEFINE a == Append(s, Head(t))
<1>2. /\ a \in Seq(S) /\ Len(a) = Len(s) + 1 /\ Len(s) \in Nat
      /\ \A i \in 1..Len(s) : a[i] = s[i]
      /\ a[Len(s) + 1] = t[1]
  BY <1>1, AppendProperties, LenProperties
<1> HIDE DEF a
<1>3. /\ a \o Tail(t) \in Seq(S) /\ Len(a \o Tail(t)) = Len(s) + Len(t)
      /\ \A i \in 1..(Len(s) + Len(t)) :
           (a \o Tail(t))[i] = IF i <= Len(a) THEN a[i] ELSE Tail(t)[i - Len(a)]
  <2>1. /\ a \o Tail(t) \in Seq(S) /\ Len(a \o Tail(t)) = Len(a) + Len(Tail(t))
        /\ \A i \in 1..(Len(a) + Len(Tail(t))) :
             (a \o Tail(t))[i] = IF i <= Len(a) THEN a[i] ELSE Tail(t)[i - Len(a)]
    BY <1>1, <1>2, ConcatProperties
  <2>2. Len(a) + Len(Tail(t)) = Len(s) + Len(t)
    BY <1>1, <1>2
  <2> QED
    BY <2>1, <2>2
<1>4. /\ s \o t \in Seq(S) /\ Len(s \o t) = Len(s) + Len(t)
      /\ \A i \in 1..(Len(s) + Len(t)) :
           (s \o t)[i] = IF i <= Len(s) THEN s[i] ELSE t[i - Len(s)]
  BY ConcatProperties
<1>5. ASSUME NEW i \in 1..(Len(s) + Len(t))  PROVE  (a \o Tail(t))[i] = (s \o t)[i]
  <2>1. CASE i <= Len(s)
    <3>1. i \in 1..Len(s) /\ i <= Len(a)
      BY <1>2, <2>1
    <3> QED
      BY <1>2, <1>3, <1>4, <2>1, <3>1
  <2>2. CASE i = Len(s) + 1
    <3>1. i <= Len(a) /\ ~(i <= Len(s)) /\ i - Len(s) = 1
      BY <1>2, <2>2
    <3> QED
      BY <1>2, <1>3, <1>4, <2>2, <3>1
  <2>3. CASE i > Len(s) + 1
    <3>1. /\ ~(i <= Len(a)) /\ ~(i <= Len(s)) /\ i - Len(a) \in 1..(Len(t) - 1)
          /\ (i - Len(a)) + 1 = i - Len(s)
      BY <1>1, <1>2, <2>3
    <3> QED
      BY <1>1, <1>3, <1>4, <3>1
  <2> QED
    BY <1>2, <2>1, <2>2, <2>3
<1> QED
  BY <1>3, <1>4, <1>5, SeqEqual

\* The numbers up to n, and the next one.
LEMMA CountsOn ==
  ASSUME NEW n \in Nat
  PROVE  /\ [i \in 1..n |-> i] \in Seq(Nat)
         /\ Append([i \in 1..n |-> i], n + 1) = [i \in 1..(n + 1) |-> i]
<1> DEFINE s == [i \in 1..n |-> i]
           t == [i \in 1..(n + 1) |-> i]
<1>1. s \in Seq(Nat) /\ Len(s) = n /\ t \in Seq(Nat) /\ Len(t) = n + 1
  OBVIOUS
<1>2. \A i \in 1..n : s[i] = i
  OBVIOUS
<1>3. \A i \in 1..(n + 1) : t[i] = i
  OBVIOUS
<1> HIDE DEF s, t
<1>4. /\ Append(s, n + 1) \in Seq(Nat) /\ Len(Append(s, n + 1)) = n + 1
      /\ \A i \in 1..n : Append(s, n + 1)[i] = s[i]
      /\ Append(s, n + 1)[n + 1] = n + 1
  BY <1>1, AppendProperties, n + 1 \in Nat
<1>5. \A i \in 1..(n + 1) : Append(s, n + 1)[i] = t[i]
  BY <1>2, <1>3, <1>4
<1>6. Append(s, n + 1) = t
  BY <1>1, <1>4, <1>5, SeqEqual
<1> QED
  BY <1>1, <1>6 DEF s, t

\* What the only worker holds, as a sequence.
Hand == IF held[1] = None THEN <<>> ELSE <<held[1]>>

OrderInv ==
  ThreadNumber = 1 =>
    received \o output \o Hand \o input = [i \in 1..written |-> i]

LEMMA HandIsHeld ==
  ASSUME TypeOK, ThreadNumber = 1
  PROVE  SetToSeq(Held) = Hand
<1>1. Workers = {1}
  BY DEF Workers
<1>2. CASE held[1] = None
  <2>1. Held = {}
    BY <1>1, <1>2 DEF Held
  <2>2. Cardinality({}) = 0
    BY FS_EmptySet
  <2>3. \A f \in [1..0 -> {}] : f = <<>>
    OBVIOUS
  <2>4. <<>> \in [1..0 -> {}] /\ IsInjective(<<>>)
    BY DEF IsInjective
  <2>5. SetToSeq({}) = <<>>
    BY <2>2, <2>3, <2>4 DEF SetToSeq
  <2> QED
    BY <1>2, <2>1, <2>5 DEF Hand
<1>3. CASE held[1] # None
  <2>1. Held = {held[1]}
    BY <1>1, <1>3 DEF Held
  <2>2. ASSUME NEW x PROVE SetToSeq({x}) = <<x>>
    <3>1. Cardinality({x}) = 1
      BY FS_Singleton
    <3>2. \A f \in [1..1 -> {x}] : f = <<x>>
      OBVIOUS
    <3>3. <<x>> \in [1..1 -> {x}] /\ IsInjective(<<x>>)
      BY DEF IsInjective
    <3> QED
      BY <3>1, <3>2, <3>3 DEF SetToSeq
  <2> QED
    BY <1>3, <2>1, <2>2 DEF Hand
<1> QED
  BY <1>2, <1>3

\* The line of the items: of two queues and a hand, whatever moves between them.
LEMMA LineOfPop ==
  ASSUME NEW x \in Seq(Items), NEW t \in Seq(Items), t # <<>>
  PROVE  x \o <<Head(t)>> \o Tail(t) = x \o <<>> \o t
<1>1. Head(t) \in Items
  BY HeadTailProperties
<1>2. x \o <<Head(t)>> = Append(x, Head(t)) /\ x \o <<>> = x
  BY <1>1, AppendIsConcat, ConcatEmptySeq
<1> QED
  BY <1>2, MovesOver

LEMMA LineOfPush ==
  ASSUME NEW r \in Seq(Items), NEW o \in Seq(Items), NEW x \in Items
  PROVE  r \o Append(o, x) \o <<>> = r \o o \o <<x>>
<1>1. <<x>> \in Seq(Items) /\ Append(o, x) \in Seq(Items)
  BY AppendProperties
<1>2. Append(o, x) = o \o <<x>>
  BY AppendIsConcat
<1>3. r \o Append(o, x) \in Seq(Items)
  BY <1>1, ConcatProperties
<1> QED
  BY <1>1, <1>2, <1>3, ConcatAssociative, ConcatEmptySeq

LEMMA NextOrder ==
  ASSUME TypeOK, HandsMatchPlace, OrderInv, [Next]_vars
  PROVE  OrderInv'
<1> SUFFICES ASSUME ThreadNumber = 1
             PROVE  (received \o output \o Hand \o input)' = [i \in 1..written' |-> i]
  BY DEF OrderInv
<1>0. /\ received \in Seq(Items) /\ output \in Seq(Items) /\ input \in Seq(Items)
      /\ written \in Nat /\ held[1] \in Items \cup {None} /\ Workers = {1}
      /\ MaxItems \in Nat
  <2>1. Workers = {1} /\ MaxItems \in Nat
    BY WorkQueueAssumption DEF Workers
  <2>2. held[1] \in Items \cup {None}
    BY <2>1 DEF TypeOK
  <2>3. written \in 0..MaxItems
    BY DEF TypeOK
  <2>4. received \in Seq(Items) /\ output \in Seq(Items) /\ input \in Seq(Items)
    BY DEF TypeOK
  <2>5. written \in Nat
    BY <2>1, <2>3
  <2> QED
    BY <2>1, <2>2, <2>4, <2>5
<1>1. Hand \in Seq(Items)
  BY <1>0, EmptySeq DEF Hand
<1>2. received \o output \in Seq(Items) /\ received \o output \o Hand \in Seq(Items)
  BY <1>0, <1>1, ConcatProperties
<1>3. received \o output \o Hand \o input = [i \in 1..written |-> i]
  BY DEF OrderInv
<1>4. CASE UNCHANGED <<queueVars, held>>
  BY <1>3, <1>4 DEF Hand, queueVars
<1>5. CASE WriteInput
  <2>1. /\ written' = written + 1 /\ input' = Append(input, written + 1)
        /\ UNCHANGED <<received, output, held>> /\ written + 1 \in Items
    BY <1>0, <1>5 DEF WriteInput, workerVars, Items
  <2>2. input' = input \o <<written + 1>> /\ <<written + 1>> \in Seq(Items)
    BY <1>0, <2>1, AppendIsConcat
  <2> DEFINE x == received \o output \o Hand
  <2>3. x \in Seq(Items) /\ x \o input \in Seq(Items)
    BY <1>0, <1>2, ConcatProperties
  <2>4. x' = x
    BY <2>1 DEF Hand
  <2> HIDE DEF x
  <2>5. x \o input' = (x \o input) \o <<written + 1>>
    BY <1>0, <2>2, <2>3, ConcatAssociative
  <2>6. (x \o input) \o <<written + 1>> = Append(x \o input, written + 1)
    BY <2>1, <2>3, AppendIsConcat
  <2>7. x \o input = [i \in 1..written |-> i]
    BY <1>3 DEF x
  <2>8. x \o input' = [i \in 1..(written + 1) |-> i]
    BY <1>0, <2>5, <2>6, <2>7, CountsOn
  <2> QED
    BY <2>1, <2>4, <2>8 DEF x
<1>6. ASSUME NEW r \in Readers, ReaderPops(r), output # <<>>
      PROVE  (received \o output \o Hand \o input)' = [i \in 1..written' |-> i]
  <2>1. /\ received' = Append(received, Head(output)) /\ output' = Tail(output)
        /\ UNCHANGED <<input, written, held>>
    BY <1>6 DEF ReaderPops, workerVars
  <2>2. received' \o output' = received \o output
    BY <1>0, <1>6, <2>1, MovesOver
  <2> QED
    BY <1>3, <2>1, <2>2 DEF Hand
<1>7. CASE WorkerPops(1)
  <2>1. /\ input # <<>> /\ held' = [held EXCEPT ![1] = Head(input)] /\ input' = Tail(input)
        /\ UNCHANGED <<received, output, written>> /\ held[1] = None
    BY <1>0, <1>7 DEF WorkerPops, In, HandsMatchPlace
  <2>2. Head(input) \in Items /\ Head(input) # None
    BY <1>0, <2>1, HeadTailProperties DEF Items, None
  <2>3. held'[1] = Head(input)
    BY <2>1, <1>0 DEF TypeOK
  <2>4. Hand = <<>> /\ Hand' = <<Head(input)>>
    BY <2>1, <2>2, <2>3 DEF Hand
  <2>5. received \o output \o <<Head(input)>> \o Tail(input)
          = received \o output \o <<>> \o input
    BY <1>0, <1>2, <2>1, LineOfPop
  <2> QED
    BY <1>3, <2>1, <2>4, <2>5
<1>8. CASE WorkerPushes(1)
  <2>1. /\ held' = [held EXCEPT ![1] = None] /\ output' = Append(output, held[1])
        /\ UNCHANGED <<received, input, written>> /\ held[1] # None
    BY <1>0, <1>8 DEF WorkerPushes, In, HandsMatchPlace
  <2>2. held[1] \in Items /\ held'[1] = None
    BY <2>1, <1>0 DEF TypeOK
  <2>3. Hand = <<held[1]>> /\ Hand' = <<>>
    BY <2>1, <2>2 DEF Hand
  <2>4. received \o Append(output, held[1]) \o <<>> = received \o output \o <<held[1]>>
    BY <1>0, <2>2, LineOfPush
  <2> QED
    BY <1>3, <2>1, <2>3, <2>4
<1>9. CASE \E w \in Workers : Worker(w)
  <2>1. Worker(1)
    BY <1>0, <1>9
  <2>2. \/ WorkerPops(1) \/ WorkerPushes(1) \/ UNCHANGED <<queueVars, held>>
    BY <2>1 DEF Worker, Announce, WorkerLoop, WorkerLooks, WorkerThrows,
       WorkerUsesDestroyed, WorkerWakes, WorkerCancelled, workerVars
  <2> QED
    BY <1>4, <1>7, <1>8, <2>2
<1>10. CASE \E r \in Readers : ReaderLooks(r) \/ ReaderPops(r)
  <2> PICK r \in Readers : ReaderLooks(r) \/ ReaderPops(r)
    BY <1>10
  <2>1. ReaderLooks(r) \/ (ReaderPops(r) /\ output = <<>>) => UNCHANGED <<queueVars, held>>
    BY DEF ReaderLooks, ReaderPops, queueVars, workerVars
  <2> QED
    BY <1>4, <1>6, <2>1
<1>11. CASE Owner \/ Over \/ UNCHANGED vars
  <2>1. UNCHANGED <<queueVars, held>>
    BY <1>11 DEF Owner, OwnerLoops, Call, Destroy, StartRunning, StartForgets,
       StartCreates, StartReturns, StopOne, StopAndWaitOne, KillOne, JoinOne, Over,
       vars, workerVars
  <2> QED
    BY <1>4, <2>1
<1> QED
  BY <1>5, <1>9, <1>10, <1>11 DEF Next

\* A pool of one worker answers its inputs in their order (threadpool.h:118-156),
\* for any number of inputs and readers, and however often the owner starts, stops
\* and kills the worker.
THEOREM SingleWorkerKeepsOrderHolds == Spec => []SingleWorkerKeepsOrder
<1>1. Init => OrderInv
  <2>1. ASSUME Init PROVE <<>> \o <<>> \o <<>> \o <<>> = [i \in 1..0 |-> i]
    OBVIOUS
  <2>2. Init => Hand = <<>> \/ ThreadNumber # 1
    BY DEF Init, Hand, Workers
  <2> QED
    BY <2>1, <2>2 DEF Init, OrderInv
<1>2. TypeOK /\ OrderInv => SingleWorkerKeepsOrder
  BY HandIsHeld DEF OrderInv, SingleWorkerKeepsOrder
<1> QED
  BY <1>1, <1>2, NextOrder, TypesHold, PTL DEF Spec
=============================================================================
