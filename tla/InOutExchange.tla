---------------------------- MODULE InOutExchange ----------------------------
(***************************************************************************)
(* amqp::InOutExchange (inoutexchange.cpp): the thread that keeps one      *)
(* connection, channel, queue and consumer alive and sends the responses   *)
(* other threads push, the threads that push, the owner, and the broker.   *)
(* Connection and Channel are used here by what module Connection shows of *)
(* them: a request on a channel that is invalid, closed or dead fails, a   *)
(* failed binding or subscription invalidates the channel, consume_one()   *)
(* is true of a dead connection, and basic_publish() cannot be relied on.  *)
(***************************************************************************)
EXTENDS Naturals, Sequences, SequencesExt

CONSTANTS
  Pushers,      \* the threads that call push_response()
  MaxResponses, \* bound: responses ever pushed
  MaxFaults     \* bound: faults of the broker and the network

ASSUME InOutAssumption ==
  /\ MaxResponses \in Nat /\ MaxFaults \in Nat
  /\ Pushers \cap {"free", "run"} = {}

VARIABLES
  pc,                 \* where run() is, or the constructor, or why neither is
  caller,             \* who called connect_to_rabbitmq()
  stopping,           \* is_stopping()
  m_rabbitmq_channel, \* "null", "valid" or "invalid"
  m_command_queue,    \* "null", or the channel it weakly refers to: "current"
                      \* or "stale", one that is destroyed
  m_response_queue,
  m_response_queue_mtx, \* "free", "run", or the thread that holds it
  ppc,                \* where each pusher is
  broker, link,       \* the broker accepts connections; m_rabbitmq_con is alive
  opened, consumer,   \* at the broker: our channel, our subscription on it
  queue_exists,       \* at the broker: the queue
  pushed, sent, lost, \* responses pushed, sent in this order, popped unsent
  faults

amqpVars   == <<m_rabbitmq_channel, m_command_queue>>
brokerVars == <<broker, link, opened, consumer, queue_exists, faults>>
answerVars == <<m_response_queue, m_response_queue_mtx, ppc, pushed, sent,
                lost>>
vars == <<pc, caller, stopping, amqpVars, brokerVars, answerVars>>

Connecting == {"connection", "channel", "exchange", "queue", "bind", "consume"}
Looping    == {"loop", "declare", "again", "rebind", "consume_one", "callback",
               "try_lock", "publish", "sleep"}
Outside    == {"built", "ended", "killed", "crashed"}

TypeOK ==
  /\ pc \in Connecting \cup Looping \cup Outside
  /\ caller \in {"constructor", "verify", "declare"}
  /\ stopping \in BOOLEAN
  /\ m_rabbitmq_channel \in {"null", "valid", "invalid"}
  /\ m_command_queue \in {"null", "current", "stale"}
  /\ m_response_queue \in Seq(1..MaxResponses)
  /\ m_response_queue_mtx \in {"free", "run"} \cup Pushers
  /\ m_response_queue_mtx = "run" => pc \in {"publish", "killed"}
  /\ ppc \in [Pushers -> {"idle", "lock", "push"}]
  /\ broker \in {"up", "down"} /\ link \in {"up", "down"}
  /\ opened \in BOOLEAN /\ consumer \in BOOLEAN /\ queue_exists \in BOOLEAN
  /\ pushed \in 0..MaxResponses /\ sent \in Seq(1..MaxResponses)
  /\ lost \subseteq 1..MaxResponses
  /\ faults \in 0..MaxFaults

\* The constructor begins with connect_to_rabbitmq().
Init ==
  /\ pc = "connection" /\ caller = "constructor" /\ stopping = FALSE
  /\ m_rabbitmq_channel = "null" /\ m_command_queue = "null"
  /\ m_response_queue = <<>> /\ m_response_queue_mtx = "free"
  /\ ppc = [p \in Pushers |-> "idle"]
  /\ broker = "up" /\ link = "down" /\ opened = FALSE /\ consumer = FALSE
  /\ queue_exists = FALSE
  /\ pushed = 0 /\ sent = <<>> /\ lost = {} /\ faults = 0

-----------------------------------------------------------------------------
(* The broker and the network *)

Fault == faults < MaxFaults /\ faults' = faults + 1

BrokerGoes ==
  /\ broker = "up" /\ Fault
  /\ broker' = "down" /\ link' = "down"
  /\ opened' = FALSE /\ consumer' = FALSE
  /\ UNCHANGED <<pc, caller, stopping, amqpVars, queue_exists, answerVars>>

BrokerComes ==
  /\ broker = "down" /\ broker' = "up"
  /\ UNCHANGED <<pc, caller, stopping, amqpVars, link, opened, consumer,
                 queue_exists, faults, answerVars>>

LinkLost ==
  /\ link = "up" /\ Fault
  /\ link' = "down" /\ opened' = FALSE /\ consumer' = FALSE
  /\ UNCHANGED <<pc, caller, stopping, amqpVars, broker, queue_exists,
                 answerVars>>

\* A channel exception, which the client has not read yet.
ChannelClosed ==
  /\ opened /\ Fault
  /\ opened' = FALSE /\ consumer' = FALSE
  /\ UNCHANGED <<pc, caller, stopping, amqpVars, broker, link, queue_exists,
                 answerVars>>

\* Somebody deletes the queue: the subscription goes with it.
QueueDeleted ==
  /\ queue_exists /\ Fault
  /\ queue_exists' = FALSE /\ consumer' = FALSE
  /\ UNCHANGED <<pc, caller, stopping, amqpVars, broker, link, opened,
                 answerVars>>

\* A request made on a channel the broker serves is granted, or refused, which
\* closes the channel: a fault unless there is a reason.  On another channel it
\* costs the connection.
Served == link = "up" /\ opened
Fails(reason) ==
  /\ link' = IF Served THEN link ELSE "down"
  /\ opened' = FALSE /\ consumer' = FALSE
  /\ IF Served /\ ~reason THEN Fault ELSE UNCHANGED faults
  /\ UNCHANGED <<broker, queue_exists>>

-----------------------------------------------------------------------------
(* connect_to_rabbitmq() *)

Usable == m_rabbitmq_channel = "valid"

\* Where its callers go on.
Connected == pc' = CASE caller = "constructor" -> "built"
                     [] caller = "verify"      -> "declare"
                     [] caller = "declare"     -> "again"
NotConnected == pc' = IF caller = "constructor" THEN "built" ELSE "sleep"
Crashes == pc' = "crashed"

\* The new connection is made, and the old one destroyed, which invalidates its
\* channel.
ConnectionMade ==
  /\ pc = "connection" /\ broker = "up"
  /\ pc' = "channel"
  /\ m_rabbitmq_channel' = IF Usable THEN "invalid" ELSE m_rabbitmq_channel
  /\ link' = "up" /\ opened' = FALSE /\ consumer' = FALSE
  /\ UNCHANGED <<caller, stopping, m_command_queue, broker, queue_exists,
                 faults, answerVars>>

\* amqp::exception: everything stays as it was.
ConnectionThrows ==
  /\ pc = "connection" /\ broker = "down"
  /\ NotConnected
  /\ UNCHANGED <<caller, stopping, amqpVars, brokerVars, answerVars>>

\* The old channel is destroyed; the queue still refers to it.
ChannelMade ==
  /\ pc = "channel" /\ link = "up"
  /\ pc' = "exchange"
  /\ m_rabbitmq_channel' = "valid" /\ opened' = TRUE
  /\ m_command_queue' = IF m_command_queue = "null" THEN "null" ELSE "stale"
  /\ UNCHANGED <<caller, stopping, broker, link, consumer, queue_exists,
                 faults, answerVars>>

\* create_channel() throws: the old channel stays.
ChannelThrows ==
  /\ pc = "channel" /\ link = "down"
  /\ NotConnected
  /\ UNCHANGED <<caller, stopping, amqpVars, brokerVars, answerVars>>

ExchangeDeclared ==
  /\ pc = "exchange" /\ Served
  /\ pc' = "queue"
  /\ UNCHANGED <<caller, stopping, amqpVars, brokerVars, answerVars>>

\* The channel stays valid.
ExchangeRefused ==
  /\ pc = "exchange"
  /\ Fails(FALSE)
  /\ NotConnected
  /\ UNCHANGED <<caller, stopping, amqpVars, answerVars>>

\* Mutant: the queue is declared but m_command_queue is not assigned.
QueueDeclared_KeepsOld ==
  /\ pc = "queue" /\ Served
  /\ pc' = "bind"
  /\ queue_exists' = TRUE
  /\ UNCHANGED <<caller, stopping, amqpVars, broker, link,
                 opened, consumer, faults, answerVars>>

QueueDeclared ==
  /\ pc = "queue" /\ Served
  /\ pc' = "bind"
  /\ m_command_queue' = "current" /\ queue_exists' = TRUE
  /\ UNCHANGED <<caller, stopping, m_rabbitmq_channel, broker, link, opened,
                 consumer, faults, answerVars>>

\* declare_queue() returns nullptr, which the next line dereferences.
QueueRefused ==
  /\ pc = "queue"
  /\ Fails(FALSE)
  /\ Crashes
  /\ m_command_queue' = "null"
  /\ UNCHANGED <<caller, stopping, m_rabbitmq_channel, answerVars>>

Bound ==
  /\ pc = "bind" /\ Served /\ queue_exists
  /\ pc' = "consume"
  /\ UNCHANGED <<caller, stopping, amqpVars, brokerVars, answerVars>>

BindRefused ==
  /\ pc = "bind"
  /\ Fails(~queue_exists)
  /\ m_rabbitmq_channel' = "invalid"
  /\ NotConnected
  /\ UNCHANGED <<caller, stopping, m_command_queue, answerVars>>

Subscribed ==
  /\ pc = "consume" /\ Served /\ queue_exists
  /\ consumer' = TRUE
  /\ Connected
  /\ UNCHANGED <<caller, stopping, amqpVars, broker, link, opened,
                 queue_exists, faults, answerVars>>

\* Mutant: a subscription that fails leaves the channel valid and open.
SubscribeFails_Unnoticed ==
  /\ pc = "consume" /\ Served /\ Fault
  /\ Connected
  /\ UNCHANGED <<caller, stopping, amqpVars, broker, link, opened, consumer,
                 queue_exists, answerVars>>

\* The result of consume() is not looked at.
SubscribeFails ==
  /\ pc = "consume"
  /\ Fails(~queue_exists)
  /\ m_rabbitmq_channel' = "invalid"
  /\ Connected
  /\ UNCHANGED <<caller, stopping, m_command_queue, answerVars>>

-----------------------------------------------------------------------------
(* run() *)

Connect(who) == pc' = "connection" /\ caller' = who

LoopTest ==
  /\ pc = "loop"
  /\ \/ stopping /\ pc' = "ended" /\ UNCHANGED caller
     \/ ~stopping /\ m_rabbitmq_channel = "null" /\ Connect("verify")
     \/ /\ ~stopping /\ m_rabbitmq_channel # "null"
        /\ pc' = "declare" /\ UNCHANGED caller
  /\ UNCHANGED <<stopping, amqpVars, brokerVars, answerVars>>

\* declare_exchange() in get_valid_exchange(), before and after a reconnection.
Declared ==
  /\ pc \in {"declare", "again"} /\ Usable /\ Served
  /\ pc' = "rebind"
  /\ UNCHANGED <<caller, stopping, amqpVars, brokerVars, answerVars>>

\* Mutant: get_valid_exchange() gives up where it should reconnect.
DeclareFails_NoConnect ==
  /\ pc \in {"declare", "again"}
  /\ IF Usable THEN Fails(FALSE) ELSE UNCHANGED brokerVars
  /\ pc' = "sleep"
  /\ UNCHANGED <<caller, stopping, amqpVars, answerVars>>

\* On an invalid channel there is no request to fail.
DeclareFails ==
  /\ pc \in {"declare", "again"}
  /\ IF Usable THEN Fails(FALSE) ELSE UNCHANGED brokerVars
  /\ IF pc = "declare" THEN Connect("declare") ELSE Crashes /\ UNCHANGED caller
  /\ UNCHANGED <<stopping, amqpVars, answerVars>>

\* bind_exchange(), whose result is not looked at, through the weak pointer of
\* the queue.
Rebind ==
  /\ pc = "rebind"
  /\ IF m_command_queue # "current"
       THEN Crashes /\ UNCHANGED <<m_rabbitmq_channel, brokerVars>>
       ELSE /\ pc' = "consume_one"
            /\ \/ /\ Served /\ queue_exists
                  /\ UNCHANGED <<m_rabbitmq_channel, brokerVars>>
               \/ Fails(~queue_exists) /\ m_rabbitmq_channel' = "invalid"
  /\ UNCHANGED <<caller, stopping, m_command_queue, answerVars>>

\* Mutant: a turn without an envelope ends like one that failed.
ConsumeNothing_Continues ==
  /\ pc = "consume_one"
  /\ pc' = "loop"
  /\ UNCHANGED <<caller, stopping, amqpVars, brokerVars, answerVars>>

\* consume_one(): nothing came or the connection is dead ...
ConsumeNothing ==
  /\ pc = "consume_one"
  /\ pc' = "try_lock"
  /\ UNCHANGED <<caller, stopping, amqpVars, brokerVars, answerVars>>

\* ... or the frame that came reports an error ...
ConsumeFails ==
  /\ pc = "consume_one" /\ ~(Served /\ consumer)
  /\ pc' = "loop"
  /\ UNCHANGED <<caller, stopping, amqpVars, brokerVars, answerVars>>

\* ... or the callback is called, which may push a response.
ConsumeEnvelope ==
  /\ pc = "consume_one" /\ consumer
  /\ pc' \in {"callback", "try_lock"}
  /\ UNCHANGED <<caller, stopping, amqpVars, brokerVars, answerVars>>

CallbackPushes ==
  /\ pc = "callback" /\ m_response_queue_mtx = "free"
  /\ pushed < MaxResponses
  /\ pushed' = pushed + 1
  /\ m_response_queue' = Append(m_response_queue, pushed')
  /\ pc' = "try_lock"
  /\ UNCHANGED <<caller, stopping, amqpVars, brokerVars, m_response_queue_mtx,
                 ppc, sent, lost>>

\* At the bound the callback returns without a response.
CallbackReturns ==
  /\ pc = "callback" /\ pushed = MaxResponses
  /\ pc' = "try_lock"
  /\ UNCHANGED <<caller, stopping, amqpVars, brokerVars, answerVars>>

TryLock ==
  /\ pc = "try_lock" /\ m_response_queue_mtx = "free"
  /\ m_response_queue # <<>>
  /\ m_response_queue_mtx' = "run"
  /\ pc' = "publish"
  /\ UNCHANGED <<caller, stopping, amqpVars, brokerVars, m_response_queue, ppc,
                 pushed, sent, lost>>

\* The mutex is taken, or is given back at once.
TryLockInVain ==
  /\ pc = "try_lock"
  /\ m_response_queue_mtx # "free" \/ m_response_queue = <<>>
  /\ pc' = "loop"
  /\ UNCHANGED <<caller, stopping, amqpVars, brokerVars, answerVars>>

\* Mutant: the response is left in the queue.
Publish_NoPop ==
  /\ pc = "publish"
  /\ IF Usable /\ Served
       THEN sent' = Append(sent, Head(m_response_queue)) /\ UNCHANGED lost
       ELSE lost' = lost \cup {Head(m_response_queue)} /\ UNCHANGED sent
  /\ m_response_queue_mtx' = "free"
  /\ pc' = "loop"
  /\ UNCHANGED <<caller, stopping, amqpVars, brokerVars, m_response_queue, ppc,
                 pushed>>

\* The front is published, whatever comes of it, popped, and the mutex freed.
Publish ==
  /\ pc = "publish"
  /\ IF Usable /\ Served
       THEN sent' = Append(sent, Head(m_response_queue)) /\ UNCHANGED lost
       ELSE lost' = lost \cup {Head(m_response_queue)} /\ UNCHANGED sent
  /\ m_response_queue' = Tail(m_response_queue)
  /\ m_response_queue_mtx' = "free"
  /\ pc' = "loop"
  /\ UNCHANGED <<caller, stopping, amqpVars, brokerVars, ppc, pushed>>

\* m_connection_retry_interval is over.
Wake ==
  /\ pc = "sleep"
  /\ pc' = "loop"
  /\ UNCHANGED <<caller, stopping, amqpVars, brokerVars, answerVars>>

-----------------------------------------------------------------------------
(* push_response() of the pushers, and the owner *)

Alive == pc # "crashed"
Constructing == pc \in Connecting /\ caller = "constructor"

PushCall(p) ==
  /\ Alive /\ ~Constructing
  /\ ppc[p] = "idle" /\ pushed < MaxResponses
  /\ ppc' = [ppc EXCEPT ![p] = "lock"]
  /\ UNCHANGED <<pc, caller, stopping, amqpVars, brokerVars, m_response_queue,
                 m_response_queue_mtx, pushed, sent, lost>>

PushLock(p) ==
  /\ Alive /\ ppc[p] = "lock" /\ m_response_queue_mtx = "free"
  /\ ppc' = [ppc EXCEPT ![p] = "push"]
  /\ m_response_queue_mtx' = p
  /\ UNCHANGED <<pc, caller, stopping, amqpVars, brokerVars, m_response_queue,
                 pushed, sent, lost>>

\* At the bound the last call pushes nothing.
Push(p) ==
  /\ Alive /\ ppc[p] = "push"
  /\ ppc' = [ppc EXCEPT ![p] = "idle"]
  /\ m_response_queue_mtx' = "free"
  /\ IF pushed < MaxResponses
       THEN /\ pushed' = pushed + 1
            /\ m_response_queue' = Append(m_response_queue, pushed')
       ELSE UNCHANGED <<pushed, m_response_queue>>
  /\ UNCHANGED <<pc, caller, stopping, amqpVars, brokerVars, sent, lost>>

\* start() of a thread that does not run; one that was killed is not restarted.
Start ==
  /\ pc \in {"built", "ended"}
  /\ pc' = "loop" /\ stopping' = FALSE
  /\ UNCHANGED <<caller, amqpVars, brokerVars, answerVars>>

InRun == pc \in Looping \cup Connecting /\ ~Constructing

Stop ==
  /\ InRun
  /\ stopping' = TRUE
  /\ UNCHANGED <<pc, caller, amqpVars, brokerVars, answerVars>>

\* kill(): every request, the sleep, and what the callback may wait for, is a
\* cancellation point.  A mutex that run() holds, locked by try_lock() without a
\* guard object, stays locked.
Kill ==
  /\ InRun /\ pc \notin {"loop", "try_lock"}
  /\ pc' = "killed"
  /\ UNCHANGED <<caller, stopping, amqpVars, brokerVars, answerVars>>

-----------------------------------------------------------------------------
ConnectToRabbitmq ==
  \/ ConnectionMade \/ ConnectionThrows \/ ChannelMade \/ ChannelThrows
  \/ ExchangeDeclared \/ ExchangeRefused \/ QueueDeclared \/ QueueRefused
  \/ Bound \/ BindRefused \/ Subscribed \/ SubscribeFails

Run ==
  \/ ConnectToRabbitmq
  \/ LoopTest \/ Declared \/ DeclareFails \/ Rebind
  \/ ConsumeNothing \/ ConsumeFails \/ ConsumeEnvelope
  \/ CallbackPushes \/ CallbackReturns
  \/ TryLock \/ TryLockInVain \/ Publish \/ Wake

Broker == BrokerGoes \/ LinkLost \/ ChannelClosed \/ QueueDeleted

Pusher(p) == PushLock(p) \/ Push(p)

Over == pc \in {"crashed", "killed"} /\ UNCHANGED vars

Next ==
  \/ Run
  \/ Broker \/ BrokerComes
  \/ \E p \in Pushers : PushCall(p) \/ Pusher(p)
  \/ Start \/ Stop \/ Kill
  \/ Over

Spec == Init /\ [][Next]_vars

FairSpec ==
  /\ Spec
  /\ WF_vars(Run) /\ WF_vars(BrokerComes)
  /\ \A p \in Pushers : WF_vars(Pusher(p))

-----------------------------------------------------------------------------
(* Properties *)

\* Whatever the broker, the network and the pushers do, the responses leave the
\* queue in the order they were pushed, each once: sent, or lost
\* (inoutexchange.cpp:93-101, inoutexchange.h:90-94).
ResponsesInOrder ==
  LET gone == pushed - Len(m_response_queue) IN
  /\ m_response_queue = [i \in 1..Len(m_response_queue) |-> gone + i]
  /\ ToSet(sent) \cup lost = 1..gone /\ ToSet(sent) \cap lost = {}
  /\ \A i, j \in DOMAIN sent : i < j => sent[i] < sent[j]

\* The queue run() binds belongs to the channel it has just used: the weak
\* pointer in it never expires under get_valid_exchange()
\* (inoutexchange.cpp:113-127).
QueueOfChannel == pc = "rebind" => m_command_queue = "current"

\* While run() consumes on a channel that the broker serves, it is subscribed,
\* unless its queue was deleted meanwhile (inoutexchange.cpp:60, 127).
ConsumesWhenServed ==
  pc = "consume_one" /\ Usable /\ Served => consumer \/ ~queue_exists

\* run() dereferences no null pointer (inoutexchange.cpp:54, 127).
NeverCrashes == pc # "crashed"

\* A response that leaves the queue was sent (inoutexchange.cpp:97-98).
NothingLost == lost = {}

\* "auto reconnect": a thread without a subscription gets one, as long as the
\* broker comes back, nobody stops or kills it and it does not crash
\* (inoutexchange.h:41-46).
Halted == pc \in {"killed", "crashed"} \/ stopping
Reconnects == InRun /\ ~consumer ~> consumer \/ Halted

\* A response pushed to a running thread leaves the queue, although run() only
\* tries the lock, and once per turn (inoutexchange.cpp:93).
ResponsesLeave ==
  \A n \in 1..MaxResponses :
    InRun /\ n \in ToSet(m_response_queue)
      ~> n \notin ToSet(m_response_queue) \/ Halted

\* push_response() comes back, unless the thread is killed while it publishes
\* (inoutexchange.h:90-94).
PushReturns ==
  \A p \in Pushers :
    ppc[p] # "idle" ~> ppc[p] = "idle" \/ pc \in {"crashed", "killed"}

-----------------------------------------------------------------------------
(* Inductive invariant *)

\* A channel in use that the broker serves has our queue object, and our
\* subscription as long as the queue is there, once connect_to_rabbitmq() is
\* past the steps that make them; a thread killed inside it may lack both.
SubscriptionInv ==
  /\ pc = "channel" => ~Usable
  /\ pc \in {"exchange", "queue", "bind", "consume"} => Usable
  /\ pc \in {"bind", "consume", "rebind"} => m_command_queue = "current"
  /\ Usable /\ Served /\ pc \notin {"exchange", "queue", "killed"} =>
       m_command_queue = "current"
  /\ Usable /\ Served /\ pc \notin Connecting \cup {"killed"} =>
       consumer \/ ~queue_exists
  /\ Usable /\ pc = "connection" => ~Served

IInv ==
  /\ TypeOK
  /\ SubscriptionInv
  /\ ResponsesInOrder
  /\ pc = "publish" => m_response_queue # <<>>

=============================================================================
