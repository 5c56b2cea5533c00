----------------------------- MODULE Connection -----------------------------
(***************************************************************************)
(* amqp::Connection and amqp::Channel (connection.cpp, channel.cpp): one   *)
(* connection, the channel objects it makes, the client thread that uses   *)
(* them and consumes, and the broker at the other end.  The client's own   *)
(* code runs between calls and inside the callback of an envelope; another *)
(* thread may call stop().  librabbitmq and the broker are external: a     *)
(* request fails when the broker refuses it, which closes the channel, or  *)
(* when the channel or the connection is closed already.                   *)
(***************************************************************************)
EXTENDS Naturals, Sequences, FiniteSets

CONSTANTS
  MaxObjects,    \* bound: channel objects ever made
  IdModulus,     \* channel ids are counted modulo this: 2^16 in the code
  ChannelMax,    \* channel_max that the broker negotiates
  Tags,          \* consumer tags
  AutoAck,       \* the tags consumed with no_ack = true
  MaxDeliveries, \* bound: envelopes ever delivered
  MaxPublished,  \* bound: messages ever published
  MaxWire,       \* bound: frames on the wire
  Timed          \* m_wait_timeout_ms is not 0

ASSUME ConnectionAssumption ==
  /\ MaxObjects \in Nat /\ MaxDeliveries \in Nat /\ MaxPublished \in Nat
  /\ MaxWire \in Nat
  /\ IdModulus \in Nat \ {0} /\ ChannelMax \in Nat
  /\ AutoAck \subseteq Tags
  /\ Timed \in BOOLEAN

Objects == 1..MaxObjects
None    == 0
Ids     == 0..(IdModulus - 1)

VARIABLES
  conn,                 \* "open", or "gone" once ~Connection() has run
  m_next_channel_id, m_channels, m_stop,
  made,                 \* channel objects made so far: 1..made
  m_id, m_valid,        \* of each channel object
  callbacks,            \* of each channel object: m_consumers_callbacks
  held,                 \* channel objects the client holds a shared_ptr to
  pc, looping,          \* place in consume_one(), and whether the caller is
                        \* start_consuming()
  envelope, handler,    \* the envelope in a callback, and the channel it is on
  ret,                  \* what the last step returned to the client
  link, opened,         \* the broker's end: "up" or "down", its open channels
  channel_max,          \* what amqp_get_channel_max() says
  consumers,            \* of each id: the tags the broker delivers to
  unacked,              \* deliveries the broker waits an ack for, by channel
  wire,                 \* frames sent to the client and not yet read
  delivered, published  \* counters

ownVars    == <<conn, m_next_channel_id, m_channels, made, m_id, m_valid,
                callbacks, held>>
readVars   == <<pc, looping, envelope, handler>>
brokerVars == <<link, opened, consumers, unacked>>
countVars  == <<delivered, published>>
vars == <<ownVars, m_stop, readVars, ret, brokerVars, channel_max, wire,
          countVars>>

\* A frame for channel id; a delivery knows the object that subscribed to it.
Frame(kind, i) == [kind |-> kind, id |-> i, tag |-> None, n |-> 0, to |-> None]
Delivery(i, t, n, o) ==
  [kind |-> "deliver", id |-> i, tag |-> t, n |-> n, to |-> o]
Frames ==
  [kind : {"deliver", "return", "close", "connection_close"}, id : Ids,
   tag : Tags \cup {None}, n : 0..MaxDeliveries, to : Objects \cup {None}]

Results == {"none", "channel", "refused", "throws", "true", "false",
            "status_ok", "status_error"}

TypeOK ==
  /\ conn \in {"open", "gone"} /\ link \in {"up", "down"}
  /\ m_next_channel_id \in Ids
  /\ m_channels \in [Ids -> Objects \cup {None}]
  /\ made \in 0..MaxObjects
  /\ m_id \in [Objects -> Ids] /\ m_valid \in [Objects -> BOOLEAN]
  /\ callbacks \in [Objects -> SUBSET Tags]
  /\ held \subseteq 1..made
  /\ m_stop \in BOOLEAN /\ looping \in BOOLEAN
  /\ pc \in {"client", "loop", "read", "callback"}
  /\ envelope \in Frames /\ handler \in Objects \cup {None}
  /\ ret \in Results
  /\ opened \subseteq Ids /\ channel_max \in {0, ChannelMax}
  /\ consumers \in [Ids -> [Tags -> Objects \cup {None}]]
  /\ unacked \subseteq (1..delivered) \X Ids
  /\ wire \in Seq(Frames)
  /\ delivered \in 0..MaxDeliveries /\ published \in 0..MaxPublished

Nobody == [t \in Tags |-> None]

Init ==
  /\ conn = "open" /\ link = "up"
  /\ m_next_channel_id = 0 /\ m_channels = [i \in Ids |-> None]
  /\ made = 0
  /\ m_id = [o \in Objects |-> 0] /\ m_valid = [o \in Objects |-> FALSE]
  /\ callbacks = [o \in Objects |-> {}] /\ held = {}
  /\ m_stop = FALSE /\ looping = FALSE /\ pc = "client"
  /\ envelope = Frame("close", 0) /\ handler = None
  /\ ret = "none"
  /\ opened = {} /\ channel_max = ChannelMax
  /\ consumers = [i \in Ids |-> Nobody] /\ unacked = {}
  /\ wire = <<>> /\ delivered = 0 /\ published = 0

-----------------------------------------------------------------------------
(* The broker *)

\* Closing the channels of is forgets their consumers and requeues what they
\* have not acknowledged.
Closes(is) ==
  /\ opened' = opened \ is
  /\ consumers' = [i \in Ids |-> IF i \in is THEN Nobody ELSE consumers[i]]
  /\ unacked' = {d \in unacked : d[2] \notin is}

LinkDies == link' = "down" /\ Closes(Ids)

\* A request on id succeeds, or fails with what follows at the broker.
Served(i) == link = "up" /\ i \in opened
Refused(i) == IF Served(i) THEN Closes({i}) /\ UNCHANGED link ELSE LinkDies

BrokerDelivers(i, t) ==
  /\ link = "up" /\ consumers[i][t] # None
  /\ delivered < MaxDeliveries /\ Len(wire) < MaxWire
  /\ delivered' = delivered + 1
  /\ wire' = Append(wire, Delivery(i, t, delivered', consumers[i][t]))
  /\ unacked' = IF t \in AutoAck THEN unacked
                ELSE unacked \cup {<<delivered', i>>}
  /\ ret' = "none"
  /\ UNCHANGED <<ownVars, m_stop, readVars, link, opened, consumers,
                 channel_max, published>>

\* A channel exception: the client will read channel.close.
BrokerCloses(i) ==
  /\ Served(i) /\ Len(wire) < MaxWire
  /\ Closes({i})
  /\ wire' = Append(wire, Frame("close", i))
  /\ ret' = "none"
  /\ UNCHANGED <<ownVars, m_stop, readVars, link, channel_max, countVars>>

\* The connection is lost, or closed with a last frame.
LinkLost ==
  /\ link = "up" /\ conn = "open"
  /\ LinkDies
  /\ \/ UNCHANGED wire
     \/ Len(wire) < MaxWire /\ wire' = Append(wire, Frame("connection_close", 0))
  /\ ret' = "none"
  /\ UNCHANGED <<ownVars, m_stop, readVars, channel_max, countVars>>

-----------------------------------------------------------------------------
(* Calls of the client *)

ClientRuns == pc \in {"client", "callback"}
InMap(o) == m_channels[m_id[o]] = o

\* close(): nothing on an invalid channel.
Close(o) ==
  /\ m_valid' = [m_valid EXCEPT ![o] = FALSE]
  /\ IF ~m_valid[o] THEN UNCHANGED brokerVars
     ELSE IF Served(m_id[o]) THEN Closes({m_id[o]}) /\ UNCHANGED link
     ELSE LinkDies

\* Mutant: ids are given by the number of channels.
CreateChannel_Counts ==
  LET id == Cardinality({i \in Ids : m_channels[i] # None}) + 1 IN
  /\ ClientRuns /\ conn = "open" /\ made < MaxObjects /\ id \in Ids
  /\ link = "up"
  /\ m_next_channel_id' = id
  /\ made' = made + 1
  /\ m_id' = [m_id EXCEPT ![made'] = id]
  /\ m_valid' = [m_valid EXCEPT ![made'] = TRUE]
  /\ m_channels' = [m_channels EXCEPT ![id] = made']
  /\ held' = held \cup {made'}
  /\ opened' = opened \cup {id}
  /\ ret' = "channel"
  /\ UNCHANGED <<conn, callbacks, m_stop, readVars, link, consumers, unacked,
                 channel_max, wire, countVars>>

\* create_channel() takes the next id; the broker opens channels 1..ChannelMax
\* that are not open yet.
CreateChannel ==
  LET id == (m_next_channel_id + 1) % IdModulus IN
  /\ ClientRuns /\ conn = "open" /\ made < MaxObjects
  /\ Cardinality({i \in Ids : m_channels[i] # None}) # channel_max
  /\ link = "up" /\ id \in 1..ChannelMax /\ id \notin opened
  /\ m_next_channel_id' = id
  /\ made' = made + 1
  /\ m_id' = [m_id EXCEPT ![made'] = id]
  /\ m_valid' = [m_valid EXCEPT ![made'] = TRUE]
  /\ m_channels' = [m_channels EXCEPT ![id] = made']
  /\ held' = held \cup {made'}
  /\ opened' = opened \cup {id}
  /\ ret' = "channel"
  /\ UNCHANGED <<conn, callbacks, m_stop, readVars, link, consumers, unacked,
                 channel_max, wire, countVars>>

\* open() throws: the id is spent, no object is made.
CreateChannelThrows ==
  LET id == (m_next_channel_id + 1) % IdModulus IN
  /\ ClientRuns /\ conn = "open"
  /\ Cardinality({i \in Ids : m_channels[i] # None}) # channel_max
  /\ link = "down" \/ id \notin 1..ChannelMax \/ id \in opened
  /\ m_next_channel_id' = id
  /\ LinkDies
  /\ ret' = "throws"
  /\ UNCHANGED <<conn, m_channels, made, m_id, m_valid, callbacks, held, m_stop,
                 readVars, channel_max, wire, countVars>>

CreateChannelRefused ==
  /\ ClientRuns /\ conn = "open"
  /\ Cardinality({i \in Ids : m_channels[i] # None}) = channel_max
  /\ ret' = "refused"
  /\ UNCHANGED <<ownVars, m_stop, readVars, brokerVars, channel_max, wire,
                 countVars>>

\* set_heartbeat_interval() tunes channel_max to 0 as well, even if it fails
\* afterwards; the interval itself is left out.
SetHeartbeatInterval ==
  /\ ClientRuns /\ conn = "open"
  /\ \/ channel_max' = 0 /\ ret' = "true"
     \/ channel_max' \in {0, channel_max} /\ ret' = "false"
  /\ UNCHANGED <<ownVars, m_stop, readVars, brokerVars, wire, countVars>>

\* Mutant: the channel is forgotten and not closed.
DestroyChannel_LeavesOpen(o) ==
  /\ ClientRuns /\ conn = "open" /\ o \in held
  /\ m_channels' = [m_channels EXCEPT ![m_id[o]] = None]
  /\ ret' = "none"
  /\ UNCHANGED <<conn, m_next_channel_id, made, m_id, m_valid, callbacks, held,
                 m_stop, readVars, brokerVars, channel_max, wire, countVars>>

\* destroy_channel() erases by id, then closes.
DestroyChannel(o) ==
  /\ ClientRuns /\ conn = "open" /\ o \in held
  /\ m_channels' = [m_channels EXCEPT ![m_id[o]] = None]
  /\ Close(o)
  /\ ret' = "none"
  /\ UNCHANGED <<conn, m_next_channel_id, made, m_id, callbacks, held, m_stop,
                 readVars, channel_max, wire, countVars>>

\* The client lets go of a channel; ~Channel() closes one nobody else holds.
DropChannel(o) ==
  /\ ClientRuns /\ o \in held
  /\ held' = held \ {o}
  /\ IF conn = "open" /\ (InMap(o) \/ handler = o)
       THEN UNCHANGED <<m_valid, brokerVars>>
       ELSE Close(o)
  /\ ret' = "none"
  /\ UNCHANGED <<conn, m_next_channel_id, m_channels, made, m_id, callbacks,
                 m_stop, readVars, channel_max, wire, countVars>>

\* Mutant: ~Connection() leaves the channels valid.
DestroyConnection_NoInvalidate ==
  /\ pc = "client" /\ conn = "open"
  /\ conn' = "gone"
  /\ m_channels' = [i \in Ids |-> None]
  /\ LinkDies
  /\ ret' = "none"
  /\ UNCHANGED <<m_next_channel_id, made, m_id, m_valid, callbacks, held, m_stop,
                 readVars, channel_max, wire, countVars>>

DestroyConnection ==
  /\ pc = "client" /\ conn = "open"
  /\ conn' = "gone"
  /\ m_valid' = [o \in Objects |-> m_valid[o] /\ ~InMap(o)]
  /\ m_channels' = [i \in Ids |-> None]
  /\ LinkDies
  /\ ret' = "none"
  /\ UNCHANGED <<m_next_channel_id, made, m_id, callbacks, held, m_stop,
                 readVars, channel_max, wire, countVars>>

-----------------------------------------------------------------------------
(* Calls of the client on a channel it holds *)

Uses(o) == ClientRuns /\ o \in held /\ m_valid[o]

\* VERIFY_CHANNEL of every call but basic_publish().
Invalid(o) ==
  /\ ClientRuns /\ o \in held /\ ~m_valid[o]
  /\ ret' = "false"
  /\ UNCHANGED <<ownVars, m_stop, readVars, brokerVars, channel_max, wire,
                 countVars>>

\* exchange_exists(), declare and delete an exchange, declare, remove and purge
\* a queue: a failure leaves m_valid as it is.
Declare(o) ==
  /\ Uses(o)
  /\ \/ Served(m_id[o]) /\ ret' = "true" /\ UNCHANGED brokerVars
     \/ Refused(m_id[o]) /\ ret' = "false"
  /\ UNCHANGED <<ownVars, m_stop, readVars, channel_max, wire, countVars>>

\* bind and unbind an exchange or a queue, basic_qos(): a failure invalidates.
Bind(o) ==
  /\ Uses(o)
  /\ \/ Served(m_id[o]) /\ ret' = "true" /\ UNCHANGED <<m_valid, brokerVars>>
     \/ /\ Refused(m_id[o]) /\ ret' = "false"
        /\ m_valid' = [m_valid EXCEPT ![o] = FALSE]
  /\ UNCHANGED <<conn, m_next_channel_id, m_channels, made, m_id, callbacks,
                 held, m_stop, readVars, channel_max, wire, countVars>>

BasicConsume(o, t) ==
  /\ Uses(o) /\ t \notin callbacks[o]
  /\ \/ /\ Served(m_id[o]) /\ ret' = "true"
        /\ consumers' = [consumers EXCEPT ![m_id[o]][t] = o]
        /\ callbacks' = [callbacks EXCEPT ![o] = @ \cup {t}]
        /\ UNCHANGED <<m_valid, link, opened, unacked>>
     \/ /\ Refused(m_id[o]) /\ ret' = "false"
        /\ m_valid' = [m_valid EXCEPT ![o] = FALSE]
        /\ UNCHANGED callbacks
  /\ UNCHANGED <<conn, m_next_channel_id, m_channels, made, m_id, held, m_stop,
                 readVars, channel_max, wire, countVars>>

\* A tag already registered on the channel.
BasicConsumeTwice(o, t) ==
  /\ Uses(o) /\ t \in callbacks[o]
  /\ ret' = "false"
  /\ UNCHANGED <<ownVars, m_stop, readVars, brokerVars, channel_max, wire,
                 countVars>>

\* basic_publish() is asynchronous: only a dead connection is a failure.  A
\* message that cannot be routed comes back.
BasicPublish(o) ==
  /\ Uses(o) /\ published < MaxPublished
  /\ IF link = "up"
       THEN /\ ret' = "status_ok" /\ published' = published + 1
            /\ \/ UNCHANGED wire
               \/ /\ Served(m_id[o]) /\ Len(wire) < MaxWire
                  /\ wire' = Append(wire, Frame("return", m_id[o]))
       ELSE ret' = "status_error" /\ UNCHANGED <<published, wire>>
  /\ UNCHANGED <<ownVars, m_stop, readVars, brokerVars, channel_max, delivered>>

\* VERIFY_CHANNEL(false): false is 0, and 0 is AMQP_STATUS_OK.
BasicPublishInvalid(o) ==
  /\ ClientRuns /\ o \in held /\ ~m_valid[o]
  /\ ret' = "status_ok"
  /\ UNCHANGED <<ownVars, m_stop, readVars, brokerVars, channel_max, wire,
                 countVars>>

-----------------------------------------------------------------------------
(* Consuming *)

\* consume_one() and start_consuming() are called outside of callbacks.
Consume(loops) ==
  /\ pc = "client" /\ conn = "open"
  /\ pc' = IF loops THEN "loop" ELSE "read"
  /\ looping' = loops
  /\ ret' = "none"
  /\ UNCHANGED <<ownVars, m_stop, envelope, handler, brokerVars, channel_max,
                 wire, countVars>>

\* Mutant: start_consuming() ends only on an error.
LoopTest_IgnoresStop ==
  /\ pc = "loop"
  /\ pc' = "read"
  /\ ret' = "none"
  /\ UNCHANGED <<ownVars, m_stop, looping, envelope, handler, brokerVars,
                 channel_max, wire, countVars>>

\* while (!m_stop) ...
LoopTest ==
  /\ pc = "loop"
  /\ pc' = IF m_stop THEN "client" ELSE "read"
  /\ looping' = ~m_stop
  /\ ret' = IF m_stop THEN "true" ELSE "none"
  /\ UNCHANGED <<ownVars, m_stop, envelope, handler, brokerVars, channel_max,
                 wire, countVars>>

\* consume_one() returns; start_consuming() goes on as long as it is true.
Returns(value) ==
  /\ ret' = IF value THEN "true" ELSE "false"
  /\ pc' = IF looping /\ value THEN "loop" ELSE "client"
  /\ looping' = (looping /\ value)
  /\ handler' = None

Reads(kind) == pc = "read" /\ wire # <<>> /\ Head(wire).kind = kind

\* The channel of the id is there, valid, and knows the consumer tag.
Known(f) ==
  LET o == m_channels[f.id] IN
  o # None /\ m_valid[o] /\ f.tag \in callbacks[o]

ReadEnvelope ==
  /\ Reads("deliver") /\ Known(Head(wire))
  /\ pc' = "callback"
  /\ envelope' = Head(wire) /\ handler' = m_channels[Head(wire).id]
  /\ wire' = Tail(wire)
  /\ ret' = "none"
  /\ UNCHANGED <<ownVars, m_stop, looping, brokerVars, channel_max, countVars>>

\* Otherwise the envelope is dropped, which consume_one() does not tell.
DropEnvelope ==
  /\ Reads("deliver") /\ ~Known(Head(wire))
  /\ Returns(TRUE)
  /\ wire' = Tail(wire)
  /\ UNCHANGED <<ownVars, m_stop, envelope, brokerVars, channel_max, countVars>>

\* The callback answers; an envelope consumed is acknowledged, whatever the
\* callback did to its channel.  The broker closes a channel that acknowledges
\* what it does not wait for, and a connection that uses a closed channel.
CallbackReturns(consumed) ==
  /\ pc = "callback"
  /\ Returns(TRUE)
  /\ IF ~consumed \/ link = "down" THEN UNCHANGED <<brokerVars, wire>>
     ELSE LET i == m_id[handler]
              d == <<envelope.n, i>>
          IN  IF ~Served(i) THEN LinkDies /\ UNCHANGED wire
              ELSE IF d \in unacked
                THEN /\ unacked' = unacked \ {d}
                     /\ UNCHANGED <<link, opened, consumers, wire>>
              ELSE /\ Closes({i}) /\ UNCHANGED link
                   /\ wire' = Append(wire, Frame("close", i))
  /\ UNCHANGED <<ownVars, m_stop, envelope, channel_max, countVars>>

\* The message that came back is handed to the channel's handlers, if it can be
\* read to its end and the channel is still known.
ReadReturn ==
  /\ Reads("return")
  /\ \E whole \in {TRUE, link = "up"} :
       Returns(whole /\ m_channels[Head(wire).id] # None)
  /\ wire' = Tail(wire)
  /\ UNCHANGED <<ownVars, m_stop, envelope, brokerVars, channel_max, countVars>>

\* channel.close and connection.close are only reported.
ReadClose ==
  /\ Reads("close") \/ Reads("connection_close")
  /\ Returns(FALSE)
  /\ wire' = Tail(wire)
  /\ UNCHANGED <<ownVars, m_stop, envelope, brokerVars, channel_max, countVars>>

\* Nothing came before the time-out.
ReadTimeout ==
  /\ pc = "read" /\ wire = <<>> /\ link = "up" /\ Timed
  /\ Returns(TRUE)
  /\ UNCHANGED <<ownVars, m_stop, envelope, brokerVars, channel_max, wire,
                 countVars>>

\* A dead connection: the library's error is not AMQP_STATUS_UNEXPECTED_STATE,
\* so no branch of consume_one() returns false.
ReadLost ==
  /\ pc = "read" /\ wire = <<>> /\ link = "down"
  /\ Returns(TRUE)
  /\ UNCHANGED <<ownVars, m_stop, envelope, brokerVars, channel_max, wire,
                 countVars>>

\* stop(), from any thread.
Stop ==
  /\ conn = "open"
  /\ m_stop' = TRUE
  /\ ret' = "none"
  /\ UNCHANGED <<ownVars, readVars, brokerVars, channel_max, wire, countVars>>

-----------------------------------------------------------------------------
Broker ==
  \/ \E i \in Ids, t \in Tags : BrokerDelivers(i, t)
  \/ \E i \in Ids : BrokerCloses(i)
  \/ LinkLost

Manage ==
  \/ CreateChannel \/ CreateChannelThrows \/ CreateChannelRefused
  \/ SetHeartbeatInterval
  \/ \E o \in Objects : DestroyChannel(o) \/ DropChannel(o)
  \/ DestroyConnection

UseChannel(o) ==
  \/ Invalid(o) \/ Declare(o) \/ Bind(o)
  \/ BasicPublish(o) \/ BasicPublishInvalid(o)
  \/ \E t \in Tags : BasicConsume(o, t) \/ BasicConsumeTwice(o, t)

Consuming ==
  \/ LoopTest
  \/ ReadEnvelope \/ DropEnvelope \/ ReadReturn \/ ReadClose
  \/ ReadTimeout \/ ReadLost
  \/ \E consumed \in BOOLEAN : CallbackReturns(consumed)

Over == conn = "gone" /\ UNCHANGED vars

Next ==
  \/ Broker
  \/ Manage
  \/ \E o \in Objects : UseChannel(o)
  \/ \E loops \in BOOLEAN : Consume(loops)
  \/ Consuming
  \/ Stop
  \/ Over

Spec == Init /\ [][Next]_vars

FairSpec == Spec /\ WF_vars(Consuming)

-----------------------------------------------------------------------------
(* Properties *)

\* A channel object that says it is valid belongs to a living connection, which
\* finds it under its id: no call on it meets a null connection, and no two
\* valid channels share an id (connection.cpp:68-79, 153-177, channel.cpp:88-98).
ValidMeansConnected ==
  \A o \in 1..made : m_valid[o] => conn = "open" /\ InMap(o)

\* An envelope reaches the callback of the channel object that subscribed, also
\* when it was on the wire while channels were closed and opened
\* (connection.cpp:302-312).
NeverMisrouted == pc = "callback" => envelope.to = handler

\* A channel the broker serves is one the client can still use or close: no
\* channel leaks (connection.cpp:170-177, channel.cpp:88-98).
NoChannelLeaks == \A i \in opened : m_channels[i] # None /\ m_valid[m_channels[i]]

\* stop() ends start_consuming() (connection.h:74-78).
StopEndsConsuming == m_stop /\ looping ~> ~looping

\* start_consuming() ends when the connection is dead (connection.h:74-78).
DeadLinkEndsConsuming == link = "down" /\ looping ~> ~looping

\* basic_publish() returns AMQP_STATUS_OK of a message that was transmitted
\* (channel.h:165-168).
OkMeansTransmitted == [][ret' = "status_ok" => published' = published + 1]_vars

\* create_channel() refuses only when the maximum is reached
\* (connection.cpp:155-158).
RefusedAtMax ==
  [][ret' = "refused" /\ link = "up" =>
       Cardinality(opened) = ChannelMax]_vars

\* create_channel() throws only when the connection is dead: below the maximum
\* there is an id for it (connection.cpp:160-161).
ThrowsWhenDead ==
  [][ret' = "throws" => link = "down" \/ Cardinality(opened) = ChannelMax]_vars

\* An envelope is acknowledged only through a valid channel: what VERIFY_CHANNEL
\* checked before the callback still holds after it (channel.cpp:42-46, 404).
AckOnValidChannel ==
  [][pc = "callback" /\ pc' # "callback" /\ link # link' => m_valid[handler]]_vars

\* Acknowledging a consumed envelope never costs the client the open channel it
\* came through (channel.cpp:419-423, channel.h:192).
AckIsHarmless ==
  [][pc = "callback" /\ pc' # "callback" /\ Served(m_id[handler]) =>
       UNCHANGED <<link, opened>>]_vars

-----------------------------------------------------------------------------
(* Inductive invariant *)

\* Ids are given in order, and never twice while the connection lives.
IdsAreFresh ==
  /\ \A o, p \in 1..made : m_id[o] = m_id[p] => o = p
  /\ link = "up" => \A o \in 1..made : m_id[o] <= m_next_channel_id
  /\ \A i \in Ids : m_channels[i] # None =>
       m_channels[i] \in 1..made /\ m_id[m_channels[i]] = i

\* What the broker and the wire know of a channel object bears its id.
SubscribersBearTheirId ==
  /\ \A i \in Ids, t \in Tags : consumers[i][t] # None =>
       consumers[i][t] \in 1..made /\ m_id[consumers[i][t]] = i
  /\ \A k \in 1..Len(wire) : wire[k].kind = "deliver" =>
       wire[k].to \in 1..made /\ m_id[wire[k].to] = wire[k].id

IInv ==
  /\ IdsAreFresh
  /\ SubscribersBearTheirId
  /\ ValidMeansConnected
  /\ NoChannelLeaks
  /\ NeverMisrouted
  /\ pc = "callback" => handler \in 1..made
  /\ pc # "client" => conn = "open"
  /\ conn = "gone" => link = "down"
  /\ link = "down" => opened = {}

=============================================================================
