-------------------------- MODULE ConnectionProofs --------------------------
(***************************************************************************)
(* Theorems about amqp::Connection and amqp::Channel, for every number of  *)
(* channels, width of the channel ids and set of consumer tags.            *)
(***************************************************************************)
EXTENDS Connection, SequenceTheorems, TLAPS

\* The next id is an id; it follows the last one unless the counter wraps to 0.
LEMMA NextId ==
  ASSUME m_next_channel_id \in Ids
  PROVE  LET id == (m_next_channel_id + 1) % IdModulus IN
         id \in Ids /\ (id # 0 => id = m_next_channel_id + 1)
<1>1. CASE m_next_channel_id + 1 < IdModulus
  <2>1. (m_next_channel_id + 1) % IdModulus = m_next_channel_id + 1
    BY <1>1, ConnectionAssumption DEF Ids
  <2> QED
    BY <2>1, <1>1, ConnectionAssumption DEF Ids
<1>2. CASE m_next_channel_id + 1 = IdModulus
  <2>1. (m_next_channel_id + 1) % IdModulus = 0
    BY <1>2, ConnectionAssumption
  <2> QED
    BY <2>1, ConnectionAssumption DEF Ids
<1> QED
  BY <1>1, <1>2, ConnectionAssumption DEF Ids

\* What the broker keeps of its channels keeps its type, also when some close.
BrokerOK ==
  /\ link \in {"up", "down"} /\ opened \subseteq Ids
  /\ consumers \in [Ids -> [Tags -> Objects \cup {None}]]
  /\ unacked \subseteq (1..delivered) \X Ids

LEMMA ClosesOK ==
  ASSUME BrokerOK, NEW is, Closes(is), link' \in {"up", "down"},
         delivered' = delivered
  PROVE  BrokerOK'
BY DEF BrokerOK, Closes, Nobody

LEMMA BrokerStaysOK ==
  ASSUME BrokerOK, delivered' = delivered, NEW i,
         LinkDies \/ Refused(i) \/ UNCHANGED brokerVars
         \/ (Closes({i}) /\ UNCHANGED link)
  PROVE  BrokerOK'
<1>1. CASE LinkDies
  BY <1>1, ClosesOK DEF LinkDies, BrokerOK
<1>2. CASE Closes({i}) /\ UNCHANGED link
  BY <1>2, ClosesOK DEF BrokerOK
<1>3. CASE UNCHANGED brokerVars
  BY <1>3 DEF brokerVars, BrokerOK
<1>4. CASE Refused(i)
  BY <1>1, <1>2, <1>4 DEF Refused
<1> QED
  BY <1>1, <1>2, <1>3, <1>4

LEMMA CloseOK ==
  ASSUME BrokerOK, delivered' = delivered, NEW o \in Objects, Close(o),
         m_valid \in [Objects -> BOOLEAN]
  PROVE  BrokerOK' /\ m_valid' \in [Objects -> BOOLEAN]
BY BrokerStaysOK DEF Close, Served

\* The variables but the broker's.
ClientOK ==
  /\ conn \in {"open", "gone"}
  /\ m_next_channel_id \in Ids
  /\ m_channels \in [Ids -> Objects \cup {None}]
  /\ made \in 0..MaxObjects
  /\ m_id \in [Objects -> Ids] /\ m_valid \in [Objects -> BOOLEAN]
  /\ callbacks \in [Objects -> SUBSET Tags]
  /\ held \subseteq 1..made
  /\ m_stop \in BOOLEAN /\ looping \in BOOLEAN
  /\ pc \in {"client", "loop", "read", "callback"}
  /\ envelope \in Frames /\ handler \in Objects \cup {None}
  /\ ret \in Results
  /\ channel_max \in {0, ChannelMax}
  /\ wire \in Seq(Frames)
  /\ delivered \in 0..MaxDeliveries /\ published \in 0..MaxPublished

LEMMA TypeSplit == TypeOK <=> ClientOK /\ BrokerOK
BY DEF TypeOK, ClientOK, BrokerOK

LEMMA TypeJoin == ASSUME ClientOK', BrokerOK' PROVE TypeOK'
BY DEF TypeOK, ClientOK, BrokerOK

LEMMA FrameOK ==
  ASSUME NEW i \in Ids,
         NEW kind \in {"deliver", "return", "close", "connection_close"}
  PROVE  Frame(kind, i) \in Frames
BY ConnectionAssumption DEF Frame, Frames

LEMMA WireOK ==
  ASSUME wire \in Seq(Frames), NEW f \in Frames,
         wire' = wire \/ wire' = Append(wire, f)
  PROVE  wire' \in Seq(Frames)
BY AppendProperties

\* Every step of the broker keeps every variable in its type.
LEMMA BrokerTypeOK == ASSUME TypeOK, Broker PROVE TypeOK'
<1> USE DEF ownVars, readVars, countVars, Results
<1>0. ClientOK /\ BrokerOK
  BY TypeSplit
<1> SUFFICES ClientOK' /\ BrokerOK'
  BY TypeJoin
<1>a. 0 \in Ids
  BY ConnectionAssumption DEF Ids
<1>1. ASSUME NEW i \in Ids, NEW t \in Tags, BrokerDelivers(i, t)
      PROVE  ClientOK' /\ BrokerOK'
  <2>1. delivered' \in 1..MaxDeliveries /\ delivered' = delivered + 1
    BY <1>0, <1>1, ConnectionAssumption DEF BrokerDelivers, ClientOK
  <2>2. consumers[i][t] \in Objects
    BY <1>0, <1>1 DEF BrokerDelivers, BrokerOK
  <2>3. Delivery(i, t, delivered', consumers[i][t]) \in Frames
    BY <2>1, <2>2, ConnectionAssumption DEF Delivery, Frames
  <2>4. wire' \in Seq(Frames)
    BY <1>0, <1>1, <2>3, AppendProperties DEF BrokerDelivers, ClientOK
  <2>5. ClientOK'
    BY <1>0, <1>1, <2>1, <2>4, ConnectionAssumption DEF BrokerDelivers, ClientOK
  <2>6. unacked' \subseteq (1..delivered') \X Ids
    <3>1. 1..delivered \subseteq 1..delivered' /\ delivered' \in 1..delivered'
      BY <1>0, <2>1 DEF ClientOK
    <3> QED
      BY <1>0, <1>1, <3>1 DEF BrokerDelivers, BrokerOK
  <2> QED
    BY <1>0, <1>1, <2>5, <2>6 DEF BrokerDelivers, BrokerOK
<1>2. ASSUME NEW i \in Ids, BrokerCloses(i)  PROVE  ClientOK' /\ BrokerOK'
  <2>1. wire' \in Seq(Frames)
    BY <1>0, <1>2, FrameOK, AppendProperties DEF BrokerCloses, ClientOK
  <2>2. BrokerOK'
    BY <1>0, <1>2, BrokerStaysOK DEF BrokerCloses
  <2> QED
    BY <1>0, <1>2, <2>1, <2>2 DEF BrokerCloses, ClientOK
<1>3. CASE LinkLost
  <2>1. wire' \in Seq(Frames)
    <3>1. Frame("connection_close", 0) \in Frames
      BY <1>a, FrameOK
    <3>2. wire' = wire \/ wire' = Append(wire, Frame("connection_close", 0))
      BY <1>3 DEF LinkLost
    <3> QED
      BY <1>0, <3>1, <3>2, WireOK DEF ClientOK
  <2>2. BrokerOK'
    BY <1>0, <1>3, BrokerStaysOK DEF LinkLost
  <2> QED
    BY <1>0, <1>3, <2>1, <2>2 DEF LinkLost, ClientOK
<1> QED
  BY <1>1, <1>2, <1>3 DEF Broker

\* So does every call that makes or ends a channel or the connection.
LEMMA ManageTypeOK == ASSUME TypeOK, Manage PROVE TypeOK'
<1> USE DEF ownVars, readVars, countVars, Results
<1>0. ClientOK /\ BrokerOK
  BY TypeSplit
<1> SUFFICES ClientOK' /\ BrokerOK'
  BY TypeJoin
<1>1. CASE CreateChannel
  <2>1. made' = made + 1 /\ made' \in Objects /\ held' \subseteq 1..made'
    BY <1>0, <1>1, ConnectionAssumption DEF CreateChannel, ClientOK, Objects
  <2>2. m_next_channel_id' \in Ids /\ opened' = opened \cup {m_next_channel_id'}
    BY <1>0, <1>1, NextId DEF CreateChannel, ClientOK
  <2>3. made' \in 0..MaxObjects
    BY <2>1, ConnectionAssumption DEF Objects
  <2>4. /\ m_id' = [m_id EXCEPT ![made'] = m_next_channel_id']
        /\ m_valid' = [m_valid EXCEPT ![made'] = TRUE]
        /\ m_channels' = [m_channels EXCEPT ![m_next_channel_id'] = made']
    BY <1>1 DEF CreateChannel
  <2>5. ClientOK'
    BY <1>0, <1>1, <2>1, <2>2, <2>3, <2>4 DEF CreateChannel, ClientOK
  <2>6. BrokerOK'
    BY <1>0, <1>1, <2>2 DEF CreateChannel, BrokerOK
  <2> QED
    BY <2>5, <2>6
<1>2. CASE CreateChannelThrows
  <2>1. m_next_channel_id' \in Ids
    BY <1>0, <1>2, NextId DEF CreateChannelThrows, ClientOK
  <2>2. BrokerOK'
    BY <1>0, <1>2, BrokerStaysOK DEF CreateChannelThrows
  <2> QED
    BY <1>0, <1>2, <2>1, <2>2 DEF CreateChannelThrows, ClientOK
<1>3. CASE CreateChannelRefused
  BY <1>0, <1>3 DEF CreateChannelRefused, ClientOK, BrokerOK, brokerVars
<1>4. CASE SetHeartbeatInterval
  BY <1>0, <1>4 DEF SetHeartbeatInterval, ClientOK, BrokerOK, brokerVars
<1>5. ASSUME NEW o \in Objects, DestroyChannel(o)
      PROVE  ClientOK' /\ BrokerOK'
  <2>1. BrokerOK' /\ m_valid' \in [Objects -> BOOLEAN]
    BY <1>0, <1>5, CloseOK DEF DestroyChannel, ClientOK
  <2> QED
    BY <1>0, <1>5, <2>1 DEF DestroyChannel, ClientOK
<1>6. ASSUME NEW o \in Objects, DropChannel(o)
      PROVE  ClientOK' /\ BrokerOK'
  <2>1. BrokerOK' /\ m_valid' \in [Objects -> BOOLEAN]
    <3>1. CASE Close(o)
      BY <1>0, <1>6, <3>1, CloseOK DEF DropChannel, ClientOK
    <3>2. CASE UNCHANGED <<m_valid, brokerVars>>
      BY <1>0, <1>6, <3>2 DEF DropChannel, ClientOK, BrokerOK, brokerVars
    <3> QED
      BY <1>6, <3>1, <3>2 DEF DropChannel
  <2> QED
    BY <1>0, <1>6, <2>1 DEF DropChannel, ClientOK
<1>7. CASE DestroyConnection
  <2>1. BrokerOK'
    BY <1>0, <1>7, BrokerStaysOK DEF DestroyConnection
  <2>2. m_valid' \in [Objects -> BOOLEAN]
    BY <1>7, Zenon DEF DestroyConnection
  <2> QED
    BY <1>0, <1>7, <2>1, <2>2 DEF DestroyConnection, ClientOK
<1> QED
  BY <1>1, <1>2, <1>3, <1>4, <1>5, <1>6, <1>7 DEF Manage

\* So does every call on a channel.
LEMMA UseTypeOK ==
  ASSUME TypeOK, NEW o \in Objects, UseChannel(o)
  PROVE  TypeOK'
<1> USE DEF ownVars, readVars, countVars, Results
<1>0. ClientOK /\ BrokerOK
  BY TypeSplit
<1> SUFFICES ClientOK' /\ BrokerOK'
  BY TypeJoin
<1>1. CASE Invalid(o)
  BY <1>0, <1>1 DEF Invalid, ClientOK, BrokerOK, brokerVars
<1>2. CASE Declare(o)
  <2>1. BrokerOK'
    BY <1>0, <1>2, BrokerStaysOK DEF Declare
  <2> QED
    BY <1>0, <1>2, <2>1 DEF Declare, ClientOK
<1>3. CASE Bind(o)
  <2>1. BrokerOK'
    BY <1>0, <1>3, BrokerStaysOK DEF Bind
  <2> QED
    BY <1>0, <1>3, <2>1 DEF Bind, ClientOK
<1>4. CASE BasicPublish(o)
  <2>1. /\ wire' = wire \/ wire' = Append(wire, Frame("return", m_id[o]))
        /\ \/ published' = published
           \/ published < MaxPublished /\ published' = published + 1
    BY <1>4 DEF BasicPublish
  <2>2. Frame("return", m_id[o]) \in Frames
    BY <1>0, FrameOK DEF ClientOK
  <2>3. wire' \in Seq(Frames)
    BY <1>0, <2>1, <2>2, WireOK DEF ClientOK
  <2>5. published' \in 0..MaxPublished
    BY <1>0, <2>1, ConnectionAssumption DEF ClientOK
  <2>4. ret' \in Results
    BY <1>4 DEF BasicPublish
  <2> QED
    BY <1>0, <1>4, <2>3, <2>4, <2>5 DEF BasicPublish, ClientOK, BrokerOK, brokerVars
<1>5. CASE BasicPublishInvalid(o)
  BY <1>0, <1>5 DEF BasicPublishInvalid, ClientOK, BrokerOK, brokerVars
<1>6. ASSUME NEW t \in Tags, BasicConsume(o, t)
      PROVE  ClientOK' /\ BrokerOK'
  <2>1. CASE ret' = "true"
    <3>1. consumers' \in [Ids -> [Tags -> Objects \cup {None}]]
      <4>1. consumers' = [consumers EXCEPT ![m_id[o]] =
                            [consumers[m_id[o]] EXCEPT ![t] = o]]
        BY <1>6, <2>1 DEF BasicConsume
      <4>2. [consumers[m_id[o]] EXCEPT ![t] = o] \in [Tags -> Objects \cup {None}]
        BY <1>0 DEF BrokerOK, ClientOK
      <4> QED
        BY <1>0, <4>1, <4>2 DEF BrokerOK
    <3>2. callbacks' \in [Objects -> SUBSET Tags]
      BY <1>0, <1>6, <2>1 DEF BasicConsume, ClientOK
    <3> QED
      BY <1>0, <1>6, <2>1, <3>1, <3>2 DEF BasicConsume, ClientOK, BrokerOK
  <2>2. CASE ret' # "true"
    <3>1. BrokerOK'
      BY <1>0, <1>6, <2>2, BrokerStaysOK DEF BasicConsume
    <3> QED
      BY <1>0, <1>6, <2>2, <3>1 DEF BasicConsume, ClientOK
  <2> QED
    BY <2>1, <2>2
<1>7. ASSUME NEW t \in Tags, BasicConsumeTwice(o, t)
      PROVE  ClientOK' /\ BrokerOK'
  BY <1>0, <1>7 DEF BasicConsumeTwice, ClientOK, BrokerOK, brokerVars
<1> QED
  BY <1>1, <1>2, <1>3, <1>4, <1>5, <1>6, <1>7 DEF UseChannel

\* So does every step of consume_one() and start_consuming().
LEMMA ConsumingTypeOK == ASSUME TypeOK, Consuming PROVE TypeOK'
<1> USE DEF ownVars, readVars, countVars, Results
<1>0. ClientOK /\ BrokerOK
  BY TypeSplit
<1> SUFFICES ClientOK' /\ BrokerOK'
  BY TypeJoin
<1>a. ASSUME NEW value \in BOOLEAN, Returns(value)
      PROVE  /\ ret' \in Results /\ pc' \in {"loop", "client"}
             /\ looping' \in BOOLEAN /\ handler' \in Objects \cup {None}
  BY <1>0, <1>a DEF Returns, ClientOK
<1>b. ASSUME wire # <<>>
      PROVE  Head(wire) \in Frames /\ Tail(wire) \in Seq(Frames)
  BY <1>0, <1>b, HeadTailProperties DEF ClientOK
<1>1. CASE LoopTest
  BY <1>0, <1>1 DEF LoopTest, ClientOK, BrokerOK, brokerVars
<1>2. CASE ReadEnvelope
  <2>1. m_channels[Head(wire).id] \in Objects \cup {None}
    BY <1>0, <1>b, <1>2 DEF ReadEnvelope, Reads, Frames, ClientOK
  <2> QED
    BY <1>0, <1>b, <1>2, <2>1
       DEF ReadEnvelope, Reads, ClientOK, BrokerOK, brokerVars
<1>3. CASE DropEnvelope
  BY <1>0, <1>a, <1>b, <1>3
     DEF DropEnvelope, Reads, ClientOK, BrokerOK, brokerVars
<1>4. CASE ReadReturn
  <2>1. /\ ret' \in Results /\ pc' \in {"loop", "client"}
        /\ looping' \in BOOLEAN /\ handler' \in Objects \cup {None}
    BY <1>a, <1>4 DEF ReadReturn
  <2> QED
    BY <1>0, <1>b, <1>4, <2>1
       DEF ReadReturn, Reads, ClientOK, BrokerOK, brokerVars
<1>5. CASE ReadClose
  BY <1>0, <1>a, <1>b, <1>5
     DEF ReadClose, Reads, ClientOK, BrokerOK, brokerVars
<1>6. CASE ReadTimeout
  BY <1>0, <1>a, <1>6 DEF ReadTimeout, ClientOK, BrokerOK, brokerVars
<1>7. CASE ReadLost
  BY <1>0, <1>a, <1>7 DEF ReadLost, ClientOK, BrokerOK, brokerVars
<1>8. ASSUME NEW consumed \in BOOLEAN, CallbackReturns(consumed)
      PROVE  ClientOK' /\ BrokerOK'
  <2> DEFINE i == m_id[handler]
             d == <<envelope.n, i>>
  <2>1. /\ ret' \in Results /\ pc' \in {"loop", "client"}
        /\ looping' \in BOOLEAN /\ handler' \in Objects \cup {None}
    BY <1>a, <1>8 DEF CallbackReturns
  <2>2. \/ UNCHANGED <<brokerVars, wire>>
        \/ LinkDies /\ UNCHANGED wire
        \/ unacked' = unacked \ {d} /\ UNCHANGED <<link, opened, consumers, wire>>
        \/ /\ Served(i) /\ Closes({i}) /\ UNCHANGED link
           /\ wire' = Append(wire, Frame("close", i))
    BY <1>8 DEF CallbackReturns
  <2>3. BrokerOK'
    <3>1. CASE \/ UNCHANGED brokerVars \/ LinkDies
               \/ Closes({i}) /\ UNCHANGED link
      BY <1>0, <1>8, <3>1, BrokerStaysOK DEF CallbackReturns
    <3>2. CASE unacked' = unacked \ {d} /\ UNCHANGED <<link, opened, consumers>>
      BY <1>0, <1>8, <3>2 DEF CallbackReturns, BrokerOK
    <3> QED
      BY <2>2, <3>1, <3>2
  <2>4. wire' \in Seq(Frames)
    <3>1. Served(i) => Frame("close", i) \in Frames
      BY <1>0, FrameOK DEF Served, BrokerOK
    <3> QED
      BY <1>0, <2>2, <3>1, AppendProperties DEF ClientOK
  <2> QED
    BY <1>0, <1>8, <2>1, <2>3, <2>4 DEF CallbackReturns, ClientOK
<1> QED
  BY <1>1, <1>2, <1>3, <1>4, <1>5, <1>6, <1>7, <1>8 DEF Consuming

LEMMA InitTypeOK == Init => TypeOK
<1>1. 0 \in Ids
  BY ConnectionAssumption DEF Ids
<1>2. Frame("close", 0) \in Frames /\ <<>> \in Seq(Frames)
  BY <1>1, FrameOK, EmptySeq
<1> QED
  BY <1>1, <1>2, ConnectionAssumption DEF Init, TypeOK, Results, Nobody

LEMMA NextTypeOK == ASSUME TypeOK, [Next]_vars PROVE TypeOK'
<1> USE DEF ownVars, readVars, brokerVars, countVars
<1>1. ASSUME NEW loops \in BOOLEAN, Consume(loops)  PROVE  TypeOK'
  BY <1>1 DEF Consume, TypeOK, Results
<1>2. CASE Stop
  BY <1>2 DEF Stop, TypeOK, Results
<1>3. CASE UNCHANGED vars
  BY <1>3 DEF vars, TypeOK
<1> QED
  BY <1>1, <1>2, <1>3, BrokerTypeOK, ManageTypeOK, UseTypeOK, ConsumingTypeOK
     DEF Next, Over

\* Every variable of the connection keeps its type.
THEOREM TypesHold == Spec => []TypeOK
<1>1. TypeOK /\ [Next]_vars => TypeOK'
  BY NextTypeOK
<1> QED
  BY <1>1, InitTypeOK, PTL DEF Spec

-----------------------------------------------------------------------------
(* The invariant *)

\* What closing channels does to the rest of the broker's view: it shrinks.
Shrinks ==
  /\ opened' \subseteq opened
  /\ link' = link \/ (link' = "down" /\ opened' = {})
  /\ \A i \in Ids, t \in Tags :
       consumers'[i][t] = None \/ consumers'[i][t] = consumers[i][t]

LEMMA MadeAreObjects == ASSUME TypeOK PROVE 1..made \subseteq Objects
BY ConnectionAssumption DEF TypeOK, Objects

LEMMA ClosesShrinks ==
  ASSUME BrokerOK, NEW i,
         LinkDies \/ Refused(i) \/ UNCHANGED brokerVars
         \/ (Closes({i}) /\ UNCHANGED link)
  PROVE  Shrinks /\ (UNCHANGED brokerVars \/ i \notin opened')
<1>1. CASE LinkDies
  BY <1>1 DEF LinkDies, Closes, Shrinks, BrokerOK, Nobody
<1>2. CASE Closes({i}) /\ UNCHANGED link
  BY <1>2 DEF Closes, Shrinks, BrokerOK, Nobody
<1>3. CASE UNCHANGED brokerVars
  BY <1>3 DEF brokerVars, Shrinks
<1> QED
  BY <1>1, <1>2, <1>3 DEF Refused

\* The frames that stay on the wire were on it; those added deliver nothing.
WireShrinks ==
  \A k \in 1..Len(wire') : wire'[k].kind = "deliver" =>
    \E j \in 1..Len(wire) : wire'[k] = wire[j]

LEMMA WireSame == UNCHANGED wire => WireShrinks
BY DEF WireShrinks

LEMMA WireRead ==
  ASSUME wire \in Seq(Frames), wire # <<>>, wire' = Tail(wire)
  PROVE  WireShrinks
<1>1. /\ Len(wire) \in Nat \ {0} /\ Len(wire') = Len(wire) - 1
      /\ \A k \in 1..(Len(wire) - 1) : wire'[k] = wire[k + 1]
  BY HeadTailProperties, EmptySeq, LenProperties
<1>2. \A k \in 1..Len(wire') : k + 1 \in 1..Len(wire)
  BY <1>1
<1> QED
  BY <1>1, <1>2 DEF WireShrinks

LEMMA WireGrows ==
  ASSUME wire \in Seq(Frames), NEW f \in Frames, f.kind # "deliver",
         wire' = wire \/ wire' = Append(wire, f)
  PROVE  WireShrinks
<1>1. CASE wire' = wire
  BY <1>1, WireSame
<1>2. CASE wire' = Append(wire, f)
  <2>1. /\ Len(wire) \in Nat /\ Len(wire') = Len(wire) + 1
        /\ \A k \in 1..Len(wire) : wire'[k] = wire[k]
        /\ wire'[Len(wire) + 1] = f
    BY <1>2, AppendProperties, LenProperties
  <2>2. \A k \in 1..Len(wire') : k \in 1..Len(wire) \/ k = Len(wire) + 1
    BY <2>1
  <2> QED
    BY <2>1, <2>2 DEF WireShrinks
<1> QED
  BY <1>1, <1>2

\* A step that makes no channel, subscribes nobody and reads no envelope keeps
\* the invariant when a channel it invalidates is not left open at the broker.
LEMMA QuietStep ==
  ASSUME TypeOK, IInv, Shrinks, WireShrinks,
         UNCHANGED <<conn, made, m_id, m_channels, m_next_channel_id>>,
         \A o \in Objects : m_valid'[o] => m_valid[o],
         \A o \in Objects : m_valid[o] /\ ~m_valid'[o] => m_id[o] \notin opened',
         pc' = "callback" => pc = "callback" /\ UNCHANGED <<envelope, handler>>,
         pc' = "client" \/ conn = "open"
  PROVE  IInv'
<1>0. /\ 1..made \subseteq Objects /\ m_id \in [Objects -> Ids]
      /\ m_channels \in [Ids -> Objects \cup {None}]
      /\ opened \subseteq Ids
  BY MadeAreObjects DEF TypeOK
<1>1. IdsAreFresh'
  BY DEF IInv, IdsAreFresh, Shrinks
<1>2. SubscribersBearTheirId'
  <2>1. \A i \in Ids, t \in Tags : consumers'[i][t] # None =>
          consumers'[i][t] \in 1..made /\ m_id[consumers'[i][t]] = i
    BY DEF IInv, SubscribersBearTheirId, Shrinks
  <2>2. \A k \in 1..Len(wire') : wire'[k].kind = "deliver" =>
          wire'[k].to \in 1..made /\ m_id[wire'[k].to] = wire'[k].id
    BY DEF IInv, SubscribersBearTheirId, WireShrinks
  <2> QED
    BY <2>1, <2>2 DEF SubscribersBearTheirId
<1>3. ValidMeansConnected'
  BY <1>0 DEF IInv, ValidMeansConnected, InMap
<1>4. NoChannelLeaks'
  <2> SUFFICES ASSUME NEW i \in opened'
               PROVE  m_channels[i] # None /\ m_valid'[m_channels[i]]
    BY DEF NoChannelLeaks
  <2>1. i \in opened /\ i \in Ids
    BY <1>0 DEF Shrinks
  <2>2. m_channels[i] # None /\ m_valid[m_channels[i]]
    BY <2>1 DEF IInv, NoChannelLeaks
  <2>3. m_channels[i] \in Objects /\ m_id[m_channels[i]] = i
    BY <1>0, <2>1, <2>2 DEF IInv, IdsAreFresh
  <2> QED
    BY <2>2, <2>3
<1>5. NeverMisrouted' /\ (pc' = "callback" => handler' \in 1..made')
  BY DEF IInv, NeverMisrouted
<1>6. /\ pc' # "client" => conn' = "open"
      /\ conn' = "gone" => link' = "down"
      /\ link' = "down" => opened' = {}
  BY DEF IInv, Shrinks
<1> QED
  BY <1>1, <1>2, <1>3, <1>4, <1>5, <1>6 DEF IInv

LEMMA BrokerKeeps == ASSUME TypeOK, IInv, Broker PROVE IInv'
<1> USE DEF ownVars, readVars, countVars
<1>0. ClientOK /\ BrokerOK
  BY TypeSplit
<1>a. pc' = pc => pc' = "client" \/ conn = "open"
  BY DEF IInv
<1>1. ASSUME NEW i \in Ids, NEW t \in Tags, BrokerDelivers(i, t)
      PROVE  IInv'
  <2> DEFINE f == Delivery(i, t, delivered', consumers[i][t])
  <2>1. f.to \in 1..made /\ m_id[f.to] = f.id
    BY <1>1 DEF BrokerDelivers, Delivery, IInv, SubscribersBearTheirId
  <2>2. /\ Len(wire) \in Nat /\ Len(wire') = Len(wire) + 1
        /\ \A k \in 1..Len(wire) : wire'[k] = wire[k]
        /\ wire'[Len(wire) + 1] = f
    <3>1. wire \in Seq(Frames) /\ wire' = Append(wire, f)
      BY <1>0, <1>1 DEF BrokerDelivers, ClientOK
    <3> HIDE DEF f
    <3> QED
      BY <3>1, AppendProperties, LenProperties
  <2>3. \A k \in 1..Len(wire') : k \in 1..Len(wire) \/ k = Len(wire) + 1
    BY <2>2
  <2>4. SubscribersBearTheirId'
    <3> HIDE DEF f
    <3>1. UNCHANGED <<consumers, made, m_id>>
      BY <1>1 DEF BrokerDelivers
    <3>2. \A k \in 1..Len(wire') : wire'[k].kind = "deliver" =>
            wire'[k].to \in 1..made /\ m_id[wire'[k].to] = wire'[k].id
      BY <2>1, <2>2, <2>3 DEF IInv, SubscribersBearTheirId
    <3> QED
      BY <3>1, <3>2 DEF IInv, SubscribersBearTheirId
  <2> HIDE DEF f
  <2> QED
    BY <1>1, <2>4 DEF BrokerDelivers, IInv, IdsAreFresh, ValidMeansConnected,
       InMap, NoChannelLeaks, NeverMisrouted
<1>2. ASSUME NEW i \in Ids, BrokerCloses(i)  PROVE  IInv'
  <2>1. Shrinks
    BY <1>0, <1>2, ClosesShrinks DEF BrokerCloses
  <2>2. WireShrinks
    <3>1. Frame("close", i) \in Frames /\ Frame("close", i).kind # "deliver"
      BY FrameOK DEF Frame
    <3> QED
      BY <1>0, <1>2, <3>1, WireGrows DEF BrokerCloses, ClientOK
  <2> QED
    BY <1>a, <1>2, <2>1, <2>2, QuietStep DEF BrokerCloses
<1>3. CASE LinkLost
  <2>1. Shrinks
    BY <1>0, <1>3, ClosesShrinks DEF LinkLost
  <2>2. WireShrinks
    <3>1. /\ Frame("connection_close", 0) \in Frames
          /\ Frame("connection_close", 0).kind # "deliver"
      <4>1. 0 \in Ids
        BY ConnectionAssumption DEF Ids
      <4> QED
        BY <4>1, FrameOK DEF Frame
    <3>2. wire' = wire \/ wire' = Append(wire, Frame("connection_close", 0))
      BY <1>3 DEF LinkLost
    <3> QED
      BY <1>0, <3>1, <3>2, WireGrows DEF ClientOK
  <2> QED
    BY <1>a, <1>3, <2>1, <2>2, QuietStep DEF LinkLost
<1> QED
  BY <1>1, <1>2, <1>3 DEF Broker

\* A new channel takes an id nobody bears while the connection lives.
LEMMA CreateKeeps == ASSUME TypeOK, IInv, CreateChannel PROVE IInv'
<1>0. ClientOK /\ BrokerOK /\ 1..made \subseteq Objects
  BY TypeSplit, MadeAreObjects
<1> DEFINE id == m_next_channel_id'
           new == made'
<1>1. /\ new = made + 1 /\ new \in Objects /\ new \notin 1..made
      /\ 1..new = 1..made \cup {new}
  BY <1>0, ConnectionAssumption DEF CreateChannel, ClientOK, Objects
<1>2. id \in Ids /\ id = m_next_channel_id + 1 /\ m_next_channel_id \in Nat
  <2>1. id \in Ids /\ id = m_next_channel_id + 1
    BY <1>0, NextId DEF CreateChannel, ClientOK
  <2> QED
    BY <1>0, <2>1, ConnectionAssumption DEF ClientOK, Ids
<1>3. /\ m_id' = [m_id EXCEPT ![new] = id]
      /\ m_valid' = [m_valid EXCEPT ![new] = TRUE]
      /\ m_channels' = [m_channels EXCEPT ![id] = new]
      /\ opened' = opened \cup {id} /\ id \notin opened
      /\ link = "up" /\ conn = "open"
      /\ UNCHANGED <<conn, link, consumers, wire, pc, envelope, handler>>
  BY DEF CreateChannel, readVars
<1> HIDE DEF id, new
<1>4. /\ \A o \in 1..made : m_id'[o] = m_id[o] /\ m_valid'[o] = m_valid[o]
      /\ m_id'[new] = id /\ m_valid'[new]
      /\ \A i \in Ids : m_channels'[i] = IF i = id THEN new ELSE m_channels[i]
  BY <1>0, <1>1, <1>2, <1>3 DEF ClientOK
<1>5. \A o \in 1..made : m_id[o] # id /\ m_id[o] <= id
  <2>1. \A o \in 1..made : m_id[o] <= m_next_channel_id /\ m_id[o] \in Nat
    BY <1>0, <1>3, ConnectionAssumption DEF IInv, IdsAreFresh, ClientOK, Ids
  <2> QED
    BY <1>2, <2>1
<1>6. IdsAreFresh'
  <2>1. \A o, p \in 1..new : m_id'[o] = m_id'[p] => o = p
    BY <1>1, <1>4, <1>5 DEF IInv, IdsAreFresh
  <2>2. \A o \in 1..new : m_id'[o] <= id
    BY <1>1, <1>2, <1>4, <1>5
  <2>3. \A i \in Ids : m_channels'[i] # None =>
          m_channels'[i] \in 1..new /\ m_id'[m_channels'[i]] = i
    BY <1>1, <1>4 DEF IInv, IdsAreFresh
  <2> QED
    BY <2>1, <2>2, <2>3 DEF IdsAreFresh, id, new
<1>7. SubscribersBearTheirId'
  <2>1. \A i \in Ids, t \in Tags : consumers[i][t] # None =>
          consumers[i][t] \in 1..new /\ m_id'[consumers[i][t]] = i
    BY <1>1, <1>4 DEF IInv, SubscribersBearTheirId
  <2>2. \A k \in 1..Len(wire) : wire[k].kind = "deliver" =>
          wire[k].to \in 1..new /\ m_id'[wire[k].to] = wire[k].id
    BY <1>1, <1>4 DEF IInv, SubscribersBearTheirId
  <2> QED
    BY <1>3, <2>1, <2>2 DEF SubscribersBearTheirId, new
<1>8. ValidMeansConnected'
  <2>1. ASSUME NEW o \in 1..new, m_valid'[o]
        PROVE  conn' = "open" /\ m_channels'[m_id'[o]] = o
    <3>1. CASE o = new
      BY <1>2, <1>3, <1>4, <3>1
    <3>2. CASE o \in 1..made
      <4>1. m_id[o] \in Ids /\ m_id[o] # id
        BY <1>0, <1>5, <3>2 DEF ClientOK
      <4>2. m_valid[o] /\ m_id'[o] = m_id[o]
        BY <1>4, <2>1, <3>2
      <4>3. m_channels[m_id[o]] = o
        BY <3>2, <4>2 DEF IInv, ValidMeansConnected, InMap
      <4>4. m_channels'[m_id[o]] = o
        BY <1>4, <4>1, <4>3
      <4> QED
        BY <1>3, <4>2, <4>4
    <3> QED
      BY <1>1, <3>1, <3>2
  <2> QED
    BY <2>1 DEF ValidMeansConnected, InMap, new
<1>9. NoChannelLeaks'
  <2>1. ASSUME NEW i \in opened'
        PROVE  m_channels'[i] # None /\ m_valid'[m_channels'[i]]
    <3>1. CASE i = id
      BY <1>1, <1>2, <1>4, <3>1 DEF None, Objects
    <3>2. CASE i # id
      <4>1. i \in opened /\ i \in Ids
        BY <1>0, <1>3, <3>2 DEF BrokerOK
      <4>2. m_channels[i] # None /\ m_valid[m_channels[i]]
        BY <4>1 DEF IInv, NoChannelLeaks
      <4>3. m_channels[i] \in 1..made
        BY <4>1, <4>2 DEF IInv, IdsAreFresh
      <4> QED
        BY <1>4, <3>2, <4>1, <4>2, <4>3
    <3> QED
      BY <3>1, <3>2
  <2> QED
    BY <2>1 DEF NoChannelLeaks
<1>10. NeverMisrouted' /\ (pc' = "callback" => handler' \in 1..made')
  BY <1>1, <1>3 DEF IInv, NeverMisrouted, new
<1> QED
  BY <1>3, <1>6, <1>7, <1>8, <1>9, <1>10 DEF IInv

\* What close() does: the channel is not valid and, if it was, not open.
LEMMA CloseEffect ==
  ASSUME TypeOK, NEW o \in Objects, Close(o)
  PROVE  /\ Shrinks
         /\ m_valid' = [m_valid EXCEPT ![o] = FALSE]
         /\ m_valid[o] => m_id[o] \notin opened'
<1>0. ClientOK /\ BrokerOK
  BY TypeSplit
<1>1. CASE ~m_valid[o]
  BY <1>0, <1>1, ClosesShrinks DEF Close
<1>2. CASE m_valid[o] /\ Served(m_id[o])
  <2>1. Closes({m_id[o]}) /\ UNCHANGED link
    BY <1>2 DEF Close
  <2>2. Shrinks /\ m_id[o] \notin opened'
    BY <1>0, <2>1, ClosesShrinks DEF Closes
  <2> QED
    BY <2>2 DEF Close
<1>3. CASE m_valid[o] /\ ~Served(m_id[o])
  <2>1. LinkDies
    BY <1>3 DEF Close
  <2>2. Shrinks /\ m_id[o] \notin opened'
    BY <1>0, <2>1, ClosesShrinks DEF LinkDies, Closes, BrokerOK
  <2> QED
    BY <2>2 DEF Close
<1> QED
  BY <1>1, <1>2, <1>3

\* destroy_channel() takes out of the map the channel it closes, since no other
\* bears its id.
LEMMA DestroyKeeps ==
  ASSUME TypeOK, IInv, NEW o \in Objects, DestroyChannel(o)
  PROVE  IInv'
<1>0. ClientOK /\ BrokerOK /\ 1..made \subseteq Objects
  BY TypeSplit, MadeAreObjects
<1>1. /\ Shrinks
      /\ m_valid' = [m_valid EXCEPT ![o] = FALSE]
      /\ m_valid[o] => m_id[o] \notin opened'
  BY CloseEffect DEF DestroyChannel
<1>2. /\ m_channels' = [m_channels EXCEPT ![m_id[o]] = None]
      /\ o \in 1..made /\ m_id[o] \in Ids /\ conn = "open"
      /\ UNCHANGED <<conn, m_next_channel_id, made, m_id, wire, pc, envelope,
                     handler>>
  BY <1>0 DEF DestroyChannel, readVars, ClientOK
<1>3. \A i \in Ids : m_channels'[i] = IF i = m_id[o] THEN None ELSE m_channels[i]
  BY <1>0, <1>2 DEF ClientOK
<1>4. \A p \in Objects : m_valid'[p] <=> m_valid[p] /\ p # o
  BY <1>0, <1>1 DEF ClientOK
<1>5. IdsAreFresh'
  BY <1>1, <1>2, <1>3 DEF IInv, IdsAreFresh, Shrinks
<1>6. SubscribersBearTheirId'
  BY <1>1, <1>2 DEF IInv, SubscribersBearTheirId, Shrinks
<1>7. ValidMeansConnected'
  <2>1. ASSUME NEW p \in 1..made, m_valid'[p]  PROVE  m_channels'[m_id[p]] = p
    <3>1. m_valid[p] /\ p # o /\ m_id[p] \in Ids
      BY <1>0, <1>4, <2>1 DEF ClientOK
    <3>2. m_id[p] # m_id[o] /\ m_channels[m_id[p]] = p
      BY <1>2, <3>1 DEF IInv, IdsAreFresh, ValidMeansConnected, InMap
    <3> QED
      BY <1>3, <3>1, <3>2
  <2> QED
    BY <1>2, <2>1 DEF ValidMeansConnected, InMap
<1>8. NoChannelLeaks'
  <2>1. ASSUME NEW i \in opened'
        PROVE  m_channels'[i] # None /\ m_valid'[m_channels'[i]]
    <3>1. i \in opened /\ i \in Ids
      BY <1>0, <1>1 DEF Shrinks, BrokerOK
    <3>2. m_channels[i] \in 1..made /\ m_id[m_channels[i]] = i
          /\ m_channels[i] # None /\ m_valid[m_channels[i]]
      BY <3>1 DEF IInv, NoChannelLeaks, IdsAreFresh
    <3>3. m_channels[i] # o
      BY <1>1, <3>2
    <3>4. i # m_id[o]
      BY <1>2, <3>2, <3>3 DEF IInv, IdsAreFresh
    <3> QED
      BY <1>0, <1>3, <1>4, <3>1, <3>2, <3>3, <3>4
  <2> QED
    BY <2>1 DEF NoChannelLeaks
<1>9. NeverMisrouted' /\ (pc' = "callback" => handler' \in 1..made')
  BY <1>2 DEF IInv, NeverMisrouted
<1> QED
  BY <1>1, <1>2, <1>5, <1>6, <1>7, <1>8, <1>9 DEF IInv, Shrinks

\* ~Connection() leaves no channel valid and no channel open.
LEMMA EndKeeps == ASSUME TypeOK, IInv, DestroyConnection PROVE IInv'
<1>0. ClientOK /\ BrokerOK /\ 1..made \subseteq Objects
  BY TypeSplit, MadeAreObjects
<1>1. Shrinks /\ link' = "down" /\ opened' = {}
  BY <1>0, ClosesShrinks DEF DestroyConnection, LinkDies, Closes, BrokerOK
<1>2. /\ conn = "open" /\ conn' = "gone" /\ pc' = "client"
      /\ m_channels' = [i \in Ids |-> None]
      /\ UNCHANGED <<made, m_id, wire>>
      /\ \A o \in Objects : m_valid'[o] <=> m_valid[o] /\ ~InMap(o)
  BY DEF DestroyConnection, readVars
<1>3. \A o \in 1..made : ~m_valid'[o]
  BY <1>0, <1>2 DEF IInv, ValidMeansConnected
<1>4. SubscribersBearTheirId'
  BY <1>1, <1>2 DEF IInv, SubscribersBearTheirId, Shrinks
<1>5. IdsAreFresh'
  BY <1>1, <1>2 DEF IInv, IdsAreFresh
<1> QED
  BY <1>1, <1>2, <1>3, <1>4, <1>5 DEF IInv, ValidMeansConnected, NoChannelLeaks,
     NeverMisrouted

LEMMA ManageKeeps == ASSUME TypeOK, IInv, Manage PROVE IInv'
<1> USE DEF ownVars, readVars, countVars
<1>0. ClientOK /\ BrokerOK
  BY TypeSplit
<1>a. pc' = pc => pc' = "client" \/ conn = "open"
  BY DEF IInv
<1>1. CASE CreateChannelThrows
  <2>1. /\ opened' = {} /\ link' = "down" /\ Shrinks
        /\ UNCHANGED <<conn, made, m_id, m_valid, m_channels, wire, pc,
                       envelope, handler>>
    BY <1>0, <1>1, ClosesShrinks
       DEF CreateChannelThrows, LinkDies, Closes, BrokerOK
  <2>2. SubscribersBearTheirId'
    BY <2>1 DEF IInv, SubscribersBearTheirId, Shrinks
  <2> QED
    BY <2>1, <2>2 DEF IInv, IdsAreFresh, ValidMeansConnected, InMap,
       NoChannelLeaks, NeverMisrouted
<1>2. CASE CreateChannelRefused \/ SetHeartbeatInterval
  <2>1. Shrinks /\ WireShrinks
    BY <1>2, WireSame
       DEF CreateChannelRefused, SetHeartbeatInterval, brokerVars, Shrinks
  <2> QED
    BY <1>a, <1>2, <2>1, QuietStep
       DEF CreateChannelRefused, SetHeartbeatInterval
<1>3. ASSUME NEW o \in Objects, DropChannel(o)  PROVE  IInv'
  <2>1. CASE Close(o)
    <3>1. /\ Shrinks /\ m_valid' = [m_valid EXCEPT ![o] = FALSE]
          /\ m_valid[o] => m_id[o] \notin opened'
      BY <2>1, CloseEffect
    <3>2. WireShrinks
      BY <1>3, WireSame DEF DropChannel
    <3>3. /\ \A p \in Objects : m_valid'[p] => m_valid[p]
          /\ \A p \in Objects : m_valid[p] /\ ~m_valid'[p] => m_id[p] \notin opened'
      BY <1>0, <3>1 DEF ClientOK
    <3> QED
      BY <1>a, <1>3, <3>1, <3>2, <3>3, QuietStep DEF DropChannel
  <2>2. CASE UNCHANGED <<m_valid, brokerVars>>
    <3>1. Shrinks /\ WireShrinks
      BY <1>3, <2>2, WireSame DEF DropChannel, brokerVars, Shrinks
    <3> QED
      BY <1>a, <1>3, <2>2, <3>1, QuietStep DEF DropChannel
  <2> QED
    BY <1>3, <2>1, <2>2 DEF DropChannel
<1> QED
  BY <1>1, <1>2, <1>3, CreateKeeps, DestroyKeeps, EndKeeps DEF Manage

LEMMA UseKeeps ==
  ASSUME TypeOK, IInv, NEW o \in Objects, UseChannel(o)
  PROVE  IInv'
<1> USE DEF ownVars, readVars, countVars
<1>0. ClientOK /\ BrokerOK /\ m_id[o] \in Ids
  BY TypeSplit DEF ClientOK
<1>a. pc' = pc => pc' = "client" \/ conn = "open"
  BY DEF IInv
<1>1. CASE Invalid(o) \/ BasicPublishInvalid(o)
           \/ \E t \in Tags : BasicConsumeTwice(o, t)
  <2>1. Shrinks /\ WireShrinks
    BY <1>1, WireSame DEF Invalid, BasicPublishInvalid, BasicConsumeTwice,
       brokerVars, Shrinks
  <2> QED
    BY <1>a, <1>1, <2>1, QuietStep
       DEF Invalid, BasicPublishInvalid, BasicConsumeTwice
<1>2. CASE Declare(o)
  <2>1. Shrinks /\ WireShrinks
    BY <1>0, <1>2, ClosesShrinks, WireSame DEF Declare
  <2> QED
    BY <1>a, <1>2, <2>1, QuietStep DEF Declare
\* A refused request leaves the channel closed at the broker.
<1>b. ASSUME Refused(m_id[o]), m_valid' = [m_valid EXCEPT ![o] = FALSE],
             UNCHANGED <<conn, made, m_id, m_channels, m_next_channel_id, pc,
                         envelope, handler, wire>>
      PROVE  IInv'
  <2>1. Shrinks /\ WireShrinks
    BY <1>0, <1>b, ClosesShrinks, WireSame
  <2>2. m_id[o] \notin opened'
    BY <1>0, <1>b DEF Refused, Closes, LinkDies
  <2>3. /\ \A p \in Objects : m_valid'[p] => m_valid[p]
        /\ \A p \in Objects : m_valid[p] /\ ~m_valid'[p] => m_id[p] \notin opened'
    BY <1>0, <1>b, <2>2 DEF ClientOK
  <2> QED
    BY <1>a, <1>b, <2>1, <2>3, QuietStep
<1>3. CASE Bind(o)
  <2>1. CASE UNCHANGED <<m_valid, brokerVars>>
    <3>1. Shrinks /\ WireShrinks
      BY <1>3, <2>1, WireSame DEF Bind, brokerVars, Shrinks
    <3> QED
      BY <1>a, <1>3, <2>1, <3>1, QuietStep DEF Bind
  <2> QED
    BY <1>b, <1>3, <2>1 DEF Bind
<1>4. CASE BasicPublish(o)
  <2>1. WireShrinks
    <3>1. /\ Frame("return", m_id[o]) \in Frames
          /\ Frame("return", m_id[o]).kind # "deliver"
      BY <1>0, FrameOK DEF Frame
    <3>2. wire' = wire \/ wire' = Append(wire, Frame("return", m_id[o]))
      BY <1>4 DEF BasicPublish
    <3> QED
      BY <1>0, <3>1, <3>2, WireGrows DEF ClientOK
  <2>2. Shrinks
    BY <1>4 DEF BasicPublish, brokerVars, Shrinks
  <2> QED
    BY <1>a, <1>4, <2>1, <2>2, QuietStep DEF BasicPublish
<1>5. ASSUME NEW t \in Tags, BasicConsume(o, t)  PROVE  IInv'
  <2>1. CASE ret' = "true"
    <3>1. /\ UNCHANGED <<ownVars, readVars, wire, link, opened>>
             \/ UNCHANGED <<conn, made, m_id, m_valid, m_channels, wire, link,
                            m_next_channel_id, opened, pc, envelope, handler>>
          /\ consumers' = [consumers EXCEPT ![m_id[o]] =
                            [consumers[m_id[o]] EXCEPT ![t] = o]]
          /\ o \in 1..made
      BY <1>0, <1>5, <2>1 DEF BasicConsume, Uses, ClientOK
    <3>2. ASSUME NEW i \in Ids, NEW u \in Tags
          PROVE  consumers'[i][u] = consumers[i][u]
                 \/ (i = m_id[o] /\ consumers'[i][u] = o)
      BY <1>0, <3>1 DEF BrokerOK
    <3>3. SubscribersBearTheirId'
      BY <3>1, <3>2 DEF IInv, SubscribersBearTheirId
    <3> QED
      BY <3>1, <3>3 DEF IInv, IdsAreFresh, ValidMeansConnected, InMap,
         NoChannelLeaks, NeverMisrouted
  <2>2. CASE ret' # "true"
    BY <1>b, <1>5, <2>2 DEF BasicConsume
  <2> QED
    BY <2>1, <2>2
<1> QED
  BY <1>1, <1>2, <1>3, <1>4, <1>5 DEF UseChannel

\* The frame read is of the channel object its id leads to.
LEMMA ConsumingKeeps == ASSUME TypeOK, IInv, Consuming PROVE IInv'
<1> USE DEF ownVars, readVars, countVars
<1>0. ClientOK /\ BrokerOK
  BY TypeSplit
<1>a. pc # "client" => conn = "open"
  BY DEF IInv
<1>b. ASSUME NEW v, Returns(v)  PROVE  pc' # "callback"
  BY <1>b DEF Returns
<1>1. CASE LoopTest
  <2>1. Shrinks /\ WireShrinks /\ pc' # "callback"
    BY <1>1, WireSame DEF LoopTest, brokerVars, Shrinks
  <2> QED
    BY <1>a, <1>1, <2>1, QuietStep DEF LoopTest
<1>2. CASE ReadEnvelope
  <2>1. wire \in Seq(Frames) /\ wire # <<>>
    BY <1>0, <1>2 DEF ReadEnvelope, Reads, ClientOK
  <2>2. /\ Head(wire) = wire[1] /\ 1 \in 1..Len(wire) /\ Head(wire) \in Frames
    BY <2>1, HeadTailProperties, EmptySeq
  <2> DEFINE f == Head(wire)
             o == m_channels[f.id]
  <2>3. /\ f.kind = "deliver" /\ o # None /\ f.id \in Ids
        /\ envelope' = f /\ handler' = o /\ wire' = Tail(wire)
        /\ UNCHANGED <<conn, made, m_id, m_valid, m_channels, link, opened,
                       m_next_channel_id, consumers>>
        /\ conn = "open"
    BY <1>a, <1>2, <2>2 DEF ReadEnvelope, Reads, Known, brokerVars, Frames
  <2>4. f.to \in 1..made /\ m_id[f.to] = f.id
    BY <2>2, <2>3 DEF IInv, SubscribersBearTheirId
  <2>5. o \in 1..made /\ m_id[o] = f.id
    BY <2>3 DEF IInv, IdsAreFresh
  <2>6. f.to = o
    BY <2>4, <2>5 DEF IInv, IdsAreFresh
  <2>7. WireShrinks
    BY <2>1, <2>3, WireRead
  <2>8. SubscribersBearTheirId'
    <3> HIDE DEF f, o
    <3>1. \A k \in 1..Len(wire') : wire'[k].kind = "deliver" =>
            wire'[k].to \in 1..made /\ m_id[wire'[k].to] = wire'[k].id
      BY <2>7 DEF IInv, SubscribersBearTheirId, WireShrinks
    <3> QED
      BY <2>3, <3>1 DEF IInv, SubscribersBearTheirId
  <2> HIDE DEF f, o
  <2> QED
    BY <2>3, <2>5, <2>6, <2>8 DEF IInv, IdsAreFresh, ValidMeansConnected, InMap,
       NoChannelLeaks, NeverMisrouted
<1>3. CASE DropEnvelope \/ ReadReturn \/ ReadClose
  <2>1. wire \in Seq(Frames) /\ wire # <<>> /\ wire' = Tail(wire)
    BY <1>0, <1>3 DEF DropEnvelope, ReadReturn, ReadClose, Reads, ClientOK
  <2>2. Shrinks /\ WireShrinks /\ pc' # "callback" /\ pc = "read"
    BY <1>b, <1>3, <2>1, WireRead
       DEF DropEnvelope, ReadReturn, ReadClose, Reads, brokerVars, Shrinks
  <2> QED
    BY <1>a, <1>3, <2>2, QuietStep DEF DropEnvelope, ReadReturn, ReadClose
<1>4. CASE ReadTimeout \/ ReadLost
  <2>1. Shrinks /\ WireShrinks /\ pc' # "callback" /\ pc = "read"
    BY <1>b, <1>4, WireSame DEF ReadTimeout, ReadLost, brokerVars, Shrinks
  <2> QED
    BY <1>a, <1>4, <2>1, QuietStep DEF ReadTimeout, ReadLost
<1>5. ASSUME NEW consumed \in BOOLEAN, CallbackReturns(consumed)  PROVE  IInv'
  <2> DEFINE i == m_id[handler]
             d == <<envelope.n, i>>
  <2>1. \/ UNCHANGED <<brokerVars, wire>>
        \/ LinkDies /\ UNCHANGED wire
        \/ unacked' = unacked \ {d} /\ UNCHANGED <<link, opened, consumers, wire>>
        \/ /\ Served(i) /\ Closes({i}) /\ UNCHANGED link
           /\ wire' = Append(wire, Frame("close", i))
    BY <1>5 DEF CallbackReturns
  <2>2. Shrinks
    <3>1. CASE unacked' = unacked \ {d} /\ UNCHANGED <<link, opened, consumers>>
      BY <3>1 DEF Shrinks
    <3> HIDE DEF i, d
    <3> QED
      BY <1>0, <2>1, <3>1, ClosesShrinks
  <2>3. WireShrinks
    <3>1. Served(i) => /\ Frame("close", i) \in Frames
                       /\ Frame("close", i).kind # "deliver"
      BY <1>0, FrameOK DEF Served, BrokerOK, Frame
    <3> HIDE DEF i, d
    <3> QED
      BY <1>0, <2>1, <3>1, WireSame, WireGrows DEF ClientOK
  <2>4. pc' # "callback" /\ pc = "callback"
    BY <1>b, <1>5 DEF CallbackReturns
  <2> QED
    BY <1>a, <1>5, <2>2, <2>3, <2>4, QuietStep DEF CallbackReturns
<1> QED
  BY <1>1, <1>2, <1>3, <1>4, <1>5 DEF Consuming

LEMMA InitIInv == Init => IInv
BY EmptySeq DEF Init, IInv, IdsAreFresh, SubscribersBearTheirId,
   ValidMeansConnected, NoChannelLeaks, NeverMisrouted, Nobody, Frame

LEMMA NextIInv == ASSUME TypeOK, IInv, [Next]_vars PROVE IInv'
<1> USE DEF ownVars, readVars, brokerVars, countVars
<1>1. ASSUME NEW loops \in BOOLEAN, Consume(loops)  PROVE  IInv'
  <2>1. Shrinks /\ WireShrinks /\ pc' # "callback" /\ conn = "open"
    BY <1>1, WireSame DEF Consume, Shrinks
  <2> QED
    BY <1>1, <2>1, QuietStep DEF Consume
<1>2. CASE Stop \/ UNCHANGED vars
  <2>1. /\ Shrinks /\ WireShrinks
        /\ UNCHANGED <<ownVars, readVars>>
    BY <1>2, WireSame DEF Stop, vars, Shrinks
  <2>2. pc = "client" \/ conn = "open"
    BY DEF IInv
  <2> QED
    BY <2>1, <2>2, QuietStep
<1> QED
  BY <1>1, <1>2, BrokerKeeps, ManageKeeps, UseKeeps, ConsumingKeeps DEF Next, Over

\* The channel objects, the map of the connection and the broker agree.
THEOREM InductiveInvariant == Spec => []IInv
<1>1. TypeOK /\ IInv /\ [Next]_vars => IInv'
  BY NextIInv
<1> QED
  BY <1>1, InitIInv, TypesHold, PTL DEF Spec

\* A valid channel belongs to a living connection that finds it under its id.
THEOREM ValidMeansConnectedHolds == Spec => []ValidMeansConnected
<1>1. IInv => ValidMeansConnected
  BY DEF IInv
<1> QED
  BY <1>1, InductiveInvariant, PTL

\* An envelope reaches the channel object that subscribed to it.
THEOREM NeverMisroutedHolds == Spec => []NeverMisrouted
<1>1. IInv => NeverMisrouted
  BY DEF IInv
<1> QED
  BY <1>1, InductiveInvariant, PTL

\* A channel open at the broker is one the client can still use or close.
THEOREM NoChannelLeaksHolds == Spec => []NoChannelLeaks
<1>1. IInv => NoChannelLeaks
  BY DEF IInv
<1> QED
  BY <1>1, InductiveInvariant, PTL
=============================================================================
