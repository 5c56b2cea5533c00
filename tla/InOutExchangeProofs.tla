------------------------ MODULE InOutExchangeProofs ------------------------
(***************************************************************************)
(* Theorems about amqp::InOutExchange for any number of pushers, responses *)
(* and faults.  Most steps touch either the subscription (the request of   *)
(* connect_to_rabbitmq() and of the turn, and the faults) or the responses *)
(* (the pushers and the end of the turn), so the inductive invariant is    *)
(* proved in these two halves on top of the types.                         *)
(***************************************************************************)
EXTENDS InOutExchange, SequenceTheorems, TLAPS

-----------------------------------------------------------------------------
(* Types, in the same two halves *)

SessionOK ==
  /\ pc \in Connecting \cup Looping \cup Outside
  /\ caller \in {"constructor", "verify", "declare"}
  /\ stopping \in BOOLEAN
  /\ m_rabbitmq_channel \in {"null", "valid", "invalid"}
  /\ m_command_queue \in {"null", "current", "stale"}
  /\ broker \in {"up", "down"} /\ link \in {"up", "down"}
  /\ opened \in BOOLEAN /\ consumer \in BOOLEAN /\ queue_exists \in BOOLEAN
  /\ faults \in 0..MaxFaults

AnswersOK ==
  /\ m_response_queue \in Seq(1..MaxResponses)
  /\ m_response_queue_mtx \in {"free", "run"} \cup Pushers
  /\ ppc \in [Pushers -> {"idle", "lock", "push"}]
  /\ pushed \in 0..MaxResponses /\ sent \in Seq(1..MaxResponses)
  /\ lost \subseteq 1..MaxResponses

RunHoldsMutex == m_response_queue_mtx = "run" => pc \in {"publish", "killed"}

LEMMA TypeSplit == TypeOK <=> SessionOK /\ AnswersOK /\ RunHoldsMutex
BY DEF TypeOK, SessionOK, AnswersOK, RunHoldsMutex

LEMMA TypeJoin == ASSUME SessionOK', AnswersOK', RunHoldsMutex' PROVE TypeOK'
BY DEF TypeOK, SessionOK, AnswersOK, RunHoldsMutex

\* A fault is counted up to the bound.
LEMMA FaultOK ==
  ASSUME faults \in 0..MaxFaults, Fault
  PROVE  faults' \in 0..MaxFaults
BY InOutAssumption DEF Fault

LEMMA FailsOK ==
  ASSUME faults \in 0..MaxFaults, link \in {"up", "down"}, NEW r, Fails(r)
  PROVE  /\ faults' \in 0..MaxFaults /\ link' \in {"up", "down"}
         /\ opened' = FALSE /\ consumer' = FALSE /\ ~Served'
         /\ broker' = broker /\ queue_exists' = queue_exists
BY FaultOK DEF Fails, Served

\* The steps of the session, and those of the responses.
Session ==
  \/ ConnectToRabbitmq
  \/ LoopTest \/ Declared \/ DeclareFails \/ Rebind
  \/ ConsumeNothing \/ ConsumeFails \/ ConsumeEnvelope \/ CallbackReturns
  \/ TryLockInVain \/ Wake
  \/ Broker \/ BrokerComes
  \/ Start \/ Stop \/ Kill

Answers ==
  \/ CallbackPushes \/ TryLock \/ Publish
  \/ \E p \in Pushers : PushCall(p) \/ Pusher(p)

LEMMA NextSplit == Next => Session \/ Answers \/ UNCHANGED vars
BY DEF Next, Run, Over, Session, Answers

LEMMA SessionKeepsAnswers ==
  ASSUME Session  PROVE UNCHANGED answerVars
BY DEF Session, ConnectToRabbitmq, ConnectionMade, ConnectionThrows,
  ChannelMade, ChannelThrows, ExchangeDeclared, ExchangeRefused, QueueDeclared,
  QueueRefused, Bound, BindRefused, Subscribed, SubscribeFails, LoopTest,
  Declared, DeclareFails, Rebind, ConsumeNothing, ConsumeFails,
  ConsumeEnvelope, CallbackReturns, TryLockInVain, Wake, Broker, BrokerGoes,
  LinkLost, ChannelClosed, QueueDeleted, BrokerComes, Start, Stop, Kill

LEMMA AnswersKeepSession ==
  ASSUME Answers
  PROVE  /\ UNCHANGED <<caller, stopping, amqpVars, brokerVars>>
         /\ \/ UNCHANGED pc
            \/ pc = "callback" /\ pc' = "try_lock"
            \/ pc = "try_lock" /\ pc' = "publish"
            \/ pc = "publish" /\ pc' = "loop"
BY DEF Answers, CallbackPushes, TryLock, Publish, PushCall, Pusher, PushLock,
  Push

\* Only the end of a turn enters or leaves the publication.
LEMMA SessionLeavesMutex ==
  ASSUME SessionOK, Session
  PROVE  /\ pc' = "publish" => pc = "publish"
         /\ pc = "publish" => pc' \in {"publish", "killed"}
         /\ pc = "killed" => pc' = "killed"
<1>1. CASE ConnectToRabbitmq
  BY <1>1 DEF ConnectToRabbitmq, ConnectionMade, ConnectionThrows, ChannelMade,
    ChannelThrows, ExchangeDeclared, ExchangeRefused, QueueDeclared,
    QueueRefused, Bound, BindRefused, Subscribed, SubscribeFails, Connected,
    NotConnected, Crashes, SessionOK
<1>2. CASE LoopTest \/ Declared \/ DeclareFails \/ Rebind
  BY <1>2 DEF LoopTest, Declared, DeclareFails, Rebind, Crashes, Connect
<1>3. CASE \/ ConsumeNothing \/ ConsumeFails \/ ConsumeEnvelope
           \/ CallbackReturns \/ TryLockInVain \/ Wake
  BY <1>3 DEF ConsumeNothing, ConsumeFails, ConsumeEnvelope, CallbackReturns,
    TryLockInVain, Wake
<1>4. CASE Broker \/ BrokerComes
  BY <1>4 DEF Broker, BrokerGoes, LinkLost, ChannelClosed, QueueDeleted,
    BrokerComes
<1>5. CASE Start \/ Stop \/ Kill
  BY <1>5 DEF Start, Stop, Kill, InRun, Looping, Connecting
<1> QED
  BY <1>1, <1>2, <1>3, <1>4, <1>5 DEF Session

LEMMA SessionTypeOK ==
  ASSUME SessionOK, Session  PROVE SessionOK'
<1> USE FaultOK, FailsOK DEF SessionOK, Connecting, Looping, Outside, amqpVars,
      brokerVars, Connected, NotConnected, Crashes, Connect, Usable
<1>1. CASE ConnectionMade
  BY <1>1 DEF ConnectionMade
<1>2. CASE ConnectionThrows
  BY <1>2 DEF ConnectionThrows
<1>3. CASE ChannelMade
  BY <1>3 DEF ChannelMade
<1>4. CASE ChannelThrows
  BY <1>4 DEF ChannelThrows
<1>5. CASE ExchangeDeclared
  BY <1>5 DEF ExchangeDeclared
<1>6. CASE ExchangeRefused
  BY <1>6 DEF ExchangeRefused
<1>7. CASE QueueDeclared
  BY <1>7 DEF QueueDeclared
<1>8. CASE QueueRefused
  BY <1>8 DEF QueueRefused
<1>9. CASE Bound
  BY <1>9 DEF Bound
<1>10. CASE BindRefused
  BY <1>10 DEF BindRefused
<1>11. CASE Subscribed
  BY <1>11 DEF Subscribed
<1>12. CASE SubscribeFails
  BY <1>12 DEF SubscribeFails
<1>13. CASE LoopTest
  BY <1>13 DEF LoopTest
<1>14. CASE Declared
  BY <1>14 DEF Declared
<1>15. CASE DeclareFails
  <2>1. CASE Usable
    <3>1. Fails(FALSE)
      BY <1>15, <2>1 DEF DeclareFails
    <3> QED
      BY <1>15, <3>1 DEF DeclareFails
  <2>2. CASE ~Usable
    BY <1>15, <2>2 DEF DeclareFails
  <2> QED
    BY <2>1, <2>2
<1>16. CASE Rebind
  <2>1. CASE Fails(~queue_exists)
    BY <1>16, <2>1 DEF Rebind
  <2>2. CASE UNCHANGED brokerVars
    BY <1>16, <2>2 DEF Rebind
  <2> QED
    BY <1>16, <2>1, <2>2 DEF Rebind
<1>17. CASE ConsumeNothing \/ ConsumeFails \/ ConsumeEnvelope
            \/ CallbackReturns \/ TryLockInVain \/ Wake
  BY <1>17 DEF ConsumeNothing, ConsumeFails, ConsumeEnvelope, CallbackReturns,
    TryLockInVain, Wake
<1>18. CASE Broker \/ BrokerComes
  BY <1>18 DEF Broker, BrokerGoes, LinkLost, ChannelClosed, QueueDeleted,
    BrokerComes
<1>19. CASE Start
  BY <1>19 DEF Start
<1>20. CASE Stop
  BY <1>20 DEF Stop
<1>21. CASE Kill
  BY <1>21 DEF Kill
<1> QED
  BY <1>1, <1>2, <1>3, <1>4, <1>5, <1>6, <1>7, <1>8, <1>9, <1>10, <1>11,
    <1>12, <1>13, <1>14, <1>15, <1>16, <1>17, <1>18, <1>19, <1>20, <1>21
    DEF Session, ConnectToRabbitmq

\* A response that is pushed is the next number, up to the bound.
LEMMA PushedOK ==
  ASSUME AnswersOK, pushed < MaxResponses, pushed' = pushed + 1,
         m_response_queue' = Append(m_response_queue, pushed')
  PROVE  /\ pushed' \in 1..MaxResponses
         /\ m_response_queue' \in Seq(1..MaxResponses)
<1>1. pushed' \in 1..MaxResponses
  BY InOutAssumption DEF AnswersOK
<1> QED
  BY <1>1, AppendProperties DEF AnswersOK

LEMMA AnswersTypeOK ==
  ASSUME AnswersOK, RunHoldsMutex, Answers,
         pc = "publish" => m_response_queue # <<>>
  PROVE  AnswersOK' /\ RunHoldsMutex'
<1>1. CASE CallbackPushes
  <2>1. /\ pushed' \in 1..MaxResponses
        /\ m_response_queue' \in Seq(1..MaxResponses)
    BY <1>1, PushedOK DEF CallbackPushes
  <2> QED
    BY <1>1, <2>1, InOutAssumption DEF CallbackPushes, AnswersOK, RunHoldsMutex
<1>2. CASE TryLock
  BY <1>2 DEF TryLock, AnswersOK, RunHoldsMutex
<1>3. CASE Publish
  <2>1. /\ Head(m_response_queue) \in 1..MaxResponses
        /\ Tail(m_response_queue) \in Seq(1..MaxResponses)
    BY <1>3, HeadTailProperties DEF Publish, AnswersOK
  <2>2. sent' \in Seq(1..MaxResponses)
    <3>1. Append(sent, Head(m_response_queue)) \in Seq(1..MaxResponses)
      BY <2>1, AppendProperties DEF AnswersOK
    <3> QED
      BY <1>3, <3>1 DEF Publish, AnswersOK
  <2>3. lost' \subseteq 1..MaxResponses
    BY <1>3, <2>1 DEF Publish, AnswersOK
  <2> QED
    BY <1>3, <2>1, <2>2, <2>3 DEF Publish, AnswersOK, RunHoldsMutex
<1>4. ASSUME NEW p \in Pushers, PushCall(p) \/ PushLock(p)
      PROVE  AnswersOK' /\ RunHoldsMutex'
  BY <1>4, InOutAssumption DEF PushCall, PushLock, AnswersOK, RunHoldsMutex
<1>5. ASSUME NEW p \in Pushers, Push(p)
      PROVE  AnswersOK' /\ RunHoldsMutex'
  <2>1. /\ pushed' \in 0..MaxResponses
        /\ m_response_queue' \in Seq(1..MaxResponses)
    BY <1>5, PushedOK, InOutAssumption DEF Push, AnswersOK
  <2> QED
    BY <1>5, <2>1 DEF Push, AnswersOK, RunHoldsMutex
<1> QED
  BY <1>1, <1>2, <1>3, <1>4, <1>5 DEF Answers, Pusher

-----------------------------------------------------------------------------
(* The subscription *)

LEMMA SubscriptionByAnswers ==
  ASSUME SubscriptionInv, Answers  PROVE SubscriptionInv'
BY AnswersKeepSession DEF SubscriptionInv, Usable, Served, amqpVars, brokerVars,
  Connecting

\* A fault takes the channel, or the queue, or neither.
LEMMA SubscriptionByBroker ==
  ASSUME SubscriptionInv, Broker \/ BrokerComes  PROVE SubscriptionInv'
BY DEF SubscriptionInv, Usable, Served, amqpVars, brokerVars, Connecting,
  Broker, BrokerGoes, LinkLost, ChannelClosed, QueueDeleted, BrokerComes

LEMMA SubscriptionByConnect ==
  ASSUME SessionOK, SubscriptionInv, ConnectToRabbitmq
  PROVE  SubscriptionInv'
<1> USE FailsOK DEF SubscriptionInv, Usable, Served, amqpVars, brokerVars,
      Connecting
<1>0. /\ faults \in 0..MaxFaults /\ link \in {"up", "down"}
      /\ caller \in {"constructor", "verify", "declare"}
  BY DEF SessionOK
<1>1. CASE ConnectionMade \/ ConnectionThrows
  BY <1>1 DEF ConnectionMade, ConnectionThrows, NotConnected
<1>2. CASE ChannelMade
  BY <1>2 DEF ChannelMade
<1>3. CASE ChannelThrows
  BY <1>3 DEF ChannelThrows, NotConnected
<1>4. CASE ExchangeDeclared \/ Bound
  BY <1>4 DEF ExchangeDeclared, Bound
<1>5. CASE ExchangeRefused
  BY <1>0, <1>5 DEF ExchangeRefused, NotConnected
<1>6. CASE QueueDeclared
  BY <1>6 DEF QueueDeclared
<1>7. CASE QueueRefused
  BY <1>0, <1>7 DEF QueueRefused, Crashes
<1>8. CASE BindRefused
  BY <1>0, <1>8 DEF BindRefused, NotConnected
<1>9. CASE Subscribed
  BY <1>0, <1>9 DEF Subscribed, Connected
<1>10. CASE SubscribeFails
  BY <1>0, <1>10 DEF SubscribeFails, Connected
<1> QED
  BY <1>1, <1>2, <1>3, <1>4, <1>5, <1>6, <1>7, <1>8, <1>9, <1>10
    DEF ConnectToRabbitmq

LEMMA SubscriptionByTurn ==
  ASSUME SessionOK, SubscriptionInv,
         \/ LoopTest \/ Declared \/ DeclareFails \/ Rebind
         \/ ConsumeNothing \/ ConsumeFails \/ ConsumeEnvelope
         \/ CallbackReturns \/ TryLockInVain \/ Wake
         \/ Start \/ Stop \/ Kill
  PROVE  SubscriptionInv'
<1> USE FailsOK DEF SubscriptionInv, Usable, Served, amqpVars, brokerVars,
      Connecting
<1>0. faults \in 0..MaxFaults /\ link \in {"up", "down"}
  BY DEF SessionOK
<1>1. CASE LoopTest
  BY <1>1 DEF LoopTest, Connect
<1>2. CASE Declared
  BY <1>2 DEF Declared
<1>3. CASE DeclareFails
  BY <1>0, <1>3 DEF DeclareFails, Connect, Crashes
<1>4. CASE Rebind
  BY <1>0, <1>4 DEF Rebind, Crashes
<1>5. CASE ConsumeNothing \/ ConsumeFails \/ ConsumeEnvelope
           \/ CallbackReturns \/ TryLockInVain \/ Wake
  BY <1>5 DEF ConsumeNothing, ConsumeFails, ConsumeEnvelope, CallbackReturns,
    TryLockInVain, Wake
<1>6. CASE Start \/ Stop \/ Kill
  BY <1>6 DEF Start, Stop, Kill
<1> QED
  BY <1>1, <1>2, <1>3, <1>4, <1>5, <1>6

LEMMA SubscriptionKept ==
  ASSUME SessionOK, SubscriptionInv, Session \/ Answers
  PROVE  SubscriptionInv'
BY SubscriptionByAnswers, SubscriptionByBroker, SubscriptionByConnect,
  SubscriptionByTurn DEF Session

-----------------------------------------------------------------------------
(* The order of the responses *)

\* The responses that have left the queue are those before its front.
Gone == pushed - Len(m_response_queue)

LEMMA GoneIsNat ==
  ASSUME AnswersOK, ResponsesInOrder
  PROVE  Len(m_response_queue) \in Nat /\ Gone \in Nat
<1>1. /\ m_response_queue \in Seq(1..MaxResponses) /\ pushed \in Nat
      /\ Len(m_response_queue) \in Nat
      /\ DOMAIN m_response_queue = 1..Len(m_response_queue)
      /\ \A i \in 1..Len(m_response_queue) :
           m_response_queue[i] \in 1..MaxResponses
  BY LenProperties, ElementOfSeq, InOutAssumption DEF AnswersOK
<1>2. CASE Len(m_response_queue) = 0
  BY <1>1, <1>2 DEF Gone
<1>3. CASE Len(m_response_queue) # 0
  <2>1. m_response_queue[1] = Gone + 1
    BY <1>1, <1>3 DEF ResponsesInOrder, Gone
  <2>2. m_response_queue[1] \in 1..MaxResponses /\ Gone \in Int
    BY <1>1, <1>3 DEF Gone
  <2> QED
    BY <1>1, <2>1, <2>2, InOutAssumption
<1> QED
  BY <1>1, <1>2, <1>3

LEMMA PushKeepsOrder ==
  ASSUME AnswersOK, ResponsesInOrder,
         pushed < MaxResponses, pushed' = pushed + 1,
         m_response_queue' = Append(m_response_queue, pushed'),
         UNCHANGED <<sent, lost>>
  PROVE  ResponsesInOrder'
<1> DEFINE q == m_response_queue
           n == Len(m_response_queue)
<1>1. q \in Seq(1..MaxResponses) /\ n \in Nat /\ Gone \in Nat
      /\ pushed \in Nat /\ pushed' \in 1..MaxResponses
  BY GoneIsNat, InOutAssumption DEF AnswersOK
<1>2. /\ q' \in Seq(1..MaxResponses) /\ Len(q') = n + 1
      /\ DOMAIN q' = 1..(n + 1)
      /\ \A i \in 1..n : q'[i] = q[i]
      /\ q'[n + 1] = pushed'
  BY <1>1, AppendProperties, LenProperties
<1>3. Gone' = Gone
  BY <1>1, <1>2 DEF Gone
<1>4. q' = [i \in 1..Len(q') |-> Gone' + i]
  <2>1. \A i \in 1..n : q[i] = Gone + i
    BY <1>1 DEF ResponsesInOrder, Gone
  <2>2. pushed' = Gone + (n + 1)
    BY <1>1 DEF Gone
  <2>3. \A i \in 1..(n + 1) : q'[i] = Gone' + i
    BY <1>1, <1>2, <1>3, <2>1, <2>2
  <2>4. q' = [i \in DOMAIN q' |-> q'[i]]
    BY <1>2
  <2> QED
    BY <1>2, <2>3, <2>4
<1> QED
  BY <1>3, <1>4 DEF ResponsesInOrder, Gone, ToSet

LEMMA PopKeepsOrder ==
  ASSUME AnswersOK, ResponsesInOrder, m_response_queue # <<>>, Publish
  PROVE  ResponsesInOrder'
<1> DEFINE q == m_response_queue
           n == Len(m_response_queue)
           h == Head(m_response_queue)
<1>1. q \in Seq(1..MaxResponses) /\ n \in Nat \ {0} /\ Gone \in Nat
      /\ pushed \in Nat /\ pushed' = pushed
      /\ sent \in Seq(1..MaxResponses)
  BY GoneIsNat, EmptySeq DEF AnswersOK, Publish
<1>2. /\ h = q[1] /\ q' = Tail(q)
      /\ q' \in Seq(1..MaxResponses) /\ Len(q') = n - 1
      /\ DOMAIN q' = 1..(n - 1)
      /\ \A i \in 1..(n - 1) : q'[i] = q[i + 1]
  BY <1>1, HeadTailProperties, LenProperties DEF Publish
<1>3. \A i \in 1..n : q[i] = Gone + i
  BY <1>1 DEF ResponsesInOrder, Gone
<1>4. Gone' = Gone + 1 /\ h = Gone + 1
  BY <1>1, <1>2, <1>3 DEF Gone
<1>5. q' = [i \in 1..Len(q') |-> Gone' + i]
  <2>1. \A i \in 1..(n - 1) : q'[i] = Gone' + i
    BY <1>1, <1>2, <1>3, <1>4
  <2>2. q' \in [1..(n - 1) -> 1..MaxResponses]
    BY <1>2, LenProperties
  <2> QED
    BY <1>2, <2>1, <2>2
<1>6. /\ ToSet(sent) \cup lost = 1..Gone /\ ToSet(sent) \cap lost = {}
      /\ \A i, j \in DOMAIN sent : i < j => sent[i] < sent[j]
  BY DEF ResponsesInOrder, Gone
<1>7. 1..Gone' = 1..Gone \cup {h} /\ h \notin 1..Gone
  BY <1>1, <1>4
<1>8. CASE sent' = Append(sent, h) /\ lost' = lost
  <2>1. /\ Len(sent) \in Nat /\ DOMAIN sent = 1..Len(sent)
        /\ DOMAIN sent' = 1..(Len(sent) + 1)
        /\ \A i \in 1..Len(sent) : sent'[i] = sent[i]
        /\ sent'[Len(sent) + 1] = h
    <3>1. h \in 1..MaxResponses
      BY <1>1, <1>2, HeadTailProperties
    <3> QED
      BY <1>1, <1>8, <3>1, AppendProperties, LenProperties
  <2>2. 1..(Len(sent) + 1) = 1..Len(sent) \cup {Len(sent) + 1}
    BY <2>1
  <2>3. ToSet(sent') = ToSet(sent) \cup {h}
    BY <2>1, <2>2 DEF ToSet
  <2>4. \A i \in 1..Len(sent) : sent[i] \in Nat /\ sent[i] < h
    <3>1. \A i \in 1..Len(sent) : sent[i] \in 1..Gone
      BY <1>6, <2>1 DEF ToSet
    <3> QED
      BY <1>1, <1>4, <3>1
  <2>5. \A i, j \in DOMAIN sent' : i < j => sent'[i] < sent'[j]
    <3>1. SUFFICES ASSUME NEW i \in 1..(Len(sent) + 1),
                          NEW j \in 1..(Len(sent) + 1), i < j
                   PROVE  sent'[i] < sent'[j]
      BY <2>1
    <3>2. i \in 1..Len(sent)
      BY <2>1, <3>1
    <3>3. CASE j = Len(sent) + 1
      BY <2>1, <2>4, <3>2, <3>3
    <3>4. CASE j \in 1..Len(sent)
      BY <1>6, <2>1, <3>1, <3>2, <3>4
    <3> QED
      BY <2>1, <3>3, <3>4
  <2>6. ToSet(sent') \cup lost' = 1..Gone' /\ ToSet(sent') \cap lost' = {}
    BY <1>6, <1>7, <1>8, <2>3
  <2> QED
    BY <1>5, <2>5, <2>6 DEF ResponsesInOrder, Gone
<1>9. CASE sent' = sent /\ lost' = lost \cup {h}
  <2>1. ToSet(sent') = ToSet(sent) /\ DOMAIN sent' = DOMAIN sent
    BY <1>9
  <2>2. ToSet(sent') \cup lost' = 1..Gone' /\ ToSet(sent') \cap lost' = {}
    BY <1>6, <1>7, <1>9, <2>1
  <2> QED
    BY <1>5, <1>6, <1>9, <2>1, <2>2 DEF ResponsesInOrder, Gone
<1> QED
  BY <1>8, <1>9 DEF Publish

LEMMA OrderKept ==
  ASSUME AnswersOK, ResponsesInOrder, Answers,
         pc = "publish" => m_response_queue # <<>>
  PROVE  ResponsesInOrder'
<1> DEFINE still == UNCHANGED <<m_response_queue, pushed, sent, lost>>
<1>0. ASSUME still  PROVE ResponsesInOrder'
  BY <1>0 DEF ResponsesInOrder
<1>1. CASE CallbackPushes
  BY <1>1, PushKeepsOrder DEF CallbackPushes
<1>2. CASE TryLock
  BY <1>0, <1>2 DEF TryLock
<1>3. CASE Publish
  <2>1. m_response_queue # <<>>
    BY <1>3 DEF Publish
  <2> QED
    BY <1>3, <2>1, PopKeepsOrder
<1>4. ASSUME NEW p \in Pushers, PushCall(p) \/ PushLock(p)
      PROVE  ResponsesInOrder'
  BY <1>0, <1>4 DEF PushCall, PushLock
<1>5. ASSUME NEW p \in Pushers, Push(p)  PROVE ResponsesInOrder'
  BY <1>0, <1>5, PushKeepsOrder DEF Push
<1> QED
  BY <1>1, <1>2, <1>3, <1>4, <1>5 DEF Answers, Pusher

\* The front that run() is about to publish stays where it is.
LEMMA FrontKept ==
  ASSUME AnswersOK, Answers, pc = "publish" => m_response_queue # <<>>
  PROVE  pc' = "publish" => m_response_queue' # <<>>
<1>1. CASE CallbackPushes
  BY <1>1 DEF CallbackPushes
<1>2. CASE TryLock
  BY <1>2 DEF TryLock
<1>3. CASE Publish
  BY <1>3 DEF Publish
<1>4. ASSUME NEW p \in Pushers, PushCall(p) \/ PushLock(p)
      PROVE  pc' = "publish" => m_response_queue' # <<>>
  BY <1>4 DEF PushCall, PushLock
<1>5. ASSUME NEW p \in Pushers, Push(p)
      PROVE  pc' = "publish" => m_response_queue' # <<>>
  <2>1. CASE m_response_queue' = m_response_queue
    BY <1>5, <2>1 DEF Push
  <2>2. CASE m_response_queue' # m_response_queue
    <3>1. pushed' \in 1..MaxResponses
          /\ m_response_queue' = Append(m_response_queue, pushed')
      BY <1>5, <2>2, InOutAssumption DEF Push, AnswersOK
    <3> QED
      BY <3>1, AppendProperties DEF AnswersOK
  <2> QED
    BY <2>1, <2>2
<1> QED
  BY <1>1, <1>2, <1>3, <1>4, <1>5 DEF Answers, Pusher

-----------------------------------------------------------------------------
(* Theorems *)

LEMMA Initially == Init => IInv
<1> SUFFICES ASSUME Init  PROVE IInv
  OBVIOUS
<1>1. TypeOK
  <2>1. SessionOK
    <3>1. faults \in 0..MaxFaults
      BY InOutAssumption DEF Init
    <3>2. pc \in Connecting
      BY DEF Init, Connecting
    <3> QED
      BY <3>1, <3>2 DEF Init, SessionOK
  <2>2. AnswersOK /\ RunHoldsMutex
    BY InOutAssumption DEF Init, AnswersOK, RunHoldsMutex
  <2> QED
    BY <2>1, <2>2, TypeSplit
<1>2. SubscriptionInv
  BY DEF Init, SubscriptionInv, Usable, Served, Connecting
<1>3. ResponsesInOrder
  BY EmptySeq DEF Init, ResponsesInOrder, ToSet
<1> QED
  BY <1>1, <1>2, <1>3 DEF IInv, Init

LEMMA StepKeepsInvariant == IInv /\ [Next]_vars => IInv'
<1> SUFFICES ASSUME IInv, [Next]_vars  PROVE IInv'
  OBVIOUS
<1>0. /\ SessionOK /\ AnswersOK /\ RunHoldsMutex
      /\ SubscriptionInv /\ ResponsesInOrder
      /\ pc = "publish" => m_response_queue # <<>>
  BY TypeSplit DEF IInv
<1>1. CASE Session
  <2>1. UNCHANGED answerVars
    BY <1>1, SessionKeepsAnswers
  <2>2. SessionOK' /\ SubscriptionInv'
    BY <1>0, <1>1, SessionTypeOK, SubscriptionKept
  <2>3. AnswersOK' /\ RunHoldsMutex'
    BY <1>0, <1>1, <2>1, SessionLeavesMutex
      DEF answerVars, AnswersOK, RunHoldsMutex
  <2>4. ResponsesInOrder'
    BY <1>0, <2>1 DEF answerVars, ResponsesInOrder
  <2>5. pc' = "publish" => m_response_queue' # <<>>
    BY <1>0, <1>1, <2>1, SessionLeavesMutex DEF answerVars
  <2>6. TypeOK'
    BY <2>2, <2>3, TypeJoin
  <2> QED
    BY <2>2, <2>4, <2>5, <2>6 DEF IInv
<1>2. CASE Answers
  <2>1. SessionOK'
    BY <1>0, <1>2, AnswersKeepSession
      DEF SessionOK, amqpVars, brokerVars, Connecting, Looping, Outside
  <2>2. AnswersOK' /\ RunHoldsMutex'
    BY <1>0, <1>2, AnswersTypeOK
  <2>3. SubscriptionInv' /\ ResponsesInOrder'
    BY <1>0, <1>2, SubscriptionKept, OrderKept
  <2>4. pc' = "publish" => m_response_queue' # <<>>
    BY <1>0, <1>2, FrontKept
  <2>5. TypeOK'
    BY <2>1, <2>2, TypeJoin
  <2> QED
    BY <2>3, <2>4, <2>5 DEF IInv
<1>3. CASE UNCHANGED vars
  BY <1>0, <1>3 DEF vars, amqpVars, brokerVars, answerVars, IInv, TypeOK,
    SubscriptionInv, ResponsesInOrder, Usable, Served
<1> QED
  BY <1>1, <1>2, <1>3, NextSplit

\* The session, the queue object and the responses fit together in every
\* reachable state (inoutexchange.cpp:40-130).
THEOREM InductiveInvariant == Spec => []IInv
<1>1. Init => IInv
  BY Initially
<1>2. IInv /\ [Next]_vars => IInv'
  BY StepKeepsInvariant
<1> QED
  BY <1>1, <1>2, PTL DEF Spec

\* Every variable keeps its type, and run() holds the mutex only while it
\* publishes (inoutexchange.cpp:93-100).
THEOREM TypesHold == Spec => []TypeOK
<1>1. IInv => TypeOK
  BY DEF IInv
<1> QED
  BY <1>1, InductiveInvariant, PTL

\* The responses leave the queue in the order they were pushed, each once, for
\* any number of pushers, responses and faults (inoutexchange.cpp:93-101).
THEOREM ResponsesInOrderHolds == Spec => []ResponsesInOrder
<1>1. IInv => ResponsesInOrder
  BY DEF IInv
<1> QED
  BY <1>1, InductiveInvariant, PTL

\* The weak pointer of the command queue is alive whenever run() uses it
\* (inoutexchange.cpp:127).
THEOREM QueueOfChannelHolds == Spec => []QueueOfChannel
<1>1. IInv => QueueOfChannel
  BY DEF IInv, SubscriptionInv, QueueOfChannel
<1> QED
  BY <1>1, InductiveInvariant, PTL

\* run() consumes on a channel that is served only with a subscription, unless
\* its queue was deleted (inoutexchange.cpp:60, 127).
THEOREM ConsumesWhenServedHolds == Spec => []ConsumesWhenServed
<1>1. IInv => ConsumesWhenServed
  BY DEF IInv, SubscriptionInv, ConsumesWhenServed, Connecting
<1> QED
  BY <1>1, InductiveInvariant, PTL

=============================================================================
