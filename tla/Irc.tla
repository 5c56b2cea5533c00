-------------------------------- MODULE Irc --------------------------------
(***************************************************************************)
(* An IRCClient: the session of libircclient it makes, connects, runs and  *)
(* destroys, and the events it is told of.  libircclient and the IRC       *)
(* server are external.                                                    *)
(***************************************************************************)
EXTENDS Naturals, FiniteSets

CONSTANTS MaxSessions, MaxEvents  \* bounds: sessions made, events

IrcConstants == MaxSessions \in Nat /\ MaxEvents \in Nat

VARIABLES
  object,         \* does the IRCClient exist?
  m_irc_session,  \* 0 is the null pointer
  made,           \* the sessions made so far are 1..made
  live,           \* ... and those not destroyed
  connected,      \* the sessions with a connection
  events,         \* the events the callbacks gave to the client
  call,           \* the last call
  sent,           \* did the library take it?
  result,         \* what it returned: none, void, true, false
  running         \* run_loop() is in irc_run()

ircVars == <<object, m_irc_session, made, live, connected, events, call, sent, result,
             running>>

Session == 1..MaxSessions
Commands == {"join_channel", "leave_channel", "send_message", "send_notice", "send_ctcp_ping"}

TypeOK ==
  /\ object \in BOOLEAN /\ running \in BOOLEAN /\ sent \in BOOLEAN
  /\ m_irc_session \in 0..MaxSessions /\ made \in 0..MaxSessions
  /\ live \subseteq 1..made /\ connected \subseteq Session
  /\ events \in 0..MaxEvents
  /\ call \in Commands \cup {"none", "create_session", "destroy_session", "connect",
                             "disconnect", "run_loop", "~IRCClient"}
  /\ result \in {"none", "void", "true", "false"}

Answers(c, b) == call' = c /\ result' = IF b THEN "true" ELSE "false"
connection == <<m_irc_session, made, live, connected>>

-----------------------------------------------------------------------------
Construct ==
  /\ ~object /\ m_irc_session = 0 /\ object' = TRUE
  /\ UNCHANGED <<connection, events, call, sent, result, running>>

\* create_session(): the session there was is forgotten; none when the library
\* has no memory.
CreateSession ==
  /\ object /\ ~running
  /\ \/ /\ made < MaxSessions /\ made' = made + 1
        /\ m_irc_session' = made + 1 /\ live' = live \cup {made + 1}
     \/ m_irc_session' = 0 /\ UNCHANGED <<made, live>>
  /\ Answers("create_session", m_irc_session' # 0)
  /\ sent' = FALSE /\ UNCHANGED <<object, connected, events, running>>

\* destroy_session() leaves the pointer as it is.  A session is destroyed once:
\* a second time is undefined, and is left out.
DestroySession ==
  /\ object /\ ~running /\ m_irc_session \notin 1..made \ live
  /\ live' = live \ {m_irc_session} /\ connected' = connected \ {m_irc_session}
  /\ Answers("destroy_session", m_irc_session # 0)
  /\ sent' = FALSE /\ UNCHANGED <<object, m_irc_session, made, events, running>>

\* is_connected(); of a session that was destroyed it may say anything.
IsConnected ==
  IF m_irc_session = 0 THEN {FALSE}
  ELSE IF m_irc_session \in live THEN {m_irc_session \in connected} ELSE BOOLEAN

\* connect(): irc_connect() of no session fails.
Connect ==
  /\ object /\ ~running /\ m_irc_session \in live \cup {0}
  /\ \E ok \in BOOLEAN :
       /\ ok => m_irc_session # 0 /\ m_irc_session \notin connected
       /\ connected' = IF ok THEN connected \cup {m_irc_session} ELSE connected
       /\ sent' = ok /\ Answers("connect", ok)
  /\ UNCHANGED <<object, m_irc_session, made, live, events, running>>

\* disconnect(), by the owner or in an event.
Disconnect ==
  /\ object /\ m_irc_session \in live \cup {0}
  /\ connected' = connected \ {m_irc_session}
  /\ call' = "disconnect" /\ result' = "void" /\ sent' = FALSE
  /\ UNCHANGED <<object, m_irc_session, made, live, events, running>>

\* The library returns 0 for success; join_channel(), leave_channel() and
\* send_ctcp_ping() compare with 0, send_message() and send_notice() the other
\* way around.
Result(c, taken) == IF c \in {"send_message", "send_notice"} THEN ~taken ELSE taken

\* Only join_channel() and leave_channel() do not ask is_connected().
Command(c) ==
  /\ object /\ m_irc_session \in live \cup {0}
  /\ \E taken \in BOOLEAN :
       /\ taken => m_irc_session \in connected
       /\ sent' = taken
       /\ \/ /\ FALSE \in IsConnected /\ c \notin {"join_channel", "leave_channel"}
             /\ ~taken /\ Answers(c, FALSE)
          \/ /\ TRUE \in IsConnected \/ c \in {"join_channel", "leave_channel"}
             /\ Answers(c, Result(c, taken))
  /\ UNCHANGED <<object, connection, events, running>>

-----------------------------------------------------------------------------
\* run_loop() until the connection ends, or fails.
RunLoop ==
  /\ object /\ ~running /\ m_irc_session \in live \cup {0}
  /\ \/ m_irc_session = 0 /\ Answers("run_loop", FALSE) /\ UNCHANGED running
     \/ m_irc_session # 0 /\ running' = TRUE /\ call' = "run_loop" /\ result' = "none"
  /\ sent' = FALSE /\ UNCHANGED <<object, connection, events>>

\* irc_run() returns 0 when the session ended normally (sent), and the method
\* whether it is not 0.
RunLoopEnds ==
  /\ running /\ running' = FALSE
  /\ \E normally \in BOOLEAN :
       /\ normally => m_irc_session \notin connected
       /\ sent' = normally /\ Answers("run_loop", ~normally)
  /\ connected' = connected \ {m_irc_session}
  /\ UNCHANGED <<object, m_irc_session, made, live, events>>

\* An event of any kind, to the client whose context the session has.
Event ==
  /\ running /\ m_irc_session \in connected /\ events < MaxEvents
  /\ events' = events + 1
  /\ UNCHANGED <<object, connection, call, sent, result, running>>

\* The connection is lost.
ConnectionLost ==
  /\ \E s \in connected : connected' = connected \ {s}
  /\ UNCHANGED <<object, m_irc_session, made, live, events, call, sent, result, running>>

\* ~IRCClient(): disconnect() and destroy_session().
Destruct ==
  /\ object /\ ~running /\ m_irc_session \in live \cup {0}
  /\ object' = FALSE
  /\ connected' = connected \ {m_irc_session} /\ live' = live \ {m_irc_session}
  /\ call' = "~IRCClient" /\ result' = "void" /\ sent' = FALSE
  /\ UNCHANGED <<m_irc_session, made, events, running>>

-----------------------------------------------------------------------------
Init ==
  /\ object = FALSE /\ m_irc_session = 0 /\ made = 0 /\ live = {} /\ connected = {}
  /\ events = 0 /\ call = "none" /\ sent = FALSE /\ result = "none"
  /\ running = FALSE

Next ==
  \/ Construct \/ Destruct
  \/ CreateSession \/ DestroySession \/ Connect \/ Disconnect
  \/ \E c \in Commands : Command(c)
  \/ RunLoop \/ RunLoopEnds \/ Event \/ ConnectionLost

Spec == Init /\ [][Next]_ircVars

-----------------------------------------------------------------------------
(***************************************************************************)
(* Properties                                                              *)
(***************************************************************************)

\* Refuted: a message that send_message() reports as sent was sent.
TrueMeansSent == call = "send_message" /\ result = "true" => sent

\* Refuted: run_loop() returns true when the session was terminated normally, as
\* ircclient.h:125 says.
TrueMeansNormal == call = "run_loop" /\ result = "true" => sent

\* Refuted: the session of a client is alive, so that it may be used.
SessionIsLive == object => m_irc_session \in live \cup {0}

\* Refuted: no session is forgotten.
NoSessionIsLost == live \subseteq {m_irc_session}
=============================================================================
