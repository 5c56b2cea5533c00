----------------------------- MODULE MySQLClient -----------------------------
(***************************************************************************)
(* One MySQLClient, its caller and the server.                             *)
(*                                                                         *)
(* exec() is check_connection(), the query and mysql_use_result(); faults  *)
(* come between them.  The check is enabled in every client: nothing can   *)
(* call set_check_before_exec().  The client library is external: a handle *)
(* that was never connected, whose connection is gone, or that has a       *)
(* result with unread rows answers a ping and a query with an error.       *)
(***************************************************************************)
EXTENDS Naturals, FiniteSets

CONSTANTS
  Writes,       \* the statements that change data, each made at most once
  MaxFaults     \* bound: lost connections and failing statements

VARIABLES
  m_conn,       \* null, init (mysql_init only) or open
  m_result,     \* a MySQLResult the caller holds: none, rows (unread) or
                \* dangling (of a handle that was closed)
  place,        \* where the call is
  query,        \* the statement of the call
  inTx,         \* begin() returned, and neither commit() nor rollback() was called
  sessions,     \* the sessions the server has for this client
  transaction,  \* a transaction is open in the session of m_conn
  pending, durable,  \* writes inside it, and writes that are there to stay
  listening,    \* the server accepts connections
  faults

mysqlVars == <<m_conn, m_result, place, query, inTx, sessions, transaction, pending,
               durable, listening, faults>>

\* describe stands for list_tables(), get_table_definition() and explain().
Control == {"BEGIN", "COMMIT", "ROLLBACK"}
Query == Control \cup Writes \cup {"select", "describe"}

TypeOK ==
  /\ m_conn \in {"null", "init", "open"}
  /\ m_result \in {"none", "rows", "dangling"}
  /\ place \in {"idle", "ping", "disconnect", "connect", "query", "crashed", "destroyed"}
  /\ query \in Query \cup {"check"}
  /\ inTx \in BOOLEAN /\ transaction \in BOOLEAN /\ listening \in BOOLEAN
  /\ sessions \in 0..2
  /\ pending \subseteq Writes /\ durable \subseteq Writes
  /\ faults \in 0..MaxFaults

-----------------------------------------------------------------------------
\* The library and the server: a connection in working order.
Alive == m_conn = "open" /\ sessions > 0

\* The session of the handle ends; the server rolls its transaction back.
SessionEnds ==
  /\ sessions' = (IF Alive THEN sessions - 1 ELSE sessions)
  /\ transaction' = FALSE /\ pending' = {}

\* mysql_close(): a result with unread rows keeps a pointer to the handle.
Closes ==
  /\ m_conn' = "null"
  /\ m_result' = (IF m_result = "rows" THEN "dangling" ELSE m_result)
  /\ SessionEnds

-----------------------------------------------------------------------------
(***************************************************************************)
(* The client                                                              *)
(***************************************************************************)

\* begin(), commit(), rollback(), exec() and the three that describe tables; a
\* transaction ends for the caller when it asks for its end.
Exec(q) ==
  /\ place = "idle" /\ q \notin durable \cup pending
  /\ query' = q /\ place' = "ping"
  /\ inTx' = (inTx /\ q \notin {"COMMIT", "ROLLBACK"})
  /\ UNCHANGED <<m_conn, m_result, sessions, transaction, pending, durable,
                 listening, faults>>

\* check_connection() is public: it may be called alone.
CheckConnection ==
  /\ place = "idle" /\ query' = "check" /\ place' = "ping"
  /\ UNCHANGED <<m_conn, m_result, inTx, sessions, transaction, pending, durable,
                 listening, faults>>

\* The caller reads the last row, or drops the result.
FreeResult ==
  /\ place = "idle" /\ m_result = "rows" /\ m_result' = "none"
  /\ UNCHANGED <<m_conn, place, query, inTx, sessions, transaction, pending, durable,
                 listening, faults>>

Answers == Alive /\ m_result # "rows"

\* A mutant: the test of check_connection() as it reads, without the negation.
PingLeadsTo_NotAnswered(answered) == IF answered THEN "query" ELSE "disconnect"

\* mysql_ping() is 0 when the server answered.
PingLeadsTo(answered) == IF answered THEN "disconnect" ELSE "query"

AfterCheck == IF query = "check" THEN "idle" ELSE "query"

Ping ==
  /\ place = "ping"
  /\ place' = (IF PingLeadsTo(Answers) = "query" THEN AfterCheck ELSE "disconnect")
  /\ UNCHANGED <<m_conn, m_result, query, inTx, sessions, transaction, pending,
                 durable, listening, faults>>

Disconnect ==
  /\ place = "disconnect" /\ place' = "connect"
  /\ Closes
  /\ UNCHANGED <<query, inTx, durable, listening, faults>>

Connect ==
  /\ place = "connect" /\ listening
  /\ m_conn' = "open" /\ sessions' = sessions + 1
  /\ place' = AfterCheck
  /\ UNCHANGED <<m_result, query, inTx, transaction, pending, durable, listening,
                 faults>>

\* The exception leaves a handle that is initialised and not connected.
ConnectThrows ==
  /\ place = "connect" /\ ~listening
  /\ m_conn' = "init" /\ place' = "idle"
  /\ UNCHANGED <<m_result, query, inTx, sessions, transaction, pending, durable,
                 listening, faults>>

\* What the server does of a statement.
DurableAfter(q) ==
  IF q \in {"BEGIN", "COMMIT"} THEN durable \cup pending
  ELSE IF q \in Writes /\ ~transaction THEN durable \cup {q} ELSE durable

Executes(q) ==
  /\ transaction' = (IF q = "BEGIN" THEN TRUE
                     ELSE transaction /\ q \notin {"COMMIT", "ROLLBACK"})
  /\ pending' = (IF q \in Control THEN {}
                 ELSE IF q \in Writes /\ transaction THEN pending \cup {q} ELSE pending)
  /\ durable' = DurableAfter(q)

\* exec() returns a MySQLResult.  Of a statement without rows, and of a select
\* whose result is dropped, nothing is left; the caller may keep that of a select.
QueryReturns ==
  /\ place = "query" /\ Answers /\ query # "describe"
  /\ Executes(query)
  /\ inTx' = (inTx \/ query = "BEGIN")
  /\ place' = "idle"
  /\ m_result' \in (IF query = "select" THEN {"none", "rows"} ELSE {"none"})
  /\ UNCHANGED <<m_conn, query, sessions, listening, faults>>

\* The result of exec() is dropped at the end of the statement, and the second
\* MySQLResult of the same query is null: its fields are read nevertheless.
DescribeCrashes ==
  /\ place = "query" /\ Answers /\ query = "describe"
  /\ place' = "crashed"
  /\ UNCHANGED <<m_conn, m_result, query, inTx, sessions, transaction, pending,
                 durable, listening, faults>>

\* The handle is of no use, or the server refuses the statement.
QueryThrows ==
  /\ place = "query"
  /\ IF Answers THEN faults < MaxFaults /\ faults' = faults + 1 ELSE UNCHANGED faults
  /\ place' = "idle"
  /\ UNCHANGED <<m_conn, m_result, query, inTx, sessions, transaction, pending,
                 durable, listening>>

\* The server executes the statement and the connection is lost before it answers.
QueryUnanswered ==
  /\ place = "query" /\ Answers /\ faults < MaxFaults /\ faults' = faults + 1
  /\ durable' = DurableAfter(query)
  /\ SessionEnds
  /\ place' = "idle"
  /\ UNCHANGED <<m_conn, m_result, query, inTx, listening>>

\* ~MySQLClient(), which the caller runs after the destructors of its results.
Destroy ==
  /\ place = "idle" /\ m_result = "none"
  /\ place' = "destroyed"
  /\ Closes
  /\ UNCHANGED <<query, inTx, durable, listening, faults>>

-----------------------------------------------------------------------------
ConnectionLost ==
  /\ Alive /\ faults < MaxFaults /\ faults' = faults + 1
  /\ SessionEnds
  /\ UNCHANGED <<m_conn, m_result, place, query, inTx, durable, listening>>

ServerToggles ==
  /\ faults < MaxFaults /\ faults' = faults + 1
  /\ listening' = ~listening
  /\ UNCHANGED <<m_conn, m_result, place, query, inTx, sessions, transaction, pending,
                 durable>>

\* The constructor connects, or throws after disconnect().
Init ==
  /\ \/ m_conn = "open" /\ sessions = 1 /\ place = "idle" /\ listening = TRUE
     \/ m_conn = "null" /\ sessions = 0 /\ place = "destroyed" /\ listening = FALSE
  /\ m_result = "none" /\ query = "check" /\ inTx = FALSE
  /\ transaction = FALSE /\ pending = {} /\ durable = {} /\ faults = 0

Next ==
  \/ \E q \in Query : Exec(q)
  \/ CheckConnection \/ FreeResult
  \/ Ping \/ Disconnect \/ Connect \/ ConnectThrows
  \/ QueryReturns \/ DescribeCrashes \/ QueryThrows \/ QueryUnanswered
  \/ Destroy
  \/ ConnectionLost \/ ServerToggles

Spec == Init /\ [][Next]_mysqlVars

-----------------------------------------------------------------------------
(***************************************************************************)
(* Properties                                                              *)
(***************************************************************************)

\* A result with unread rows belongs to the handle the client has: no
\* reconnection closes the handle under the reader.
ResultNeverDangles == m_result # "dangling"

\* The server has a session for the client exactly while the client has a
\* handle that is connected: reconnecting leaves none behind.
NoSessionLeaks == sessions <= 1 /\ (m_conn # "open" => sessions = 0)

\* What is written between begin() and the call of commit() or rollback() is
\* not there to stay (database.h:55, "Start a transaction").
TransactionHolds == [][inTx /\ inTx' => durable' = durable]_mysqlVars

\* The three methods that describe tables return.
DescribeReturns == place # "crashed"
=============================================================================
