-------------------------- MODULE PostgreSQLClient --------------------------
(***************************************************************************)
(* One PostgreSQLClient, its caller and the server.                        *)
(*                                                                         *)
(* Every statement is one round trip of libpq on the session of m_conn:    *)
(* the connection may be lost before the server executes it or before the  *)
(* answer comes back.  libpq is external: PQstatus() tells the truth only  *)
(* once a round trip failed, and PQresetStart() begins a connection that   *)
(* only PQresetPoll() would complete.                                      *)
(***************************************************************************)
EXTENDS Naturals, Sequences, FiniteSets

CONSTANTS
  Writes,     \* statements that change data, each made at most once
  Custom,     \* the statements a caller registers
  MaxFaults   \* bound: lost connections and refused statements

\* register_embedded_statements(), and the views of add_admin_views(), in order
Embedded == <<"list_tables_into_schema", "show_create_table", "show_create_table_indexes">>
Views == <<"view_relations_size", "view_relations_size_pretty", "object_privileges">>

Names == Custom \cup {Embedded[i] : i \in 1..3}

VARIABLES
  status,        \* PQstatus(m_conn): ok, bad, started; null without m_conn
  session,       \* the session at the server: none, idle, open or failed (transaction)
  m_statements,  \* the names registered by the client
  prepared,      \* the names the session knows
  pending, durable,
  inTx,          \* begin() returned, and neither commit() nor rollback() was called
  todo,          \* what is left of a call of several statements
  outcome,       \* how the last call ended: none, ok, threw, and the status of
                 \* show_create_table(), or running
  definition,    \* the parts of the definition that show_create_table() filled
  listening, faults

pgVars == <<status, session, m_statements, prepared, pending, durable, inTx, todo,
            outcome, definition, listening, faults>>

TypeOK ==
  /\ status \in {"null", "ok", "bad", "started"}
  /\ session \in {"none", "idle", "open", "failed"}
  /\ m_statements \subseteq Names /\ prepared \subseteq Names
  /\ pending \subseteq Writes /\ durable \subseteq Writes
  /\ inTx \in BOOLEAN /\ listening \in BOOLEAN
  /\ todo \in {SubSeq(q, i, 3) : q \in {Embedded, Views}, i \in 1..4}
  /\ outcome \in {"none", "ok", "threw", "running", "TUPLES_OK", "COMMAND_OK", "registered"}
  /\ definition \subseteq {"fields", "indexes"}
  /\ faults \in 0..MaxFaults

-----------------------------------------------------------------------------
(***************************************************************************)
(* The server and libpq                                                    *)
(***************************************************************************)

Alive == status = "ok" /\ session # "none"

\* A session ends, and what it had not committed or only knew itself with it.
SessionEnds == session' = "none" /\ pending' = {} /\ prepared' = {}

MayFail == faults < MaxFaults /\ faults' = faults + 1

Statement == {"BEGIN", "COMMIT", "ROLLBACK", "other"} \cup Writes

\* A failed transaction refuses everything but its end; COMMIT ends it like
\* ROLLBACK, and says so only in a tag that nobody reads.
Accepted(q) == session # "failed" \/ q \in {"COMMIT", "ROLLBACK"}

DurableAfter(q) ==
  IF q = "COMMIT" THEN durable \cup pending
  ELSE IF q \in Writes /\ session = "idle" THEN durable \cup {q} ELSE durable

Executes(q) ==
  /\ session' = (IF q = "BEGIN" THEN "open"
                 ELSE IF q \in {"COMMIT", "ROLLBACK"} THEN "idle" ELSE session)
  /\ pending' = (IF q \in {"COMMIT", "ROLLBACK"} THEN {}
                 ELSE IF q \in Writes /\ session = "open" THEN pending \cup {q}
                 ELSE pending)
  /\ durable' = DurableAfter(q)

\* A round trip that brings an answer which is not an error.
Succeeds(q) == Alive /\ Accepted(q) /\ Executes(q) /\ UNCHANGED <<status, faults>>

\* PQresultStatus() of an error, of a lost connection, and of the null result of
\* a connection that is not established: the constructor of PostgreSQLResult throws.
Errs(q) ==
  \/ /\ Alive                         \* the server refuses the statement
     /\ IF Accepted(q) THEN MayFail ELSE UNCHANGED faults
     /\ session' = (IF q = "COMMIT" THEN "idle"
                    ELSE IF session = "open" THEN "failed" ELSE session)
     /\ pending' = (IF session = "open" THEN {} ELSE pending)
     /\ UNCHANGED <<status, prepared, durable>>
  \/ /\ status = "ok" /\ session = "none"   \* it is noticed that the session is gone
     /\ status' = "bad"
     /\ UNCHANGED <<session, pending, prepared, durable, faults>>
  \/ /\ Alive /\ Accepted(q) /\ MayFail     \* executed, and the answer is lost
     /\ status' = "bad" /\ SessionEnds /\ durable' = DurableAfter(q)
  \/ /\ status \in {"bad", "started"}
     /\ UNCHANGED <<status, session, pending, prepared, durable, faults>>

-----------------------------------------------------------------------------
(***************************************************************************)
(* The client                                                              *)
(***************************************************************************)

Idle == status # "null" /\ todo = <<>>

\* A mutant: the reset is waited for, as PQreset() does.
ResetStart_Completes ==
  /\ status' = "ok" /\ session' = "idle" /\ pending' = {} /\ prepared' = {}

\* PQresetStart(): the old connection is closed and nobody polls the new one.
ResetStart == status' = "started" /\ UNCHANGED <<session, pending, prepared>>

\* check_connection() before a statement finds a connection that is not
\* established: it throws when the server is away; otherwise the statement that
\* follows the reset gets a null result, and throws.
CheckThrows ==
  /\ status # "ok"
  /\ IF listening THEN ResetStart ELSE UNCHANGED <<status, session, pending, prepared>>
  /\ UNCHANGED <<durable, faults>>

\* exec() of a statement, which is also how a transaction begins and ends, a
\* schema is made or dropped and an encoding is set.
ExecReturns(q) ==
  /\ Idle /\ q \notin pending \cup durable
  /\ Succeeds(q) /\ UNCHANGED prepared
  /\ inTx' = (IF q = "BEGIN" THEN TRUE ELSE inTx /\ q \notin {"COMMIT", "ROLLBACK"})
  /\ outcome' = "ok"
  /\ UNCHANGED <<m_statements, todo, definition, listening>>

ExecThrows(q) ==
  /\ Idle /\ q \notin pending \cup durable
  /\ CheckThrows \/ (status = "ok" /\ Errs(q))
  /\ inTx' = (inTx /\ q \notin {"COMMIT", "ROLLBACK"})
  /\ outcome' = "threw"
  /\ UNCHANGED <<m_statements, todo, definition, listening>>

\* A mutant: the name is recorded before the server is asked.
PrepareThrows_Recorded(n) ==
  /\ Errs("other") /\ m_statements' = m_statements \cup {n}
  /\ UNCHANGED <<inTx, definition, listening>>

PrepareThrows(n) == Errs("other") /\ UNCHANGED <<m_statements, inTx, definition, listening>>

Prepares(n) ==
  /\ Succeeds("other")
  /\ prepared' = prepared \cup {n} /\ m_statements' = m_statements \cup {n}
  /\ UNCHANGED <<inTx, definition, listening>>

\* register_statement(): false of a name that is registered already.
Known(n) ==
  /\ n \in m_statements
  /\ UNCHANGED <<status, session, pending, prepared, durable, faults, m_statements,
                 inTx, definition, listening>>

Register(n) ==
  /\ Idle /\ UNCHANGED todo
  /\ \/ Known(n) /\ outcome' = "ok"
     \/ n \notin m_statements /\ Prepares(n) /\ outcome' = "ok"
     \/ n \notin m_statements /\ PrepareThrows(n) /\ outcome' = "threw"

\* The calls of several statements: each begins, goes on, or is left by an exception.
Begins(list) ==
  /\ Idle /\ todo' = list /\ outcome' = "running"
  /\ UNCHANGED <<status, session, m_statements, prepared, pending, durable, inTx,
                 definition, listening, faults>>

Continues(finished) ==
  /\ todo' = Tail(todo)
  /\ outcome' = (IF Len(todo) > 1 THEN "running" ELSE finished)

Leaves == todo' = <<>> /\ outcome' = "threw"

RegisterEmbeddedStatements ==
  /\ todo # <<>> /\ Head(todo) \in Names
  /\ LET n == Head(todo) IN
     \/ Known(n) /\ Continues("registered")
     \/ n \notin m_statements /\ Prepares(n) /\ Continues("registered")
     \/ n \notin m_statements /\ PrepareThrows(n) /\ Leaves

AddAdminViews ==
  /\ todo # <<>> /\ Head(todo) \notin Names
  /\ \/ Succeeds("other") /\ UNCHANGED prepared /\ Continues("COMMAND_OK")
     \/ (CheckThrows \/ (status = "ok" /\ Errs("other"))) /\ Leaves
  /\ UNCHANGED <<m_statements, inTx, definition, listening>>

\* exec_prepared() does not check the connection; of a name the session does not
\* know the server makes an error.
PreparedReturns(n) ==
  /\ n \in prepared /\ Succeeds("other")
  /\ UNCHANGED prepared

PreparedThrows(n) ==
  \/ Errs("other")
  \/ /\ Alive /\ n \notin prepared
     /\ session' = (IF session = "open" THEN "failed" ELSE session)
     /\ pending' = (IF session = "open" THEN {} ELSE pending)
     /\ UNCHANGED <<status, prepared, durable, faults>>

ShowTables ==
  /\ Idle
  /\ \/ PreparedReturns(Embedded[1]) /\ outcome' = "TUPLES_OK"
     \/ PreparedThrows(Embedded[1]) /\ outcome' = "threw"
  /\ UNCHANGED <<m_statements, inTx, todo, definition, listening>>

\* What libpq says of the result of a SELECT, and what show_create_table() wants
\* of the result of the fields before it asks for the indexes.
SelectStatus == "TUPLES_OK"
GoesOn(st) == st = "COMMAND_OK"

ShowCreateTable ==
  /\ Idle
  /\ \/ /\ PreparedReturns(Embedded[2])
        /\ definition' = definition \cup {"fields"}
                           \cup (IF GoesOn(SelectStatus) THEN {"indexes"} ELSE {})
        /\ outcome' = SelectStatus
     \/ /\ PreparedThrows(Embedded[2])
        /\ outcome' = "threw" /\ UNCHANGED definition
  /\ UNCHANGED <<m_statements, inTx, todo, listening>>

\* ~PostgreSQLClient(); m_statements is not touched by disconnect().
Destroy ==
  /\ Idle
  /\ status' = "null" /\ SessionEnds
  /\ UNCHANGED <<m_statements, durable, inTx, todo, outcome, definition, listening,
                 faults>>

-----------------------------------------------------------------------------
SessionLost ==
  /\ session # "none" /\ MayFail /\ SessionEnds
  /\ UNCHANGED <<status, m_statements, durable, inTx, todo, outcome, definition,
                 listening>>

ServerToggles ==
  /\ MayFail /\ listening' = ~listening
  /\ UNCHANGED <<status, session, m_statements, prepared, pending, durable, inTx,
                 todo, outcome, definition>>

\* The constructor: a connection that fails, or a server too old, is an exception.
Init ==
  /\ \/ status = "ok" /\ session = "idle" /\ listening = TRUE
     \/ status = "null" /\ session = "none" /\ listening \in BOOLEAN
  /\ m_statements = {} /\ prepared = {} /\ pending = {} /\ durable = {}
  /\ inTx = FALSE /\ todo = <<>> /\ outcome = "none" /\ definition = {} /\ faults = 0

Next ==
  \/ \E q \in Statement : ExecReturns(q) \/ ExecThrows(q)
  \/ \E n \in Custom : Register(n)
  \/ Begins(Embedded) \/ Begins(Views)
  \/ RegisterEmbeddedStatements \/ AddAdminViews
  \/ ShowTables \/ ShowCreateTable
  \/ Destroy
  \/ SessionLost \/ ServerToggles

Spec == Init /\ [][Next]_pgVars

-----------------------------------------------------------------------------
(***************************************************************************)
(* Properties                                                              *)
(***************************************************************************)

\* What the client believes registered, the session it uses has prepared: a
\* registration that fails is not remembered, and a session is never replaced by
\* one that knows nothing.  After register_embedded_statements() returned, also
\* when earlier attempts failed half-way, that is all three.
RegisteredIsPrepared ==
  Alive =>
    /\ m_statements \subseteq prepared
    /\ outcome = "registered" => {Embedded[i] : i \in 1..3} \subseteq prepared

\* A transaction is on one session, and what it writes is there to stay at its
\* commit, all at once, or not at all; wherever connections are lost.
Transaction == INSTANCE SqlTransaction WITH open <- inTx, work <- pending
TransactionIsAtomic == Transaction!Spec

\* Refuted: when the database is up, check_connection() reconnects, or throws
\* (postgresqlclient.h:211, database.h:71); the connection it begins to reset is
\* never completed, and every later statement throws.
Reconnects == status # "started"

\* postgresqlclient.h:196: the definition has the indexes when the call returned.
IndexesAreRead == outcome = SelectStatus /\ "fields" \in definition => "indexes" \in definition

\* commit() returns normally only when the work of the transaction is durable.
CommitTells ==
  [][inTx /\ ~inTx' /\ outcome' = "ok" /\ session = "failed" => FALSE]_pgVars
=============================================================================
