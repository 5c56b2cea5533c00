----------------------- MODULE PostgreSQLClientProofs -----------------------
(***************************************************************************)
(* Theorems about PostgreSQLClient, for every set of statements and every  *)
(* number of faults.                                                       *)
(***************************************************************************)
EXTENDS PostgreSQLClient, SequenceTheorems, TLAPS

\* Data are not the words that control a transaction, and no caller registers
\* the name of a view: the namespaces are apart in SQL.
PgConstants ==
  /\ Writes \cap {"BEGIN", "COMMIT", "ROLLBACK", "other"} = {}
  /\ Custom \cap {Views[i] : i \in 1..3} = {}

-----------------------------------------------------------------------------
(***************************************************************************)
(* The session and the transaction on it                                   *)
(***************************************************************************)

\* A connection that is known to be lost has no session; what is pending is the
\* work of an open transaction, which is one that begin() began; and as long as it
\* has not ended the session is not back to committing each statement alone.
SessionInv ==
  /\ status \in {"null", "ok", "bad", "started"}
  /\ session \in {"none", "idle", "open", "failed"}
  /\ inTx \in BOOLEAN
  /\ status # "ok" => session = "none"
  /\ pending # {} => session = "open"
  /\ session = "open" => inTx
  /\ inTx => session # "idle"

\* What a round trip leaves of it, unless it begins or ends a transaction.
RoundTrip(q) ==
  Succeeds(q) \/ Errs(q) \/ CheckThrows
    \/ UNCHANGED <<status, session, pending, durable>>

\* A round trip that is no statement of a transaction keeps the invariant.
LEMMA RoundTripKeepsSession ==
  ASSUME PgConstants, SessionInv, RoundTrip("other"), inTx' = inTx
  PROVE  SessionInv'
<1>1. CASE Succeeds("other")
  BY <1>1 DEF SessionInv, Succeeds, Executes, Alive, PgConstants
<1>2. CASE Errs("other")
  BY <1>2 DEF SessionInv, Errs, Alive, SessionEnds
<1>3. CASE CheckThrows
  BY <1>3 DEF SessionInv, CheckThrows, ResetStart
<1>4. CASE UNCHANGED <<status, session, pending, durable>>
  BY <1>4 DEF SessionInv
<1> QED
  BY <1>1, <1>2, <1>3, <1>4 DEF RoundTrip

\* So does exec(), whatever becomes of its statement.
LEMMA ExecKeepsSession ==
  ASSUME PgConstants, SessionInv, NEW q \in Statement, ExecReturns(q) \/ ExecThrows(q)
  PROVE  SessionInv'
<1>1. CASE ExecReturns(q)
  BY <1>1 DEF SessionInv, ExecReturns, Succeeds, Executes, Alive, Accepted, Statement, PgConstants
<1>2. CASE ExecThrows(q)
  <2>1. CASE CheckThrows
    BY <1>2, <2>1 DEF SessionInv, ExecThrows, CheckThrows, ResetStart
  <2>2. CASE status = "ok" /\ Errs(q)
    BY <1>2, <2>2 DEF SessionInv, ExecThrows, Errs, Alive, Accepted, SessionEnds
  <2> QED
    BY <1>2, <2>1, <2>2 DEF ExecThrows
<1> QED
  BY <1>1, <1>2

\* The other calls of the client make round trips that leave the transaction to
\* the server, or end the session.
LEMMA OtherCalls ==
  ASSUME \/ \E n \in Custom : Register(n)
         \/ Begins(Embedded) \/ Begins(Views)
         \/ RegisterEmbeddedStatements \/ AddAdminViews
         \/ ServerToggles
  PROVE  RoundTrip("other") /\ inTx' = inTx
<1>1. CASE \E n \in Custom : Register(n)
  BY <1>1 DEF RoundTrip, Register, Known, Prepares, PrepareThrows
<1>2. CASE Begins(Embedded) \/ Begins(Views)
  BY <1>2 DEF RoundTrip, Begins
<1>3. CASE RegisterEmbeddedStatements
  BY <1>3 DEF RoundTrip, RegisterEmbeddedStatements, Known, Prepares, PrepareThrows
<1>4. CASE AddAdminViews
  BY <1>4 DEF RoundTrip, AddAdminViews
<1>5. CASE ServerToggles
  BY <1>5 DEF RoundTrip, ServerToggles
<1> QED
  BY <1>1, <1>2, <1>3, <1>4, <1>5

\* A prepared statement is refused like any other, or as unknown.
Shows == ShowTables \/ ShowCreateTable

LEMMA ShowsLeave ==
  ASSUME SessionInv, Shows
  PROVE  /\ inTx' = inTx
         /\ \/ RoundTrip("other")
            \/ /\ session' = (IF session = "open" THEN "failed" ELSE session)
               /\ pending' = (IF session = "open" THEN {} ELSE pending)
               /\ UNCHANGED <<status, durable>>
<1>1. CASE ShowTables
  BY <1>1 DEF ShowTables, PreparedReturns, PreparedThrows, RoundTrip
<1>2. CASE ShowCreateTable
  BY <1>2 DEF ShowCreateTable, PreparedReturns, PreparedThrows, RoundTrip
<1> QED
  BY <1>1, <1>2 DEF Shows

\* The invariant of the session holds in every reachable state.
LEMMA SessionHolds ==
  ASSUME PgConstants
  PROVE  Spec => []SessionInv
<1>1. Init => SessionInv
  BY DEF Init, SessionInv
<1>2. SessionInv /\ [Next]_pgVars => SessionInv'
  <2> SUFFICES ASSUME SessionInv, [Next]_pgVars PROVE SessionInv'
    OBVIOUS
  <2>1. CASE \E q \in Statement : ExecReturns(q) \/ ExecThrows(q)
    BY <2>1, ExecKeepsSession
  <2>2. CASE \/ \E n \in Custom : Register(n)
             \/ Begins(Embedded) \/ Begins(Views)
             \/ RegisterEmbeddedStatements \/ AddAdminViews
             \/ ServerToggles
    BY <2>2, OtherCalls, RoundTripKeepsSession
  <2>3. CASE Shows
    <3>1. CASE RoundTrip("other")
      BY <2>3, <3>1, ShowsLeave, RoundTripKeepsSession
    <3>2. CASE ~RoundTrip("other")
      BY <2>3, <3>2, ShowsLeave DEF SessionInv
    <3> QED
      BY <3>1, <3>2
  <2>4. CASE Destroy \/ SessionLost
    BY <2>4 DEF SessionInv, Destroy, SessionLost, SessionEnds
  <2>5. CASE UNCHANGED pgVars
    BY <2>5 DEF SessionInv, pgVars
  <2> QED
    BY <2>1, <2>2, <2>3, <2>4, <2>5 DEF Next, Shows
<1> QED
  BY <1>1, <1>2, PTL DEF Spec

-----------------------------------------------------------------------------
(***************************************************************************)
(* Prepared statements                                                     *)
(***************************************************************************)

\* The statements of both lists.
Listed == {"list_tables_into_schema", "show_create_table", "show_create_table_indexes",
           "view_relations_size", "view_relations_size_pretty", "object_privileges"}

\* What is left of the calls of several statements is the end of their list.
IsRest(list) == /\ Len(todo) <= 3
                /\ \A i \in 1..Len(todo) : todo[i] = list[3 - Len(todo) + i]

\* What is registered the session knows as long as it is there; and of the embedded
\* statements those are registered that register_embedded_statements() has behind it.
StatementsInv ==
  /\ session # "none" => m_statements \subseteq prepared
  /\ todo \in Seq(Listed)
  /\ IsRest(Embedded) \/ IsRest(Views)
  /\ todo # <<>> /\ IsRest(Embedded) =>
       \A i \in 1..(3 - Len(todo)) : Embedded[i] \in m_statements
  /\ outcome = "registered" => \A i \in 1..3 : Embedded[i] \in m_statements

\* A round trip replaces no session by another one.
LEMMA SessionStays ==
  ASSUME SessionInv, RoundTrip("other"), prepared' = prepared \/ (prepared' = {} /\ session' = "none"),
         session # "none" => m_statements \subseteq prepared, m_statements' = m_statements
  PROVE  session' # "none" => m_statements' \subseteq prepared'
BY DEF SessionInv, RoundTrip, Succeeds, Executes, Errs, CheckThrows, ResetStart, Alive, SessionEnds

\* One statement of a call: registered and prepared, known, or refused.
LEMMA RegistersOne ==
  ASSUME SessionInv, session # "none" => m_statements \subseteq prepared, NEW n,
         \/ Known(n)
         \/ n \notin m_statements /\ Prepares(n)
         \/ n \notin m_statements /\ PrepareThrows(n)
  PROVE  /\ session' # "none" => m_statements' \subseteq prepared'
         /\ m_statements \subseteq m_statements'
         /\ n \notin m_statements' => PrepareThrows(n)
<1>1. CASE Known(n)
  BY <1>1 DEF Known
<1>2. CASE Prepares(n)
  BY <1>2 DEF Prepares, Succeeds, Executes, Alive
<1>3. CASE PrepareThrows(n)
  BY <1>3, SessionStays DEF PrepareThrows, RoundTrip, Errs, SessionEnds
<1> QED
  BY <1>1, <1>2, <1>3

\* What does not touch todo, outcome and m_statements but for an outcome of its own.
LEMMA OtherKeepsStatements ==
  ASSUME StatementsInv, todo' = todo, m_statements \subseteq m_statements',
         outcome' = outcome \/ outcome' # "registered",
         session' # "none" => m_statements' \subseteq prepared'
  PROVE  StatementsInv'
BY DEF StatementsInv, IsRest

\* A call of several statements that is not over has up to three left.
LEMMA RestLength ==
  ASSUME StatementsInv, todo # <<>>
  PROVE  Len(todo) \in 1..3 /\ Head(todo) = todo[1]
<1>1. todo \in Seq(Listed)
  BY DEF StatementsInv
<1>2. Len(todo) \in Nat \ {0}
  BY <1>1, EmptySeq, Zenon
<1>3. Len(todo) <= 3
  BY DEF StatementsInv, IsRest
<1>4. Head(todo) = todo[1]
  BY <1>1
<1>5. \A k \in Nat \ {0} : k <= 3 => k \in 1..3
  OBVIOUS
<1> QED
  BY <1>2, <1>3, <1>4, <1>5, Zenon

\* register_embedded_statements() goes on, or is left by an exception.
LEMMA RegisterEmbeddedKeeps ==
  ASSUME PgConstants, SessionInv, StatementsInv, RegisterEmbeddedStatements
  PROVE  StatementsInv'
<1> DEFINE n == Head(todo)
<1>1. n = todo[1] /\ Len(todo) \in 1..3
  BY RestLength DEF RegisterEmbeddedStatements
<1>2. IsRest(Embedded) /\ n = Embedded[4 - Len(todo)]
  <2>1. n \in Custom \cup {Embedded[i] : i \in 1..3}
    BY DEF RegisterEmbeddedStatements, Names
  <2>2. ASSUME IsRest(Views) PROVE FALSE
    <3>1. n = Views[4 - Len(todo)] /\ 4 - Len(todo) \in 1..3
      BY <1>1, <2>2 DEF IsRest
    <3>2. n \in {Views[i] : i \in 1..3}
      BY <3>1
    <3>3. n \in {Embedded[i] : i \in 1..3}
      BY <2>1, <3>2 DEF PgConstants
    <3> QED
      BY <3>2, <3>3 DEF Embedded, Views
  <2>3. IsRest(Embedded)
    BY <2>2 DEF StatementsInv
  <2> QED
    BY <1>1, <2>3 DEF IsRest
<1>3. /\ session' # "none" => m_statements' \subseteq prepared'
      /\ m_statements \subseteq m_statements'
      /\ n \notin m_statements' => PrepareThrows(n)
  BY RegistersOne DEF RegisterEmbeddedStatements, StatementsInv
<1>4. CASE Leaves
  BY <1>3, <1>4 DEF Leaves, StatementsInv, IsRest
<1>5. CASE Continues("registered") /\ n \in m_statements'
  <2>1. /\ todo' = Tail(todo) /\ todo' \in Seq(Listed) /\ Len(todo') = Len(todo) - 1
        /\ \A i \in 1..Len(todo') : todo'[i] = todo[i + 1]
    BY <1>1, <1>5 DEF Continues, StatementsInv
  <2>2. IsRest(Embedded)'
    BY <1>1, <1>2, <2>1 DEF IsRest
  <2>3. \A i \in 1..(3 - Len(todo')) : Embedded[i] \in m_statements'
    <3> SUFFICES ASSUME NEW i \in 1..(3 - Len(todo')) PROVE Embedded[i] \in m_statements'
      OBVIOUS
    <3>1. CASE i = 4 - Len(todo)
      BY <1>2, <1>5, <3>1
    <3>2. CASE i # 4 - Len(todo)
      <4>1. i \in 1..(3 - Len(todo))
        BY <1>1, <2>1, <3>2
      <4> QED
        BY <1>1, <1>2, <1>3, <4>1 DEF StatementsInv
    <3> QED
      BY <3>1, <3>2
  <2>4. outcome' = "registered" => Len(todo') = 0
    BY <1>1, <1>5, <2>1 DEF Continues
  <2> QED
    BY <1>3, <2>1, <2>2, <2>3, <2>4 DEF StatementsInv
<1> QED
  <2>1. Leaves \/ (Continues("registered") /\ n \in m_statements')
    BY <1>3 DEF RegisterEmbeddedStatements, Known, Prepares
  <2> QED
    BY <1>4, <1>5, <2>1

\* The same of the views.
LEMMA AddViewsKeeps ==
  ASSUME SessionInv, StatementsInv, AddAdminViews
  PROVE  StatementsInv'
<1>1. Len(todo) \in 1..3 /\ m_statements' = m_statements
  BY RestLength DEF AddAdminViews
<1>2. session' # "none" => m_statements' \subseteq prepared'
  <2>1. RoundTrip("other")
    BY DEF AddAdminViews, RoundTrip
  <2>2. prepared' = prepared \/ (prepared' = {} /\ session' = "none")
    BY DEF AddAdminViews, CheckThrows, ResetStart, Errs, SessionEnds
  <2> QED
    BY <1>1, <2>1, <2>2, SessionStays DEF StatementsInv
<1>3. ~IsRest(Embedded)
  <2>1. ASSUME IsRest(Embedded) PROVE FALSE
    <3>1. Head(todo) = Embedded[4 - Len(todo)] /\ 4 - Len(todo) \in 1..3
      BY <1>1, <2>1 DEF IsRest, StatementsInv
    <3> QED
      BY <3>1 DEF AddAdminViews, Names
  <2> QED
    BY <2>1
<1>4. CASE Leaves
  BY <1>1, <1>2, <1>4 DEF Leaves, StatementsInv, IsRest
<1>5. CASE Continues("COMMAND_OK")
  <2>1. /\ todo' \in Seq(Listed) /\ Len(todo') = Len(todo) - 1
        /\ \A i \in 1..Len(todo') : todo'[i] = todo[i + 1]
    BY <1>1, <1>5 DEF Continues, StatementsInv
  <2>2. IsRest(Views)'
    BY <1>1, <1>3, <2>1 DEF IsRest, StatementsInv
  <2>3. todo' # <<>> => ~IsRest(Embedded)'
    BY <1>1, <2>1, <2>2 DEF IsRest, Embedded, Views
  <2>4. outcome' # "registered"
    BY <1>5 DEF Continues
  <2> QED
    BY <1>1, <1>2, <2>1, <2>2, <2>3, <2>4 DEF StatementsInv
<1> QED
  BY <1>4, <1>5 DEF AddAdminViews

\* The lists are sequences of three statements.
LEMMA Lists ==
  /\ Len(Embedded) = 3 /\ Embedded \in Seq(Listed)
  /\ Len(Views) = 3 /\ Views \in Seq(Listed)
<1>1. Len(Embedded) = 3
  BY DEF Embedded
<1>2. Len(Views) = 3
  BY DEF Views
<1>3. Embedded \in Seq(Listed)
  BY DEF Embedded, Listed
<1>4. Views \in Seq(Listed)
  BY DEF Views, Listed
<1> QED
  BY <1>1, <1>2, <1>3, <1>4

\* The invariant of the statements holds in every reachable state.
LEMMA StatementsHold ==
  ASSUME PgConstants
  PROVE  Spec => []StatementsInv
<1>1. Init => StatementsInv
  <2> SUFFICES ASSUME Init PROVE StatementsInv
    OBVIOUS
  <2>1. todo = <<>> /\ Len(todo) = 0 /\ todo \in Seq(Listed)
    BY DEF Init
  <2> QED
    BY <2>1 DEF Init, StatementsInv, IsRest
<1>2. SessionInv /\ StatementsInv /\ [Next]_pgVars => StatementsInv'
  <2> SUFFICES ASSUME SessionInv, StatementsInv, [Next]_pgVars PROVE StatementsInv'
    OBVIOUS
  <2>1. CASE \E q \in Statement : ExecReturns(q) \/ ExecThrows(q)
    <3> PICK q \in Statement : ExecReturns(q) \/ ExecThrows(q)
      BY <2>1
    <3>1. CASE ExecReturns(q)
      BY <3>1, OtherKeepsStatements DEF ExecReturns, Succeeds, Alive, StatementsInv
    <3>2. CASE ExecThrows(q)
      <4>1. session' # "none" => session # "none" /\ prepared' = prepared
        BY <3>2 DEF ExecThrows, CheckThrows, ResetStart, Errs, Alive, SessionEnds
      <4> QED
        BY <3>2, <4>1, OtherKeepsStatements DEF ExecThrows, StatementsInv
    <3> QED
      BY <3>1, <3>2
  <2>2. CASE \E n \in Custom : Register(n)
    <3> PICK n \in Custom : Register(n)
      BY <2>2
    <3>1. /\ session' # "none" => m_statements' \subseteq prepared'
          /\ m_statements \subseteq m_statements'
      BY RegistersOne DEF Register, StatementsInv
    <3> QED
      BY <3>1, OtherKeepsStatements DEF Register
  <2>3. CASE Begins(Embedded) \/ Begins(Views)
    <3>1. CASE Begins(Embedded)
      <4>1. todo' = Embedded /\ Len(todo') = 3 /\ todo' \in Seq(Listed)
        BY <3>1, Lists DEF Begins
      <4> QED
        BY <3>1, <4>1 DEF Begins, StatementsInv, IsRest
    <3>2. CASE Begins(Views)
      <4>1. todo' = Views /\ Len(todo') = 3 /\ todo' \in Seq(Listed)
        BY <3>2, Lists DEF Begins
      <4> QED
        BY <3>2, <4>1 DEF Begins, StatementsInv, IsRest
    <3> QED
      BY <2>3, <3>1, <3>2
  <2>4. CASE RegisterEmbeddedStatements
    BY <2>4, RegisterEmbeddedKeeps
  <2>5. CASE AddAdminViews
    BY <2>5, AddViewsKeeps
  <2>6. CASE Shows
    <3>1. session' # "none" => session # "none" /\ prepared' = prepared
      BY <2>6 DEF Shows, ShowTables, ShowCreateTable, PreparedReturns, PreparedThrows,
                  Succeeds, Errs, Alive, SessionEnds
    <3>2. todo' = todo /\ m_statements' = m_statements /\ outcome' # "registered"
      BY <2>6 DEF Shows, ShowTables, ShowCreateTable, SelectStatus
    <3> QED
      BY <3>1, <3>2, OtherKeepsStatements DEF StatementsInv
  <2>7. CASE Destroy \/ SessionLost \/ ServerToggles
    BY <2>7, OtherKeepsStatements DEF Destroy, SessionLost, ServerToggles, SessionEnds, StatementsInv
  <2>8. CASE UNCHANGED pgVars
    BY <2>8, OtherKeepsStatements DEF pgVars, StatementsInv
  <2> QED
    BY <2>1, <2>2, <2>3, <2>4, <2>5, <2>6, <2>7, <2>8 DEF Next, Shows
<1> QED
  BY <1>1, <1>2, SessionHolds, PTL DEF Spec

\* A statement the client believes registered is prepared on the session in use,
\* and all three are after register_embedded_statements(), however many attempts
\* failed before (postgresqlclient.cpp:298-319).
THEOREM RegisteredIsPreparedHolds ==
  ASSUME PgConstants
  PROVE  Spec => []RegisteredIsPrepared
<1>1. StatementsInv => RegisteredIsPrepared
  BY DEF StatementsInv, RegisteredIsPrepared, Alive
<1> QED
  BY <1>1, StatementsHold, PTL

-----------------------------------------------------------------------------
(***************************************************************************)
(* The transaction                                                         *)
(***************************************************************************)

\* What a round trip is to the transaction: nothing, or the loss of its work.
LosesOrStutters ==
  /\ inTx' = inTx /\ durable' = durable
  /\ pending' = pending \/ pending' = {}

\* A round trip that is no statement of a transaction leaves or loses its work.
LEMMA RoundTripLoses ==
  ASSUME PgConstants, SessionInv, RoundTrip("other"), inTx' = inTx
  PROVE  LosesOrStutters
BY DEF SessionInv, RoundTrip, Succeeds, Executes, Errs, CheckThrows, ResetStart, Alive, SessionEnds,
       DurableAfter, LosesOrStutters, PgConstants

\* Which SqlTransaction allows at any time.
LEMMA LossIsAllowed ==
  ASSUME LosesOrStutters
  PROVE  [Transaction!Next]_<<inTx, pending, durable>>
BY DEF LosesOrStutters, Transaction!Next, Transaction!Lose

\* A statement that returns does what the transaction wants of it.
LEMMA ExecReturnsImplements ==
  ASSUME PgConstants, SessionInv, NEW q \in Statement, ExecReturns(q)
  PROVE  [Transaction!Next]_<<inTx, pending, durable>>
<1>1. CASE q = "BEGIN"
  BY <1>1 DEF ExecReturns, Succeeds, Executes, Alive, Accepted, DurableAfter, SessionInv, PgConstants,
              Transaction!Next, Transaction!Begin
<1>2. CASE q = "COMMIT"
  BY <1>2 DEF ExecReturns, Succeeds, Executes, Alive, DurableAfter, SessionInv,
              Transaction!Next, Transaction!Commit
<1>3. CASE q = "ROLLBACK"
  BY <1>3 DEF ExecReturns, Succeeds, Executes, Alive, DurableAfter, SessionInv, PgConstants,
              Transaction!Next, Transaction!Rollback
<1>4. CASE q = "other"
  BY <1>4 DEF ExecReturns, Succeeds, Executes, DurableAfter, SessionInv, PgConstants
<1>5. CASE q \in Writes
  <2>1. Transaction!Write(q)
    BY <1>5 DEF ExecReturns, Succeeds, Executes, Alive, Accepted, DurableAfter, SessionInv, PgConstants,
                Transaction!Write
  <2> QED
    BY <1>5, <2>1 DEF Transaction!Next
<1> QED
  BY <1>1, <1>2, <1>3, <1>4, <1>5 DEF Statement

\* A statement that throws: the work of the transaction is gone, and what it was
\* to do was done or not.
LEMMA ExecThrowsImplements ==
  ASSUME PgConstants, SessionInv, NEW q \in Statement, ExecThrows(q)
  PROVE  [Transaction!Next]_<<inTx, pending, durable>>
<1>1. /\ pending' = {}
      /\ durable' = durable \/ durable' = DurableAfter(q)
      /\ inTx' = (inTx /\ q \notin {"COMMIT", "ROLLBACK"})
      /\ q \notin pending \cup durable
  BY DEF ExecThrows, CheckThrows, ResetStart, Errs, Alive, SessionEnds, SessionInv
<1>2. CASE q = "COMMIT"
  BY <1>1, <1>2 DEF DurableAfter, SessionInv, Transaction!Next, Transaction!Commit
<1>3. CASE q = "ROLLBACK"
  BY <1>1, <1>3 DEF DurableAfter, SessionInv, PgConstants, Transaction!Next, Transaction!Rollback
<1>4. CASE q \in {"BEGIN", "other"}
  BY <1>1, <1>4, LossIsAllowed DEF DurableAfter, SessionInv, PgConstants, LosesOrStutters
<1>5. CASE q \in Writes
  <2>1. LosesOrStutters \/ Transaction!Write(q)
    BY <1>1, <1>5 DEF DurableAfter, SessionInv, PgConstants, LosesOrStutters, Transaction!Write
  <2> QED
    BY <1>5, <2>1, LossIsAllowed DEF Transaction!Next
<1> QED
  BY <1>2, <1>3, <1>4, <1>5 DEF Statement

\* begin(), commit() and rollback() of a PostgreSQLClient keep the promise of
\* SqlTransaction, for every set of statements and wherever the connection is lost
\* or a statement refused (postgresqlclient.cpp:205-231).
THEOREM TransactionIsAtomicHolds ==
  ASSUME PgConstants
  PROVE  Spec => TransactionIsAtomic
<1>1. Init => Transaction!Init
  BY DEF Init, Transaction!Init
<1>2. SessionInv /\ [Next]_pgVars => [Transaction!Next]_<<inTx, pending, durable>>
  <2> SUFFICES ASSUME SessionInv, [Next]_pgVars
               PROVE  [Transaction!Next]_<<inTx, pending, durable>>
    OBVIOUS
  <2>1. CASE \E q \in Statement : ExecReturns(q) \/ ExecThrows(q)
    BY <2>1, ExecReturnsImplements, ExecThrowsImplements
  <2>2. CASE \/ \E n \in Custom : Register(n)
             \/ Begins(Embedded) \/ Begins(Views)
             \/ RegisterEmbeddedStatements \/ AddAdminViews
             \/ ServerToggles
    BY <2>2, OtherCalls, RoundTripLoses, LossIsAllowed
  <2>3. CASE Shows
    <3>1. LosesOrStutters
      BY <2>3, ShowsLeave, RoundTripLoses DEF LosesOrStutters
    <3> QED
      BY <3>1, LossIsAllowed
  <2>4. CASE Destroy \/ SessionLost
    BY <2>4, LossIsAllowed DEF Destroy, SessionLost, SessionEnds, LosesOrStutters
  <2>5. CASE UNCHANGED pgVars
    BY <2>5 DEF pgVars
  <2> QED
    BY <2>1, <2>2, <2>3, <2>4, <2>5 DEF Next, Shows
<1> QED
  BY <1>1, <1>2, SessionHolds, PTL DEF Spec, TransactionIsAtomic, Transaction!Spec
=============================================================================
