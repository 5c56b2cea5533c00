------------------------------- MODULE Library -------------------------------
(***************************************************************************)
(* The clients of databases and the parts of the library that need no      *)
(* server, together.  They share nothing: subject is the one that works,   *)
(* and the others stay in a state of their own (a constructor that failed, *)
(* a server that is away).  The pure functions are applied to every input  *)
(* of the sets given.                                                      *)
(*                                                                         *)
(* PostgreSQLClient is extended, its variables and constants are those of  *)
(* this module; the other modules are instances.                           *)
(***************************************************************************)
EXTENDS PostgreSQLClient

CONSTANTS
  Subjects,                                    \* the parts explored
  Keys, Fields, Interval, ErrorReplies,        \* of RedisClient
  MaxClock, MaxForeign, MaxLosses,
  Consoles, Words, MaxLines, NoConsole,        \* of Console
  StringProps, NumberProps, Values, MaxSets,   \* of Message
  Threads, Waits, Now, MaxPosts,               \* of Semaphore
  Secrets, Algorithms,                         \* of JsonWebToken
  ByteStrings, Texts, JsonValues               \* inputs

VARIABLES
  subject, input,
  context, lastFailed, clock, up, linked, store, call, at, returned, found, touched, foreign,
  losses,
  m_conn, m_result, place, query, myInTx, sessions, transaction, myPending, myDurable,
  myListening, myFaults,
  pc, stopping, g_console_thread, m_completions, text, list_index, asked, before,
  offered, typed, enqueued, failed,
  stage, flags, props, blocks, wire, got_flags, got, got_blocks, sets, channel, result,
  value, posts, waiting, until, due, passed,
  jwt, set, dashes, token, answer, secret, read

Redis == INSTANCE RedisClient WITH result <- returned, before <- found

MySQL == INSTANCE MySQLClient WITH
  inTx <- myInTx, pending <- myPending, durable <- myDurable, listening <- myListening,
  faults <- myFaults

Console == INSTANCE Console
Message == INSTANCE Message
Semaphore == INSTANCE Semaphore
JsonWebToken == INSTANCE JsonWebToken WITH text <- token, status <- answer
Base64 == INSTANCE Base64

\* What is assumed of the constants.
ASSUME LibraryAssumption ==
  /\ Redis!RedisClientConstants /\ JsonWebToken!TokenConstants
  /\ Console!ConsoleConstants /\ Message!MessageConstants /\ Semaphore!SemaphoreConstants
  /\ ByteStrings \subseteq Seq(Base64!Bytes)

redisV == <<context, lastFailed, clock, up, linked, store, call, at, returned, found,
            touched, foreign, losses>>
mysqlV == <<m_conn, m_result, place, query, myInTx, sessions, transaction, myPending,
            myDurable, myListening, myFaults>>
consoleV == <<pc, stopping, g_console_thread, m_completions, text, list_index, asked,
              before, offered, typed, enqueued, failed>>
messageV == <<stage, flags, props, blocks, wire, got_flags, got, got_blocks, sets,
              channel, result>>
semaphoreV == <<value, posts, waiting, until, due, passed>>
tokenV == <<jwt, set, dashes, token, answer, secret, read>>
toolV == <<consoleV, messageV, semaphoreV, tokenV>>
vars == <<subject, input, redisV, mysqlV, pgVars, toolV>>

-----------------------------------------------------------------------------
LibraryInit ==
  /\ subject \in Subjects
  /\ input \in (CASE subject = "text" -> Texts
                  [] subject = "bytes" -> ByteStrings
                  [] subject = "json" -> JsonValues
                  [] OTHER -> {<<>>})
  /\ Redis!Init
  /\ subject # "redis" =>
       ~up /\ store = [k \in Keys |-> Redis!Absent] /\ call.field = (CHOOSE f \in Fields : TRUE)
  /\ MySQL!Init
  /\ subject # "mysql" => m_conn = "null"
  /\ Init
  /\ subject # "postgresql" => status = "null" /\ ~listening
  /\ Console!Init /\ Message!Init /\ Semaphore!Init /\ JsonWebToken!Init
  /\ subject # "token" =>
       /\ jwt = [alg |-> (CHOOSE a \in Algorithms : TRUE), payload |-> {}, secret |-> secret]
       /\ secret = (CHOOSE s \in Secrets : TRUE)
       /\ dashes = [payload |-> FALSE, signature |-> FALSE]

Tools ==
  \/ subject = "console" /\ Console!Next /\ UNCHANGED <<messageV, semaphoreV, tokenV>>
  \/ subject = "message" /\ Message!Next /\ UNCHANGED <<consoleV, semaphoreV, tokenV>>
  \/ subject = "semaphore" /\ Semaphore!Next /\ UNCHANGED <<consoleV, messageV, tokenV>>
  \/ subject = "token" /\ JsonWebToken!Next /\ UNCHANGED <<consoleV, messageV, semaphoreV>>

LibraryNext ==
  /\ UNCHANGED <<subject, input>>
  /\ \/ subject = "redis" /\ Redis!Next /\ UNCHANGED <<mysqlV, pgVars, toolV>>
     \/ subject = "mysql" /\ MySQL!Next /\ UNCHANGED <<redisV, pgVars, toolV>>
     \/ subject = "postgresql" /\ Next /\ UNCHANGED <<redisV, mysqlV, toolV>>
     \/ Tools /\ UNCHANGED <<redisV, mysqlV, pgVars>>

LibrarySpec == LibraryInit /\ [][LibraryNext]_vars

-----------------------------------------------------------------------------
\* The properties of the modules, each evaluated where its module is the one
\* explored; those of PostgreSQLClient come with it.
TypesOK ==
  /\ Redis!TypeOK /\ MySQL!TypeOK /\ TypeOK
  /\ Console!TypeOK /\ Message!TypeOK /\ Semaphore!TypeOK /\ JsonWebToken!TypeOK

\* A call of RedisClient that returned true did what it was asked.
TrueMeansDone == subject = "redis" => Redis!TrueMeansDone

\* Reconnecting closes the handle of no MySQL result under its reader, and leaves no
\* session behind at the server.
NoneDanglesOrLeaks ==
  subject = "mysql" => MySQL!ResultNeverDangles /\ MySQL!NoSessionLeaks

\* Refuted: what is written in a MySQL transaction waits for its end.
TransactionHolds == MySQL!TransactionHolds

\* A completion that fits is offered once at a tab.
CompletionsOnce == subject = "console" => Console!CompletionsOnce

\* The consumer reads the properties the publisher set, and nothing is freed twice.
SameForTheConsumer ==
  subject = "message" => Message!SameForTheConsumer /\ Message!FreedOnce

\* The deadline of a timed wait is exact.
DeadlineIsExact == subject = "semaphore" => Semaphore!DeadlineIsExact

\* What one side writes the other reads, as far as each format goes: the tokens, and
\* of every input base64 (base64.cpp:36, 93).
WrittenIsRead ==
  /\ subject = "token" => JsonWebToken!ReadIsWritten
  /\ subject = "bytes" => Base64!DecodedIsEncoded(input)

\* The other properties of the modules, BrokenForGood and HsetKeepsHash true, the
\* rest refuted (HsetKeepsHash too when the server may reply with errors).
BrokenForGood == Redis!BrokenForGood
HsetKeepsHash == subject = "redis" => Redis!HsetKeepsHash
DescribeReturns == subject = "mysql" => MySQL!DescribeReturns
GeneratorHasConsole == subject = "console" => Console!GeneratorHasConsole
NoBlockLost == subject = "message" => Message!NoBlockLost
NeverCrashes ==
  /\ subject = "redis" => Redis!NeverCrashes
  /\ subject = "message" => Message!NeverCrashes
WrittenIsAccepted == subject = "token" => JsonWebToken!WrittenIsAccepted
UrlDecodedIsEncoded == subject = "bytes" => Base64!UrlDecodedIsEncoded(input)
=============================================================================
