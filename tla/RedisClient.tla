----------------------------- MODULE RedisClient -----------------------------
(***************************************************************************)
(* One RedisClient, the server, and the other clients of that server.      *)
(*                                                                         *)
(* A method is one to four commands, each a round trip of hiredis: the     *)
(* server may execute a command whose answer is lost.  hiredis marks the   *)
(* context with an error then, and answers every later command with a null *)
(* pointer.  Between two commands of a method other clients write and keys *)
(* expire.  The contents of values are left out; a key is absent, a string *)
(* or a hash with fields, with or without a time to live.                  *)
(***************************************************************************)
EXTENDS Naturals

CONSTANTS
  Keys, Fields,
  Interval,      \* m_circuit_breaker_interval
  ErrorReplies,  \* may the server refuse a command for a while (loading, busy)?
  MaxClock, MaxForeign, MaxLosses  \* bounds: time, writes of others, lost links

\* What is assumed of the constants.
RedisClientConstants ==
  /\ Interval \in Nat /\ MaxClock \in Nat /\ Interval <= MaxClock
  /\ MaxForeign \in Nat /\ MaxLosses \in Nat
  /\ ErrorReplies \in BOOLEAN

VARIABLES
  context,      \* m_context: null, ok, or err once an I/O error was met
  lastFailed,   \* m_last_failed_connection
  clock,        \* time(nullptr)
  up, linked,   \* the server listens; the connection of the context is alive
  store,        \* what the server holds
  call,         \* the call in progress, or the last one
  at,           \* where it is: the next command, idle, destroyed, or crashed
  result,       \* what the last call returned
  before,       \* the value of the call's key when the call began
  touched,      \* did others change the key since?
  foreign, losses

redisVars == <<context, lastFailed, clock, up, linked, store, call, at, result,
               before, touched, foreign, losses>>

Absent == [type |-> "none", fields |-> {}, expires |-> FALSE]
Value ==
  {Absent}
    \cup [type: {"string"}, fields: {{}}, expires: BOOLEAN]
    \cup [type: {"hash"}, fields: (SUBSET Fields) \ {{}}, expires: BOOLEAN]

\* The first command of each method.
First == [type |-> "TYPE", get |-> "GET", set |-> "SET", del |-> "DEL",
          expire |-> "EXPIRE", hset |-> "TYPE", hdel |-> "HDEL",
          hget |-> "HGET", hkeys |-> "HKEYS"]
Op == DOMAIN First
Command == {First[o] : o \in Op} \cup {"HSET"}
Call == {c \in [op: Op, key: Keys, field: Fields, expire: BOOLEAN] :
           c.expire => c.op \in {"set", "hset"}}

TypeOK ==
  /\ context \in {"null", "ok", "err"}
  /\ clock \in Interval..MaxClock /\ lastFailed \in 0..MaxClock
  /\ up \in BOOLEAN /\ linked \in BOOLEAN /\ touched \in BOOLEAN
  /\ store \in [Keys -> Value] /\ before \in Value
  /\ call \in Call
  /\ at \in Command \cup {"idle", "destroyed", "crashed"}
  /\ result \in {"none", "true", "false"}
  /\ foreign \in 0..MaxForeign /\ losses \in 0..MaxLosses

-----------------------------------------------------------------------------
(***************************************************************************)
(* The server                                                              *)
(***************************************************************************)

\* The value of a key after command c on field f.
After(c, v, f) ==
  CASE c = "SET" -> [type |-> "string", fields |-> {}, expires |-> FALSE]
    [] c = "DEL" -> Absent
    [] c = "EXPIRE" /\ v # Absent -> [v EXCEPT !.expires = TRUE]
    [] c = "HSET" /\ v.type # "string" ->
         [v EXCEPT !.type = "hash", !.fields = @ \cup {f}]
    [] c = "HDEL" /\ v.type = "hash" ->
         IF v.fields \subseteq {f} THEN Absent ELSE [v EXCEPT !.fields = @ \ {f}]
    [] OTHER -> v

\* The kind of its reply.
Reply(c, v, f) ==
  CASE c \in {"TYPE", "SET"} -> "status"
    [] c \in {"DEL", "EXPIRE"} -> "integer"
    [] c \in {"HSET", "HDEL", "HGET", "HKEYS"} /\ v.type = "string" -> "error"
    [] c = "GET" /\ v.type = "hash" -> "error"
    [] c \in {"HSET", "HDEL"} /\ v.type # "string" -> "integer"
    [] c = "HKEYS" /\ v.type # "string" -> "array"
    [] c = "GET" /\ v = Absent -> "nil"
    [] c = "HGET" /\ v.type # "string" /\ f \notin v.fields -> "nil"
    [] OTHER -> "string"

-----------------------------------------------------------------------------
(***************************************************************************)
(* The client                                                              *)
(***************************************************************************)

Returns(r) == at' = "idle" /\ result' = r

\* A method begins.  Every command it makes tests the context again, in vain:
\* nothing sets it back to null.
Enter(c) ==
  /\ at = "idle"
  /\ call' = c /\ before' = store[c.key] /\ touched' = FALSE

Disconnected == context = "null"

CallConnected(c) ==
  /\ Enter(c) /\ ~Disconnected
  /\ at' = First[c.op] /\ result' = "none"
  /\ UNCHANGED <<context, lastFailed, linked>>

BreakerOpen == clock - lastFailed < Interval

\* connect() gives up at once: the last failure is too recent.
CallBlocked(c) ==
  /\ Enter(c) /\ Disconnected /\ BreakerOpen
  /\ Returns("false")
  /\ UNCHANGED <<context, lastFailed, linked>>

CallRefused(c) ==
  /\ Enter(c) /\ Disconnected /\ ~BreakerOpen /\ ~up
  /\ context' = "null" /\ linked' = FALSE
  /\ lastFailed' = clock /\ Returns("false")

CallConnects(c) ==
  /\ Enter(c) /\ Disconnected /\ ~BreakerOpen /\ up
  /\ context' = "ok" /\ linked' = TRUE
  /\ at' = First[c.op] /\ result' = "none"
  /\ UNCHANGED lastFailed

\* redisConnect() returns no context, for want of memory, and connect() goes on with
\* redisEnableKeepAlive(), which reads it.
CallCrashes(c) ==
  /\ Enter(c) /\ Disconnected /\ ~BreakerOpen
  /\ context' = "null" /\ linked' = FALSE /\ lastFailed' = clock
  /\ at' = "crashed" /\ result' = "none"

StartCall(c) ==
  /\ \/ CallConnected(c) \/ CallBlocked(c) \/ CallRefused(c) \/ CallConnects(c)
     \/ CallCrashes(c)
  /\ UNCHANGED <<clock, up, store, foreign, losses>>

\* A mutant: the handler of null replies is left out.
Fails_Ignored(reply) == FALSE

Fails(reply) == reply = "null"

RightType(seen) == seen \in {"hash", "none"}

\* The replies that the switch of a reading method refuses.  An error is not
\* among them.
Accepts(c, reply) == ~(c \in {"GET", "HGET"} /\ reply = "nil")

\* Where the method goes after the reply to command c; seen is the text that
\* TYPE answered: a type, the text of an error, or nothing.
Goes(c, reply, seen) ==
  \/ /\ call.op = "hset" /\ c = "TYPE"
     /\ at' = (IF RightType(seen) THEN "HSET" ELSE "DEL") /\ result' = "none"
  \/ /\ call.op = "hset" /\ c = "DEL"
     /\ at' = "HSET" /\ result' = "none"
  \/ /\ ~(call.op = "hset" /\ c \in {"TYPE", "DEL"})
     /\ \/ Fails(reply) /\ Returns("false")
        \/ /\ ~Fails(reply) /\ c \in {"SET", "HSET"} /\ call.expire
           /\ at' = "EXPIRE" /\ result' = "none"
        \/ /\ ~Fails(reply) /\ ~(c \in {"SET", "HSET"} /\ call.expire)
           /\ Returns(IF Accepts(c, reply) THEN "true" ELSE "false")

Executes(c) == store' = [store EXCEPT ![call.key] = After(c, @, call.field)]

\* The server executes a command and its reply is read.
Answered ==
  /\ at \in Command /\ context = "ok" /\ linked
  /\ Executes(at)
  /\ Goes(at, Reply(at, store[call.key], call.field), store[call.key].type)
  /\ UNCHANGED <<context, linked, losses>>

\* The server refuses a command whatever the key holds.
RefusedForNow ==
  /\ at \in Command /\ context = "ok" /\ linked /\ ErrorReplies
  /\ Goes(at, "error", "error text")
  /\ UNCHANGED <<context, linked, losses, store>>

\* No reply: the context is in error already, the connection is dead, or it
\* dies now, before or after the server executed the command.
Unanswered ==
  /\ at \in Command
  /\ \/ /\ context = "err" \/ ~linked
        /\ UNCHANGED <<store, losses>>
     \/ /\ context = "ok" /\ linked /\ losses < MaxLosses
        /\ losses' = losses + 1
        /\ UNCHANGED store \/ Executes(at)
  /\ context' = "err" /\ linked' = FALSE
  /\ Goes(at, "null", "")

CommandStep ==
  /\ Answered \/ RefusedForNow \/ Unanswered
  /\ UNCHANGED <<lastFailed, clock, up, call, before, touched, foreign>>

\* ~RedisClient()
Destroy ==
  /\ at = "idle"
  /\ at' = "destroyed" /\ context' = "null" /\ linked' = FALSE
  /\ UNCHANGED <<lastFailed, clock, up, store, call, result, before, touched,
                 foreign, losses>>

-----------------------------------------------------------------------------
(***************************************************************************)
(* The environment                                                         *)
(***************************************************************************)

Changes(k, v) ==
  /\ store' = [store EXCEPT ![k] = v]
  /\ touched' = (touched \/ k = call.key)

OthersWrite(k) ==
  /\ foreign < MaxForeign /\ foreign' = foreign + 1
  /\ \E v \in Value \ {store[k]} : Changes(k, v)
  /\ UNCHANGED <<context, lastFailed, clock, up, linked, call, at, result, before,
                 losses>>

KeyExpires(k) ==
  /\ store[k].expires /\ Changes(k, Absent)
  /\ UNCHANGED <<context, lastFailed, clock, up, linked, call, at, result, before,
                 foreign, losses>>

LinkLost ==
  /\ linked /\ losses < MaxLosses
  /\ linked' = FALSE /\ losses' = losses + 1
  /\ UNCHANGED <<context, lastFailed, clock, up, store, call, at, result, before,
                 touched, foreign>>

ServerStops ==
  /\ up /\ up' = FALSE /\ linked' = FALSE
  /\ UNCHANGED <<context, lastFailed, clock, store, call, at, result, before,
                 touched, foreign, losses>>

ServerStarts ==
  /\ ~up /\ up' = TRUE
  /\ UNCHANGED <<context, lastFailed, clock, linked, store, call, at, result,
                 before, touched, foreign, losses>>

Tick ==
  /\ clock < MaxClock /\ clock' = clock + 1
  /\ UNCHANGED <<context, lastFailed, up, linked, store, call, at, result, before,
                 touched, foreign, losses>>

Environment ==
  \/ \E k \in Keys : OthersWrite(k) \/ KeyExpires(k)
  \/ LinkLost \/ ServerStops \/ ServerStarts \/ Tick

\* The constructor tries to connect once; one that crashes leaves no client.  The
\* clock counts from the epoch, so that no breaker is open before the first failure.
Init ==
  /\ up \in BOOLEAN /\ linked = up
  /\ context = (IF up THEN "ok" ELSE "null")
  /\ clock = Interval
  /\ lastFailed = (IF up THEN 0 ELSE clock)
  /\ store \in [Keys -> Value]
  /\ call \in [op: {"get"}, key: Keys, field: Fields, expire: {FALSE}]
  /\ at = "idle" /\ result = "none"
  /\ before = store[call.key] /\ touched = FALSE
  /\ foreign = 0 /\ losses = 0

Next ==
  \/ \E c \in Call : StartCall(c)
  \/ CommandStep
  \/ Destroy
  \/ Environment

Spec == Init /\ [][Next]_redisVars

-----------------------------------------------------------------------------
(***************************************************************************)
(* Properties                                                              *)
(***************************************************************************)

\* A call that returned true did what it was asked, unless another client or
\* the clock changed the key meanwhile: every command of it was answered, and
\* the time to live asked for is set.
TrueMeansDone ==
  result = "true" /\ ~touched =>
    LET v == store[call.key] IN
    CASE call.op = "set" -> v.type = "string" /\ v.expires = call.expire
      [] call.op = "hset" -> call.field \in v.fields /\ (call.expire => v.expires)
      [] call.op = "del" -> v = Absent
      [] call.op = "hdel" -> call.field \notin v.fields
      [] call.op = "expire" -> v = Absent \/ v.expires
      [] OTHER -> v = before

\* hset() on a hash adds a field and loses none, wherever its commands fail:
\* the deletion of a key of the wrong type (redisclient.cpp:177) hits no other.
HsetKeepsHash ==
  call.op = "hset" /\ before.type = "hash" /\ ~touched =>
    before.fields \subseteq store[call.key].fields

\* Refuted: a client whose connect() gets no context gives up, as with one in error
\* (redisclient.cpp:60-74).
NeverCrashes == at # "crashed"

\* A client that met an I/O error never recovers: the context in error is not
\* null, so REDIS_CONNECT takes it for connected (redisclient.cpp:79), and no
\* call succeeds from then on, although the server is there.
BrokenForGood ==
  [][context = "err" /\ at' # "destroyed" =>
       context' = "err" /\ (result' = "true" => result = "true")]_redisVars
=============================================================================
