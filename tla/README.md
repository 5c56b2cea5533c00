# WinterWind in TLA+

WinterWind is a C++ library of independent parts: threads and queues, clients
of servers (AMQP, Redis, MySQL, PostgreSQL, HTTP and a dozen of web services
over it), an HTTP server, a Lua engine with bindings, and small utilities.
This directory holds TLA+ models of its stateful parts, the TLC configurations
that check them on small instances, and proofs, checked by TLAPS, of the
properties that matter most for every instance.

`PROJECT.json` lists the components, the runs, the mutants that show that each
property can fail, the source lines every definition stands for, the
disagreements found and the hazards of the code. To repeat a result, in this
directory:

    tlc -workers 2 -config MCThread_any.cfg MCThread     # a run
    tlapm ThreadProofs.tla                               # the proofs

## 1. Inventory

What each part keeps, does and may get wrong. (M) modelled, (P) modelled in
part, (-) left out, see section 7.

| Part | State | Operations | Interacts with | Hard behaviours | Correct when |
|---|---|---|---|---|---|
| `Thread` (M) | `m_thread`, `started`, `m_running`, `m_request_stop`, two mutexes | `start`, `stop`, `wait`, `stop_and_wait`, `kill`, destructor, `the_thread`, `ThreadStarted` | the pthread runs `run()` of a subclass | the handshake of `start()` with a `run()` that may end at once; cancellation; restart | the flags tell the truth, no joinable thread is dropped, every call returns |
| `ThreadPool`, `ThreadPoolWorkQueue`, `ThreadSafeQueue` (P) | a vector of threads, an input and an output queue with a mutex each | `start_threads`, `stop_threads`, `kill_threads`, push, pop, `empty` | providers, readers, workers, one owner | check-then-pop by several workers, kill, destruction order | nothing lost or doubled, joins are real, no use after destruction |
| `amqp::Connection`, `Channel` (P) | `m_channels`, `m_next_channel_id`, `m_stop`; per channel `m_id`, `m_valid`, consumer callbacks, weak pointer to the connection | create and destroy channels, every AMQP request, publish, subscribe, `consume_one`, `start_consuming`, `stop` | broker, callbacks of the client | channel ids, frames in flight for a channel that is closed, refused requests, lost links | objects, map and broker agree; envelopes reach who subscribed; consuming ends |
| `amqp::InOutExchange` (P) | connection, channel, command queue, response queue and its mutex | `run`, `connect_to_rabbitmq`, `get_valid_exchange`, `push_response` | pushers, broker, owner of the thread | a fault between any two requests, retries, `try_lock`, stale weak pointers | subscribes again, keeps the responses and their order, never dereferences null |
| `amqp::Queue`, `Exchange`, `Envelope`, `Message` (M) | weak pointer to a channel; the properties of a message, their flags, the memory of the strings | forward to the channel; setters, getters, the copy of an envelope's message | `Channel` | the channel is gone; a property set twice, to nothing or never | the consumer reads what the publisher set |
| `Semaphore` (M) | a POSIX semaphore | `post`, `wait`, timed `wait` | threads | the arithmetic of the deadline, EINTR | a timed wait ends when it should |
| `RedisClient` (M) | `m_context`, the time of the last failure | one method per command | server, other clients | circuit breaker, errors of hiredis, no context at all, check-then-act of `hset` | a call that returns true did what it was asked |
| `MySQLClient` (M) | the handle, its result, the check-before-exec flag | `exec`, transactions, the description of tables | server | the connection check inside a transaction | a transaction lives on one connection, a result on its handle |
| `PostgreSQLClient` (M) | the connection, `m_statements` | `exec`, `exec_prepared`, transactions, calls of several statements | server | reset of the connection, what is prepared after it | what is registered is prepared; a transaction is atomic |
| `http::Server` (M) | handlers per method and URL, a session per request | `request_handler`, called by libmicrohttpd once with the headers and once per piece of the body | its daemon's thread, handlers | a body in pieces, connections that are aborted | a handler runs once per request, its session is freed |
| `HTTPClient` (M) | headers and parameters of the next request, the last code | requests, JSON calls | curl | headers that are kept when a query asks for it, all else cleared, also after a failure | a request carries what its caller meant for it and nothing older |
| `ElasticsearchClient` (M) | `m_nodes`, the bulk queue, the shards of an index | discovery, documents, bulk, the index | HTTP, other clients | nodes that are gone or were never listed, actions popped before they are sent | a bulk action is carried out at most once, and in order but for requests that were given up; a call of the index that was answered is true only of what is so |
| `SlackClient` (M) | groups by id and by name, callbacks, message id, failures in a row | `run`, callbacks, messages | network, `Thread` | retries that race `stop()`, the look-up of a group, callbacks registered meanwhile | a client that was stopped makes no further connection |
| `IRCClient` (M) | the session of libircclient | make, connect, run, destroy, one method per command | network | a session destroyed or made twice | a result says what happened (refuted, section 6) |
| `ConsoleThread` (M) | completions, the global console, the static index of the generator | `run`, `add_completion`, the generator | readline, `Thread` | completions added between two calls of the generator | each fitting completion is offered once |
| `GitlabAPIClient` (M) | the code of the last request | find the project, find the object, change it | HTTP, other clients | flows of several requests, each of which may fail | OK means done; nothing but the named is touched |
| `JiraClient` and its Lua binding (M) | the code of the last request | one request each, two for `assign_issue` | HTTP, Lua | what of the result reaches the caller | the code tells what happened |
| JWT and base64 (M) | claims and which of them are set | encode, decode, sign, verify | - | two alphabets, groups of one and two bytes, texts that were changed | what is written is read, the status tells what is wrong with the rest |
| `LuaHelper` (M) | a Lua stack | JSON and vectors to Lua and back | Lua | depth, slots of the stack, nulls | what is written is read |
| String helpers (M) | - | split, count, trim, remove, replace, parse a form | - | edges of the text | counted as split, removed is gone |
| `OAuthClient`, Twitter, RATP, OpenWeatherMap, CalDAV, names, Lua engine, other bindings, XML, logger, time, HMAC, UUID (-) | none of their own | one request or library call each | - | - | - |

The parts meet in few places. `InOutExchange`, `SlackClient`, `ConsoleThread`
and the pool's workers are subclasses of `Thread`: the pool's model rests on
the life of a thread that `Thread` implements, the others on what is proved of
`start()` and `stop()`. `InOutExchange` is over `Connection` and `Channel`,
whose answers to a failed request its model takes over. The clients of web
services are over `HTTPClient`; what a request returns to them, and that it may
be carried out without an answer or after the call has returned, is what
`HttpExchange` shows and `AtMostOnce` says. Apart from these calls the library
shares no state between parts.

## 2. Modules

| Module | What it is |
|---|---|
| `ThreadLife` | the abstract specification of a `Thread`: absent, starting, running, ended |
| `Thread` | class `Thread`, between two accesses to shared state a step; implements `ThreadLife` |
| `WorkQueue` | pool, both queues, workers, providers, readers and one owner; each worker is a `ThreadLife` |
| `Connection` | one AMQP connection, its channels, the client's thread, the broker |
| `InOutExchange` | the in/out thread over a connection, its pushers and owner, the broker |
| `RedisClient` | one client, the server, other clients |
| `MySQLClient` | one client, its caller, the server |
| `SqlTransaction` | the abstract specification of `begin()`, `commit()` and `rollback()` |
| `PostgreSQLClient` | one client, its caller, the server; implements `SqlTransaction` |
| `AtMostOnce` | the abstract specification of a call over a network |
| `HttpExchange` | an `HTTPClient` and an `http::Server`; implements `AtMostOnce` |
| `GitLab`, `Jira`, `Elasticsearch`, `Slack`, `Irc` | a client of each service, the service, and others who change it |
| `Console` | consoles, their completions and readline |
| `Message`, `Semaphore`, `JsonWebToken` | a message, a semaphore, a token, from the one side to the other |
| `Base64`, `LuaJson`, `Text` | pure functions |
| `Library` | the database clients and the parts that need no server, together |
| `Services` | the HTTP client and server and the clients of services but GitLab, together |
| `*Proofs` | theorems about the module of that name, and for `Library` and `Services` about each of their parts |
| `MC*` | the modules with the values TLC needs; the `.cfg` files give the bounds |

`Library` and `Services` each hold several parts that share nothing. A
variable `subject` is the part explored: `Next` takes a step of this one, and
the initial states of the others are reduced to one, so that a run explores
the sum of the parts and not their product. One module is extended by each,
the others are instances.

### Thread

`pc`, `call` and `result` are where the owner is; `worker` and `cancelled`
where the pthread is; the other variables are the members of the class, and
`continuemutex`, `continuemutex2` name who holds them. One client thread makes
the owner's calls, because `m_thread` is a plain `unique_ptr` that only a
single thread may touch; `stop()` may come from anybody. `start()` is split at
every access to something the pthread reads or writes (`StartReset`,
`StartLock`, `Create`, `SpinDone`, `StartUnlock`, `StartLock2`, `StartDone`),
and `the_thread()` likewise (`WorkerLock2` to `WorkerLeaves`). The kinds of
`run()` are constants: whether it may return without being asked, and whether
it has a cancellation point. So are the owner's discipline (`JoinsFirst`) and
whether the constructor of `std::thread` may throw.

### WorkQueue

A worker is the loop of the unit test (`src/unittests/test_threads.cpp:59-75`),
the only user of the pool in the repository: it looks at the input queue, pops
in a second critical section, pushes the answer, and sleeps when the queue is
empty. The owner's calls loop over the workers, one `Thread` call at a time
(`turn`), and `asked` remembers what it asked of all of them last. The mutexes
of `ThreadSafeQueue` are never held across a step that blocks, so each queue
operation is one action. Destruction follows the order of C++: the queues,
which are members of the derived class, go before `~ThreadPool()` stops the
workers.

### Connection

Channel objects are numbered in the order they are made; `m_channels`, `m_id`,
`m_valid`, `callbacks` are the code's maps and members, `held` the objects the
client still has a pointer to. The broker's end is `link`, `opened`,
`consumers` and `unacked`, and `wire` is the sequence of frames the client has
not read. The client calls between two steps of `consume_one()` and from inside
a callback. Requests come in the two families of the code: those that leave
`m_valid` alone when they fail (`Declare`) and those that invalidate the
channel (`Bind`, `BasicConsume`). The broker and librabbitmq are external: a
refused request closes its channel, a request on a closed channel costs the
connection, and a failed request on a dead connection changes nothing more.
Opening and logging in (one constructor that throws) is the initial state.

### InOutExchange

`pc` is the place in `run()` or in `connect_to_rabbitmq()`, whose steps are one
request each, and `caller` tells which of its three callers goes on after it:
the constructor, `verify_rabbitmq_connection()` or `get_valid_exchange()`.
`m_rabbitmq_channel` is null, valid or invalid, and `m_command_queue` null,
of the current channel, or of one that is destroyed, which is what its weak
pointer can tell apart. What a request does to the channel, the connection and
the broker is what module `Connection` has: a failed declaration leaves the
channel valid, a failed binding or subscription invalidates it,
`consume_one()` is true of a dead connection, and publishing cannot fail
visibly. Faults (the broker goes, the link dies, a channel is closed, the queue
is deleted, a request is refused) may come between any two steps, up to
`MaxFaults`.

### RedisClient

A method is one to four commands and `at` is the next of them; each is one
round trip, answered (`Answered`), refused (`RefusedForNow`) or without an
answer (`Unanswered`), and a command without an answer may have been executed.
`context` is null, in order, or in error: hiredis marks a context with the
first I/O error and answers every later command with a null pointer. Between
the commands of a method other clients write and keys expire. `touched` is a
history variable: did others change the key since the call began? When hiredis
has no memory for a context, `connect()` uses the null pointer, and `CallCrashes`
ends the client.

### MySQLClient and PostgreSQLClient

The server's end of both is the session of the client, what was written in its
open transaction (`pending`) and what is there to stay (`durable`). `inTx` is
what the caller believes: `begin()` returned, and it called neither `commit()`
nor `rollback()`. In `MySQLClient` a call is `check_connection()` with its
steps and the query (`place`), in `PostgreSQLClient` a statement is one round
trip and `todo` is what is left of a call of several. A caller of MySQL may
keep a result with unread rows, which points into the handle. libpq and
libmysqlclient are external: what their functions answer depends on the
session and on faults, that may come before the server executes a statement or
after it. `PQresetStart()` begins a connection that only `PQresetPoll()` would
complete, so that `status` becomes `started` and stays. `SqlTransaction` has
the view of a caller, and `PostgreSQLClient` implements it with a mapping
(`Transaction == INSTANCE SqlTransaction WITH ...`) in which a connection that
is not established has no work in progress. `MySQLClient` does not (section 6).

### HttpExchange

The client's end keeps headers, URI and form parameters; `Perform` is a request
with all of `request()` up to `curl_easy_perform()`, the other end of which is
`Receives` or `Fails`. `added` is what the caller meant for the next request: it
follows the calls and the flag of the query that keeps headers, and never looks
at the members of the client.
The server's end is one session per request: `FirstCall` with the headers, then
one call for each piece of the body, and `handle_query()` when
`data_handled` says so. Connections interleave, and an aborted one only loses
its client: `request_completed()` is empty. There are handlers of
GET and of POST. What may be sent in pieces, and
what a handler answers, are small sets. `AtMostOnce` is what a caller may rely
on; of the exchange it sees the requests that may still come to their handler
(`Pending`), how often each did, and whether the last call says that its own was
served (`Outcome`).

### GitLab, Jira, Elasticsearch, Slack, Irc

A call of `GitLab` is `FindProject`, `Find` and `Act`, with the flow that each
kind of object and operation takes (`call`, `pc`, `found`); `Searches` gives
what a search lists, which is more than the name asked for. Other clients make,
rename and delete between two requests; each request may be refused, or lost
before or after it was carried out. `changed` is what the call changed, and
`holder` the project of a call as `get_project_ns()` found it. A name or a title
that is empty is refused where the code looks at it (`Incomplete`). `Jira` has one issue, and `lua` what the binding leaves on the Lua stack after a
call. `Elasticsearch` numbers the bulk actions in the order they are added, so
that `executed` shows order and repetition; a bulk request whose call ended
without an answer may be carried out later (`overdue`, `LateBulk`), behind
others. A cluster may list no node, and a request when none was ever listed reads
the head of an empty vector (`NoNode`). In `Slack` the owner and the thread
of `run()` number messages with a counter without a lock, in two steps
(`SendRead`, `SendCount`); `late` counts the connections made after `stop()`, and
`ChannelIdByName` is the look-up of a group, which searches for the literal
"name". In `Irc` a pointer that is not null may belong to a
session that is destroyed.

### Console, Message, Semaphore, JsonWebToken

Two consoles share readline's generator, whose `text`, `list_index` and
console are statics; `asked`, `before` and `offered` compare what a tab offered
with what there was. `Message` follows the properties from the setters over the
wire to the getters, with the `flags` that say which are set and the `blocks`
of memory that are owned. `Semaphore` has the deadline of `sem_timedwait()` in
seconds and nanoseconds beside the time it is due. `JsonWebToken` keeps of a
text what it encodes and whether the digits 62 and 63 occur in it, which is
what decides whether it can be decoded; `Garble` takes a part of it, or gives it
a header that names no known algorithm.

### Base64, LuaJson, Text

Functions without a state, written as functions on sequences of bytes,
characters and JSON values, and compared with what the reader expects of
them: that decoding inverts encoding, that the slots reserved on the Lua stack
are enough, that words are counted as they are split.

## 3. Runs

Twelve runs are kept, one for each question. The bounds are the smallest that
let the interleavings of the question happen; the theorems of section 5 cover
all the others for the properties that are proved.

| Run | Bounds | What it shows |
|---|---|---|
| `thread_any` | one object, unlimited calls | handshake and flags for the most permissive owner, `run()` and environment |
| `thread_loop` | an owner that joins, a `run()` that loops until asked | no `std::terminate()`, refinement of `ThreadLife`, all calls return |
| `workqueue_any_owner` | 2 workers, 3 inputs, 1 reader, any owner | joins are real, every input in exactly one place, also under kill and restart |
| `workqueue_single` | 1 worker, an owner that joins | order, no use after destruction, every input answered, every call returns |
| `connection_client` | 2 channel objects, ids modulo 3, 2 deliveries | validity, routing, leaks of channels, and `stop()` ends `start_consuming()` |
| `connection_dead` | 1 channel | violated: `start_consuming()` spins on a dead connection |
| `inout_run` | 2 pushers, 3 responses, 3 faults | order of the responses, the queue belongs to the channel, subscription, reconnection, no starvation |
| `inout_crash` | 1 fault | violated: a null pointer is used |
| `library` | each of ten parts alone: 1 key with 2 fields, 2 writes and 2 faults for the SQL clients, 2 consoles, 2 threads at the semaphore, 2 secrets and algorithms; texts of up to 6 characters, up to 4 bytes, JSON of up to 4 levels | what the database clients report was done; sessions, results, statements and transactions; completions; what one side writes the other reads |
| `mysql_transaction` | 2 faults | violated: what is written after `begin()` is durable at once |
| `services` | each of five parts alone: 2 requests to handlers of GET and POST, 2 nodes and bulk actions, 2 groups and one change of them | a request carries what was meant, handlers are called once, client and server implement `AtMostOnce`, the code of a Jira call and the true of an answered call of the index tell what happened, bulk actions once and in order as far as requests are, a stopped Slack client connects once more at most |
| `gitlab` | 5 kinds of object, 2 names, 2 namespaces, 2 ids, 2 changes by others | OK means done, nothing is touched but what was found under the name, in the project and in the namespace asked for |

Why the bounds are enough. One `Thread` has a finite state without any bound.
Two workers are what check-then-pop and the owner's loop need to interfere,
and three inputs put one in each of the two queues and in a worker's hands at
once. With two channel objects and ids modulo 3 the ids wrap and a channel is
closed while a frame for it is on the wire and another one is opened; two
deliveries let one overtake a close. Three faults in `inout_run` make a
reconnection fail, the retry fail, and the subscription be lost once more;
three responses give a sent, a lost and a queued one at the same time. Two
faults let a connection of a database be lost in a call and again in the
attempt to get it back. Two requests are what parameters can leak between, and
what two sessions of the server interleave, one of a call that has ended;
two bulk actions are two requests, of which the first may come after the
second; two nodes and one change of the
cluster let the first node go while another stays. Two names, ids and
namespaces let an object be found under the wrong one, and two changes by
others let it be deleted and made anew between two requests. Texts, bytes and
JSON values reach every edge of their functions: the empty input, groups of
one, two and three bytes with the last digits of both alphabets, one level more
than the recursion allows (which the configuration sets to 3).

Deadlock is not checked in `inout_run`, `library`, `services` and `gitlab`: an
object may be destroyed, and a client whose bounds are used up may stop.

## 4. Fairness

Liveness is stated for the parts that have a loop of their own.

- `Thread`: weak fairness of the owner inside a call and of the pthread, since
  the operating system schedules both. The owner need not make another call.
  `EndsAlone = FALSE` describes a `run()` that loops until `is_stopping()`,
  as those of the pool and of `InOutExchange` do.
- `WorkQueue`: weak fairness of the owner inside a call and of each worker. No
  fairness of providers and readers. `CallsReturn` depends on inputs being
  finitely many: a worker does not look at `is_stopping()` while there are
  inputs (test_threads.cpp:64).
- `Connection`: weak fairness of the consuming thread; a callback returns. The
  broker owes nothing. `StopEndsConsuming` is checked for a connection with a
  wait time-out (`Timed`): without one `consume_one()` blocks until a frame
  comes.
- `InOutExchange`: weak fairness of `run()` and of a pusher inside
  `push_response()`, and of the return of a broker that went away: no thread
  can reconnect to a broker that stays away. `Start`, `Stop`, `Kill` and faults
  are never forced. Weak fairness of the pushers is enough since `run()` holds
  the mutex only for the one publication of a turn.

The other modules have no fairness: their calls are made by a caller that need
not make them, and end with the answer of a server that owes none.

## 5. Proofs

**Thread** (assumption: the four constants are Booleans). `IInv` relates
the place of the owner, the place of the pthread, who holds which mutex and the
flags: for each place of `start()` it says where the pthread may be
(`WorkerMatchesPlace`), that a mutex is held exactly in the places between its
lock and unlock (`MutexesMatchPlace`), that `started` agrees with `m_thread`
but for the spin (`HandleIsStarted`), and when `m_running` may be stale
(`RunningMatchesWorker`). None of the properties is inductive alone: that
`run()` is not entered before `started` is set needs who holds
`continuemutex`, that `start()` returns only after `ThreadStarted()` needs
`continuemutex2`. From it follow `RunSeenByStart`, `RunningIsTruthful`,
`ReapedIsClean`, `StartReturnsRunning`, and, for an owner that joins,
`NeverTerminates` and the refinement `ThreadImplementsLife`.

**WorkQueue** (any number of workers and readers, any number of inputs).
`ItemsConserved` is inductive with `HandsMatchPlace`: a worker holds an item
exactly between its pop and its push. `OwnerInv` says, for each place of the
owner's loop, which workers it has joined; `JoinedMeansGone` and
`OwnerIsSafe` (for an owner that joins) follow, and `PoolRunsThreads` shows
that each worker behaves as the `ThreadLife` that `Thread` implements, so the
pool's model rests on a proved one. `ReaderNeverThrowsHolds` is for one reader.
`SingleWorkerKeepsOrder` needs an order of everything written: with one worker,
what was received, the output queue, the item in the worker's hand and the input
queue, one after the other, are 1, 2, ... up to the last one written
(`OrderInv`). Nothing is asked of the owner.

**Connection** (any number of objects, width of the ids, `channel_max`, tags
and frames). `IInv` conjoins `IdsAreFresh` (ids are given in order and never
twice while the connection lives, and the map agrees with the objects) and
`SubscribersBearTheirId` (the broker's consumers and the deliveries on the
wire know an object by its id) with the three properties. Freshness is what
makes routing by id sound: an id that wrapped would be refused by
`channel_max`, or meets a channel still open, and the broker then ends the
connection.

**InOutExchange** (any number of pushers, whose names differ from "free" and
"run", responses and faults). Every step belongs either to the session or to
the responses, and each half leaves the other alone. `SubscriptionInv` is what
makes the weak pointer safe: a channel that is valid and served, outside of the
steps of `connect_to_rabbitmq()` that build it, has the queue object of this
channel, and a subscription as long as the queue exists; every way those steps
can fail leaves a channel that is invalid or not served, so that the
`declare_exchange()` of the next turn fails and reconnects.
`ResponsesInOrder` is inductive once the queue is known to be non-empty
while `run()` publishes.

**PostgreSQLClient** (any statements and number of faults; `PgConstants`: the
data written are not the words that control a transaction, and a caller
registers no name of the library's own views, since in SQL both are different
things). `SessionInv` says what the caller's belief, the server's session and
the work in it have to do with each other: while the caller is in a transaction
the session is in one, failed or gone, and never back to committing each
statement alone. From it `TransactionIsAtomic`
follows by a step simulation of `SqlTransaction`. `StatementsInv` adds that a
name is recorded after its statement was prepared, and that a session that is
gone is never used again, since the reset of the connection is never completed
(section 6); together they give `RegisteredIsPrepared`.

**GitLab** (any names, ids, namespaces and changes by others; there is some
call). `FlowInv` says, for each place of a flow, what `found` may be: an object
of the kind, under a name and in a place that were asked for, and none when an
issue is acted on. `HolderInv` says the same of the
project: beyond the first request `holder` has the name and the namespace that
were asked for, and its id is the one the other requests use. `OnlyTheNamed`
follows since the last request names an
object by the id of `found`, or makes one; `changed` keeps what was changed with
the name and place it was found with, whatever others call it later.
`IssuesStay` is the other face of the inverted tests of
gitlabapiclient.cpp:119, 176, 193, 243 and 260. `OkMeansDone` needs what is left
to do as well (`TodoInv`): all the names with nothing changed, or the second of
two, after the first was changed or was a project that is not there.
`DoneInv`, its first part, follows at each return; its second part, that
what was deleted is gone, holds since GitLab gives no id again.

**The parts of Library and of Services.** `LibraryRunsItsParts` and
`ServicesRunTheirParts` say that each part behaves as the specification of its
own module does; the invariants below are each proved of the part alone, and the
theorems are about `LibrarySpec` and `ServicesSpec`, the specifications of the
runs, but for the two modules that are extended, `PostgreSQLClient` and
`Elasticsearch`, whose theorems are about their own `Spec`, which is one of the
parts.

- `RedisClient` (any keys and fields; `ErrorReplies = FALSE`). `CallInv` says
  where each method may be (`Underway`) and, while nobody else has touched the
  key, what it has done so far (`DoneSoFar`): before the `EXPIRE` of `set()` the
  key is a string, before the `HSET` of `hset()` it is no string unless the
  context is in error, after which no command succeeds. `TrueMeansDone` is what
  is left of this when the last reply came. `HashInv` adds that a hash keeps
  its fields, because `hset()` deletes a hash only over a context in error.
  The assumption is needed: a server that refuses a command (loading, busy)
  gives an error, and `set()` returns true (section 6). `BrokenForGood` is a
  step property and needs no invariant.
- `MySQLClient`. `HandleInv`: a handle has a session exactly when it is open, at
  most one, and it is closed only where no result has unread rows, since the
  server does not answer the ping while it has.
- `Console` (any words and consoles). `WalkInv`: what was offered is what fits
  among the first `list_index` completions, which no call reorders since
  completions are only appended; with a list in which nothing is twice
  (`StartedInv`) the end of the walk gives `CompletionsOnce`.
- `Message` (any properties and values, any number of setters). `MessageInv`
  keeps the properties of the publisher, the wire and the consumer equal and
  knows that a value that was stored once is stored unchanged again;
  `BlocksInv` bounds the blocks of a string by the calls of its setter.
- `Semaphore` (any times and milliseconds; integers are not bounded, a 32-bit
  `time_t` is outside of it). The carry of the nanoseconds is division by
  10^9, done once.
- `JsonWebToken` (any claims, secrets, algorithms) and `Base64` (all sequences of
  bytes, of any length). The model reads and writes a text by the place of each
  digit and byte and not by recursion, so that no induction is needed:
  `DigitIs` and `BytesRead` say what stands at each place, and `PlainIsRead`
  and `UrlIsRead` that a byte put together of the digits over it is the byte
  they were made of. For base64url this is true up to the first of the two
  digits that `is_base64()` does not know.
- `HttpExchange` (any headers, parameters, routes, requests and pieces).
  `AddedInv` says that the client's members are what its caller meant for the
  next request, which is where a header that is cleared or kept against the
  query would show, and `WireInv` keeps it for the request on its way. `ServerInv` ties the
  connection, the session and `data_handled` of each request together: a
  handler is called only in a session that is alive and not marked, and a page
  with JSON was made by it. `ResultInv` is about the call in progress:
  what curl received is the page of this request, and a GET that announces
  JSON without a body stays unreadable wherever it is. With them every step of
  either end is a step of `AtMostOnce` or none (`SendingAsks`,
  `FinishingReturns`, `ServingServes`): a session that is marked takes its
  request out of those that may come to their handler, and so does the end of
  its connection.
- `Jira`. While a call goes on it has no result; the code and the result are given
  in the step that knows what Jira answered, and with 304 in the one that saw
  the assignee.
- `Elasticsearch` (any nodes and number of bulk actions).
  `BulkInv`: those that wait rise, above all that were carried
  out or are overdue, and what is overdue has nothing in common with what was
  carried out; the split of a sequence in two keeps this (`PartRises`,
  `HeadBelowRest`), and so does putting one behind another that is below it or
  apart from it (`ConcatOrder`).
  `IndexInv`: as long as every question was answered and nobody else touches
  the index, `create()` acts only where it is not and `remove()` where it is, so
  that `AnsweredMeansTrue` is left when the call returns.
- `Slack` (any groups and names). `SlackInv`: a loop that is about to connect has
  made no late connection yet, since every way back to that place leads through
  the top of the loop, where a stopped client ends.

Only model-checked: every liveness property and everything that needs ENABLED
(`CallsReturn`, `InputsAnswered`, `StopEndsConsuming`, `Reconnects`,
`ResponsesLeave`), which are out of the prover's reach; and `TextsHold`, since
`Text` and `LuaJson` are recursive over their data, about which nothing can be
shown without an induction. Every other property of a passing run is the
statement of a theorem. `Irc` has no property among them: what its methods
promise is refuted, and the rest would only repeat their return expressions; its
steps are explored by the run and serve the four refutations of section 6.

## 6. Findings

Three violated runs are the recorded disagreements of the code with its own
comments. The models are not repaired: each passing property is stated so
that it is true of the code as it is. Beside the twelve runs,
`MCThread_create.cfg`, `MCWorkQueue_empty_pop.cfg`, `MCConnection_no_ack.cfg`,
`MCConnection_publish.cfg`, `MCConnection_ids.cfg` and
`MCConnection_ack_invalid.cfg` are kept; TLC refutes each of their properties,
and of two the one it meets first:

- `MCThread_create`: the constructor of `std::thread` throws while
  `continuemutex` is held; the next `start()` blocks (threads.cpp:60-65).
- `MCWorkQueue_empty_pop`: two workers see the same last input and the slower
  pops an empty queue (test_threads.cpp:64-65).
- `MCConnection_no_ack`: the acknowledgement of a consumer with `no_ack`
  closes the channel (channel.cpp:421).
- `MCConnection_publish`: `basic_publish()` on an invalid channel returns
  `false`, which is `AMQP_STATUS_OK` (channel.cpp:331).
- `MCConnection_ids`, `RefusedAtMax`: `set_heartbeat_interval()` tunes
  `channel_max` to 0, and `create_channel()` refuses the first channel
  (connection.cpp:141, 155). TLC stops there.
- `MCConnection_ids`, `ThrowsWhenDead`, refuted when it is listed alone:
  channels made and destroyed one after the other use up the ids
  (connection.cpp:161).
- `MCConnection_ack_invalid`: a callback that destroys its channel and consumes
  the envelope costs the connection (channel.cpp:404-421).

Two more follow from `Thread` and `WorkQueue` when the owner does not join
(`JoinsFirst = FALSE`): `NeverTerminates` and `OwnerIsSafe` are refuted then,
the latter by the unit test's own protocol (test_threads.cpp:117-118). With the
constants of `MCInOutExchange_crash`, `NothingLost` of `InOutExchange` is
refuted: a response is popped and not sent (inoutexchange.cpp:97-100).

The modules added to these state what a caller would expect under the heading
"Refuted"; `Library`, `MCLibrary`, `Services` and `MCGitLab` give each a name, and TLC
refutes it when it is put into the configuration of the run:

| Module | Property | What happens |
|---|---|---|
| `MySQLClient` | `DescribeReturns` | the second `MySQLResult` of one query is null, and its fields are read |
| `RedisClient` | `TrueMeansDone`, `HsetKeepsHash` with `ErrorReplies = TRUE` | `set()` without an expiration returns true of an error; the text of an error is not "hash", and the key is deleted (redisclient.cpp:177) |
| `RedisClient` | `NeverCrashes` | a context that could not be made is used (redisclient.cpp:70-74) |
| `PostgreSQLClient` | `IndexesAreRead`, `CommitTells`, `Reconnects` | a failure after the fields is not told; COMMIT of a failed transaction rolls back and returns; a connection that was lost is never back (postgresqlclient.cpp:182-193), where postgresqlclient.h:211-212 and database.h:71-74 say it reconnects |
| `HttpExchange` | `HandlerSeesWholeBody` | a form in pieces is handled with its first piece (httpserver.cpp:92) |
| `HttpExchange` | `QuietMeansServed` | a quiet call is true of an empty answer, also of none |
| `Jira` | `TrueMeansDone`, `FalseHasItsCode`, `LuaGetsJsonOrNil` | the same through `JiraClient`; a false may come with a code of success; a null leaves what is on the Lua stack |
| `Elasticsearch` | `NodeIsFresh`, `NeverCrashes` | new nodes go behind those that are gone, and the first is used, where elasticsearchclient.h:134 says a fresh one; a cluster that lists none leaves an empty vector, whose head is read (elasticsearchclient.cpp:137) |
| `Elasticsearch` | `NoBulkLost`, `RemoveMeansGone`, `ShardsBeforeCreation` | actions are popped before they are sent; an unanswered `exists()` is "no" |
| `Slack` | `ListedIsFound`, `MessageIdsDiffer`, `CallbacksStand`, `EndsWhenStopped`, `NamesAreCurrent` | a group is looked for under the literal "name" (slackclient.h:74); the counter and the callbacks have no lock; `run()` returns when no connection can be made; old names stay |
| `Irc` | `TrueMeansSent`, `TrueMeansNormal`, `SessionIsLive`, `NoSessionIsLost` | 0 of the library is success and becomes false, of `run_loop()` against ircclient.h:125; `destroy_session()` leaves the pointer, `create_session()` drops it |
| `GitLab` | `NotFoundMeansAbsent`, `AbsentIsTolerated`, `OkLeavesNone` | inverted tests; a search that lists nothing is an invalid response and ends the loop; one namespace only |
| `Console` | `GeneratorHasConsole` | the end of one console takes the global pointer of the other |
| `Message` | `NoBlockLost`, `NeverCrashes` | a property set twice loses its first memory; a queue whose channel is gone is used |
| `JsonWebToken` | `WrittenIsAccepted` | only HS256 is read, and no digit 62 or 63 |
| `Base64` | `UrlDecodedIsEncoded` | `is_base64()` does not know "-" and "_" (base64.cpp:30) |
| `LuaJson` | `NullStays` | the value at the top of the stack is written for a null |
| `Text` | `OneEqualsEach` | a field with several "=" is accepted |

`BrokenForGood`, proved of `RedisClient`, says the same of a property that holds:
a client in error never reconnects (redisclient.cpp:77-84).

## 7. Not modelled

Abstracted in the modelled parts: the contents of messages, envelopes, values,
answers and pages; time (a time-out may happen at once, a sleep ends), but for
the circuit breaker and the deadline; names, texts of queries, URLs, logging
and formatting. Also left out are:

- the constructor loop of `ThreadPoolWorkQueue` over an 8-bit index, which
  never ends from 256 workers on;
- the destruction of an `InOutExchange` whose thread still runs (the members go
  before `~Thread()`), and its restart after `kill()`, which leaves the mutex
  locked;
- opening and logging in of an AMQP connection, which either throws or ends in
  the initial state of `Connection`;
- in `JsonWebToken` the validators of single claims and the statuses they give,
  which are never reached: the claims are looked for in a payload that was never
  read (jsonwebtokens.cpp:221-284);
- `OAuthClient`: three requests without a state, the token of one is a
  parameter of the next;
- Twitter, RATP, OpenWeatherMap, CalDAV and the name generator: one request
  each and the reading of its answer;
- the Lua engine and the bindings but Jira's: they register functions and
  forward arguments;
- the XML parser, logger, time, HMAC and UUID: calls of libxml2, log4cplus and
  OpenSSL.

What would come next: an abstract FIFO with loss for `InOutExchange` and its
restart; the clients of services as instances of `AtMostOnce`; `SlackClient` and
`ConsoleThread` over `ThreadLife`.
