------------------------------- MODULE Slack -------------------------------
(***************************************************************************)
(* A SlackClient: the thread of run(), the callbacks it calls, and an      *)
(* owner that registers callbacks and sends messages meanwhile.  Slack     *)
(* and the web socket are external; the thread itself is that of Thread.   *)
(***************************************************************************)
EXTENDS Naturals, Sequences, FiniteSets

CONSTANTS
  Ids, Names,    \* of the groups of Slack
  MaxFailures,   \* bound: failures in a row
  MaxRenames,    \* bound: changes of the groups
  MaxMessages,   \* bound: messages sent by each thread
  MaxCallbacks   \* bound: callbacks registered

SlackConstants == "" \notin Names /\ {MaxFailures, MaxRenames, MaxMessages, MaxCallbacks} \subseteq Nat

VARIABLES
  remote,          \* the groups of Slack: the name of each id, or ""
  renames,
  pc,              \* of run(): start, connect, socket, callback, sleep, ended
  stopping,
  failure_number,
  late,            \* the connections made since the owner called stop()
  m_groups, m_groups_reverse,  \* by id and by name; "" and {} where there is none
  listed,          \* the groups rtm.start listed last
  m_callbacks,     \* the number registered for the type of message
  next,            \* the callback the loop is at
  m_internal_message_id,
  sender,          \* what each thread is at in send_message(): the id it read, or 0
  sent,            \* the ids each thread sent
  grown            \* m_callbacks grew while the loop over it was running

slackVars == <<remote, renames, pc, stopping, failure_number, late, m_groups, m_groups_reverse,
               listed, m_callbacks, next, m_internal_message_id, sender, sent, grown>>

Threads == {"run", "owner"}
groups == <<m_groups, m_groups_reverse, listed>>
slack == <<remote, renames>>
messages == <<m_internal_message_id, sender, sent>>
callbacks == <<m_callbacks, next, grown>>

TypeOK ==
  /\ remote \in [Ids -> Names \cup {""}] /\ listed \in [Ids -> Names \cup {""}]
  /\ m_groups \in [Ids -> Names \cup {""}] /\ m_groups_reverse \in [Names -> Ids \cup {"none"}]
  /\ pc \in {"start", "connect", "socket", "callback", "sleep", "ended"}
  /\ failure_number \in 0..MaxFailures /\ late \in Nat
  /\ m_callbacks \in 0..MaxCallbacks /\ next \in 0..MaxCallbacks
  /\ stopping \in BOOLEAN /\ grown \in BOOLEAN /\ renames \in 0..MaxRenames
  /\ sender \in [Threads -> 0..(2 * MaxMessages)]

-----------------------------------------------------------------------------
(***************************************************************************)
(* run()                                                                   *)
(***************************************************************************)

\* The wait of retry_interval * failure_number seconds after a failure.
Failure ==
  /\ failure_number < MaxFailures  \* bound
  /\ failure_number' = failure_number + 1 /\ pc' = "sleep"

\* Every group of the answer is written into both maps; nothing is removed.
Groups ==
  /\ m_groups' = [i \in Ids |-> IF remote[i] = "" THEN m_groups[i] ELSE remote[i]]
  /\ m_groups_reverse' = [n \in Names |->
       IF \E i \in Ids : remote[i] = n THEN CHOOSE i \in Ids : remote[i] = n
       ELSE m_groups_reverse[n]]

\* rtm_start() fails, or answers without a url or with the groups.
Start ==
  /\ pc = "start"
  /\ \/ stopping /\ pc' = "ended" /\ UNCHANGED <<failure_number, groups>>
     \/ ~stopping /\ Failure /\ UNCHANGED groups
     \/ /\ ~stopping /\ pc' = "connect" /\ UNCHANGED failure_number
        /\ \/ UNCHANGED groups
           \/ Groups /\ listed' = remote
  /\ UNCHANGED <<slack, stopping, late, messages, callbacks>>

\* get_connection() fails, which ends the thread; or connect(); or something throws.
Connect ==
  /\ pc = "connect"
  /\ \/ pc' = "ended" /\ UNCHANGED <<failure_number, late>>
     \/ /\ pc' = "socket" /\ failure_number' = 0
        /\ late' = IF stopping THEN late + 1 ELSE late
     \/ Failure /\ UNCHANGED late
  /\ UNCHANGED <<slack, stopping, groups, messages, callbacks>>

\* ws_tls_client::run(): a message of a type with callbacks, until the socket is
\* closed.
Message ==
  /\ pc = "socket" /\ m_callbacks > 0
  /\ pc' = "callback" /\ next' = 1 /\ grown' = FALSE
  /\ UNCHANGED <<slack, stopping, failure_number, late, groups, messages, m_callbacks>>

NextCallback ==
  /\ pc = "callback" /\ sender["run"] = 0
  /\ \/ next < m_callbacks /\ next' = next + 1 /\ UNCHANGED pc
     \/ next = m_callbacks /\ next' = 0 /\ pc' = "socket"
  /\ UNCHANGED <<slack, stopping, failure_number, late, groups, messages, m_callbacks, grown>>

Closed ==
  /\ pc = "socket" /\ Failure
  /\ UNCHANGED <<slack, stopping, late, groups, messages, callbacks>>

\* A mutant: a retry connects again at once.
Wakes_Connects == pc' = "connect"

\* A retry starts from the top of the loop, where is_stopping() is asked.
Wakes == pc' = "start"

Wake ==
  /\ pc = "sleep" /\ Wakes
  /\ UNCHANGED <<slack, stopping, failure_number, late, groups, messages, callbacks>>

\* get_channel_id_by_name(n) finds the group whose name is "name", whatever n is.
ChannelIdByName(n) ==
  IF "name" \in Names /\ m_groups_reverse["name"] # "none" THEN m_groups_reverse["name"]
  ELSE ""

-----------------------------------------------------------------------------
(***************************************************************************)
(* What the owner and the callbacks do                                     *)
(***************************************************************************)

Stop ==
  /\ ~stopping /\ stopping' = TRUE
  /\ UNCHANGED <<slack, pc, failure_number, late, groups, messages, callbacks>>

\* register_callback(), by the owner or in a callback.
RegisterCallback ==
  /\ m_callbacks < MaxCallbacks /\ m_callbacks' = m_callbacks + 1
  /\ grown' = (pc = "callback")
  /\ UNCHANGED <<slack, pc, stopping, failure_number, late, groups, messages, next>>

\* send_message() reads the id, sends and counts; callbacks send too.
SendRead(t) ==
  /\ sender[t] = 0 /\ Len(sent[t]) < MaxMessages /\ (t = "run" => pc = "callback")
  /\ sender' = [sender EXCEPT ![t] = m_internal_message_id]
  /\ UNCHANGED <<slack, pc, stopping, failure_number, late, groups, callbacks,
                 m_internal_message_id, sent>>

\* m_internal_message_id++, with no lock: the id that was read may be the one that
\* is counted.
SendCount(t) ==
  /\ sender[t] # 0
  /\ sent' = [sent EXCEPT ![t] = Append(@, sender[t])]
  /\ \E i \in {m_internal_message_id, sender[t]} : m_internal_message_id' = i + 1
  /\ sender' = [sender EXCEPT ![t] = 0]
  /\ UNCHANGED <<slack, pc, stopping, failure_number, late, groups, callbacks>>

\* Slack renames, makes or archives a group; no two have the same name.
Rename ==
  /\ renames < MaxRenames /\ renames' = renames + 1
  /\ \E i \in Ids, n \in Names \cup {""} :
       /\ n = "" \/ \A j \in Ids : remote[j] # n
       /\ remote' = [remote EXCEPT ![i] = n]
  /\ UNCHANGED <<pc, stopping, failure_number, late, groups, messages, callbacks>>

-----------------------------------------------------------------------------
Init ==
  /\ remote \in {f \in [Ids -> Names \cup {""}] : \A i, j \in Ids : f[i] = f[j] => i = j \/ f[i] = ""}
  /\ renames = 0 /\ pc = "start" /\ stopping = FALSE /\ failure_number = 0 /\ late = 0
  /\ m_groups = [i \in Ids |-> ""] /\ m_groups_reverse = [n \in Names |-> "none"]
  /\ listed = [i \in Ids |-> ""] /\ m_callbacks = 0 /\ next = 0
  /\ m_internal_message_id = 1 /\ sender = [t \in Threads |-> 0]
  /\ sent = [t \in Threads |-> <<>>] /\ grown = FALSE

Next ==
  \/ Start \/ Connect \/ Message \/ NextCallback \/ Closed \/ Wake
  \/ Stop \/ RegisterCallback \/ Rename
  \/ \E t \in Threads : SendRead(t) \/ SendCount(t)

Spec == Init /\ [][Next]_slackVars

-----------------------------------------------------------------------------
(***************************************************************************)
(* Properties                                                              *)
(***************************************************************************)

\* Once stop() was called, run() makes no more connection than the one it was about
\* to make: not after the socket is closed, not after a failure and the wait for the
\* next attempt (slackclient.cpp:90).
StopsConnecting == late <= 1

\* Refuted: a group of the last list is found by its name.
ListedIsFound ==
  \A i \in Ids : listed[i] # "" => ChannelIdByName(listed[i]) = i

\* Refuted: no two messages have the same id.
MessageIdsDiffer ==
  \A i \in DOMAIN sent["run"], j \in DOMAIN sent["owner"] : sent["run"][i] # sent["owner"][j]

\* Refuted: the callbacks do not change while the loop over them runs; it would
\* go on with a dangling iterator.
CallbacksStand == pc = "callback" => ~grown

\* Refuted: run() ends only when it was stopped.
EndsWhenStopped == pc = "ended" => stopping

\* Refuted: a name of the map by name leads to the group that had it when last listed.
NamesAreCurrent ==
  \A n \in Names : m_groups_reverse[n] # "none" => listed[m_groups_reverse[n]] = n
=============================================================================
