-------------------------------- MODULE Jira --------------------------------
(***************************************************************************)
(* A JiraClient, the Lua object that may own it, and the Jira it talks to. *)
(*                                                                         *)
(* A call is one request, but for assign_issue(), which reads the issue    *)
(* first.  Other clients assign the issue in between.  Jira and Lua are    *)
(* external; the objects are one issue and its project.                    *)
(***************************************************************************)
EXTENDS Naturals, Sequences

CONSTANTS
  Users,
  MaxOthers    \* bound: how often others assign the issue

JiraConstants == "nobody" \notin Users /\ MaxOthers \in Nat

VARIABLES
  client,    \* none, live or freed (collected by Lua)
  assignee,  \* of the issue, in Jira
  done,      \* did Jira carry the call out?
  call,      \* the call in progress, or the last one
  pc,        \* idle, or the request made next: look, act
  m_http_code,
  saw,       \* the assignee the call read
  result,    \* what the method returned: none, true, false
  lua,       \* the values the binding returned
  others

jiraVars == <<client, assignee, done, call, pc, m_http_code, saw, result, lua, others>>

Reads == {"test_connection", "get_issue", "get_issue_transitions", "list_projects"}
Changes == {"create_issue", "create_issue_ids", "assign_issue", "comment_issue",
            "issue_transition", "add_link_to_issue"}

\* full: no argument that the method checks is empty; lua: Lua makes the call.
Calls == [op: Reads \cup Changes, who: Users, full: BOOLEAN, lua: BOOLEAN]
NoCall == [op |-> "none", who |-> "nobody", full |-> FALSE, lua |-> FALSE]

TypeOK ==
  /\ client \in {"none", "live", "freed"}
  /\ {assignee, saw} \subseteq Users \cup {"nobody"} /\ done \in BOOLEAN
  /\ call \in Calls \cup {NoCall} /\ pc \in {"idle", "look", "act"}
  /\ m_http_code \in {0, 200, 201, 204, 304, 400, 404}
  /\ result \in {"none", "true", "false"} /\ others \in 0..MaxOthers

-----------------------------------------------------------------------------
\* JiraClient(), or l_create_jiraclient() with a url, a user and a password.
Create ==
  /\ client = "none" /\ client' = "live"
  /\ UNCHANGED <<assignee, done, call, pc, m_http_code, saw, result, lua, others>>

\* gc_object(), or the end of the owner.
Collect ==
  /\ client = "live" /\ pc = "idle" /\ client' = "freed"
  /\ UNCHANGED <<assignee, done, call, pc, m_http_code, saw, result, lua, others>>

\* The second value the binding returns: read<Json::Value>() of nothing is the
\* value at the top of the stack, which is the code (luahelper.cpp:284).
LuaValues(c, ok, code, body) ==
  IF ok THEN <<code, IF body = "" THEN "code" ELSE "json">>
  ELSE IF c.op = "create_issue_ids" THEN <<>> ELSE <<code, "nil">>

Returns(c, ok, code, body) ==
  /\ pc' = "idle" /\ result' = (IF ok THEN "true" ELSE "false")
  /\ lua' = IF c.lua THEN LuaValues(c, ok, code, body) ELSE <<>>

\* The methods that check their arguments.
Checks == {"assign_issue", "comment_issue", "issue_transition", "add_link_to_issue"}

Call(c) ==
  /\ client = "live" /\ pc = "idle"
  /\ call' = c /\ done' = FALSE /\ saw' = "nobody"
  /\ \/ ~c.full /\ c.op \in Checks /\ Returns(c, FALSE, m_http_code, "")
     \/ /\ c.full \/ c.op \notin Checks
        /\ pc' = (IF c.op = "assign_issue" THEN "look" ELSE "act")
        /\ result' = "none" /\ lua' = <<>>
  /\ UNCHANGED <<client, assignee, m_http_code, others>>

\* The answers to a read: nothing, the object, an error that is JSON or is not.
ReadAnswers == {<<0, "">>, <<200, "json">>, <<404, "json">>, <<404, "html">>}

\* _get_json(): any JSON will do.
GetAccepts(a) == a[2] = "json"

\* A mutant: any answer that is an issue will do.
IsAssigned_Read(a, who) == a = <<200, "json">>

\* What assign_issue() looks for in the issue it read.
IsAssigned(a, who) == a = <<200, "json">> /\ assignee = who

\* The first request of assign_issue(); when the issue could not be read the
\* second is made all the same.
Look ==
  /\ pc = "look"
  /\ \E a \in ReadAnswers :
       /\ saw' = IF a = <<200, "json">> THEN assignee ELSE "nobody"
       /\ \/ IsAssigned(a, call.who) /\ m_http_code' = 304 /\ Returns(call, TRUE, 304, "")
          \/ /\ ~IsAssigned(a, call.who)
             /\ m_http_code' = a[1] /\ pc' = "act" /\ UNCHANGED <<result, lua>>
  /\ UNCHANGED <<client, assignee, done, call, others>>

Read ==
  /\ pc = "act" /\ call.op \in Reads
  /\ \E a \in ReadAnswers, whole \in BOOLEAN :
       \* test_connection() looks for three members of the answer.
       /\ whole \/ call.op = "test_connection"
       /\ m_http_code' = a[1]
       /\ Returns(call, /\ GetAccepts(a)
                        /\ call.op = "test_connection" => whole /\ a[1] = 200, a[1], a[2])
  /\ UNCHANGED <<client, assignee, done, call, saw, others>>

\* The two calls with FLAG_NO_RESPONSE_AWAITED.
Quiet(op) == op \in {"assign_issue", "issue_transition"}

\* _post_json() and _put_json()
Accepts(op, a) == a[1] # 400 /\ (a[2] = "json" \/ (Quiet(op) /\ a[2] = ""))

\* The answers to a change: nothing, an error, or success.
ChangeAnswers(op) ==
  {<<0, "">>, <<400, "json">>, <<404, "json">>, <<404, "html">>,
   IF Quiet(op) THEN <<204, "">> ELSE <<201, "json">>}

\* A change is refused, lost on the way, or carried out; the answer may be lost.
Act ==
  /\ pc = "act" /\ call.op \in Changes
  /\ \E a \in ChangeAnswers(call.op) :
       /\ done' \in (IF a[1] \in {201, 204} THEN {TRUE}
                     ELSE IF a[1] = 0 THEN BOOLEAN ELSE {FALSE})
       /\ assignee' = IF done' /\ call.op = "assign_issue" THEN call.who ELSE assignee
       /\ m_http_code' = a[1]
       /\ Returns(call, Accepts(call.op, a), a[1], a[2])
  /\ UNCHANGED <<client, call, saw, others>>

Others ==
  /\ others < MaxOthers /\ others' = others + 1
  /\ \E u \in Users \cup {"nobody"} : assignee' = u
  /\ UNCHANGED <<client, done, call, pc, m_http_code, saw, result, lua>>

-----------------------------------------------------------------------------
Init ==
  /\ client = "none" /\ assignee \in Users \cup {"nobody"} /\ done = FALSE
  /\ call = NoCall /\ pc = "idle" /\ m_http_code = 0 /\ saw = "nobody"
  /\ result = "none" /\ lua = <<>> /\ others = 0

Next ==
  \/ Create \/ Collect
  \/ \E c \in Calls : Call(c)
  \/ Look \/ Read \/ Act \/ Others

Spec == Init /\ [][Next]_jiraVars

-----------------------------------------------------------------------------
(***************************************************************************)
(* Properties                                                              *)
(***************************************************************************)

\* A change that returned true with a code of success was carried out, or, with
\* 304, had been when the call looked: the code tells what the result does not.
CodeTells ==
  result = "true" /\ call.op \in Changes =>
    /\ m_http_code \in {201, 204} => done
    /\ m_http_code = 304 => saw = call.who

\* Refuted: a change that returned true was carried out, or was no change.  The
\* quiet calls are true when Jira was not reached, the others with an error that
\* is JSON and not 400 (httpclient.cpp:291, 298).
TrueMeansDone ==
  result = "true" /\ call.op \in Changes => done \/ saw = call.who

\* Refuted: a call that returned false has a code of its own request.
FalseHasItsCode == result = "false" => m_http_code \notin {201, 204, 304}

\* Refuted: Lua gets a code and a JSON value or nil.
LuaGetsJsonOrNil == lua # <<>> => lua[2] \in {"nil", "json"}
=============================================================================
