------------------------------- MODULE GitLab -------------------------------
(***************************************************************************)
(* A GitlabAPIClient, used by one thread, and the GitLab it talks to.      *)
(*                                                                         *)
(* Most calls take two requests or three: look for the project by its name *)
(* and namespace, look for the object by its name or number, change the    *)
(* object by its id.  Other clients change what is there in between.       *)
(* GitLab is external.                                                     *)
(***************************************************************************)
EXTENDS Naturals, FiniteSets, Sequences

CONSTANTS
  Kinds,       \* the kinds of objects that are there
  Names,       \* their names; the number of an issue is its name here
  Namespaces,
  Ids,         \* the ids GitLab gives, each once
  MaxOthers    \* bound: what other clients do

Numbered == {"issue", "merge_request"}
Global == {"group", "namespace", "project"}
None == [kind |-> "none"]
AnyWhere == "anywhere"

\* What is assumed of the constants.
GitLabConstants ==
  /\ Kinds \subseteq Numbered \cup Global \cup {"label", "tag"}
  /\ "" \notin Names /\ AnyWhere \notin Namespaces /\ MaxOthers \in Nat

VARIABLES
  remote,   \* the objects of GitLab; a project is in a namespace, an issue in a project
  used,     \* the ids given so far
  call,     \* the call in progress, or the last one
  pc,       \* idle, or the request it makes next: project, find, act
  todo,     \* the names it has not done yet
  project,  \* the id of the project it is about
  holder,   \* that project as get_project_ns() found it
  found,    \* what was last found
  rc,       \* what the last call returned
  changed,  \* what the call changed in GitLab, as it found it
  failed,   \* a request of the call was refused or got no answer
  others    \* what other clients did so far

gitlabVars == <<remote, used, call, pc, todo, project, holder, found, rc, changed, failed,
                others>>

Object(kind, id, name, where) == [kind |-> kind, id |-> id, name |-> name, in |-> where]
Places(kind) == IF kind = "project" THEN Namespaces
                ELSE IF kind \in Global THEN {AnyWhere} ELSE Ids
Range2(s) == {s[i] : i \in 1..Len(s)}

\* Does the call look for the project of its object first?
InProject(c) == c.ns # AnyWhere /\ c.kind # "project"

\* The calls.  ns: the namespace asked for, or AnyWhere; pname: the name of the
\* project to look for first; project: its id, when there is none to look for;
\* title: a modify_issue() gives one.
Calls ==
  {c \in [op: {"get", "create", "modify", "close", "delete", "delete_all"}, kind: Kinds,
          names: {<<n>> : n \in Names \cup {""}} \cup Names \X Names,
          ns: Namespaces \cup {AnyWhere}, pname: Names \cup {""}, project: Ids,
          title: BOOLEAN] :
     /\ c.op \in {"modify"} => c.kind = "issue"
     /\ c.op = "close" => c.kind \in Numbered
     /\ c.op = "create" => c.kind \notin {"merge_request", "namespace"}
     /\ c.op = "delete" => c.kind # "namespace"
     /\ c.op = "delete_all" <=> Len(c.names) = 2
     /\ c.op = "delete_all" => c.kind \in {"group", "project"}
     /\ c.op = "get" => c.kind # "tag"
     /\ c.kind \in Numbered /\ c.op # "create" => c.names[1] # ""
     /\ \/ c.ns = AnyWhere \/ c.kind = "label"
        \/ c.kind = "project" /\ c.op \in {"get", "create"}
        \/ c.kind = "issue" /\ c.op = "get"
     /\ c.kind = "project" /\ c.op = "create" => c.ns # AnyWhere
     /\ InProject(c) \/ c.pname = ""
     /\ c.op = "modify" \/ c.title
     /\ c.kind \in Global \/ InProject(c) => c.project = CHOOSE i \in Ids : TRUE}

TypeOK ==
  /\ \A o \in remote : o.id \in used /\ o.kind \in Kinds /\ o.in \in Places(o.kind)
  /\ \A o, p \in remote : o.id = p.id => o = p
  /\ used \subseteq Ids /\ project \in Ids /\ others \in 0..MaxOthers
  /\ call \in Calls
  /\ pc \in {"idle", "project", "find", "act"}
  /\ rc \in {"none", "OK", "INVALID_PARAMS", "INVALID_RESPONSE", "SERVICE_UNAVAILABLE",
             "NOT_FOUND"}
  /\ failed \in BOOLEAN

-----------------------------------------------------------------------------
(***************************************************************************)
(* Returning                                                               *)
(***************************************************************************)

\* A mutant: every group is tried.
GoesOn_Always(kind, code) == TRUE

\* delete_groups() stops at the first that is not deleted, delete_projects() at
\* the first that is neither deleted nor absent.
GoesOn(kind, code) == code = "OK" \/ (kind = "project" /\ code = "NOT_FOUND")

Returns(code) ==
  \/ call.op # "delete_all" /\ pc' = "idle" /\ rc' = code /\ UNCHANGED todo
  \/ /\ call.op = "delete_all" /\ GoesOn(call.kind, code)
     /\ todo' = Tail(todo)
     /\ IF Len(todo) = 1 THEN pc' = "idle" /\ rc' = "OK" ELSE pc' = "find" /\ UNCHANGED rc
  \/ /\ call.op = "delete_all" /\ ~GoesOn(call.kind, code)
     /\ pc' = "idle" /\ rc' = code /\ UNCHANGED todo

\* Labels and tags are deleted by their name, and nothing is looked for.
Looks(c) ==
  CASE c.op \in {"get", "modify", "close", "delete_all"} -> TRUE
    [] c.op = "delete" -> c.kind \notin {"label", "tag"}
    [] OTHER -> FALSE

Call(c) ==
  /\ pc = "idle"
  /\ call' = c /\ todo' = c.names /\ project' = c.project /\ holder' = None
  /\ found' = None /\ rc' = "none" /\ changed' = {} /\ failed' = FALSE
  /\ pc' = IF InProject(c) THEN "project" ELSE IF Looks(c) THEN "find" ELSE "act"
  /\ UNCHANGED <<remote, used, others>>

\* An empty name is refused before the request it would be in, and an empty title
\* before the issue is looked for.
NeedsName(c) ==
  CASE c.op = "create" -> c.kind \in {"issue", "project"}
    [] c.op = "delete" -> c.kind # "tag"
    [] OTHER -> TRUE

Incomplete ==
  \/ pc = "project" /\ call.pname = ""
  \/ pc = "find" /\ ~call.title
  \/ pc \in {"find", "act"} /\ Head(todo) = "" /\ NeedsName(call)

InvalidParams ==
  /\ Incomplete /\ Returns("INVALID_PARAMS")
  /\ UNCHANGED <<remote, used, call, project, holder, found, changed, failed, others>>

-----------------------------------------------------------------------------
(***************************************************************************)
(* Looking for an object                                                   *)
(***************************************************************************)

\* get_projects(), get_labels() ... of the name n: GitLab lists what is called n
\* and, for a search, any other object of the place.
Lists(kind, n, where) ==
  LET there == {o \in remote : o.kind = kind /\ o.in \in where}
      named == {o \in there : o.name = n} IN
  IF kind \in Numbered THEN {named} ELSE {named \cup S : S \in SUBSET there}

\* A mutant: the first object of the list is taken.
Matches_First(S, n, where) == S

\* A mutant: the namespace is not compared.
Matches_AnyWhere(S, n, where) == {o \in S : o.name = n}

Matches(S, n, where) == {o \in S : o.name = n /\ o.in \in where}

\* Whatever goes wrong with an issue or a merge request, it is not found.
Code(kind, code) == IF kind \in Numbered THEN "NOT_FOUND" ELSE code

\* Only the list of groups may be empty.
ListCode(kind, S) == IF S = {} /\ kind # "group" THEN Code(kind, "INVALID_RESPONSE") ELSE "OK"

\* What a search for the object called n comes to: a code and what was found.
Searches(kind, n, where) ==
  UNION {IF ListCode(kind, S) # "OK" THEN {<<ListCode(kind, S), None>>}
         ELSE IF Matches(S, n, where) = {} THEN {<<"NOT_FOUND", None>>}
         ELSE {<<"OK", o>> : o \in Matches(S, n, where)} :
         S \in Lists(kind, n, IF kind \in Global THEN Places(kind) ELSE where)}

\* The request got no answer, an error, or the answer 503.
Unanswered(kind) == {Code(kind, c) : c \in {"INVALID_RESPONSE", "SERVICE_UNAVAILABLE"}}

\* get_project_ns(), before the call proper.
FindProject ==
  /\ pc = "project" /\ ~Incomplete
  /\ \/ /\ \E c \in Unanswered("project") : Returns(c)
        /\ failed' = TRUE /\ UNCHANGED <<project, holder>>
     \/ \E r \in Searches("project", call.pname, {call.ns}) :
          /\ UNCHANGED failed
          /\ \/ r[1] # "OK" /\ Returns(r[1]) /\ UNCHANGED <<project, holder>>
             \/ /\ r[1] = "OK" /\ project' = r[2].id /\ holder' = r[2]
                /\ pc' = IF Looks(call) THEN "find" ELSE "act"
                /\ UNCHANGED <<rc, todo>>
  /\ UNCHANGED <<remote, used, call, found, changed, others>>

\* GITLAB_RC_OK is 0, and the flows of issues and merge requests test
\* "!get_issue(...)" for failure: they go on when nothing was found.
ActsUpon(kind, code) == IF kind \in Numbered THEN code # "OK" ELSE code = "OK"

Where(c) ==
  IF c.kind \notin Global THEN {project} ELSE IF c.ns = AnyWhere THEN Places(c.kind) ELSE {c.ns}

Concludes(code, o) ==
  /\ found' = o
  /\ \/ call.op = "get" /\ Returns(code)
     \/ call.op # "get" /\ ActsUpon(call.kind, code) /\ pc' = "act" /\ UNCHANGED <<rc, todo>>
     \/ /\ call.op # "get" /\ ~ActsUpon(call.kind, code)
        /\ Returns(IF call.kind \in Numbered THEN "NOT_FOUND" ELSE code)

Find ==
  /\ pc = "find" /\ ~Incomplete
  /\ \/ failed' = TRUE /\ \E c \in Unanswered(call.kind) : Concludes(c, None)
     \/ /\ UNCHANGED failed
        /\ \E r \in Searches(call.kind, Head(todo), Where(call)) : Concludes(r[1], r[2])
  /\ UNCHANGED <<remote, used, call, project, holder, changed, others>>

-----------------------------------------------------------------------------
(***************************************************************************)
(* Changing it                                                             *)
(***************************************************************************)

\* The code of a change that was answered with an error, or not answered.
Refused(c) == IF c.kind = "tag" /\ c.op = "delete" THEN "NOT_FOUND" ELSE "INVALID_RESPONSE"

\* The code of the answer.  modify_issue() waits for 201, and GitLab answers 200.
Accepted(c, ok) == IF ok /\ c.op # "modify" THEN "OK" ELSE Refused(c)

\* The object the request is about: what was found, or a label or tag by its name.
Targets ==
  IF Looks(call) THEN {o \in remote : found # None /\ o.kind = call.kind /\ o.id = found.id}
  ELSE {o \in remote : o.kind = call.kind /\ o.in = project /\ o.name = Head(todo)}

\* GitLab makes an object in a project that is there, and no second one of its name.
Fits(o, there) ==
  /\ o.kind \in Global \/ \E p \in there : p.kind = "project" /\ p.id = o.in
  /\ \A p \in there : <<p.kind, p.name, p.in>> # <<o.kind, o.name, o.in>>

\* What is left when o is deleted; with a project goes what is in it.
Without(o) == {p \in remote : p # o /\ ~(o.kind = "project" /\ p.in = o.id)}

\* create_tag() posts to the labels, which take no tag.
Creates ==
  \E id \in Ids \ used, where \in Where(call) :
    LET o == Object(call.kind, id, Head(todo), where) IN
    /\ call.kind # "tag" /\ Fits(o, remote)
    /\ remote' = remote \cup {o} /\ used' = used \cup {id} /\ changed' = changed \cup {o}

Effect ==
  \/ call.op = "create" /\ Creates
  \/ /\ call.op \in {"modify", "close"} /\ found # None
     /\ changed' = changed \cup Targets /\ Targets # {} /\ UNCHANGED <<remote, used>>
  \/ /\ call.op \in {"delete", "delete_all"}
     /\ \E o \in Targets :
          /\ remote' = Without(o)
          /\ changed' = changed \cup {IF Looks(call) THEN found ELSE o}
     /\ UNCHANGED used

\* The request is refused, or carried out; its answer comes, or does not.
Act ==
  /\ pc = "act" /\ ~Incomplete
  /\ \/ UNCHANGED <<remote, used, changed>> /\ failed' = TRUE /\ Returns(Accepted(call, FALSE))
     \/ Effect /\ failed' = TRUE /\ Returns(Refused(call))
     \/ Effect /\ UNCHANGED failed /\ Returns(Accepted(call, TRUE))
  /\ UNCHANGED <<call, project, holder, found, others>>

\* Another client makes, renames or deletes an object.
Others ==
  /\ others < MaxOthers /\ others' = others + 1
  /\ \/ \E kind \in Kinds, id \in Ids \ used, n \in Names : \E where \in Places(kind) :
          /\ Fits(Object(kind, id, n, where), remote)
          /\ remote' = remote \cup {Object(kind, id, n, where)} /\ used' = used \cup {id}
     \/ /\ UNCHANGED used
        /\ \E o \in remote :
             \/ remote' = Without(o)
             \/ \E n \in Names :
                  /\ Fits([o EXCEPT !.name = n], remote)
                  /\ remote' = (remote \ {o}) \cup {[o EXCEPT !.name = n]}
  /\ UNCHANGED <<call, pc, todo, project, holder, found, rc, changed, failed>>

-----------------------------------------------------------------------------
Init ==
  /\ remote = {} /\ used = {} /\ call = (CHOOSE c \in Calls : TRUE) /\ pc = "idle"
  /\ todo = <<>> /\ project = (CHOOSE i \in Ids : TRUE) /\ holder = None /\ found = None
  /\ rc = "none"
  /\ changed = {} /\ failed = FALSE /\ others = 0

Next ==
  \/ \E c \in Calls : Call(c)
  \/ InvalidParams \/ FindProject \/ Find \/ Act \/ Others

Spec == Init /\ [][Next]_gitlabVars

-----------------------------------------------------------------------------
(***************************************************************************)
(* Properties                                                              *)
(***************************************************************************)

\* A call that changes something and returns GITLAB_RC_OK has changed one object
\* for each time a name was given, but delete_projects() may have found none, and
\* delete_groups() only one for a name given twice; what was to be deleted is gone.
OkMeansDone ==
  pc = "idle" /\ rc = "OK" /\ call.op # "get" =>
    /\ \A n \in Range2(call.names) :
         LET N == Cardinality({o \in changed : o.name = n}) IN
         /\ N <= Cardinality({i \in DOMAIN call.names : call.names[i] = n})
         /\ N >= 1 \/ (call.op = "delete_all" /\ call.kind = "project")
    /\ call.op \in {"delete", "delete_all"} => \A o \in changed, p \in remote : o.id # p.id

\* A call changes no object but those it found under a name it was asked for, in
\* the place it was asked for: a project that it found by the name and in the
\* namespace it was given, whatever else a search lists and others rename.
OnlyTheNamed ==
  \A o \in changed :
    /\ o.kind = call.kind /\ o.name \in Range2(call.names) /\ o.in \in Where(call)
    /\ InProject(call) => /\ holder.kind = "project" /\ holder.name = call.pname
                          /\ holder.in = call.ns /\ holder.id = o.in

\* An issue or a merge request is never modified, closed or deleted: the flow ends
\* when the object was found, and goes on without an id when it was not
\* (gitlabapiclient.cpp:119, 176, 193, 243, 260).
IssuesStay ==
  call.kind \in Numbered /\ call.op \in {"modify", "close", "delete"} =>
    changed = {} /\ rc # "OK"

\* Refuted: a call that returns GITLAB_RC_NOT_FOUND did not find the object.
NotFoundMeansAbsent == pc = "idle" /\ rc = "NOT_FOUND" => found = None

\* Refuted: delete_projects() gets past a project that is not there.
AbsentIsTolerated ==
  pc = "idle" /\ call.op = "delete_all" /\ call.kind = "project" /\ rc \notin {"none", "OK"}
    => failed

\* Refuted: delete_project() that returns GITLAB_RC_OK leaves no project of the name,
\* in any namespace.
OkLeavesNone ==
  pc = "idle" /\ rc = "OK" /\ call.op = "delete" /\ others = 0 =>
    \A o \in remote : o.kind = call.kind => o.name # Head(call.names)
=============================================================================
