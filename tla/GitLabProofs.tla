----------------------------- MODULE GitLabProofs -----------------------------
(***************************************************************************)
(* Theorems about GitLab, for every set of kinds, names, namespaces and    *)
(* ids, and whatever other clients do.                                     *)
(***************************************************************************)
EXTENDS GitLab, SequenceTheorems, FiniteSetTheorems, TLAPS

\* A sequence of one name.
LEMMA Single ==
  ASSUME NEW n
  PROVE  <<n>> \in Seq({n}) /\ <<n>> # <<>> /\ Range2(<<n>>) = {n} /\ Len(<<n>>) = 1
         /\ Head(<<n>>) = n
<1>1. <<n>> = Append(<<>>, n)
  OBVIOUS
<1>2. Append(<<>>, n) \in Seq({n})
  OBVIOUS
<1>3. Len(<<n>>) = 1
  OBVIOUS
<1>4. <<n>>[1] = n
  OBVIOUS
<1>5. <<n>> # <<>>
  OBVIOUS
<1>6. ASSUME NEW s, Len(s) = 1 PROVE Range2(s) = {s[1]}
  BY <1>6 DEF Range2
<1>7. Head(<<n>>) = n
  OBVIOUS
<1> QED
  BY <1>1, <1>2, <1>3, <1>4, <1>5, <1>6, <1>7

\* The names of a call are one or two.
LEMMA NamesOfCalls ==
  ASSUME NEW c \in Calls
  PROVE  c.names \in Seq(Range2(c.names)) /\ c.names # <<>> /\ c.kind \in Kinds
<1>1. c.kind \in Kinds
      /\ c.names \in {<<n>> : n \in Names \cup {""}} \cup Names \X Names
  BY DEF Calls
<1>2. CASE c.names \in {<<n>> : n \in Names \cup {""}}
  <2>1. PICK n \in Names \cup {""} : c.names = <<n>>
    BY <1>2
  <2> QED
    BY <1>1, <2>1, Single
<1>3. CASE c.names \in Names \X Names
  <2>1. PICK m \in Names, n \in Names : c.names = <<m, n>>
    BY <1>3
  <2>2. Range2(c.names) = {m, n} /\ <<m, n>> # <<>>
    BY <2>1 DEF Range2
  <2>3. <<m, n>> \in Seq({m, n})
    OBVIOUS
  <2> QED
    BY <1>1, <2>1, <2>2, <2>3
<1> QED
  BY <1>1, <1>2, <1>3

-----------------------------------------------------------------------------
\* Where the call is: it has names left to do, and found nothing before its project;
\* what was found is what the call looks for; and the flow of an issue or a merge
\* request comes to its change without anything found.
FlowInv ==
  /\ call \in Calls
  /\ pc \in {"idle", "project", "find", "act"}
  /\ todo \in Seq(Range2(call.names)) /\ (pc # "idle" => todo # <<>>)
  /\ pc = "project" => found = None /\ changed = {} /\ InProject(call)
  /\ found # None => /\ found.kind = call.kind /\ found.in \in Where(call)
                     /\ found.name \in Range2(call.names)
  /\ pc = "act" /\ Looks(call) /\ call.kind \in Numbered => found = None

\* A return leaves the call, or goes on with its next name.
LEMMA ReturnsLeave ==
  ASSUME FlowInv, NEW code, Returns(code), pc # "idle"
  PROVE  /\ pc' \in {"idle", "find"}
         /\ todo' \in Seq(Range2(call.names)) /\ (pc' # "idle" => todo' # <<>>)
<1>1. todo \in Seq(Range2(call.names)) /\ todo # <<>>
  BY DEF FlowInv
<1>2. CASE UNCHANGED todo /\ pc' = "idle"
  BY <1>1, <1>2
<1>3. CASE todo' = Tail(todo) /\ (Len(todo) # 1 => pc' = "find") /\ (Len(todo) = 1 => pc' = "idle")
  <2>1. todo' \in Seq(Range2(call.names)) /\ Len(todo') = Len(todo) - 1
    BY <1>1, <1>3, HeadTailProperties
  <2>2. Len(todo) # 1 => todo' # <<>>
    BY <1>1, <2>1
  <2> QED
    BY <1>3, <2>1, <2>2
<1> QED
  BY <1>2, <1>3 DEF Returns

\* What a search answers: a failure finds nothing, and what is found fits.
LEMMA SearchesFind ==
  ASSUME NEW kind, NEW n, NEW where, NEW r \in Searches(kind, n, where)
  PROVE  /\ r[1] # "OK" => r[2] = None
         /\ r[1] = "OK" => r[2].name = n /\ r[2].kind = kind /\ r[2].in \in where
<1> DEFINE W == IF kind \in Global THEN Places(kind) ELSE where
<1> PICK S \in Lists(kind, n, W) :
      r \in IF ListCode(kind, S) # "OK" THEN {<<ListCode(kind, S), None>>}
            ELSE IF Matches(S, n, where) = {} THEN {<<"NOT_FOUND", None>>}
            ELSE {<<"OK", o>> : o \in Matches(S, n, where)}
  BY DEF Searches
<1>1. CASE ListCode(kind, S) # "OK"
  <2>1. r \in {<<ListCode(kind, S), None>>}
    BY <1>1
  <2> QED
    BY <1>1, <2>1
<1>2. CASE ListCode(kind, S) = "OK" /\ Matches(S, n, where) = {}
  BY <1>2
<1>3. CASE ListCode(kind, S) = "OK" /\ Matches(S, n, where) # {}
  <2>1. PICK o \in Matches(S, n, where) : r = <<"OK", o>>
    BY <1>3
  <2>2. o \in S /\ o.name = n /\ o.in \in where
    BY DEF Matches
  <2>3. S \subseteq {p \in remote : p.kind = kind /\ p.in \in W}
    <3> DEFINE there == {p \in remote : p.kind = kind /\ p.in \in W}
               named == {p \in there : p.name = n}
    <3>1. S \in (IF kind \in Numbered THEN {named} ELSE {named \cup T : T \in SUBSET there})
      BY DEF Lists
    <3> QED
      BY <3>1
  <2> QED
    BY <2>1, <2>2, <2>3
<1> QED
  BY <1>1, <1>2, <1>3

\* The rest of the object the call is about does not change with it.
LEMMA CallKeepsPlace ==
  ASSUME call' = call, project' = project
  PROVE  Where(call)' = Where(call) /\ Looks(call)' = Looks(call)
         /\ InProject(call)' = InProject(call)
BY DEF Where, Looks, InProject

\* The invariant of the flows holds in every reachable state.
LEMMA FlowHolds ==
  ASSUME Calls # {}
  PROVE  Spec => []FlowInv
<1>1. Init => FlowInv
  <2> SUFFICES ASSUME Init PROVE FlowInv
    OBVIOUS
  <2>1. call \in Calls
    BY DEF Init
  <2>2. todo = <<>> /\ pc = "idle" /\ found = None
    BY DEF Init
  <2> QED
    BY <2>1, <2>2 DEF FlowInv
<1>2. FlowInv /\ [Next]_gitlabVars => FlowInv'
  <2> SUFFICES ASSUME FlowInv, [Next]_gitlabVars PROVE FlowInv'
    OBVIOUS
  <2>1. CASE \E c \in Calls : Call(c)
    <3> PICK c \in Calls : Call(c)
      BY <2>1
    <3>1. call' = c /\ todo' = c.names /\ found' = None /\ changed' = {}
          /\ pc' \in {"project", "find", "act"} /\ (pc' = "project" => InProject(c))
      BY DEF Call
    <3>2. pc' = "project" => InProject(call)'
      BY <3>1 DEF InProject
    <3> QED
      BY <3>1, <3>2, NamesOfCalls DEF FlowInv
  <2>2. CASE InvalidParams
    <3>1. pc # "idle" /\ Returns("INVALID_PARAMS")
      BY <2>2 DEF InvalidParams, Incomplete
    <3> QED
      BY <2>2, <3>1, ReturnsLeave, CallKeepsPlace DEF InvalidParams, FlowInv
  <2>3. CASE FindProject
    <3>1. pc = "project" /\ found = None /\ changed = {} /\ call' = call /\ found' = found
          /\ changed' = changed
      BY <2>3 DEF FindProject, FlowInv
    <3>2. CASE \E c : Returns(c)
      BY <3>1, <3>2, ReturnsLeave DEF FlowInv
    <3>3. CASE pc' \in {"find", "act"} /\ UNCHANGED todo
      BY <3>1, <3>3 DEF FlowInv
    <3> QED
      BY <2>3, <3>2, <3>3 DEF FindProject
  <2>4. CASE Find
    <3>1. pc = "find" /\ call' = call /\ project' = project /\ changed' = changed
      BY <2>4 DEF Find
    <3>2. PICK code, o : /\ Concludes(code, o)
                         /\ code # "OK" => o = None
                         /\ code = "OK" => /\ o.name = Head(todo) /\ o.kind = call.kind
                                           /\ o.in \in Where(call)
      <4>1. CASE \E c \in Unanswered(call.kind) : Concludes(c, None)
        <5> PICK c \in Unanswered(call.kind) : Concludes(c, None)
          BY <4>1
        <5>1. c # "OK"
          BY DEF Unanswered, Code
        <5> QED
          BY <5>1
      <4>2. CASE \E r \in Searches(call.kind, Head(todo), Where(call)) : Concludes(r[1], r[2])
        BY <4>2, SearchesFind
      <4> QED
        BY <2>4, <4>1, <4>2 DEF Find
    <3>3. Head(todo) \in Range2(call.names)
      <4>1. todo \in Seq(Range2(call.names)) /\ todo # <<>>
        BY <3>1 DEF FlowInv
      <4> QED
        BY <4>1, HeadTailProperties
    <3>4. found' # None => /\ found'.kind = call.kind /\ found'.in \in Where(call)
                           /\ found'.name \in Range2(call.names)
      BY <3>2, <3>3 DEF Concludes
    <3>5. CASE pc' = "act" /\ UNCHANGED todo /\ ActsUpon(call.kind, code)
      <4>1. call.kind \in Numbered => found' = None
        BY <3>2, <3>5 DEF ActsUpon, Concludes
      <4> QED
        BY <3>1, <3>4, <3>5, <4>1, CallKeepsPlace DEF FlowInv
    <3>6. CASE \E c : Returns(c)
      BY <3>1, <3>4, <3>6, ReturnsLeave, CallKeepsPlace DEF FlowInv
    <3> QED
      BY <3>2, <3>5, <3>6 DEF Concludes
  <2>5. CASE Act
    <3>1. pc = "act" /\ UNCHANGED <<call, project, found>> /\ \E c : Returns(c)
      BY <2>5 DEF Act
    <3> QED
      BY <3>1, ReturnsLeave, CallKeepsPlace DEF FlowInv
  <2>6. CASE Others
    BY <2>6, CallKeepsPlace DEF Others, FlowInv
  <2>7. CASE UNCHANGED gitlabVars
    BY <2>7, CallKeepsPlace DEF gitlabVars, FlowInv
  <2> QED
    BY <2>1, <2>2, <2>3, <2>4, <2>5, <2>6, <2>7 DEF Next
<1> QED
  BY <1>1, <1>2, PTL DEF Spec

\* The project whose id a call works with is the one it was asked for.
HolderInv ==
  InProject(call) /\ (pc \in {"find", "act"} \/ changed # {}) =>
    /\ holder.kind = "project" /\ holder.name = call.pname
    /\ holder.in = call.ns /\ holder.id = project

\* A call that looks for a project has one name to do.
LEMMA InProjectReturns ==
  ASSUME FlowInv, InProject(call), NEW code, Returns(code)
  PROVE  pc' = "idle"
<1>1. call.op # "delete_all"
  BY DEF FlowInv, Calls, InProject
<1> QED
  BY <1>1 DEF Returns

LEMMA HolderHolds ==
  ASSUME Calls # {}
  PROVE  Spec => []HolderInv
<1>1. Init => HolderInv
  BY DEF Init, HolderInv
<1>2. FlowInv /\ HolderInv /\ [Next]_gitlabVars => HolderInv'
  <2> SUFFICES ASSUME FlowInv, HolderInv, [Next]_gitlabVars PROVE HolderInv'
    OBVIOUS
  <2>1. CASE \E c \in Calls : Call(c)
    BY <2>1 DEF Call, HolderInv, InProject
  <2> SUFFICES ASSUME call' = call, InProject(call), pc' \in {"find", "act"} \/ changed' # {},
                      InvalidParams \/ FindProject \/ Find \/ Act \/ Others
                        \/ UNCHANGED gitlabVars
               PROVE  /\ holder'.kind = "project" /\ holder'.name = call.pname
                      /\ holder'.in = call.ns /\ holder'.id = project'
    BY <2>1 DEF Next, HolderInv, InProject, InvalidParams, FindProject, Find, Act, Others,
                gitlabVars
  <2>2. CASE FindProject
    <3>1. changed' = {}
      BY <2>2 DEF FindProject, FlowInv
    <3>2. ASSUME NEW code, Returns(code) PROVE FALSE
      BY <3>1, <3>2, InProjectReturns
    <3>3. PICK r \in Searches("project", call.pname, {call.ns}) :
            r[1] = "OK" /\ project' = r[2].id /\ holder' = r[2]
      BY <2>2, <3>2 DEF FindProject
    <3> QED
      BY <3>3, SearchesFind
  <2>3. CASE InvalidParams
    <3>1. pc' = "idle"
      BY <2>3, InProjectReturns DEF InvalidParams
    <3> QED
      BY <2>3, <3>1 DEF InvalidParams, HolderInv
  <2>4. CASE Find \/ Act \/ Others \/ UNCHANGED gitlabVars
    <3>1. holder' = holder /\ project' = project
      BY <2>4 DEF Find, Act, Others, gitlabVars
    <3>2. pc \in {"find", "act"} \/ changed # {}
      BY <2>4 DEF Find, Act, Others, gitlabVars
    <3> QED
      BY <3>1, <3>2 DEF HolderInv
  <2> QED
    BY <2>2, <2>3, <2>4
<1> QED
  BY <1>1, <1>2, FlowHolds, PTL DEF Spec

-----------------------------------------------------------------------------
\* What a request changes was found by the call, or is called by the next name.
LEMMA EffectIsNamed ==
  ASSUME FlowInv, Effect, pc = "act", NEW o \in changed' \ changed
  PROVE  /\ o.kind = call.kind /\ o.name \in Range2(call.names) /\ o.in \in Where(call)
         /\ ~(call.kind \in Numbered /\ call.op \in {"modify", "close", "delete"})
<1>1. Head(todo) \in Range2(call.names)
  <2>1. todo \in Seq(Range2(call.names)) /\ todo # <<>>
    BY DEF FlowInv
  <2> QED
    BY <2>1, HeadTailProperties
<1>2. CASE call.op = "create" /\ Creates
  <2>1. PICK id \in Ids \ used, where \in Where(call) :
          changed' = changed \cup {Object(call.kind, id, Head(todo), where)}
    BY <1>2 DEF Creates
  <2> QED
    BY <1>1, <1>2, <2>1 DEF Object
<1>3. CASE call.op \in {"modify", "close"}
  <2>1. found # None /\ Looks(call) /\ call.kind \in Numbered
    BY <1>3 DEF Effect, Looks, FlowInv, Calls, Numbered
  <2> QED
    BY <2>1 DEF FlowInv
<1>4. CASE call.op \in {"delete", "delete_all"}
  <2>1. PICK p \in Targets : o = IF Looks(call) THEN found ELSE p
    BY <1>4 DEF Effect
  <2>2. CASE Looks(call)
    <3>1. found # None /\ o = found
      BY <2>1, <2>2 DEF Targets
    <3> QED
      BY <2>2, <3>1 DEF FlowInv
  <2>3. CASE ~Looks(call)
    <3>1. o = p /\ p.kind = call.kind /\ p.in = project /\ p.name = Head(todo)
      BY <2>1, <2>3 DEF Targets
    <3>2. call.kind \in {"label", "tag"}
      BY <1>4, <2>3 DEF Looks
    <3> QED
      BY <1>1, <3>1, <3>2 DEF Where, Global, Numbered
  <2> QED
    BY <2>2, <2>3
<1> QED
  BY <1>2, <1>3, <1>4 DEF Effect

\* A step but a new call keeps the call, and what is changed is what was, or what a
\* request changes.
LEMMA ChangedGrows ==
  ASSUME FlowInv, InvalidParams \/ FindProject \/ Find \/ Act \/ Others \/ UNCHANGED gitlabVars
  PROVE  /\ call' = call
         /\ \/ Act /\ Effect /\ project' = project
            \/ changed' = changed /\ project' = project
            \/ changed' = {}
<1>1. CASE Act
  BY <1>1 DEF Act
<1>2. CASE FindProject
  BY <1>2 DEF FindProject, FlowInv
<1>3. CASE InvalidParams \/ Find \/ Others \/ UNCHANGED gitlabVars
  BY <1>3 DEF InvalidParams, Find, Others, gitlabVars
<1> QED
  BY <1>1, <1>2, <1>3

\* The part of OnlyTheNamed that says nothing of the project.
TouchesNamed ==
  \A o \in changed : o.kind = call.kind /\ o.name \in Range2(call.names) /\ o.in \in Where(call)

\* No call of the GitLab client touches an object that it was not asked for by name
\* and place, in a project it was not given by its id or by its name and namespace
\* (gitlabapiclient.cpp:693-745), for all names, namespaces and ids and whatever
\* other clients rename, make and delete in between.
THEOREM OnlyTheNamedHolds ==
  ASSUME Calls # {}
  PROVE  Spec => []OnlyTheNamed
<1>1. Init => TouchesNamed
  BY DEF Init, TouchesNamed
<1>2. FlowInv /\ TouchesNamed /\ [Next]_gitlabVars => TouchesNamed'
  <2> SUFFICES ASSUME FlowInv, TouchesNamed, [Next]_gitlabVars PROVE TouchesNamed'
    OBVIOUS
  <2>1. CASE \E c \in Calls : Call(c)
    BY <2>1 DEF Call, TouchesNamed
  <2>2. CASE InvalidParams \/ FindProject \/ Find \/ Act \/ Others \/ UNCHANGED gitlabVars
    <3>1. CASE changed' = {}
      BY <3>1 DEF TouchesNamed
    <3>2. CASE call' = call /\ changed' = changed /\ project' = project
      BY <3>2, CallKeepsPlace DEF TouchesNamed
    <3>3. CASE Act /\ Effect /\ call' = call /\ project' = project
      <4> SUFFICES ASSUME NEW o \in changed'
                   PROVE  /\ o.kind = call.kind /\ o.name \in Range2(call.names)
                          /\ o.in \in Where(call)
        BY <3>3, CallKeepsPlace DEF TouchesNamed
      <4> QED
        BY <3>3, EffectIsNamed DEF TouchesNamed, Act
    <3> QED
      BY <2>2, <3>1, <3>2, <3>3, ChangedGrows
  <2> QED
    BY <2>1, <2>2 DEF Next
<1>3. FlowInv /\ HolderInv /\ TouchesNamed => OnlyTheNamed
  <2> SUFFICES ASSUME FlowInv, HolderInv, TouchesNamed, NEW o \in changed, InProject(call)
               PROVE  /\ holder.kind = "project" /\ holder.name = call.pname
                      /\ holder.in = call.ns /\ holder.id = o.in
    BY DEF OnlyTheNamed, TouchesNamed
  <2>1. call.kind \notin Global
    BY DEF FlowInv, Calls, InProject, Global, Numbered
  <2>2. o.in = project
    BY <2>1 DEF TouchesNamed, Where
  <2> QED
    BY <2>2 DEF HolderInv
<1> QED
  BY <1>1, <1>2, <1>3, FlowHolds, HolderHolds, PTL DEF Spec

\* An issue or a merge request is never modified, closed or deleted, whatever is
\* there, and no such call says it was: a consequence of the inverted tests of
\* gitlabapiclient.cpp:119, 176, 193, 243 and 260.
THEOREM IssuesStayHolds ==
  ASSUME Calls # {}
  PROVE  Spec => []IssuesStay
<1>1. Init => IssuesStay
  BY DEF Init, IssuesStay
<1>2. FlowInv /\ IssuesStay /\ [Next]_gitlabVars => IssuesStay'
  <2> SUFFICES ASSUME FlowInv, IssuesStay, [Next]_gitlabVars PROVE IssuesStay'
    OBVIOUS
  <2>1. CASE \E c \in Calls : Call(c)
    BY <2>1 DEF Call, IssuesStay
  <2>2. CASE InvalidParams \/ FindProject \/ Find \/ Act \/ Others \/ UNCHANGED gitlabVars
    <3> SUFFICES ASSUME call.kind \in Numbered, call.op \in {"modify", "close", "delete"}
                 PROVE  changed' = {} /\ rc' # "OK"
      BY <2>2, ChangedGrows DEF IssuesStay
    <3>1. Looks(call) /\ call.op # "create" /\ call.op # "delete_all" /\ call.op # "get"
      BY DEF Looks, Numbered
    <3>2. changed = {} /\ rc # "OK"
      BY DEF IssuesStay
    <3>3. ASSUME NEW code, Returns(code), code # "OK" PROVE rc' # "OK"
      BY <3>1, <3>3 DEF Returns
    <3>4. CASE InvalidParams
      BY <3>2, <3>3, <3>4 DEF InvalidParams
    <3>5. CASE FindProject
      <4>1. \A c \in Unanswered("project") : c # "OK"
        BY DEF Unanswered, Code, Numbered
      <4> QED
        BY <3>2, <3>3, <3>5, <4>1 DEF FindProject
    <3>6. CASE Find
      <4>1. \A code, o : Concludes(code, o) => rc' # "OK"
        BY <3>1, <3>2, <3>3 DEF Concludes
      <4> QED
        BY <3>2, <3>6, <4>1 DEF Find
    <3>7. CASE Act
      <4>1. found = None
        BY <3>1, <3>7 DEF Act, FlowInv
      <4>2. ~Effect
        BY <3>1, <4>1 DEF Effect, Targets
      <4>3. Accepted(call, FALSE) # "OK"
        BY DEF Accepted, Refused
      <4> QED
        BY <3>2, <3>3, <3>7, <4>2, <4>3 DEF Act
    <3>8. CASE Others \/ UNCHANGED gitlabVars
      BY <3>2, <3>8 DEF Others, gitlabVars
    <3> QED
      BY <2>2, <3>4, <3>5, <3>6, <3>7, <3>8
  <2> QED
    BY <2>1, <2>2 DEF Next
<1> QED
  BY <1>1, <1>2, FlowHolds, PTL DEF Spec

-----------------------------------------------------------------------------
\* The objects of GitLab have each their own id, one of those given; and what the
\* call deleted had an id that no object has now, nor will have.
IdsInv ==
  /\ \A o \in remote : o = Object(o.kind, o.id, o.name, o.in) /\ o.id \in used
  /\ \A o, p \in remote : o.id = p.id => o = p
  /\ call.op \in {"delete", "delete_all"} =>
       \A o \in changed : o.id \in used /\ \A p \in remote : o.id # p.id

\* A request that deletes an object takes its id away for ever.
LEMMA DeletedIsGone ==
  ASSUME IdsInv, Effect, call.op \in {"delete", "delete_all"}
  PROVE  /\ used' = used /\ remote' \subseteq remote
         /\ \A o \in changed' : o.id \in used /\ \A p \in remote' : o.id # p.id
<1>1. PICK o \in Targets : /\ remote' = Without(o)
                           /\ changed' = changed \cup {IF Looks(call) THEN found ELSE o}
  BY DEF Effect
<1>2. used' = used
  BY DEF Effect
<1>3. o \in remote /\ (IF Looks(call) THEN found ELSE o).id = o.id
  BY DEF Targets
<1>4. remote' = {p \in remote : p # o /\ ~(o.kind = "project" /\ p.in = o.id)}
  BY <1>1 DEF Without
<1>5. \A p \in remote' : p \in remote /\ p.id # o.id
  BY <1>3, <1>4 DEF IdsInv
<1> QED
  BY <1>1, <1>2, <1>3, <1>5 DEF IdsInv

\* Adding an object with a new id, or naming one anew, keeps the ids apart.
LEMMA OthersKeepIds ==
  ASSUME IdsInv, Others
  PROVE  IdsInv'
<1>1. call' = call /\ changed' = changed
  BY DEF Others
<1>2. CASE \E kind \in Kinds, id \in Ids \ used, n \in Names : \E where \in Places(kind) :
             /\ remote' = remote \cup {Object(kind, id, n, where)} /\ used' = used \cup {id}
  <2> PICK kind \in Kinds, id \in Ids \ used, n \in Names : \E where \in Places(kind) :
        /\ remote' = remote \cup {Object(kind, id, n, where)} /\ used' = used \cup {id}
    BY <1>2
  <2> PICK where \in Places(kind) :
        remote' = remote \cup {Object(kind, id, n, where)} /\ used' = used \cup {id}
    OBVIOUS
  <2>1. LET o == Object(kind, id, n, where)
        IN o.id = id /\ o = Object(o.kind, o.id, o.name, o.in)
    BY DEF Object
  <2> QED
    BY <1>1, <2>1 DEF IdsInv
<1>3. CASE used' = used /\ \E o \in remote : remote' = Without(o)
  <2>1. remote' \subseteq remote
    BY <1>3 DEF Without
  <2> QED
    BY <1>1, <1>3, <2>1 DEF IdsInv
<1>4. CASE used' = used /\ \E o \in remote, n \in Names :
                             remote' = (remote \ {o}) \cup {[o EXCEPT !.name = n]}
  <2> PICK o \in remote, n \in Names : remote' = (remote \ {o}) \cup {[o EXCEPT !.name = n]}
    BY <1>4
  <2> DEFINE q == [o EXCEPT !.name = n]
  <2>1. q.id = o.id /\ q = Object(q.kind, q.id, q.name, q.in)
    BY DEF IdsInv, Object
  <2>2. remote' = (remote \ {o}) \cup {q}
    OBVIOUS
  <2> HIDE DEF q
  <2> QED
    BY <1>1, <1>4, <2>1, <2>2 DEF IdsInv
<1> QED
  BY <1>2, <1>3, <1>4 DEF Others

\* The ids are apart in every reachable state.
LEMMA IdsHold ==
  ASSUME Calls # {}
  PROVE  Spec => []IdsInv
<1>1. Init => IdsInv
  BY DEF Init, IdsInv
<1>2. FlowInv /\ IdsInv /\ [Next]_gitlabVars => IdsInv'
  <2> SUFFICES ASSUME FlowInv, IdsInv, [Next]_gitlabVars PROVE IdsInv'
    OBVIOUS
  <2>1. CASE changed' = {} /\ UNCHANGED <<remote, used>>
    BY <2>1 DEF IdsInv
  <2>2. CASE UNCHANGED <<remote, used, call, changed>>
    BY <2>2 DEF IdsInv
  <2>3. CASE Act
    <3>1. call' = call
      BY <2>3 DEF Act
    <3>2. CASE Effect /\ call.op = "create"
      <4>1. PICK id \in Ids \ used, where \in Where(call) :
              /\ remote' = remote \cup {Object(call.kind, id, Head(todo), where)}
              /\ used' = used \cup {id}
        BY <3>2 DEF Effect, Creates
      <4>2. LET o == Object(call.kind, id, Head(todo), where)
            IN o.id = id /\ o = Object(o.kind, o.id, o.name, o.in)
        BY DEF Object
      <4> QED
        BY <3>1, <3>2, <4>1, <4>2 DEF IdsInv
    <3>3. CASE Effect /\ call.op \in {"modify", "close"}
      BY <3>1, <3>3 DEF Effect, IdsInv
    <3>4. CASE Effect /\ call.op \in {"delete", "delete_all"}
      BY <3>1, <3>4, DeletedIsGone DEF IdsInv
    <3>5. Effect => call.op \in {"create", "modify", "close", "delete", "delete_all"}
      BY DEF Effect
    <3> QED
      BY <2>2, <2>3, <3>1, <3>2, <3>3, <3>4, <3>5 DEF Act
  <2> QED
    BY <2>1, <2>2, <2>3, OthersKeepIds
       DEF Next, Call, InvalidParams, FindProject, Find, gitlabVars
<1> QED
  BY <1>1, <1>2, FlowHolds, PTL DEF Spec

-----------------------------------------------------------------------------
\* What is left to do: all the names, with nothing changed, or the second of two,
\* when the first was changed, or was a project that is not there; and the change to
\* come is of the next name.
TodoInv ==
  /\ pc # "idle" =>
       \/ todo = call.names /\ changed = {}
       \/ /\ call.op = "delete_all" /\ todo = Tail(call.names)
          /\ \/ call.kind = "project" /\ changed = {}
             \/ \E o \in changed : changed = {o} /\ o.name = Head(call.names)
  /\ pc = "act" /\ Looks(call) /\ found # None => found.name = Head(todo)

\* The names of a call, and when they are two.
LEMMA OneOrTwo ==
  ASSUME NEW c \in Calls
  PROVE  \/ \E n \in Names \cup {""} : c.names = <<n>> /\ c.op # "delete_all"
         \/ \E m, n \in Names : c.names = <<m, n>> /\ c.op = "delete_all"
<1>0. 1 # 2
  OBVIOUS
<1>1. /\ c.names \in {<<n>> : n \in Names \cup {""}} \cup Names \X Names
      /\ c.op = "delete_all" <=> Len(c.names) = 2
  BY DEF Calls
<1>2. CASE c.names \in {<<n>> : n \in Names \cup {""}}
  <2>1. PICK n \in Names \cup {""} : c.names = <<n>>
    BY <1>2
  <2>2. Len(c.names) = 1
    BY <2>1, Single
  <2>3. c.op # "delete_all"
    BY <1>0, <1>1, <2>2
  <2> QED
    BY <2>1, <2>3
<1>3. CASE c.names \in Names \X Names
  <2>1. PICK m, n \in Names : c.names = <<m, n>>
    BY <1>3
  <2>2. Len(c.names) = 2
    BY <2>1
  <2>3. c.op = "delete_all"
    BY <1>1, <2>2
  <2> QED
    BY <2>1, <2>3
<1> QED
  BY <1>1, <1>2, <1>3

\* How often each name is given, and how many objects have it: one name ...
LEMMA CountOne ==
  ASSUME NEW m, NEW o, o.name = m
  PROVE  \A n \in Range2(<<m>>) :
           /\ Cardinality({p \in {o} : p.name = n}) = 1
           /\ Cardinality({i \in DOMAIN <<m>> : <<m>>[i] = n}) = 1
<1> SUFFICES ASSUME NEW n, n = m
             PROVE  /\ Cardinality({p \in {o} : p.name = n}) = 1
                    /\ Cardinality({i \in DOMAIN <<m>> : <<m>>[i] = n}) = 1
  BY Single
<1>1. {p \in {o} : p.name = n} = {o}
  OBVIOUS
<1>2. {i \in DOMAIN <<m>> : <<m>>[i] = n} = {1}
  <2>1. DOMAIN <<m>> = {1} /\ <<m>>[1] = m
    OBVIOUS
  <2> QED
    BY <2>1
<1>3. Cardinality({o}) = 1 /\ Cardinality({1}) = 1
  BY FS_Singleton
<1> QED
  BY <1>1, <1>2, <1>3

\* ... and two, the same one or not, of which one object or two were changed, or
\* none.
LEMMA CountTwo ==
  ASSUME NEW m1, NEW m2, NEW S,
         \/ S = {}
         \/ \E o : S = {o} /\ (o.name = m1 \/ o.name = m2)
         \/ \E o, p : S = {o, p} /\ o.name = m1 /\ p.name = m2
  PROVE  \A n \in Range2(<<m1, m2>>) :
           LET N == Cardinality({o \in S : o.name = n}) IN
           /\ N <= Cardinality({i \in DOMAIN <<m1, m2>> : <<m1, m2>>[i] = n})
           /\ (\E o, p : S = {o, p} /\ o.name = m1 /\ p.name = m2) => N >= 1
<1>0. Range2(<<m1, m2>>) = {m1, m2}
  BY DEF Range2
<1> SUFFICES ASSUME NEW n \in {m1, m2}
             PROVE  LET N == Cardinality({o \in S : o.name = n}) IN
                    /\ N <= Cardinality({i \in DOMAIN <<m1, m2>> : <<m1, m2>>[i] = n})
                    /\ (\E o, p : S = {o, p} /\ o.name = m1 /\ p.name = m2) => N >= 1
  BY <1>0
<1> DEFINE I == {i \in DOMAIN <<m1, m2>> : <<m1, m2>>[i] = n}
           N == Cardinality({o \in S : o.name = n})
<1>1. I = {i \in {1, 2} : (i = 1 /\ m1 = n) \/ (i = 2 /\ m2 = n)}
  OBVIOUS
<1>2. Cardinality(I) = IF m1 = m2 THEN 2 ELSE 1
  <2>1. CASE m1 = m2
    <3>1. I = {1} \cup {2}
      BY <1>1, <2>1
    <3>2. IsFiniteSet({1}) /\ Cardinality({1}) = 1
      BY FS_Singleton
    <3>3. Cardinality({1} \cup {2}) = 2
      BY <3>2, FS_AddElement
    <3> QED
      BY <2>1, <3>1, <3>3
  <2>2. CASE m1 # m2
    <3>1. I = {1} \/ I = {2}
      BY <1>1, <2>2
    <3> QED
      BY <2>2, <3>1, FS_Singleton
  <2> QED
    BY <2>1, <2>2
<1> HIDE DEF I
<1>3. \A x : Cardinality({x}) = 1 /\ IsFiniteSet({x})
  BY FS_Singleton
<1>4. Cardinality({}) = 0
  BY FS_EmptySet
<1>5. CASE S = {}
  <2>1. {o \in S : o.name = n} = {}
    BY <1>5
  <2> QED
    BY <1>2, <1>4, <1>5, <2>1 DEF I
<1>6. CASE \E o : S = {o} /\ (o.name = m1 \/ o.name = m2)
  <2> PICK o : S = {o} /\ (o.name = m1 \/ o.name = m2)
    BY <1>6
  <2>1. {p \in S : p.name = n} = {} \/ {p \in S : p.name = n} = {o}
    OBVIOUS
  <2>2. N = 0 \/ N = 1
    BY <1>3, <1>4, <2>1
  <2>3. (\E p, q : S = {p, q} /\ p.name = m1 /\ q.name = m2)
          => {p \in S : p.name = n} = {o}
    OBVIOUS
  <2>4. (\E p, q : S = {p, q} /\ p.name = m1 /\ q.name = m2) => N = 1
    BY <1>3, <2>3
  <2> QED
    BY <1>2, <2>2, <2>4 DEF I
<1>7. CASE \E o, p : S = {o, p} /\ o # p /\ o.name = m1 /\ p.name = m2
  <2> PICK o, p : S = {o, p} /\ o # p /\ o.name = m1 /\ p.name = m2
    BY <1>7
  <2>1. CASE m1 = m2
    <3>1. {q \in S : q.name = n} = {o} \cup {p}
      BY <2>1
    <3>2. IsFiniteSet({o}) /\ Cardinality({o}) = 1 /\ p \notin {o}
      BY <1>3
    <3>3. Cardinality({o} \cup {p}) = Cardinality({o}) + 1
      BY <3>2, FS_AddElement
    <3>4. Cardinality({q \in S : q.name = n}) = 2
      BY <3>1, <3>2, <3>3
    <3> QED
      BY <1>2, <2>1, <3>4 DEF I
  <2>2. CASE m1 # m2
    <3>1. {q \in S : q.name = n} = {o} \/ {q \in S : q.name = n} = {p}
      BY <2>2
    <3>2. N = 1
      BY <1>3, <3>1
    <3> QED
      BY <1>2, <2>2, <3>2 DEF I
  <2> QED
    BY <2>1, <2>2
<1>8. (\E o, p : S = {o, p} /\ o.name = m1 /\ p.name = m2)
        => \/ \E o, p : S = {o, p} /\ o # p /\ o.name = m1 /\ p.name = m2
           \/ \E o : S = {o} /\ o.name = m1
  OBVIOUS
<1> QED
  BY <1>5, <1>6, <1>7, <1>8

-----------------------------------------------------------------------------
\* The change a request makes is of one object, and of the name it was asked for.
LEMMA EffectIsOne ==
  ASSUME FlowInv, TodoInv, pc = "act", Effect
  PROVE  \E x : changed' = changed \cup {x} /\ x.name = Head(todo)
<1>1. CASE call.op = "create" /\ Creates
  <2>1. PICK id \in Ids \ used, where \in Where(call) :
          changed' = changed \cup {Object(call.kind, id, Head(todo), where)}
    BY <1>1 DEF Creates
  <2>2. Object(call.kind, id, Head(todo), where).name = Head(todo)
    BY DEF Object
  <2> QED
    BY <2>1, <2>2
<1>2. CASE call.op \in {"modify", "close"} /\ found # None
  BY <1>2 DEF Looks, FlowInv, Calls, Numbered
<1>3. CASE \E o \in Targets : changed' = changed \cup {IF Looks(call) THEN found ELSE o}
  <2> PICK o \in Targets : changed' = changed \cup {IF Looks(call) THEN found ELSE o}
    BY <1>3
  <2>1. (IF Looks(call) THEN found ELSE o).name = Head(todo)
    BY DEF Targets, TodoInv
  <2> QED
    BY <2>1
<1> QED
  BY <1>1, <1>2, <1>3 DEF Effect

\* What a call has left to do: of the only name all of it, of two both, or the second.
LEMMA LeftToDo ==
  ASSUME FlowInv, TodoInv, pc # "idle"
  PROVE  \/ /\ call.op # "delete_all" /\ changed = {}
            /\ \E m : call.names = <<m>> /\ Head(todo) = m
         \/ /\ call.op = "delete_all" /\ Len(todo) = 2 /\ changed = {}
            /\ \E m1, m2 : call.names = <<m1, m2>> /\ Head(todo) = m1
            /\ todo = call.names
         \/ /\ call.op = "delete_all" /\ Len(todo) = 1
            /\ \E m1, m2 : /\ call.names = <<m1, m2>> /\ Head(todo) = m2
                           /\ \/ call.kind = "project" /\ changed = {}
                              \/ \E o : changed = {o} /\ o.name = m1
<1>1. call \in Calls
  BY DEF FlowInv
<1>2. CASE \E m \in Names \cup {""} : call.names = <<m>> /\ call.op # "delete_all"
  <2>1. PICK m \in Names \cup {""} : call.names = <<m>> /\ call.op # "delete_all"
    BY <1>2
  <2>2. todo = call.names /\ changed = {}
    BY <2>1 DEF TodoInv
  <2> QED
    BY <2>1, <2>2, Single
<1>3. CASE \E m1, m2 \in Names : call.names = <<m1, m2>> /\ call.op = "delete_all"
  <2>1. PICK m1, m2 \in Names : call.names = <<m1, m2>> /\ call.op = "delete_all"
    BY <1>3
  <2>2. Head(<<m1, m2>>) = m1 /\ Len(<<m1, m2>>) = 2
    OBVIOUS
  <2>3. Tail(<<m1, m2>>) = <<m2>>
    OBVIOUS
  <2>4. Head(<<m2>>) = m2 /\ Len(<<m2>>) = 1
    OBVIOUS
  <2>5. CASE todo = call.names /\ changed = {}
    BY <2>1, <2>2, <2>5
  <2>6. CASE /\ todo = Tail(call.names)
             /\ \/ call.kind = "project" /\ changed = {}
                \/ \E o : changed = {o} /\ o.name = Head(call.names)
    <3>1. todo = <<m2>>
      BY <2>1, <2>3, <2>6
    <3> QED
      BY <2>1, <2>2, <2>4, <2>6, <3>1
  <2> QED
    BY <2>5, <2>6 DEF TodoInv
<1> QED
  BY <1>1, <1>2, <1>3, OneOrTwo

\* A return with another code than GITLAB_RC_OK ends the call with another result,
\* unless a project of delete_projects() is not there.
LEMMA FailureReturns ==
  ASSUME FlowInv, NEW code, Returns(code), code # "OK"
  PROVE  \/ pc' = "idle" /\ rc' # "OK"
         \/ /\ call.op = "delete_all" /\ call.kind = "project" /\ todo' = Tail(todo)
            /\ IF Len(todo) = 1 THEN pc' = "idle" ELSE pc' = "find"
BY DEF Returns, GoesOn

LEMMA TodoAfterFailure ==
  ASSUME FlowInv, TodoInv, NEW code, Returns(code), code # "OK", pc # "idle",
         call' = call, changed' = changed
  PROVE  TodoInv'
<1>1. CASE pc' = "idle"
  BY <1>1 DEF TodoInv
<1>2. CASE /\ call.op = "delete_all" /\ call.kind = "project" /\ todo' = Tail(todo)
           /\ Len(todo) # 1 /\ pc' = "find"
  <2>1. todo = call.names /\ changed = {}
    BY <1>2, LeftToDo
  <2> QED
    BY <1>2, <2>1 DEF TodoInv
<1> QED
  BY <1>1, <1>2, FailureReturns

LEMMA TodoHolds ==
  ASSUME Calls # {}
  PROVE  Spec => []TodoInv
<1>1. Init => TodoInv
  BY DEF Init, TodoInv
<1>2. FlowInv /\ TodoInv /\ [Next]_gitlabVars => TodoInv'
  <2> SUFFICES ASSUME FlowInv, TodoInv, [Next]_gitlabVars PROVE TodoInv'
    OBVIOUS
  <2>1. CASE \E c \in Calls : Call(c)
    BY <2>1 DEF Call, TodoInv
  <2>2. CASE InvalidParams
    <3>1. pc # "idle" /\ Returns("INVALID_PARAMS") /\ call' = call /\ changed' = changed
      BY <2>2 DEF InvalidParams, Incomplete
    <3> QED
      BY <3>1, TodoAfterFailure
  <2>3. CASE FindProject
    <3>1. pc = "project" /\ found = None /\ UNCHANGED <<call, changed, found>>
      BY <2>3 DEF FindProject, FlowInv
    <3>2. \A c \in Unanswered("project") : c # "OK"
      BY DEF Unanswered, Code, Numbered
    <3>3. CASE \E c : c # "OK" /\ Returns(c)
      BY <3>1, <3>3, TodoAfterFailure
    <3>4. CASE pc' \in {"find", "act"} /\ UNCHANGED todo
      BY <3>1, <3>4 DEF TodoInv
    <3> QED
      BY <2>3, <3>2, <3>3, <3>4 DEF FindProject
  <2>4. CASE Find
    <3>1. pc = "find" /\ UNCHANGED <<call, changed>>
      BY <2>4 DEF Find
    <3>2. PICK code, o : /\ Concludes(code, o)
                         /\ code # "OK" => o = None
                         /\ code = "OK" => o.name = Head(todo)
      <4>1. CASE \E c \in Unanswered(call.kind) : Concludes(c, None)
        <5> PICK c \in Unanswered(call.kind) : Concludes(c, None)
          BY <4>1
        <5>1. c # "OK"
          BY DEF Unanswered, Code
        <5> QED
          BY <5>1
      <4>2. CASE \E r \in Searches(call.kind, Head(todo), Where(call)) : Concludes(r[1], r[2])
        BY <4>2, SearchesFind
      <4> QED
        BY <2>4, <4>1, <4>2 DEF Find
    <3>3. CASE call.op = "get" /\ Returns(code)
      BY <3>3 DEF Returns, TodoInv
    <3>4. CASE pc' = "act" /\ UNCHANGED todo
      BY <3>1, <3>2, <3>4 DEF Concludes, TodoInv
    <3>5. CASE \E c : c # "OK" /\ Returns(c)
      BY <3>1, <3>5, TodoAfterFailure
    <3>6. call.kind \notin Numbered /\ ~ActsUpon(call.kind, code) => code # "OK"
      BY DEF ActsUpon
    <3> QED
      BY <3>2, <3>3, <3>4, <3>5, <3>6 DEF Concludes
  <2>5. CASE Act
    <3>1. pc = "act" /\ call' = call
      BY <2>5 DEF Act
    <3>2. CASE UNCHANGED changed /\ Returns(Accepted(call, FALSE))
      <4>1. Accepted(call, FALSE) # "OK"
        BY DEF Accepted, Refused
      <4> QED
        BY <3>1, <3>2, <4>1, TodoAfterFailure
    <3>3. CASE Returns(Refused(call))
      <4>1. pc' = "idle"
        BY <3>3 DEF Refused, Returns, GoesOn
      <4> QED
        BY <4>1 DEF TodoInv
    <3>4. CASE Effect /\ Returns(Accepted(call, TRUE))
      <4>1. CASE pc' = "idle"
        BY <4>1 DEF TodoInv
      <4>2. CASE call.op = "delete_all" /\ todo' = Tail(todo) /\ Len(todo) # 1 /\ pc' = "find"
        <5>1. todo = call.names /\ changed = {}
          BY <3>1, <4>2, LeftToDo
        <5>2. \E x : changed' = {x} /\ x.name = Head(call.names)
          BY <3>1, <3>4, <5>1, EffectIsOne
        <5> QED
          BY <3>1, <4>2, <5>1, <5>2 DEF TodoInv
      <4> QED
        BY <3>4, <4>1, <4>2 DEF Returns
    <3> QED
      BY <2>5, <3>2, <3>3, <3>4 DEF Act
  <2>6. CASE Others \/ UNCHANGED gitlabVars
    BY <2>6 DEF Others, gitlabVars, TodoInv, Looks
  <2> QED
    BY <2>1, <2>2, <2>3, <2>4, <2>5, <2>6 DEF Next
<1> QED
  BY <1>1, <1>2, FlowHolds, PTL DEF Spec

-----------------------------------------------------------------------------
\* The first part of OkMeansDone: each name that was given was done.
DoneInv ==
  pc = "idle" /\ rc = "OK" /\ call.op # "get" =>
    \A n \in Range2(call.names) :
      LET N == Cardinality({o \in changed : o.name = n}) IN
      /\ N <= Cardinality({i \in DOMAIN call.names : call.names[i] = n})
      /\ N >= 1 \/ (call.op = "delete_all" /\ call.kind = "project")

\* delete_projects() may end well with a project that is not there.
LEMMA DoneAfterFailure ==
  ASSUME FlowInv, TodoInv, NEW code, Returns(code), code # "OK", pc # "idle",
         call' = call, changed' = changed
  PROVE  DoneInv'
<1>1. CASE rc' # "OK" \/ pc' # "idle"
  BY <1>1 DEF DoneInv
<1>2. CASE call.op = "delete_all" /\ call.kind = "project" /\ Len(todo) = 1
  <2>1. PICK m1, m2 : /\ call.names = <<m1, m2>>
                      /\ changed = {} \/ \E o : changed = {o} /\ o.name = m1
    BY <1>2, LeftToDo
  <2>2. \A n \in Range2(<<m1, m2>>) :
          Cardinality({o \in changed : o.name = n})
            <= Cardinality({i \in DOMAIN <<m1, m2>> : <<m1, m2>>[i] = n})
    <3>1. changed = {} \/ \E o : changed = {o} /\ (o.name = m1 \/ o.name = m2)
      BY <2>1
    <3> QED
      BY ONLY <3>1, CountTwo
  <2> QED
    BY <1>2, <2>1, <2>2 DEF DoneInv
<1> QED
  BY <1>1, <1>2, FailureReturns

\* A change that was answered does the last name, or the only one.
LEMMA DoneAfterChange ==
  ASSUME FlowInv, TodoInv, pc = "act", Effect, Returns("OK"), call' = call
  PROVE  DoneInv'
<1> PICK x : changed' = changed \cup {x} /\ x.name = Head(todo)
  BY EffectIsOne
<1>1. CASE call.op # "delete_all"
  <2>1. PICK m : call.names = <<m>> /\ Head(todo) = m
    BY <1>1, LeftToDo
  <2>2. changed' = {x} /\ x.name = m
    BY <1>1, <2>1, LeftToDo
  <2>3. \A n \in Range2(<<m>>) :
          /\ Cardinality({o \in {x} : o.name = n}) = 1
          /\ Cardinality({i \in DOMAIN <<m>> : <<m>>[i] = n}) = 1
    BY <2>2, CountOne
  <2>4. \A n \in Range2(call.names) :
          /\ Cardinality({o \in changed' : o.name = n}) = 1
          /\ Cardinality({i \in DOMAIN call.names : call.names[i] = n}) = 1
    BY <2>1, <2>2, <2>3
  <2> QED
    BY <2>4 DEF DoneInv
<1>2. CASE call.op = "delete_all" /\ Len(todo) = 1
  <2>1. PICK m1, m2 : /\ call.names = <<m1, m2>> /\ Head(todo) = m2
                      /\ \/ call.kind = "project" /\ changed = {}
                         \/ \E o : changed = {o} /\ o.name = m1
    BY <1>2, LeftToDo
  <2>2. \A n \in Range2(<<m1, m2>>) :
          LET N == Cardinality({o \in changed' : o.name = n}) IN
          /\ N <= Cardinality({i \in DOMAIN <<m1, m2>> : <<m1, m2>>[i] = n})
          /\ (\E o, p : changed' = {o, p} /\ o.name = m1 /\ p.name = m2) => N >= 1
    <3>1. \/ \E o : changed' = {o} /\ (o.name = m1 \/ o.name = m2)
          \/ \E o, p : changed' = {o, p} /\ o.name = m1 /\ p.name = m2
      BY <2>1
    <3>2. PICK S : S = changed'
      OBVIOUS
    <3>3. \/ S = {} \/ \E o : S = {o} /\ (o.name = m1 \/ o.name = m2)
          \/ \E o, p : S = {o, p} /\ o.name = m1 /\ p.name = m2
      BY <3>1, <3>2
    <3>4. \A n \in Range2(<<m1, m2>>) :
            LET N == Cardinality({o \in S : o.name = n}) IN
            /\ N <= Cardinality({i \in DOMAIN <<m1, m2>> : <<m1, m2>>[i] = n})
            /\ (\E o, p : S = {o, p} /\ o.name = m1 /\ p.name = m2) => N >= 1
      BY ONLY <3>3, CountTwo
    <3> QED
      BY <3>2, <3>4
  <2>3. call.kind # "project" =>
          \E o, p : changed' = {o, p} /\ o.name = m1 /\ p.name = m2
    BY <2>1
  <2>4. \A n \in Range2(call.names) :
          LET N == Cardinality({o \in changed' : o.name = n}) IN
          /\ N <= Cardinality({i \in DOMAIN call.names : call.names[i] = n})
          /\ N >= 1 \/ call.kind = "project"
    BY <2>1, <2>2, <2>3
  <2> QED
    BY <1>2, <2>4 DEF DoneInv
<1>3. CASE call.op = "delete_all" /\ Len(todo) # 1
  BY <1>3 DEF Returns, GoesOn, DoneInv
<1> QED
  BY <1>1, <1>2, <1>3

\* A call of the GitLab client that changes something and returns GITLAB_RC_OK has
\* done it, once for each time a name was given (gitlabapiclient.cpp:42-372), and
\* no object has the id of a deleted one; for all names, ids and namespaces,
\* whatever other clients do and whichever requests fail.
THEOREM OkMeansDoneHolds ==
  ASSUME Calls # {}
  PROVE  Spec => []OkMeansDone
<1>1. Init => DoneInv
  BY DEF Init, DoneInv
<1>2. FlowInv /\ TodoInv /\ DoneInv /\ [Next]_gitlabVars => DoneInv'
  <2> SUFFICES ASSUME FlowInv, TodoInv, DoneInv, [Next]_gitlabVars PROVE DoneInv'
    OBVIOUS
  <2>1. CASE \E c \in Calls : Call(c)
    <3>1. pc' # "idle"
      BY <2>1 DEF Call
    <3> QED
      BY <3>1 DEF DoneInv
  <2>2. CASE InvalidParams
    <3>1. pc # "idle" /\ Returns("INVALID_PARAMS") /\ call' = call /\ changed' = changed
      BY <2>2 DEF InvalidParams, Incomplete
    <3> QED
      BY <3>1, DoneAfterFailure
  <2>3. CASE FindProject
    <3>1. pc # "idle" /\ UNCHANGED <<call, changed>>
      BY <2>3 DEF FindProject
    <3>2. \A c \in Unanswered("project") : c # "OK"
      BY DEF Unanswered, Code, Numbered
    <3>3. CASE \E c : c # "OK" /\ Returns(c)
      BY <3>1, <3>3, DoneAfterFailure
    <3>4. CASE pc' \in {"find", "act"}
      BY <3>4 DEF DoneInv
    <3> QED
      BY <2>3, <3>2, <3>3, <3>4 DEF FindProject
  <2>4. CASE Find
    <3>1. pc # "idle" /\ UNCHANGED <<call, changed>>
      BY <2>4 DEF Find
    <3>2. PICK code, o : Concludes(code, o)
      BY <2>4 DEF Find
    <3>3. CASE call.op = "get" \/ pc' = "act"
      BY <3>1, <3>3 DEF DoneInv
    <3>4. CASE \E c : c # "OK" /\ Returns(c)
      BY <3>1, <3>4, DoneAfterFailure
    <3>5. call.kind \notin Numbered /\ ~ActsUpon(call.kind, code) => code # "OK"
      BY DEF ActsUpon
    <3> QED
      BY <3>2, <3>3, <3>4, <3>5 DEF Concludes
  <2>5. CASE Act
    <3>1. pc = "act" /\ call' = call
      BY <2>5 DEF Act
    <3>2. CASE UNCHANGED changed /\ Returns(Accepted(call, FALSE))
      <4>1. Accepted(call, FALSE) # "OK"
        BY DEF Accepted, Refused
      <4> QED
        BY <3>1, <3>2, <4>1, DoneAfterFailure
    <3>3. CASE Returns(Refused(call))
      <4>1. rc' # "OK"
        BY <3>3 DEF Refused, Returns, GoesOn
      <4> QED
        BY <4>1 DEF DoneInv
    <3>4. CASE Effect /\ Returns(Accepted(call, TRUE))
      <4>1. CASE Accepted(call, TRUE) = "OK"
        BY <3>1, <3>4, <4>1, DoneAfterChange
      <4>2. CASE call.op = "modify"
        BY <3>1, <3>4, <4>2 DEF Accepted, Refused, Returns, DoneInv
      <4> QED
        BY <4>1, <4>2 DEF Accepted
    <3> QED
      BY <2>5, <3>2, <3>3, <3>4 DEF Act
  <2>6. CASE Others \/ UNCHANGED gitlabVars
    <3>1. UNCHANGED <<pc, rc, call, changed>>
      BY <2>6 DEF Others, gitlabVars
    <3> QED
      BY <3>1 DEF DoneInv
  <2> QED
    BY <2>1, <2>2, <2>3, <2>4, <2>5, <2>6 DEF Next
<1>3. DoneInv /\ IdsInv => OkMeansDone
  BY DEF DoneInv, IdsInv, OkMeansDone
<1> QED
  BY <1>1, <1>2, <1>3, FlowHolds, TodoHolds, IdsHold, PTL DEF Spec
==============================================================================
