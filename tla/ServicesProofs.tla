--------------------------- MODULE ServicesProofs ----------------------------
(***************************************************************************)
(* Theorems about the clients of services and the HTTP client and server,  *)
(* for all values of their constants.  The services share nothing, and     *)
(* each behaves as its own specification says, so that every property is   *)
(* proved of its module alone.                                             *)
(***************************************************************************)
EXTENDS Services, SequenceTheorems, TLAPS

\* Each of the services behaves as its own specification says.
THEOREM ServicesRunTheirParts ==
  ServicesSpec => Http!Spec /\ Jira!Spec /\ Spec /\ Slack!Spec /\ Irc!Spec
<1>1. ServicesInit => Http!Init /\ Jira!Init /\ Init /\ Slack!Init /\ Irc!Init
  BY DEF ServicesInit
<1>2. [ServicesNext]_vars =>
        /\ [Http!Next]_(Http!httpVars) /\ [Jira!Next]_(Jira!jiraVars) /\ [Next]_elasticVars
        /\ [Slack!Next]_(Slack!slackVars) /\ [Irc!Next]_(Irc!ircVars)
  BY DEF ServicesNext, vars, httpV, jiraV, slackV, ircV, Http!httpVars, Http!clientVars,
         Http!serverVars, Jira!jiraVars, Slack!slackVars, Irc!ircVars
<1> QED
  BY <1>1, <1>2, PTL DEF ServicesSpec, Http!Spec, Jira!Spec, Spec, Slack!Spec, Irc!Spec

-----------------------------------------------------------------------------
(***************************************************************************)
(* The HTTP client and server                                              *)
(***************************************************************************)

\* What the client holds is what the caller means the next request to carry.
AddedInv == hAdded = Http!Meant(m_http_headers, m_uri_params, m_form_params)

\* What is on its way is what its caller meant.
WireInv ==
  /\ DOMAIN wire = Http!Request
  /\ \A i \in Http!Request : wire[i] # Http!NoRequest =>
       Http!Meant(wire[i].headers, wire[i].params, wire[i].form) = wire[i].meant

\* A request waits without a session, has one while it is served and none when it
\* is answered; until it is marked, its handler was not called, and only the handler
\* answers with JSON.
ServerInv ==
  /\ sent \in 0..MaxRequests
  /\ {DOMAIN conn, DOMAIN session, DOMAIN handled, DOMAIN page, DOMAIN calls} = {Http!Request}
  /\ \A i \in Http!Request :
       /\ i > sent => conn[i] = "none"
       /\ conn[i] \in {"none", "sent"} => session[i] = "none"
       /\ conn[i] \in {"sent", "open"} => wire[i] # Http!NoRequest
       /\ conn[i] = "open" => session[i] = "live"
       /\ conn[i] = "answered" => session[i] = "freed"
       /\ session[i] = "none" => ~handled[i]
       /\ calls[i] \in {0, 1}
       /\ session[i] # "freed" /\ ~handled[i] => calls[i] = 0
       /\ page[i].body = "json" => calls[i] = 1

\* What a _get_json() without data sends is not read by the server.
Unreadable(w) == "json" \in w.headers /\ w.body = "none"

\* The result of the call, and what became of its request.
ResultInv ==
  /\ hPc = "perform" \/ hResult # "none" => sent > 0
  /\ hResult = "true" /\ ~query.quiet => calls[sent] = 1
  /\ sent > 0 /\ query.call = "_get_json" /\ query.data = "none" =>
       /\ calls[sent] = 0
       /\ wire[sent] # Http!NoRequest => Unreadable(wire[sent])

HttpInv == AddedInv /\ WireInv /\ ServerInv /\ ResultInv

\* What every finished call leaves behind.
LEMMA FinishLeaves ==
  ASSUME NEW a, Http!Finishes(a)
  PROVE  /\ m_uri_params' = {} /\ m_form_params' = {}
         /\ m_http_headers' = (IF query.keep THEN m_http_headers ELSE {})
         /\ hAdded' = Http!Meant(IF query.keep THEN hAdded.headers ELSE {}, {}, {})
         /\ hPc' = "idle" /\ UNCHANGED <<query, sent, session, handled, calls>>
         /\ hResult' = "true" =>
              /\ query.call # "request"
              /\ a.body = "json" \/ (query.quiet /\ a.body = "")
              /\ query.call \in {"_get_json", "_delete"} => a.body = "json"
BY DEF Http!Finishes, Http!Clears, Http!PostAccepts

LEMMA AddedStep ==
  ASSUME AddedInv, [Http!Next]_(Http!httpVars)
  PROVE  AddedInv'
<1>1. CASE Http!Adds
  <2>1. ASSUME NEW h \in Headers, Http!AddHttpHeader(h) PROVE AddedInv'
    BY <2>1 DEF AddedInv, Http!AddHttpHeader, Http!Meant
  <2>2. ASSUME NEW p \in Params, Http!AddUriParam(p) \/ Http!AddFormParam(p) PROVE AddedInv'
    BY <2>2 DEF AddedInv, Http!AddUriParam, Http!AddFormParam, Http!Meant
  <2> QED
    BY <1>1, <2>1, <2>2 DEF Http!Adds
<1>2. ASSUME NEW q \in Http!Queries, Http!Perform(q) PROVE AddedInv'
  BY <1>2 DEF AddedInv, Http!Perform, Http!Meant
<1>3. CASE Http!Receives \/ Http!Fails
  <2>1. PICK a : Http!Finishes(a)
    BY <1>3 DEF Http!Receives, Http!Fails
  <2>2. hAdded.headers = m_http_headers
    BY DEF AddedInv, Http!Meant
  <2> QED
    BY <2>1, <2>2, FinishLeaves DEF AddedInv
<1>4. CASE \/ \E i \in Http!Request : Http!Serves(i) \/ Http!Aborts(i)
           \/ UNCHANGED Http!httpVars
  <2>1. UNCHANGED <<hAdded, m_http_headers, m_uri_params, m_form_params>>
    BY <1>4 DEF Http!Serves, Http!Aborts, Http!clientVars, Http!httpVars
  <2> QED
    BY <2>1 DEF AddedInv
<1> QED
  BY <1>1, <1>2, <1>3, <1>4 DEF Http!Next

\* The request that is sent, and the place it takes.
LEMMA Sends ==
  ASSUME ServerInv, WireInv, NEW q \in Http!Queries, Http!Perform(q)
  PROVE  /\ sent \in Nat /\ sent + 1 \in Http!Request /\ sent' = sent + 1
         /\ hPc' = "perform" /\ hResult' = "none"
         /\ query' = [q EXCEPT !.data = Http!Body(q)]
         /\ conn[sent + 1] = "none" /\ session[sent + 1] = "none" /\ calls[sent + 1] = 0
         /\ DOMAIN wire' = Http!Request
         /\ \A i \in Http!Request : i # sent + 1 => wire'[i] = wire[i] /\ conn'[i] = conn[i]
         /\ conn' = [conn EXCEPT ![sent + 1] = "sent"] /\ conn'[sent + 1] = "sent"
         /\ UNCHANGED <<session, handled, page, calls>>
         /\ wire'[sent + 1] # Http!NoRequest
         /\ wire'[sent + 1].params = m_uri_params /\ wire'[sent + 1].form = m_form_params
         /\ wire'[sent + 1].headers = m_http_headers \cup Http!Announced(q)
         /\ wire'[sent + 1].meant =
              [hAdded EXCEPT !.headers = hAdded.headers \cup Http!Announced(q)]
         /\ wire'[sent + 1].body = Http!Body(q)
<1> DEFINE w == [method |-> Http!WireMethod(q), url |-> q.url,
                 headers |-> m_http_headers \cup Http!Announced(q),
                 params |-> m_uri_params, form |-> m_form_params, body |-> Http!Body(q),
                 meant |-> [hAdded EXCEPT !.headers = hAdded.headers \cup Http!Announced(q)],
                 quiet |-> q.quiet]
<1>1. sent \in Nat /\ sent + 1 \in Http!Request
  <2>1. MaxRequests \in Nat /\ sent \in 0..MaxRequests /\ sent < MaxRequests
    BY ServicesAssumption DEF Http!HttpConstants, ServerInv, Http!Perform
  <2> QED
    BY <2>1 DEF Http!Request
<1>2. conn[sent + 1] = "none" /\ session[sent + 1] = "none" /\ calls[sent + 1] = 0
  <2>1. sent + 1 > sent
    BY <1>1
  <2> QED
    BY <1>1, <2>1 DEF ServerInv
<1>3. w # Http!NoRequest
  <2>1. q.method # "none"
    BY ServicesAssumption DEF Http!Queries, Http!HttpConstants
  <2>2. w.method # "none"
    BY <2>1 DEF Http!WireMethod
  <2> QED
    BY <2>2 DEF Http!NoRequest
<1>4. /\ wire' = [wire EXCEPT ![sent + 1] = w] /\ conn' = [conn EXCEPT ![sent + 1] = "sent"]
      /\ sent' = sent + 1 /\ hPc' = "perform" /\ hResult' = "none"
      /\ query' = [q EXCEPT !.data = Http!Body(q)]
      /\ UNCHANGED <<session, handled, page, calls>>
  BY DEF Http!Perform
<1>5. DOMAIN wire = Http!Request /\ DOMAIN conn = Http!Request
  BY DEF WireInv, ServerInv
<1>6. /\ w.params = m_uri_params /\ w.form = m_form_params /\ w.body = Http!Body(q)
      /\ w.headers = m_http_headers \cup Http!Announced(q)
      /\ w.meant = [hAdded EXCEPT !.headers = hAdded.headers \cup Http!Announced(q)]
  OBVIOUS
<1> HIDE DEF w
<1>7. wire'[sent + 1] = w /\ conn'[sent + 1] = "sent" /\ DOMAIN wire' = Http!Request
  BY ONLY <1>1, <1>4, <1>5
<1>8. \A i \in Http!Request : i # sent + 1 => wire'[i] = wire[i] /\ conn'[i] = conn[i]
  BY ONLY <1>4, <1>5
<1> QED
  BY ONLY <1>1, <1>2, <1>3, <1>4, <1>6, <1>7, <1>8

LEMMA WireStep ==
  ASSUME AddedInv, WireInv, ServerInv, [Http!Next]_(Http!httpVars)
  PROVE  WireInv'
<1>1. ASSUME NEW q \in Http!Queries, Http!Perform(q) PROVE WireInv'
  <2> DEFINE w == wire'[sent + 1]
  <2>1. /\ w.params = m_uri_params /\ w.form = m_form_params
        /\ w.headers = m_http_headers \cup Http!Announced(q)
        /\ w.meant = [hAdded EXCEPT !.headers = hAdded.headers \cup Http!Announced(q)]
        /\ \A i \in Http!Request : i # sent + 1 => wire'[i] = wire[i]
        /\ DOMAIN wire' = Http!Request
    BY <1>1, Sends
  <2>2. Http!Meant(w.headers, w.params, w.form) = w.meant
    BY <2>1 DEF AddedInv, Http!Meant
  <2> QED
    BY <2>1, <2>2 DEF WireInv
<1>2. CASE \/ Http!Adds \/ Http!Receives \/ UNCHANGED Http!httpVars
  <2>1. wire' = wire
    BY <1>2 DEF Http!Adds, Http!Receives, Http!httpVars
  <2> QED
    BY <2>1 DEF WireInv
<1>3. CASE Http!Fails \/ \E i \in Http!Request : Http!Serves(i) \/ Http!Aborts(i)
  <2>1. wire' = wire \/ \E i : wire' = [wire EXCEPT ![i] = Http!NoRequest]
    BY <1>3 DEF Http!Fails, Http!Serves, Http!Aborts, Http!FirstCall, Http!BodyCall,
                Http!LastCall
  <2>2. DOMAIN wire' = Http!Request
    BY <2>1 DEF WireInv
  <2>3. \A i \in Http!Request : wire'[i] = wire[i] \/ wire'[i] = Http!NoRequest
    BY <2>1 DEF WireInv
  <2> QED
    BY <2>2, <2>3 DEF WireInv
<1> QED
  BY <1>1, <1>2, <1>3 DEF Http!Next

\* What the server makes of a request it has not handled.
LEMMA Handles ==
  ASSUME ServerInv, NEW i \in Http!Request, NEW whole, ~handled[i], session[i] = "live",
         Http!HandlesUnlessHandled(i, whole)
  PROVE  /\ DOMAIN page' = Http!Request /\ DOMAIN calls' = Http!Request
         /\ \A j \in Http!Request : j # i => page'[j] = page[j] /\ calls'[j] = calls[j]
         /\ calls'[i] \in {0, 1} /\ (page'[i].body = "json" => calls'[i] = 1)
         /\ Unreadable(wire[i]) => calls'[i] = 0
<1>1. calls[i] = 0 /\ DOMAIN page = Http!Request /\ DOMAIN calls = Http!Request
  BY DEF ServerInv
<1>2. Http!HandleQuery(i, whole)
  BY DEF Http!HandlesUnlessHandled
<1>3. CASE page' = [page EXCEPT ![i] = Http!BadRequest] /\ calls' = calls
  BY <1>1, <1>3 DEF Http!BadRequest
<1>4. CASE /\ TRUE \in Http!Readable(wire[i], whole)
           /\ \E b \in {"", "text", "json", "null"} :
                page' = [page EXCEPT ![i] = IF b = "null" THEN Http!BadRequest
                                            ELSE [code |-> 200, body |-> b]]
           /\ calls' = [calls EXCEPT ![i] = @ + 1]
  <2>1. /\ calls'[i] = 1 /\ DOMAIN calls' = Http!Request
        /\ \A j \in Http!Request : j # i => calls'[j] = calls[j]
    <3>1. calls' = [calls EXCEPT ![i] = 1]
      <4>1. calls' = [calls EXCEPT ![i] = calls[i] + 1]
        BY <1>4
      <4>2. calls[i] + 1 = 1
        BY <1>1
      <4> QED
        BY <4>1, <4>2
    <3> QED
      BY <1>1, <3>1
  <2>2. PICK pg : page' = [page EXCEPT ![i] = pg]
    BY ONLY <1>4
  <2>3. /\ DOMAIN page' = Http!Request
        /\ \A j \in Http!Request : j # i => page'[j] = page[j]
    BY ONLY <1>1, <2>2
  <2>4. ~Unreadable(wire[i])
    BY <1>4 DEF Unreadable, Http!Readable, Http!ContentType
  <2> QED
    BY <2>1, <2>3, <2>4
<1> QED
  BY <1>2, <1>3, <1>4 DEF Http!HandleQuery

\* Every call of the server's handler for a request.
LEMMA Serving ==
  ASSUME ServerInv, WireInv, NEW i \in Http!Request, Http!Serves(i)
  PROVE  /\ ServerInv'
         /\ UNCHANGED <<Http!clientVars, sent>>
         /\ \A j \in Http!Request :
              /\ calls[j] = 1 => calls'[j] = 1
              /\ wire'[j] = wire[j] \/ wire'[j] = Http!NoRequest
              /\ calls[j] = 0 /\ (wire[j] # Http!NoRequest => Unreadable(wire[j])) => calls'[j] = 0
<1>1. UNCHANGED <<Http!clientVars, sent>>
  BY DEF Http!Serves
<1>2. /\ DOMAIN conn = Http!Request /\ DOMAIN session = Http!Request
      /\ DOMAIN handled = Http!Request /\ DOMAIN page = Http!Request
      /\ DOMAIN calls = Http!Request /\ DOMAIN wire = Http!Request
  BY DEF ServerInv, WireInv
<1>3. CASE Http!FirstCall(i)
  <2>1. /\ conn' = [conn EXCEPT ![i] = "open"] /\ session' = [session EXCEPT ![i] = "live"]
        /\ page' = [page EXCEPT ![i] = Http!FreshPage] /\ conn[i] = "sent"
        /\ UNCHANGED <<handled, calls, wire>>
    BY <1>3 DEF Http!FirstCall
  <2>2. /\ conn'[i] = "open" /\ session'[i] = "live" /\ page'[i].body = ""
        /\ \A j \in Http!Request : j # i =>
             conn'[j] = conn[j] /\ session'[j] = session[j] /\ page'[j] = page[j]
    BY <1>2, <2>1 DEF Http!FreshPage
  <2>3. /\ {DOMAIN conn', DOMAIN session', DOMAIN handled', DOMAIN page', DOMAIN calls'}
             = {Http!Request}
    BY <1>2, <2>1
  <2>4. session[i] = "none" /\ ~handled[i] /\ calls[i] = 0 /\ wire[i] # Http!NoRequest
        /\ ~(i > sent)
    BY <2>1 DEF ServerInv
  <2>5. ServerInv'
    <3>1. ASSUME NEW j \in Http!Request, j # i PROVE ServerInv!3!(j)'
      <4>1. UNCHANGED <<conn[j], session[j], page[j], handled, calls, wire, sent>>
        BY <1>1, <2>1, <2>2, <3>1
      <4> QED
        BY <4>1 DEF ServerInv
    <3>2. ServerInv!3!(i)'
      BY <1>1, <2>1, <2>2, <2>4
    <3> QED
      BY <1>1, <2>3, <3>1, <3>2 DEF ServerInv
  <2> QED
    BY <1>1, <2>1, <2>5
<1>4. CASE Http!BodyCall(i) \/ Http!LastCall(i)
  <2>1. /\ conn[i] = "open" /\ session[i] = "live" /\ wire[i] # Http!NoRequest /\ ~(i > sent)
        /\ \E whole : Http!HandlesUnlessHandled(i, whole)
    BY <1>4 DEF Http!BodyCall, Http!LastCall, ServerInv
  <2>2. \/ handled' = [handled EXCEPT ![i] = TRUE] /\ UNCHANGED <<conn, session, wire>>
        \/ /\ conn' \in {[conn EXCEPT ![i] = "answered"], [conn EXCEPT ![i] = "closed"]}
           /\ wire' = [wire EXCEPT ![i] = Http!NoRequest]
           /\ session' = [session EXCEPT ![i] = "freed"]
           /\ UNCHANGED handled
    BY <1>4 DEF Http!BodyCall, Http!LastCall, Http!Marks, Http!Frees
  <2>3. /\ DOMAIN conn' = Http!Request /\ DOMAIN session' = Http!Request
        /\ DOMAIN handled' = Http!Request
        /\ \A j \in Http!Request : j # i => /\ conn'[j] = conn[j] /\ session'[j] = session[j]
                                            /\ handled'[j] = handled[j] /\ wire'[j] = wire[j]
        /\ \/ /\ handled'[i] = TRUE /\ conn'[i] = "open" /\ session'[i] = "live"
              /\ wire'[i] = wire[i]
           \/ /\ session'[i] = "freed" /\ conn'[i] \in {"answered", "closed"}
              /\ wire'[i] = Http!NoRequest
    BY <1>2, <2>1, <2>2
  <2>4. /\ DOMAIN page' = Http!Request /\ DOMAIN calls' = Http!Request
        /\ \A j \in Http!Request : j # i => page'[j] = page[j] /\ calls'[j] = calls[j]
        /\ calls'[i] \in {0, 1} /\ (page'[i].body = "json" => calls'[i] = 1)
        /\ calls[i] = 1 => calls'[i] = 1
        /\ Unreadable(wire[i]) /\ calls[i] = 0 => calls'[i] = 0
    <3>1. CASE handled[i]
      <4>1. UNCHANGED <<page, calls>>
        BY <2>1, <3>1 DEF Http!HandlesUnlessHandled
      <4> QED
        BY <1>2, <4>1 DEF ServerInv
    <3>2. CASE ~handled[i]
      <4>1. calls[i] = 0
        BY <2>1, <3>2 DEF ServerInv
      <4> QED
        BY <2>1, <3>2, <4>1, Handles
    <3> QED
      BY <3>1, <3>2
  <2>5. {DOMAIN conn', DOMAIN session', DOMAIN handled', DOMAIN page', DOMAIN calls'}
          = {Http!Request}
    BY <2>3, <2>4
  <2>6. ServerInv'
    <3> SUFFICES ASSUME NEW j \in Http!Request
                 PROVE  /\ j > sent => conn'[j] = "none"
                        /\ conn'[j] \in {"none", "sent"} => session'[j] = "none"
                        /\ conn'[j] \in {"sent", "open"} => wire'[j] # Http!NoRequest
                        /\ conn'[j] = "open" => session'[j] = "live"
                        /\ conn'[j] = "answered" => session'[j] = "freed"
                        /\ session'[j] = "none" => ~handled'[j]
                        /\ calls'[j] \in {0, 1}
                        /\ session'[j] # "freed" /\ ~handled'[j] => calls'[j] = 0
                        /\ page'[j].body = "json" => calls'[j] = 1
      BY <1>1, <2>5 DEF ServerInv
    <3>1. CASE j = i
      BY <2>1, <2>3, <2>4, <3>1
    <3>2. CASE j # i
      BY <2>3, <2>4, <3>2 DEF ServerInv
    <3> QED
      BY <3>1, <3>2
  <2> QED
    BY <1>1, <2>1, <2>3, <2>4, <2>6
<1> QED
  BY <1>3, <1>4 DEF Http!Serves

\* A call that ends: curl has the answer, or gives up.
LEMMA Finishing ==
  ASSUME ServerInv, WireInv, ResultInv, Http!Receives \/ Http!Fails
  PROVE  ServerInv' /\ ResultInv'
<1>1. hPc = "perform" /\ sent \in Http!Request /\ sent \in Nat /\ sent > 0
  <2>1. hPc = "perform" /\ sent > 0
    BY DEF Http!Receives, Http!Fails, ResultInv
  <2>2. sent \in 0..MaxRequests /\ MaxRequests \in Nat
    BY ServicesAssumption DEF ServerInv, Http!HttpConstants
  <2> QED
    BY <2>1, <2>2 DEF Http!Request
<1>2. PICK a : Http!Finishes(a) /\ (a.body = "json" => page[sent].body = "json")
  <2>1. CASE Http!Receives
    BY <2>1 DEF Http!Receives
  <2>2. CASE Http!Fails
    <3>1. Http!Finishes(Http!NoAnswer) /\ Http!NoAnswer.body # "json"
      BY <2>2 DEF Http!Fails, Http!NoAnswer
    <3> QED
      BY <3>1
  <2> QED
    BY <2>1, <2>2
<1>3. /\ hPc' = "idle" /\ UNCHANGED <<query, sent, session, handled, calls>>
      /\ hResult' = "true" => a.body = "json" \/ query.quiet
  BY <1>2, FinishLeaves
<1>4. /\ DOMAIN conn = Http!Request /\ DOMAIN wire = Http!Request /\ DOMAIN page = Http!Request
      /\ Http!NoAnswer.body = ""
  BY DEF ServerInv, WireInv, Http!NoAnswer
<1>5. \/ UNCHANGED <<conn, wire, page>>
      \/ /\ conn' = [conn EXCEPT ![sent] = "closed"]
         /\ page' = [page EXCEPT ![sent] = Http!NoAnswer]
         /\ \/ wire' = [wire EXCEPT ![sent] = Http!NoRequest]
            \/ wire' = wire
  BY DEF Http!Receives, Http!Fails
<1>6. /\ DOMAIN conn' = Http!Request /\ DOMAIN page' = Http!Request
      /\ \A j \in Http!Request :
           /\ (conn'[j] = conn[j] /\ wire'[j] = wire[j]) \/ conn'[j] = "closed"
           /\ page'[j] = page[j] \/ page'[j].body = ""
           /\ wire'[j] = wire[j] \/ wire'[j] = Http!NoRequest
           /\ j # sent => conn'[j] = conn[j]
  BY ONLY <1>1, <1>4, <1>5
<1>7. ServerInv'
  <2>1. {DOMAIN conn', DOMAIN session', DOMAIN handled', DOMAIN page', DOMAIN calls'}
          = {Http!Request}
    <3>1. /\ DOMAIN session = Http!Request /\ DOMAIN handled = Http!Request
          /\ DOMAIN calls = Http!Request
      BY DEF ServerInv
    <3>2. session' = session /\ handled' = handled /\ calls' = calls
      BY <1>3
    <3>3. DOMAIN conn' = Http!Request /\ DOMAIN page' = Http!Request
      BY <1>6
    <3> QED
      BY ONLY <3>1, <3>2, <3>3
  <2>2. sent' \in 0..MaxRequests
    BY <1>3 DEF ServerInv
  <2> SUFFICES ASSUME NEW j \in Http!Request
               PROVE  /\ j > sent => conn'[j] = "none"
                      /\ conn'[j] \in {"none", "sent"} => session[j] = "none"
                      /\ conn'[j] \in {"sent", "open"} => wire'[j] # Http!NoRequest
                      /\ conn'[j] = "open" => session[j] = "live"
                      /\ conn'[j] = "answered" => session[j] = "freed"
                      /\ page'[j].body = "json" => calls[j] = 1
    BY <1>3, <2>1, <2>2 DEF ServerInv
  <2>3. j > sent => conn'[j] = conn[j]
    <3>1. j > sent => j # sent
      BY <1>1 DEF Http!Request
    <3> QED
      BY <1>6, <3>1
  <2> QED
    BY <1>6, <2>3 DEF ServerInv
<1>8. ResultInv'
  <2>1. hResult' = "true" /\ ~query.quiet => calls[sent] = 1
    BY <1>1, <1>2, <1>3 DEF ServerInv
  <2>2. query.call = "_get_json" /\ query.data = "none" =>
          /\ calls[sent] = 0
          /\ wire'[sent] # Http!NoRequest => Unreadable(wire'[sent])
    BY <1>1, <1>6 DEF ResultInv
  <2> QED
    BY <1>1, <1>3, <2>1, <2>2 DEF ResultInv
<1> QED
  BY <1>7, <1>8

LEMMA ServerStep ==
  ASSUME ServerInv, WireInv, ResultInv, [Http!Next]_(Http!httpVars)
  PROVE  ServerInv' /\ ResultInv'
<1>1. CASE Http!Adds \/ UNCHANGED Http!httpVars
  <2>1. UNCHANGED <<conn, session, handled, page, calls, wire, sent, query, hPc, hResult>>
    BY <1>1 DEF Http!Adds, Http!serverVars, Http!httpVars, Http!clientVars
  <2> QED
    BY <2>1 DEF ServerInv, ResultInv
<1>2. ASSUME NEW q \in Http!Queries, Http!Perform(q) PROVE ServerInv' /\ ResultInv'
  <2>1. /\ sent \in Nat /\ sent + 1 \in Http!Request /\ sent' = sent + 1
        /\ hResult' = "none" /\ query' = [q EXCEPT !.data = Http!Body(q)]
        /\ session[sent + 1] = "none" /\ calls[sent + 1] = 0
        /\ \A i \in Http!Request : i # sent + 1 => wire'[i] = wire[i] /\ conn'[i] = conn[i]
        /\ conn' = [conn EXCEPT ![sent + 1] = "sent"] /\ conn'[sent + 1] = "sent"
        /\ UNCHANGED <<session, handled, page, calls>>
        /\ wire'[sent + 1] # Http!NoRequest
        /\ wire'[sent + 1].headers = m_http_headers \cup Http!Announced(q)
        /\ wire'[sent + 1].body = Http!Body(q)
    BY <1>2, Sends
  <2>2. ServerInv'
    <3>1. {DOMAIN conn', DOMAIN session', DOMAIN handled', DOMAIN page', DOMAIN calls'}
            = {Http!Request}
      BY <2>1 DEF ServerInv
    <3>2. sent' \in 0..MaxRequests
      BY <2>1, ServicesAssumption DEF Http!Request, Http!HttpConstants
    <3> SUFFICES ASSUME NEW j \in Http!Request
                 PROVE  /\ j > sent + 1 => conn'[j] = "none"
                        /\ conn'[j] \in {"none", "sent"} => session[j] = "none"
                        /\ conn'[j] \in {"sent", "open"} => wire'[j] # Http!NoRequest
                        /\ conn'[j] = "open" => session[j] = "live"
                        /\ conn'[j] = "answered" => session[j] = "freed"
      BY <2>1, <3>1, <3>2 DEF ServerInv
    <3>3. CASE j = sent + 1
      BY <2>1, <3>3
    <3>4. CASE j # sent + 1
      <4>1. j > sent + 1 => j > sent
        BY <2>1 DEF Http!Request
      <4> QED
        BY <2>1, <3>4, <4>1 DEF ServerInv
    <3> QED
      BY <3>3, <3>4
  <2>3. ResultInv'
    <3>1. query'.call = "_get_json" /\ query'.data = "none" => Unreadable(wire'[sent + 1])
      <4>1. query'.call = q.call /\ query'.data = Http!Body(q)
        <5>1. DOMAIN q = {"call", "method", "data", "url", "keep", "quiet"}
          BY DEF Http!Queries
        <5> QED
          BY <2>1, <5>1
      <4> QED
        BY <2>1, <4>1 DEF Unreadable, Http!Announced
    <3>2. sent' > 0
      BY <2>1
    <3> QED
      BY <2>1, <3>1, <3>2 DEF ResultInv
  <2> QED
    BY <2>2, <2>3
<1>3. CASE Http!Receives \/ Http!Fails
  BY <1>3, Finishing
<1>4. ASSUME NEW i \in Http!Request, Http!Serves(i) PROVE ServerInv' /\ ResultInv'
  <2>1. /\ ServerInv' /\ UNCHANGED <<query, hPc, hResult, sent>>
        /\ \A j \in Http!Request :
             /\ calls[j] = 1 => calls'[j] = 1
             /\ wire'[j] = wire[j] \/ wire'[j] = Http!NoRequest
             /\ calls[j] = 0 /\ (wire[j] # Http!NoRequest => Unreadable(wire[j])) => calls'[j] = 0
    BY <1>4, Serving DEF Http!clientVars
  <2>2. sent > 0 => sent \in Http!Request
    BY ServicesAssumption DEF ServerInv, Http!Request, Http!HttpConstants
  <2>3. hResult = "true" => sent > 0
    BY DEF ResultInv
  <2> QED
    BY <2>1, <2>2, <2>3 DEF ResultInv
<1>5. ASSUME NEW i \in Http!Request, Http!Aborts(i) PROVE ServerInv' /\ ResultInv'
  <2>1. /\ conn' = [conn EXCEPT ![i] = "closed"] /\ wire' = [wire EXCEPT ![i] = Http!NoRequest]
        /\ page' = [page EXCEPT ![i] = Http!NoAnswer]
        /\ UNCHANGED <<session, handled, calls, sent, query, hPc, hResult>>
        /\ conn[i] = "open"
    BY <1>5 DEF Http!Aborts, Http!clientVars
  <2>2. /\ conn'[i] = "closed" /\ DOMAIN conn' = Http!Request /\ wire'[i] = Http!NoRequest
        /\ page'[i].body = "" /\ DOMAIN page' = Http!Request
        /\ \A j \in Http!Request : j # i => /\ conn'[j] = conn[j] /\ wire'[j] = wire[j]
                                            /\ page'[j] = page[j]
    <3>1. Http!NoAnswer.body = ""
      BY DEF Http!NoAnswer
    <3>2. DOMAIN conn = Http!Request /\ DOMAIN wire = Http!Request /\ DOMAIN page = Http!Request
      BY DEF ServerInv, WireInv
    <3> QED
      BY ONLY <2>1, <3>1, <3>2, i \in Http!Request
  <2>3. ServerInv'
    <3>1. {DOMAIN conn', DOMAIN session', DOMAIN handled', DOMAIN page', DOMAIN calls'}
            = {Http!Request}
      BY <2>1, <2>2 DEF ServerInv
    <3>2. ~(i > sent)
      BY <2>1 DEF ServerInv
    <3> SUFFICES ASSUME NEW j \in Http!Request
                 PROVE  /\ j > sent => conn'[j] = "none"
                        /\ conn'[j] \in {"none", "sent"} => session[j] = "none"
                        /\ conn'[j] \in {"sent", "open"} => wire'[j] # Http!NoRequest
                        /\ conn'[j] = "open" => session[j] = "live"
                        /\ conn'[j] = "answered" => session[j] = "freed"
                        /\ page'[j].body = "json" => calls[j] = 1
      BY <2>1, <3>1 DEF ServerInv
    <3>3. CASE j = i
      BY <2>2, <3>2, <3>3
    <3>4. CASE j # i
      BY <2>2, <3>4 DEF ServerInv
    <3> QED
      BY <3>3, <3>4
  <2>4. ResultInv'
    <3>1. sent > 0 => sent \in Http!Request
      BY ServicesAssumption DEF ServerInv, Http!Request, Http!HttpConstants
    <3>2. sent > 0 => wire'[sent] = wire[sent] \/ wire'[sent] = Http!NoRequest
      BY <2>2, <3>1
    <3> QED
      BY <2>1, <3>2 DEF ResultInv
  <2> QED
    BY <2>3, <2>4
<1> QED
  BY <1>1, <1>2, <1>3, <1>4, <1>5 DEF Http!Next

LEMMA HttpHolds == Http!Spec => []HttpInv
<1>1. Http!Init => HttpInv
  <2> SUFFICES ASSUME Http!Init PROVE HttpInv
    OBVIOUS
  <2>1. AddedInv
    BY DEF AddedInv, Http!Init, Http!Meant
  <2>2. WireInv
    BY DEF WireInv, Http!Init
  <2>3. ServerInv
    <3>1. sent \in 0..MaxRequests
      BY ServicesAssumption DEF Http!Init, Http!HttpConstants
    <3>2. {DOMAIN conn, DOMAIN session, DOMAIN handled, DOMAIN page, DOMAIN calls}
            = {Http!Request}
      BY DEF Http!Init
    <3>3. \A i \in Http!Request :
            /\ conn[i] = "none" /\ session[i] = "none" /\ handled[i] = FALSE /\ calls[i] = 0
            /\ page[i].body = ""
      BY DEF Http!Init, Http!NoAnswer
    <3> QED
      BY <3>1, <3>2, <3>3 DEF ServerInv
  <2>4. ResultInv
    BY DEF ResultInv, Http!Init
  <2> QED
    BY <2>1, <2>2, <2>3, <2>4 DEF HttpInv
<1>2. HttpInv /\ [Http!Next]_(Http!httpVars) => HttpInv'
  BY AddedStep, WireStep, ServerStep DEF HttpInv
<1> QED
  BY <1>1, <1>2, PTL DEF Http!Spec

\* A request carries the headers and parameters its caller added since the one before,
\* the headers of that one when it was asked to keep them, and nothing else of an older
\* one, however the requests fail (httpclient.cpp:206).
THEOREM RequestsAreSeparateHolds == ServicesSpec => []RequestsAreSeparate
<1>1. HttpInv => RequestsAreSeparate
  <2> SUFFICES ASSUME HttpInv PROVE Http!RequestsAreSeparate
    BY DEF RequestsAreSeparate
  <2>1. \A i \in 1..sent : i \in Http!Request
    BY ServicesAssumption DEF HttpInv, ServerInv, Http!Request, Http!HttpConstants
  <2> QED
    BY <2>1 DEF HttpInv, WireInv, Http!RequestsAreSeparate
<1> QED
  BY <1>1, ServicesRunTheirParts, HttpHolds, PTL

\* However a body comes in pieces and connections break, the handler of a request is
\* called at most once, its session is freed with the answer, and a request without
\* the body its method needs reaches no handler (httpserver.cpp:92, 103, 115, 150).
THEOREM ServedOnceHolds == ServicesSpec => []ServedOnce
<1>1. HttpInv => ServedOnce
  <2> SUFFICES ASSUME HttpInv
               PROVE  Http!HandledOnce /\ Http!SessionsAreFreed /\ Http!GetJsonIsUnserved
    BY DEF ServedOnce
  <2>1. Http!HandledOnce
    BY DEF HttpInv, ServerInv, Http!HandledOnce
  <2>2. Http!SessionsAreFreed
    BY DEF HttpInv, ServerInv, Http!SessionsAreFreed
  <2>3. Http!GetJsonIsUnserved
    BY DEF HttpInv, ResultInv, Http!GetJsonIsUnserved
  <2> QED
    BY <2>1, <2>2, <2>3
<1> QED
  BY <1>1, ServicesRunTheirParts, HttpHolds, PTL

\* A request is asked for by the call that sends it.
LEMMA SendingAsks ==
  ASSUME HttpInv, NEW q \in Http!Queries, Http!Perform(q)
  PROVE  Http!Requests!Ask
<1>1. /\ sent + 1 \in Http!Request /\ sent' = sent + 1
      /\ hPc = "idle" /\ hPc' = "perform" /\ hResult' = "none"
      /\ conn'[sent + 1] = "sent" /\ session[sent + 1] = "none"
      /\ \A i \in Http!Request : i # sent + 1 => conn'[i] = conn[i]
      /\ UNCHANGED <<handled, calls>>
  BY Sends DEF HttpInv, Http!Perform
<1>2. ~handled[sent + 1]
  BY <1>1 DEF HttpInv, ServerInv
<1>3. Http!Pending' = Http!Pending \cup {sent + 1}
  BY <1>1, <1>2 DEF Http!Pending
<1>4. Http!Outcome' = "none"
  BY <1>1 DEF Http!Outcome
<1> QED
  BY <1>1, <1>3, <1>4 DEF Http!Requests!Ask

\* A call returns when curl does.
LEMMA FinishingReturns ==
  ASSUME HttpInv, HttpInv', Http!Receives \/ Http!Fails
  PROVE  Http!Requests!Return
<1>1. hPc = "perform" /\ sent > 0 /\ sent \in Http!Request
  <2>1. hPc = "perform" /\ sent > 0
    BY DEF Http!Receives, Http!Fails, HttpInv, ResultInv
  <2> QED
    BY <2>1, ServicesAssumption DEF HttpInv, ServerInv, Http!Request, Http!HttpConstants
<1>2. PICK a : Http!Finishes(a)
  BY DEF Http!Receives, Http!Fails
<1>3. hPc' = "idle" /\ UNCHANGED <<query, sent, handled, calls>>
  BY <1>2, FinishLeaves
<1>4. hResult' # "none"
  BY <1>2 DEF Http!Finishes
<1>5. Http!Outcome' \in (IF calls[sent] > 0 THEN {"served", "unknown"} ELSE {"unknown"})
  <2>1. hResult' = "true" /\ ~query'.quiet => calls[sent] = 1
    BY <1>3 DEF HttpInv, ResultInv
  <2> QED
    BY <1>4, <2>1 DEF Http!Outcome
<1>6. Http!Pending' \in {Http!Pending, Http!Pending \ {sent}}
  <2>1. conn' = conn \/ conn' = [conn EXCEPT ![sent] = "closed"]
    BY DEF Http!Receives, Http!Fails
  <2>2. CASE conn' = conn
    BY <1>3, <2>2 DEF Http!Pending
  <2>3. CASE conn' = [conn EXCEPT ![sent] = "closed"]
    <3>1. conn'[sent] = "closed" /\ \A i \in Http!Request : i # sent => conn'[i] = conn[i]
      BY <1>1, <2>3 DEF HttpInv, ServerInv
    <3> QED
      BY <1>3, <3>1 DEF Http!Pending
  <2> QED
    BY <2>1, <2>2, <2>3
<1> QED
  BY <1>1, <1>3, <1>5, <1>6 DEF Http!Requests!Return

\* The server carries a request out, refuses it, or does neither.
LEMMA ServingServes ==
  ASSUME HttpInv, NEW i \in Http!Request, Http!Serves(i) \/ Http!Aborts(i)
  PROVE  \/ Http!Requests!Serve \/ Http!Requests!Lose
         \/ UNCHANGED <<sent, hPc = "perform", Http!Pending, calls, Http!Outcome>>
<1>1. UNCHANGED <<sent, hPc, Http!Outcome>>
  BY DEF Http!Serves, Http!Aborts, Http!clientVars, Http!Outcome
<1>2. /\ DOMAIN conn = Http!Request /\ DOMAIN handled = Http!Request
      /\ DOMAIN calls = Http!Request
  BY DEF HttpInv, ServerInv
<1>3. CASE Http!FirstCall(i)
  <2>1. /\ conn[i] = "sent" /\ conn'[i] = "open" /\ UNCHANGED <<handled, calls>>
        /\ \A j \in Http!Request : j # i => conn'[j] = conn[j]
    BY <1>2, <1>3 DEF Http!FirstCall
  <2>2. Http!Pending' = Http!Pending
    BY <2>1 DEF Http!Pending
  <2> QED
    BY <1>1, <2>1, <2>2
<1>4. CASE Http!BodyCall(i) \/ Http!LastCall(i)
  <2>1. /\ conn[i] = "open" /\ session[i] = "live"
        /\ \E whole : Http!HandlesUnlessHandled(i, whole)
    BY <1>4 DEF Http!BodyCall, Http!LastCall
  <2>2. Http!Pending' = Http!Pending \ {i}
    <3>1. \/ handled' = [handled EXCEPT ![i] = TRUE] /\ conn' = conn
          \/ /\ conn' \in {[conn EXCEPT ![i] = "answered"], [conn EXCEPT ![i] = "closed"]}
             /\ handled' = handled
      BY <1>4 DEF Http!BodyCall, Http!LastCall, Http!Marks
    <3>2. /\ handled'[i] \/ conn'[i] \in {"answered", "closed"}
          /\ \A j \in Http!Request : j # i => conn'[j] = conn[j] /\ handled'[j] = handled[j]
      BY <1>2, <3>1
    <3> QED
      BY <3>2 DEF Http!Pending
  <2>3. CASE handled[i]
    <3>1. calls' = calls
      BY <2>1, <2>3 DEF Http!HandlesUnlessHandled
    <3>2. Http!Pending' = Http!Pending
      BY <2>2, <2>3 DEF Http!Pending
    <3> QED
      BY <1>1, <3>1, <3>2
  <2>4. CASE ~handled[i]
    <3>1. i \in Http!Pending
      BY <2>1, <2>4 DEF Http!Pending
    <3>2. calls' = calls \/ calls' = [calls EXCEPT ![i] = @ + 1]
      BY <2>1, <2>4 DEF Http!HandlesUnlessHandled, Http!HandleQuery
    <3>3. CASE calls' = calls
      BY <1>1, <2>2, <3>1, <3>3 DEF Http!Requests!Lose
    <3>4. CASE calls' = [calls EXCEPT ![i] = @ + 1]
      BY <1>1, <2>2, <3>1, <3>4 DEF Http!Requests!Serve
    <3> QED
      BY <3>2, <3>3, <3>4
  <2> QED
    BY <2>3, <2>4
<1>5. CASE Http!Aborts(i)
  <2>1. conn'[i] = "closed" /\ UNCHANGED <<handled, calls>>
        /\ \A j \in Http!Request : j # i => conn'[j] = conn[j]
    BY <1>2, <1>5 DEF Http!Aborts
  <2>2. Http!Pending' = Http!Pending \ {i}
    BY <2>1 DEF Http!Pending
  <2>3. CASE i \in Http!Pending
    BY <1>1, <2>1, <2>2, <2>3 DEF Http!Requests!Lose
  <2>4. CASE i \notin Http!Pending
    <3>1. Http!Pending' = Http!Pending
      BY <2>2, <2>4
    <3> QED
      BY <1>1, <2>1, <3>1
  <2> QED
    BY <2>3, <2>4
<1> QED
  BY <1>3, <1>4, <1>5 DEF Http!Serves

\* The calls of the client and of the server implement AtMostOnce: a request comes to
\* its handler once or not at all, perhaps when its call has ended, and what a call
\* says that was not quiet is true (httpserver.cpp:92-107, httpclient.cpp:192-214).
THEOREM ServesAtMostOnceHolds == ServicesSpec => ServesAtMostOnce
<1>1. Http!Init => Http!Requests!Init
  <2> SUFFICES ASSUME Http!Init PROVE Http!Requests!Init
    OBVIOUS
  <2>1. Http!Pending = {}
    BY DEF Http!Init, Http!Pending
  <2>2. /\ sent = 0 /\ (hPc = "perform") = FALSE /\ Http!Outcome = "none"
        /\ calls = [i \in Http!Request |-> 0]
    BY DEF Http!Init, Http!Outcome
  <2> QED
    BY <2>1, <2>2 DEF Http!Requests!Init
<1>2. HttpInv /\ HttpInv' /\ [Http!Next]_(Http!httpVars)
        => [Http!Requests!Next]_<<sent, hPc = "perform", Http!Pending, calls, Http!Outcome>>
  <2> SUFFICES ASSUME HttpInv, HttpInv', [Http!Next]_(Http!httpVars)
               PROVE  \/ Http!Requests!Next
                      \/ UNCHANGED <<sent, hPc = "perform", Http!Pending, calls, Http!Outcome>>
    OBVIOUS
  <2>1. CASE Http!Adds \/ UNCHANGED Http!httpVars
    BY <2>1 DEF Http!Adds, Http!httpVars, Http!clientVars, Http!serverVars, Http!Pending,
                Http!Outcome
  <2>2. CASE \E q \in Http!Queries : Http!Perform(q)
    BY <2>2, SendingAsks DEF Http!Requests!Next
  <2>3. CASE Http!Receives \/ Http!Fails
    BY <2>3, FinishingReturns DEF Http!Requests!Next
  <2>4. CASE \E i \in Http!Request : Http!Serves(i) \/ Http!Aborts(i)
    BY <2>4, ServingServes DEF Http!Requests!Next
  <2> QED
    BY <2>1, <2>2, <2>3, <2>4 DEF Http!Next
<1>3. Http!Spec => Http!Requests!Spec
  BY <1>1, <1>2, HttpHolds, PTL DEF Http!Spec, Http!Requests!Spec
<1> QED
  BY <1>3, ServicesRunTheirParts DEF ServesAtMostOnce, Http!ServesAtMostOnce

-----------------------------------------------------------------------------
(***************************************************************************)
(* Jira                                                                    *)
(***************************************************************************)

\* While a call goes on it has no result yet.
JiraInv == Jira!CodeTells /\ (jPc # "idle" => jResult = "none")

LEMMA JiraStep ==
  ASSUME JiraInv, [Jira!Next]_(Jira!jiraVars)
  PROVE  JiraInv'
<1>1. CASE Jira!Create \/ Jira!Collect \/ Jira!Others \/ UNCHANGED Jira!jiraVars
  <2>1. UNCHANGED <<jResult, jCall, jCode, done, saw, jPc>>
    BY <1>1 DEF Jira!Create, Jira!Collect, Jira!Others, Jira!jiraVars
  <2> QED
    BY <2>1 DEF JiraInv, Jira!CodeTells
<1>2. ASSUME NEW c \in Jira!Calls, Jira!Call(c) PROVE JiraInv'
  <2>1. jResult' \in {"none", "false"} /\ (jPc' # "idle" => jResult' = "none")
    BY <1>2 DEF Jira!Call, Jira!Returns
  <2> QED
    BY <2>1 DEF JiraInv, Jira!CodeTells
<1>3. CASE Jira!Look
  <2>1. /\ jCall' = jCall
        /\ \/ jResult' = "true" /\ jPc' = "idle" /\ jCode' = 304 /\ saw' = jCall.who
           \/ jResult' = "none"
    BY <1>3 DEF Jira!Look, Jira!IsAssigned, Jira!Returns, JiraInv
  <2> QED
    BY <2>1 DEF JiraInv, Jira!CodeTells
<1>4. CASE Jira!Read
  <2>1. jCall' = jCall /\ jCall.op \in Jira!Reads /\ jPc' = "idle"
    BY <1>4 DEF Jira!Read, Jira!Returns
  <2>2. jCall.op \notin Jira!Changes
    BY <2>1 DEF Jira!Reads, Jira!Changes
  <2> QED
    BY <2>1, <2>2 DEF JiraInv, Jira!CodeTells
<1>5. CASE Jira!Act
  <2>1. PICK a \in Jira!ChangeAnswers(jCall.op) :
          /\ done' \in (IF a[1] \in {201, 204} THEN {TRUE}
                        ELSE IF a[1] = 0 THEN BOOLEAN ELSE {FALSE})
          /\ jCode' = a[1]
          /\ Jira!Returns(jCall, Jira!Accepts(jCall.op, a), a[1], a[2])
    BY <1>5 DEF Jira!Act
  <2>2. jPc' = "idle"
    BY <2>1 DEF Jira!Returns
  <2>3. a[1] \in {0, 201, 204, 400, 404}
    <3> DEFINE none == ""
    <3> HIDE DEF none
    <3>1. Jira!ChangeAnswers(jCall.op)
            = {<<0, none>>, <<400, "json">>, <<404, "json">>, <<404, "html">>,
               IF Jira!Quiet(jCall.op) THEN <<204, none>> ELSE <<201, "json">>}
      BY Zenon DEF Jira!ChangeAnswers, none
    <3>2. a \in Jira!ChangeAnswers(jCall.op)
      BY <2>1
    <3> QED
      BY ONLY <3>1, <3>2
  <2>4. jCode' \in {201, 204} => done'
    BY <2>1
  <2>5. jCode' # 304
    BY <2>1, <2>3
  <2> QED
    BY <2>2, <2>4, <2>5 DEF JiraInv, Jira!CodeTells
<1> QED
  BY <1>1, <1>2, <1>3, <1>4, <1>5 DEF Jira!Next

LEMMA JiraHolds == Jira!Spec => []JiraInv
<1>1. Jira!Init => JiraInv
  BY DEF Jira!Init, JiraInv, Jira!CodeTells
<1>2. JiraInv /\ [Jira!Next]_(Jira!jiraVars) => JiraInv'
  BY JiraStep
<1> QED
  BY <1>1, <1>2, PTL DEF Jira!Spec

\* Whatever Jira refuses and the connection loses, the code the Jira client leaves tells
\* whether Jira did what a call of set_assignee(), create_issue() or the like asked for
\* (jiraclient.cpp:112).
THEOREM CodeTellsHolds == ServicesSpec => []CodeTells
<1>1. JiraInv => CodeTells
  BY DEF JiraInv, CodeTells
<1> QED
  BY <1>1, JiraHolds, ServicesRunTheirParts, PTL

-----------------------------------------------------------------------------
(***************************************************************************)
(* Slack                                                                   *)
(***************************************************************************)

\* Nothing is connected late before stop(), and a loop that is about to connect after
\* it has not yet.
SlackInv ==
  /\ sLate \in {0, 1}
  /\ ~stopping \/ sPc = "connect" => sLate = 0

LEMMA SlackStep ==
  ASSUME SlackInv, [Slack!Next]_(Slack!slackVars)
  PROVE  SlackInv'
<1>1. CASE Slack!Start
  BY <1>1 DEF Slack!Start, Slack!Failure, SlackInv
<1>2. CASE Slack!Connect
  BY <1>2 DEF Slack!Connect, Slack!Failure, SlackInv
<1>3. CASE Slack!Message \/ Slack!NextCallback \/ Slack!Closed
  BY <1>3 DEF Slack!Message, Slack!NextCallback, Slack!Closed, Slack!Failure, SlackInv
<1>4. CASE Slack!Wake
  BY <1>4 DEF Slack!Wake, Slack!Wakes, SlackInv
<1>5. CASE Slack!Stop
  BY <1>5 DEF Slack!Stop, SlackInv
<1>6. CASE \/ Slack!RegisterCallback \/ Slack!Rename
           \/ \E t \in Slack!Threads : Slack!SendRead(t) \/ Slack!SendCount(t)
           \/ UNCHANGED Slack!slackVars
  <2>1. UNCHANGED <<sPc, stopping, sLate>>
    BY <1>6 DEF Slack!RegisterCallback, Slack!Rename, Slack!SendRead, Slack!SendCount,
                Slack!slackVars
  <2> QED
    BY <2>1 DEF SlackInv
<1> QED
  BY <1>1, <1>2, <1>3, <1>4, <1>5, <1>6 DEF Slack!Next

\* Whenever stop() comes, before, during or after an attempt to connect, a wait or a
\* callback, the Slack client makes at most one connection more (slackclient.cpp:90).
THEOREM StopsConnectingHolds == ServicesSpec => []StopsConnecting
<1>1. Slack!Init => SlackInv
  BY DEF Slack!Init, SlackInv
<1>2. SlackInv /\ [Slack!Next]_(Slack!slackVars) => SlackInv'
  BY SlackStep
<1>3. SlackInv => StopsConnecting
  BY DEF SlackInv, StopsConnecting, Slack!StopsConnecting
<1> QED
  BY <1>1, <1>2, <1>3, ServicesRunTheirParts, PTL DEF Slack!Spec

-----------------------------------------------------------------------------
(***************************************************************************)
(* Elasticsearch: the bulk actions, numbered in the order they are added   *)
(***************************************************************************)
Rising(s) == s \in Seq(Nat) /\ \A i, j \in 1..Len(s) : i < j => s[i] < s[j]

Below(s, t) == \A i \in 1..Len(s), j \in 1..Len(t) : s[i] < t[j]

UpTo(s, k) == \A i \in 1..Len(s) : s[i] <= k

Apart(s, t) == \A i \in 1..Len(s), j \in 1..Len(t) : s[i] # t[j]

\* What x holds rises, but for elements of one of the sequences b of L, that come
\* behind greater ones that are not of b.
InOrder(x, L) ==
  \A i, j \in 1..Len(x) :
    i < j => \/ x[i] < x[j]
             \/ /\ x[i] # x[j]
                /\ \E b \in L : /\ \E k \in 1..Len(b) : b[k] = x[j]
                               /\ \A k \in 1..Len(b) : b[k] # x[i]

LEMMA AppendRises ==
  ASSUME NEW s, NEW k \in Nat, Rising(s), UpTo(s, k)
  PROVE  /\ Rising(Append(s, k + 1)) /\ UpTo(Append(s, k + 1), k + 1)
         /\ \A e \in Seq(Nat) : UpTo(e, k) /\ Below(e, s) => Below(e, Append(s, k + 1))
<1> DEFINE t == Append(s, k + 1)
<1>1. s \in Seq(Nat) /\ Len(s) \in Nat /\ k + 1 \in Nat
  BY LenProperties DEF Rising
<1>2. \A i \in 1..Len(s) : s[i] \in Nat
  BY <1>1, ElementOfSeq
<1>3. /\ t \in Seq(Nat) /\ Len(t) = Len(s) + 1
      /\ \A i \in 1..Len(s) : t[i] = s[i]
      /\ t[Len(s) + 1] = k + 1
  BY <1>1, AppendProperties
<1> HIDE DEF t
<1>4. \A i \in 1..Len(t) : \/ i \in 1..Len(s) /\ t[i] = s[i] /\ s[i] \in Nat /\ s[i] <= k
                           \/ i = Len(s) + 1 /\ t[i] = k + 1
  <2>1. \A i \in 1..Len(t) : i \in 1..Len(s) \/ i = Len(s) + 1
    BY <1>1, <1>3
  <2> QED
    BY <1>2, <1>3, <2>1 DEF UpTo
<1>5. Rising(t)
  <2> SUFFICES ASSUME NEW i \in 1..Len(t), NEW j \in 1..Len(t), i < j PROVE t[i] < t[j]
    BY <1>3 DEF Rising
  <2>1. CASE i \in 1..Len(s) /\ j \in 1..Len(s)
    BY <1>3, <2>1 DEF Rising
  <2>2. CASE j \notin 1..Len(s)
    <3>1. j = Len(s) + 1 /\ t[j] = k + 1
      BY <1>4, <2>2
    <3>2. i \in 1..Len(s)
      BY <1>1, <1>3, <3>1
    <3>3. t[i] \in Nat /\ t[i] <= k
      BY <1>2, <1>3, <3>2 DEF UpTo
    <3> QED
      BY <3>1, <3>3
  <2>3. CASE i \notin 1..Len(s)
    <3>1. i = Len(s) + 1
      BY <1>4, <2>3
    <3> QED
      BY <1>1, <1>3, <3>1
  <2> QED
    BY <2>1, <2>2, <2>3
<1>6. UpTo(t, k + 1)
  <2>1. \A x \in Nat : x <= k => x <= k + 1
    OBVIOUS
  <2> QED
    BY <1>4, <2>1 DEF UpTo
<1>7. ASSUME NEW e \in Seq(Nat), UpTo(e, k), Below(e, s) PROVE Below(e, t)
  <2> SUFFICES ASSUME NEW i \in 1..Len(e), NEW j \in 1..Len(t) PROVE e[i] < t[j]
    BY DEF Below
  <2>1. e[i] \in Nat /\ e[i] <= k
    BY <1>7, ElementOfSeq DEF UpTo
  <2>2. CASE j \in 1..Len(s)
    BY <1>3, <1>7, <2>2 DEF Below
  <2>3. CASE j \notin 1..Len(s)
    <3>1. t[j] = k + 1
      BY <1>4, <2>3
    <3> QED
      BY <2>1, <3>1
  <2> QED
    BY <2>2, <2>3
<1> QED
  BY <1>5, <1>6, <1>7 DEF t

\* What keeps the order of x when t is put behind it: t is above x, or one of L.
LEMMA ConcatOrder ==
  ASSUME NEW L, NEW s \in Seq(Nat), NEW t, Rising(t), InOrder(s, L),
         Below(s, t) \/ (t \in L /\ Apart(t, s))
  PROVE  /\ s \o t \in Seq(Nat) /\ InOrder(s \o t, L)
         /\ \A k \in Nat : UpTo(s, k) /\ UpTo(t, k) => UpTo(s \o t, k)
         /\ \A u : Below(s, u) /\ Below(t, u) => Below(s \o t, u)
         /\ \A u : Apart(u, s) /\ Apart(u, t) => Apart(u, s \o t)
<1> DEFINE r == s \o t
<1>1. t \in Seq(Nat) /\ Len(s) \in Nat /\ Len(t) \in Nat
  BY LenProperties DEF Rising
<1>2. /\ r \in Seq(Nat) /\ Len(r) = Len(s) + Len(t)
      /\ \A i \in 1..(Len(s) + Len(t)) :
           r[i] = IF i <= Len(s) THEN s[i] ELSE t[i - Len(s)]
  BY <1>1, ConcatProperties
<1>3. \A i \in 1..Len(r) : \/ i \in 1..Len(s) /\ r[i] = s[i]
                           \/ i - Len(s) \in 1..Len(t) /\ i > Len(s) /\ r[i] = t[i - Len(s)]
  BY <1>1, <1>2
<1> HIDE DEF r
<1> DEFINE Fits(i, j) == \/ r[i] < r[j]
                         \/ /\ r[i] # r[j]
                            /\ \E b \in L : /\ \E k \in 1..Len(b) : b[k] = r[j]
                                           /\ \A k \in 1..Len(b) : b[k] # r[i]
<1>4. \A i, j \in 1..Len(r) : i < j => Fits(i, j)
  <2> SUFFICES ASSUME NEW i \in 1..Len(r), NEW j \in 1..Len(r), i < j PROVE Fits(i, j)
    OBVIOUS
  <2>1. CASE i \in 1..Len(s) /\ j \in 1..Len(s)
    <3>1. r[i] = s[i] /\ r[j] = s[j]
      BY <1>1, <1>3, <2>1
    <3> QED
      BY <2>1, <3>1 DEF InOrder
  <2>2. CASE i \in 1..Len(s) /\ j \notin 1..Len(s)
    <3>1. r[i] = s[i]
      BY <1>1, <1>3, <2>2
    <3>2. j - Len(s) \in 1..Len(t) /\ r[j] = t[j - Len(s)]
      BY <1>3, <2>2
    <3>3. CASE Below(s, t)
      BY <2>2, <3>1, <3>2, <3>3 DEF Below
    <3>4. CASE t \in L /\ Apart(t, s)
      <4>1. \A k \in 1..Len(t) : t[k] # r[i]
        BY <2>2, <3>1, <3>4 DEF Apart
      <4>2. \E k \in 1..Len(t) : t[k] = r[j]
        BY <3>2
      <4>3. r[i] # r[j]
        BY <3>2, <4>1
      <4> QED
        BY <3>4, <4>1, <4>2, <4>3
    <3> QED
      BY <3>3, <3>4
  <2>3. CASE i \notin 1..Len(s)
    <3>1. /\ i - Len(s) \in 1..Len(t) /\ r[i] = t[i - Len(s)]
          /\ j - Len(s) \in 1..Len(t) /\ r[j] = t[j - Len(s)]
          /\ i - Len(s) < j - Len(s)
      BY <1>1, <1>2, <1>3, <2>3
    <3> QED
      BY <3>1 DEF Rising
  <2> QED
    BY <2>1, <2>2, <2>3
<1>5. \A k \in Nat : UpTo(s, k) /\ UpTo(t, k) => UpTo(r, k)
  BY <1>3 DEF UpTo
<1>6. \A u : Below(s, u) /\ Below(t, u) => Below(r, u)
  BY <1>3 DEF Below
<1>7. \A u : Apart(u, s) /\ Apart(u, t) => Apart(u, r)
  BY <1>3 DEF Apart
<1>8. InOrder(r, L)
  BY <1>4 DEF InOrder
<1> QED
  BY <1>2, <1>5, <1>6, <1>7, <1>8 DEF r

\* The order stands when there are more sequences to be late.
LEMMA OrderStays ==
  ASSUME NEW x, NEW L, NEW M, InOrder(x, L), L \subseteq M
  PROVE  InOrder(x, M)
BY DEF InOrder

\* What is below and what is above have nothing in common.
LEMMA BelowIsApart ==
  ASSUME NEW s, NEW t \in Seq(Nat), Below(s, t) \/ Below(t, s), s \in Seq(Nat)
  PROVE  Apart(s, t) /\ Apart(t, s)
<1>1. \A i \in 1..Len(s), j \in 1..Len(t) : s[i] \in Nat /\ t[j] \in Nat
  BY ElementOfSeq
<1> QED
  BY <1>1 DEF Below, Apart

\* A part of a rising sequence rises, between the bounds of the whole.
LEMMA PartRises ==
  ASSUME NEW q, Rising(q), NEW m \in Nat \ {0}, NEW n \in 0..Len(q)
  PROVE  /\ Rising(SubSeq(q, m, n))
         /\ \A k \in Nat : UpTo(q, k) => UpTo(SubSeq(q, m, n), k)
         /\ \A e : Below(e, q) => Below(e, SubSeq(q, m, n))
<1> DEFINE p == SubSeq(q, m, n)
<1>1. q \in Seq(Nat) /\ Len(q) \in Nat
  BY LenProperties DEF Rising
<1>2. \A i \in m..n : q[i] \in Nat
  <2>1. \A i \in m..n : i \in 1..Len(q)
    BY <1>1
  <2> QED
    BY <1>1, <2>1, ElementOfSeq
<1>3. /\ p \in Seq(Nat) /\ Len(p) = IF m <= n THEN n - m + 1 ELSE 0
      /\ \A i \in 1..(n - m + 1) : p[i] = q[m + i - 1]
  BY <1>1, <1>2, SubSeqProperties
<1> HIDE DEF p
<1>4. \A i \in 1..Len(p) : m + i - 1 \in 1..Len(q) /\ p[i] = q[m + i - 1]
  <2> SUFFICES ASSUME NEW i \in 1..Len(p)
               PROVE  m + i - 1 \in 1..Len(q) /\ i \in 1..(n - m + 1)
    BY <1>3
  <2>1. i \in Int /\ 1 <= i /\ m <= n /\ i <= n - m + 1
    BY <1>1, <1>3
  <2> QED
    BY ONLY <1>1, <2>1, m \in Nat \ {0}, n \in 0..Len(q)
<1>5. \A i, j \in 1..Len(p) : i < j => p[i] < p[j]
  <2> SUFFICES ASSUME NEW i \in 1..Len(p), NEW j \in 1..Len(p), i < j PROVE p[i] < p[j]
    OBVIOUS
  <2>1. m + i - 1 < m + j - 1
    OBVIOUS
  <2> QED
    BY <1>4, <2>1 DEF Rising
<1>6. \A k \in Nat : UpTo(q, k) => UpTo(p, k)
  BY <1>4 DEF UpTo
<1>7. \A e : Below(e, q) => Below(e, p)
  BY <1>4 DEF Below
<1> QED
  BY <1>3, <1>5, <1>6, <1>7 DEF Rising, p

\* What comes out of a rising sequence first is below what is left of it.
LEMMA HeadBelowRest ==
  ASSUME NEW q, Rising(q), NEW n \in 0..Len(q)
  PROVE  Below(SubSeq(q, 1, n), SubSeq(q, n + 1, Len(q)))
<1>1. q \in Seq(Nat) /\ Len(q) \in Nat
  BY LenProperties DEF Rising
<1>2. \A i \in 1..Len(q) : q[i] \in Nat
  BY <1>1, ElementOfSeq
<1>3. \A i \in 1..n : q[i] \in Nat
  BY <1>1, <1>2
<1>4. \A i \in (n + 1)..Len(q) : q[i] \in Nat
  BY <1>1, <1>2
<1>5. /\ Len(SubSeq(q, 1, n)) = n
      /\ \A i \in 1..n : SubSeq(q, 1, n)[i] = q[i]
  <2>1. /\ Len(SubSeq(q, 1, n)) = IF 1 <= n THEN n - 1 + 1 ELSE 0
        /\ \A i \in 1..(n - 1 + 1) : SubSeq(q, 1, n)[i] = q[1 + i - 1]
    BY <1>1, <1>3, SubSeqProperties
  <2> QED
    BY <1>1, <2>1
<1>6. \A j \in 1..Len(SubSeq(q, n + 1, Len(q))) :
        n + j \in 1..Len(q) /\ SubSeq(q, n + 1, Len(q))[j] = q[n + j]
  <2>1. /\ Len(SubSeq(q, n + 1, Len(q))) = IF n + 1 <= Len(q) THEN Len(q) - (n + 1) + 1 ELSE 0
        /\ \A i \in 1..(Len(q) - (n + 1) + 1) :
             SubSeq(q, n + 1, Len(q))[i] = q[(n + 1) + i - 1]
    <3>1. n + 1 \in Int /\ Len(q) \in Int
      BY <1>1
    <3> QED
      BY <1>4, <3>1, SubSeqProperties
  <2>2. \A j \in 1..Len(SubSeq(q, n + 1, Len(q))) : (n + 1) + j - 1 = n + j
    BY <1>1
  <2> QED
    BY <1>1, <2>1, <2>2
<1>7. \A i \in 1..n : i \in 1..Len(q)
  BY <1>1
<1>8. \A i \in 1..n, j \in 1..Len(SubSeq(q, n + 1, Len(q))) : i < n + j
  BY <1>1
<1> QED
  BY <1>5, <1>6, <1>7, <1>8 DEF Below, Rising

\* The actions carried out and those of requests that were given up are below
\* those that wait; what is still to come late is apart from what was carried out,
\* and its requests are apart from each other.
BulkInv ==
  /\ added \in Nat
  /\ Rising(m_bulk_queue) /\ UpTo(m_bulk_queue, added)
  /\ executed \in Seq(Nat) /\ UpTo(executed, added)
  /\ Below(executed, m_bulk_queue) /\ InOrder(executed, late)
  /\ overdue \subseteq late
  /\ \A b \in late : Rising(b) /\ UpTo(b, added) /\ Below(b, m_bulk_queue)
  /\ \A b \in overdue : Apart(b, executed)
  /\ \A b, c \in overdue : b = c \/ Apart(b, c)

LEMMA EmptyRises ==
  /\ Rising(<<>>) /\ \A L : InOrder(<<>>, L)
  /\ \A k : UpTo(<<>>, k)
  /\ \A s : Below(<<>>, s) /\ Below(s, <<>>)
<1>1. <<>> \in Seq(Nat) /\ Len(<<>>) = 0
  BY EmptySeq
<1> QED
  BY <1>1 DEF Rising, InOrder, UpTo, Below

LEMMA UpToNext ==
  ASSUME NEW s \in Seq(Nat), NEW k \in Nat, UpTo(s, k)
  PROVE  UpTo(s, k + 1)
<1>1. \A i \in 1..Len(s) : s[i] \in Nat
  BY ElementOfSeq
<1> QED
  BY <1>1 DEF UpTo

LEMMA BulkStep ==
  ASSUME BulkInv, [Next]_elasticVars
  PROVE  BulkInv'
<1>1. CASE Destroy
  <2>1. m_bulk_queue' = <<>> /\ executed' = <<>> /\ overdue' = {} /\ late' = {} /\ added' = 0
    BY <1>1 DEF Destroy
  <2> QED
    BY <2>1, EmptyRises DEF BulkInv, Rising
<1>2. CASE AddBulkAction
  <2> DEFINE q == Append(m_bulk_queue, added + 1)
  <2>1. /\ added' = added + 1 /\ m_bulk_queue' = q
        /\ UNCHANGED <<executed, overdue, late>>
    BY <1>2 DEF AddBulkAction, remote, bulk
  <2>2. /\ Rising(q) /\ UpTo(q, added + 1)
        /\ \A e \in Seq(Nat) : UpTo(e, added) /\ Below(e, m_bulk_queue) => Below(e, q)
    BY AppendRises DEF BulkInv
  <2> HIDE DEF q
  <2>3. UpTo(executed, added + 1) /\ Below(executed, q)
    BY <2>2, UpToNext DEF BulkInv
  <2>4. \A b \in late : UpTo(b, added + 1) /\ Below(b, q)
    BY <2>2, UpToNext DEF BulkInv, Rising
  <2> QED
    BY <2>1, <2>2, <2>3, <2>4 DEF BulkInv
<1>3. ASSUME NEW limit \in 0..1, ProcessBulkActions(limit)
      PROVE  BulkInv'
  <2> DEFINE n == IF limit = 0 \/ limit > Len(m_bulk_queue) THEN Len(m_bulk_queue) ELSE limit
             first == SubSeq(m_bulk_queue, 1, n)
             rest == SubSeq(m_bulk_queue, n + 1, Len(m_bulk_queue))
  <2>1. /\ m_bulk_queue' = rest /\ added' = added
        /\ \/ executed' = executed \o first /\ UNCHANGED <<overdue, late>>
           \/ UNCHANGED <<executed, overdue, late>>
           \/ /\ UNCHANGED executed
              /\ overdue' = overdue \cup {first} /\ late' = late \cup {first}
    BY <1>3 DEF ProcessBulkActions, Pops, bulk
  <2>2. Len(m_bulk_queue) \in Nat
    BY LenProperties DEF BulkInv, Rising
  <2>3. n \in 0..Len(m_bulk_queue) /\ n + 1 \in Nat \ {0} /\ Len(m_bulk_queue) \in 0..Len(m_bulk_queue)
    BY <2>2
  <2> HIDE DEF n
  <2>4. /\ Rising(first) /\ UpTo(first, added)
        /\ \A e : Below(e, m_bulk_queue) => Below(e, first)
        /\ Rising(rest) /\ UpTo(rest, added)
        /\ \A e : Below(e, m_bulk_queue) => Below(e, rest)
        /\ Below(first, rest)
    BY <2>3, PartRises, HeadBelowRest DEF BulkInv
  <2> HIDE DEF first, rest
  <2>5. \A b \in late : b \in Seq(Nat) /\ Apart(first, b) /\ Apart(b, first)
    BY <2>4, BelowIsApart DEF BulkInv, Rising
  <2>6. Apart(first, executed)
    BY <2>4, BelowIsApart DEF BulkInv, Rising
  <2>7. CASE executed' = executed \o first /\ UNCHANGED <<overdue, late>>
    <3>1. /\ executed \o first \in Seq(Nat) /\ InOrder(executed \o first, late)
          /\ UpTo(executed \o first, added) /\ Below(executed \o first, rest)
          /\ \A b \in overdue : Apart(b, executed \o first)
      BY <2>4, <2>5, ConcatOrder DEF BulkInv
    <3> QED
      BY <2>1, <2>4, <2>7, <3>1 DEF BulkInv
  <2>8. CASE UNCHANGED <<executed, overdue, late>>
    BY <2>1, <2>4, <2>8 DEF BulkInv
  <2>9. CASE /\ UNCHANGED executed
             /\ overdue' = overdue \cup {first} /\ late' = late \cup {first}
    <3>1. InOrder(executed, late')
      BY <2>9, OrderStays DEF BulkInv
    <3>2. /\ \A b \in overdue' : Apart(b, executed)
          /\ \A b, c \in overdue' : b = c \/ Apart(b, c)
      BY <2>5, <2>6, <2>9 DEF BulkInv
    <3>3. \A b \in late' : Rising(b) /\ UpTo(b, added) /\ Below(b, rest)
      BY <2>4, <2>9 DEF BulkInv
    <3>4. overdue' \subseteq late'
      BY <2>9 DEF BulkInv
    <3> QED
      BY <2>1, <2>4, <2>9, <3>1, <3>2, <3>3, <3>4 DEF BulkInv
  <2> QED
    BY <2>1, <2>7, <2>8, <2>9
<1>4. CASE LateBulk
  <2>1. PICK b \in overdue : executed' = executed \o b /\ overdue' = overdue \ {b}
    BY <1>4 DEF LateBulk
  <2>2. UNCHANGED <<m_bulk_queue, added, late>>
    BY <1>4 DEF LateBulk, client
  <2>3. /\ b \in late /\ Rising(b) /\ UpTo(b, added) /\ Below(b, m_bulk_queue)
        /\ Apart(b, executed)
    BY DEF BulkInv
  <2>4. /\ executed \o b \in Seq(Nat) /\ InOrder(executed \o b, late)
        /\ UpTo(executed \o b, added) /\ Below(executed \o b, m_bulk_queue)
        /\ \A c : Apart(c, executed) /\ Apart(c, b) => Apart(c, executed \o b)
    BY <2>3, ConcatOrder DEF BulkInv
  <2>5. \A c \in overdue' : Apart(c, executed \o b)
    BY <2>1, <2>4 DEF BulkInv
  <2> QED
    BY <2>1, <2>2, <2>4, <2>5 DEF BulkInv
<1>5. CASE \/ Construct \/ DiscoverThrows \/ DocCall \/ Ask \/ Act \/ ClusterChanges
           \/ NoNode \/ UNCHANGED elasticVars
           \/ \E o \in {"exists", "create", "remove", "set_shard_count"} : IndexCall(o)
  <2>1. UNCHANGED <<m_bulk_queue, executed, overdue, late, added>>
    BY <1>5 DEF Construct, DiscoverThrows, NoNode, DocCall, Ask, Act, ClusterChanges, IndexCall,
                elasticVars, client, remote, bulk
  <2> QED
    BY <2>1 DEF BulkInv
<1> QED
  BY <1>1, <1>2, <1>3, <1>4, <1>5 DEF Next

\* However the requests and the answers are lost or come late, no bulk action is
\* carried out twice or while it waits, and one comes behind a later one only when
\* its request was given up (process_bulkaction_queue(), elasticsearchclient.cpp:209,
\* pops each while it puts the request together, and forgets it).
THEOREM BulkOnceInOrderHolds ==
  Spec => []BulkOnceInOrder
<1>1. Init => BulkInv
  <2> SUFFICES ASSUME Init PROVE BulkInv
    OBVIOUS
  <2>1. m_bulk_queue = <<>> /\ executed = <<>> /\ overdue = {} /\ late = {} /\ added = 0
    BY DEF Init
  <2> QED
    BY <2>1, EmptyRises DEF BulkInv, Rising
<1>2. BulkInv /\ [Next]_elasticVars => BulkInv'
  BY BulkStep
<1>3. BulkInv => BulkOnceInOrder
  <2> SUFFICES ASSUME BulkInv PROVE BulkOnceInOrder
    OBVIOUS
  <2>1. DOMAIN executed = 1..Len(executed) /\ DOMAIN m_bulk_queue = 1..Len(m_bulk_queue)
    BY LenProperties DEF BulkInv, Rising
  <2>2. \A b \in late : DOMAIN b = 1..Len(b)
    BY LenProperties DEF BulkInv, Rising
  <2>3. ASSUME NEW i \in DOMAIN executed, NEW j \in DOMAIN executed, i < j
        PROVE  \/ executed[i] < executed[j]
               \/ /\ executed[i] # executed[j]
                  /\ \E b \in late : executed[j] \in Range(b) /\ executed[i] \notin Range(b)
    BY <2>1, <2>2, <2>3 DEF BulkInv, InOrder, Range
  <2>4. \A i \in DOMAIN executed, j \in DOMAIN m_bulk_queue : executed[i] < m_bulk_queue[j]
    BY <2>1 DEF BulkInv, Below
  <2> QED
    BY <2>3, <2>4 DEF BulkOnceInOrder
<1> QED
  BY <1>1, <1>2, <1>3, PTL DEF Spec

-----------------------------------------------------------------------------
(***************************************************************************)
(* Elasticsearch: the index                                                *)
(***************************************************************************)

\* A request for the index is made when it has to be: while nobody else touches it
\* and every question was answered, create() found none and remove() found one.
IndexInv ==
  /\ cluster \in Nat /\ {index, failed} \subseteq BOOLEAN
  /\ op \in {"none", "exists", "create", "remove", "set_shard_count"}
  /\ pc \in {"idle", "exists", "act", "crashed"} /\ (pc = "exists" => op # "none")
  /\ ~alive => pc = "idle"
  /\ pc = "act" => op \in {"create", "remove"}
  /\ pc = "act" /\ ~failed /\ cluster = 0 => (op = "remove" <=> index)
  /\ AnsweredMeansTrue

LEMMA IndexStep ==
  ASSUME IndexInv, [Next]_elasticVars
  PROVE  IndexInv'
<1>1. CASE Ask
  <2>1. PICK e \in BOOLEAN, s \in 1..2 :
          Concludes(e, s) /\ failed' \in BOOLEAN /\ (e = index \/ failed')
    <3>1. PICK a \in Exists, s \in 1..2 : failed' = a[2] /\ Concludes(a[1], s)
      BY <1>1 DEF Ask
    <3>2. CASE a = <<index, FALSE>>
      <4>1. a[1] = index /\ index \in BOOLEAN /\ a[2] = FALSE
        BY <3>2 DEF IndexInv
      <4> QED
        BY <3>1, <4>1
    <3>3. ASSUME NEW e \in BOOLEAN, a = <<e, TRUE>>
          PROVE  \E f \in BOOLEAN, t \in 1..2 :
                   Concludes(f, t) /\ failed' \in BOOLEAN /\ (f = index \/ failed')
      <4>1. a[1] = e /\ a[2] = TRUE
        BY <3>3
      <4> QED
        BY <3>1, <4>1
    <3> QED
      BY <3>2, <3>3 DEF Exists
  <2>2. /\ pc' \in {"idle", "act"}
        /\ pc' = "act" => op \in {"create", "remove"} /\ (e <=> op = "remove")
        /\ pc' = "idle" /\ result' = "true" => (e <=> op \notin {"remove", "set_shard_count"})
    <3>1. op \in {"exists", "create", "remove", "set_shard_count"}
      BY <1>1 DEF IndexInv, Ask
    <3>2. CASE op \in {"create", "remove"}
      BY <2>1, <3>1, <3>2 DEF Concludes, Returns
    <3>3. CASE op \in {"exists", "set_shard_count"}
      BY <2>1, <3>1, <3>3 DEF Concludes, Returns
    <3> QED
      BY <3>1, <3>2, <3>3
  <2>3. UNCHANGED <<index, cluster, op, alive>> /\ alive
    BY <1>1 DEF Ask, remote, IndexInv
  <2> QED
    BY <2>1, <2>2, <2>3 DEF IndexInv, AnsweredMeansTrue
<1>2. CASE Act
  <2>1. PICK acts, answered \in BOOLEAN :
          /\ index' = (IF acts THEN op = "create" ELSE index)
          /\ pc' = "idle" /\ (result' = "true" => acts /\ answered)
    BY <1>2 DEF Act, Returns, Acknowledged
  <2>2. op \in {"create", "remove"} /\ UNCHANGED <<cluster, op>>
    BY <1>2 DEF Act, IndexInv
  <2>3. failed' \in BOOLEAN /\ index' \in BOOLEAN
    BY <1>2, <2>1 DEF Act, IndexInv
  <2> QED
    BY <2>1, <2>2, <2>3 DEF IndexInv, AnsweredMeansTrue
<1>3. CASE ClusterChanges
  <2>1. /\ cluster' = cluster + 1 /\ UNCHANGED <<op, pc, failed, alive>>
        /\ index' \in BOOLEAN
    BY <1>3 DEF ClusterChanges, client, IndexInv
  <2>2. cluster' \in Nat /\ cluster' # 0
    BY <2>1 DEF IndexInv
  <2> QED
    BY <2>1, <2>2 DEF IndexInv, AnsweredMeansTrue
<1>4. CASE \E o \in {"exists", "create", "remove", "set_shard_count"} : IndexCall(o)
  <2>1. /\ pc' = "exists" /\ op' \in {"exists", "create", "remove", "set_shard_count"}
        /\ failed' = FALSE /\ UNCHANGED <<index, cluster, alive>> /\ alive
    BY <1>4 DEF IndexCall, remote
  <2> QED
    BY <2>1 DEF IndexInv, AnsweredMeansTrue
<1>5. CASE \/ Construct \/ Destroy \/ DiscoverThrows \/ DocCall
           \/ \E limit \in 0..1 : ProcessBulkActions(limit)
  <2>1. /\ pc' = "idle" /\ op' = "none" /\ failed' = FALSE /\ result' # "true"
        /\ UNCHANGED <<index, cluster>>
    BY <1>5 DEF Construct, Destroy, DiscoverThrows, DocCall, ProcessBulkActions, Ends, remote,
                IndexInv
  <2> QED
    BY <2>1 DEF IndexInv, AnsweredMeansTrue
<1>6. CASE AddBulkAction \/ LateBulk \/ UNCHANGED elasticVars
  <2>1. UNCHANGED <<op, pc, index, cluster, result, failed, alive>>
    BY <1>6 DEF AddBulkAction, LateBulk, client, remote, elasticVars
  <2> QED
    BY <2>1 DEF IndexInv, AnsweredMeansTrue
<1>7. CASE NoNode
  <2>1. /\ pc' = "crashed" /\ op' = "none" /\ failed' = FALSE /\ alive /\ alive' = alive
        /\ UNCHANGED <<index, cluster>>
    BY <1>7 DEF NoNode, Ends, remote
  <2> QED
    BY <2>1 DEF IndexInv, AnsweredMeansTrue
<1> QED
  BY <1>1, <1>2, <1>3, <1>4, <1>5, <1>6, <1>7 DEF Next

LEMMA IndexHolds == Spec => []IndexInv
<1>1. Init => IndexInv
  <2> SUFFICES ASSUME Init PROVE IndexInv
    OBVIOUS
  <2>1. /\ index \in BOOLEAN /\ cluster = 0 /\ op = "none" /\ pc = "idle" /\ result = "none"
        /\ failed = FALSE
    BY DEF Init
  <2> QED
    BY <2>1 DEF IndexInv, AnsweredMeansTrue
<1>2. IndexInv /\ [Next]_elasticVars => IndexInv'
  BY IndexStep
<1> QED
  BY <1>1, <1>2, PTL DEF Spec

\* Whatever requests and answers of the cluster are lost, a call of the index whose
\* requests were all answered, and that returned true, told the truth: after create()
\* the index is there, after remove() it is not (elasticsearchclient.cpp:249, 285).
THEOREM AnsweredMeansTrueHolds == Spec => []AnsweredMeansTrue
<1>1. IndexInv => AnsweredMeansTrue
  BY DEF IndexInv
<1> QED
  BY <1>1, IndexHolds, PTL
=============================================================================
