---------------------------- MODULE HttpExchange ----------------------------
(***************************************************************************)
(* An HTTPClient and an http::Server.                                      *)
(*                                                                         *)
(* The client is used by one thread; each request opens a connection.  The *)
(* thread of libmicrohttpd calls request_handler() once with the headers,  *)
(* once for every piece of the body and once more, and interleaves its     *)
(* connections, some of which the client has given up.  curl and           *)
(* libmicrohttpd are external.                                             *)
(***************************************************************************)
EXTENDS Naturals, FiniteSets

CONSTANTS
  Headers, Params,  \* names of headers and of parameters; values are left out
  Methods,          \* the methods the client uses
  Urls,
  Routes,           \* the methods and urls with a handler
  MaxRequests, MaxPieces  \* bounds: requests, pieces of a body

\* What is assumed of the constants.
HttpConstants ==
  /\ Methods \subseteq {"DELETE", "GET", "HEAD", "PATCH", "POST", "PROPFIND", "PUT"}
  /\ MaxRequests \in Nat /\ MaxPieces \in Nat \ {0}

VARIABLES
  m_http_headers, m_uri_params, m_form_params,
  m_http_code,
  query,      \* the call in progress, or the last one, with the data it sent
  pc,         \* the client is idle, or in curl_easy_perform()
  result,     \* what the last call returned
  sent,       \* the number of requests sent; the last is the one in progress
  wire,       \* what each request on its way carries
  conn,       \* where each connection is
  session,    \* its ServerRequestSession: none, live or freed
  handled,    \* data_handled of the session
  page,       \* result and http_code of the session
  left,       \* the pieces of the body still to come
  calls,      \* how often the handler was called for the request
  added       \* the headers and parameters the caller means the next request to carry:
              \* those of the calls since the last one, and its headers if it asked to
              \* keep them

clientVars == <<m_http_headers, m_uri_params, m_form_params, m_http_code, query, pc,
                result, added>>
serverVars == <<session, handled, page, left, calls>>
httpVars == <<clientVars, serverVars, sent, wire, conn>>

Request == 1..MaxRequests

\* The calls of HTTPClient; a call that sends JSON has a Query of its method.
\* keep and quiet are the flags FLAG_KEEP_HEADER_CACHE_AFTER_REQUEST and
\* FLAG_NO_RESPONSE_AWAITED.
Queries ==
  [call: {"request"}, method: Methods, data: {"none", "text"}, url: Urls,
   keep: BOOLEAN, quiet: {FALSE}]
    \cup
  {q \in [call: {"_get_json", "_post_json", "_put_json", "_delete"}, method: Methods,
          data: {"none", "json"}, url: Urls, keep: BOOLEAN, quiet: BOOLEAN] :
     CASE q.call = "_get_json" -> q.method = "GET" /\ ~q.quiet
       [] q.call = "_post_json" -> q.method = "POST" /\ q.data = "json"
       [] q.call = "_put_json" -> q.method = "PUT" /\ q.data = "json"
       [] OTHER -> q.method = "DELETE" /\ q.data = "none" /\ ~q.quiet}

NoAnswer == [code |-> 0, body |-> ""]
BadRequest == [code |-> 400, body |-> "html"]
FreshPage == [code |-> 200, body |-> ""]
NoRequest == [method |-> "none"]
Pages == {NoAnswer, BadRequest} \cup [code: {200}, body: {"", "text", "json"}]

Meant(h, p, f) == [headers |-> h, params |-> p, form |-> f]

TypeOK ==
  /\ m_http_headers \subseteq Headers \cup {"json"}
  /\ m_uri_params \subseteq Params /\ m_form_params \subseteq Params
  /\ m_http_code \in {0, 200, 400}
  /\ query \in {[q EXCEPT !.data = d] : q \in Queries, d \in {"none", "text", "json", "form"}}
  /\ pc \in {"idle", "perform"} /\ result \in {"none", "void", "true", "false"}
  /\ sent \in 0..MaxRequests
  /\ conn \in [Request -> {"none", "sent", "open", "answered", "closed"}]
  /\ session \in [Request -> {"none", "live", "freed"}]
  /\ handled \in [Request -> BOOLEAN]
  /\ page \in [Request -> Pages]
  /\ left \in [Request -> 0..MaxPieces]
  /\ calls \in [Request -> 0..(MaxPieces + 1)]

-----------------------------------------------------------------------------
(***************************************************************************)
(* The client                                                              *)
(***************************************************************************)

AddHttpHeader(h) ==
  /\ pc = "idle" /\ m_http_headers' = m_http_headers \cup {h}
  /\ added' = [added EXCEPT !.headers = @ \cup {h}]
  /\ UNCHANGED <<m_uri_params, m_form_params>>

AddUriParam(p) ==
  /\ pc = "idle" /\ m_uri_params' = m_uri_params \cup {p}
  /\ added' = [added EXCEPT !.params = @ \cup {p}]
  /\ UNCHANGED <<m_http_headers, m_form_params>>

AddFormParam(p) ==
  /\ pc = "idle" /\ m_form_params' = m_form_params \cup {p}
  /\ added' = [added EXCEPT !.form = @ \cup {p}]
  /\ UNCHANGED <<m_http_headers, m_uri_params>>

Adds ==
  /\ sent < MaxRequests  \* bound
  /\ \/ \E h \in Headers : AddHttpHeader(h)
     \/ \E p \in Params : AddUriParam(p) \/ AddFormParam(p)
  /\ UNCHANGED <<m_http_code, query, pc, result, sent, wire, conn, serverVars>>

\* prepare_json_query(): every call but request() announces JSON.
Announced(q) == IF q.call = "request" THEN {} ELSE {"json"}

\* The form parameters take the place of the data of the query.
Body(q) == IF m_form_params # {} THEN "form" ELSE q.data

\* curl makes a POST of every request with data, and a GET of one without.
WireMethod(q) ==
  IF q.method \notin {"GET", "POST"} THEN q.method
  ELSE IF Body(q) = "none" THEN "GET" ELSE "POST"

\* A mutant: the headers of a request stay for the next one.
Clears_Params(q) ==
  /\ m_uri_params' = {} /\ m_form_params' = {} /\ UNCHANGED m_http_headers

\* What is left for the next request when curl_easy_perform() has returned.
Clears(q) ==
  /\ IF q.keep THEN UNCHANGED m_http_headers ELSE m_http_headers' = {}
  /\ m_uri_params' = {} /\ m_form_params' = {}

Perform(q) ==
  /\ pc = "idle" /\ sent < MaxRequests
  /\ pc' = "perform" /\ query' = [q EXCEPT !.data = Body(q)]
  /\ result' = "none" /\ m_http_code' = 0
  /\ m_http_headers' = m_http_headers \cup Announced(q)
  /\ added' = [added EXCEPT !.headers = @ \cup Announced(q)]
  /\ sent' = sent + 1
  /\ wire' = [wire EXCEPT ![sent + 1] =
                [method |-> WireMethod(q), url |-> q.url, headers |-> m_http_headers',
                 params |-> m_uri_params, form |-> m_form_params, body |-> Body(q),
                 meant |-> added', quiet |-> q.quiet]]
  /\ conn' = [conn EXCEPT ![sent + 1] = "sent"]
  /\ \E n \in 1..MaxPieces :
       left' = [left EXCEPT ![sent + 1] = IF Body(q) = "none" THEN 0 ELSE n]
  /\ UNCHANGED <<m_uri_params, m_form_params, session, handled, page, calls>>

\* A mutant: nobody asks whether an answer was awaited.
PostAccepts_Empty(q, a) == a.code # 400 /\ (a.body = "" \/ a.body = "json")

\* _post_json() and _put_json()
PostAccepts(q, a) == a.code # 400 /\ ((q.quiet /\ a.body = "") \/ a.body = "json")

\* What the call makes of the answer a, or of none.
Finishes(a) ==
  /\ pc' = "idle" /\ m_http_code' = a.code
  /\ Clears(query)
  /\ added' = Meant(IF query.keep THEN added.headers ELSE {}, {}, {})
  /\ result' = CASE query.call = "request" -> "void"
                 [] query.call \in {"_get_json", "_delete"} ->
                      IF a.body = "json" THEN "true" ELSE "false"
                 [] OTHER -> IF PostAccepts(query, a) THEN "true" ELSE "false"
  /\ UNCHANGED <<query, sent, session, handled, calls>>

Receives ==
  /\ pc = "perform" /\ conn[sent] = "answered"
  /\ Finishes(page[sent])
  /\ conn' = [conn EXCEPT ![sent] = "closed"] /\ page' = [page EXCEPT ![sent] = NoAnswer]
  /\ UNCHANGED <<wire, left>>

\* The server is not there, goes away or closes the connection, or curl gives up.
Fails ==
  /\ pc = "perform"
  /\ Finishes(NoAnswer)
  /\ \/ conn[sent] = "open" /\ UNCHANGED <<conn, wire, page, left>>
     \/ /\ conn[sent] # "open"
        /\ conn' = [conn EXCEPT ![sent] = "closed"]
        /\ wire' = [wire EXCEPT ![sent] = NoRequest]
        /\ page' = [page EXCEPT ![sent] = NoAnswer] /\ left' = [left EXCEPT ![sent] = 0]

-----------------------------------------------------------------------------
(***************************************************************************)
(* The server: request_handler()                                           *)
(***************************************************************************)

\* The first call makes the session.
FirstCall(i) ==
  /\ conn[i] = "sent" /\ UNCHANGED wire
  /\ conn' = [conn EXCEPT ![i] = "open"] /\ session' = [session EXCEPT ![i] = "live"]
  /\ page' = [page EXCEPT ![i] = FreshPage]
  /\ UNCHANGED <<handled, left, calls>>

ContentType(w) ==
  IF "json" \in w.headers THEN "json" ELSE IF w.body # "none" THEN "form" ELSE "none"

\* Can the piece be read?  whole: it is all of the body.  JSON is when it is whole;
\* nothing at all is no JSON.  A part of JSON, or of a form, may be read too, and so
\* may what was not announced as what it is; a form is not read when a value in it
\* is empty.
Readable(w, whole) ==
  IF w.body = "none" THEN {ContentType(w) = "none"}
  ELSE IF w.body = "json" /\ ContentType(w) = "json" /\ whole THEN {TRUE}
  ELSE BOOLEAN

\* handle_query(): a request without a handler, one that cannot be read and one
\* whose handler has no answer are bad; the handler makes the page otherwise.
HandleQuery(i, whole) ==
  LET w == wire[i] IN
  \/ /\ <<w.method, w.url>> \notin Routes \/ FALSE \in Readable(w, whole)
     /\ page' = [page EXCEPT ![i] = BadRequest]
     /\ UNCHANGED calls
  \/ /\ <<w.method, w.url>> \in Routes /\ TRUE \in Readable(w, whole)
     /\ \E b \in {"", "text", "json", "null"} :
          page' = [page EXCEPT ![i] =
                     IF b = "null" THEN BadRequest ELSE [code |-> 200, body |-> b]]
     /\ calls' = [calls EXCEPT ![i] = @ + 1]

HandlesUnlessHandled(i, whole) ==
  IF handled[i] THEN UNCHANGED <<page, calls>> ELSE HandleQuery(i, whole)

\* A mutant: the session is not marked as handled.
Marks_Not(i) == UNCHANGED handled

Marks(i) == handled' = [handled EXCEPT ![i] = TRUE]

BodyCall(i) ==
  /\ conn[i] = "open" /\ session[i] = "live" /\ left[i] > 0
  /\ HandlesUnlessHandled(i, left[i] = 1 /\ ~handled[i])
  /\ left' = [left EXCEPT ![i] = @ - 1]
  /\ Marks(i)
  /\ UNCHANGED <<conn, session, wire>>

\* A mutant: the session is not deleted.
Frees_Not(i) == UNCHANGED session

Frees(i) == session' = [session EXCEPT ![i] = "freed"]

\* The call without data answers, and deletes the session.
LastCall(i) ==
  /\ conn[i] = "open" /\ session[i] = "live" /\ left[i] = 0
  /\ HandlesUnlessHandled(i, TRUE)
  /\ conn' = [conn EXCEPT ![i] = IF i = sent /\ pc = "perform" THEN "answered" ELSE "closed"]
  /\ wire' = [wire EXCEPT ![i] = NoRequest]
  /\ Frees(i)
  /\ UNCHANGED <<handled, left>>

Serves(i) ==
  /\ FirstCall(i) \/ BodyCall(i) \/ LastCall(i)
  /\ UNCHANGED <<clientVars, sent>>

\* The connection ends before the request is complete: request_completed() is
\* called, and does nothing; nobody will see the page of the session.
Aborts(i) ==
  /\ conn[i] = "open"
  /\ conn' = [conn EXCEPT ![i] = "closed"] /\ wire' = [wire EXCEPT ![i] = NoRequest]
  /\ left' = [left EXCEPT ![i] = 0] /\ page' = [page EXCEPT ![i] = NoAnswer]
  /\ UNCHANGED <<clientVars, session, handled, calls, sent>>

-----------------------------------------------------------------------------
Init ==
  /\ m_http_headers = {} /\ m_uri_params = {} /\ m_form_params = {}
  /\ m_http_code = 0 /\ query = CHOOSE q \in Queries : TRUE
  /\ pc = "idle" /\ result = "none" /\ sent = 0
  /\ wire = [i \in Request |-> NoRequest]
  /\ conn = [i \in Request |-> "none"] /\ session = [i \in Request |-> "none"]
  /\ handled = [i \in Request |-> FALSE]
  /\ page = [i \in Request |-> NoAnswer]
  /\ left = [i \in Request |-> 0] /\ calls = [i \in Request |-> 0]
  /\ added = Meant({}, {}, {})

Next ==
  \/ Adds
  \/ \E q \in Queries : Perform(q)
  \/ Receives \/ Fails
  \/ \E i \in Request : Serves(i) \/ Aborts(i)

Spec == Init /\ [][Next]_httpVars

-----------------------------------------------------------------------------
(***************************************************************************)
(* Properties                                                              *)
(***************************************************************************)

\* A request carries the headers and parameters its caller added since the previous
\* one, the headers of that one when it asked to keep them, and nothing else of an
\* earlier request, whatever became of it.
RequestsAreSeparate ==
  \A i \in {j \in 1..sent : wire[j] # NoRequest} :
    Meant(wire[i].headers, wire[i].params, wire[i].form) = wire[i].meant

\* The handler of a request is called at most once, in however many pieces the
\* body arrives.
HandledOnce == \A i \in Request : calls[i] <= 1

\* The exchange as AtMostOnce sees it: the requests that may still come to their
\* handler, and what the last call told of its own.
Pending == {i \in Request : conn[i] \in {"sent", "open"} /\ ~handled[i]}

Outcome ==
  IF result = "none" THEN "none"
  ELSE IF result = "true" /\ ~query.quiet THEN "served" ELSE "unknown"

Requests == INSTANCE AtMostOnce WITH
  asked <- sent, calling <- (pc = "perform"), pending <- Pending, times <- calls,
  outcome <- Outcome

\* A request comes to its handler at most once, whatever becomes of its connection,
\* perhaps after curl gave up, and a call that was not quiet is true only when it
\* had: the calls of the client and of the server implement AtMostOnce.
ServesAtMostOnce == Requests!Spec

\* The session of a request is freed with the answer, and is alive while the
\* handler uses it; only a connection that was aborted leaves one behind, since
\* request_completed() is empty (httpserver.cpp:121).
SessionsAreFreed ==
  \A i \in Request :
    /\ conn[i] = "answered" => session[i] = "freed"
    /\ conn[i] = "open" => session[i] = "live"

\* Refuted: the handler is given all of the body.
HandlerSeesWholeBody == \A i \in Request : calls[i] > 0 => left[i] = 0

\* Refuted: a quiet call that returned true reached its handler.
QuietMeansServed == result = "true" => calls[sent] = 1

\* A _get_json() that sends no data never comes to a handler of a Server, not even
\* one for GET: it announces JSON, "" is none, and the query is bad
\* (httpserver.cpp:150).
GetJsonIsUnserved ==
  result # "none" /\ query.call = "_get_json" /\ query.data = "none" => calls[sent] = 0
=============================================================================
