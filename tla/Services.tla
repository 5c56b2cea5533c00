------------------------------ MODULE Services -------------------------------
(***************************************************************************)
(* The HTTP client and server and the clients of remote services but       *)
(* GitLab, together.  They share nothing: subject is the one that works,   *)
(* and the others stay in a state of their own.                            *)
(*                                                                         *)
(* Elasticsearch is extended, its variables and constants are those of     *)
(* this module; the other modules are instances.                           *)
(***************************************************************************)
EXTENDS Elasticsearch

CONSTANTS
  Subjects,                                          \* the parts explored
  Headers, Params, Methods, Urls, Routes,            \* of HttpExchange
  MaxRequests, MaxPieces,
  Users, MaxOthers,                                  \* of Jira
  Ids, Names, MaxFailures, MaxRenames, MaxMessages,  \* of Slack
  MaxCallbacks,
  MaxSessions, MaxEvents                             \* of Irc

VARIABLES
  subject,
  m_http_headers, m_uri_params, m_form_params, m_http_code, query, hPc, hResult, hAdded,
  session, handled, page, left, calls, sent, wire, conn,
  jClient, assignee, done, jCall, jPc, jCode, saw, jResult, lua, jOthers,
  sRemote, renames, sPc, stopping, failure_number, sLate, m_groups, m_groups_reverse,
  listed, m_callbacks, next, m_internal_message_id, sender, sSent, grown,
  object, m_irc_session, made, live, connected, events, iCall, iSent, iResult, running

Http == INSTANCE HttpExchange WITH pc <- hPc, result <- hResult, added <- hAdded

Jira == INSTANCE Jira WITH
  client <- jClient, call <- jCall, pc <- jPc, m_http_code <- jCode, result <- jResult,
  others <- jOthers

Slack == INSTANCE Slack WITH
  remote <- sRemote, pc <- sPc, sent <- sSent, late <- sLate

Irc == INSTANCE Irc WITH call <- iCall, sent <- iSent, result <- iResult

\* What is assumed of the constants.
ASSUME ServicesAssumption ==
  /\ Http!HttpConstants /\ Jira!JiraConstants /\ ElasticConstants
  /\ Slack!SlackConstants /\ Irc!IrcConstants

httpV == <<m_http_headers, m_uri_params, m_form_params, m_http_code, query, hPc, hResult,
           hAdded, session, handled, page, left, calls, sent, wire, conn>>
jiraV == <<jClient, assignee, done, jCall, jPc, jCode, saw, jResult, lua, jOthers>>
slackV == <<sRemote, renames, sPc, stopping, failure_number, sLate, m_groups,
            m_groups_reverse, listed, m_callbacks, next, m_internal_message_id, sender,
            sSent, grown>>
ircV == <<object, m_irc_session, made, live, connected, events, iCall, iSent, iResult,
          running>>
vars == <<subject, httpV, jiraV, elasticVars, slackV, ircV>>

-----------------------------------------------------------------------------
ServicesInit ==
  /\ subject \in Subjects
  /\ Http!Init /\ Jira!Init /\ Init /\ Slack!Init /\ Irc!Init
  /\ subject # "jira" => assignee = "nobody"
  /\ subject # "elasticsearch" => up = Nodes /\ index
  /\ subject # "slack" => sRemote = [i \in Ids |-> ""]

ServicesNext ==
  /\ UNCHANGED subject
  /\ \/ /\ subject = "http" /\ Http!Next
        /\ UNCHANGED <<jiraV, elasticVars, slackV, ircV>>
     \/ /\ subject = "jira" /\ Jira!Next
        /\ UNCHANGED <<httpV, elasticVars, slackV, ircV>>
     \/ /\ subject = "elasticsearch" /\ Next
        /\ UNCHANGED <<httpV, jiraV, slackV, ircV>>
     \/ /\ subject = "slack" /\ Slack!Next
        /\ UNCHANGED <<httpV, jiraV, elasticVars, ircV>>
     \/ /\ subject = "irc" /\ Irc!Next
        /\ UNCHANGED <<httpV, jiraV, elasticVars, slackV>>

ServicesSpec == ServicesInit /\ [][ServicesNext]_vars

-----------------------------------------------------------------------------
\* The properties of the modules; their comments are there, those of Elasticsearch
\* come with it.  Each is evaluated where its module is the one explored.
TypesOK ==
  /\ subject = "http" => Http!TypeOK
  /\ subject = "jira" => Jira!TypeOK
  /\ subject = "elasticsearch" => TypeOK
  /\ subject = "slack" => Slack!TypeOK
  /\ subject = "irc" => Irc!TypeOK

\* The code of the Jira client tells what its results do not.
CodeTells == subject = "jira" => Jira!CodeTells

\* HandledOnce, and the session of a request is freed with it; a request without
\* the body that its method needs reaches no handler.
ServedOnce ==
  subject = "http" => Http!HandledOnce /\ Http!SessionsAreFreed /\ Http!GetJsonIsUnserved

\* The HTTP client and server carry a request out at most once (AtMostOnce).
ServesAtMostOnce == Http!ServesAtMostOnce

\* A stopped Slack client makes no more than one connection.
StopsConnecting == subject = "slack" => Slack!StopsConnecting

\* A request carries what its caller means it to carry, and nothing older.
RequestsAreSeparate == subject = "http" => Http!RequestsAreSeparate

\* The ones that are refuted; the comment of each is in its module.
HandlerSeesWholeBody == subject = "http" => Http!HandlerSeesWholeBody
QuietMeansServed == subject = "http" => Http!QuietMeansServed
TrueMeansDone == subject = "jira" => Jira!TrueMeansDone
FalseHasItsCode == subject = "jira" => Jira!FalseHasItsCode
LuaGetsJsonOrNil == subject = "jira" => Jira!LuaGetsJsonOrNil
ListedIsFound == subject = "slack" => Slack!ListedIsFound
MessageIdsDiffer == subject = "slack" => Slack!MessageIdsDiffer
CallbacksStand == subject = "slack" => Slack!CallbacksStand
EndsWhenStopped == subject = "slack" => Slack!EndsWhenStopped
NamesAreCurrent == subject = "slack" => Slack!NamesAreCurrent
TrueMeansSent == subject = "irc" => Irc!TrueMeansSent
TrueMeansNormal == subject = "irc" => Irc!TrueMeansNormal
SessionIsLive == subject = "irc" => Irc!SessionIsLive
NoSessionIsLost == subject = "irc" => Irc!NoSessionIsLost
=============================================================================
