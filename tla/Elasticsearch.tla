---------------------------- MODULE Elasticsearch ----------------------------
(***************************************************************************)
(* An ElasticsearchClient, an Index of it, and the cluster they talk to.   *)
(*                                                                         *)
(* The client finds the nodes of the cluster, now and again, and sends     *)
(* every request to one of them; bulk actions wait in a queue until they   *)
(* are sent together.  The cluster is external: its nodes come and go, and *)
(* others create and remove the index.                                     *)
(***************************************************************************)
EXTENDS Naturals, Sequences, SequencesExt

CONSTANTS
  Nodes,       \* the addresses nodes may have
  MaxActions,  \* bound: bulk actions
  MaxNodes,    \* bound: the length of m_nodes
  MaxCluster   \* bound: how often the cluster changes

ElasticConstants == {MaxActions, MaxNodes, MaxCluster} \subseteq Nat

VARIABLES
  alive,         \* does the constructor's object exist?
  up,            \* the nodes of the cluster
  index,         \* is the index there?
  cluster,       \* the number of changes of the cluster
  m_nodes,       \* the addresses found, in the order they were found
  m_bulk_queue, added,
  executed,      \* the bulk actions the cluster carried out, in order
  overdue,       \* the bulk requests it has, whose calls have ended without an answer
  late,          \* ... and those it ever had
  m_shard_count,
  op, pc,        \* the call, none when it is no call of the Index, and its next request
  result,        \* what the last call returned: none, void, true, false, thrown
  failed         \* a request of the call of the Index got no answer, or an error

elasticVars == <<alive, up, index, cluster, m_nodes, m_bulk_queue, added, executed,
                 overdue, late, m_shard_count, op, pc, result, failed>>

client == <<alive, m_nodes, m_bulk_queue, added, m_shard_count, op, pc, result, failed>>
bulk == <<executed, overdue, late>>
remote == <<up, index, cluster, bulk>>

TypeOK ==
  /\ alive \in BOOLEAN /\ up \in (SUBSET Nodes) \ {{}} /\ index \in BOOLEAN
  /\ m_nodes \in Seq(Nodes \cup {""}) /\ Len(m_nodes) <= MaxNodes
  /\ m_shard_count \in 0..2 /\ cluster \in 0..MaxCluster
  /\ Range(m_bulk_queue) \cup Range(executed) \subseteq 1..added
  /\ overdue \subseteq late /\ \A b \in late : Range(b) \subseteq 1..added
  /\ op \in {"none", "exists", "create", "remove", "set_shard_count"}
  /\ pc \in {"idle", "exists", "act", "crashed"} /\ failed \in BOOLEAN
  /\ result \in {"none", "void", "true", "false", "thrown"}

-----------------------------------------------------------------------------
(***************************************************************************)
(* Discovery                                                               *)
(***************************************************************************)

\* The nodes the cluster names, in some order, each with its address, or "" when
\* neither the cluster state nor the API of nodes tells it; or none at all.
Listed == {s \in UNION {[1..n -> up \cup {""}] : n \in 0..2} :
             \A i, j \in DOMAIN s : s[i] = s[j] /\ s[i] # "" => i = j}

\* discover_cluster(): both requests are answered with the state of the cluster, and
\* its nodes are added behind those found before.
Discover ==
  \E s \in Listed : Len(m_nodes) + Len(s) <= MaxNodes /\ m_nodes' = m_nodes \o s

\* A call that is none of the Index ends.
Ends(r) == result' = r /\ op' = "none" /\ failed' = FALSE

\* Either is not, and an ElasticsearchException ends the call that had asked for
\* a fresh node.
DiscoverThrows ==
  /\ pc = "idle" /\ Ends("thrown")
  /\ UNCHANGED <<alive, remote, m_nodes, m_bulk_queue, added, m_shard_count, pc>>

\* get_fresh_node(): the age is in nanoseconds, so that most calls discover again.
FreshNode == (Discover \/ UNCHANGED m_nodes) /\ m_nodes' # <<>>

\* While no node was ever found, m_nodes[0] is read of an empty vector: undefined,
\* and taken as a crash.
NoNode ==
  /\ alive /\ pc = "idle" /\ m_nodes = <<>> /\ pc' = "crashed" /\ Ends("none")
  /\ UNCHANGED <<alive, remote, m_nodes, m_bulk_queue, added, m_shard_count>>

\* ElasticsearchClient(): DiscoverThrows leaves no object.
Construct ==
  /\ ~alive /\ alive' = TRUE /\ Discover /\ Ends("void")
  /\ UNCHANGED <<remote, m_bulk_queue, added, m_shard_count, pc>>

\* The destructor; what becomes of the requests that are overdue is left out.
Destroy ==
  /\ alive /\ pc = "idle"
  /\ alive' = FALSE /\ m_nodes' = <<>> /\ m_bulk_queue' = <<>> /\ Ends("none")
  /\ executed' = <<>> /\ overdue' = {} /\ late' = {} /\ added' = 0
  /\ UNCHANGED <<up, index, cluster, m_shard_count, pc>>

-----------------------------------------------------------------------------
(***************************************************************************)
(* Documents and bulk actions                                              *)
(***************************************************************************)

\* A request to m_nodes[0] reaches the cluster when a node is there.
Reaches == m_nodes'[1] \in up

\* create_doc(), insert_doc(), delete_doc(), analyze(): none tells what became of it.
DocCall ==
  /\ alive /\ pc = "idle"
  /\ FreshNode /\ Ends("void")
  /\ UNCHANGED <<alive, remote, m_bulk_queue, added, m_shard_count, pc>>

\* add_bulkaction_to_queue()
AddBulkAction ==
  /\ alive /\ pc # "crashed" /\ added < MaxActions
  /\ added' = added + 1 /\ m_bulk_queue' = Append(m_bulk_queue, added + 1)
  /\ UNCHANGED <<alive, remote, m_nodes, m_shard_count, op, pc, result, failed>>

\* A mutant: the actions are popped when the answer has come.
Pops_Answered(n, answered) ==
  m_bulk_queue' = IF answered THEN SubSeq(m_bulk_queue, n + 1, Len(m_bulk_queue)) ELSE m_bulk_queue

\* The actions are popped while the request is put together.
Pops(n, answered) == m_bulk_queue' = SubSeq(m_bulk_queue, n + 1, Len(m_bulk_queue))

\* process_bulkaction_queue(limit): without actions the POST has no data, and
\* is a GET.  A call without an answer ends while its request is lost, carried
\* out, or still to be carried out.
ProcessBulkActions(limit) ==
  LET n == IF limit = 0 \/ limit > Len(m_bulk_queue) THEN Len(m_bulk_queue) ELSE limit IN
  /\ alive /\ pc = "idle"
  /\ FreshNode /\ Ends("void")
  /\ \E answered \in BOOLEAN :
       /\ Pops(n, answered)
       /\ LET batch == SubSeq(m_bulk_queue, 1, n) IN
          \/ Reaches /\ executed' = executed \o batch /\ UNCHANGED <<overdue, late>>
          \/ ~answered /\ UNCHANGED bulk
          \/ /\ ~answered /\ Reaches /\ UNCHANGED executed
             /\ overdue' = overdue \cup {batch} /\ late' = late \cup {batch}
  /\ UNCHANGED <<alive, up, index, cluster, added, m_shard_count, pc>>

\* The cluster carries out a request whose call has ended.
LateBulk ==
  /\ \E b \in overdue : executed' = executed \o b /\ overdue' = overdue \ {b}
  /\ UNCHANGED <<client, up, index, cluster, late>>

-----------------------------------------------------------------------------
(***************************************************************************)
(* The index                                                               *)
(***************************************************************************)

\* get_node_addr() is the address of the first node found, or none.
FirstIsUp == m_nodes # <<>> /\ m_nodes[1] \in up

Returns(b) == pc' = "idle" /\ result' = IF b THEN "true" ELSE "false"

\* Every call of the Index asks first whether it exists.
IndexCall(o) ==
  /\ alive /\ pc = "idle"
  /\ op' = o /\ pc' = "exists" /\ result' = "none" /\ failed' = FALSE
  /\ UNCHANGED <<alive, remote, m_nodes, m_bulk_queue, added, m_shard_count>>

\* What exists() answers: false when there was no answer, true to every other
\* JSON that has not the status 404.
Exists ==
  {<<index, FALSE>>} \cup {<<e, TRUE>> : e \in BOOLEAN}

\* What comes of the answer e.
Concludes(e, s) ==
  CASE op = "exists" -> Returns(e) /\ UNCHANGED m_shard_count
    [] op = "set_shard_count" -> Returns(~e) /\ m_shard_count' = IF e THEN m_shard_count ELSE s
    [] (op = "create" /\ e) \/ (op = "remove" /\ ~e) -> Returns(TRUE) /\ UNCHANGED m_shard_count
    [] OTHER -> pc' = "act" /\ UNCHANGED <<result, m_shard_count>>

Ask ==
  /\ pc = "exists"
  /\ \E a \in Exists, s \in 1..2 :
       /\ a[2] \/ FirstIsUp
       /\ failed' = a[2] /\ Concludes(a[1], s)
  /\ UNCHANGED <<alive, remote, m_nodes, m_bulk_queue, added, op>>

\* A mutant: an answer that is no error is a success.
Acknowledged_Any(done, answered) == answered

\* The answer has no error, and says that it was acknowledged.
Acknowledged(done, answered) == done /\ answered

\* The PUT or DELETE of the index is refused, lost, or carried out.
Act ==
  /\ pc = "act"
  /\ \E done, answered \in BOOLEAN :
       /\ done \/ answered => FirstIsUp
       /\ done => index = (op = "remove")
       /\ index' = IF done THEN op = "create" ELSE index
       /\ Returns(Acknowledged(done, answered)) /\ failed' = (failed \/ ~answered)
  /\ UNCHANGED <<alive, up, cluster, bulk, m_nodes, m_bulk_queue, added, m_shard_count, op>>

\* Nodes come and go; others create and remove the index, or a request of the
\* client's own does, whose call has ended without an answer.
ClusterChanges ==
  /\ cluster < MaxCluster /\ cluster' = cluster + 1
  /\ \/ up' \in (SUBSET Nodes) \ {{}} /\ UNCHANGED index
     \/ index' = ~index /\ UNCHANGED up
  /\ UNCHANGED <<client, bulk>>

-----------------------------------------------------------------------------
Init ==
  /\ alive = FALSE /\ up \in (SUBSET Nodes) \ {{}} /\ index \in BOOLEAN /\ cluster = 0
  /\ m_nodes = <<>> /\ m_bulk_queue = <<>> /\ added = 0 /\ executed = <<>>
  /\ overdue = {} /\ late = {}
  /\ m_shard_count = 0 /\ op = "none" /\ pc = "idle" /\ result = "none" /\ failed = FALSE

Next ==
  \/ Construct \/ Destroy \/ DiscoverThrows \/ NoNode
  \/ DocCall \/ AddBulkAction \/ \E limit \in 0..1 : ProcessBulkActions(limit) \/ LateBulk
  \/ \E o \in {"exists", "create", "remove", "set_shard_count"} : IndexCall(o)
  \/ Ask \/ Act \/ ClusterChanges

Spec == Init /\ [][Next]_elasticVars

-----------------------------------------------------------------------------
(***************************************************************************)
(* Properties                                                              *)
(***************************************************************************)

\* A bulk action is carried out at most once, and never while it still waits,
\* whatever requests and answers are lost; those that are carried out after one
\* added later belong to a request that was given up, and keep their order in it.
BulkOnceInOrder ==
  /\ \A i, j \in DOMAIN executed :
       i < j => \/ executed[i] < executed[j]
                \/ /\ executed[i] # executed[j]
                   /\ \E b \in late : executed[j] \in Range(b) /\ executed[i] \notin Range(b)
  /\ \A i \in DOMAIN executed, j \in DOMAIN m_bulk_queue : executed[i] < m_bulk_queue[j]

\* A call of the index whose requests were all answered tells the truth, while
\* nobody else touches it and none of its own comes late: after create() it is
\* there, after remove() it is not.
AnsweredMeansTrue ==
  pc = "idle" /\ result = "true" /\ ~failed /\ cluster = 0 =>
    CASE op = "create" -> index
      [] op \in {"remove", "set_shard_count"} -> ~index
      [] OTHER -> index

\* Refuted: requests go to a fresh node, one that the cluster had when it was
\* discovered last (elasticsearchclient.h:134).
NodeIsFresh == [][m_nodes' # m_nodes /\ m_nodes' # <<>> => m_nodes'[1] \in up]_elasticVars

\* Refuted: a client whose constructor returned can be used.
NeverCrashes == pc # "crashed"

\* Refuted: an index that remove() says is gone, or was not there, is not there.
RemoveMeansGone ==
  pc = "idle" /\ op = "remove" /\ result = "true" /\ cluster = 0 => ~index

\* Refuted: no bulk action is lost.
NoBulkLost ==
  \A a \in 1..added : a \in Range(executed) \cup Range(m_bulk_queue)

\* Refuted: set_shard_count() refuses an index that exists.
ShardsBeforeCreation ==
  pc = "idle" /\ op = "set_shard_count" /\ result = "true" /\ cluster = 0 => ~index
=============================================================================
