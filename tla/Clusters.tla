------------------------------ MODULE Clusters ------------------------------
(***************************************************************************)
(* Semantic clustering of one lever (clustering/service.py, algo.py): a    *)
(* pass embeds the prose judged since, reads the embeddings of the rolling *)
(* window, deletes the clusters it sees and writes new ones, all in one    *)
(* transaction that calls models meanwhile.  The sidecar                   *)
(* (worker/clustering.py) and a backfill job may each be in a pass.        *)
(***************************************************************************)
EXTENDS Integers, FiniteSets, NoValue

CONSTANTS Call, AgentOf, Clusterer, MinToCluster, MinSize, MaxPasses

(* A database holds finitely many calls.                                    *)
ASSUME ClusterAssumption == IsFiniteSet(Call)

(* prose: calls whose judgment has text in the lever; old: those no longer  *)
(* in the window; embedded: CallEmbedding; placed: CallCluster; clusters:   *)
(* Cluster.  A row carries the pass that wrote it, as its id does.          *)
VARIABLES prose, old, embedded, placed, clusters, pass, passes

clusterVars == <<prose, old, embedded, placed, clusters, pass, passes>>

ClusterInit ==
  /\ prose = {} /\ old = {} /\ embedded = {} /\ placed = {} /\ clusters = {}
  /\ pass = [w \in Clusterer |-> None] /\ passes = 0

-----------------------------------------------------------------------------
(* A call is judged and has prose.  Judging it again may change or drop the *)
(* prose; an embedding once made of it stays as it is.                      *)
Reviewed(c) ==
  /\ prose' = prose \cup {c}
  /\ UNCHANGED <<old, embedded, placed, clusters, pass, passes>>

Ages(c) ==
  /\ old' = old \cup {c}
  /\ UNCHANGED <<prose, embedded, placed, clusters, pass, passes>>

(* _backfill_embeddings: of the prose without one; a batch may fail.        *)
Embed(w) ==
  /\ pass[w] = None /\ passes < MaxPasses /\ passes' = passes + 1
  /\ \E new \in SUBSET (prose \ embedded) :
       pass' = [pass EXCEPT ![w] = [id |-> passes', at |-> "embedded", new |-> new]]
  /\ UNCHANGED <<prose, old, embedded, placed, clusters>>

DeletedInWindow(rows) == {r \in placed : r.call \in rows}

(* All assignments of the lever go, whoever's and however old.              *)
Deleted(rows) == placed

(* _recluster_lever: the window's embeddings, and the rows to delete.       *)
ReadWindow(w) ==
  /\ pass[w] # None /\ pass[w].at = "embedded"
  /\ LET rows == (embedded \cup pass[w].new) \ old IN
     pass' = [pass EXCEPT ![w] =
       [id |-> pass[w].id, at |-> "read", new |-> pass[w].new, rows |-> rows,
        deleted |-> Deleted(rows), dropped |-> clusters]]
  /\ UNCHANGED <<prose, old, embedded, placed, clusters, passes>>

(* The agents with enough calls, and their calls.                           *)
OfAgent(rows, a) == {c \in rows : AgentOf[c] = a}
Clustered(rows) == {c \in rows : Cardinality(OfAgent(rows, AgentOf[c])) >= MinToCluster}

(* algo.cluster: None for noise; keys from 0 up, no cluster below MinSize.  *)
Group(label, a, k) == {c \in DOMAIN label : AgentOf[c] = a /\ label[c] = k}
Labels(rows) ==
  LET calls == Clustered(rows)
      agents == {AgentOf[c] : c \in calls}
  IN {label \in [calls -> {None, 0, 1}] :
        \A a \in agents :
          /\ \A k \in {0, 1} : Cardinality(Group(label, a, k)) \in {0} \cup MinSize .. Cardinality(calls)
          /\ Group(label, a, 1) # {} => Group(label, a, 0) # {}}

NewPlaced(w, label) ==
  {[call |-> c, agent |-> AgentOf[c], key |-> label[c], by |-> pass[w].id] : c \in DOMAIN label}

NewClusters(w, label) ==
  {[agent |-> AgentOf[c], key |-> label[c], by |-> pass[w].id,
    size |-> Cardinality(Group(label, AgentOf[c], label[c]))] :
     c \in {d \in DOMAIN label : label[d] # None}}

(* uq_call_embedding, uq_call_cluster, uq_cluster: what another pass has    *)
(* committed since makes the whole transaction fail.                        *)
Conflicts(w, label) ==
  \/ pass[w].new \cap embedded # {}
  \/ \E r \in placed \ pass[w].deleted : r.call \in DOMAIN label
  \/ \E k \in clusters \ pass[w].dropped, n \in NewClusters(w, label) :
       k.agent = n.agent /\ k.key = n.key

(* _cluster_agent of every agent, and recluster's commit.                   *)
CommitPass(w) ==
  /\ pass[w] # None /\ pass[w].at = "read"
  /\ \E label \in Labels(pass[w].rows) :
       IF Conflicts(w, label) THEN UNCHANGED <<embedded, placed, clusters>>
       ELSE /\ embedded' = embedded \cup pass[w].new
            /\ placed' = (placed \ pass[w].deleted) \cup NewPlaced(w, label)
            /\ clusters' = (clusters \ pass[w].dropped) \cup NewClusters(w, label)
  /\ pass' = [pass EXCEPT ![w] = None]
  /\ UNCHANGED <<prose, old, passes>>

(* The process stops, or the database does.                                 *)
Abort(w) ==
  /\ pass[w] # None /\ pass' = [pass EXCEPT ![w] = None]
  /\ UNCHANGED <<prose, old, embedded, placed, clusters, passes>>

ClusterNext ==
  \/ \E c \in Call : Reviewed(c) \/ Ages(c)
  \/ \E w \in Clusterer : Embed(w) \/ ReadWindow(w) \/ CommitPass(w) \/ Abort(w)

ClusterSpec == ClusterInit /\ [][ClusterNext]_clusterVars

-----------------------------------------------------------------------------
(* Whatever passes overlap and whatever leaves the window, the clusters     *)
(* shown and the calls in them agree: one row per (agent, key), its size    *)
(* the number of calls assigned to it, and no assignment to a cluster that  *)
(* is not there.                                                            *)
ClustersAgree ==
  /\ \A k \in clusters :
       /\ k.size = Cardinality({r \in placed : r.agent = k.agent /\ r.key = k.key})
       /\ \A l \in clusters : k.agent = l.agent /\ k.key = l.key => k = l
  /\ \A r \in placed : r.key # None => \E k \in clusters : k.agent = r.agent /\ k.key = r.key
=============================================================================
