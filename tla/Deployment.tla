----------------------------- MODULE Deployment -----------------------------
(***************************************************************************)
(* The servers under test as the main thread of the process meets them,    *)
(* and what it knows of them: src/cluster/topology.rs and node.rs for the  *)
(* nodes, discover_cluster_and_backend and get_benchmark_addresses of      *)
(* src/benchmark/orchestrator.rs for their discovery.                      *)
(*                                                                         *)
(* The main thread talks to one server at a time, over a connection that   *)
(* it opens for the purpose.  Servers cannot be reached for a while, build *)
(* indexes at their own pace, and tell each other which indexes exist.     *)
(***************************************************************************)
EXTENDS Integers, SequencesExt, Lists

CONSTANTS
    Nodes,
    NoNode,         \* no connection
    Setups,         \* the deployments and command lines to look at
    MaxOutages      \* bound on how often a server becomes unreachable

(* MemoryDB queues a new index and reports what is missing at the end;       *)
(* the others only say whether a backfill is running.                        *)
IndexStates == {"absent", "queued", "building", "degraded", "ready"}

(* A setup says what is deployed: nodes, in the order of CLUSTER NODES, the  *)
(* primaries among them, whether they form a cluster, the engine, and the    *)
(* state of an index that exists already; what a node refuses of CONFIG SET; *)
(* and the command line: seeds, required (--cluster), readFrom, vec,         *)
(* dropindex, optimize, entries of the settings file, number of tests.       *)
ASSUME DeploymentAssumption ==
    /\ NoNode \notin Nodes
    /\ \A s \in Setups :
          /\ s.nodes \in Seq(Nodes) /\ s.seeds \in Seq(Nodes) /\ s.seeds # <<>>
          /\ s.primaries \subseteq Nodes
          /\ {s.cluster, s.required, s.vec, s.dropindex, s.optimize} \subseteq BOOLEAN
          /\ s.readFrom \in {"primary", "preferReplica", "all"}
          /\ s.entries \in Seq([key : STRING, value : STRING])
          /\ s.tests \in Nat /\ s.oldHits \in Nat
          /\ s.existing \in IndexStates /\ s.engine \in {"memorydb", "other"}
    /\ MaxOutages \in Nat

VARIABLES
    setup,
    pc,         \* where the main thread is
    at,         \* the index of the node it is concerned with
    conn,       \* the node its connection is to
    clustered,  \* cluster_topology is some
    available,  \* the nodes that CLUSTER NODES called connected
    up,         \* the nodes that accept and keep connections
    outages,
    wanted,     \* the index the cluster agreed on: none, the old or the new one
    index       \* the index each node has

deploymentVars == <<setup, pc, at, conn, clustered, available, up, outages, wanted, index>>
serverVars == <<up, outages, wanted, index>>

None == 0
Old == 1
New == 2
Absent == [id |-> None, state |-> "absent"]

Fresh(id) == [id |-> id, state |-> IF setup.engine = "memorydb" THEN "queued" ELSE "building"]

Init ==
    /\ setup \in Setups
    /\ pc = "start" /\ at = 1 /\ conn = NoNode
    /\ clustered = FALSE /\ available = {}
    /\ up = Nodes /\ outages = 0
    /\ wanted = IF setup.existing = "absent" THEN None ELSE Old
    /\ index = [n \in Nodes |-> [id |-> wanted, state |-> setup.existing]]

-----------------------------------------------------------------------------
(* What the servers do.  Losing a connection is noticed at the next command. *)

Fail(n) ==
    /\ n \in up /\ outages < MaxOutages
    /\ up' = up \ {n} /\ outages' = outages + 1
    /\ conn' = IF conn = n THEN NoNode ELSE conn
    /\ UNCHANGED <<setup, pc, at, clustered, available, wanted, index>>

Recover(n) ==
    /\ n \notin up
    /\ up' = up \cup {n}
    /\ UNCHANGED <<setup, pc, at, conn, clustered, available, outages, wanted, index>>

(* The creation or removal of an index reaches another node. *)
Learn(n) ==
    /\ setup.cluster /\ index[n].id # wanted
    /\ index' = [index EXCEPT ![n] = IF wanted = None THEN Absent ELSE Fresh(wanted)]
    /\ UNCHANGED <<setup, pc, at, conn, clustered, available, up, outages, wanted>>

Build(n) ==
    /\ \E step \in {<<"queued", "building">>, <<"building", "degraded">>,
                    <<"building", "ready">>, <<"degraded", "ready">>} :
          /\ index[n].state = step[1]
          /\ step[2] = "degraded" => setup.engine = "memorydb"
          /\ index' = [index EXCEPT ![n].state = step[2]]
    /\ UNCHANGED <<setup, pc, at, conn, clustered, available, up, outages, wanted>>

-----------------------------------------------------------------------------
(* select_nodes: the nodes the benchmark uses, in the order of CLUSTER NODES. *)
AvailablePrimaries == Kept(setup.nodes, setup.primaries \cap available)
AvailableReplicas == Kept(setup.nodes, available \ setup.primaries)

SelectedNodes ==
    CASE setup.readFrom = "primary" -> AvailablePrimaries
      [] setup.readFrom = "preferReplica" ->
            IF AvailableReplicas # <<>> THEN AvailableReplicas ELSE AvailablePrimaries
      [] setup.readFrom = "all" -> Kept(setup.nodes, available)

(* get_benchmark_addresses. *)
Addresses == IF clustered THEN SelectedNodes ELSE setup.seeds

(* Orchestrator::new: a connection to the first address, the engine, and    *)
(* CLUSTER NODES.  A failed CLUSTER NODES, whatever the reason, means a     *)
(* standalone server unless --cluster insists.  The cluster may not have    *)
(* noticed yet that a node is gone.                                         *)
Connect ==
    /\ pc = "start"
    /\ IF setup.seeds[1] \in up
       THEN conn' = setup.seeds[1] /\ pc' = "discover"
       ELSE conn' = NoNode /\ pc' = "failed"
    /\ UNCHANGED <<setup, at, clustered, available, serverVars>>

ClusterAnswers == conn # NoNode /\ setup.cluster

DiscoverCluster(next) ==
    /\ pc = "discover" /\ ClusterAnswers
    /\ clustered' = TRUE
    /\ \E noticed \in SUBSET (Nodes \ up) : available' = Nodes \ noticed
    /\ conn' = NoNode /\ pc' = next
    /\ UNCHANGED <<setup, at, serverVars>>

DiscoverStandalone(next) ==
    /\ pc = "discover" /\ ~ClusterAnswers
    /\ conn' = NoNode
    /\ pc' = IF setup.required THEN "failed" ELSE next
    /\ UNCHANGED <<setup, at, clustered, available, serverVars>>

-----------------------------------------------------------------------------

DeploymentTypeOK ==
    /\ setup \in Setups
    /\ at \in Nat \ {0}
    /\ conn \in up \cup {NoNode}
    /\ clustered \in BOOLEAN /\ available \subseteq Nodes
    /\ up \subseteq Nodes /\ outages \in 0..MaxOutages
    /\ wanted \in {None, Old, New}
    /\ index \in [Nodes -> [id : {None, Old, New}, state : IndexStates]]

=============================================================================
