----------------------------- MODULE IndexSetup -----------------------------
(***************************************************************************)
(* Before vector tests run, the index is dropped if --dropindex says so,   *)
(* created if there is none, and waited for: setup_vector_index in         *)
(* src/main.rs, the index operations of src/benchmark/orchestrator.rs and  *)
(* src/workload/search_ops.rs, and the two waits, wait_for_indexing for    *)
(* one server and src/metrics/backfill.rs for a cluster.                   *)
(***************************************************************************)
EXTENDS Deployment

CONSTANT MaxPolls       \* the timeout of the waits, in polls

ASSUME PollsAssumption == MaxPolls \in Nat \ {0}

VARIABLES
    detected,   \* the engine that INFO SEARCH shows, as far as FT.INFO parsing depends on it
    links,      \* the connections to the primaries that are polled: node and state
    busy,       \* nodes_in_progress > 0 in this poll
    polls,      \* polls done
    unsure      \* history: the check before a drop had no connection

indexVars == <<detected, links, busy, polls, unsure>>

InitIndex ==
    /\ detected = "other" /\ links = <<>>
    /\ busy = FALSE /\ polls = 0
    /\ unsure = FALSE

(* All operations but the wait for a cluster go to the first address. *)
First == Addresses[1]
FirstReachable == Addresses # <<>> /\ First \in up

(* search_index_exists: no address, no connection and no index all mean no. *)
IndexExists == FirstReachable /\ index[First].id # None

CheckIndex(here, yes, no) ==
    /\ pc = here
    /\ pc' = IF IndexExists THEN yes ELSE no
    /\ unsure' = (unsure \/ (here = "checkForDrop" /\ ~FirstReachable))
    /\ UNCHANGED <<setup, at, conn, clustered, available, serverVars,
                   detected, links, busy, polls>>

CheckForDrop == CheckIndex("checkForDrop", "drop", "checkForCreate")
CheckForCreate == CheckIndex("checkForCreate", "wait", "create")

(* A replica refuses to change an index. *)
FirstWritable == FirstReachable /\ (setup.cluster => First \in setup.primaries)

Fails(here) ==
    /\ pc = here
    /\ pc' = "failed"
    /\ UNCHANGED <<setup, at, conn, clustered, available, serverVars, indexVars>>

DropFailureIgnored ==    \* mutant
    /\ pc = "drop" /\ ~FirstWritable
    /\ pc' = "checkForCreate"
    /\ UNCHANGED <<setup, at, conn, clustered, available, serverVars, indexVars>>
DropFails == ~FirstWritable /\ Fails("drop")

Drop ==
    /\ pc = "drop" /\ FirstWritable
    /\ wanted' = None
    /\ index' = [index EXCEPT ![First] = Absent]
    /\ pc' = "checkForCreate"
    /\ UNCHANGED <<setup, at, conn, clustered, available, up, outages, indexVars>>

(* create_index looks again and leaves an index alone that exists by now. *)
CanCreate == FirstReachable /\ (index[First].id # None \/ FirstWritable)
CreateFails == ~CanCreate /\ Fails("create")

Create ==
    /\ pc = "create" /\ CanCreate
    /\ IF index[First].id = None
       THEN wanted' = New /\ index' = [index EXCEPT ![First] = Fresh(New)]
       ELSE UNCHANGED <<wanted, index>>
    /\ pc' = "wait"
    /\ UNCHANGED <<setup, at, conn, clustered, available, up, outages, indexVars>>

-----------------------------------------------------------------------------
(* wait_for_search_indexing. *)

StartWait ==
    /\ pc = "wait"
    /\ IF FirstReachable
       THEN pc' = "detect" /\ conn' = First
       ELSE pc' = "failed" /\ conn' = NoNode
    /\ UNCHANGED <<setup, at, clustered, available, serverVars, indexVars>>

(* detect_engine_type: without an answer the engine is unknown and FT.INFO is *)
(* read as that of the engines other than MemoryDB.  wait_for_backfill then   *)
(* connects to the primaries, and goes on without those it cannot reach.      *)
DetectEngine ==
    /\ pc = "detect"
    /\ detected' = IF conn # NoNode THEN setup.engine ELSE "other"
    /\ IF clustered
       THEN /\ pc' = "pollCluster" /\ conn' = NoNode
            /\ links' = LET ns == Kept(setup.nodes, setup.primaries \cap up)
                        IN [i \in DOMAIN ns |-> [node |-> ns[i], state |-> "open"]]
       ELSE /\ pc' = "pollServer"
            /\ UNCHANGED <<conn, links>>
    /\ UNCHANGED <<setup, at, clustered, available, serverVars, busy, polls, unsure>>

(* FtInfoResult::is_ready: available, nothing degraded, no backfill. *)
AvailableIsReady == index[conn].state \in {"ready", "degraded"}    \* mutant
ServerReady == index[conn].state = "ready"

TimedOut == polls + 1 >= MaxPolls
PollAgain == polls' = polls + 1

(* wait_for_indexing keeps its connection; an error of any kind ends it. *)
PollServer ==
    /\ pc = "pollServer"
    /\ pc' = IF conn = NoNode \/ index[conn].id = None THEN "failed"
             ELSE IF ServerReady THEN "prepared"
             ELSE IF TimedOut THEN "failed" ELSE pc
    /\ IF pc' = pc THEN PollAgain /\ UNCHANGED conn ELSE conn' = NoNode /\ UNCHANGED polls
    /\ UNCHANGED <<setup, at, clustered, available, serverVars, detected, links, busy, unsure>>

(* get_node_progress.  Read as MemoryDB, a node without the index is an error, *)
(* and errors count as in progress; read as another engine, all that counts is *)
(* the field that says a backfill is running.                                  *)
InProgress(link) ==
    \/ link.state = "broken"
    \/ IF detected = "memorydb"
       THEN index[link.node].state # "ready"
       ELSE setup.engine # "memorydb" /\ index[link.node].state = "building"

(* The closure that hands out the connections takes them out of the list: from *)
(* the second poll on there is none, and the node is passed over.              *)
PollNode ==
    /\ pc = "pollCluster" /\ at <= Len(links)
    /\ busy' = (busy \/ (links[at].state # "taken" /\ InProgress(links[at])))
    /\ links' = [links EXCEPT ![at].state = "taken"]
    /\ at' = at + 1
    /\ UNCHANGED <<setup, pc, conn, clustered, available, serverVars, detected, polls, unsure>>

PollDone ==
    /\ pc = "pollCluster" /\ at > Len(links)
    /\ at' = 1
    /\ pc' = IF ~busy THEN "prepared" ELSE IF TimedOut THEN "failed" ELSE pc
    /\ IF pc' = pc THEN PollAgain /\ busy' = FALSE ELSE UNCHANGED <<polls, busy>>
    /\ UNCHANGED <<setup, conn, clustered, available, serverVars, detected, links, unsure>>

(* A connection that was opened and not used yet may break. *)
BreakLinks(n) ==
    links' = [i \in DOMAIN links |->
                 IF links[i] = [node |-> n, state |-> "open"]
                 THEN [links[i] EXCEPT !.state = "broken"] ELSE links[i]]

IndexNext ==
    \/ CheckForDrop
    \/ CheckForCreate
    \/ DropFails
    \/ Drop
    \/ CreateFails
    \/ Create
    \/ StartWait
    \/ DetectEngine
    \/ PollServer
    \/ PollNode
    \/ PollDone

-----------------------------------------------------------------------------

IndexTypeOK ==
    /\ detected \in {"memorydb", "other"}
    /\ links \in Seq([node : Nodes, state : {"open", "broken", "taken"}])
    /\ polls \in 0..(MaxPolls - 1)
    /\ {busy, unsure} \subseteq BOOLEAN

=============================================================================
