------------------------------ MODULE Session ------------------------------
(***************************************************************************)
(* One run of the program: run() and run_optimization() in src/main.rs.    *)
(* The main thread discovers the servers, applies and verifies settings,   *)
(* sets up the index, and runs the tests one after the other; around each  *)
(* it sums up INFO counters of the servers, whose difference is reported:  *)
(* capture_snapshot and run_test_event in src/benchmark/orchestrator.rs,   *)
(* SnapshotBuilder in src/metrics/snapshot.rs.                             *)
(*                                                                         *)
(* A test itself is in BenchmarkRun, what it does to vectors in VectorRuns *)
(* and to keys in KeyspaceRuns; here it only makes servers count hits.     *)
(***************************************************************************)
EXTENDS RuntimeSettings, IndexSetup

CONSTANT MaxHits        \* bound on the hits of a test

ASSUME HitsAssumption == MaxHits \in Nat

VARIABLES
    test,       \* tests done
    hits,       \* keyspace_hits of each node
    before,     \* the first snapshot: the sum, and whether a node was missing
    after,      \* the second snapshot
    served,     \* hits that the test has caused
    reported    \* the keyspace_stats of the last test

sessionVars == <<test, hits, before, after, served, reported>>
vars == <<deploymentVars, settingVars, indexVars, sessionVars>>

NoSnapshot == [hits |-> 0, missing |-> FALSE]

SessionInit ==
    /\ Init /\ InitSettings /\ InitIndex
    /\ test = 0 /\ served = 0 /\ reported = 0
    /\ hits = [n \in Nodes |-> setup.oldHits]
    /\ before = NoSnapshot /\ after = NoSnapshot

-----------------------------------------------------------------------------
(* What follows discovery: --optimize goes straight to the index. *)
AfterDiscovery == IF setup.optimize \/ Entries = <<>> THEN "configured" ELSE "apply"

BeginIndex ==
    /\ pc = "configured"
    /\ pc' = IF ~setup.vec THEN "prepared"
             ELSE IF setup.dropindex THEN "checkForDrop" ELSE "checkForCreate"
    /\ UNCHANGED <<setup, at, conn, clustered, available, serverVars>>

(* run_all, or an iteration of the optimization: a test needs an address. *)
BeginTest ==
    /\ pc = "prepared" /\ test < setup.tests
    /\ pc' = IF Addresses = <<>> THEN "failed" ELSE "before"
    /\ before' = NoSnapshot /\ after' = NoSnapshot /\ served' = 0
    /\ UNCHANGED <<setup, at, conn, clustered, available, serverVars, test, hits, reported>>

(* capture_snapshot: a node that cannot be reached is left out, silently. *)
LastNodeOnly(s) ==    \* mutant
    IF Addresses[at] \in up
    THEN [s EXCEPT !.hits = hits[Addresses[at]]]
    ELSE [s EXCEPT !.missing = TRUE]
Snapshot(s) ==
    IF Addresses[at] \in up
    THEN [s EXCEPT !.hits = @ + hits[Addresses[at]]]
    ELSE [s EXCEPT !.missing = TRUE]

CaptureBefore ==
    /\ pc = "before" /\ at <= Len(Addresses)
    /\ before' = Snapshot(before)
    /\ at' = at + 1
    /\ UNCHANGED <<setup, pc, conn, clustered, available, serverVars,
                   test, hits, after, served, reported>>

CaptureAfter ==
    /\ pc = "after" /\ at <= Len(Addresses)
    /\ after' = Snapshot(after)
    /\ at' = at + 1
    /\ UNCHANGED <<setup, pc, conn, clustered, available, serverVars,
                   test, hits, before, served, reported>>

(* The workers run, then are joined. *)
StartWorkers ==
    /\ pc = "before" /\ at > Len(Addresses)
    /\ pc' = "running" /\ at' = 1
    /\ UNCHANGED <<setup, conn, clustered, available, serverVars, sessionVars>>

Serve(n) ==
    /\ pc = "running" /\ n \in up /\ n \in ToSet(Addresses) /\ served < MaxHits
    /\ hits' = [hits EXCEPT ![n] = @ + 1]
    /\ served' = served + 1
    /\ UNCHANGED <<deploymentVars, test, before, after, reported>>

JoinWorkers ==
    /\ pc = "running"
    /\ pc' = "after"
    /\ UNCHANGED <<setup, at, conn, clustered, available, serverVars, sessionVars>>

(* saturating_sub. *)
Difference == IF after.hits >= before.hits THEN after.hits - before.hits ELSE 0

EndTest ==
    /\ pc = "after" /\ at > Len(Addresses)
    /\ reported' = Difference
    /\ test' = test + 1
    /\ pc' = IF test + 1 = setup.tests THEN "done" ELSE "prepared"
    /\ at' = 1
    /\ UNCHANGED <<setup, conn, clustered, available, serverVars, hits, before, after, served>>

-----------------------------------------------------------------------------

MainThread ==
    \/ (Connect \/ DiscoverCluster(AfterDiscovery) \/ DiscoverStandalone(AfterDiscovery))
       /\ UNCHANGED <<settingVars, indexVars, sessionVars>>
    \/ ConfigureNext("configured") /\ UNCHANGED <<indexVars, sessionVars>>
    \/ BeginIndex /\ UNCHANGED <<settingVars, indexVars, sessionVars>>
    \/ IndexNext /\ UNCHANGED <<settingVars, sessionVars>>
    \/ (BeginTest \/ CaptureBefore \/ StartWorkers \/ JoinWorkers \/ CaptureAfter \/ EndTest)
       /\ UNCHANGED <<settingVars, indexVars>>

Server(n) ==
    \/ Fail(n) /\ BreakLinks(n)
       /\ UNCHANGED <<settingVars, detected, busy, polls, unsure, sessionVars>>
    \/ (Recover(n) \/ Learn(n) \/ Build(n)) /\ UNCHANGED <<settingVars, indexVars, sessionVars>>
    \/ Serve(n) /\ UNCHANGED <<settingVars, indexVars>>

Next == MainThread \/ \E n \in Nodes : Server(n)

Spec == SessionInit /\ [][Next]_vars

(* The main thread keeps running: commands on a connection have a timeout, *)
(* and a test ends (RunTerminates of LoadRun).  Servers owe it nothing.    *)
FairSpec == Spec /\ WF_vars(MainThread)

-----------------------------------------------------------------------------

TypeOK ==
    /\ DeploymentTypeOK /\ SettingsTypeOK /\ IndexTypeOK
    /\ pc \in {"start", "discover", "apply", "verify", "configured", "checkForDrop", "drop",
              "checkForCreate", "create", "wait", "detect", "pollServer", "pollCluster",
              "prepared", "before", "running", "after", "done", "failed"}
    /\ test \in 0..setup.tests
    /\ hits \in [Nodes -> Nat] /\ served \in 0..MaxHits /\ reported \in Nat
    /\ {before, after} \subseteq [hits : Nat, missing : BOOLEAN]

InTest == pc \in {"before", "running", "after", "done"}

(* When a test runs, every entry of the settings file has been accepted by   *)
(* every node, replicas included, and the last value of each key is in force *)
(* there, whichever connections broke on the way.  --optimize is the         *)
(* exception: it ignores the file.                                           *)
TestsRunConfigured == InTest /\ ~setup.optimize => InForce

(* If the verification has not warned, each entry is in force on each node:  *)
(* also when the file gives a key two values, or a connection was lost in    *)
(* the middle of a node.                                                     *)
NoWarningMeansInForce == InTest /\ ~setup.optimize /\ verified => EachEntryInForce

(* With --dropindex the tests search an index that this process has created, *)
(* unless the check whether there is one to drop had no connection, which    *)
(* counts as "no".                                                           *)
DroppedIndexIsReplaced ==
    InTest /\ setup.vec /\ setup.dropindex /\ ~unsure => index[First].id = New

(* What the waits guarantee.  One server: the index is built.  A cluster:    *)
(* only if the first poll found everything done, all primaries were reached, *)
(* the engine says when an index is missing, and no old index was about.     *)
ReliableWait ==
    /\ polls = 0 /\ detected = "memorydb" /\ ~setup.dropindex
    /\ {links[i].node : i \in DOMAIN links} = setup.primaries
IndexBuiltForTests ==
    InTest /\ setup.vec =>
       /\ ~clustered => index[First].state = "ready"
       /\ clustered /\ ReliableWait => \A n \in setup.primaries : index[n].state = "ready"

(* The index that the tests search is the one asked for, and it is built.     *)
IndexIsRight == DroppedIndexIsReplaced /\ IndexBuiltForTests

(* The hits reported for a test are those it caused if both snapshots met    *)
(* all nodes, and not more if the first did.  A node missing in the first    *)
(* snapshot only adds all hits it ever counted.  A server that the command   *)
(* line names twice is counted twice.                                        *)
HitsAreOfThisTest ==
    pc \in {"prepared", "done"} /\ test > 0 /\ ~before.missing /\ IsInjective(Addresses) =>
       /\ reported <= served
       /\ ~after.missing => reported = served


=============================================================================
