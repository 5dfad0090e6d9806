----------------------------- MODULE MCSession -----------------------------
(* A cluster of two primaries and a replica, and single servers. *)
EXTENDS Session

CONSTANTS n1, n2, n3

File == <<[key |-> "io-threads", value |-> "4"], [key |-> "maxmemory", value |-> "1gb"]>>
SameKeyTwice == <<[key |-> "save", value |-> "900 1"], [key |-> "save", value |-> "60 9"]>>

Cluster ==
    [nodes |-> <<n1, n2, n3>>, primaries |-> {n1, n2}, cluster |-> TRUE, seeds |-> <<n1>>,
     required |-> FALSE, engine |-> "other", existing |-> "absent", readFrom |-> "primary",
     vec |-> FALSE, dropindex |-> FALSE, optimize |-> FALSE,
     entries |-> <<>>, refused |-> {}, tests |-> 1, oldHits |-> 1]
Server1 == [Cluster EXCEPT !.nodes = <<n1, n2>>, !.primaries = {n1, n2}, !.cluster = FALSE]
Vectors(s, existing) == [s EXCEPT !.vec = TRUE, !.existing = existing]

SettingSetups ==
    {[Cluster EXCEPT !.entries = File],
     [Cluster EXCEPT !.entries = SameKeyTwice, !.required = TRUE],
     [Cluster EXCEPT !.entries = File, !.refused = {<<n3, "maxmemory">>}],
     [Server1 EXCEPT !.entries = SameKeyTwice, !.seeds = <<n1, n2>>],
     [Server1 EXCEPT !.required = TRUE]}

IndexSetups ==
    {[Vectors(Cluster, "absent") EXCEPT !.engine = "memorydb"],
     Vectors(Cluster, "building"),
     [Vectors(Cluster, "ready") EXCEPT !.dropindex = TRUE],
     [Vectors(Cluster, "absent") EXCEPT !.readFrom = "preferReplica"],
     [Vectors(Server1, "absent") EXCEPT !.engine = "memorydb"],
     [Vectors(Server1, "ready") EXCEPT !.dropindex = TRUE]}

TestSetups ==
    {[Cluster EXCEPT !.readFrom = "all", !.tests = 2],
     [Cluster EXCEPT !.readFrom = "preferReplica", !.optimize = TRUE, !.entries = File],
     [Server1 EXCEPT !.seeds = <<n1, n1>>]}

MCSetups == SettingSetups \cup IndexSetups \cup TestSetups

=============================================================================
