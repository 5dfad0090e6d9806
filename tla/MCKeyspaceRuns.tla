-------------------------- MODULE MCKeyspaceRuns --------------------------
(* Two threads: c1 and c2 belong to the first, c3 to the second. *)
EXTENDS KeyspaceRuns, TLC

CONSTANTS c1, c2, c3, n1, n2, r1, tagA, tagB, tagC, s1, s2, s3

(* A small mixing function, different for every seed. *)
MCMix(seed, index, len) == (seed * seed + 2 * index * (seed + 1) + index \div 2) % len

Sequential == [kind |-> "sequential", seed |-> 0, within |-> <<>>]
Random(s) == [kind |-> "random", seed |-> s, within |-> <<>>]
Subset(range, inner) == [inner EXCEPT !.within = <<range>> \o @]
Span(a, b) == [start |-> a, end |-> b]

AllSequential == [c \in Clients |-> Sequential]
SubsetOfRandom == [c \in Clients |-> Subset(Span(1, 3), Random(1))]

OneNode == (c1 :> n1) @@ (c2 :> n1) @@ (c3 :> n1)
TwoNodes == (c1 :> n1) @@ (c2 :> n2) @@ (c3 :> n1)
WithReplica == (c1 :> n1) @@ (c2 :> r1) @@ (c3 :> n2)

(* {AAA}, tagA, falls in a slot of its own. *)
MCSlotOf == (tagA :> s3) @@ (tagB :> s1) @@ (tagC :> s2)
MCCandidate(key, i) == IF (key + i) % 2 = 1 THEN tagB ELSE tagC
AllOf(n) == [slot \in Slots |-> n]
Split == (s1 :> n1) @@ (s2 :> n2) @@ (s3 :> n2)

Setup(strategies, nodes, owners, batch, second, set, get, migrations) ==
    [strategyOf |-> strategies, nodeOf |-> nodes, ownerOf |-> owners, batch |-> batch,
     second |-> second, restarts |-> second = "mix",
     sequential |-> \A c \in Clients : strategies[c] = Sequential,
     seedOf |-> [c \in Clients |-> IF c = c3 THEN 2 ELSE 1],
     set |-> set, get |-> get, migrations |-> migrations]
Restarted(s) == [s EXCEPT !.restarts = TRUE]

(* One node, with sequential keys or a pipelined random subset; two nodes;   *)
(* a connection to a replica; slots that migrate away from all connections   *)
(* and back; a node that owns no candidate; a migration before or after the  *)
(* second process starts; mixes.                                             *)
MCSetups ==
    {Setup(AllSequential, OneNode, AllOf(n1), 1, "get", 4, 4, 0),
     Setup(SubsetOfRandom, OneNode, AllOf(n1), 2, "get", 7, 6, 0),
     Setup(AllSequential, TwoNodes, Split, 1, "get", 4, 3, 0),
     Setup(AllSequential, WithReplica, Split, 1, "get", 3, 3, 0),
     Setup(AllSequential, OneNode, AllOf(n1), 1, "get", 2, 2, 2),
     Setup(AllSequential, TwoNodes, AllOf(n2), 1, "get", 3, 3, 0),
     Restarted(Setup(AllSequential, TwoNodes, Split, 1, "get", 3, 3, 1)),
     Setup(AllSequential, OneNode, AllOf(n1), 1, "mix", 4, 4, 0),
     Setup(SubsetOfRandom, TwoNodes, Split, 2, "mix", 4, 6, 0)}

=============================================================================
