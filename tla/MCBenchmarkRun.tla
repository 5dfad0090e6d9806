--------------------------- MODULE MCBenchmarkRun ---------------------------
(* Two threads on a cluster of a replica, n1, and its primary, n2: w1 has a  *)
(* client on each, w2 only one of the replica.                               *)
EXTENDS BenchmarkRun, TLC

CONSTANTS w1, w2, c1, c2, c3, n1, n2

MCWorkers == {w1, w2}
MCClientsOf == (w1 :> <<c1, c2>>) @@ (w2 :> <<c3>>)
MCNodeOf == (c1 :> n1) @@ (c2 :> n2) @@ (c3 :> n1)

=============================================================================
