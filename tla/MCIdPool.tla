------------------------------ MODULE MCIdPool ------------------------------
(* Five vectors of which the first, a middle one and the last are skipped.   *)
EXTENDS IdPool

CONSTANTS w1, w2, w3

MCWorkers == {w1, w2, w3}
MCSkipped == {0, 2, 4}

=============================================================================
