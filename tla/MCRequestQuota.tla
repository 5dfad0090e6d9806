--------------------------- MODULE MCRequestQuota ---------------------------
(* Three threads claiming from one quota. *)
EXTENDS RequestQuota

CONSTANTS w1, w2, w3

MCWorkers == {w1, w2, w3}

=============================================================================
