--------------------------- MODULE MCRateLimiter ---------------------------
(* A bucket that holds two and a half pipelines. *)
EXTENDS RateLimiter

=============================================================================
