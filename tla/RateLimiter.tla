----------------------------- MODULE RateLimiter -----------------------------
(***************************************************************************)
(* TokenBucket and apply_rate_limit (src/benchmark/event_worker.rs): the   *)
(* --rps limit of one thread.  Every thread has a bucket of its own, for   *)
(* requests_per_second / threads, so one is enough.  Time is counted in    *)
(* ticks so short that whatever happens happens on one, and tokens are     *)
(* counted in the ticks it takes to earn them.                             *)
(***************************************************************************)
EXTENDS Integers

CONSTANTS
    Need,       \* tokens of one pipeline
    Burst,      \* max_tokens: what one second earns
    MaxTime     \* bound on the clock

ASSUME LimiterAssumption ==
    /\ Need \in Nat \ {0}
    /\ Burst \in Nat \ {0}
    /\ MaxTime \in Nat

VARIABLES
    now,        \* Instant::now()
    tokens,     \* TokenBucket.tokens
    last,       \* TokenBucket.last_update
    thread,     \* "ready", or "sleeping" in apply_rate_limit
    wake,       \* when the sleep is over
    paid,       \* history: pipelines sent for tokens taken from the bucket
    unpaid,     \* history: pipelines sent after a sleep
    burst       \* history: pipelines sent since the clock last moved

limiterVars == <<now, tokens, last, thread, wake, paid, unpaid, burst>>

Least(a, b) == IF a <= b THEN a ELSE b

(* The refill at the start of acquire(). *)
Refilled == Least(tokens + (now - last), Burst)

-----------------------------------------------------------------------------

(* TokenBucket::new: the bucket starts empty. *)
LimiterInit ==
    /\ now = 0 /\ last = 0 /\ wake = 0
    /\ tokens = 0
    /\ thread = "ready"
    /\ paid = 0 /\ unpaid = 0 /\ burst = 0

(* Mutants of acquire: the bucket has no ceiling; the tokens are not taken.  *)
AcquireWith(refill, taken) ==
    /\ thread = "ready"
    /\ last' = now
    /\ IF refill >= Need
          THEN /\ tokens' = refill - taken
               /\ paid' = paid + 1
               /\ burst' = burst + 1
               /\ UNCHANGED <<thread, wake>>
          ELSE /\ tokens' = refill
               /\ thread' = "sleeping"
               /\ wake' = now + (Need - refill)
               /\ UNCHANGED <<paid, burst>>
    /\ UNCHANGED <<now, unpaid>>
AcquireUncapped == AcquireWith(tokens + (now - last), Need)
AcquireForFree == AcquireWith(Refilled, 0)

(* acquire() with enough tokens: they are taken and the pipeline is sent.    *)
AcquirePaid ==
    /\ thread = "ready"
    /\ Refilled >= Need
    /\ tokens' = Refilled - Need
    /\ last' = now
    /\ paid' = paid + 1
    /\ burst' = burst + 1
    /\ UNCHANGED <<now, thread, wake, unpaid>>

(* acquire() without: the thread sleeps for the rest; nothing is taken.      *)
AcquireWaits ==
    /\ thread = "ready"
    /\ Refilled < Need
    /\ tokens' = Refilled
    /\ last' = now
    /\ thread' = "sleeping"
    /\ wake' = now + (Need - Refilled)
    /\ UNCHANGED <<now, paid, unpaid, burst>>

Acquire == AcquirePaid \/ AcquireWaits

(* The sleep is over, perhaps late, and the pipeline is sent: acquire() is   *)
(* not called again and no token is taken for it.                            *)
Wake ==
    /\ thread = "sleeping"
    /\ now >= wake
    /\ thread' = "ready"
    /\ unpaid' = unpaid + 1
    /\ burst' = burst + 1
    /\ UNCHANGED <<now, tokens, last, wake, paid>>

Tick ==
    /\ now < MaxTime
    /\ now' = now + 1
    /\ burst' = 0
    /\ UNCHANGED <<tokens, last, thread, wake, paid, unpaid>>

LimiterNext == Acquire \/ Wake \/ Tick

LimiterSpec == LimiterInit /\ [][LimiterNext]_limiterVars

-----------------------------------------------------------------------------

(* The bucket never goes below zero or over its ceiling. *)
LimiterTypeOK ==
    /\ now \in Nat /\ last \in Nat /\ wake \in Nat
    /\ tokens \in 0 .. Burst
    /\ thread \in {"ready", "sleeping"}
    /\ paid \in Nat /\ unpaid \in Nat /\ burst \in Nat

(* What the code does guarantee, when a pipeline fits in the bucket: at most *)
(* twice the rate.  Every second pipeline of a throttled thread waits for    *)
(* its tokens without taking them, and leaves them to the next one.          *)
AtMostTwiceTheRate == Need <= Burst => (paid + unpaid) * Need <= 2 * now + Need

(* An idle thread cannot save up more than a second: what it sends at once   *)
(* is at most a full bucket and the pipeline it was waiting with.            *)
BurstIsBounded == burst * Need <= Burst + Need

=============================================================================
