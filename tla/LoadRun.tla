------------------------------- MODULE LoadRun -------------------------------
(***************************************************************************)
(* What a benchmark run does, seen from outside: batches of requests are   *)
(* sent, each is answered or fails once, and when all threads have gone    *)
(* the run reports how many requests succeeded and failed.  In count mode  *)
(* a run that had a working thread reports at least Total requests, and    *)
(* less than one batch more.                                               *)
(***************************************************************************)
EXTENDS Integers

CONSTANTS Batch, Total

VARIABLES
    countMode,  \* run by --requests; else by the clock
    inFlight,   \* batches sent and not answered
    succeeded,  \* requests answered
    failed,     \* requests in batches that failed
    report      \* "none", or the counts reported

loadVars == <<countMode, inFlight, succeeded, failed, report>>

Init == countMode \in BOOLEAN /\ inFlight = 0 /\ succeeded = 0 /\ failed = 0 /\ report = <<>>

Sent == succeeded + failed + inFlight * Batch

Send ==
    /\ report = <<>>
    /\ countMode => Sent < Total
    /\ inFlight' = inFlight + 1
    /\ UNCHANGED <<countMode, succeeded, failed, report>>

Succeed ==
    /\ inFlight > 0
    /\ inFlight' = inFlight - 1
    /\ succeeded' = succeeded + Batch
    /\ UNCHANGED <<countMode, failed, report>>

Fail ==
    /\ inFlight > 0
    /\ inFlight' = inFlight - 1
    /\ failed' = failed + Batch
    /\ UNCHANGED <<countMode, succeeded, report>>

(* In count mode everything sent has come back.  The run may have no working *)
(* thread at all; then nothing was sent.  In duration mode what is in flight *)
(* when the clock runs out is abandoned.                                     *)
Report ==
    /\ report = <<>>
    /\ countMode => inFlight = 0 /\ (Sent >= Total \/ Sent = 0)
    /\ report' = <<succeeded, failed>>
    /\ UNCHANGED <<countMode, inFlight, succeeded, failed>>

Next == Send \/ Succeed \/ Fail \/ Report

Spec == Init /\ [][Next]_loadVars

=============================================================================
