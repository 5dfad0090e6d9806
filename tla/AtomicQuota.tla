---------------------------- MODULE AtomicQuota ----------------------------
(***************************************************************************)
(* What the request quota promises to the workers: a counter that can be   *)
(* asked for a batch of requests and answers in one indivisible step.  In  *)
(* count mode exactly the batches that start below Total are granted, and  *)
(* a worker is turned away only when none is left.  In duration mode every *)
(* batch is granted until the clock closes the run.                        *)
(***************************************************************************)
EXTENDS Integers

CONSTANTS
    Workers,    \* the benchmark threads
    Batch,      \* requests per claim: the pipeline depth
    Total       \* requests of the run (count mode)

VARIABLES
    countMode,  \* TRUE: stop after Total requests; FALSE: stop on the clock
    sold,       \* number of batches granted so far
    answer,     \* what each worker's latest claim was told
    closed      \* the duration limit has passed

abstractVars == <<countMode, sold, answer, closed>>

Init ==
    /\ countMode \in BOOLEAN
    /\ sold = 0
    /\ answer = [w \in Workers |-> "none"]
    /\ closed = FALSE

(* A claim made after the clock has run out is refused at once. *)
Ask(w) ==
    /\ answer[w] # "asked"
    /\ answer' = [answer EXCEPT ![w] = IF closed THEN "refused" ELSE "asked"]
    /\ UNCHANGED <<countMode, sold, closed>>

Grant(w) ==
    /\ answer[w] = "asked"
    /\ countMode => sold * Batch < Total
    /\ sold' = sold + 1
    /\ answer' = [answer EXCEPT ![w] = "granted"]
    /\ UNCHANGED <<countMode, closed>>

Refuse(w) ==
    /\ answer[w] = "asked"
    /\ countMode
    /\ sold * Batch >= Total
    /\ answer' = [answer EXCEPT ![w] = "refused"]
    /\ UNCHANGED <<countMode, sold, closed>>

Close ==
    /\ ~countMode
    /\ closed' = TRUE
    /\ UNCHANGED <<countMode, sold, answer>>

Next == Close \/ \E w \in Workers : Ask(w) \/ Grant(w) \/ Refuse(w)

Spec == Init /\ [][Next]_abstractVars

=============================================================================
