---------------------------- MODULE IdDispenser ----------------------------
(***************************************************************************)
(* What an id pool promises to the workers: every eligible id is given to  *)
(* one of them, once, and a worker is told there is none only when all of  *)
(* them have been given.  Nothing is said of the order.                    *)
(***************************************************************************)
CONSTANTS
    Workers,    \* the benchmark threads
    Eligible    \* the ids a worker may be given

VARIABLES
    given,      \* ids given since the pool was last reset
    answer      \* what each worker's latest request was told

dispenserVars == <<given, answer>>

Init ==
    /\ given = {}
    /\ answer = [w \in Workers |-> "idle"]

Ask(w) ==
    /\ answer[w] # "asked"
    /\ answer' = [answer EXCEPT ![w] = "asked"]
    /\ UNCHANGED given

Give(w) ==
    /\ answer[w] = "asked"
    /\ \E id \in Eligible \ given : given' = given \cup {id}
    /\ answer' = [answer EXCEPT ![w] = "given"]

TurnAway(w) ==
    /\ answer[w] = "asked"
    /\ Eligible \subseteq given
    /\ answer' = [answer EXCEPT ![w] = "none"]
    /\ UNCHANGED given

(* A new run starts with a full pool and with new workers. *)
Refill ==
    /\ \A w \in Workers : answer[w] # "asked"
    /\ given' = {}
    /\ answer' = [w \in Workers |-> "idle"]

Next == Refill \/ \E w \in Workers : Ask(w) \/ Give(w) \/ TurnAway(w)

Spec == Init /\ [][Next]_dispenserVars

=============================================================================
