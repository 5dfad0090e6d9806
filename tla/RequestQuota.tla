---------------------------- MODULE RequestQuota ----------------------------
(***************************************************************************)
(* GlobalCounters::claim_batch (src/benchmark/counters.rs): the only       *)
(* synchronisation between the benchmark threads.  A claim is not atomic:  *)
(* it reads the clock, adds Batch to requests_issued, and, when the value  *)
(* it got back is at or past the limit, subtracts Batch again in a second  *)
(* atomic operation.  Other claims and is_complete() run in between.       *)
(***************************************************************************)
EXTENDS Integers, Sequences, FiniteSets

CONSTANTS
    Workers,    \* the benchmark threads
    Batch,      \* requests per claim: the pipeline depth
    Total,      \* total_requests
    MaxClaims   \* bound: in duration mode the clock ends the run by then

ASSUME QuotaAssumption ==
    /\ IsFiniteSet(Workers)
    /\ Batch \in Nat \ {0}
    /\ Total \in Nat
    /\ MaxClaims \in Nat

VARIABLES
    countMode,  \* duration_limit is None
    issued,     \* requests_issued
    expired,    \* start_time.elapsed() >= duration_limit
    claim,      \* where each worker is in claim_batch, or what it returned
    tickets,    \* history: the starts returned by successful claims, in order
    onTime      \* history: how many of them were granted before the clock ran out

quotaVars == <<countMode, issued, expired, claim, tickets, onTime>>

Returned == {"none", "granted", "refused"}
ClaimStates == Returned \cup {"checked", "undo"}

(* Claims past the clock check that have not added their batch. *)
Checked == {w \in Workers : claim[w] = "checked"}

(* Claims that have added their batch and not yet taken it back. *)
Pending == {w \in Workers : claim[w] = "undo"}

IsComplete == countMode /\ issued >= Total

-----------------------------------------------------------------------------

Init ==
    /\ countMode \in BOOLEAN
    /\ issued = 0
    /\ expired = FALSE
    /\ claim = [w \in Workers |-> "none"]
    /\ tickets = <<>>
    /\ onTime = 0

(* Mutants: the clock is not read; the limit is compared with the end of the *)
(* batch; the undo runs again after the claim returned.                      *)
BeginClaimUntimed(w) ==
    /\ claim[w] \in Returned
    /\ countMode \/ expired \/ Len(tickets) < MaxClaims
    /\ claim' = [claim EXCEPT ![w] = "checked"]
    /\ UNCHANGED <<countMode, issued, expired, tickets, onTime>>

FetchAddStrict(w) ==
    /\ claim[w] = "checked"
    /\ issued' = issued + Batch
    /\ LET isLimited == countMode /\ issued + Batch > Total
       IN  /\ claim' = [claim EXCEPT ![w] = IF isLimited THEN "undo" ELSE "granted"]
           /\ tickets' = IF isLimited THEN tickets ELSE Append(tickets, issued)
    /\ UNCHANGED <<countMode, expired, onTime>>

FetchSubTwice(w) ==
    /\ claim[w] \in {"undo", "refused"}
    /\ issued' = issued - Batch
    /\ claim' = [claim EXCEPT ![w] = "refused"]
    /\ UNCHANGED <<countMode, expired, tickets, onTime>>

(* is_duration_exceeded(): the first thing a claim does. *)
BeginClaim(w) ==
    /\ claim[w] \in Returned
    /\ countMode \/ expired \/ Len(tickets) < MaxClaims
    /\ claim' = [claim EXCEPT ![w] = IF expired THEN "refused" ELSE "checked"]
    /\ UNCHANGED <<countMode, issued, expired, tickets, onTime>>

(* requests_issued.fetch_add(batch_size), with the comparison of its result. *)
FetchAdd(w) ==
    /\ claim[w] = "checked"
    /\ issued' = issued + Batch
    /\ IF countMode /\ issued >= Total
          THEN /\ claim' = [claim EXCEPT ![w] = "undo"]
               /\ UNCHANGED tickets
          ELSE /\ claim' = [claim EXCEPT ![w] = "granted"]
               /\ tickets' = Append(tickets, issued)
    /\ UNCHANGED <<countMode, expired, onTime>>

(* requests_issued.fetch_sub(batch_size): undo the claim and return None. *)
FetchSub(w) ==
    /\ claim[w] = "undo"
    /\ issued' = issued - Batch
    /\ claim' = [claim EXCEPT ![w] = "refused"]
    /\ UNCHANGED <<countMode, expired, tickets, onTime>>

(* The clock of duration mode; there is none in count mode. *)
Expire ==
    /\ ~countMode
    /\ ~expired
    /\ expired' = TRUE
    /\ onTime' = Len(tickets)
    /\ UNCHANGED <<countMode, issued, claim, tickets>>

Next == Expire \/ \E w \in Workers : BeginClaim(w) \/ FetchAdd(w) \/ FetchSub(w)

Spec == Init /\ [][Next]_quotaVars

-----------------------------------------------------------------------------

(* The counters keep their types: requests_issued never wraps below zero     *)
(* although it is decremented without a lock.                                *)
TypeOK ==
    /\ countMode \in BOOLEAN
    /\ issued \in Nat
    /\ expired \in BOOLEAN
    /\ claim \in [Workers -> ClaimStates]
    /\ tickets \in Seq(Nat)
    /\ onTime \in Nat

(* requests_issued counts the granted batches plus the claims that are about *)
(* to be undone, so progress() may over-report, never under-report.          *)
IssuedAccounting == issued = Batch * (Len(tickets) + Cardinality(Pending))

(* claim_batch returns None only when the granted batches cover the quota:   *)
(* an inflated requests_issued never turns away a worker while work is left. *)
RefusedMeansExhausted ==
    countMode => \A w \in Workers :
        claim[w] \in {"undo", "refused"} => Len(tickets) * Batch >= Total

(* The run overshoots --requests by less than one pipeline, whatever the     *)
(* number of threads (counters.rs's own test only asks for less than four).  *)
NoOverclaim ==
    countMode /\ tickets # <<>> => (Len(tickets) - 1) * Batch < Total

(* Successive grants are successive, non-overlapping ranges of requests: no  *)
(* undo ever lets two workers be handed the same start.                      *)
TicketsAreConsecutive ==
    \A i \in 1..Len(tickets) : tickets[i] = Batch * (i - 1)

(* A worker that leaves its event loop because is_complete() held left no    *)
(* batch behind, even if the counter was inflated when it looked.            *)
CompleteMeansAllGranted == IsComplete => Len(tickets) * Batch >= Total

(* is_complete() never goes back to false, although requests_issued is       *)
(* decremented: a worker that left on it was right to.                       *)
CompleteIsStable == [][IsComplete => IsComplete']_quotaVars

(* Once the clock has run out, each thread starts at most one more batch:    *)
(* the one whose claim had already passed the clock check.                   *)
FewLateGrants == expired => Len(tickets) - onTime <= Cardinality(Workers)

(* Every claim looks atomic to the workers.                                  *)
AbstractQuota == INSTANCE AtomicQuota WITH
    sold <- Len(tickets),
    answer <- [w \in Workers |->
                 IF claim[w] \in {"checked", "undo"} THEN "asked" ELSE claim[w]],
    closed <- expired

ImplementsAtomicQuota == AbstractQuota!Spec

=============================================================================
