------------------------------- MODULE IdPool -------------------------------
(***************************************************************************)
(* The shared counter that hands vector ids to the benchmark threads:      *)
(* ClusterTagMap::claim_unmapped_id skips the vectors that already exist   *)
(* (vec-load) and ProtectedVectorIds::claim_deleteable_id the ground-truth *)
(* vectors (vec-delete).  A claim is a loop of fetch_adds, so that several *)
(* threads search at once and each sees only some of the candidates.  The  *)
(* skipped set does not change while workers run.                          *)
(***************************************************************************)
EXTENDS Integers, Sequences

CONSTANTS
    Workers,    \* the benchmark threads
    MaxId,      \* num_vectors of the dataset
    Skipped,    \* mapped ids (vec-load) or protected ids (vec-delete)
    MaxCounter  \* bound: claims stop once the counter has come this far

ASSUME PoolAssumption ==
    /\ MaxId \in Nat
    /\ Skipped \subseteq Nat
    /\ MaxCounter \in Nat

VARIABLES
    counter,    \* unmapped_counter, delete_counter
    search,     \* what each worker's claim is doing, or what it returned
    handed      \* history: ids returned since the counter was reset, in order

claimVars == <<counter, search, handed>>

Eligible == (0 .. MaxId - 1) \ Skipped
HandedIds == {handed[i] : i \in 1 .. Len(handed)}

-----------------------------------------------------------------------------

PoolInit ==
    /\ counter = 0
    /\ search = [w \in Workers |-> "idle"]
    /\ handed = <<>>

BeginSearch(w) ==
    /\ search[w] # "asked"
    /\ counter < MaxCounter
    /\ search' = [search EXCEPT ![w] = "asked"]
    /\ UNCHANGED <<counter, handed>>

(* Mutants of the loop's body: the search gives up at the first skipped id;  *)
(* a skipped id is read and not consumed.                                    *)
FetchAs(w, givesUp, step) ==
    /\ search[w] = "asked"
    /\ counter' = counter + step
    /\ LET given == counter < MaxId /\ counter \notin Skipped
           ended == counter >= MaxId \/ givesUp
       IN  /\ handed' = IF given THEN Append(handed, counter) ELSE handed
           /\ search' = [search EXCEPT ![w] =
                  IF given THEN "given" ELSE IF ended THEN "none" ELSE "asked"]
FetchGivesUp(w) == FetchAs(w, TRUE, 1)
FetchStuck(w) == FetchAs(w, FALSE, IF counter \in Skipped THEN 0 ELSE 1)

(* One turn of the loop: fetch_add, the limit, and the test of the candidate. *)
Fetch(w) ==
    /\ search[w] = "asked"
    /\ counter' = counter + 1
    /\ \/ /\ counter >= MaxId
          /\ search' = [search EXCEPT ![w] = "none"]
          /\ UNCHANGED handed
       \/ /\ counter < MaxId
          /\ counter \notin Skipped
          /\ search' = [search EXCEPT ![w] = "given"]
          /\ handed' = Append(handed, counter)
       \/ /\ counter < MaxId
          /\ counter \in Skipped
          /\ UNCHANGED <<search, handed>>

(* reset_unmapped_counter: the orchestrator resets the pool before it spawns *)
(* the workers of a vec-load, each with a new context.                       *)
Reset ==
    /\ \A w \in Workers : search[w] # "asked"
    /\ counter' = 0
    /\ search' = [w \in Workers |-> "idle"]
    /\ handed' = <<>>

PoolNext == Reset \/ \E w \in Workers : BeginSearch(w) \/ Fetch(w)

PoolSpec == PoolInit /\ [][PoolNext]_claimVars

(* A thread in the loop keeps running. *)
PoolFairSpec == PoolSpec /\ \A w \in Workers : WF_claimVars(Fetch(w))

-----------------------------------------------------------------------------

(* Ids handed out are vectors of the dataset: get_vector_bytes cannot be     *)
(* asked for one past the end.                                               *)
PoolTypeOK ==
    /\ counter \in Nat
    /\ search \in [Workers -> {"idle", "asked", "given", "none"}]
    /\ handed \in Seq(0 .. MaxId - 1)

(* No vector is loaded, or deleted, twice in a run, whichever threads search *)
(* at the same time.                                                         *)
HandedOutOnce == \A i, j \in 1 .. Len(handed) : i < j => handed[i] < handed[j]

(* A vector that exists is not loaded again; a ground-truth vector is not    *)
(* given to vec-delete.                                                      *)
NeverHandsSkipped == HandedIds \cap Skipped = {}

(* A worker is told "no more ids" only when every eligible vector has been   *)
(* handed out to some worker, even if it saw none of them itself.            *)
NoneMeansExhausted ==
    (\E w \in Workers : search[w] = "none") => Eligible \subseteq HandedIds

(* The search loop ends, although other workers advance the same counter.    *)
EverySearchEnds == \A w \in Workers : search[w] = "asked" ~> search[w] # "asked"

(* The loops of several workers look like one dispenser.                     *)
Dispenser == INSTANCE IdDispenser WITH given <- HandedIds, answer <- search

ImplementsDispenser == Dispenser!Spec

=============================================================================
