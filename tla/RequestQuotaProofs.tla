------------------------- MODULE RequestQuotaProofs -------------------------
(***************************************************************************)
(* Proofs about RequestQuota for every set of workers, batch size, limit   *)
(* and mode.  The inductive invariant is the accounting of requests_issued *)
(* together with what a pending undo implies: the worker saw the counter   *)
(* at or past the limit, and pending undos are not what put it there.      *)
(***************************************************************************)
EXTENDS RequestQuota, FiniteSetTheorems, TLAPS

(* Late grants plus the claims that may still become late grants.            *)
LateBudget ==
    /\ onTime <= Len(tickets)
    /\ expired => Len(tickets) - onTime + Cardinality(Checked) <= Cardinality(Workers)

IInv ==
    /\ TypeOK
    /\ IssuedAccounting
    /\ RefusedMeansExhausted
    /\ NoOverclaim
    /\ TicketsAreConsecutive
    /\ LateBudget
    /\ countMode => ~expired
    /\ ~countMode => Pending = {}

-----------------------------------------------------------------------------

(* The two sets of claims in progress are finite sets of workers.            *)
LEMMA ProgressSetsFinite ==
    /\ IsFiniteSet(Checked) /\ Cardinality(Checked) \in Nat
    /\ IsFiniteSet(Pending) /\ Cardinality(Pending) \in Nat
    /\ IsFiniteSet(Workers) /\ Cardinality(Workers) \in Nat
    /\ Cardinality(Checked) <= Cardinality(Workers)
<1>1. IsFiniteSet(Workers)
  BY QuotaAssumption
<1>2. Checked \subseteq Workers /\ Pending \subseteq Workers
  BY DEF Checked, Pending
<1>3. IsFiniteSet(Checked) /\ IsFiniteSet(Pending)
      /\ Cardinality(Checked) <= Cardinality(Workers)
  BY <1>1, <1>2, FS_Subset
<1>4. QED
  BY <1>1, <1>3, FS_CardinalityType

(* Products of the batch size, as the solvers need them.                     *)
LEMMA BatchProducts ==
    ASSUME NEW n \in Int
    PROVE  /\ Batch * n \in Int
           /\ n * Batch = Batch * n
           /\ Batch * (n + 1) = Batch * n + Batch
           /\ Batch * (n - 1) = Batch * n - Batch
           /\ n >= 0 => Batch * n >= 0
           /\ n >= 1 => Batch * n >= Batch
BY QuotaAssumption, Z3

(* The initial state satisfies the inductive invariant.                      *)
LEMMA InitIInv == Init => IInv
<1> SUFFICES ASSUME Init PROVE IInv
  OBVIOUS
<1> USE DEF Init
<1>0. <<>> \in Seq(Nat)
  OBVIOUS
<1>1. TypeOK
  BY <1>0, Zenon DEF TypeOK, ClaimStates, Returned
<1>2. Pending = {} /\ Checked = {}
  BY DEF Pending, Checked
<1>3. Cardinality(Pending) = 0 /\ Cardinality(Checked) = 0
  BY <1>2, FS_EmptySet
<1>4. Len(tickets) = 0
  OBVIOUS
<1>5. IssuedAccounting
  BY <1>3, <1>4, QuotaAssumption DEF IssuedAccounting
<1>6. RefusedMeansExhausted /\ NoOverclaim /\ TicketsAreConsecutive
  BY <1>4 DEF RefusedMeansExhausted, NoOverclaim, TicketsAreConsecutive
<1>7. LateBudget
  BY <1>4 DEF LateBudget
<1>8. QED
  BY <1>1, <1>2, <1>5, <1>6, <1>7 DEF IInv

-----------------------------------------------------------------------------

(* What each step does to the two sets of claims in progress.                *)
LEMMA BeginSets ==
    ASSUME TypeOK, NEW w \in Workers, BeginClaim(w)
    PROVE  /\ Pending' = Pending
           /\ expired => Checked' = Checked
<1> USE DEF TypeOK, BeginClaim, Returned, ClaimStates
<1>1. Pending' = Pending
  BY DEF Pending
<1>2. expired => Checked' = Checked
  BY DEF Checked
<1>3. QED
  BY <1>1, <1>2

LEMMA AddSets ==
    ASSUME TypeOK, NEW w \in Workers, FetchAdd(w)
    PROVE  /\ Cardinality(Checked') = Cardinality(Checked) - 1
           /\ claim'[w] = "undo" => Cardinality(Pending') = Cardinality(Pending) + 1
           /\ claim'[w] = "granted" => Pending' = Pending
<1> USE DEF TypeOK, FetchAdd, ClaimStates, Returned
<1>1. Checked' = Checked \ {w} /\ w \in Checked
  BY DEF Checked
<1>2. Cardinality(Checked') = Cardinality(Checked) - 1
  BY <1>1, ProgressSetsFinite, FS_RemoveElement
<1>3. ASSUME claim'[w] = "undo" PROVE Cardinality(Pending') = Cardinality(Pending) + 1
  <2>1. Pending' = Pending \cup {w} /\ w \notin Pending
    BY <1>3 DEF Pending
  <2>2. QED
    BY <2>1, ProgressSetsFinite, FS_AddElement
<1>4. ASSUME claim'[w] = "granted" PROVE Pending' = Pending
  BY <1>4 DEF Pending
<1>5. QED
  BY <1>2, <1>3, <1>4

LEMMA SubSets ==
    ASSUME TypeOK, NEW w \in Workers, FetchSub(w)
    PROVE  /\ Cardinality(Pending') = Cardinality(Pending) - 1
           /\ w \in Pending
           /\ Checked' = Checked
<1> USE DEF TypeOK, FetchSub, ClaimStates, Returned
<1>1. Pending' = Pending \ {w} /\ w \in Pending
  BY DEF Pending
<1>2. Cardinality(Pending') = Cardinality(Pending) - 1
  BY <1>1, ProgressSetsFinite, FS_RemoveElement
<1>3. Checked' = Checked
  BY DEF Checked
<1>4. QED
  BY <1>1, <1>2, <1>3

(* Each step of a claim keeps the inductive invariant.                       *)
LEMMA BeginIInv ==
    ASSUME IInv, NEW w \in Workers, BeginClaim(w)
    PROVE  IInv'
<1> USE DEF IInv
<1>1. TypeOK'
  BY DEF TypeOK, BeginClaim, ClaimStates, Returned
<1>2. Pending' = Pending /\ (expired => Checked' = Checked)
  BY BeginSets
<1>3. UNCHANGED <<countMode, issued, expired, tickets, onTime>>
  BY DEF BeginClaim
<1>4. IssuedAccounting'
  BY <1>2, <1>3 DEF IssuedAccounting
<1>5. RefusedMeansExhausted'
  <2>1. countMode => \A v \in Workers :
            claim'[v] \in {"undo", "refused"} => claim[v] \in {"undo", "refused"}
    BY DEF BeginClaim, TypeOK
  <2>2. QED
    BY <1>3, <2>1 DEF RefusedMeansExhausted
<1>6. NoOverclaim' /\ TicketsAreConsecutive'
  BY <1>3 DEF NoOverclaim, TicketsAreConsecutive
<1>7. LateBudget'
  BY <1>2, <1>3 DEF LateBudget
<1>8. QED
  BY <1>1, <1>2, <1>3, <1>4, <1>5, <1>6, <1>7

LEMMA AddIInv ==
    ASSUME IInv, NEW w \in Workers, FetchAdd(w)
    PROVE  IInv'
<1> USE DEF IInv
<1>0. TypeOK /\ Len(tickets) \in Nat /\ Cardinality(Pending) \in Nat /\ Cardinality(Checked) \in Nat
  BY ProgressSetsFinite DEF TypeOK
<1>1. issued' = issued + Batch /\ UNCHANGED <<countMode, expired, onTime>>
  BY DEF FetchAdd
<1>2. issued = Batch * (Len(tickets) + Cardinality(Pending))
  BY DEF IssuedAccounting
<1>3. Cardinality(Checked') = Cardinality(Checked) - 1
  BY AddSets
<1>4. CASE countMode /\ issued >= Total
  <2>1. claim' = [claim EXCEPT ![w] = "undo"] /\ tickets' = tickets
    BY <1>4 DEF FetchAdd
  <2>2. claim'[w] = "undo" /\ Cardinality(Pending') = Cardinality(Pending) + 1
    BY <2>1, AddSets DEF TypeOK
  <2>3. TypeOK'
    BY <1>1, <2>1, QuotaAssumption DEF TypeOK, ClaimStates
  <2>4. IssuedAccounting'
    BY <1>0, <1>1, <1>2, <2>1, <2>2, BatchProducts, QuotaAssumption DEF IssuedAccounting
  <2>5. Len(tickets) * Batch >= Total
    <3>1. CASE Cardinality(Pending) = 0
      BY <1>0, <1>2, <1>4, <3>1, BatchProducts
    <3>2. CASE Cardinality(Pending) # 0
      <4>1. PICK v \in Workers : claim[v] = "undo"
        BY <3>2, FS_EmptySet DEF Pending
      <4>2. QED
        BY <1>4, <4>1 DEF RefusedMeansExhausted
    <3>3. QED
      BY <3>1, <3>2
  <2>6. RefusedMeansExhausted'
    BY <1>1, <2>1, <2>5 DEF RefusedMeansExhausted
  <2>7. NoOverclaim' /\ TicketsAreConsecutive'
    BY <1>1, <2>1 DEF NoOverclaim, TicketsAreConsecutive
  <2>8. LateBudget'
    BY <1>0, <1>1, <1>3, <2>1, <1>4 DEF LateBudget
  <2>9. QED
    BY <1>1, <1>4, <2>3, <2>4, <2>6, <2>7, <2>8
<1>5. CASE ~(countMode /\ issued >= Total)
  <2>1. claim' = [claim EXCEPT ![w] = "granted"] /\ tickets' = Append(tickets, issued)
    BY <1>5 DEF FetchAdd
  <2>2. claim'[w] = "granted" /\ Pending' = Pending
    BY <2>1, AddSets DEF TypeOK
  <2>3. /\ Len(tickets') = Len(tickets) + 1
        /\ \A i \in 1..Len(tickets) : tickets'[i] = tickets[i]
        /\ tickets'[Len(tickets) + 1] = issued
        /\ tickets' \in Seq(Nat)
    BY <2>1 DEF TypeOK
  <2>4. TypeOK'
    BY <1>1, <2>1, <2>3, QuotaAssumption DEF TypeOK, ClaimStates, Returned
  <2>5. IssuedAccounting'
    BY <1>0, <1>1, <1>2, <2>2, <2>3, BatchProducts, QuotaAssumption DEF IssuedAccounting
  <2>6. Pending = {}
    <3>1. CASE ~countMode
      BY <3>1
    <3>2. CASE countMode
      <4>1. ASSUME NEW v \in Workers, claim[v] = "undo" PROVE FALSE
        <5>1. Len(tickets) * Batch >= Total
          BY <3>2, <4>1 DEF RefusedMeansExhausted
        <5>2. Batch * (Len(tickets) + Cardinality(Pending)) >= Batch * Len(tickets)
          BY <1>0, QuotaAssumption, Z3
        <5>3. issued >= Total
          BY <1>0, <1>2, <5>1, <5>2, BatchProducts, QuotaAssumption DEF TypeOK
        <5>4. QED
          BY <1>5, <3>2, <5>3
      <4>2. QED
        BY <4>1 DEF Pending
    <3>3. QED
      BY <3>1, <3>2
  <2>7. issued = Batch * Len(tickets)
    BY <1>0, <1>2, <2>6, FS_EmptySet
  <2>8. RefusedMeansExhausted'
    <3> SUFFICES ASSUME countMode, NEW v \in Workers, claim'[v] \in {"undo", "refused"}
                 PROVE  Len(tickets') * Batch >= Total
      BY <1>1 DEF RefusedMeansExhausted
    <3>1. Len(tickets) * Batch >= Total
      BY <2>1 DEF RefusedMeansExhausted, TypeOK
    <3>2. (Len(tickets) + 1) * Batch >= Len(tickets) * Batch
      BY <1>0, QuotaAssumption, Z3
    <3>3. Len(tickets) * Batch \in Int /\ (Len(tickets) + 1) * Batch \in Int
      BY <1>0, QuotaAssumption
    <3>4. QED
      BY <2>3, <3>1, <3>2, <3>3, QuotaAssumption
  <2>9. NoOverclaim'
    BY <1>0, <1>1, <1>5, <2>3, <2>7, BatchProducts, QuotaAssumption DEF NoOverclaim, TypeOK
  <2>10. TicketsAreConsecutive'
    <3> SUFFICES ASSUME NEW i \in 1..Len(tickets')
                 PROVE  tickets'[i] = Batch * (i - 1)
      BY DEF TicketsAreConsecutive
    <3>1. CASE i \in 1..Len(tickets)
      BY <2>3, <3>1 DEF TicketsAreConsecutive
    <3>2. CASE i = Len(tickets) + 1
      <4>1. i - 1 = Len(tickets)
        BY <1>0, <3>2
      <4>2. QED
        BY <2>3, <2>7, <3>2, <4>1
    <3>3. QED
      BY <1>0, <2>3, <3>1, <3>2
  <2>11. LateBudget'
    BY <1>0, <1>1, <1>3, <2>3, QuotaAssumption, ProgressSetsFinite DEF LateBudget, TypeOK
  <2>12. QED
    BY <1>1, <2>2, <2>4, <2>5, <2>8, <2>9, <2>10, <2>11
<1>6. QED
  BY <1>4, <1>5

LEMMA SubIInv ==
    ASSUME IInv, NEW w \in Workers, FetchSub(w)
    PROVE  IInv'
<1> USE DEF IInv
<1>0. TypeOK /\ Len(tickets) \in Nat /\ Cardinality(Pending) \in Nat
  BY ProgressSetsFinite DEF TypeOK
<1>1. /\ issued' = issued - Batch
      /\ claim' = [claim EXCEPT ![w] = "refused"]
      /\ UNCHANGED <<countMode, expired, tickets, onTime>>
  BY DEF FetchSub
<1>2. /\ Cardinality(Pending') = Cardinality(Pending) - 1
      /\ w \in Pending
      /\ Checked' = Checked
  BY SubSets
<1>3. Cardinality(Pending) >= 1
  <2>1. Cardinality(Pending) # 0
    BY <1>2, ProgressSetsFinite, FS_EmptySet
  <2>2. QED
    BY <1>0, <2>1
<1>4. IssuedAccounting'
  <2>1. ASSUME NEW n \in Int, n = Len(tickets) + Cardinality(Pending)
        PROVE  Batch * (n - 1) = issued - Batch
    BY <2>1, BatchProducts DEF IssuedAccounting
  <2>2. Batch * (Len(tickets) + Cardinality(Pending) - 1) = issued - Batch
    BY <1>0, <2>1
  <2>3. QED
    BY <1>0, <1>1, <1>2, <2>2 DEF IssuedAccounting
<1>5. issued' \in Nat
  <2>1. Len(tickets) + Cardinality(Pending) - 1 \in Nat
    BY <1>0, <1>3
  <2>2. Batch * (Len(tickets) + Cardinality(Pending) - 1) \in Nat
    BY <2>1, BatchProducts
  <2>3. Len(tickets') + Cardinality(Pending') = Len(tickets) + Cardinality(Pending) - 1
    BY <1>0, <1>1, <1>2
  <2>4. QED
    BY <1>4, <2>2, <2>3 DEF IssuedAccounting
<1>6. TypeOK'
  BY <1>0, <1>1, <1>5 DEF TypeOK, ClaimStates, Returned
<1>7. RefusedMeansExhausted'
  <2>1. countMode => Len(tickets) * Batch >= Total
    BY DEF FetchSub, RefusedMeansExhausted
  <2>2. QED
    BY <1>1, <2>1 DEF RefusedMeansExhausted
<1>8. NoOverclaim' /\ TicketsAreConsecutive'
  BY <1>1 DEF NoOverclaim, TicketsAreConsecutive
<1>9. LateBudget'
  BY <1>1, <1>2 DEF LateBudget
<1>10. ~countMode' => Pending' = {}
  BY <1>1, <1>2
<1>11. QED
  BY <1>1, <1>4, <1>6, <1>7, <1>8, <1>9, <1>10

LEMMA ExpireIInv ==
    ASSUME IInv, Expire
    PROVE  IInv'
<1> USE DEF IInv, Expire
<1>1. TypeOK' /\ Pending' = Pending /\ Checked' = Checked
  BY DEF TypeOK, Pending, Checked
<1>2. LateBudget'
  BY <1>1, ProgressSetsFinite DEF LateBudget, TypeOK
<1>3. QED
  BY <1>1, <1>2 DEF IssuedAccounting, RefusedMeansExhausted,
                    NoOverclaim, TicketsAreConsecutive

LEMMA StepIInv == IInv /\ [Next]_quotaVars => IInv'
<1> SUFFICES ASSUME IInv, [Next]_quotaVars PROVE IInv'
  OBVIOUS
<1>1. CASE Expire
  BY <1>1, ExpireIInv
<1>2. ASSUME NEW w \in Workers, BeginClaim(w) PROVE IInv'
  BY <1>2, BeginIInv
<1>3. ASSUME NEW w \in Workers, FetchAdd(w) PROVE IInv'
  BY <1>3, AddIInv
<1>4. ASSUME NEW w \in Workers, FetchSub(w) PROVE IInv'
  BY <1>4, SubIInv
<1>5. CASE UNCHANGED quotaVars
  BY <1>5 DEF IInv, quotaVars, TypeOK, IssuedAccounting, RefusedMeansExhausted,
              NoOverclaim, TicketsAreConsecutive,
              LateBudget, Pending, Checked
<1>6. QED
  BY <1>1, <1>2, <1>3, <1>4, <1>5 DEF Next

(* The inductive invariant is an invariant.                                  *)
THEOREM InductiveInvariant == Spec => []IInv
BY InitIInv, StepIInv, PTL DEF Spec

-----------------------------------------------------------------------------

(* requests_issued and the claims in progress keep their types: the counter  *)
(* never wraps below zero, although it is decremented without a lock.        *)
THEOREM TypeCorrect == Spec => []TypeOK
BY InductiveInvariant, PTL DEF IInv

(* requests_issued is the granted batches and the undos still to come.       *)
THEOREM IssuedIsAccountedFor == Spec => []IssuedAccounting
BY InductiveInvariant, PTL DEF IInv

(* claim_batch turns a worker away only when the quota has been handed out.  *)
THEOREM NoSpuriousRefusal == Spec => []RefusedMeansExhausted
BY InductiveInvariant, PTL DEF IInv

(* A run overshoots its request count by less than one batch.                *)
THEOREM OvershootBelowOneBatch == Spec => []NoOverclaim
BY InductiveInvariant, PTL DEF IInv

(* No two claims are granted overlapping ranges of requests.                 *)
THEOREM GrantsAreConsecutive == Spec => []TicketsAreConsecutive
BY InductiveInvariant, PTL DEF IInv

(* is_complete() holds only when every batch has been granted.               *)
LEMMA CompleteFromIInv == IInv => CompleteMeansAllGranted
<1> SUFFICES ASSUME IInv, countMode, issued >= Total
             PROVE  Len(tickets) * Batch >= Total
  BY DEF CompleteMeansAllGranted, IsComplete
<1> USE DEF IInv
<1>0. Len(tickets) \in Nat /\ Cardinality(Pending) \in Nat
  BY ProgressSetsFinite DEF TypeOK
<1>1. CASE Cardinality(Pending) = 0
  BY <1>0, <1>1, BatchProducts DEF IssuedAccounting
<1>2. CASE Cardinality(Pending) # 0
  BY <1>2, FS_EmptySet DEF Pending, RefusedMeansExhausted
<1>3. QED
  BY <1>1, <1>2

THEOREM CompletionIsReal == Spec => []CompleteMeansAllGranted
BY InductiveInvariant, CompleteFromIInv, PTL

(* While the counter is below the limit there is room for another batch.     *)
LEMMA RoomFromIInv == IInv /\ issued < Total => Len(tickets) * Batch < Total
<1> SUFFICES ASSUME IInv, issued < Total PROVE Len(tickets) * Batch < Total
  OBVIOUS
<1>1. Len(tickets) \in Nat /\ Cardinality(Pending) \in Nat
  BY ProgressSetsFinite DEF IInv, TypeOK
<1>2. Batch * (Len(tickets) + Cardinality(Pending)) >= Batch * Len(tickets)
  BY <1>1, QuotaAssumption, Z3
<1>3. QED
  BY <1>1, <1>2, BatchProducts, QuotaAssumption DEF IInv, IssuedAccounting, TypeOK

(* is_complete() is stable: the undo of a refused claim never reopens it.    *)
LEMMA CompleteStep == IInv /\ IInv' /\ [Next]_quotaVars => (IsComplete => IsComplete')
<1> SUFFICES ASSUME IInv, IInv', [Next]_quotaVars, IsComplete PROVE IsComplete'
  OBVIOUS
<1> USE DEF IInv
<1>1. countMode /\ Len(tickets) * Batch >= Total
  BY CompleteFromIInv DEF CompleteMeansAllGranted, IsComplete
<1>2. Len(tickets) \in Nat /\ Len(tickets') \in Nat /\ Len(tickets') >= Len(tickets)
  <2>1. ASSUME NEW w \in Workers, FetchAdd(w) PROVE Len(tickets') >= Len(tickets)
    BY <2>1 DEF FetchAdd, TypeOK
  <2>2. QED
    BY <2>1 DEF Next, quotaVars, Expire, BeginClaim, FetchSub, TypeOK
<1>3. Cardinality(Pending)' \in Nat
  <2>1. Pending' \subseteq Workers
    BY DEF Pending
  <2>2. QED
    BY <2>1, QuotaAssumption, FS_Subset, FS_CardinalityType
<1>4. Batch * (Len(tickets') + Cardinality(Pending)') >= Batch * Len(tickets)
  BY <1>2, <1>3, QuotaAssumption, Z3
<1>5. issued' >= Total
  BY <1>1, <1>2, <1>3, <1>4, BatchProducts, QuotaAssumption DEF IssuedAccounting, TypeOK
<1>6. countMode' = countMode
  BY DEF Next, quotaVars, Expire, BeginClaim, FetchAdd, FetchSub
<1>7. QED
  BY <1>1, <1>5, <1>6 DEF IsComplete

THEOREM CompletionIsFinal == Spec => CompleteIsStable
BY InductiveInvariant, CompleteStep, PTL DEF Spec, CompleteIsStable

(* In duration mode at most one batch per thread starts after the deadline.  *)
LEMMA LateFromIInv == IInv => FewLateGrants
BY ProgressSetsFinite DEF IInv, LateBudget, FewLateGrants, TypeOK

THEOREM FewGrantsAfterTheDeadline == Spec => []FewLateGrants
BY InductiveInvariant, LateFromIInv, PTL

-----------------------------------------------------------------------------

(* A claim maps to one step of the abstract quota, the other steps of its    *)
(* two atomic operations to none.                                            *)
Answer == [w \in Workers |->
             IF claim[w] \in {"checked", "undo"} THEN "asked" ELSE claim[w]]

LEMMA AbstractInit == Init => AbstractQuota!Init
BY DEF Init, AbstractQuota!Init

LEMMA AbstractStep ==
    IInv /\ [Next]_quotaVars => [AbstractQuota!Next]_AbstractQuota!abstractVars
<1> SUFFICES ASSUME IInv, [Next]_quotaVars
             PROVE  [AbstractQuota!Next]_AbstractQuota!abstractVars
  OBVIOUS
<1> USE DEF IInv
<1>0. TypeOK /\ Len(tickets) \in Nat
  BY DEF TypeOK
<1>1. CASE Expire
  BY <1>1 DEF Expire, AbstractQuota!Next, AbstractQuota!Close
<1>2. ASSUME NEW w \in Workers, BeginClaim(w)
      PROVE  AbstractQuota!Ask(w)
  <2>1. /\ claim[w] \in Returned
        /\ claim' = [claim EXCEPT ![w] = IF expired THEN "refused" ELSE "checked"]
        /\ UNCHANGED <<countMode, expired, tickets>>
    BY <1>2 DEF BeginClaim
  <2>2. Answer[w] # "asked"
    BY <2>1 DEF Answer, Returned
  <2>3. Answer' = [Answer EXCEPT ![w] = IF expired THEN "refused" ELSE "asked"]
    BY <2>1, <1>0 DEF Answer, TypeOK
  <2>4. QED
    BY <2>1, <2>2, <2>3 DEF AbstractQuota!Ask, Answer
<1>3. ASSUME NEW w \in Workers, FetchAdd(w)
      PROVE  AbstractQuota!Grant(w) \/ UNCHANGED AbstractQuota!abstractVars
  <2>1. claim[w] = "checked" /\ UNCHANGED <<countMode, expired>> /\ Answer[w] = "asked"
    BY <1>3 DEF FetchAdd, Answer
  <2>2. CASE countMode /\ issued >= Total
    <3>1. claim' = [claim EXCEPT ![w] = "undo"] /\ UNCHANGED tickets
      BY <1>3, <2>2 DEF FetchAdd
    <3>2. Answer' = Answer
      BY <2>1, <3>1, <1>0 DEF Answer, TypeOK
    <3>3. QED
      BY <2>1, <3>1, <3>2 DEF AbstractQuota!abstractVars, Answer
  <2>3. CASE ~(countMode /\ issued >= Total)
    <3>1. claim' = [claim EXCEPT ![w] = "granted"] /\ tickets' = Append(tickets, issued)
      BY <1>3, <2>3 DEF FetchAdd
    <3>2. Len(tickets') = Len(tickets) + 1
      BY <3>1, <1>0 DEF TypeOK
    <3>3. Answer' = [Answer EXCEPT ![w] = "granted"]
      BY <2>1, <3>1, <1>0 DEF Answer, TypeOK
    <3>4. countMode => Len(tickets) * Batch < Total
      BY <2>3, RoomFromIInv, QuotaAssumption DEF TypeOK
    <3>5. QED
      BY <2>1, <3>2, <3>3, <3>4 DEF AbstractQuota!Grant, Answer
  <2>4. QED
    BY <2>2, <2>3
<1>4. ASSUME NEW w \in Workers, FetchSub(w)
      PROVE  AbstractQuota!Refuse(w)
  <2>1. /\ claim[w] = "undo"
        /\ claim' = [claim EXCEPT ![w] = "refused"]
        /\ UNCHANGED <<countMode, expired, tickets>>
    BY <1>4 DEF FetchSub
  <2>2. countMode /\ Len(tickets) * Batch >= Total
    BY <2>1 DEF RefusedMeansExhausted, Pending
  <2>3. Answer[w] = "asked" /\ Answer' = [Answer EXCEPT ![w] = "refused"]
    BY <2>1, <1>0 DEF Answer, TypeOK
  <2>4. QED
    BY <2>1, <2>2, <2>3 DEF AbstractQuota!Refuse, Answer
<1>5. CASE UNCHANGED quotaVars
  BY <1>5 DEF quotaVars, AbstractQuota!abstractVars
<1>6. QED
  BY <1>1, <1>2, <1>3, <1>4, <1>5 DEF Next, AbstractQuota!Next

(* Every claim looks atomic: the two-step fetch_add and fetch_sub refine a   *)
(* quota that answers each worker in one step.                               *)
THEOREM ClaimsLookAtomic == Spec => ImplementsAtomicQuota
<1>1. Init => AbstractQuota!Init
  BY AbstractInit
<1>2. IInv /\ [Next]_quotaVars => [AbstractQuota!Next]_AbstractQuota!abstractVars
  BY AbstractStep
<1>3. QED
  BY <1>1, <1>2, InductiveInvariant, PTL DEF Spec, ImplementsAtomicQuota, AbstractQuota!Spec

=============================================================================
