------------------------- MODULE BenchmarkRunProofs -------------------------
(***************************************************************************)
(* Proofs about BenchmarkRun, and the EventWorker that it extends, for any *)
(* threads, clients, batch size and limit: where the clients are, and that *)
(* a run sends, answers and reports as LoadRun says.  What is needed of    *)
(* the quota is taken from RequestQuotaProofs: each step of a run is a     *)
(* step of the quota or leaves it alone.                                   *)
(***************************************************************************)
EXTENDS BenchmarkRun, FiniteSetTheorems, SequenceTheorems, WellFoundedInduction, TLAPS

QuotaFacts == INSTANCE RequestQuotaProofs

(* A client is held only while a request is about to be started on it, and a *)
(* worker that has no connections yet, or could not get them, has none busy. *)
InPlaceAt(w) ==
    /\ Running(w) => IdleAreReady(w)
    /\ cur[w] # NoClient =>
          /\ cur[w] \in ToSet(ClientsOf[w]) /\ ~Busy(cur[w])
          /\ pc[w] \in {"initial", "drain", "answered", "reuse"}
    /\ pc[w] \in {"answered", "reuse"} => cur[w] # NoClient
    /\ pc[w] \in {"create", "failed"} => AllIdle(w)
InPlace == \A w \in Workers : InPlaceAt(w)

BusyClients == {c \in Clients : Busy(c)}
Granted == {w \in Workers : cur[w] # NoClient /\ pc[w] # "answered" /\ claim[w] = "granted"}

(* Each batch that was granted is in one of three places, and each error of  *)
(* a worker is of a batch or of its creation.                                *)
Accounted ==
    /\ finished = SumOver(processed)
    /\ SumOver(errors) = BatchErrors + ConnectErrors
    /\ \A w \in Workers : pc[w] = "create" => errors[w] = 0
    /\ finished + BatchErrors + InFlight * Batch = Len(tickets) * Batch

(* What is known when workers have left and when the results are merged.     *)
Ended ==
    /\ main \in {"joining", "joined", "merged"}
    /\ main # "joining" => \A w \in Workers : pc[w] \in {"done", "failed"}
    /\ shutdown => main = "merged"
    /\ main = "merged" => merged = <<SumOver(processed), SumOver(errors)>>
    /\ countMode => \A w \in Workers :
          pc[w] = "done" => AllIdle(w) /\ Len(tickets) * Batch >= Total
    /\ tickets # <<>> => \E w \in Workers : pc[w] \notin {"create", "failed"}

RInv == TypeOK /\ InPlace /\ Accounted /\ Ended

-----------------------------------------------------------------------------
(* Induction up to a number, and the sums over the workers.                  *)

LEMMA Induction ==
    ASSUME NEW N \in Nat, NEW T, 0 \in T, \A n \in 0 .. N - 1 : n \in T => n + 1 \in T
    PROVE  0 .. N \subseteq T
<1> DEFINE S == (0 .. N) \ T
           Less == {p \in Nat \X Nat : p[1] < p[2]}
<1>1. SUFFICES ASSUME S # {} PROVE FALSE
  OBVIOUS
<1>2. IsWellFoundedOn({p \in Nat \X Nat : p[1] < p[2]}, Nat)
  BY NatLessThanWellFounded, Zenon DEF OpToRel
<1>3. S \in SUBSET Nat
  OBVIOUS
<1>4. PICK m \in S : \A n \in S : <<n, m>> \notin Less
  <2> HIDE DEF S
  <2>1. QED
    BY <1>1, <1>2, <1>3, WFMin
<1>5. m \in 1 .. N /\ m \notin T
  BY <1>4
<1>6. m - 1 \in 0 .. N - 1 /\ (m - 1) + 1 = m
  BY <1>5
<1>7. <<m - 1, m>> \in Less
  BY <1>5
<1>8. m - 1 \in T
  BY <1>4, <1>6, <1>7
<1>9. QED
  BY <1>5, <1>6, <1>8

Order == SetToSeq(Workers)

(* The workers in some order, each of them once.                             *)
LEMMA OrderOfWorkers ==
    /\ Order \in Seq(Workers) /\ Len(Order) \in Nat
    /\ \A i, j \in 1 .. Len(Order) : Order[i] = Order[j] => i = j
    /\ \A w \in Workers : \E i \in 1 .. Len(Order) : Order[i] = w
<1> DEFINE n == Cardinality(Workers)
           D == 1 .. n
           IsOrder(f) == f \in [D -> Workers] /\ IsInjective(f)
<1>1. IsFiniteSet(Workers) /\ n \in Nat /\ ExistsBijection(D, Workers)
  BY WorkerAssumption, FS_CardinalityType
<1>2. IsFiniteSet(D) /\ Cardinality(D) = n
  BY <1>1, FS_Interval
<1>3. PICK f : f \in Bijection(D, Workers)
  BY <1>1 DEF ExistsBijection
<1>4. IsOrder(f)
  BY <1>3 DEF Bijection, Injection, IsInjective
<1>5. IsOrder(Order)
  BY <1>4 DEF Order, SetToSeq
<1>6. Order \in Injection(D, Workers)
  BY <1>5 DEF Injection, IsInjective
<1>7. Order \in Surjection(D, Workers)
  BY <1>1, <1>2, <1>6, FS_Injection
<1>8. Order \in Seq(Workers) /\ Len(Order) = n
  BY <1>1, <1>5
<1>9. QED
  BY <1>1, <1>5, <1>7, <1>8 DEF IsInjective, Surjection

Adds(f, k, n) ==
    /\ k \in [0 .. n -> Int] /\ k[0] = 0
    /\ \A i \in 1 .. n : k[i] = k[i - 1] + f[Order[i]]
AddsAll(f, k) ==
    k = [i \in 0 .. Len(Order) |-> IF i = 0 THEN 0 ELSE k[i - 1] + f[Order[i]]]

(* The sum is computed step by step.                                         *)
LEMMA SumExists ==
    ASSUME NEW f \in [Workers -> Int]
    PROVE  \E k : AddsAll(f, k) /\ Adds(f, k, Len(Order)) /\ SumOver(f) = k[Len(Order)]
<1> DEFINE N == Len(Order)
           Done == {n \in 0 .. N : \E k : Adds(f, k, n)}
<1>1. N \in Nat /\ \A i \in 1 .. N : f[Order[i]] \in Int
  BY OrderOfWorkers, ElementOfSeq
<1>2. 0 \in Done
  <2>1. Adds(f, [i \in 0 .. 0 |-> 0], 0)
    BY DEF Adds
  <2>2. QED
    BY <1>1, <2>1
<1>3. ASSUME NEW n \in 0 .. N - 1, n \in Done PROVE n + 1 \in Done
  <2>1. PICK k : Adds(f, k, n)
    BY <1>3
  <2> DEFINE longer == [i \in 0 .. n + 1 |-> IF i <= n THEN k[i] ELSE k[n] + f[Order[n + 1]]]
  <2>2. n \in 0 .. n /\ n + 1 \in 1 .. N /\ k[n] + f[Order[n + 1]] \in Int
    BY <1>1, <2>1 DEF Adds
  <2>3. longer \in [0 .. n + 1 -> Int] /\ longer[0] = 0
    BY <2>1, <2>2 DEF Adds
  <2>4. ASSUME NEW i \in 1 .. n + 1 PROVE longer[i] = longer[i - 1] + f[Order[i]]
    <3>1. CASE i <= n
      BY <2>1, <3>1 DEF Adds
    <3>2. CASE i = n + 1
      BY <3>2
    <3>3. QED
      BY <3>1, <3>2
  <2>5. Adds(f, longer, n + 1)
    BY <2>3, <2>4 DEF Adds
  <2>6. QED
    BY <1>1, <2>2, <2>5
<1>4. N \in Done
  <2> HIDE DEF Done
  <2>1. \A n \in 0 .. N - 1 : n \in Done => n + 1 \in Done
    BY <1>3
  <2> HIDE DEF N
  <2>2. 0 .. N \subseteq Done
    BY <1>1, <1>2, <2>1, Induction
  <2>3. QED
    BY <1>1, <2>2
<1>5. PICK k : Adds(f, k, N)
  BY <1>4
<1>6. AddsAll(f, k)
  <2>1. k = [i \in 0 .. N |-> k[i]]
    BY <1>5 DEF Adds
  <2>2. \A i \in 0 .. N : k[i] = IF i = 0 THEN 0 ELSE k[i - 1] + f[Order[i]]
    BY <1>1, <1>5 DEF Adds
  <2>3. QED
    BY <2>1, <2>2 DEF AddsAll
<1> DEFINE sum == CHOOSE g : AddsAll(f, g)
<1>7. AddsAll(f, sum)
  BY <1>6
<1>8. SumOver(f) = sum[N]
  BY DEF SumOver, AddsAll, Order
<1> HIDE DEF sum
<1>9. sum[0] = 0 /\ \A i \in 1 .. N : sum[i] = sum[i - 1] + f[Order[i]]
  <2>1. \A i \in 0 .. N : sum[i] = IF i = 0 THEN 0 ELSE sum[i - 1] + f[Order[i]]
    BY <1>7 DEF AddsAll
  <2>2. QED
    BY <1>1, <2>1
<1>10. \A i \in 0 .. N : sum[i] \in Int
  <2> DEFINE Typed == {n \in 0 .. N : sum[n] \in Int}
  <2>1. 0 \in Typed
    BY <1>1, <1>9
  <2>2. \A n \in 0 .. N - 1 : n \in Typed => n + 1 \in Typed
    <3> SUFFICES ASSUME NEW n \in 0 .. N - 1, sum[n] \in Int PROVE sum[n + 1] \in Int
      BY <1>1
    <3>1. n + 1 \in 1 .. N /\ sum[n + 1] = sum[(n + 1) - 1] + f[Order[n + 1]] /\ (n + 1) - 1 = n
      BY <1>1, <1>9
    <3>2. QED
      BY <1>1, <3>1
  <2> HIDE DEF N, Typed
  <2>3. 0 .. N \subseteq Typed
    BY <1>1, <2>1, <2>2, Induction
  <2>4. QED
    BY <2>3 DEF Typed
<1>11. sum \in [0 .. N -> Int]
  <2>1. sum = [i \in 0 .. N |-> sum[i]]
    BY <1>7 DEF AddsAll
  <2>2. QED
    BY <1>10, <2>1
<1>12. Adds(f, sum, N)
  BY <1>9, <1>11 DEF Adds
<1>13. QED
  BY <1>7, <1>8, <1>12

LEMMA SumTyped ==
    ASSUME NEW f \in [Workers -> Int]
    PROVE  SumOver(f) \in Int
<1>1. PICK k : Adds(f, k, Len(Order)) /\ SumOver(f) = k[Len(Order)]
  BY SumExists
<1>2. Len(Order) \in 0 .. Len(Order)
  BY OrderOfWorkers
<1>3. QED
  BY <1>1, <1>2 DEF Adds

LEMMA SumOfZeros ==
    ASSUME NEW f \in [Workers -> Int], \A w \in Workers : f[w] = 0
    PROVE  SumOver(f) = 0
<1> DEFINE N == Len(Order)
<1>1. PICK k : Adds(f, k, N) /\ SumOver(f) = k[N]
  BY SumExists
<1> DEFINE Zero == {n \in 0 .. N : k[n] = 0}
<1>2. N \in Nat /\ \A i \in 1 .. N : f[Order[i]] = 0
  BY OrderOfWorkers, ElementOfSeq
<1>3. 0 \in Zero
  BY <1>1, <1>2 DEF Adds
<1>4. \A n \in 0 .. N - 1 : n \in Zero => n + 1 \in Zero
  <2> SUFFICES ASSUME NEW n \in 0 .. N - 1, k[n] = 0 PROVE k[n + 1] = 0
    BY <1>2
  <2>1. n + 1 \in 1 .. N /\ k[n + 1] = k[(n + 1) - 1] + f[Order[n + 1]] /\ (n + 1) - 1 = n
    BY <1>1, <1>2 DEF Adds
  <2>2. QED
    BY <1>2, <2>1
<1> HIDE DEF N, Zero
<1>5. 0 .. N \subseteq Zero
  BY <1>2, <1>3, <1>4, Induction
<1>6. QED
  BY <1>1, <1>2, <1>5 DEF Zero

(* A worker that adds d to its tally adds d to the sum.                      *)
LEMMA SumAdds ==
    ASSUME NEW f \in [Workers -> Int], NEW g \in [Workers -> Int], NEW w \in Workers, NEW d \in Int,
           g[w] = f[w] + d, \A v \in Workers \ {w} : g[v] = f[v]
    PROVE  SumOver(g) = SumOver(f) + d
<1> DEFINE N == Len(Order)
<1>2. PICK k : Adds(f, k, N) /\ SumOver(f) = k[N]
  BY SumExists
<1>3. PICK l : Adds(g, l, N) /\ SumOver(g) = l[N]
  BY SumExists
<1>4. N \in Nat /\ \A i \in 1 .. N : Order[i] \in Workers
  BY OrderOfWorkers, ElementOfSeq
<1>5. PICK p \in 1 .. N : Order[p] = w /\ \A i \in 1 .. N : Order[i] = w => i = p
  <2>1. PICK p \in 1 .. N : Order[p] = w
    BY OrderOfWorkers
  <2>2. \A i \in 1 .. N : Order[i] = w => i = p
    BY <2>1, OrderOfWorkers
  <2>3. QED
    BY <2>1, <2>2
<1> DEFINE Right == {n \in 0 .. N : l[n] = IF n >= p THEN k[n] + d ELSE k[n]}
<1>6. 0 \in Right
  BY <1>2, <1>3, <1>4, <1>5 DEF Adds
<1>7. \A n \in 0 .. N - 1 : n \in Right => n + 1 \in Right
  <2> SUFFICES ASSUME NEW n \in 0 .. N - 1, n \in Right PROVE n + 1 \in Right
    OBVIOUS
  <2>1. n + 1 \in 1 .. N /\ (n + 1) - 1 = n
    BY <1>4
  <2>2. k[n + 1] = k[n] + f[Order[n + 1]] /\ l[n + 1] = l[n] + g[Order[n + 1]]
    BY <1>2, <1>3, <2>1 DEF Adds
  <2>3. k[n] \in Int /\ f[Order[n + 1]] \in Int
    BY <1>2, <1>4, <2>1 DEF Adds
  <2>4. CASE n + 1 = p
    <3>1. g[Order[n + 1]] = f[Order[n + 1]] + d /\ l[n] = k[n]
      BY <1>4, <1>5, <2>1, <2>4
    <3>2. QED
      BY <2>1, <2>2, <2>3, <2>4, <3>1
  <2>5. CASE n + 1 # p
    <3>1. Order[n + 1] # w
      BY <1>5, <2>1, <2>5
    <3>2. g[Order[n + 1]] = f[Order[n + 1]]
      BY <1>4, <2>1, <3>1
    <3>3. QED
      BY <1>5, <2>1, <2>2, <2>3, <2>5, <3>2
  <2>6. QED
    BY <2>4, <2>5
<1>8. 0 .. N \subseteq Right
  <2> HIDE DEF N, Right
  <2>1. QED
    BY <1>4, <1>6, <1>7, Induction
<1>9. l[N] = k[N] + d
  BY <1>4, <1>5, <1>8
<1>10. QED
  BY <1>2, <1>3, <1>9

-----------------------------------------------------------------------------
(* Clients and queues.                                                       *)

(* A worker's clients are its own.                                           *)
LEMMA OwnClients ==
    ASSUME NEW w \in Workers
    PROVE  /\ ClientsOf[w] \in Seq(Clients) /\ IsInjective(ClientsOf[w])
           /\ ClientsOf[w] \in Seq(ToSet(ClientsOf[w]))
           /\ ToSet(ClientsOf[w]) \subseteq Clients
           /\ NoClient \notin ToSet(ClientsOf[w])
           /\ \A v \in Workers : v # w => ToSet(ClientsOf[v]) \cap ToSet(ClientsOf[w]) = {}
           /\ \A i \in 1 .. Len(ClientsOf[w]) : ClientsOf[w][i] \in ToSet(ClientsOf[w])
           /\ Len(ClientsOf[w]) \in Nat
<1>1. ClientsOf[w] \in Seq(Clients)
  BY WorkerAssumption
<1>2. Len(ClientsOf[w]) \in Nat /\ DOMAIN ClientsOf[w] = 1 .. Len(ClientsOf[w])
  BY <1>1, LenProperties
<1>3. \A i \in 1 .. Len(ClientsOf[w]) : ClientsOf[w][i] \in ToSet(ClientsOf[w])
  BY <1>2 DEF ToSet
<1>4. ToSet(ClientsOf[w]) \subseteq Clients
  BY DEF Clients
<1>5. ClientsOf[w] \in Seq(ToSet(ClientsOf[w]))
  <2>1. ClientsOf[w] \in [1 .. Len(ClientsOf[w]) -> ToSet(ClientsOf[w])]
    BY <1>1, <1>2, <1>3, LenProperties
  <2>2. QED
    BY <1>2, <2>1
<1>6. QED
  BY <1>1, <1>2, <1>3, <1>4, <1>5, WorkerAssumption

LEMMA NotOfOthers ==
    ASSUME NEW w \in Workers, NEW v \in Workers \ {w},
           NEW c \in ToSet(ClientsOf[w]), NEW d \in ToSet(ClientsOf[v])
    PROVE  d \in Clients \ {c}
<1>1. ToSet(ClientsOf[v]) \cap ToSet(ClientsOf[w]) = {} /\ ToSet(ClientsOf[v]) \subseteq Clients
  BY OwnClients
<1>2. QED
  BY <1>1

LEMMA FiniteClients == IsFiniteSet(Clients)
<1>1. ASSUME NEW w \in Workers PROVE IsFiniteSet(ToSet(ClientsOf[w]))
  <2>1. Len(ClientsOf[w]) \in Nat /\ DOMAIN ClientsOf[w] = 1 .. Len(ClientsOf[w])
    BY OwnClients, LenProperties
  <2>2. ClientsOf[w] \in Surjection(DOMAIN ClientsOf[w], ToSet(ClientsOf[w]))
    <3>1. ClientsOf[w] \in [DOMAIN ClientsOf[w] -> ToSet(ClientsOf[w])]
      BY OwnClients, <2>1, LenProperties
    <3>2. QED
      BY <3>1 DEF Surjection, ToSet
  <2>3. IsFiniteSet(DOMAIN ClientsOf[w])
    <3>1. IsFiniteSet(1 .. Len(ClientsOf[w]))
      BY <2>1, FS_Interval
    <3>2. QED
      BY <2>1, <3>1
  <2>4. QED
    BY <2>2, <2>3, FS_Surjection
<1> DEFINE sets == {ToSet(ClientsOf[w]) : w \in Workers}
           image == [w \in Workers |-> ToSet(ClientsOf[w])]
<1>2. IsFiniteSet(sets)
  <2>1. image \in Surjection(Workers, sets)
    BY DEF Surjection
  <2> HIDE DEF image, sets
  <2>2. QED
    BY <2>1, WorkerAssumption, FS_Surjection
<1>3. \A S \in sets : IsFiniteSet(S)
  BY <1>1
<1> HIDE DEF sets
<1>4. IsFiniteSet(UNION sets)
  BY <1>2, <1>3, FS_UNION
<1>5. QED
  BY <1>4 DEF sets, Clients

LEMMA SetsFinite ==
    /\ IsFiniteSet(BusyClients) /\ Cardinality(BusyClients) \in Nat
    /\ IsFiniteSet(Granted) /\ Cardinality(Granted) \in Nat
<1>1. BusyClients \subseteq Clients /\ Granted \subseteq Workers
  BY DEF BusyClients, Granted
<1>2. IsFiniteSet(BusyClients) /\ IsFiniteSet(Granted)
  BY <1>1, FiniteClients, WorkerAssumption, FS_Subset
<1>3. QED
  BY <1>2, FS_CardinalityType

(* Taking a client out of a queue, wherever it is.                           *)
LEMMA TakenFromQueue ==
    ASSUME NEW S, NEW q \in Seq(S), IsInjective(q), NEW i \in 1 .. Len(q)
    PROVE  /\ RemoveAt(q, i) \in Seq(S) /\ IsInjective(RemoveAt(q, i))
           /\ ToSet(RemoveAt(q, i)) = ToSet(q) \ {q[i]}
           /\ q[i] \in S /\ q[i] \in ToSet(q)
<1> DEFINE n == Len(q)
           front == SubSeq(q, 1, i - 1)
           back == SubSeq(q, i + 1, n)
           r == front \o back
<1>1. n \in Nat /\ DOMAIN q = 1 .. n /\ \A j \in 1 .. n : q[j] \in S
  BY LenProperties, ElementOfSeq
<1>2. front \in Seq(S) /\ Len(front) = i - 1 /\ \A j \in 1 .. i - 1 : front[j] = q[j]
  <2>1. \A j \in 1 .. i - 1 : q[j] \in S
    BY <1>1
  <2>2. i - 1 \in Int /\ 1 \in Int
    BY <1>1
  <2>3. /\ front \in Seq(S)
        /\ Len(front) = IF 1 <= i - 1 THEN i - 1 - 1 + 1 ELSE 0
        /\ \A j \in 1 .. i - 1 - 1 + 1 : front[j] = q[1 + j - 1]
    BY <2>1, <2>2, SubSeqProperties
  <2>4. QED
    BY <1>1, <2>3
<1>3. back \in Seq(S) /\ Len(back) = n - i /\ \A j \in 1 .. n - i : back[j] = q[i + j]
  <2>1. \A j \in i + 1 .. n : q[j] \in S
    BY <1>1
  <2>2. i + 1 \in Int /\ n \in Int
    BY <1>1
  <2>3. /\ back \in Seq(S)
        /\ Len(back) = IF i + 1 <= n THEN n - (i + 1) + 1 ELSE 0
        /\ \A j \in 1 .. n - (i + 1) + 1 : back[j] = q[i + 1 + j - 1]
    BY <2>1, <2>2, SubSeqProperties
  <2>0. n \in Nat /\ i \in 1 .. n
    BY <1>1
  <2> HIDE DEF back, n
  <2>4. n - (i + 1) + 1 = n - i /\ (~(i + 1 <= n) => n - i = 0)
    BY <2>0
  <2>5. \A j \in 1 .. n - i : i + 1 + j - 1 = i + j
    BY <2>0
  <2>6. QED
    BY <2>3, <2>4, <2>5
<1> HIDE DEF front, back
<1>4. /\ r \in Seq(S) /\ Len(r) = n - 1
      /\ \A j \in 1 .. n - 1 : r[j] = IF j <= i - 1 THEN q[j] ELSE q[j + 1]
  <2>1. /\ r \in Seq(S)
        /\ Len(r) = Len(front) + Len(back)
        /\ \A j \in 1 .. Len(front) + Len(back) :
              r[j] = IF j <= Len(front) THEN front[j] ELSE back[j - Len(front)]
    BY <1>2, <1>3, ConcatProperties
  <2>2. QED
    BY <1>1, <1>2, <1>3, <2>1
<1>5. RemoveAt(q, i) = r
  BY DEF RemoveAt, front, back
<1> HIDE DEF r
<1>6. DOMAIN r = 1 .. n - 1
  BY <1>4, LenProperties
<1>7. IsInjective(r)
  <2> SUFFICES ASSUME NEW a \in 1 .. n - 1, NEW b \in 1 .. n - 1, r[a] = r[b] PROVE a = b
    BY <1>6 DEF IsInjective
  <2> DEFINE place(j) == IF j <= i - 1 THEN j ELSE j + 1
  <2>1. place(a) \in 1 .. n /\ place(b) \in 1 .. n /\ q[place(a)] = q[place(b)]
    BY <1>1, <1>4
  <2>2. place(a) = place(b)
    BY <1>1, <2>1 DEF IsInjective
  <2>3. QED
    BY <1>1, <2>2
<1>8. ToSet(r) = ToSet(q) \ {q[i]}
  <2>1. ASSUME NEW j \in 1 .. n - 1 PROVE r[j] \in ToSet(q) \ {q[i]}
    <3> DEFINE k == IF j <= i - 1 THEN j ELSE j + 1
    <3>1. k \in 1 .. n /\ k # i /\ r[j] = q[k]
      BY <1>1, <1>4
    <3>2. q[k] # q[i]
      BY <1>1, <3>1 DEF IsInjective
    <3>3. QED
      BY <1>1, <3>1, <3>2 DEF ToSet
  <2>2. ASSUME NEW j \in 1 .. n, q[j] # q[i] PROVE q[j] \in ToSet(r)
    <3> DEFINE k == IF j < i THEN j ELSE j - 1
    <3>1. j # i
      BY <2>2
    <3>2. k \in 1 .. n - 1 /\ r[k] = q[j]
      BY <1>1, <1>4, <3>1
    <3>3. QED
      BY <1>6, <3>2 DEF ToSet
  <2>3. QED
    BY <1>1, <1>6, <2>1, <2>2 DEF ToSet
<1>9. QED
  BY ZenonT(40), <1>1, <1>4, <1>5, <1>7, <1>8 DEF ToSet

(* Putting a client that is not in the queue back.                           *)
LEMMA PutBack ==
    ASSUME NEW S, NEW q \in Seq(S), IsInjective(q), NEW c \in S, c \notin ToSet(q)
    PROVE  /\ Requeued(q, c) \in Seq(S) /\ IsInjective(Requeued(q, c))
           /\ ToSet(Requeued(q, c)) = ToSet(q) \cup (IF Cluster => c \in SlotOwners THEN {c} ELSE {})
<1>1. CASE Cluster /\ c \notin SlotOwners
  BY <1>1 DEF Requeued
<1>2. CASE ~(Cluster /\ c \notin SlotOwners)
  <2> DEFINE n == Len(q)
             r == Append(q, c)
  <2>1. n \in Nat /\ DOMAIN q = 1 .. n
    BY LenProperties
  <2>2. /\ r \in Seq(S) /\ Len(r) = n + 1
        /\ \A i \in 1 .. n : r[i] = q[i]
        /\ r[n + 1] = c
    BY AppendProperties
  <2>3. Requeued(q, c) = r
    BY <1>2 DEF Requeued
  <2> HIDE DEF r
  <2>4. DOMAIN r = 1 .. n + 1
    BY <2>2, LenProperties
  <2>5. \A i \in 1 .. n : q[i] # c
    BY <2>1 DEF ToSet
  <2>6. IsInjective(r)
    BY <2>1, <2>2, <2>4, <2>5 DEF IsInjective
  <2>7. ToSet(r) = ToSet(q) \cup {c}
    <3>1. \A x : x \in ToSet(r) <=> \E i \in 1 .. n + 1 : r[i] = x
      BY <2>4 DEF ToSet
    <3>2. \A x : x \in ToSet(q) <=> \E i \in 1 .. n : q[i] = x
      BY <2>1 DEF ToSet
    <3>3. QED
      BY <2>1, <2>2, <3>1, <3>2
  <2>8. QED
    BY <1>2, <2>2, <2>3, <2>6, <2>7
<1>3. QED
  BY <1>1, <1>2

-----------------------------------------------------------------------------
(* The quota.                                                                *)

LEMMA QuotaReady == QuotaFacts!QuotaAssumption
BY WorkerAssumption DEF QuotaFacts!QuotaAssumption, IsFiniteSet, QuotaFacts!IsFiniteSet

(* Each step of the run is a step of the quota or leaves it alone.           *)
LEMMA ClaimingIsQuotaStep ==
    ASSUME NEW w \in Workers, Quota!BeginClaim(w) \/ Quota!FetchAdd(w) \/ Quota!FetchSub(w)
    PROVE  QuotaFacts!Next
<1>1. QuotaFacts!BeginClaim(w) \/ QuotaFacts!FetchAdd(w) \/ QuotaFacts!FetchSub(w)
  BY DEF Quota!BeginClaim, Quota!FetchAdd, Quota!FetchSub, QuotaFacts!BeginClaim,
         QuotaFacts!FetchAdd, QuotaFacts!FetchSub, Quota!Returned, QuotaFacts!Returned
<1>2. QED
  BY <1>1 DEF QuotaFacts!Next

LEMMA WorkerIsQuotaStep ==
    ASSUME NEW w \in Workers, WorkerStep(w)
    PROVE  [QuotaFacts!Next]_QuotaFacts!quotaVars
<1>1. CASE TakeReady(w) \/ ClaimForReuse(w) \/ Claiming(w)
  BY <1>1, ClaimingIsQuotaStep DEF TakeReady, ClaimForReuse, Claiming
<1>2. CASE Create(w) \/ CreateFails(w) \/ QueueEmpty(w) \/ StartRequest(w) \/ NoMoreWork(w)
  BY <1>2 DEF Create, CreateFails, QueueEmpty, StartRequest, NoMoreWork,
              counterVars, QuotaFacts!quotaVars
<1>3. CASE LoopTop(w) \/ ScanEnds(w) \/ VisitNothing(w) \/ VisitWriting(w)
           \/ VisitAnswered(w) \/ VisitFailed(w)
  BY <1>3 DEF LoopTop, ScanEnds, VisitNothing, VisitWriting, VisitAnswered, VisitFailed,
              counterVars, QuotaFacts!quotaVars
<1>4. QED
  BY <1>1, <1>2, <1>3 DEF WorkerStep

LEMMA RunIsQuotaStep == [Next]_runVars => [QuotaFacts!Next]_QuotaFacts!quotaVars
<1> SUFFICES ASSUME [Next]_runVars PROVE [QuotaFacts!Next]_QuotaFacts!quotaVars
  OBVIOUS
<1>1. CASE UNCHANGED counterVars
  BY <1>1 DEF counterVars, QuotaFacts!quotaVars
<1>2. CASE UNCHANGED runVars
  BY <1>1, <1>2 DEF runVars, workerVars
<1>3. CASE Join \/ Merge \/ MergeParallel \/ ReporterEnds
  BY <1>1, <1>3 DEF Join, Merge, MergeParallel, ReporterEnds, workerVars
<1>4. CASE Tick
  BY <1>4 DEF Tick, Quota!Expire, QuotaFacts!Expire, QuotaFacts!Next
<1>5. ASSUME NEW c \in Clients, Unblock(c) \/ Answer(c) \/ Garble(c) \/ Close(c)
      PROVE  UNCHANGED counterVars
  BY <1>5 DEF Unblock, Answer, Garble, Close, Wire
<1>6. ASSUME NEW w \in Workers, WorkerStep(w) PROVE [QuotaFacts!Next]_QuotaFacts!quotaVars
  BY <1>6, WorkerIsQuotaStep
<1>7. QED
  BY <1>1, <1>2, <1>3, <1>4, <1>5, <1>6 DEF Next, Environment

LEMMA InitIsQuotaInit == Init => QuotaFacts!Init
BY DEF Init, WorkerInit, Quota!Init, QuotaFacts!Init

(* A run uses its quota as RequestQuota describes it, so that what is proved *)
(* there holds here.                                                         *)
THEOREM QuotaIsUsed == Spec => QuotaFacts!Spec
BY InitIsQuotaInit, RunIsQuotaStep, PTL DEF Spec, QuotaFacts!Spec

LEMMA QuotaInvariant == Spec => []QuotaFacts!IInv
BY QuotaIsUsed, QuotaReady, QuotaFacts!InductiveInvariant, PTL

QInv == QuotaFacts!IInv

LEMMA QuotaTyped == QInv => Quota!TypeOK
BY DEF QInv, QuotaFacts!IInv, QuotaFacts!TypeOK, QuotaFacts!ClaimStates, QuotaFacts!Returned,
       Quota!TypeOK, Quota!ClaimStates, Quota!Returned

LEMMA QuotaTypedNext == QInv' => Quota!TypeOK'
BY DEF QInv, QuotaFacts!IInv, QuotaFacts!TypeOK, QuotaFacts!ClaimStates, QuotaFacts!Returned,
       Quota!TypeOK, Quota!ClaimStates, Quota!Returned

(* is_complete(), and a claim that is granted, mean what they say.           *)
LEMMA QuotaMeans ==
    ASSUME QInv
    PROVE  /\ Quota!IsComplete => countMode /\ Len(tickets) * Batch >= Total
           /\ issued < Total => Len(tickets) * Batch < Total
           /\ countMode => ~expired
<1>1. QuotaFacts!CompleteMeansAllGranted
  BY QuotaReady, QuotaFacts!CompleteFromIInv DEF QInv
<1>2. issued < Total => Len(tickets) * Batch < Total
  BY QuotaReady, QuotaFacts!RoomFromIInv DEF QInv
<1>3. QED
  BY <1>1, <1>2 DEF QInv, QuotaFacts!IInv, QuotaFacts!CompleteMeansAllGranted,
                    QuotaFacts!IsComplete, Quota!IsComplete

-----------------------------------------------------------------------------
(* What all steps of a worker have in common.                                *)

WorkerOnly(w) ==
    /\ UNCHANGED <<main, merged, shutdown, countMode>>
    /\ pc[w] \notin {"done", "failed"}
    /\ \A v \in Workers \ {w} :
          /\ pc'[v] = pc[v] /\ cur'[v] = cur[v] /\ ready'[v] = ready[v]
          /\ \A c \in ToSet(ClientsOf[v]) : state'[c] = state[c]

(* A step in which no batch is granted, answered or failed.                  *)
Quiet ==
    /\ UNCHANGED <<countMode, tickets, finished, processed, errors, main, merged>>
    /\ InFlight' = InFlight
    /\ \A w \in Workers : /\ pc'[w] = "failed" <=> pc[w] = "failed"
                          /\ pc'[w] = "create" => pc[w] = "create"

LEMMA OthersStayInPlace ==
    ASSUME NEW v \in Workers, InPlaceAt(v),
           pc'[v] = pc[v], cur'[v] = cur[v], ready'[v] = ready[v],
           \A c \in ToSet(ClientsOf[v]) : state'[c] = state[c]
    PROVE  InPlaceAt(v)'
<1>1. \A c \in ToSet(ClientsOf[v]) : Busy(c)' = Busy(c)
  BY DEF Busy
<1>2. AllIdle(v)' = AllIdle(v)
  BY <1>1 DEF AllIdle
<1>3. Running(v)' = Running(v)
  BY DEF Running
<1>4. IdleAreReady(v) => IdleAreReady(v)'
  BY <1>1 DEF IdleAreReady
<1>5. cur[v] # NoClient => ~Busy(cur[v])'
  BY <1>1 DEF InPlaceAt
<1>6. QED
  BY <1>2, <1>3, <1>4, <1>5 DEF InPlaceAt

LEMMA AllInPlace ==
    ASSUME InPlace, NEW w \in Workers, WorkerOnly(w), InPlaceAt(w)'
    PROVE  InPlace'
BY OthersStayInPlace DEF InPlace, WorkerOnly

LEMMA QuietIf ==
    ASSUME NEW w \in Workers, WorkerOnly(w), UNCHANGED <<tickets, finished, processed, errors>>,
           BusyClients' = BusyClients, pc'[w] \notin {"create", "failed"},
           w \notin Granted, w \notin Granted', \A v \in Workers \ {w} : claim'[v] = claim[v]
    PROVE  Quiet
<1>1. Granted' = Granted
  BY DEF Granted, WorkerOnly
<1>2. InFlight' = InFlight
  BY <1>1 DEF InFlight, BusyClients, Granted
<1>3. QED
  BY <1>2 DEF Quiet, WorkerOnly

LEMMA QuietKeepsAccounts ==
    ASSUME Accounted, Quiet
    PROVE  Accounted' /\ UNCHANGED <<InFlight, BatchErrors, ConnectErrors>>
<1>1. InFlight' = InFlight
  BY DEF Quiet
<1>2. BatchErrors' = BatchErrors
  <2>1. [w \in Workers |-> IF pc'[w] = "failed" THEN 0 ELSE errors'[w]]
          = [w \in Workers |-> IF pc[w] = "failed" THEN 0 ELSE errors[w]]
    BY DEF Quiet
  <2>2. QED
    BY <2>1 DEF BatchErrors
<1>3. ConnectErrors' = ConnectErrors
  BY DEF Quiet, ConnectErrors
<1>4. SumOver(processed)' = SumOver(processed) /\ SumOver(errors)' = SumOver(errors)
  BY DEF Quiet
<1>5. QED
  BY <1>1, <1>2, <1>3, <1>4 DEF Quiet, Accounted

LEMMA QuietIsStutter ==
    ASSUME Quiet, UNCHANGED <<InFlight, BatchErrors, ConnectErrors>>
    PROVE  UNCHANGED Load!loadVars
BY DEF Quiet, Load!loadVars

LEMMA MoreThanEnough ==
    ASSUME NEW m \in Nat, NEW n \in Nat, n >= m, m * Batch >= Total
    PROVE  n * Batch >= Total
<1>1. n * Batch >= m * Batch
  BY WorkerAssumption, Z3
<1>2. n * Batch \in Int /\ m * Batch \in Int /\ Total \in Int
  BY WorkerAssumption
<1> DEFINE a == m * Batch
           b == n * Batch
<1> HIDE DEF a, b
<1>3. b >= a /\ a >= Total /\ a \in Int /\ b \in Int => b >= Total
  BY <1>2
<1>4. QED
  BY <1>1, <1>2, <1>3 DEF a, b

(* The end of the run is not near while a worker takes a step.               *)
LEMMA WorkerKeepsEnded ==
    ASSUME Ended, NEW w \in Workers, WorkerOnly(w),
           pc'[w] \notin {"create", "failed"},
           TypeOK, TypeOK', Len(tickets') >= Len(tickets),
           countMode /\ pc'[w] = "done" => AllIdle(w)' /\ Len(tickets') * Batch >= Total
    PROVE  Ended' /\ main = "joining" /\ ~shutdown
<1>1. main = "joining"
  BY DEF Ended, WorkerOnly
<1>2. main' = "joining" /\ shutdown' = shutdown /\ countMode' = countMode
  BY <1>1 DEF WorkerOnly
<1>3. ~shutdown
  BY <1>1 DEF Ended
<1>4. Len(tickets) \in Nat /\ Len(tickets') \in Nat
  BY DEF TypeOK, Quota!TypeOK
<1>5. ASSUME countMode, NEW v \in Workers, pc'[v] = "done"
      PROVE  AllIdle(v)' /\ Len(tickets') * Batch >= Total
  <2>1. CASE v = w
    BY <1>5, <2>1
  <2>2. CASE v # w
    <3>1. AllIdle(v) /\ Len(tickets) * Batch >= Total
      BY <1>5, <2>2 DEF Ended, WorkerOnly
    <3>2. AllIdle(v)'
      BY <3>1, <2>2 DEF AllIdle, Busy, WorkerOnly
    <3>3. Len(tickets') * Batch >= Total
      BY <1>4, <3>1, MoreThanEnough
    <3>4. QED
      BY <3>2, <3>3
  <2>3. QED
    BY <2>1, <2>2
<1>6. QED
  BY <1>1, <1>2, <1>3, <1>5 DEF Ended

(* A step of a worker that moves no batch.                                   *)
LEMMA QuietStep ==
    ASSUME RInv, NEW w \in Workers, WorkerOnly(w), Quiet, TypeOK', InPlaceAt(w)',
           pc'[w] \notin {"create", "failed"},
           countMode /\ pc'[w] = "done" => AllIdle(w)' /\ Len(tickets') * Batch >= Total
    PROVE  RInv' /\ UNCHANGED Load!loadVars
<1>1. TypeOK /\ InPlace /\ Accounted /\ Ended
  BY DEF RInv
<1>2. InPlace'
  BY <1>1, AllInPlace
<1>3. Accounted' /\ UNCHANGED <<InFlight, BatchErrors, ConnectErrors>>
  BY <1>1, QuietKeepsAccounts
<1>4. Len(tickets') >= Len(tickets)
  BY <1>1 DEF Quiet, TypeOK, Quota!TypeOK
<1>5. Ended'
  BY <1>1, <1>4, WorkerKeepsEnded
<1>6. UNCHANGED Load!loadVars
  BY <1>3, QuietIsStutter
<1>7. QED
  BY <1>2, <1>3, <1>5, <1>6 DEF RInv

-----------------------------------------------------------------------------
(* The steps of a worker that move no batch.                                 *)

LEMMA AtTyped ==
    ASSUME TypeOK, NEW w \in Workers
    PROVE  /\ at \in [Workers -> Nat \ {0}]
           /\ [at EXCEPT ![w] = @ + 1] \in [Workers -> Nat \ {0}]
           /\ [at EXCEPT ![w] = 1] \in [Workers -> Nat \ {0}]
<1>1. at \in [Workers -> Nat \ {0}]
  BY DEF TypeOK
<1>2. at[w] + 1 \in Nat \ {0} /\ 1 \in Nat \ {0}
  BY <1>1
<1>3. QED
  BY <1>1, <1>2

LEMMA CreateStep ==
    ASSUME RInv, QInv', NEW w \in Workers, Create(w), UNCHANGED <<main, merged>>
    PROVE  RInv' /\ UNCHANGED Load!loadVars
<1>1. /\ pc[w] = "create" /\ pc' = [pc EXCEPT ![w] = "initial"]
      /\ ready' = [ready EXCEPT ![w] = ClientsOf[w]]
      /\ UNCHANGED <<countMode, issued, expired, claim, tickets, onTime, finished, processed,
                     errors, shutdown, at, cur, state, wire>>
  BY DEF Create, counterVars, tallyVars
<1>2. TypeOK /\ InPlaceAt(w)
  BY DEF RInv, InPlace
<1>3. TypeOK'
  BY <1>1, <1>2, QuotaTypedNext, OwnClients DEF TypeOK
<1>4. pc'[w] = "initial" /\ cur[w] = NoClient /\ ready'[w] = ClientsOf[w] /\ AllIdle(w)
  BY <1>1, <1>2 DEF TypeOK, InPlaceAt
<1>5. WorkerOnly(w)
  BY <1>1, <1>2 DEF WorkerOnly, TypeOK
<1>6. InPlaceAt(w)'
  <2>1. IdleAreReady(w)'
    BY <1>1, <1>4, OwnClients DEF IdleAreReady, AllIdle, Busy
  <2>2. QED
    BY <1>1, <1>4, <2>1 DEF InPlaceAt
<1>7. Quiet
  BY <1>1, <1>4, <1>5, QuietIf DEF BusyClients, Busy, Granted
<1>8. QED
  BY <1>3, <1>4, <1>5, <1>6, <1>7, QuietStep

LEMMA TakeReadyStep ==
    ASSUME RInv, QInv', NEW w \in Workers, TakeReady(w), UNCHANGED <<main, merged>>
    PROVE  RInv' /\ UNCHANGED Load!loadVars
<1>1. PICK i \in Fronts(ready[w]) :
        /\ pc[w] \in {"initial", "drain"} /\ cur[w] = NoClient
        /\ cur' = [cur EXCEPT ![w] = ready[w][i]]
        /\ ready' = [ready EXCEPT ![w] = RemoveAt(@, i)]
        /\ claim' = [claim EXCEPT ![w] = IF expired THEN "refused" ELSE "checked"]
        /\ UNCHANGED <<countMode, issued, expired, tickets, onTime, finished, processed,
                       errors, shutdown, pc, at, state, wire>>
  BY DEF TakeReady, Quota!BeginClaim
<1>2. TypeOK /\ InPlaceAt(w) /\ Quota!TypeOK
  BY DEF RInv, InPlace, TypeOK
<1> DEFINE own == ToSet(ClientsOf[w])
           c == ready[w][i]
<1>3. Running(w) /\ IdleAreReady(w) /\ ready[w] \in Seq(own)
  BY <1>1, <1>2 DEF Running, InPlaceAt, TypeOK
<1>4. i \in 1 .. Len(ready[w])
  BY <1>3, LenProperties DEF Fronts
<1>5. /\ RemoveAt(ready[w], i) \in Seq(own) /\ IsInjective(RemoveAt(ready[w], i))
      /\ ToSet(RemoveAt(ready[w], i)) = ToSet(ready[w]) \ {c}
      /\ c \in own /\ c \in ToSet(ready[w])
  BY <1>3, <1>4, TakenFromQueue DEF IdleAreReady
<1>6. c \in Clients /\ c # NoClient /\ ~Busy(c)
  BY <1>3, <1>5, OwnClients DEF IdleAreReady
<1> HIDE DEF own, c
<1>7. cur'[w] = c /\ ready'[w] = RemoveAt(ready[w], i) /\ pc'[w] = pc[w]
  BY <1>1, <1>2 DEF TypeOK, c
<1>8. claim'[w] # "granted" /\ \A v \in Workers \ {w} : claim'[v] = claim[v]
  BY <1>1, <1>2 DEF Quota!TypeOK
<1>9. TypeOK'
  <2>1. cur' \in [Workers -> Clients \cup {NoClient}]
    BY <1>1, <1>2, <1>6 DEF TypeOK, c
  <2>2. DOMAIN ready' = Workers /\ \A v \in Workers : ready'[v] \in Seq(ToSet(ClientsOf[v]))
    BY <1>1, <1>2, <1>5 DEF TypeOK, own
  <2>3. QED
    BY <1>1, <1>2, <2>1, <2>2, QuotaTypedNext DEF TypeOK
<1>10. WorkerOnly(w)
  BY <1>1, <1>2 DEF WorkerOnly, TypeOK
<1>11. InPlaceAt(w)'
  <2>1. \A d : Busy(d)' = Busy(d)
    BY <1>1 DEF Busy
  <2>2. IdleAreReady(w)'
    BY <1>1, <1>3, <1>5, <1>6, <1>7, <2>1, OwnClients DEF IdleAreReady, own
  <2>3. QED
    BY <1>1, <1>5, <1>6, <1>7, <2>1, <2>2 DEF InPlaceAt, own
<1>12. Quiet
  <2>1. BusyClients' = BusyClients
    BY <1>1 DEF BusyClients, Busy
  <2>2. QED
    BY <1>1, <1>8, <1>10, <2>1, QuietIf DEF Granted
<1>13. pc'[w] \notin {"create", "failed", "done"}
  BY <1>1
<1>14. QED
  BY <1>9, <1>10, <1>11, <1>12, <1>13, QuietStep

LEMMA QueueEmptyStep ==
    ASSUME RInv, QInv', NEW w \in Workers, QueueEmpty(w), UNCHANGED <<main, merged>>
    PROVE  RInv' /\ UNCHANGED Load!loadVars
<1>1. /\ pc[w] \in {"initial", "drain"} /\ cur[w] = NoClient /\ pc' = [pc EXCEPT ![w] = "head"]
      /\ UNCHANGED <<countMode, issued, expired, claim, tickets, onTime, finished, processed,
                     errors, shutdown, at, cur, ready, state, wire>>
  BY DEF QueueEmpty, counterVars, tallyVars
<1>2. TypeOK /\ InPlaceAt(w) /\ Running(w)
  BY <1>1 DEF RInv, InPlace, Running
<1>3. TypeOK' /\ pc'[w] = "head"
  BY <1>1, <1>2, QuotaTypedNext DEF TypeOK
<1>4. WorkerOnly(w)
  BY <1>1, <1>2 DEF WorkerOnly, TypeOK
<1>5. InPlaceAt(w)'
  <2>1. \A d : Busy(d)' = Busy(d)
    BY <1>1 DEF Busy
  <2>2. QED
    BY <1>1, <1>2, <1>3, <2>1 DEF InPlaceAt, IdleAreReady
<1>6. Quiet
  BY <1>1, <1>3, <1>4, QuietIf DEF BusyClients, Busy, Granted
<1>7. QED
  BY <1>3, <1>4, <1>5, <1>6, QuietStep

LEMMA ClaimForReuseStep ==
    ASSUME RInv, QInv', NEW w \in Workers, ClaimForReuse(w), UNCHANGED <<main, merged>>
    PROVE  RInv' /\ UNCHANGED Load!loadVars
<1>1. /\ pc[w] = "answered" /\ pc' = [pc EXCEPT ![w] = "reuse"]
      /\ claim' = [claim EXCEPT ![w] = IF expired THEN "refused" ELSE "checked"]
      /\ UNCHANGED <<countMode, issued, expired, tickets, onTime, finished, processed,
                     errors, shutdown, at, cur, ready, state, wire>>
  BY DEF ClaimForReuse, Quota!BeginClaim, tallyVars
<1>2. TypeOK /\ InPlaceAt(w) /\ Running(w) /\ Quota!TypeOK
  BY <1>1 DEF RInv, InPlace, Running, TypeOK
<1>3. TypeOK' /\ pc'[w] = "reuse"
  BY <1>1, <1>2, QuotaTypedNext DEF TypeOK
<1>4. claim'[w] # "granted" /\ \A v \in Workers \ {w} : claim'[v] = claim[v]
  BY <1>1, <1>2 DEF Quota!TypeOK
<1>5. WorkerOnly(w)
  BY <1>1, <1>2 DEF WorkerOnly, TypeOK
<1>6. InPlaceAt(w)'
  <2>1. \A d : Busy(d)' = Busy(d)
    BY <1>1 DEF Busy
  <2>2. QED
    BY <1>1, <1>2, <1>3, <2>1 DEF InPlaceAt, IdleAreReady
<1>7. Quiet
  BY <1>1, <1>3, <1>4, <1>5, QuietIf DEF BusyClients, Busy, Granted
<1>8. QED
  BY <1>3, <1>5, <1>6, <1>7, QuietStep

(* start_request: the batch in hand is under way.                            *)
LEMMA StartRequestStep ==
    ASSUME RInv, QInv', NEW w \in Workers, StartRequest(w), UNCHANGED <<main, merged>>
    PROVE  RInv' /\ UNCHANGED Load!loadVars
<1> DEFINE c == cur[w]
           own == ToSet(ClientsOf[w])
<1>1. /\ c # NoClient /\ pc[w] # "answered" /\ claim[w] = "granted"
      /\ cur' = [cur EXCEPT ![w] = NoClient]
      /\ UNCHANGED <<countMode, issued, expired, claim, tickets, onTime, finished, processed,
                     errors, shutdown, ready>>
  BY DEF StartRequest, counterVars, tallyVars
<1>2. \E s \in Outgoing(c) : /\ wire' = [wire EXCEPT ![c] = s]
                             /\ \E st \in {"Reading", "Writing"} : state' = [state EXCEPT ![c] = st]
  BY DEF StartRequest, Outgoing, AfterWrite
<1>3. \/ pc[w] # "reuse" /\ pc' = pc /\ at' = at
      \/ /\ pc[w] = "reuse" /\ pc' = [pc EXCEPT ![w] = "scan"]
         /\ at' = [at EXCEPT ![w] = @ + 1]
  BY DEF StartRequest
<1>4. TypeOK /\ InPlaceAt(w)
  BY DEF RInv, InPlace
<1>5. c \in own /\ ~Busy(c) /\ pc[w] \in {"initial", "drain", "reuse"}
  BY <1>1, <1>4 DEF InPlaceAt
<1>6. Running(w) /\ IdleAreReady(w) /\ c \in Clients
  BY <1>4, <1>5, OwnClients DEF Running, InPlaceAt
<1> HIDE DEF c, own
<1>7. /\ pc'[w] \in {"initial", "drain", "scan"}
      /\ \A v \in Workers \ {w} : pc'[v] = pc[v] /\ cur'[v] = cur[v]
      /\ cur'[w] = NoClient
  BY <1>1, <1>3, <1>4, <1>5 DEF TypeOK
<1>8. /\ state'[c] \in {"Reading", "Writing"} /\ \A d \in Clients \ {c} : state'[d] = state[d]
      /\ state' \in [Clients -> {"Idle", "Writing", "Reading"}]
      /\ wire' \in [Clients -> {"clear", "blocked", "answered", "garbled", "closed"}]
  BY <1>2, <1>4, <1>6 DEF TypeOK, Outgoing
<1>9. TypeOK'
  <2>1. at' \in [Workers -> Nat \ {0}]
    BY <1>3, <1>4, AtTyped
  <2>2. /\ pc' \in [Workers -> {"create", "initial", "head", "scan", "answered",
                              "reuse", "drain", "done", "failed"}]
        /\ cur' \in [Workers -> Clients \cup {NoClient}]
    BY <1>1, <1>3, <1>4 DEF TypeOK
  <2>3. QED
    BY <1>1, <1>4, <1>8, <2>1, <2>2, QuotaTypedNext DEF TypeOK
<1>10. WorkerOnly(w)
  <2>1. \A v \in Workers \ {w} : \A d \in ToSet(ClientsOf[v]) : state'[d] = state[d]
    BY <1>5, <1>8, NotOfOthers DEF own
  <2>2. QED
    BY <1>1, <1>5, <1>7, <2>1 DEF WorkerOnly
<1>11. InPlaceAt(w)'
  <2>1. \A d \in own : Busy(d)' <=> Busy(d) \/ d = c
    BY <1>5, <1>8, OwnClients DEF Busy, own
  <2>2. c \notin ToSet(ready[w])
    BY <1>5, <1>6 DEF IdleAreReady, own, c
  <2>3. IdleAreReady(w)'
    BY <1>1, <1>6, <1>7, <2>1, <2>2, OwnClients DEF IdleAreReady, own, c
  <2>4. QED
    BY <1>7, <2>3 DEF InPlaceAt
<1>12. BusyClients' = BusyClients \cup {c} /\ c \notin BusyClients
  BY <1>5, <1>6, <1>8 DEF BusyClients, Busy
<1>13. Granted' = Granted \ {w} /\ w \in Granted
  BY <1>1, <1>5, <1>7 DEF Granted, c
<1>14. InFlight' = InFlight
  <2>1. Cardinality(BusyClients') = Cardinality(BusyClients) + 1
    BY <1>12, SetsFinite, FS_AddElement
  <2>2. Cardinality(Granted') = Cardinality(Granted) - 1
    BY <1>13, SetsFinite, FS_RemoveElement
  <2>3. QED
    BY <2>1, <2>2, SetsFinite DEF InFlight, BusyClients, Granted
<1>15. Quiet
  BY <1>1, <1>5, <1>7, <1>10, <1>14 DEF Quiet, WorkerOnly
<1>16. QED
  BY <1>7, <1>9, <1>10, <1>11, <1>15, QuietStep

(* claim_batch returned None: the client is queued again.                    *)
LEMMA NoMoreWorkStep ==
    ASSUME RInv, QInv', NEW w \in Workers, NoMoreWork(w), UNCHANGED <<main, merged>>
    PROVE  RInv' /\ UNCHANGED Load!loadVars
<1> DEFINE c == cur[w]
           own == ToSet(ClientsOf[w])
           queue == Requeued(ready[w], c)
<1>1. /\ c # NoClient /\ pc[w] # "answered" /\ claim[w] = "refused"
      /\ ready' = [ready EXCEPT ![w] = queue]
      /\ cur' = [cur EXCEPT ![w] = NoClient]
      /\ UNCHANGED <<countMode, issued, expired, claim, tickets, onTime, finished, processed,
                     errors, shutdown, state, wire>>
  BY DEF NoMoreWork, counterVars, tallyVars
<1>2. \/ /\ pc[w] = "reuse" /\ pc' = [pc EXCEPT ![w] = "scan"]
         /\ at' = [at EXCEPT ![w] = @ + 1]
      \/ pc' = [pc EXCEPT ![w] = "head"] /\ at' = at
  BY DEF NoMoreWork
<1>3. TypeOK /\ InPlaceAt(w)
  BY DEF RInv, InPlace
<1>4. c \in own /\ ~Busy(c) /\ pc[w] \in {"initial", "drain", "reuse"}
  BY <1>1, <1>3 DEF InPlaceAt
<1>5. Running(w) /\ IdleAreReady(w) /\ ready[w] \in Seq(own)
  BY <1>3, <1>4 DEF Running, InPlaceAt, TypeOK
<1>6. IsInjective(ready[w]) /\ c \notin ToSet(ready[w])
  BY <1>4, <1>5 DEF IdleAreReady
<1>7. /\ queue \in Seq(own) /\ IsInjective(queue)
      /\ ToSet(queue) = ToSet(ready[w]) \cup (IF Cluster => c \in SlotOwners THEN {c} ELSE {})
  BY <1>4, <1>5, <1>6, PutBack
<1> HIDE DEF c, own, queue
<1>8. /\ pc'[w] \in {"scan", "head"} /\ cur'[w] = NoClient /\ ready'[w] = queue
      /\ \A v \in Workers \ {w} : pc'[v] = pc[v] /\ cur'[v] = cur[v] /\ ready'[v] = ready[v]
  BY <1>1, <1>2, <1>3 DEF TypeOK
<1>9. TypeOK'
  <2>1. at' \in [Workers -> Nat \ {0}]
    BY <1>2, <1>3, AtTyped
  <2>2. /\ pc' \in [Workers -> {"create", "initial", "head", "scan", "answered",
                              "reuse", "drain", "done", "failed"}]
        /\ cur' \in [Workers -> Clients \cup {NoClient}]
    BY <1>1, <1>2, <1>3 DEF TypeOK
  <2>3. DOMAIN ready' = Workers /\ \A v \in Workers : ready'[v] \in Seq(ToSet(ClientsOf[v]))
    BY <1>1, <1>3, <1>7 DEF TypeOK, own
  <2>4. QED
    BY <1>1, <1>3, <2>1, <2>2, <2>3, QuotaTypedNext DEF TypeOK
<1>10. WorkerOnly(w)
  BY <1>1, <1>4, <1>8 DEF WorkerOnly
<1>11. InPlaceAt(w)'
  <2>1. \A d : Busy(d)' = Busy(d)
    BY <1>1 DEF Busy
  <2>2. ASSUME NEW d \in own
        PROVE  /\ d \in ToSet(queue) => ~Busy(d) /\ d # NoClient
               /\ ~Busy(d) /\ (Cluster => d \in SlotOwners) => d \in ToSet(queue)
    BY <1>4, <1>5, <1>7, OwnClients DEF IdleAreReady, own, c
  <2>3. IdleAreReady(w)'
    BY <1>7, <1>8, <2>1, <2>2, OwnClients DEF IdleAreReady, own
  <2>4. QED
    BY <1>8, <2>3 DEF InPlaceAt
<1>12. Quiet
  BY <1>1, <1>8, <1>10, QuietIf DEF BusyClients, Busy, Granted, c
<1>13. QED
  BY <1>8, <1>9, <1>10, <1>11, <1>12, QuietStep

(* A worker leaves the loop on the flag, the clock or a finished quota; it   *)
(* is the last of these in count mode.                                       *)
LEMMA LoopTopStep ==
    ASSUME RInv, QInv, QInv', NEW w \in Workers, LoopTop(w), UNCHANGED <<main, merged>>
    PROVE  RInv' /\ UNCHANGED Load!loadVars
<1>1. /\ pc[w] = "head"
      /\ \/ pc' = [pc EXCEPT ![w] = "done"] /\ at' = at
         \/ pc' = [pc EXCEPT ![w] = "scan"] /\ at' = [at EXCEPT ![w] = 1]
      /\ UNCHANGED <<countMode, issued, expired, claim, tickets, onTime, finished, processed,
                     errors, shutdown, cur, ready, state, wire>>
  BY DEF LoopTop, counterVars, tallyVars
<1>2. TypeOK /\ InPlaceAt(w) /\ Running(w) /\ Ended
  BY <1>1 DEF RInv, InPlace, Running
<1>3. pc'[w] \in {"done", "scan"} /\ cur[w] = NoClient
  BY <1>1, <1>2 DEF TypeOK, InPlaceAt
<1>4. TypeOK'
  <2>1. at' \in [Workers -> Nat \ {0}]
    BY <1>1, <1>2, AtTyped
  <2>2. QED
    BY <1>1, <1>2, <2>1, QuotaTypedNext DEF TypeOK
<1>5. WorkerOnly(w)
  BY <1>1, <1>2 DEF WorkerOnly, TypeOK
<1>6. \A d : Busy(d)' = Busy(d)
  BY <1>1 DEF Busy
<1>7. InPlaceAt(w)'
  BY <1>1, <1>2, <1>3, <1>6 DEF InPlaceAt, IdleAreReady
<1>8. Quiet
  BY <1>1, <1>3, <1>5, QuietIf DEF BusyClients, Busy, Granted
<1>9. ASSUME countMode, pc'[w] = "done" PROVE AllIdle(w)' /\ Len(tickets') * Batch >= Total
  <2>1. ~shutdown
    <3>1. main = "joining"
      BY <1>1, <1>2 DEF Ended
    <3>2. QED
      BY <1>2, <3>1 DEF Ended
  <2>2. ~expired
    BY <1>9, QuotaMeans
  <2>3. ~(shutdown \/ expired \/ (Quota!IsComplete /\ AllIdle(w))) => pc'[w] = "scan"
    BY <1>2 DEF LoopTop, TypeOK
  <2>4. Quota!IsComplete /\ AllIdle(w)
    BY <1>9, <2>1, <2>2, <2>3
  <2>5. Len(tickets) * Batch >= Total
    BY <2>4, QuotaMeans
  <2>6. QED
    BY <1>1, <1>6, <2>4, <2>5 DEF AllIdle
<1>10. QED
  BY <1>3, <1>4, <1>5, <1>7, <1>8, <1>9, QuietStep

(* The steps of the scan that only look.                                     *)
LEMMA ScanStep ==
    ASSUME RInv, QInv', NEW w \in Workers, ScanEnds(w) \/ VisitNothing(w),
           UNCHANGED <<main, merged>>
    PROVE  RInv' /\ UNCHANGED Load!loadVars
<1>1. /\ pc[w] = "scan"
      /\ \/ pc' = [pc EXCEPT ![w] = "drain"] /\ at' = at
         \/ pc' = pc /\ at' = [at EXCEPT ![w] = @ + 1]
      /\ UNCHANGED <<countMode, issued, expired, claim, tickets, onTime, finished, processed,
                     errors, shutdown, cur, ready, state, wire>>
  BY DEF ScanEnds, VisitNothing, Scanning, counterVars, tallyVars
<1>2. TypeOK /\ InPlaceAt(w) /\ Running(w)
  BY <1>1 DEF RInv, InPlace, Running
<1>3. pc'[w] \in {"drain", "scan"} /\ cur[w] = NoClient
  BY <1>1, <1>2 DEF TypeOK, InPlaceAt
<1>4. TypeOK'
  <2>1. at' \in [Workers -> Nat \ {0}]
    BY <1>1, <1>2, AtTyped
  <2>2. QED
    BY <1>1, <1>2, <2>1, QuotaTypedNext DEF TypeOK
<1>5. WorkerOnly(w)
  BY <1>1, <1>2 DEF WorkerOnly, TypeOK
<1>6. \A d : Busy(d)' = Busy(d)
  BY <1>1 DEF Busy
<1>7. InPlaceAt(w)'
  BY <1>1, <1>2, <1>3, <1>6 DEF InPlaceAt, IdleAreReady
<1>8. Quiet
  BY <1>1, <1>3, <1>5, QuietIf DEF BusyClients, Busy, Granted
<1>9. QED
  BY <1>3, <1>4, <1>5, <1>7, <1>8, QuietStep

(* The client that a scan is at.                                             *)
LEMMA Visited ==
    ASSUME RInv, NEW w \in Workers, NEW c \in Clients, Scanning(w, c)
    PROVE  /\ pc[w] = "scan" /\ c \in ToSet(ClientsOf[w])
           /\ TypeOK /\ InPlaceAt(w) /\ Running(w) /\ IdleAreReady(w) /\ cur[w] = NoClient
<1>1. pc[w] = "scan" /\ c = ClientsOf[w][at[w]] /\ at[w] <= Len(ClientsOf[w])
  BY DEF Scanning
<1>2. TypeOK /\ InPlaceAt(w) /\ Running(w)
  BY <1>1 DEF RInv, InPlace, Running
<1>3. at[w] \in 1 .. Len(ClientsOf[w])
  <2>1. at[w] \in Nat \ {0}
    BY <1>2 DEF TypeOK
  <2>2. QED
    BY <1>1, <2>1, OwnClients
<1>4. QED
  BY <1>1, <1>2, <1>3, OwnClients DEF InPlaceAt

LEMMA VisitWritingStep ==
    ASSUME RInv, QInv', NEW w \in Workers, VisitWriting(w), UNCHANGED <<main, merged>>
    PROVE  RInv' /\ UNCHANGED Load!loadVars
<1>1. PICK c \in Clients :
        /\ Scanning(w, c) /\ state[c] = "Writing"
        /\ state' = [state EXCEPT ![c] = "Reading"]
        /\ at' = [at EXCEPT ![w] = @ + 1]
        /\ UNCHANGED <<countMode, issued, expired, claim, tickets, onTime, finished, processed,
                       errors, shutdown, pc, cur, ready, wire>>
  BY DEF VisitWriting, counterVars, tallyVars
<1>2. /\ pc[w] = "scan" /\ c \in ToSet(ClientsOf[w])
      /\ TypeOK /\ InPlaceAt(w) /\ Running(w) /\ IdleAreReady(w) /\ cur[w] = NoClient
  BY <1>1, Visited
<1>3. TypeOK'
  <2>1. at' \in [Workers -> Nat \ {0}]
    BY <1>1, <1>2, AtTyped
  <2>2. QED
    BY <1>1, <1>2, <2>1, QuotaTypedNext DEF TypeOK
<1>4. \A d \in Clients : Busy(d)' = Busy(d)
  BY <1>1, <1>2 DEF Busy, TypeOK
<1>5. WorkerOnly(w)
  <2>1. \A v \in Workers \ {w} : \A d \in ToSet(ClientsOf[v]) : state'[d] = state[d]
    BY <1>1, <1>2, NotOfOthers DEF TypeOK
  <2>2. QED
    BY <1>1, <1>2, <2>1 DEF WorkerOnly
<1>6. InPlaceAt(w)'
  BY <1>1, <1>2, <1>4, OwnClients DEF InPlaceAt, IdleAreReady
<1>7. Quiet
  BY <1>1, <1>2, <1>4, <1>5, QuietIf DEF BusyClients, Granted
<1>8. QED
  BY <1>1, <1>2, <1>3, <1>5, <1>6, <1>7, QuietStep

-----------------------------------------------------------------------------
(* The steps that grant, answer or fail a batch.                             *)

LEMMA NumbersTyped ==
    ASSUME TypeOK
    PROVE  /\ finished \in Nat /\ Len(tickets) \in Nat /\ InFlight \in Nat
           /\ BatchErrors \in Int /\ ConnectErrors \in Nat
<1>1. finished \in Nat /\ Len(tickets) \in Nat
  BY DEF TypeOK, Quota!TypeOK
<1>2. InFlight \in Nat
  BY SetsFinite DEF InFlight, BusyClients, Granted
<1>3. BatchErrors \in Int
  <2> DEFINE f == [w \in Workers |-> IF pc[w] = "failed" THEN 0 ELSE errors[w]]
  <2>1. f \in [Workers -> Int]
    BY DEF TypeOK
  <2> HIDE DEF f
  <2>2. SumOver(f) \in Int
    BY <2>1, SumTyped
  <2>3. QED
    BY <2>2 DEF BatchErrors, f
<1>4. ConnectErrors \in Nat
  <2>1. {w \in Workers : pc[w] = "failed"} \subseteq Workers
    OBVIOUS
  <2>2. IsFiniteSet({w \in Workers : pc[w] = "failed"})
    BY <2>1, WorkerAssumption, FS_Subset
  <2>3. QED
    BY <2>2, FS_CardinalityType DEF ConnectErrors
<1>5. QED
  BY <1>1, <1>2, <1>3, <1>4

LEMMA OneMore ==
    ASSUME NEW n \in Int
    PROVE  (n + 1) * Batch = n * Batch + Batch /\ n * Batch \in Int
BY WorkerAssumption

(* fetch_add grants a batch: it is sent.                                     *)
LEMMA GrantStep ==
    ASSUME RInv, QInv, QInv', NEW w \in Workers, Claiming(w), Quota!FetchAdd(w),
           claim'[w] = "granted", UNCHANGED <<main, merged>>
    PROVE  RInv' /\ Load!Send
<1>1. /\ cur[w] # NoClient /\ pc[w] # "answered" /\ claim[w] = "checked"
      /\ countMode => issued < Total
      /\ claim' = [claim EXCEPT ![w] = "granted"] /\ tickets' = Append(tickets, issued)
      /\ UNCHANGED <<countMode, expired, pc, at, cur, ready, state, wire, finished, processed,
                     errors, shutdown>>
  <2>1. TypeOK /\ Quota!TypeOK /\ Total \in Int
    BY WorkerAssumption DEF RInv, TypeOK
  <2>2. ~(countMode /\ issued >= Total)
    BY <2>1 DEF Quota!FetchAdd, Quota!TypeOK
  <2>3. QED
    BY <2>1, <2>2 DEF Claiming, Quota!FetchAdd, clientVars, tallyVars, Quota!TypeOK
<1>2. TypeOK /\ InPlaceAt(w) /\ Accounted /\ Ended /\ Quota!TypeOK
  BY DEF RInv, InPlace, TypeOK
<1>3. pc[w] \in {"initial", "drain", "reuse"}
  BY <1>1, <1>2 DEF InPlaceAt
<1>4. TypeOK'
  BY <1>1, <1>2, QuotaTypedNext DEF TypeOK
<1>5. WorkerOnly(w)
  BY <1>1, <1>3 DEF WorkerOnly
<1>6. \A d : Busy(d)' = Busy(d)
  BY <1>1 DEF Busy
<1>7. InPlace'
  <2>1. InPlaceAt(w)'
    BY <1>1, <1>2, <1>6 DEF InPlaceAt, Running, IdleAreReady, AllIdle
  <2>2. QED
    BY <1>5, <2>1, AllInPlace DEF RInv
<1>8. InFlight' = InFlight + 1
  <2>1. BusyClients' = BusyClients
    BY <1>6 DEF BusyClients
  <2>2. Granted' = Granted \cup {w} /\ w \notin Granted
    BY <1>1, <1>2 DEF Granted, Quota!TypeOK
  <2>3. Cardinality(Granted') = Cardinality(Granted) + 1
    BY <2>2, SetsFinite, FS_AddElement
  <2>4. QED
    BY <2>1, <2>3, SetsFinite DEF InFlight, BusyClients, Granted
<1>9. Len(tickets') = Len(tickets) + 1
  BY <1>1, <1>2 DEF Quota!TypeOK
<1>10. UNCHANGED <<BatchErrors, ConnectErrors, SumOver(errors), SumOver(processed)>>
  BY <1>1 DEF BatchErrors, ConnectErrors
<1>11. /\ InFlight' * Batch = InFlight * Batch + Batch /\ InFlight * Batch \in Int
       /\ Len(tickets') * Batch = Len(tickets) * Batch + Batch /\ Len(tickets) * Batch \in Int
  BY <1>2, <1>8, <1>9, OneMore, NumbersTyped
<1>12. Accounted'
  <2> DEFINE flying == InFlight * Batch
             sent == Len(tickets) * Batch
  <2>1. finished + BatchErrors + flying = sent
    BY <1>2 DEF Accounted
  <2>2. flying' = flying + Batch /\ sent' = sent + Batch
    BY <1>11
  <2>3. finished \in Int /\ BatchErrors \in Int /\ flying \in Int /\ sent \in Int /\ Batch \in Int
    BY <1>2, <1>11, NumbersTyped, WorkerAssumption
  <2> HIDE DEF flying, sent
  <2>4. finished' + BatchErrors' + flying' = sent'
    BY <1>1, <1>10, <2>1, <2>2, <2>3
  <2>5. QED
    BY <1>1, <1>2, <1>10, <2>4 DEF Accounted, flying, sent
<1>13. Ended' /\ main = "joining"
  BY <1>1, <1>2, <1>3, <1>4, <1>5, <1>9, NumbersTyped, WorkerKeepsEnded
<1>14. Load!Send
  <2>1. countMode => Load!Sent < Total
    BY <1>1, <1>2, QuotaMeans DEF Load!Sent, Accounted
  <2>2. QED
    BY <1>1, <1>8, <1>10, <1>13, <2>1 DEF Load!Send
<1>15. QED
  BY <1>4, <1>7, <1>12, <1>13, <1>14 DEF RInv

LEMMA ClaimingStep ==
    ASSUME RInv, QInv, QInv', NEW w \in Workers, Claiming(w), UNCHANGED <<main, merged>>
    PROVE  RInv' /\ (Load!Send \/ UNCHANGED Load!loadVars)
<1>1. CASE Quota!FetchAdd(w) /\ claim'[w] = "granted"
  BY <1>1, GrantStep
<1>2. CASE ~(Quota!FetchAdd(w) /\ claim'[w] = "granted")
  <2>1. TypeOK /\ InPlaceAt(w) /\ Quota!TypeOK
    BY DEF RInv, InPlace, TypeOK
  <2>2. /\ cur[w] # NoClient /\ pc[w] # "answered" /\ claim[w] \in {"checked", "undo"}
        /\ claim'[w] \in {"undo", "refused"}
        /\ \A v \in Workers \ {w} : claim'[v] = claim[v]
        /\ UNCHANGED <<countMode, expired, tickets, pc, at, cur, ready, state, wire, finished,
                       processed, errors, shutdown>>
    BY <1>2, <2>1 DEF Claiming, Quota!FetchAdd, Quota!FetchSub, Quota!TypeOK, clientVars, tallyVars
  <2>3. pc[w] \in {"initial", "drain", "reuse"}
    BY <2>1, <2>2 DEF InPlaceAt
  <2>4. TypeOK'
    BY <2>1, <2>2, QuotaTypedNext DEF TypeOK
  <2>5. WorkerOnly(w)
    BY <2>2, <2>3 DEF WorkerOnly
  <2>6. \A d : Busy(d)' = Busy(d)
    BY <2>2 DEF Busy
  <2>7. InPlaceAt(w)'
    BY <2>1, <2>2, <2>6 DEF InPlaceAt, Running, IdleAreReady, AllIdle
  <2>8. Quiet
    BY <2>2, <2>3, <2>5, <2>6, QuietIf DEF BusyClients, Granted
  <2>9. QED
    BY <2>2, <2>3, <2>4, <2>5, <2>7, <2>8, QuietStep
<1>3. QED
  BY <1>1, <1>2

(* A batch that comes back is no longer under way.                           *)
LEMMA OneFewer ==
    ASSUME TypeOK, NEW c \in Clients, Busy(c), BusyClients' = BusyClients \ {c}, Granted' = Granted
    PROVE  /\ InFlight > 0 /\ InFlight' = InFlight - 1
           /\ InFlight * Batch = InFlight' * Batch + Batch /\ InFlight' * Batch \in Int
<1>1. Cardinality(BusyClients') = Cardinality(BusyClients) - 1
  <2>1. c \in BusyClients
    BY DEF BusyClients
  <2>2. QED
    BY <2>1, SetsFinite, FS_RemoveElement
<1>2. Cardinality(BusyClients) > 0
  <2>1. c \in BusyClients
    BY DEF BusyClients
  <2>2. Cardinality(BusyClients) # 0
    BY <2>1, SetsFinite, FS_EmptySet
  <2>3. QED
    BY <2>2, SetsFinite
<1>3. Cardinality(Granted') = Cardinality(Granted)
  OBVIOUS
<1>4. InFlight = Cardinality(BusyClients) + Cardinality(Granted)
  BY DEF InFlight, BusyClients, Granted
<1>5. InFlight' = Cardinality(BusyClients') + Cardinality(Granted')
  BY DEF InFlight, BusyClients, Granted
<1>6. InFlight > 0 /\ InFlight' = InFlight - 1
  BY <1>1, <1>2, <1>3, <1>4, <1>5, SetsFinite
<1>7. InFlight' \in Int /\ InFlight' + 1 = InFlight
  BY <1>6, NumbersTyped
<1>8. InFlight * Batch = InFlight' * Batch + Batch /\ InFlight' * Batch \in Int
  BY <1>7, OneMore
<1>9. QED
  BY <1>6, <1>8

LEMMA VisitAnsweredStep ==
    ASSUME RInv, QInv', NEW w \in Workers, VisitAnswered(w), UNCHANGED <<main, merged>>
    PROVE  RInv' /\ Load!Succeed
<1>1. PICK c \in Clients :
        /\ Scanning(w, c) /\ state[c] = "Reading"
        /\ state' = [state EXCEPT ![c] = "Idle"]
        /\ wire' = [wire EXCEPT ![c] = "clear"]
        /\ processed' = [processed EXCEPT ![w] = @ + Batch]
        /\ finished' = finished + Batch
        /\ cur' = [cur EXCEPT ![w] = c]
        /\ pc' = [pc EXCEPT ![w] = "answered"]
        /\ UNCHANGED <<countMode, issued, expired, claim, tickets, onTime, errors, shutdown,
                       at, ready>>
  BY DEF VisitAnswered, counterVars
<1>2. /\ pc[w] = "scan" /\ c \in ToSet(ClientsOf[w])
      /\ TypeOK /\ InPlaceAt(w) /\ Running(w) /\ IdleAreReady(w) /\ cur[w] = NoClient
  BY <1>1, Visited
<1>3. Accounted /\ Ended /\ Busy(c) /\ c # NoClient /\ Batch \in Nat
  BY <1>1, <1>2, OwnClients, WorkerAssumption DEF RInv, Busy
<1>4. TypeOK'
  BY <1>1, <1>2, <1>3, QuotaTypedNext DEF TypeOK
<1>5. /\ pc'[w] = "answered" /\ cur'[w] = c
      /\ \A v \in Workers \ {w} : pc'[v] = pc[v] /\ cur'[v] = cur[v]
      /\ ~Busy(c)' /\ \A d \in Clients \ {c} : Busy(d)' = Busy(d)
  BY <1>1, <1>2 DEF TypeOK, Busy
<1>6. WorkerOnly(w)
  <2>1. \A v \in Workers \ {w} : \A d \in ToSet(ClientsOf[v]) : state'[d] = state[d]
    BY <1>1, <1>2, NotOfOthers DEF TypeOK
  <2>2. QED
    BY <1>1, <1>2, <1>5, <2>1 DEF WorkerOnly
<1>7. InPlace'
  <2>1. IdleAreReady(w)'
    BY <1>1, <1>2, <1>3, <1>5, OwnClients DEF IdleAreReady
  <2>2. InPlaceAt(w)'
    BY <1>2, <1>3, <1>5, <2>1 DEF InPlaceAt
  <2>3. QED
    BY <1>6, <2>2, AllInPlace DEF RInv
<1>8. /\ InFlight > 0 /\ InFlight' = InFlight - 1
      /\ InFlight * Batch = InFlight' * Batch + Batch /\ InFlight' * Batch \in Int
  <2>1. BusyClients' = BusyClients \ {c}
    BY <1>5 DEF BusyClients
  <2>2. Granted' = Granted
    BY <1>1, <1>2, <1>5 DEF Granted
  <2>3. QED
    BY <1>2, <1>3, <2>1, <2>2, OneFewer
<1>9. UNCHANGED <<BatchErrors, ConnectErrors, SumOver(errors)>>
  <2>1. \A v \in Workers : pc'[v] = "failed" <=> pc[v] = "failed"
    BY <1>2, <1>5
  <2>2. [v \in Workers |-> IF pc'[v] = "failed" THEN 0 ELSE errors'[v]]
          = [v \in Workers |-> IF pc[v] = "failed" THEN 0 ELSE errors[v]]
    BY <1>1, <2>1
  <2>3. QED
    BY <1>1, <2>1, <2>2 DEF BatchErrors, ConnectErrors
<1>10. SumOver(processed') = SumOver(processed) + Batch
  <2>1. /\ processed \in [Workers -> Int] /\ processed' \in [Workers -> Int]
        /\ processed'[w] = processed[w] + Batch
        /\ \A v \in Workers \ {w} : processed'[v] = processed[v]
    BY <1>1, <1>2, <1>3 DEF TypeOK
  <2>2. QED
    BY <1>3, <2>1, SumAdds
<1>11. Accounted'
  <2> DEFINE flying == InFlight * Batch
             sent == Len(tickets) * Batch
  <2>1. finished + BatchErrors + flying = sent /\ sent' = sent
    BY <1>1, <1>3 DEF Accounted
  <2>2. flying = flying' + Batch
    BY <1>8
  <2>3. finished \in Int /\ BatchErrors \in Int /\ flying' \in Int /\ Batch \in Int
    BY <1>2, <1>3, <1>8, NumbersTyped
  <2> HIDE DEF flying, sent
  <2>4. finished' + BatchErrors' + flying' = sent'
    BY <1>1, <1>9, <2>1, <2>2, <2>3
  <2>5. finished' = SumOver(processed')
    BY <1>1, <1>3, <1>10 DEF Accounted
  <2>6. \A v \in Workers : pc'[v] = "create" => errors'[v] = 0
    BY <1>1, <1>3, <1>5 DEF Accounted
  <2>7. QED
    BY <1>3, <1>9, <2>4, <2>5, <2>6 DEF Accounted, flying, sent
<1>12. Ended' /\ main = "joining"
  BY <1>1, <1>2, <1>3, <1>4, <1>5, <1>6, NumbersTyped, WorkerKeepsEnded
<1>13. Load!Succeed
  BY <1>1, <1>8, <1>9, <1>12 DEF Load!Succeed
<1>14. QED
  BY <1>4, <1>7, <1>11, <1>12, <1>13 DEF RInv

LEMMA VisitFailedStep ==
    ASSUME RInv, QInv', NEW w \in Workers, VisitFailed(w), UNCHANGED <<main, merged>>
    PROVE  RInv' /\ Load!Fail
<1>1. PICK c \in Clients :
        /\ Scanning(w, c) /\ Busy(c)
        /\ errors' = [errors EXCEPT ![w] = @ + Batch]
        /\ state' = [state EXCEPT ![c] = "Idle"]
        /\ wire' = [wire EXCEPT ![c] = IF @ = "garbled" THEN "clear" ELSE @]
        /\ ready' = [ready EXCEPT ![w] = Requeued(@, c)]
        /\ at' = [at EXCEPT ![w] = @ + 1]
        /\ UNCHANGED <<countMode, issued, expired, claim, tickets, onTime, finished, processed,
                       shutdown, pc, cur>>
  BY DEF VisitFailed, counterVars, Busy
<1> DEFINE own == ToSet(ClientsOf[w])
           queue == Requeued(ready[w], c)
<1>2. /\ pc[w] = "scan" /\ c \in own
      /\ TypeOK /\ InPlaceAt(w) /\ Running(w) /\ IdleAreReady(w) /\ cur[w] = NoClient
  BY <1>1, Visited
<1>3. Accounted /\ Ended /\ Batch \in Nat /\ ready[w] \in Seq(own)
  BY <1>2, WorkerAssumption DEF RInv, TypeOK
<1>4. IsInjective(ready[w]) /\ c \notin ToSet(ready[w])
  BY <1>1, <1>2 DEF IdleAreReady
<1>5. /\ queue \in Seq(own) /\ IsInjective(queue)
      /\ ToSet(queue) = ToSet(ready[w]) \cup (IF Cluster => c \in SlotOwners THEN {c} ELSE {})
  BY <1>2, <1>3, <1>4, PutBack
<1> HIDE DEF own, queue
<1>6. /\ ready'[w] = queue /\ \A v \in Workers \ {w} : ready'[v] = ready[v]
      /\ ~Busy(c)' /\ \A d \in Clients \ {c} : Busy(d)' = Busy(d)
  BY <1>1, <1>2 DEF TypeOK, Busy, queue
<1>7. TypeOK'
  <2>1. at' \in [Workers -> Nat \ {0}]
    BY <1>1, <1>2, AtTyped
  <2>2. errors' \in [Workers -> Nat] /\ state' \in [Clients -> {"Idle", "Writing", "Reading"}]
    BY <1>1, <1>2, <1>3 DEF TypeOK
  <2>3. wire' \in [Clients -> {"clear", "blocked", "answered", "garbled", "closed"}]
    BY <1>1, <1>2 DEF TypeOK
  <2>4. DOMAIN ready' = Workers /\ \A v \in Workers : ready'[v] \in Seq(ToSet(ClientsOf[v]))
    BY <1>1, <1>2, <1>5, <1>6 DEF TypeOK, own
  <2>5. QED
    BY <1>1, <1>2, <2>1, <2>2, <2>3, <2>4, QuotaTypedNext DEF TypeOK
<1>8. WorkerOnly(w)
  <2>1. \A v \in Workers \ {w} : \A d \in ToSet(ClientsOf[v]) : state'[d] = state[d]
    BY ZenonT(40), <1>1, <1>2, NotOfOthers DEF TypeOK, own
  <2>2. QED
    BY <1>1, <1>2, <1>6, <2>1 DEF WorkerOnly
<1>9. InPlace'
  <2>1. \A d \in own : d \in Clients /\ d # NoClient
    BY OwnClients DEF own
  <2>2. ASSUME NEW d \in own
        PROVE  /\ d \in ToSet(queue) => ~Busy(d)'
               /\ ~Busy(d)' /\ (Cluster => d \in SlotOwners) => d \in ToSet(queue)
    <3>1. CASE d = c
      BY <1>5, <1>6, <3>1
    <3>2. CASE d # c
      BY <1>2, <1>5, <1>6, <2>1, <3>2 DEF IdleAreReady, own
    <3>3. QED
      BY <3>1, <3>2
  <2>3. IdleAreReady(w)'
    BY <1>1, <1>2, <1>5, <1>6, <2>1, <2>2 DEF IdleAreReady, own
  <2>4. InPlaceAt(w)'
    BY <1>1, <1>2, <2>3 DEF InPlaceAt
  <2>5. QED
    BY <1>8, <2>4, AllInPlace DEF RInv
<1>10. /\ InFlight > 0 /\ InFlight' = InFlight - 1
       /\ InFlight * Batch = InFlight' * Batch + Batch /\ InFlight' * Batch \in Int
  <2>1. BusyClients' = BusyClients \ {c}
    BY <1>6 DEF BusyClients
  <2>2. Granted' = Granted
    BY <1>1 DEF Granted
  <2>3. QED
    BY <1>1, <1>2, <2>1, <2>2, OneFewer
<1>11. ConnectErrors' = ConnectErrors
  BY <1>1 DEF ConnectErrors
<1>12. SumOver(errors') = SumOver(errors) + Batch /\ SumOver(errors) \in Int
  <2>1. /\ errors \in [Workers -> Int] /\ errors' \in [Workers -> Int]
        /\ errors'[w] = errors[w] + Batch
        /\ \A v \in Workers \ {w} : errors'[v] = errors[v]
    BY <1>1, <1>2, <1>3 DEF TypeOK
  <2>2. QED
    BY <1>3, <2>1, SumAdds, SumTyped
<1>13. BatchErrors' = BatchErrors + Batch
  <2> DEFINE f == [v \in Workers |-> IF pc[v] = "failed" THEN 0 ELSE errors[v]]
             g == [v \in Workers |-> IF pc'[v] = "failed" THEN 0 ELSE errors'[v]]
  <2>1. /\ f \in [Workers -> Int] /\ g \in [Workers -> Int] /\ g[w] = f[w] + Batch
        /\ \A v \in Workers \ {w} : g[v] = f[v]
    BY <1>1, <1>2, <1>3 DEF TypeOK
  <2>2. BatchErrors = SumOver(f) /\ BatchErrors' = SumOver(g)
    BY DEF BatchErrors
  <2> HIDE DEF f, g
  <2>3. QED
    BY <1>3, <2>1, <2>2, SumAdds
<1>14. Accounted'
  <2> DEFINE flying == InFlight * Batch
             sent == Len(tickets) * Batch
  <2>1. finished + BatchErrors + flying = sent /\ sent' = sent
    BY <1>1, <1>3 DEF Accounted
  <2>2. flying = flying' + Batch
    BY <1>10
  <2>3. finished \in Int /\ BatchErrors \in Int /\ flying' \in Int /\ Batch \in Int
    BY <1>2, <1>3, <1>10, NumbersTyped
  <2> HIDE DEF flying, sent
  <2>4. finished' + BatchErrors' + flying' = sent'
    BY <1>1, <1>13, <2>1, <2>2, <2>3
  <2>5. SumOver(errors') = BatchErrors' + ConnectErrors'
    BY <1>2, <1>3, <1>11, <1>12, <1>13, NumbersTyped DEF Accounted
  <2>6. \A v \in Workers : pc'[v] = "create" => errors'[v] = 0
    BY <1>1, <1>2, <1>3 DEF Accounted, TypeOK
  <2>7. QED
    BY <1>1, <1>3, <2>4, <2>5, <2>6 DEF Accounted, flying, sent
<1>15. Ended' /\ main = "joining"
  BY <1>1, <1>2, <1>3, <1>7, <1>8, NumbersTyped, WorkerKeepsEnded
<1>16. Load!Fail
  BY <1>1, <1>10, <1>13, <1>15 DEF Load!Fail
<1>17. QED
  BY <1>7, <1>9, <1>14, <1>15, <1>16 DEF RInv

(* A worker that cannot connect has one error, of no batch.                  *)
LEMMA CreateFailsStep ==
    ASSUME RInv, QInv', NEW w \in Workers, CreateFails(w), UNCHANGED <<main, merged>>
    PROVE  RInv' /\ UNCHANGED Load!loadVars
<1>1. /\ pc[w] = "create" /\ pc' = [pc EXCEPT ![w] = "failed"]
      /\ errors' = [errors EXCEPT ![w] = 1]
      /\ UNCHANGED <<countMode, issued, expired, claim, tickets, onTime, finished, processed,
                     shutdown, at, cur, ready, state, wire>>
  BY DEF CreateFails, counterVars
<1>2. TypeOK /\ InPlaceAt(w) /\ Accounted /\ Ended
  BY DEF RInv, InPlace
<1>3. TypeOK'
  BY <1>1, <1>2, QuotaTypedNext DEF TypeOK
<1>4. pc'[w] = "failed" /\ \A v \in Workers \ {w} : pc'[v] = pc[v] /\ errors'[v] = errors[v]
  BY <1>1, <1>2 DEF TypeOK
<1>5. WorkerOnly(w)
  BY <1>1, <1>4 DEF WorkerOnly
<1>6. \A d : Busy(d)' = Busy(d)
  BY <1>1 DEF Busy
<1>7. InPlace'
  <2>1. cur[w] = NoClient /\ AllIdle(w)
    BY <1>1, <1>2 DEF InPlaceAt
  <2>2. InPlaceAt(w)'
    BY <1>1, <1>4, <1>6, <2>1 DEF InPlaceAt, Running, AllIdle
  <2>3. QED
    BY <1>5, <2>2, AllInPlace DEF RInv
<1>8. InFlight' = InFlight
  <2>1. BusyClients' = BusyClients
    BY <1>6 DEF BusyClients
  <2>2. Granted' = Granted
    <3>1. cur[w] = NoClient
      BY <1>1, <1>2 DEF InPlaceAt
    <3>2. QED
      BY <1>1, <1>4, <3>1 DEF Granted
  <2>3. QED
    BY <2>1, <2>2 DEF InFlight, BusyClients, Granted
<1>9. errors[w] = 0 /\ errors'[w] = 1
  BY <1>1, <1>2 DEF Accounted, TypeOK
<1>10. SumOver(errors') = SumOver(errors) + 1
  <2>1. errors \in [Workers -> Int] /\ errors' \in [Workers -> Int] /\ errors'[w] = errors[w] + 1
    BY <1>2, <1>3, <1>9 DEF TypeOK
  <2>2. QED
    BY <1>4, <2>1, SumAdds
<1>11. BatchErrors' = BatchErrors
  <2>1. [v \in Workers |-> IF pc'[v] = "failed" THEN 0 ELSE errors'[v]]
          = [v \in Workers |-> IF pc[v] = "failed" THEN 0 ELSE errors[v]]
    BY <1>4, <1>9
  <2>2. QED
    BY <2>1 DEF BatchErrors
<1>12. ConnectErrors' = ConnectErrors + 1
  <2> DEFINE gone == {v \in Workers : pc[v] = "failed"}
             goneNext == {v \in Workers : pc'[v] = "failed"}
  <2>1. goneNext = gone \cup {w} /\ w \notin gone /\ gone \subseteq Workers
    BY <1>1, <1>4
  <2>2. ConnectErrors = Cardinality(gone) /\ ConnectErrors' = Cardinality(goneNext)
    BY DEF ConnectErrors
  <2> HIDE DEF gone, goneNext
  <2>3. IsFiniteSet(gone)
    BY <2>1, WorkerAssumption, FS_Subset
  <2>4. QED
    BY <2>1, <2>2, <2>3, FS_AddElement
<1>13. Accounted'
  <2>1. SumOver(errors') = BatchErrors' + ConnectErrors'
    BY <1>2, <1>10, <1>11, <1>12, NumbersTyped DEF Accounted
  <2>2. \A v \in Workers : pc'[v] = "create" => errors'[v] = 0
    BY <1>2, <1>4 DEF Accounted
  <2>3. QED
    BY <1>1, <1>2, <1>8, <1>11, <2>1, <2>2 DEF Accounted
<1>14. main = "joining"
  BY <1>1, <1>2 DEF Ended
<1>15. Ended'
  <2>1. \A v \in Workers : AllIdle(v)' = AllIdle(v)
    BY <1>6 DEF AllIdle
  <2>2. tickets # <<>> => \E v \in Workers : pc'[v] \notin {"create", "failed"}
    BY <1>1, <1>2, <1>4 DEF Ended
  <2>3. countMode => \A v \in Workers :
           pc'[v] = "done" => AllIdle(v)' /\ Len(tickets) * Batch >= Total
    BY <1>2, <1>4, <2>1 DEF Ended
  <2>4. QED
    BY <1>1, <1>2, <1>14, <2>2, <2>3 DEF Ended
<1>16. UNCHANGED Load!loadVars
  BY <1>1, <1>8, <1>11, <1>14 DEF Load!loadVars
<1>17. QED
  BY <1>3, <1>7, <1>13, <1>15, <1>16 DEF RInv

LEMMA WorkerKeepsRInv ==
    ASSUME RInv, QInv, QInv', NEW w \in Workers, WorkerStep(w), UNCHANGED <<main, merged>>
    PROVE  RInv' /\ [Load!Next]_Load!loadVars
<1>1. CASE Create(w) \/ CreateFails(w) \/ TakeReady(w) \/ QueueEmpty(w)
  BY <1>1, CreateStep, CreateFailsStep, TakeReadyStep, QueueEmptyStep
<1>2. CASE ClaimForReuse(w) \/ StartRequest(w) \/ NoMoreWork(w) \/ LoopTop(w)
  BY <1>2, ClaimForReuseStep, StartRequestStep, NoMoreWorkStep, LoopTopStep
<1>3. CASE ScanEnds(w) \/ VisitNothing(w) \/ VisitWriting(w)
  BY <1>3, ScanStep, VisitWritingStep
<1>4. CASE Claiming(w)
  BY <1>4, ClaimingStep DEF Load!Next
<1>5. CASE VisitAnswered(w)
  BY <1>5, VisitAnsweredStep DEF Load!Next
<1>6. CASE VisitFailed(w)
  BY <1>6, VisitFailedStep DEF Load!Next
<1>7. QED
  BY <1>1, <1>2, <1>3, <1>4, <1>5, <1>6 DEF WorkerStep

-----------------------------------------------------------------------------
(* The sockets, the clock and the orchestrator.                              *)

(* Nothing that the invariant is about changes.                              *)
Apart == UNCHANGED <<countMode, claim, tickets, finished, processed, errors, shutdown,
                     pc, cur, ready, state>>

LEMMA ApartKeeps ==
    ASSUME Apart
    PROVE  /\ InPlace => InPlace'
           /\ Accounted => Accounted'
           /\ UNCHANGED <<InFlight, BatchErrors, ConnectErrors, SumOver(processed), SumOver(errors)>>
           /\ \A w \in Workers : AllIdle(w)' = AllIdle(w)
<1>1. \A d : Busy(d)' = Busy(d)
  BY DEF Apart, Busy
<1>2. \A w \in Workers : InPlaceAt(w) => InPlaceAt(w)'
  BY <1>1 DEF Apart, InPlaceAt, Running, IdleAreReady, AllIdle
<1>3. UNCHANGED <<InFlight, BatchErrors, ConnectErrors, SumOver(processed), SumOver(errors)>>
  BY <1>1 DEF Apart, InFlight, BatchErrors, ConnectErrors
<1>4. Accounted => Accounted'
  BY <1>3 DEF Apart, Accounted
<1>5. QED
  BY <1>1, <1>2, <1>3, <1>4 DEF InPlace, AllIdle

LEMMA ApartStep ==
    ASSUME RInv, TypeOK', Apart, UNCHANGED <<main, merged>>
    PROVE  RInv' /\ UNCHANGED Load!loadVars
<1>1. Ended'
  BY ApartKeeps DEF RInv, Ended, Apart
<1>2. UNCHANGED Load!loadVars
  BY ApartKeeps DEF Apart, Load!loadVars
<1>3. QED
  BY <1>1, <1>2, ApartKeeps DEF RInv

LEMMA EnvironmentStep ==
    ASSUME RInv, QInv', Environment, UNCHANGED <<main, merged>>
    PROVE  RInv' /\ UNCHANGED Load!loadVars
<1>1. TypeOK
  BY DEF RInv
<1>2. CASE Tick
  <2>1. Apart /\ UNCHANGED <<at, wire>>
    BY <1>2 DEF Tick, Quota!Expire, Apart, clientVars, tallyVars
  <2>2. TypeOK'
    BY <1>1, <2>1, QuotaTypedNext DEF TypeOK, Apart
  <2>3. QED
    BY <2>1, <2>2, ApartStep
<1>3. CASE \E c \in Clients : Unblock(c) \/ Answer(c) \/ Garble(c) \/ Close(c)
  <2>1. PICK c \in Clients : Unblock(c) \/ Answer(c) \/ Garble(c) \/ Close(c)
    BY <1>3
  <2>2. /\ Apart /\ UNCHANGED at
        /\ \E to \in {"clear", "answered", "garbled", "closed"} : wire' = [wire EXCEPT ![c] = to]
    BY <2>1 DEF Unblock, Answer, Garble, Close, Wire, Apart, counterVars, tallyVars
  <2>3. TypeOK'
    BY <1>1, <2>2, QuotaTypedNext DEF TypeOK, Apart
  <2>4. QED
    BY <2>2, <2>3, ApartStep
<1>4. QED
  BY <1>2, <1>3 DEF Environment

LEMMA JoinStep ==
    ASSUME RInv, QInv', Join
    PROVE  RInv' /\ UNCHANGED Load!loadVars
<1>1. /\ main = "joining" /\ main' = "joined" /\ \A w \in Workers : pc[w] \in {"done", "failed"}
      /\ Apart /\ UNCHANGED <<at, wire, merged>>
  BY DEF Join, Apart, workerVars, counterVars, clientVars, tallyVars
<1>2. TypeOK'
  BY <1>1, QuotaTypedNext DEF RInv, TypeOK, Apart
<1>3. Ended'
  BY <1>1, ApartKeeps DEF RInv, Ended, Apart
<1>4. UNCHANGED Load!loadVars
  BY <1>1, ApartKeeps DEF Apart, Load!loadVars
<1>5. QED
  BY <1>1, <1>2, <1>3, <1>4, ApartKeeps DEF RInv

(* When all workers have left a run for a count, nothing is under way, and   *)
(* either the count was reached or no worker could connect.                  *)
LEMMA NothingLeft ==
    ASSUME RInv, countMode, \A w \in Workers : pc[w] \in {"done", "failed"}
    PROVE  InFlight = 0 /\ (Load!Sent >= Total \/ Load!Sent = 0)
<1>1. TypeOK /\ InPlace /\ Accounted /\ Ended
  BY DEF RInv
<1>2. \A w \in Workers : AllIdle(w)
  BY <1>1 DEF InPlace, InPlaceAt, Ended
<1>3. BusyClients = {}
  BY <1>2 DEF BusyClients, AllIdle, Clients
<1>4. Granted = {}
  BY <1>1 DEF Granted, InPlace, InPlaceAt
<1>5. InFlight = 0
  BY <1>3, <1>4, FS_EmptySet DEF InFlight, BusyClients, Granted
<1>6. Load!Sent = Len(tickets) * Batch
  BY <1>1 DEF Load!Sent, Accounted
<1>7. CASE tickets = <<>>
  BY <1>5, <1>6, <1>7, WorkerAssumption
<1>8. CASE tickets # <<>>
  <2>1. PICK w \in Workers : pc[w] \notin {"create", "failed"}
    BY <1>1, <1>8 DEF Ended
  <2>2. pc[w] = "done"
    BY <2>1
  <2>3. QED
    BY <1>1, <1>5, <1>6, <2>2 DEF Ended
<1>9. QED
  BY <1>5, <1>7, <1>8

LEMMA MergeStep ==
    ASSUME RInv, QInv', Merge \/ MergeParallel
    PROVE  RInv' /\ Load!Report
<1>1. /\ main = "joined" /\ main' = "merged" /\ merged' = <<SumOver(processed), SumOver(errors)>>
      /\ UNCHANGED <<countMode, claim, tickets, finished, processed, errors, pc, cur, ready, state,
                     at, wire>>
      /\ shutdown' \in {TRUE, shutdown}
  BY DEF Merge, MergeParallel, workerVars, counterVars, clientVars, tallyVars
<1>2. TypeOK /\ InPlace /\ Accounted /\ Ended /\ shutdown \in BOOLEAN
  BY DEF RInv, TypeOK
<1>3. TypeOK'
  BY <1>1, <1>2, QuotaTypedNext DEF TypeOK
<1>4. \A d : Busy(d)' = Busy(d)
  BY <1>1 DEF Busy
<1>5. UNCHANGED <<InFlight, BatchErrors, ConnectErrors, SumOver(processed), SumOver(errors)>>
  BY <1>1, <1>4 DEF InFlight, BatchErrors, ConnectErrors
<1>6. InPlace' /\ Accounted'
  <2>1. InPlace'
    BY <1>1, <1>2, <1>4 DEF InPlace, InPlaceAt, Running, IdleAreReady, AllIdle
  <2>2. Accounted'
    BY <1>1, <1>2, <1>5 DEF Accounted
  <2>3. QED
    BY <2>1, <2>2
<1>7. Ended'
  <2>1. \A w \in Workers : AllIdle(w)' = AllIdle(w)
    BY <1>4 DEF AllIdle
  <2>2. merged' = <<SumOver(processed'), SumOver(errors')>>
    BY <1>1
  <2>3. QED
    BY <1>1, <1>2, <2>1, <2>2 DEF Ended
<1>8. \A w \in Workers : pc[w] \in {"done", "failed"}
  BY <1>1, <1>2 DEF Ended
<1>9. countMode => InFlight = 0 /\ (Load!Sent >= Total \/ Load!Sent = 0)
  BY <1>8, NothingLeft
<1>10. merged'[1] = finished /\ merged'[2] - ConnectErrors = BatchErrors
  BY <1>1, <1>2, NumbersTyped DEF Accounted
<1>11. Load!Report
  BY <1>1, <1>5, <1>9, <1>10 DEF Load!Report
<1>12. QED
  BY <1>3, <1>6, <1>7, <1>11 DEF RInv

-----------------------------------------------------------------------------
(* The run.                                                                  *)

LEMMA InitRInv ==
    ASSUME Init
    PROVE  RInv /\ Load!Init
<1>1. /\ Quota!Init /\ finished = 0 /\ shutdown = FALSE /\ main = "joining" /\ merged = <<>>
      /\ pc = [w \in Workers |-> "create"] /\ at = [w \in Workers |-> 1]
      /\ cur = [w \in Workers |-> NoClient] /\ ready = [w \in Workers |-> <<>>]
      /\ state = [c \in Clients |-> "Idle"] /\ wire = [c \in Clients |-> "clear"]
      /\ processed = [w \in Workers |-> 0] /\ errors = [w \in Workers |-> 0]
  BY DEF Init, WorkerInit
<1>2. TypeOK
  <2>1. Quota!TypeOK
    <3>1. countMode \in BOOLEAN /\ expired \in BOOLEAN
      BY <1>1, Zenon DEF Quota!Init
    <3>2. /\ issued \in Nat /\ tickets \in Seq(Nat) /\ onTime \in Nat
          /\ claim \in [Workers -> Quota!ClaimStates]
      BY <1>1 DEF Quota!Init, Quota!ClaimStates, Quota!Returned
    <3>3. QED
      BY <3>1, <3>2 DEF Quota!TypeOK
  <2>2. \A w \in Workers : ready[w] \in Seq(ToSet(ClientsOf[w]))
    BY <1>1
  <2>3. QED
    <3>1. shutdown \in BOOLEAN
      BY <1>1, Zenon
    <3>2. DOMAIN ready = Workers
      BY <1>1
    <3>3. /\ finished \in Nat /\ at \in [Workers -> Nat \ {0}]
          /\ pc \in [Workers -> {"create", "initial", "head", "scan", "answered",
                               "reuse", "drain", "done", "failed"}]
          /\ cur \in [Workers -> Clients \cup {NoClient}]
          /\ state \in [Clients -> {"Idle", "Writing", "Reading"}]
          /\ wire \in [Clients -> {"clear", "blocked", "answered", "garbled", "closed"}]
          /\ processed \in [Workers -> Nat] /\ errors \in [Workers -> Nat]
      BY <1>1
    <3>4. QED
      BY <2>1, <2>2, <3>1, <3>2, <3>3 DEF TypeOK
<1>3. InPlace
  <2>1. ASSUME NEW w \in Workers PROVE AllIdle(w)
    BY <1>1, OwnClients DEF AllIdle, Busy
  <2>2. QED
    BY <1>1, <2>1 DEF InPlace, InPlaceAt, Running
<1>4. SumOver(processed) = 0 /\ SumOver(errors) = 0 /\ BatchErrors = 0
  <2> DEFINE f == [w \in Workers |-> IF pc[w] = "failed" THEN 0 ELSE errors[w]]
  <2>1. f \in [Workers -> Int] /\ \A w \in Workers : f[w] = 0
    BY <1>1
  <2>2. BatchErrors = SumOver(f)
    BY DEF BatchErrors
  <2>3. /\ processed \in [Workers -> Int] /\ \A w \in Workers : processed[w] = 0
        /\ errors \in [Workers -> Int] /\ \A w \in Workers : errors[w] = 0
    BY <1>1
  <2> HIDE DEF f
  <2>4. QED
    BY <2>1, <2>2, <2>3, SumOfZeros
<1>5. InFlight = 0 /\ ConnectErrors = 0
  <2>1. BusyClients = {} /\ Granted = {} /\ {w \in Workers : pc[w] = "failed"} = {}
    BY <1>1 DEF BusyClients, Busy, Granted
  <2>2. QED
    BY <2>1, FS_EmptySet DEF InFlight, ConnectErrors, BusyClients, Granted
<1>6. tickets = <<>> /\ countMode \in BOOLEAN
  BY <1>1 DEF Quota!Init
<1>7. Accounted
  BY <1>1, <1>4, <1>5, <1>6, WorkerAssumption DEF Accounted
<1>8. Ended
  BY <1>1, <1>6 DEF Ended
<1>9. QED
  BY <1>1, <1>2, <1>3, <1>4, <1>5, <1>6, <1>7, <1>8 DEF RInv, Load!Init

LEMMA NextKeepsRInv ==
    ASSUME RInv, QInv, QInv', [Next]_runVars
    PROVE  RInv' /\ [Load!Next]_Load!loadVars
<1>1. CASE UNCHANGED runVars \/ ReporterEnds
  <2>1. Apart /\ UNCHANGED <<at, wire, main, merged>>
    BY <1>1 DEF ReporterEnds, Apart, runVars, workerVars, counterVars, clientVars, tallyVars
  <2>2. TypeOK'
    BY <2>1, QuotaTypedNext DEF RInv, TypeOK, Apart
  <2>3. QED
    BY <2>1, <2>2, ApartStep
<1>2. CASE Environment /\ UNCHANGED <<main, merged>>
  BY <1>2, EnvironmentStep
<1>3. CASE (\E w \in Workers : WorkerStep(w)) /\ UNCHANGED <<main, merged>>
  BY <1>3, WorkerKeepsRInv
<1>4. CASE Join
  BY <1>4, JoinStep
<1>5. CASE Merge \/ MergeParallel
  BY <1>5, MergeStep DEF Load!Next
<1>6. QED
  BY <1>1, <1>2, <1>3, <1>4, <1>5 DEF Next

LEMMA RunInvariant == Spec => []RInv
<1>1. Init => RInv
  BY InitRInv
<1>2. RInv /\ QInv /\ QInv' /\ [Next]_runVars => RInv'
  BY NextKeepsRInv
<1>3. Spec => []QInv
  BY QuotaInvariant DEF QInv
<1>4. QED
  BY <1>1, <1>2, <1>3, PTL DEF Spec

(* The counters, queues and sockets keep their types.                        *)
THEOREM TypeCorrect == Spec => []TypeOK
<1>1. RInv => TypeOK
  BY DEF RInv
<1>2. QED
  BY <1>1, RunInvariant, PTL

(* A connection is in a queue, in hand or under way, never in two of these   *)
(* places, and no batch is written over one that is outstanding.             *)
THEOREM ClientsInPlace == Spec => []ClientsKeepTheirPlace
<1>1. RInv => ClientsKeepTheirPlace
  BY DEF RInv, InPlace, InPlaceAt, ClientsKeepTheirPlace, NothingOverwritten
<1>2. QED
  BY <1>1, RunInvariant, PTL

(* The threads, their queues and the counters do together what LoadRun says: *)
(* each granted batch is answered or fails once, none is sent when the quota *)
(* is reached, and what is reported is what came back.                       *)
THEOREM RunIsLoadRun == Spec => ImplementsLoadRun
<1>1. Init => Load!Init
  BY InitRInv
<1>2. RInv /\ QInv /\ QInv' /\ [Next]_runVars => [Load!Next]_Load!loadVars
  BY NextKeepsRInv
<1>3. Spec => []QInv
  BY QuotaInvariant DEF QInv
<1>4. QED
  BY <1>1, <1>2, <1>3, RunInvariant, PTL DEF Spec, ImplementsLoadRun, Load!Spec

=============================================================================
