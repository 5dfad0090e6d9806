------------------------- MODULE KeyspaceRunsProofs -------------------------
(***************************************************************************)
(* Theorems about KeyspaceRuns, for any keyspace, strategies, connections  *)
(* and numbers of requests.                                                *)
(***************************************************************************)
EXTENDS KeyspaceRuns, FiniteSetTheorems, WellFoundedInduction, TLAPS

Sending == {c \in Clients : client[c] = "sent"}
Waiting == {c \in Clients : client[c] = "claimed"}

KeyspaceTypes ==
    /\ setup \in Setups /\ run \in {"set", Second, "end"}
    /\ sold \in Nat /\ counter \in Nat
    /\ migrated \in Nat /\ missed \in Nat /\ moved \in Nat
    /\ client \in [Clients -> {"idle", "claimed", "sent"}]
    /\ DOMAIN buffer = Clients

(* A number is taken for each claim; no claim is made when all is sold.      *)
Counting ==
    /\ sold = counter + Cardinality(Waiting)
    /\ run # "end" /\ sold > 0 => (sold - 1) * Batch < Requests
    /\ run = "end" => \A c \in Clients : client[c] = "idle"

KInv == KeyspaceTypes /\ Counting

-----------------------------------------------------------------------------

LEMMA OfSetup ==
    ASSUME setup \in Setups
    PROVE  /\ Batch \in Nat \ {0} /\ SetRequests \in Nat /\ GetRequests \in Nat /\ Migrations \in Nat
           /\ Second \in {"get", "mix"} /\ Requests \in Nat
BY KeyspaceAssumption DEF Batch, SetRequests, GetRequests, Migrations, Second, Requests

LEMMA Unscaled ==
    ASSUME NEW a \in Nat, NEW b \in Nat, NEW m \in Nat \ {0}, a * m <= b * m
    PROVE  a <= b
<1>1. CASE b < a
  <2>1. (a - b - 1) * m >= 0
    <3>1. a - b - 1 \in Nat
      BY <1>1
    <3>2. QED
      BY <3>1
  <2>2. (a - b - 1) * m = a * m - b * m - m
    OBVIOUS
  <2>3. a * m \in Nat /\ b * m \in Nat
    OBVIOUS
  <2>4. QED
    BY <2>1, <2>2, <2>3
<1>2. QED
  BY <1>1

LEMMA OfFinite ==
    /\ IsFiniteSet(Sending) /\ IsFiniteSet(Waiting)
    /\ Cardinality(Waiting) \in Nat
<1>1. Sending \in SUBSET Clients /\ Waiting \in SUBSET Clients /\ IsFiniteSet(Clients)
  BY KeyspaceAssumption DEF Sending, Waiting
<1>2. IsFiniteSet(Sending) /\ IsFiniteSet(Waiting)
  BY <1>1, FS_Subset
<1>3. QED
  BY <1>2, FS_CardinalityType

(* What the actions do to who is waiting and sending.                        *)
LEMMA ClaimMoves ==
    ASSUME KInv, NEW c \in Clients, Claim(c)
    PROVE  /\ Waiting' = Waiting \cup {c} /\ c \notin Waiting /\ Sending' = Sending
           /\ Cardinality(Waiting') = Cardinality(Waiting) + 1
           /\ client' \in [Clients -> {"idle", "claimed", "sent"}]
<1>1. Waiting' = Waiting \cup {c} /\ c \notin Waiting /\ Sending' = Sending
  BY DEF KInv, KeyspaceTypes, Claim, Waiting, Sending
<1>2. Cardinality(Waiting \cup {c}) = Cardinality(Waiting) + 1
  BY <1>1, OfFinite, FS_AddElement
<1>3. QED
  BY <1>1, <1>2 DEF KInv, KeyspaceTypes, Claim

LEMMA TakeMoves ==
    ASSUME KInv, NEW c \in Clients, TakeKey(c)
    PROVE  /\ Waiting' = Waiting \ {c} /\ c \in Waiting
           /\ Sending' = Sending \cup {c} /\ c \notin Sending
           /\ Cardinality(Waiting) = Cardinality(Waiting') + 1
           /\ client' \in [Clients -> {"idle", "claimed", "sent"}]
           /\ counter < sold
<1>1. /\ Waiting' = Waiting \ {c} /\ c \in Waiting
      /\ Sending' = Sending \cup {c} /\ c \notin Sending
  BY DEF KInv, KeyspaceTypes, TakeKey, Waiting, Sending
<1>2. Cardinality(Waiting \ {c}) = Cardinality(Waiting) - 1
  BY <1>1, OfFinite, FS_RemoveElement
<1>3. Cardinality(Waiting) \in Nat /\ Cardinality(Waiting') \in Nat
  <2>1. IsFiniteSet(Waiting')
    BY <1>1, OfFinite, FS_RemoveElement
  <2>2. QED
    BY <2>1, OfFinite, FS_CardinalityType
<1>4. Cardinality(Waiting) = Cardinality(Waiting') + 1
  BY <1>1, <1>2, <1>3
<1>5. counter < sold
  BY <1>3, <1>4 DEF KInv, Counting, KeyspaceTypes
<1>6. QED
  BY <1>1, <1>4, <1>5 DEF KInv, KeyspaceTypes, TakeKey

LEMMA AnswerMoves ==
    ASSUME KInv, NEW c \in Clients, Execute(c) \/ Moved(c)
    PROVE  /\ Waiting' = Waiting
           /\ Sending' = Sending \ {c} /\ c \in Sending
           /\ client' \in [Clients -> {"idle", "claimed", "sent"}]
           /\ run # "end"
<1>1. client[c] = "sent" /\ client' = [client EXCEPT ![c] = "idle"]
  BY DEF Execute, Moved
<1>2. client \in [Clients -> {"idle", "claimed", "sent"}]
  BY DEF KInv, KeyspaceTypes
<1>3. run # "end"
  BY <1>1 DEF KInv, Counting
<1>4. QED
  BY <1>1, <1>2, <1>3 DEF Waiting, Sending

LEMMA EndMoves ==
    ASSUME KInv, EndRun
    PROVE  /\ Waiting = {} /\ Sending = {} /\ Waiting' = {} /\ Sending' = {}
           /\ counter = sold /\ counter' = 0 /\ Requests <= counter * Batch
           /\ run' \in {Second, "end"} /\ (run = "set" <=> run' # "end")
<1>1. /\ Waiting = {} /\ Sending = {} /\ Waiting' = {} /\ Sending' = {}
  BY DEF EndRun, Waiting, Sending
<1>2. Cardinality(Waiting) = 0
  BY <1>1, FS_EmptySet
<1>3. counter = sold
  BY <1>2 DEF KInv, Counting, KeyspaceTypes
<1>4. Requests <= counter * Batch
  <2>1. sold * Batch >= Requests /\ Batch \in Nat /\ Requests \in Nat /\ sold \in Nat
    BY OfSetup DEF EndRun, KInv, KeyspaceTypes
  <2>2. sold * Batch \in Nat
    BY <2>1
  <2>3. QED
    BY <1>3, <2>1, <2>2
<1>5. Second # "end"
  BY OfSetup DEF KInv, KeyspaceTypes
<1>6. QED
  BY <1>1, <1>3, <1>4, <1>5 DEF EndRun

-----------------------------------------------------------------------------

LEMMA InitKInv == Init => KInv
<1> SUFFICES ASSUME Init PROVE KInv
  OBVIOUS
<1>1. Waiting = {}
  BY DEF Init, Waiting
<1>2. Cardinality(Waiting) = 0
  BY <1>1, FS_EmptySet
<1>3. QED
  BY <1>2 DEF Init, KInv, KeyspaceTypes, Counting

LEMMA NextKInv ==
    ASSUME KInv, [Next]_keyspaceVars
    PROVE  KInv'
<1>1. /\ setup \in Setups /\ sold \in Nat /\ counter \in Nat /\ migrated \in Nat
      /\ missed \in Nat /\ moved \in Nat /\ DOMAIN buffer = Clients /\ run \in {"set", Second, "end"}
      /\ client \in [Clients -> {"idle", "claimed", "sent"}]
      /\ Cardinality(Waiting) \in Nat
      /\ sold = counter + Cardinality(Waiting)
  BY OfFinite DEF KInv, KeyspaceTypes, Counting
<1>2. Batch \in Nat \ {0} /\ Requests \in Nat
  BY <1>1, OfSetup
<1>3. ASSUME UNCHANGED setup, NEW c \in Clients, Claim(c) PROVE KInv'
  <2>1. client' \in [Clients -> {"idle", "claimed", "sent"}] /\ Cardinality(Waiting') = Cardinality(Waiting) + 1
    BY <1>3, ClaimMoves
  <2>2. /\ run # "end" /\ sold * Batch < Requests /\ sold' = sold + 1
        /\ UNCHANGED <<run, counter, buffer, migrated, missed, moved, setup>>
    BY <1>3 DEF Claim
  <2>3. KeyspaceTypes'
    BY <1>1, <2>1, <2>2 DEF KeyspaceTypes, Second
  <2>4. sold' = counter' + Cardinality(Waiting')
    BY <1>1, <2>1, <2>2
  <2>5. (sold' - 1) * Batch' < Requests'
    <3>1. sold' - 1 = sold /\ Batch' = Batch /\ Requests' = Requests
      BY <1>1, <2>2 DEF Batch, Requests, SetRequests, GetRequests
    <3>2. QED
      BY <2>2, <3>1
  <2>6. QED
    BY <2>2, <2>3, <2>4, <2>5 DEF KInv, Counting
<1>4. ASSUME UNCHANGED setup, NEW c \in Clients, TakeKey(c) PROVE KInv'
  <2>1. /\ client' \in [Clients -> {"idle", "claimed", "sent"}]
        /\ Cardinality(Waiting) = Cardinality(Waiting') + 1 /\ c \in Waiting
    BY <1>4, TakeMoves
  <2>2. /\ counter' = counter + 1 /\ DOMAIN buffer' = Clients
        /\ UNCHANGED <<run, sold, migrated, missed, moved, setup>>
    BY <1>1, <1>4 DEF TakeKey
  <2>3. KeyspaceTypes'
    BY <1>1, <2>1, <2>2 DEF KeyspaceTypes, Second
  <2>4. sold' = counter' + Cardinality(Waiting')
    <3>1. IsFiniteSet(Waiting')
      BY <1>4, TakeMoves, OfFinite, FS_RemoveElement
    <3>2. Cardinality(Waiting') \in Nat
      BY <3>1, FS_CardinalityType
    <3>3. QED
      BY <1>1, <2>1, <2>2, <3>2
  <2>5. run # "end"
    BY <2>1 DEF KInv, Counting, Waiting
  <2>6. Batch' = Batch /\ Requests' = Requests
    BY <2>2 DEF Batch, Requests, SetRequests, GetRequests
  <2>7. QED
    BY <2>2, <2>3, <2>4, <2>5, <2>6 DEF KInv, Counting
<1>5. ASSUME UNCHANGED setup, NEW c \in Clients, Execute(c) \/ Moved(c) PROVE KInv'
  <2>1. Waiting' = Waiting /\ client' \in [Clients -> {"idle", "claimed", "sent"}] /\ run # "end"
    BY <1>5, AnswerMoves
  <2>2. /\ missed' \in Nat /\ moved' \in Nat
        /\ UNCHANGED <<run, sold, counter, buffer, migrated, setup>>
    BY <1>1, <1>5 DEF Execute, Moved
  <2>3. KeyspaceTypes'
    BY <1>1, <2>1, <2>2 DEF KeyspaceTypes, Second
  <2>4. Batch' = Batch /\ Requests' = Requests
    BY <2>2 DEF Batch, Requests, SetRequests, GetRequests
  <2>5. QED
    BY <1>1, <2>1, <2>2, <2>3, <2>4 DEF KInv, Counting
<1>6. ASSUME UNCHANGED setup, EndRun PROVE KInv'
  <2>1. /\ Waiting' = {} /\ counter' = 0 /\ run' \in {Second, "end"}
    BY <1>6, EndMoves
  <2>2. Cardinality(Waiting') = 0
    BY <2>1, FS_EmptySet
  <2>3. /\ sold' = 0 /\ \A c \in Clients : client'[c] = "idle"
        /\ UNCHANGED <<client, buffer, migrated, missed, moved, setup>>
    BY <1>6 DEF EndRun
  <2>4. KeyspaceTypes'
    BY <1>1, <2>1, <2>3 DEF KeyspaceTypes, Second
  <2>5. QED
    BY <2>1, <2>2, <2>3, <2>4 DEF KInv, Counting
<1>7. ASSUME UNCHANGED setup, Migrate PROVE KInv'
  <2>1. migrated' \in Nat /\ UNCHANGED <<run, sold, counter, client, buffer, missed, moved, setup>>
    BY <1>1, <1>7 DEF Migrate
  <2>2. KeyspaceTypes' /\ Waiting' = Waiting /\ Batch' = Batch /\ Requests' = Requests
    BY <1>1, <2>1 DEF KeyspaceTypes, Second, Waiting, Batch, Requests, SetRequests, GetRequests
  <2>3. QED
    BY <1>1, <2>1, <2>2 DEF KInv, Counting
<1>8. CASE UNCHANGED keyspaceVars
  <2>1. UNCHANGED <<run, sold, counter, client, buffer, migrated, missed, moved, setup>>
    BY <1>8 DEF keyspaceVars
  <2>2. KeyspaceTypes' /\ Waiting' = Waiting /\ Batch' = Batch /\ Requests' = Requests
    BY <1>1, <2>1 DEF KeyspaceTypes, Second, Waiting, Batch, Requests, SetRequests, GetRequests
  <2>3. QED
    BY <1>1, <2>1, <2>2 DEF KInv, Counting
<1>9. QED
  BY <1>3, <1>4, <1>5, <1>6, <1>7, <1>8 DEF Next

-----------------------------------------------------------------------------
(* Where the keys are sent.                                                  *)

(* A candidate is found if there is one, and the first one is a tag.         *)
LEMMA FirstOf ==
    ASSUME NEW S \in SUBSET (1 .. Attempts), S # {}
    PROVE  (CHOOSE i \in S : \A j \in S : i <= j) \in S
<1>1. IsWellFoundedOn({p \in Nat \X Nat : p[1] < p[2]}, Nat)
  BY NatLessThanWellFounded, Zenon DEF OpToRel
<1>2. S \subseteq Nat
  BY KeyspaceAssumption
<1>3. PICK m \in S : \A n \in S : <<n, m>> \notin {p \in Nat \X Nat : p[1] < p[2]}
  BY <1>1, <1>2, WFMin
<1>4. ASSUME NEW n \in S PROVE m <= n
  <2>1. n \in Nat /\ m \in Nat /\ <<n, m>> \notin {p \in Nat \X Nat : p[1] < p[2]}
    BY <1>2, <1>3
  <2>2. ~(n < m)
    BY <2>1
  <2>3. QED
    BY <2>1, <2>2
<1>5. QED
  BY <1>4

LEMMA TagIsOwned ==
    ASSUME NEW c \in Clients, NEW key, NEW i \in 1 .. Attempts, Owns(c, SlotOf[Candidate(key, i)])
    PROVE  Owns(c, SlotOf[TagFor(c, key)])
<1> DEFINE owned == {j \in 1 .. Attempts : Owns(c, SlotOf[Candidate(key, j)])}
           first == CHOOSE j \in owned : \A k \in owned : j <= k
<1>1. owned \in SUBSET (1 .. Attempts) /\ owned # {}
  OBVIOUS
<1>2. first \in owned
  BY <1>1, FirstOf
<1>3. TagFor(c, key) = Candidate(key, first)
  BY <1>1 DEF TagFor
<1>4. Owns(c, SlotOf[Candidate(key, first)])
  BY <1>2
<1> HIDE DEF first
<1>5. QED
  BY <1>3, <1>4

LEMMA TagIsTag ==
    ASSUME NEW c \in Clients, NEW key \in 0 .. Keyspace - 1
    PROVE  TagFor(c, key) \in Tags
<1> DEFINE owned == {i \in 1 .. Attempts : Owns(c, SlotOf[Candidate(key, i)])}
           first == CHOOSE i \in owned : \A j \in owned : i <= j
<1>1. CASE owned = {}
  BY <1>1, KeyspaceAssumption DEF TagFor
<1>2. CASE owned # {}
  <2>1. owned \in SUBSET (1 .. Attempts)
    OBVIOUS
  <2>2. first \in owned
    BY <1>2, <2>1, FirstOf
  <2>3. TagFor(c, key) = Candidate(key, first)
    BY <1>2 DEF TagFor
  <2>4. first \in 1 .. Attempts
    BY <2>1, <2>2
  <2> HIDE DEF first
  <2>5. Candidate(key, first) \in Tags
    BY <2>4, KeyspaceAssumption
  <2>6. QED
    BY <2>3, <2>5
<1>3. QED
  BY <1>1, <1>2

(* A command under way has a tag whose slot its connection believes to own,  *)
(* if any candidate of its key has one.                                      *)
Tagged ==
    \A c \in Sending, i \in 1 .. Attempts :
        Owns(c, SlotOf[Candidate(buffer[c][3], i)]) => Owns(c, SlotOf[buffer[c][2]])

PlacedInv == KInv /\ Tagged

LEMMA NextPlaced ==
    ASSUME PlacedInv, [Next]_keyspaceVars
    PROVE  PlacedInv'
<1>1. KInv'
  BY NextKInv DEF PlacedInv
<1>2. KInv /\ DOMAIN buffer = Clients /\ Sending \subseteq Clients
  BY DEF PlacedInv, KInv, KeyspaceTypes, Sending
<1>3. ASSUME UNCHANGED <<setup, known, buffer>>, Sending' \subseteq Sending PROVE Tagged'
  <2>1. \A c, slot : Owns(c, slot)' = Owns(c, slot)
    BY <1>3 DEF Owns, NodeOf
  <2>2. QED
    BY <1>3, <2>1 DEF PlacedInv, Tagged
<1>4. ASSUME UNCHANGED setup, NEW c \in Clients, TakeKey(c) PROVE Tagged'
  <2>1. Sending' = Sending \cup {c} /\ known' = known
    BY <1>2, <1>4, TakeMoves DEF TakeKey
  <2>2. PICK command \in Templates :
          buffer' = [buffer EXCEPT ![c] =
              <<command, TagFor(c, NextKey(Strategy(c), counter, Keyspace)),
                NextKey(Strategy(c), counter, Keyspace)>>]
    BY <1>4 DEF TakeKey
  <2>3. PICK key : /\ buffer'[c][2] = TagFor(c, key) /\ buffer'[c][3] = key
                   /\ \A d \in Clients \ {c} : buffer'[d] = buffer[d]
    BY <1>2, <2>2
  <2>4. \A d, slot : Owns(d, slot)' = Owns(d, slot)
    BY <1>4, <2>1 DEF Owns, NodeOf
  <2>5. ASSUME NEW i \in 1 .. Attempts, Owns(c, SlotOf[Candidate(key, i)])
        PROVE  Owns(c, SlotOf[TagFor(c, key)])
    BY <2>5, TagIsOwned
  <2>6. ASSUME NEW d \in Sending', NEW i \in 1 .. Attempts,
               Owns(d, SlotOf[Candidate(buffer'[d][3], i)])
        PROVE  Owns(d, SlotOf[buffer'[d][2]])
    <3>1. CASE d = c
      BY <2>3, <2>5, <2>6, <3>1
    <3>2. CASE d # c
      <4>1. d \in Sending /\ buffer'[d] = buffer[d]
        BY <1>2, <2>1, <2>3, <3>2
      <4>2. QED
        BY <2>6, <4>1 DEF PlacedInv, Tagged
    <3>3. QED
      BY <3>1, <3>2
  <2>7. QED
    BY <2>4, <2>6 DEF Tagged
<1>5. ASSUME UNCHANGED setup, NEW c \in Clients, Claim(c) PROVE Tagged'
  BY <1>2, <1>3, <1>5, ClaimMoves DEF Claim
<1>6. ASSUME UNCHANGED setup, NEW c \in Clients, Execute(c) \/ Moved(c) PROVE Tagged'
  <2>1. Sending' = Sending \ {c} /\ UNCHANGED <<buffer, known>>
    BY <1>2, <1>6, AnswerMoves DEF Execute, Moved
  <2>2. QED
    BY <1>3, <1>6, <2>1
<1>7. ASSUME UNCHANGED setup, EndRun PROVE Tagged'
  <2>1. Sending' = {}
    BY <1>2, <1>7, EndMoves
  <2>2. QED
    BY <2>1 DEF Tagged
<1>8. ASSUME UNCHANGED setup, Migrate PROVE Tagged'
  BY <1>3, <1>8 DEF Migrate, Sending
<1>9. ASSUME UNCHANGED keyspaceVars PROVE Tagged'
  BY <1>3, <1>9 DEF keyspaceVars, Sending
<1>10. Tagged'
  BY <1>4, <1>5, <1>6, <1>7, <1>8, <1>9 DEF Next
<1>11. QED
  BY <1>1, <1>10 DEF PlacedInv

(* What counts as processed without having been executed has an excuse: a    *)
(* replica, a slot that moved since it was read, or no candidate that fits.  *)
THEOREM ProcessedIsExecuted == Spec => CountedIsExecuted
<1>1. Init => PlacedInv
  <2> SUFFICES ASSUME Init PROVE PlacedInv
    OBVIOUS
  <2>1. Sending = {}
    BY DEF Init, Sending
  <2>2. QED
    BY <2>1, InitKInv DEF PlacedInv, Tagged
<1>2. PlacedInv /\ [Next]_keyspaceVars => PlacedInv'
  BY NextPlaced
<1>3. ASSUME PlacedInv, [Next]_keyspaceVars
      PROVE  [moved' # moved => \E c \in Clients : client'[c] # client[c] /\ Excused(c)]_keyspaceVars
  <2>1. SUFFICES ASSUME moved' # moved
                 PROVE  \E c \in Clients : client'[c] # client[c] /\ Excused(c)
    OBVIOUS
  <2>2. PICK c \in Clients : Moved(c)
    BY <1>3, <2>1 DEF Next, Claim, TakeKey, Execute, EndRun, Migrate, keyspaceVars
  <2>3. /\ client[c] = "sent" /\ client'[c] = "idle"
        /\ OwnerOf(c) # NodeOf[c] /\ c \in Sending
    BY <1>3, <2>2 DEF Moved, PlacedInv, KInv, KeyspaceTypes, Sending
  <2>4. ASSUME NodeOf[c] \in Primaries, known[SlotOf[buffer[c][2]]] = owner[SlotOf[buffer[c][2]]],
               NEW i \in 1 .. Attempts
        PROVE  ~Owns(c, SlotOf[Candidate(buffer[c][3], i)])
    <3>1. ~Owns(c, SlotOf[buffer[c][2]])
      BY <2>3, <2>4 DEF Owns, OwnerOf
    <3>2. QED
      BY <1>3, <2>3, <3>1 DEF PlacedInv, Tagged
  <2>5. Excused(c)
    BY <2>4 DEF Excused
  <2>6. QED
    BY <2>3, <2>5
<1>4. QED
  BY <1>1, <1>2, <1>3, PTL DEF Spec, CountedIsExecuted

-----------------------------------------------------------------------------
(* What a sequential run of a whole keyspace covers.                         *)

AllSequential == \A c \in Clients : StrategyOf[c].kind = "sequential" /\ StrategyOf[c].within = <<>>

Covered(key) == \E tag \in Tags : <<tag, key>> \in store

(* The key of every number taken is on the server or under way.              *)
TakenAreCovered ==
    moved = 0 /\ AllSequential =>
        /\ run = "set" =>
              \A n \in 0 .. counter - 1 :
                  \/ Covered(n % Keyspace)
                  \/ \E c \in Sending, p \in Tags : buffer[c] = <<"set", p, n % Keyspace>>
        /\ run # "set" /\ SetRequests >= Keyspace * Batch =>
              \A key \in 0 .. Keyspace - 1 : Covered(key)

CoveredInv == KInv /\ TakenAreCovered

LEMMA SequentialKey ==
    ASSUME NEW s, s.kind = "sequential", s.within = <<>>, NEW n \in Nat
    PROVE  NextKey(s, n, Keyspace) = n % Keyspace /\ n % Keyspace \in 0 .. Keyspace - 1
<1>1. Keyspace \in Nat \ {0}
  BY KeyspaceAssumption
<1>2. n % Keyspace \in 0 .. Keyspace - 1
  BY <1>1
<1>3. Used(<<>>) = <<>>
  BY DEF Used
<1>4. SumOfStarts(<<>>) = 0
  <2> DEFINE Sums(f) == f = [i \in 0 .. 0 |-> IF i = 0 THEN 0 ELSE f[i - 1] + Used(<<>>)[i].start]
             none == [i \in 0 .. 0 |-> 0]
             sums == CHOOSE f : Sums(f)
  <2>1. Len(Used(<<>>)) = 0
    BY <1>3
  <2>2. SumOfStarts(<<>>) = sums[0]
    BY <2>1 DEF SumOfStarts
  <2>3. Sums(none)
    <3>1. \A i \in 0 .. 0 : i = 0
      OBVIOUS
    <3>2. [i \in 0 .. 0 |-> IF i = 0 THEN 0 ELSE none[i - 1] + Used(<<>>)[i].start] = none
      BY <3>1
    <3>3. QED
      BY <3>2
  <2>4. Sums(sums)
    BY <2>3, Zenon
  <2>5. sums[0] = 0
    <3>1. 0 \in 0 .. 0
      OBVIOUS
    <3> HIDE DEF sums
    <3>2. QED
      BY <2>4, <3>1
  <2>6. QED
    BY <2>2, <2>5
<1>5. NextKey(s, n, Keyspace) = 0 + (n % Keyspace)
  BY <1>1, <1>4 DEF NextKey, Base
<1>6. QED
  BY <1>1, <1>2, <1>5

LEMMA TailOfThree ==
    ASSUME NEW a, NEW b, NEW d
    PROVE  Tail(<<a, b, d>>) = <<b, d>>
<1>1. <<a, b, d>> \in Seq({a, b, d}) /\ Len(<<a, b, d>>) = 3
  OBVIOUS
<1>2. /\ Tail(<<a, b, d>>) \in Seq({a, b, d}) /\ Len(Tail(<<a, b, d>>)) = 2
      /\ \A i \in 1 .. 2 : Tail(<<a, b, d>>)[i] = <<a, b, d>>[i + 1]
  BY <1>1
<1>3. Tail(<<a, b, d>>)[1] = b /\ Tail(<<a, b, d>>)[2] = d
  BY <1>2
<1>4. QED
  BY <1>2, <1>3

LEMMA InBuffer ==
    ASSUME NEW c, NEW a, NEW tag, NEW key, buffer[c] = <<a, tag, key>>
    PROVE  Command(c) = a /\ Key(c) = <<tag, key>>
<1>1. Command(c) = a
  BY DEF Command
<1>2. Tail(<<a, tag, key>>) = <<tag, key>>
  BY TailOfThree
<1>3. Key(c) = Tail(<<a, tag, key>>)
  BY DEF Key
<1>4. QED
  BY <1>1, <1>2, <1>3, Zenon

LEMMA OwnRest ==
    ASSUME NEW k \in Nat, k < Keyspace
    PROVE  k % Keyspace = k
<1>1. Keyspace \in Nat \ {0}
  BY KeyspaceAssumption
<1>2. QED
  BY <1>1, Z3

(* What is on the server stays there.                                        *)
LEMMA StoreGrows ==
    ASSUME [Next]_keyspaceVars
    PROVE  store \subseteq store' /\ setup' = setup
BY DEF Next, Claim, TakeKey, Execute, Moved, EndRun, Migrate, keyspaceVars

LEMMA CoveredStays ==
    ASSUME store \subseteq store', NEW key, Covered(key)
    PROVE  Covered(key)'
BY DEF Covered

LEMMA NextCovered ==
    ASSUME CoveredInv, [Next]_keyspaceVars
    PROVE  CoveredInv'
<1>1. KInv /\ KInv' /\ store \subseteq store' /\ setup' = setup
  BY NextKInv, StoreGrows DEF CoveredInv
<1>2. /\ DOMAIN buffer = Clients /\ counter \in Nat /\ moved \in Nat /\ moved' \in Nat /\ setup \in Setups
      /\ run \in {"set", Second, "end"} /\ Second \in {"get", "mix"}
  BY <1>1, OfSetup DEF KInv, KeyspaceTypes
<1>3. /\ AllSequential' = AllSequential /\ SetRequests' = SetRequests /\ Batch' = Batch
  BY <1>1 DEF AllSequential, StrategyOf, SetRequests, Batch
<1>4. SUFFICES ASSUME moved' = 0, AllSequential
               PROVE  /\ run' = "set" =>
                            \A n \in 0 .. counter' - 1 :
                                \/ Covered(n % Keyspace)'
                                \/ \E c \in Sending', p \in Tags : buffer'[c] = <<"set", p, n % Keyspace>>
                      /\ run' # "set" /\ SetRequests >= Keyspace * Batch =>
                            \A key \in 0 .. Keyspace - 1 : Covered(key)'
  BY <1>1, <1>3 DEF CoveredInv, TakenAreCovered, Covered
<1>5. moved = 0
  BY <1>2, <1>4 DEF Next, Claim, TakeKey, Execute, Moved, EndRun, Migrate, keyspaceVars
<1>6. /\ run = "set" =>
            \A n \in 0 .. counter - 1 :
                \/ Covered(n % Keyspace)
                \/ \E c \in Sending, p \in Tags : buffer[c] = <<"set", p, n % Keyspace>>
      /\ run # "set" /\ SetRequests >= Keyspace * Batch =>
            \A key \in 0 .. Keyspace - 1 : Covered(key)
  BY <1>4, <1>5 DEF CoveredInv, TakenAreCovered
<1>7. CASE run # "set"
  <2>1. run' # "set"
    BY <1>2, <1>7 DEF Next, Claim, TakeKey, Execute, Moved, EndRun, Migrate, keyspaceVars
  <2>2. QED
    BY <1>1, <1>6, <1>7, <2>1, CoveredStays
<1>8. CASE run = "set"
  <2> DEFINE Under(n) == \E c \in Sending, p \in Tags : buffer[c] = <<"set", p, n % Keyspace>>
             Goal == /\ run' = "set" => \A n \in 0 .. counter' - 1 : Covered(n % Keyspace)' \/ Under(n)'
                     /\ run' # "set" /\ SetRequests >= Keyspace * Batch =>
                           \A key \in 0 .. Keyspace - 1 : Covered(key)'
  <2>1. \A n \in 0 .. counter - 1 : Covered(n % Keyspace) \/ Under(n)
    BY <1>6, <1>8
  <2>2. \A n \in 0 .. counter - 1 : Covered(n % Keyspace) => Covered(n % Keyspace)'
    BY <1>1, CoveredStays
  <2>3. ASSUME UNCHANGED <<run, counter, buffer>>, Sending \subseteq Sending' PROVE Goal
    <3>1. \A n \in 0 .. counter - 1 : Under(n) => Under(n)'
      BY <2>3
    <3>2. QED
      BY <1>8, <2>1, <2>2, <2>3, <3>1
  <2>4. ASSUME NEW c \in Clients, Claim(c) PROVE Goal
    <3>1. Sending' = Sending /\ UNCHANGED <<run, counter, buffer>>
      BY <1>1, <2>4, ClaimMoves DEF Claim
    <3>2. QED
      BY <2>3, <3>1
  <2>5. ASSUME NEW c \in Clients, TakeKey(c) PROVE Goal
    <3> DEFINE key == NextKey(Strategy(c), counter, Keyspace)
    <3>1. Sending' = Sending \cup {c} /\ c \notin Sending /\ counter' = counter + 1 /\ run' = "set"
      BY <1>1, <1>8, <2>5, TakeMoves DEF TakeKey
    <3>2. PICK command \in Templates : buffer' = [buffer EXCEPT ![c] = <<command, TagFor(c, key), key>>]
      BY <2>5 DEF TakeKey
    <3>3. command = "set"
      BY <1>8 DEF Templates
    <3>4. key = counter % Keyspace /\ key \in 0 .. Keyspace - 1
      <4>1. Strategy(c) = StrategyOf[c]
        BY <1>8 DEF Strategy
      <4>2. Strategy(c).kind = "sequential" /\ Strategy(c).within = <<>>
        BY <1>4, <4>1 DEF AllSequential
      <4>3. QED
        BY <1>2, <4>2, SequentialKey
    <3> HIDE DEF key
    <3>6. TagFor(c, key) \in Tags
      BY <3>4, TagIsTag
    <3>7. buffer'[c] = <<"set", TagFor(c, key), counter % Keyspace>> /\ \A d \in Sending : buffer'[d] = buffer[d]
      BY <1>2, <3>1, <3>2, <3>3, <3>4 DEF Sending
    <3>8. ASSUME NEW n \in Nat, n = counter PROVE Under(n)'
      <4>1. \E p \in Tags : buffer'[c] = <<"set", p, n % Keyspace>>
        BY <3>6, <3>7, <3>8
      <4>2. \E d \in Sending', p \in Tags : buffer'[d] = <<"set", p, n % Keyspace>>
        BY <3>1, <4>1
      <4>3. QED
        BY <4>2
    <3>9. \A n \in 0 .. counter - 1 : Under(n) => Under(n)'
      BY <3>1, <3>7
    <3>10. ASSUME NEW n \in 0 .. counter' - 1 PROVE Covered(n % Keyspace)' \/ Under(n)'
      <4>1. n \in 0 .. counter - 1 \/ (n \in Nat /\ n = counter)
        BY <1>2, <3>1
      <4>2. QED
        BY <2>1, <2>2, <3>8, <3>9, <4>1
    <3>11. QED
      BY <3>1, <3>10
  <2>6. ASSUME NEW c \in Clients, Execute(c) PROVE Goal
    <3>1. Sending' = Sending \ {c} /\ c \in Sending /\ UNCHANGED <<run, counter, buffer>>
      BY <1>1, <2>6, AnswerMoves DEF Execute
    <3>2. ASSUME NEW n \in 0 .. counter - 1, Under(n) PROVE Covered(n % Keyspace)' \/ Under(n)'
      <4>1. PICK d \in Sending, p \in Tags : buffer[d] = <<"set", p, n % Keyspace>>
        BY <3>2
      <4>2. CASE d = c
        <5>1. Command(c) = "set" /\ Key(c) = <<p, n % Keyspace>>
          BY <4>1, <4>2, InBuffer
        <5>2. <<p, n % Keyspace>> \in store'
          BY <2>6, <5>1 DEF Execute
        <5>3. QED
          BY <5>2 DEF Covered
      <4>3. CASE d # c
        BY <3>1, <4>1, <4>3
      <4>4. QED
        BY <4>2, <4>3
    <3>3. QED
      BY <1>8, <2>1, <2>2, <3>1, <3>2
  <2>7. ASSUME NEW c \in Clients, Moved(c) PROVE Goal
    BY <1>2, <1>4, <1>5, <2>7 DEF Moved
  <2>8. ASSUME EndRun PROVE Goal
    <3>1. Sending = {} /\ Requests <= counter * Batch /\ run' # "set"
      BY <1>1, <1>2, <2>8, EndMoves
    <3>2. ASSUME SetRequests >= Keyspace * Batch, NEW key \in 0 .. Keyspace - 1 PROVE Covered(key)'
      <4>1. Keyspace * Batch <= counter * Batch
        <5>1. Requests = SetRequests /\ SetRequests \in Nat /\ Batch \in Nat /\ Keyspace \in Nat
          BY <1>2, <1>8, OfSetup, KeyspaceAssumption DEF Requests
        <5>2. Keyspace * Batch \in Nat /\ counter * Batch \in Nat
          BY <1>2, <5>1
        <5>3. QED
          BY <3>1, <3>2, <5>1, <5>2
      <4>2. Keyspace <= counter
        <5>1. Keyspace \in Nat /\ Batch \in Nat \ {0}
          BY <1>2, OfSetup, KeyspaceAssumption
        <5>2. QED
          BY <1>2, <4>1, <5>1, Unscaled
      <4>3. key \in 0 .. counter - 1 /\ key \in Nat /\ key < Keyspace
        BY <1>2, <4>2, KeyspaceAssumption
      <4>4. key % Keyspace = key
        BY <4>3, OwnRest
      <4>5. Covered(key % Keyspace)
        BY <2>1, <3>1, <4>3
      <4>6. QED
        BY <1>1, <4>4, <4>5, CoveredStays
    <3>3. QED
      BY <3>1, <3>2
  <2>9. ASSUME Migrate \/ UNCHANGED keyspaceVars PROVE Goal
    <3>1. UNCHANGED <<run, counter, client, buffer>>
      BY <2>9 DEF Migrate, keyspaceVars
    <3>2. Sending' = Sending
      BY <3>1 DEF Sending
    <3>3. QED
      BY <2>3, <3>1, <3>2
  <2>10. Goal
    BY <2>4, <2>5, <2>6, <2>7, <2>8, <2>9 DEF Next
  <2>11. QED
    BY <2>10
<1>9. QED
  BY <1>7, <1>8

(* A sequential SET run of a whole keyspace leaves no key out, however the    *)
(* threads take the numbers.                                                 *)
THEOREM SequentialCovers == Spec => []SequentialCoversKeyspace
<1>1. Init => CoveredInv
  <2> SUFFICES ASSUME Init PROVE CoveredInv
    OBVIOUS
  <2>1. TakenAreCovered
    BY DEF Init, TakenAreCovered
  <2>2. QED
    BY <2>1, InitKInv DEF CoveredInv
<1>2. CoveredInv /\ [Next]_keyspaceVars => CoveredInv'
  BY NextCovered
<1>3. CoveredInv => SequentialCoversKeyspace
  BY DEF CoveredInv, TakenAreCovered, SequentialCoversKeyspace, AllSequential, Covered
<1>4. QED
  BY <1>1, <1>2, <1>3, PTL DEF Spec

-----------------------------------------------------------------------------
(* What a run of GETs finds.                                                 *)

(* The key of a number, with its tag.                                        *)
Entry(c, n) ==
    LET key == NextKey(StrategyOf[c], n, Keyspace) IN <<TagFor(c, key), key>>

Stored(n) == \A c \in Clients : Entry(c, n) \in store

(* The commands under way are of different numbers.                          *)
Sends(taken) ==
    \A c \in Sending :
        /\ taken[c] \in 0 .. counter - 1 /\ Key(c) = Entry(c, taken[c])
        /\ \A d \in Sending : taken[c] = taken[d] => c = d

(* In the first run every number is lost, stored or under way.               *)
SetRun(taken, lost) ==
    /\ missed = 0 /\ lost \subseteq 0 .. counter - 1
    /\ \A c \in Sending : Command(c) = "set" /\ taken[c] \notin lost
    /\ \A n \in 0 .. counter - 1 : n \in lost \/ Stored(n) \/ \E c \in Sending : taken[c] = n

(* In the second run only lost numbers are missed, each of them once.        *)
SecondRun(taken, lost, gone, total) ==
    /\ SetRequests <= total * Batch
    /\ \A n \in 0 .. total - 1 : n \in lost \/ Stored(n)
    /\ \A c \in Sending : taken[c] \in 0 .. total - 1 /\ taken[c] \notin gone
    /\ gone \subseteq lost /\ gone \subseteq 0 .. counter - 1 /\ Cardinality(gone) = missed

Accounted(lost, taken, gone, total) ==
    /\ IsFiniteSet(lost) /\ Cardinality(lost) <= moved
    /\ Sends(taken)
    /\ run = "set" => SetRun(taken, lost)
    /\ run \in {"get", "mix"} => SecondRun(taken, lost, gone, total)
    /\ run = "end" => missed <= moved

AllAccounted ==
    \E lost \in SUBSET Nat, taken \in [Clients -> Nat], gone \in SUBSET Nat, total \in Nat :
        Accounted(lost, taken, gone, total)

Comparable == Alike /\ GetRequests <= SetRequests

HitInv == KInv /\ (run = "set" => known = setup.ownerOf) /\ (Comparable => AllAccounted)

LEMMA SameEntries ==
    ASSUME UNCHANGED <<setup, known>>
    PROVE  /\ Comparable' = Comparable /\ SetRequests' = SetRequests /\ Batch' = Batch
           /\ \A c, n : Entry(c, n)' = Entry(c, n)
<1>1. /\ SetRequests' = SetRequests /\ Batch' = Batch /\ GetRequests' = GetRequests /\ Alike' = Alike
  BY DEF SetRequests, Batch, GetRequests, Alike, NodeOf, StrategyOf, Second, Plain
<1>2. \A c, n : Entry(c, n)' = Entry(c, n)
  BY DEF Entry, StrategyOf, TagFor, Owns, NodeOf
<1>3. QED
  BY <1>1, <1>2 DEF Comparable

LEMMA AlikeEntries ==
    ASSUME Alike, NEW c \in Clients, NEW d \in Clients, NEW n
    PROVE  Entry(c, n) = Entry(d, n)
<1>1. StrategyOf[c] = StrategyOf[d] /\ NodeOf[c] = NodeOf[d]
  BY DEF Alike
<1>2. \A key : TagFor(c, key) = TagFor(d, key)
  BY <1>1 DEF TagFor, Owns
<1>3. QED
  BY <1>1, <1>2 DEF Entry

(* Nothing that is not about commands, numbers or keys matters.              *)
LEMMA AccountedKept ==
    ASSUME NEW lost, NEW taken, NEW gone, NEW total, Accounted(lost, taken, gone, total),
           UNCHANGED <<setup, known, run, counter, buffer, store, missed, moved>>, Sending' = Sending
    PROVE  Accounted(lost, taken, gone, total)'
<1>1. SetRequests' = SetRequests /\ Batch' = Batch /\ \A c, n : Entry(c, n)' = Entry(c, n)
  BY SameEntries
<1>2. \A n : Stored(n)' <=> Stored(n)
  BY <1>1 DEF Stored
<1>3. \A c : Key(c)' = Key(c) /\ Command(c)' = Command(c)
  BY DEF Key, Command
<1>4. Sends(taken) => Sends(taken)'
  BY <1>1, <1>3 DEF Sends
<1>5. SetRun(taken, lost) => SetRun(taken, lost)'
  BY <1>2, <1>3 DEF SetRun
<1>6. SecondRun(taken, lost, gone, total) => SecondRun(taken, lost, gone, total)'
  BY <1>1, <1>2 DEF SecondRun
<1>7. QED
  BY <1>4, <1>5, <1>6 DEF Accounted

LEMMA TakeAccounted ==
    ASSUME KInv, Comparable, AllAccounted, UNCHANGED <<setup, known>>, NEW c \in Clients, TakeKey(c)
    PROVE  AllAccounted'
<1>1. PICK lost \in SUBSET Nat, taken \in [Clients -> Nat], gone \in SUBSET Nat, total \in Nat :
        Accounted(lost, taken, gone, total)
  BY DEF AllAccounted
<1>2. /\ Sending' = Sending \cup {c} /\ c \notin Sending /\ counter' = counter + 1 /\ counter < sold
      /\ UNCHANGED <<run, sold, store, missed, moved>>
  BY TakeMoves DEF TakeKey
<1>3. /\ counter \in Nat /\ sold \in Nat /\ setup \in Setups /\ DOMAIN buffer = Clients
      /\ run \in {"set", "get", "mix", "end"} /\ (run \in {"get", "mix"} => run = Second)
  BY OfSetup DEF KInv, KeyspaceTypes
<1>4. /\ SetRequests' = SetRequests /\ Batch' = Batch /\ \A d, n : Entry(d, n)' = Entry(d, n)
      /\ \A n : Stored(n)' <=> Stored(n)
  <2>1. SetRequests' = SetRequests /\ Batch' = Batch /\ \A d, n : Entry(d, n)' = Entry(d, n)
    BY SameEntries
  <2>2. QED
    BY <1>2, <2>1 DEF Stored
<1>5. Strategy(c) = StrategyOf[c]
  BY <1>3 DEF Strategy, Comparable, Alike
<1>6. PICK command \in Templates :
        buffer' = [buffer EXCEPT ![c] = <<command, Entry(c, counter)[1], Entry(c, counter)[2]>>]
  <2>1. PICK command \in Templates :
          buffer' = [buffer EXCEPT ![c] =
              <<command, TagFor(c, NextKey(Strategy(c), counter, Keyspace)),
                NextKey(Strategy(c), counter, Keyspace)>>]
    BY DEF TakeKey
  <2>2. /\ Entry(c, counter)[1] = TagFor(c, NextKey(Strategy(c), counter, Keyspace))
        /\ Entry(c, counter)[2] = NextKey(Strategy(c), counter, Keyspace)
    BY <1>5 DEF Entry
  <2>3. QED
    BY <2>1, <2>2
<1>7. /\ Key(c)' = Entry(c, counter) /\ Command(c)' = command
      /\ \A d \in Sending : Key(d)' = Key(d) /\ Command(d)' = Command(d)
  <2>1. buffer'[c] = <<command, Entry(c, counter)[1], Entry(c, counter)[2]>>
    BY <1>3, <1>6
  <2>2. Entry(c, counter) = <<Entry(c, counter)[1], Entry(c, counter)[2]>>
    BY DEF Entry
  <2>3. Tail(buffer'[c]) = <<Entry(c, counter)[1], Entry(c, counter)[2]>>
    BY <2>1, TailOfThree
  <2>4. \A d \in Sending : buffer'[d] = buffer[d]
    BY <1>2, <1>3, <1>6 DEF Sending
  <2>5. QED
    BY <2>1, <2>2, <2>3, <2>4 DEF Key, Command
<1>8. PICK now \in [Clients -> Nat] :
        now[c] = counter /\ \A d \in Sending : now[d] = taken[d] /\ d # c /\ d \in Clients
  <2> DEFINE next == [taken EXCEPT ![c] = counter]
  <2>1. /\ next \in [Clients -> Nat] /\ next[c] = counter
        /\ \A d \in Sending : next[d] = taken[d] /\ d # c /\ d \in Clients
    BY <1>2, <1>3 DEF Sending
  <2>2. QED
    BY <2>1
<1>9. Sends(taken)
  BY <1>1 DEF Accounted
<1>10. Sends(now)'
  BY <1>2, <1>3, <1>4, <1>7, <1>8, <1>9 DEF Sends
<1>11. run = "set" => SetRun(now, lost)'
  <2>1. SUFFICES ASSUME run = "set" PROVE SetRun(now, lost)'
    OBVIOUS
  <2>2. SetRun(taken, lost)
    BY <1>1, <2>1 DEF Accounted
  <2>3. command = "set"
    BY <1>6, <2>1 DEF Templates
  <2>4. counter \notin lost /\ lost \subseteq 0 .. counter' - 1
    BY <1>2, <1>3, <2>2 DEF SetRun
  <2>5. \A d \in Sending' : Command(d)' = "set" /\ now[d] \notin lost
    BY <1>2, <1>7, <1>8, <2>2, <2>3, <2>4 DEF SetRun
  <2>6. ASSUME NEW n \in 0 .. counter' - 1 PROVE n \in lost \/ Stored(n)' \/ \E d \in Sending' : now[d] = n
    <3>1. CASE n = counter
      BY <1>2, <1>8, <3>1
    <3>2. CASE n # counter
      <4>1. n \in 0 .. counter - 1
        BY <1>2, <1>3, <3>2
      <4>2. n \in lost \/ Stored(n) \/ \E d \in Sending : taken[d] = n
        BY <2>2, <4>1 DEF SetRun
      <4>3. QED
        BY <1>2, <1>4, <1>8, <4>2
    <3>3. QED
      BY <3>1, <3>2
  <2>7. QED
    BY <1>2, <2>2, <2>4, <2>5, <2>6 DEF SetRun
<1>12. run \in {"get", "mix"} => SecondRun(now, lost, gone, total)'
  <2>1. SUFFICES ASSUME run \in {"get", "mix"} PROVE SecondRun(now, lost, gone, total)'
    OBVIOUS
  <2>2. SecondRun(taken, lost, gone, total)
    BY <1>1, <2>1 DEF Accounted
  <2>3. counter \notin gone /\ gone \subseteq 0 .. counter' - 1
    BY <1>2, <1>3, <2>2 DEF SecondRun
  <2>4. counter \in 0 .. total - 1
    <3>1. Batch \in Nat \ {0} /\ SetRequests \in Nat /\ GetRequests \in Nat /\ Requests = GetRequests
      BY <1>3, <2>1, OfSetup DEF Requests
    <3>2. (sold - 1) * Batch < GetRequests /\ sold - 1 \in Nat
      BY <1>2, <1>3, <2>1, <3>1 DEF KInv, Counting
    <3>3. SetRequests <= total * Batch /\ GetRequests <= SetRequests
      BY <2>2 DEF SecondRun, Comparable
    <3>4. (sold - 1) * Batch \in Nat /\ total * Batch \in Nat
      BY <3>1, <3>2
    <3>5. (sold - 1) * Batch < total * Batch
      BY <3>1, <3>2, <3>3, <3>4
    <3>6. ~(total <= sold - 1)
      <4>1. ASSUME total <= sold - 1 PROVE FALSE
        <5>1. total * Batch <= (sold - 1) * Batch
          <6> DEFINE more == (sold - 1) - total
          <6>1. more \in Nat
            BY <3>2, <4>1
          <6>2. more * Batch \in Nat /\ more * Batch = (sold - 1) * Batch - total * Batch
            BY <3>1, <3>2, <6>1
          <6>3. QED
            BY <3>4, <6>2
        <5>2. QED
          BY <3>4, <3>5, <5>1
      <4>2. QED
        BY <4>1
    <3>7. QED
      BY <1>2, <1>3, <3>2, <3>6
  <2>5. \A d \in Sending' : now[d] \in 0 .. total - 1 /\ now[d] \notin gone
    BY <1>2, <1>8, <2>2, <2>3, <2>4 DEF SecondRun
  <2>6. \A n \in 0 .. total - 1 : n \in lost \/ Stored(n)'
    BY <1>4, <2>2 DEF SecondRun
  <2>7. QED
    BY <1>2, <1>4, <2>2, <2>3, <2>5, <2>6 DEF SecondRun
<1>13. Accounted(lost, now, gone, total)'
  BY <1>1, <1>2, <1>10, <1>11, <1>12 DEF Accounted
<1>14. QED
  BY <1>8, <1>13 DEF AllAccounted


(* A command that is answered is lost, stored or missed.                     *)
LEMMA AnswerAccounted ==
    ASSUME KInv, Comparable, AllAccounted, UNCHANGED <<setup, known>>,
           NEW c \in Clients, Execute(c) \/ Moved(c)
    PROVE  AllAccounted'
<1>1. PICK lost \in SUBSET Nat, taken \in [Clients -> Nat], gone \in SUBSET Nat, total \in Nat :
        Accounted(lost, taken, gone, total)
  BY DEF AllAccounted
<1>2. /\ Sending' = Sending \ {c} /\ c \in Sending /\ run # "end"
      /\ UNCHANGED <<run, sold, counter, buffer>>
      /\ store \subseteq store'
  BY AnswerMoves DEF Execute, Moved
<1>3. /\ counter \in Nat /\ missed \in Nat /\ moved \in Nat /\ setup \in Setups
      /\ run \in {"set", "get", "mix"} /\ Sending \subseteq Clients
  BY <1>2, OfSetup DEF KInv, KeyspaceTypes, Sending
<1>4. /\ SetRequests' = SetRequests /\ Batch' = Batch /\ \A d, n : Entry(d, n)' = Entry(d, n)
      /\ \A n : Stored(n) => Stored(n)'
      /\ \A d : Key(d)' = Key(d) /\ Command(d)' = Command(d)
  <2>1. SetRequests' = SetRequests /\ Batch' = Batch /\ \A d, n : Entry(d, n)' = Entry(d, n)
    BY SameEntries
  <2>2. QED
    BY <1>2, <2>1 DEF Stored, Key, Command
<1>5. /\ Sends(taken) /\ IsFiniteSet(lost) /\ Cardinality(lost) <= moved
  BY <1>1 DEF Accounted
<1>6. Sends(taken)'
  BY <1>2, <1>4, <1>5 DEF Sends
<1> DEFINE mine == taken[c]
<1>7. /\ mine \in Nat /\ mine \in 0 .. counter - 1 /\ Key(c) = Entry(c, mine)
      /\ \A d \in Sending \ {c} : taken[d] # mine
  BY <1>2, <1>3, <1>5 DEF Sends
<1> HIDE DEF mine
<1>8. CASE run = "set"
  <2>1. SetRun(taken, lost)
    BY <1>1, <1>8 DEF Accounted
  <2>2. missed' = 0
    BY <1>2, <2>1 DEF SetRun, Execute, Moved
  <2>3. CASE Execute(c)
    <3>1. Stored(mine)'
      <4>1. Key(c) \in store'
        BY <1>2, <2>1, <2>3 DEF SetRun, Execute
      <4>2. \A d \in Clients : Entry(d, mine) = Entry(c, mine)
        BY AlikeEntries DEF Comparable
      <4>3. \A d \in Clients : Entry(d, mine)' \in store'
        BY <1>4, <1>7, <4>1, <4>2
      <4>4. QED
        BY <4>3 DEF Stored
    <3>2. SetRun(taken, lost)'
      <4>1. \A n \in 0 .. counter - 1 : n \in lost \/ Stored(n)' \/ \E d \in Sending \ {c} : taken[d] = n
        BY <1>4, <2>1, <3>1 DEF SetRun, mine
      <4>2. QED
        BY <1>2, <1>4, <2>1, <2>2, <4>1 DEF SetRun
    <3>3. moved' = moved
      BY <2>3 DEF Execute
    <3>4. Accounted(lost, taken, gone, total)'
      BY <1>2, <1>5, <1>6, <1>8, <3>2, <3>3 DEF Accounted
    <3>5. QED
      BY <3>4 DEF AllAccounted
  <2>4. CASE Moved(c)
    <3>1. PICK more \in SUBSET Nat : more = lost \cup {mine}
      BY <1>7
    <3>2. IsFiniteSet(more) /\ Cardinality(more) <= moved'
      <4>1. mine \notin lost
        BY <1>2, <2>1 DEF SetRun, mine
      <4>2. IsFiniteSet(more) /\ Cardinality(more) = Cardinality(lost) + 1
        BY <1>5, <3>1, <4>1, FS_AddElement
      <4>3. Cardinality(lost) \in Nat /\ moved' = moved + 1
        BY <1>5, <2>4, FS_CardinalityType DEF Moved
      <4>4. QED
        BY <1>3, <1>5, <4>2, <4>3
    <3>3. SetRun(taken, more)'
      <4>1. \A n \in 0 .. counter - 1 : n \in more \/ Stored(n)' \/ \E d \in Sending \ {c} : taken[d] = n
        BY <1>4, <2>1, <3>1 DEF SetRun, mine
      <4>2. \A d \in Sending \ {c} : Command(d)' = "set" /\ taken[d] \notin more
        BY <1>4, <1>7, <2>1, <3>1 DEF SetRun
      <4>3. more \subseteq 0 .. counter - 1
        BY <1>7, <2>1, <3>1 DEF SetRun
      <4>4. QED
        BY <1>2, <2>2, <4>1, <4>2, <4>3 DEF SetRun
    <3>4. Accounted(more, taken, gone, total)'
      BY <1>2, <1>6, <1>8, <3>2, <3>3 DEF Accounted
    <3>5. QED
      BY <3>4 DEF AllAccounted
  <2>5. QED
    BY <2>3, <2>4
<1>9. CASE run \in {"get", "mix"}
  <2>1. SecondRun(taken, lost, gone, total)
    BY <1>1, <1>9 DEF Accounted
  <2>2. moved' \in Nat /\ Cardinality(lost) <= moved'
    <3>1. Cardinality(lost) \in Nat
      BY <1>5, FS_CardinalityType
    <3>2. moved' = moved \/ moved' = moved + 1
      BY DEF Execute, Moved
    <3>3. QED
      BY <1>3, <1>5, <3>1, <3>2
  <2>3. \A n \in 0 .. total - 1 : n \in lost \/ Stored(n)'
    BY <1>4, <2>1 DEF SecondRun
  <2>4. CASE missed' = missed
    <3>1. SecondRun(taken, lost, gone, total)'
      BY <1>2, <1>4, <2>1, <2>3, <2>4 DEF SecondRun
    <3>2. Accounted(lost, taken, gone, total)'
      BY <1>2, <1>5, <1>6, <1>9, <2>2, <3>1 DEF Accounted
    <3>3. QED
      BY <3>2 DEF AllAccounted
  <2>5. CASE missed' # missed
    <3>1. missed' = missed + 1 /\ Key(c) \notin store
      BY <2>5 DEF Execute, Moved
    <3>2. mine \in lost /\ mine \notin gone
      <4>1. ~Stored(mine)
        BY <1>7, <3>1 DEF Stored
      <4>2. QED
        BY <1>2, <2>1, <4>1 DEF SecondRun, mine
    <3>3. PICK more \in SUBSET Nat : more = gone \cup {mine}
      BY <1>7
    <3>4. more \subseteq lost /\ more \subseteq 0 .. counter - 1
      BY <1>7, <2>1, <3>2, <3>3 DEF SecondRun
    <3>5. Cardinality(more) = missed'
      <4>1. IsFiniteSet(gone)
        BY <1>5, <2>1, FS_Subset DEF SecondRun
      <4>2. Cardinality(more) = Cardinality(gone) + 1
        BY <3>2, <3>3, <4>1, FS_AddElement
      <4>3. QED
        BY <2>1, <3>1, <4>2 DEF SecondRun
    <3>6. \A d \in Sending \ {c} : taken[d] \in 0 .. total - 1 /\ taken[d] \notin more
      BY <1>7, <2>1, <3>3 DEF SecondRun
    <3>7. SecondRun(taken, lost, more, total)'
      BY <1>2, <1>4, <2>1, <2>3, <3>4, <3>5, <3>6 DEF SecondRun
    <3>8. Accounted(lost, taken, more, total)'
      BY <1>2, <1>5, <1>6, <1>9, <2>2, <3>7 DEF Accounted
    <3>9. QED
      BY <3>8 DEF AllAccounted
  <2>6. QED
    BY <2>4, <2>5
<1>10. QED
  BY <1>3, <1>8, <1>9

(* What has been missed is no more than what was lost.                       *)
LEMMA MissedWereLost ==
    ASSUME NEW lost \in SUBSET Nat, NEW taken, NEW gone, NEW total, missed \in Nat, moved \in Nat,
           run \in {"set", "get", "mix", "end"}, Accounted(lost, taken, gone, total)
    PROVE  missed <= moved
<1>1. CASE run = "set"
  BY <1>1 DEF Accounted, SetRun
<1>2. CASE run \in {"get", "mix"}
  <2>1. /\ gone \subseteq lost /\ Cardinality(gone) = missed
        /\ IsFiniteSet(lost) /\ Cardinality(lost) <= moved
    BY <1>2 DEF Accounted, SecondRun
  <2>2. Cardinality(gone) <= Cardinality(lost) /\ Cardinality(lost) \in Nat
    BY <2>1, FS_Subset, FS_CardinalityType
  <2>3. QED
    BY <2>1, <2>2
<1>3. CASE run = "end"
  BY <1>3 DEF Accounted
<1>4. QED
  BY <1>1, <1>2, <1>3

LEMMA EndAccounted ==
    ASSUME KInv, Comparable, AllAccounted, UNCHANGED <<setup, known>>, EndRun
    PROVE  AllAccounted'
<1>1. PICK lost \in SUBSET Nat, taken \in [Clients -> Nat], gone \in SUBSET Nat, total \in Nat :
        Accounted(lost, taken, gone, total)
  BY DEF AllAccounted
<1>2. /\ Sending = {} /\ Sending' = {} /\ Requests <= counter * Batch
      /\ run # "end" /\ run' = (IF run = "set" THEN Second ELSE "end")
      /\ UNCHANGED <<buffer, store, missed, moved>>
  BY EndMoves DEF EndRun
<1>3. /\ counter \in Nat /\ missed \in Nat /\ moved \in Nat /\ setup \in Setups
      /\ run \in {"set", "get", "mix"} /\ Second \in {"get", "mix"}
  BY <1>2, OfSetup DEF KInv, KeyspaceTypes
<1>4. /\ SetRequests' = SetRequests /\ Batch' = Batch /\ \A n : Stored(n)' <=> Stored(n)
  <2>1. SetRequests' = SetRequests /\ Batch' = Batch /\ \A d, n : Entry(d, n)' = Entry(d, n)
    BY SameEntries
  <2>2. QED
    BY <1>2, <2>1 DEF Stored
<1>5. IsFiniteSet(lost) /\ Cardinality(lost) <= moved /\ Sends(taken)'
  BY <1>1, <1>2 DEF Accounted, Sends
<1>6. CASE run = "set"
  <2>1. SetRun(taken, lost)
    BY <1>1, <1>6 DEF Accounted
  <2>2. PICK all \in Nat : all = counter
    BY <1>3
  <2>3. SetRequests <= all * Batch
    BY <1>2, <1>6, <2>2 DEF Requests
  <2>4. \A n \in 0 .. all - 1 : n \in lost \/ Stored(n)
    BY <1>2, <2>1, <2>2 DEF SetRun
  <2>5. Cardinality({}) = missed'
    BY <1>2, <2>1, FS_EmptySet DEF SetRun
  <2>6. SecondRun(taken, lost, {}, all)'
    BY <1>2, <1>4, <2>3, <2>4, <2>5 DEF SecondRun
  <2>7. Accounted(lost, taken, {}, all)'
    BY <1>2, <1>3, <1>5, <1>6, <2>6 DEF Accounted
  <2>8. QED
    BY <2>7 DEF AllAccounted
<1>7. CASE run # "set"
  <2>1. missed <= moved
    BY <1>1, <1>3, MissedWereLost
  <2>2. Accounted(lost, taken, gone, total)'
    BY <1>2, <1>5, <1>7, <2>1 DEF Accounted
  <2>3. QED
    BY <2>2 DEF AllAccounted
<1>8. QED
  BY <1>6, <1>7

LEMMA NextHit ==
    ASSUME HitInv, [Next]_keyspaceVars
    PROVE  HitInv'
<1>1. KInv /\ KInv' /\ UNCHANGED setup /\ (Comparable => AllAccounted)
  BY NextKInv, StoreGrows DEF HitInv
<1>2. run' = "set" => run = "set" /\ known' = known
  BY <1>1, OfSetup DEF KInv, KeyspaceTypes, Next, Claim, TakeKey, Execute, Moved, EndRun, Migrate, keyspaceVars
<1>3. SUFFICES ASSUME Comparable' PROVE AllAccounted'
  BY <1>1, <1>2 DEF HitInv
<1>4. known' = known
  <2>1. known' # known => EndRun /\ run = "set"
    BY DEF Next, Claim, TakeKey, Execute, Moved, EndRun, Migrate, keyspaceVars
  <2>2. known' = setup.ownerOf
    BY <1>1, <1>3 DEF Comparable, Alike
  <2>3. QED
    BY <2>1, <2>2 DEF HitInv
<1>5. Comparable /\ AllAccounted
  BY <1>1, <1>3, <1>4, SameEntries
<1>6. ASSUME UNCHANGED <<run, counter, buffer, store, missed, moved>>, Sending' = Sending
      PROVE  AllAccounted'
  <2>1. PICK lost \in SUBSET Nat, taken \in [Clients -> Nat], gone \in SUBSET Nat, total \in Nat :
          Accounted(lost, taken, gone, total)
    BY <1>5 DEF AllAccounted
  <2>2. Accounted(lost, taken, gone, total)'
    BY <1>1, <1>6, <1>4, <2>1, AccountedKept
  <2>3. QED
    BY <2>2 DEF AllAccounted
<1>7. ASSUME NEW c \in Clients, Claim(c) PROVE AllAccounted'
  <2>1. Sending' = Sending /\ UNCHANGED <<run, counter, buffer, store, missed, moved>>
    BY <1>1, <1>7, ClaimMoves DEF Claim
  <2>2. QED
    BY <1>6, <2>1
<1>8. ASSUME NEW c \in Clients, TakeKey(c) PROVE AllAccounted'
  BY <1>1, <1>4, <1>5, <1>8, TakeAccounted
<1>9. ASSUME NEW c \in Clients, Execute(c) \/ Moved(c) PROVE AllAccounted'
  BY <1>1, <1>4, <1>5, <1>9, AnswerAccounted
<1>10. ASSUME EndRun PROVE AllAccounted'
  BY <1>1, <1>4, <1>5, <1>10, EndAccounted
<1>11. ASSUME Migrate \/ UNCHANGED keyspaceVars PROVE AllAccounted'
  <2>1. UNCHANGED <<run, counter, client, buffer, store, missed, moved>>
    BY <1>11 DEF Migrate, keyspaceVars
  <2>2. Sending' = Sending
    BY <2>1 DEF Sending
  <2>3. QED
    BY <1>6, <2>1, <2>2
<1>12. QED
  BY <1>7, <1>8, <1>9, <1>10, <1>11 DEF Next

(* When all connections go to one node and iterate alike, a run of no more   *)
(* requests than the SET run misses only keys whose SET was redirected, each *)
(* at most once, in whichever order the connections take the numbers and     *)
(* however the slots move.                                                   *)
THEOREM SecondRunHits == Spec => []GetsHitWhenAlike
<1>1. Init => HitInv
  <2> SUFFICES ASSUME Init PROVE HitInv
    OBVIOUS
  <2>1. Sending = {}
    BY DEF Init, Sending
  <2>2. Cardinality({}) = 0 /\ IsFiniteSet({})
    BY FS_EmptySet
  <2>3. PICK none \in [Clients -> Nat] : TRUE
    <3>1. [c \in Clients |-> 0] \in [Clients -> Nat]
      OBVIOUS
    <3>2. QED
      BY <3>1
  <2>4. SetRun(none, {}) /\ Sends(none)
    BY <2>1 DEF Init, SetRun, Sends
  <2>5. Accounted({}, none, {}, 0)
    BY <2>2, <2>4 DEF Init, Accounted
  <2>6. AllAccounted
    BY <2>5 DEF AllAccounted
  <2>7. known = setup.ownerOf
    BY DEF Init
  <2>8. QED
    BY <2>6, <2>7, InitKInv DEF HitInv
<1>2. HitInv /\ [Next]_keyspaceVars => HitInv'
  BY NextHit
<1>3. HitInv => GetsHitWhenAlike
  <2> SUFFICES ASSUME HitInv, Comparable PROVE missed <= moved
    BY DEF GetsHitWhenAlike, Comparable
  <2>1. PICK lost \in SUBSET Nat, taken \in [Clients -> Nat], gone \in SUBSET Nat, total \in Nat :
          Accounted(lost, taken, gone, total)
    BY DEF HitInv, AllAccounted
  <2>2. missed \in Nat /\ moved \in Nat /\ run \in {"set", "get", "mix", "end"}
    BY OfSetup DEF HitInv, KInv, KeyspaceTypes
  <2>3. QED
    BY <2>1, <2>2, MissedWereLost
<1>4. QED
  BY <1>1, <1>2, <1>3, PTL DEF Spec

=============================================================================
