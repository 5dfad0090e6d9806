---------------------------- MODULE ClusterProofs ----------------------------
(***************************************************************************)
(* What rests on the topology of a cluster.                                *)
(*                                                                         *)
(* TopologyManager: the flag of refresh_topology excludes concurrent       *)
(* refreshes, and a refresh gives up only when it has asked every node it  *)
(* knows of, for any number of threads and servers and whatever the        *)
(* servers answer.                                                         *)
(*                                                                         *)
(* ClusterSnapshots: the matrix of a test says what the test did to the    *)
(* servers, for any deployment, any traffic and any order of restarts,     *)
(* failovers and unanswered INFOs.                                         *)
(***************************************************************************)
EXTENDS TopologyManager, ClusterSnapshots, FiniteSetTheorems, SequenceTheorems, WellFoundedInduction,
        TLAPS

(* OneRefreshAtATime is inductive once pc is known to be a function.        *)
PcOK == pc \in [Threads -> {"idle", "moved", "redirect", "create"} \cup Refreshing]

(* A step that leaves the flag and every thread's place alone.              *)
LEMMA PlacesKept ==
    ASSUME OneRefreshAtATime, PcOK, UNCHANGED <<isRefreshing, pc>>
    PROVE  OneRefreshAtATime' /\ PcOK'
  BY DEF OneRefreshAtATime, PcOK

(* A step of a thread that begins or ends outside the refresh it is not in, *)
(* or stays in the one it is in.                                            *)
LEMMA PlaceMoves ==
    ASSUME OneRefreshAtATime, PcOK, NEW t \in Threads,
           NEW place \in {"idle", "moved", "redirect", "create"} \cup Refreshing,
           pc' = [pc EXCEPT ![t] = place], UNCHANGED isRefreshing,
           place \in Refreshing <=> pc[t] \in Refreshing
    PROVE  OneRefreshAtATime' /\ PcOK'
  <1>1. PcOK' BY DEF PcOK
  <1>2. \A u \in Threads : pc'[u] \in Refreshing <=> pc[u] \in Refreshing
    BY DEF PcOK
  <1>3. QED BY <1>1, <1>2 DEF OneRefreshAtATime

LEMMA CallKeepsIt ==
    ASSUME OneRefreshAtATime, PcOK, NEW t \in Threads, Call(t)
    PROVE  OneRefreshAtATime' /\ PcOK'
  <1>1. CASE BeginRefresh(t)
    <2>1. PcOK' BY <1>1 DEF BeginRefresh, PcOK, Refreshing
    <2>2. \A u \in Threads : pc[u] \notin Refreshing
      BY <1>1 DEF BeginRefresh, OneRefreshAtATime
    <2>3. isRefreshing' /\ pc'[t] \in Refreshing
      BY <1>1 DEF BeginRefresh, PcOK, Refreshing
    <2>4. \A u \in Threads : pc'[u] \in Refreshing => u = t
      BY <1>1, <2>2 DEF BeginRefresh, PcOK
    <2>5. QED BY <2>1, <2>3, <2>4 DEF OneRefreshAtATime
  <1>2. CASE Release(t)
    <2>1. PcOK' BY <1>2 DEF Release, PcOK, Refreshing
    <2>2. \A u \in Threads : pc[u] \in Refreshing => u = t
      BY <1>2 DEF Release, OneRefreshAtATime, Refreshing
    <2>3. \A u \in Threads : pc'[u] \notin Refreshing
      BY <1>2, <2>2 DEF Release, PcOK, Refreshing
    <2>4. ~isRefreshing' BY <1>2 DEF Release
    <2>5. QED BY <2>1, <2>3, <2>4 DEF OneRefreshAtATime
  <1>3. CASE RefreshElsewhere(t)
    BY <1>3, PlaceMoves DEF RefreshElsewhere, managerVars, Refreshing
  <1>4. CASE FetchSucceeds(t)
    BY <1>4, PlaceMoves DEF FetchSucceeds, managerVars, Refreshing
  <1>5. CASE Install(t)
    BY <1>5, PlaceMoves DEF Install, Refreshing
  <1>6. CASE GiveUp(t)
    BY <1>6, PlaceMoves DEF GiveUp, managerVars, Refreshing
  <1>7. CASE FetchFails(t) \/ TryPrimaries(t)
    BY <1>7, PlacesKept DEF FetchFails, TryPrimaries, managerVars
  <1>8. CASE UseCached(t) \/ MissCache(t)
    BY <1>8, PlaceMoves DEF UseCached, MissCache, managerVars, Refreshing
  <1>9. CASE CreateRedirect(t)
    BY <1>9, PlaceMoves DEF CreateRedirect, Refreshing
  <1>10. QED
    BY <1>1, <1>2, <1>3, <1>4, <1>5, <1>6, <1>7, <1>8, <1>9 DEF Call, Refresh

LEMMA StepKeepsIt ==
    ASSUME OneRefreshAtATime, PcOK, [Next]_vars
    PROVE  OneRefreshAtATime' /\ PcOK'
<1>1. CASE \E t \in Threads : Call(t)
  BY <1>1, CallKeepsIt
<1>2. CASE \E t \in Threads, s \in Slots : Send(t, s)
  <2>1. PICK t \in Threads, s \in Slots : Send(t, s) BY <1>2
  <2>2. PICK answer \in Answers(Owner(topology, s), s) :
          pc' = [pc EXCEPT ![t] = IF answer.word = "ASK" THEN "redirect" ELSE "moved"]
    BY <2>1 DEF Send
  <2>3. pc[t] = "idle" /\ UNCHANGED isRefreshing
    BY <2>1 DEF Send, managerVars
  <2>4. QED BY <2>2, <2>3, PlaceMoves DEF Refreshing
<1>3. CASE Servers
  BY <1>3, PlacesKept
  DEF Servers, Reconfigure, Learn, Fail, Recover, managerVars
<1>4. CASE UNCHANGED vars
  BY <1>4, PlacesKept DEF vars, managerVars
<1>5. QED BY <1>1, <1>2, <1>3, <1>4 DEF Next

LEMMA PlacesInvariant == Spec => [](OneRefreshAtATime /\ PcOK)
<1>1. Init => OneRefreshAtATime /\ PcOK
  BY DEF Init, OneRefreshAtATime, PcOK, Refreshing
<1>2. OneRefreshAtATime /\ PcOK /\ [Next]_vars => (OneRefreshAtATime /\ PcOK)'
  BY StepKeepsIt
<1>3. QED BY <1>1, <1>2, PTL DEF Spec

(* At most one thread refreshes the topology at a time, and the flag says    *)
(* whether one does: refresh_topology of src/cluster/topology_manager.rs.   *)
THEOREM RefreshesExclude == Spec => []OneRefreshAtATime
<1>1. QED BY PlacesInvariant, PTL

-----------------------------------------------------------------------------
(* Induction, and what Kept returns, as in SessionProofs.                    *)

LEMMA Least ==
    ASSUME NEW S \in SUBSET Nat, S # {}
    PROVE  \E m \in S : \A n \in S : m <= n
<1> DEFINE Less == {p \in Nat \X Nat : p[1] < p[2]}
<1>1. IsWellFoundedOn({p \in Nat \X Nat : p[1] < p[2]}, Nat)
  BY NatLessThanWellFounded, Zenon DEF OpToRel
<1>2. PICK m \in S : \A n \in S : <<n, m>> \notin Less
  BY <1>1, WFMin
<1>3. ASSUME NEW n \in S PROVE m <= n
  <2>1. n \in Nat /\ m \in Nat
    OBVIOUS
  <2>2. <<n, m>> \notin Less
    BY <1>2
  <2>3. ~(n < m)
    BY <2>1, <2>2
  <2>4. QED
    BY <2>1, <2>3
<1>4. QED
  BY <1>3

LEMMA Induction ==
    ASSUME NEW N \in Nat, NEW T, 0 \in T, \A n \in 0 .. N - 1 : n \in T => n + 1 \in T
    PROVE  0 .. N \subseteq T
<1> DEFINE S == (0 .. N) \ T
<1>1. SUFFICES ASSUME S # {} PROVE FALSE
  OBVIOUS
<1>2. S \in SUBSET Nat
  OBVIOUS
<1>3. PICK m \in S : \A n \in S : m <= n
  <2> HIDE DEF S
  <2>1. QED
    BY <1>1, <1>2, Least
<1>4. m \in 1 .. N /\ m \notin T
  BY <1>3
<1>5. m - 1 \in 0 .. N - 1 /\ (m - 1) + 1 = m
  BY <1>4
<1>6. m - 1 \notin S
  BY <1>3, <1>4
<1>7. QED
  BY <1>4, <1>5, <1>6

Longer(seq, set, k, i) == IF seq[i] \in set THEN Append(k[i - 1], seq[i]) ELSE k[i - 1]
KeepsUpTo(seq, set, S, k, n) ==
    /\ k \in [0 .. n -> Seq(S)] /\ k[0] = <<>>
    /\ \A i \in 1 .. n : k[i] = Longer(seq, set, k, i)
KeepsAll(seq, set, k) ==
    k = [i \in 0 .. Len(seq) |-> IF i = 0 THEN <<>> ELSE Longer(seq, set, k, i)]

LEMMA KeptExists ==
    ASSUME NEW S, NEW seq \in Seq(S), NEW set
    PROVE  \E k : KeepsAll(seq, set, k)
<1> DEFINE N == Len(seq)
           Done == {n \in 0 .. N : \E k : KeepsUpTo(seq, set, S, k, n)}
<1>1. N \in Nat /\ \A i \in 1 .. N : seq[i] \in S
  BY LenProperties, ElementOfSeq
<1>2. 0 \in Done
  <2>1. KeepsUpTo(seq, set, S, [i \in 0 .. 0 |-> <<>>], 0)
    BY EmptySeq DEF KeepsUpTo
  <2>2. QED
    BY <1>1, <2>1
<1>3. ASSUME NEW n \in 0 .. N - 1, n \in Done PROVE n + 1 \in Done
  <2>1. PICK k : KeepsUpTo(seq, set, S, k, n)
    BY <1>3
  <2> DEFINE next == IF seq[n + 1] \in set THEN Append(k[n], seq[n + 1]) ELSE k[n]
             longer == [i \in 0 .. n + 1 |-> IF i <= n THEN k[i] ELSE next]
  <2>2. n \in 0 .. n /\ n + 1 \in 1 .. N
    BY <1>1
  <2>3. next \in Seq(S)
    BY <1>1, <2>1, <2>2, AppendProperties DEF KeepsUpTo
  <2> HIDE DEF next
  <2>4. longer \in [0 .. n + 1 -> Seq(S)] /\ longer[0] = <<>>
    BY <2>1, <2>3 DEF KeepsUpTo
  <2>5. ASSUME NEW i \in 1 .. n + 1 PROVE longer[i] = Longer(seq, set, longer, i)
    <3>1. CASE i <= n
      <4>1. longer[i] = k[i] /\ longer[i - 1] = k[i - 1] /\ k[i] = Longer(seq, set, k, i)
        BY <2>1, <3>1 DEF KeepsUpTo
      <4>2. QED
        BY <4>1 DEF Longer
    <3>2. CASE i = n + 1
      <4>1. longer[i] = next /\ longer[i - 1] = k[n]
        BY <3>2
      <4>2. QED
        BY <3>2, <4>1 DEF Longer, next
    <3>3. QED
      BY <3>1, <3>2
  <2>6. KeepsUpTo(seq, set, S, longer, n + 1)
    BY <2>4, <2>5 DEF KeepsUpTo
  <2>7. QED
    BY <1>1, <2>2, <2>6
<1>4. N \in Done
  <2> HIDE DEF Done
  <2>1. \A n \in 0 .. N - 1 : n \in Done => n + 1 \in Done
    BY <1>3
  <2> HIDE DEF N
  <2>2. 0 .. N \subseteq Done
    BY <1>1, <1>2, <2>1, Induction
  <2>3. QED
    BY <1>1, <2>2
<1>5. PICK k : KeepsUpTo(seq, set, S, k, N)
  BY <1>4
<1>6. KeepsAll(seq, set, k)
  <2>1. k = [i \in 0 .. N |-> k[i]]
    BY <1>5 DEF KeepsUpTo
  <2>2. \A i \in 0 .. N : k[i] = IF i = 0 THEN <<>> ELSE Longer(seq, set, k, i)
    BY <1>1, <1>5 DEF KeepsUpTo
  <2>3. QED
    BY <2>1, <2>2 DEF KeepsAll
<1>7. QED
  BY <1>6

Has(s, x) == \E i \in 1 .. Len(s) : s[i] = x

LEMMA HasAppend ==
    ASSUME NEW S, NEW s \in Seq(S), NEW e \in S, NEW x
    PROVE  Has(Append(s, e), x) <=> Has(s, x) \/ x = e
<1> DEFINE t == Append(s, e)
<1>1. /\ Len(s) \in Nat /\ Len(t) = Len(s) + 1
      /\ \A i \in 1 .. Len(s) : t[i] = s[i]
      /\ t[Len(s) + 1] = e
  BY AppendProperties, LenProperties
<1> HIDE DEF t
<1>2. QED
  BY <1>1 DEF Has, t

LEMMA KeptIsFilter ==
    ASSUME NEW S, NEW seq \in Seq(S), NEW set
    PROVE  /\ Kept(seq, set) \in Seq(S)
           /\ \A x : Has(Kept(seq, set), x) <=> x \in set /\ Has(seq, x)
<1> DEFINE N == Len(seq)
           kept == CHOOSE k : KeepsAll(seq, set, k)
           Right(n) == /\ kept[n] \in Seq(S)
                       /\ \A x : Has(kept[n], x) <=> x \in set /\ \E i \in 1 .. n : seq[i] = x
           Done == {n \in 0 .. N : Right(n)}
<1>1. N \in Nat /\ \A i \in 1 .. N : seq[i] \in S
  BY LenProperties, ElementOfSeq
<1>2. KeepsAll(seq, set, kept)
  BY KeptExists
<1>3. Kept(seq, set) = kept[N]
  BY DEF Kept, KeepsAll, Longer
<1> HIDE DEF kept
<1>4. kept[0] = <<>> /\ \A i \in 1 .. N : kept[i] = Longer(seq, set, kept, i)
  <2>1. \A i \in 0 .. N : kept[i] = IF i = 0 THEN <<>> ELSE Longer(seq, set, kept, i)
    BY <1>2 DEF KeepsAll
  <2>2. QED
    BY <1>1, <2>1
<1>5. 0 \in Done
  <2>1. kept[0] \in Seq(S) /\ Len(kept[0]) = 0
    BY <1>4, EmptySeq
  <2>2. \A x : ~Has(kept[0], x)
    BY <2>1 DEF Has
  <2>3. QED
    BY <1>1, <2>1, <2>2
<1>6. ASSUME NEW n \in 0 .. N - 1, n \in Done PROVE n + 1 \in Done
  <2>1. Right(n)
    BY <1>6
  <2>2. kept[n + 1] = Longer(seq, set, kept, n + 1) /\ n + 1 \in 1 .. N /\ (n + 1) - 1 = n
    BY <1>1, <1>4
  <2>3. seq[n + 1] \in S
    BY <1>1, <2>2
  <2>4. \A x : (\E i \in 1 .. n + 1 : seq[i] = x) <=> (\E i \in 1 .. n : seq[i] = x) \/ x = seq[n + 1]
    BY <2>2
  <2>5. CASE seq[n + 1] \in set
    <3>1. kept[n + 1] = Append(kept[n], seq[n + 1])
      BY <2>2, <2>5 DEF Longer
    <3>2. kept[n + 1] \in Seq(S)
      BY <2>1, <2>3, <3>1, AppendProperties
    <3>3. \A x : Has(kept[n + 1], x) <=> Has(kept[n], x) \/ x = seq[n + 1]
      BY <2>1, <2>3, <3>1, HasAppend
    <3>4. QED
      BY <1>1, <2>1, <2>2, <2>4, <2>5, <3>2, <3>3
  <2>6. CASE seq[n + 1] \notin set
    <3>1. kept[n + 1] = kept[n]
      BY <2>2, <2>6 DEF Longer
    <3>2. QED
      BY <1>1, <2>1, <2>2, <2>4, <2>6, <3>1
  <2>7. QED
    BY <2>5, <2>6
<1>7. N \in Done
  <2> HIDE DEF Done
  <2>1. \A n \in 0 .. N - 1 : n \in Done => n + 1 \in Done
    BY <1>6
  <2> HIDE DEF N
  <2>2. 0 .. N \subseteq Done
    BY <1>1, <1>5, <2>1, Induction
  <2>3. QED
    BY <1>1, <2>2
<1>8. QED
  BY <1>3, <1>7 DEF Has

-----------------------------------------------------------------------------
(* The addresses of the primaries.                                           *)

ParsedLines == {ParseLine(line) : line \in Lines}

LEMMA ParseLinesType ==
    ASSUME NEW lines \in Seq(Lines)
    PROVE  ParseLines(lines) \in Seq(ParsedLines)
<1> DEFINE wellFormed == Kept(lines, {line \in ToSet(lines) : line.wellFormed})
<1>1. wellFormed \in Seq(Lines)
  BY KeptIsFilter
<1>2. ParseLines(lines) = [i \in DOMAIN wellFormed |-> ParseLine(wellFormed[i])]
  BY DEF ParseLines
<1> HIDE DEF wellFormed
<1>3. Len(wellFormed) \in Nat /\ DOMAIN wellFormed = 1 .. Len(wellFormed)
  BY <1>1, LenProperties
<1>4. \A i \in 1 .. Len(wellFormed) : ParseLine(wellFormed[i]) \in ParsedLines
  BY <1>1, ElementOfSeq DEF ParsedLines
<1>5. [i \in 1 .. Len(wellFormed) |-> ParseLine(wellFormed[i])] \in Seq(ParsedLines)
  BY <1>3, <1>4, IsASeq
<1>6. QED
  BY <1>2, <1>3, <1>5

LEMMA AddressesOfKept ==
    ASSUME NEW nodes \in Seq(ParsedLines), NEW set
    PROVE  LET kept == Kept(nodes, set)
           IN  /\ [i \in DOMAIN kept |-> kept[i].address] \in Seq(Nodes)
               /\ \A n \in ToSet([i \in DOMAIN kept |-> kept[i].address]) :
                     \E i \in DOMAIN nodes : nodes[i] \in set /\ nodes[i].address = n
<1> DEFINE kept == Kept(nodes, set)
           addresses == [i \in DOMAIN kept |-> kept[i].address]
<1>1. kept \in Seq(ParsedLines) /\ \A x : Has(kept, x) <=> x \in set /\ Has(nodes, x)
  BY KeptIsFilter
<1> HIDE DEF kept
<1>2. Len(kept) \in Nat /\ DOMAIN kept = 1 .. Len(kept) /\ DOMAIN nodes = 1 .. Len(nodes)
  BY <1>1, LenProperties
<1>3. \A i \in 1 .. Len(kept) : kept[i].address \in Nodes
  <2>1. \A i \in 1 .. Len(kept) : kept[i] \in ParsedLines
    BY <1>1, ElementOfSeq
  <2>2. \A node \in ParsedLines : node.address \in Nodes
    BY DEF ParsedLines, ParseLine, Lines
  <2>3. QED
    BY <2>1, <2>2
<1>4. [i \in 1 .. Len(kept) |-> kept[i].address] \in Seq(Nodes)
  BY <1>2, <1>3, IsASeq
<1>5. ASSUME NEW n \in ToSet(addresses)
      PROVE  \E i \in DOMAIN nodes : nodes[i] \in set /\ nodes[i].address = n
  <2>1. PICK k \in DOMAIN kept : kept[k].address = n
    BY DEF ToSet
  <2>2. Has(kept, kept[k])
    BY <1>2 DEF Has
  <2>3. PICK i \in 1 .. Len(nodes) : nodes[i] = kept[k] /\ kept[k] \in set
    BY <1>1, <2>2 DEF Has
  <2>4. QED BY <1>2, <2>1, <2>3
<1>6. QED
  BY <1>2, <1>4, <1>5 DEF kept

LEMMA TopologyNodes ==
    ASSUME NEW lines \in Seq(Lines)
    PROVE  FromClusterNodes(lines).nodes \in Seq(ParsedLines)
<1>1. FromClusterNodes(lines).nodes \in {<<>>, ParseLines(lines)}
  BY DEF FromClusterNodes, NoTopology
<1>2. QED
  BY <1>1, ParseLinesType, EmptySeq

LEMMA PrimariesType ==
    ASSUME NEW c \in Configurations
    PROVE  Primaries(Topologies[c]) \in Seq(Nodes)
<1> DEFINE nodes == Topologies[c].nodes
           chosen == Kept(nodes, {node \in ToSet(nodes) : node.role = "primary"})
<1>1. Replies[c] \in Seq(Lines)
  BY ManagerAssumption, ElementOfSeq, LenProperties DEF Configurations
<1>2. nodes \in Seq(ParsedLines)
  BY <1>1, TopologyNodes DEF Topologies
<1> HIDE DEF nodes
<1>3. [i \in DOMAIN chosen |-> chosen[i].address] \in Seq(Nodes)
  BY <1>2, AddressesOfKept
<1>4. Primaries(Topologies[c]) = [i \in DOMAIN chosen |-> chosen[i].address]
  BY DEF Primaries, nodes
<1>5. QED
  BY <1>3, <1>4

LEMMA GreatestIsIn ==
    ASSUME NEW N \in Nat, NEW S \in SUBSET (1 .. N), S # {}
    PROVE  Max(S) \in S
<1> DEFINE D == {N - n : n \in S}
<1>1. D \in SUBSET Nat /\ D # {}
  <2>1. \A n \in S : N - n \in Nat
    OBVIOUS
  <2>2. PICK n \in S : TRUE
    OBVIOUS
  <2>3. N - n \in D
    BY <2>2
  <2>4. D \subseteq Nat
    BY <2>1
  <2>5. QED
    BY <2>3, <2>4
<1>2. PICK m \in D : \A n \in D : m <= n
  <2> HIDE DEF D
  <2>1. QED
    BY <1>1, Least
<1>3. PICK x \in S : m = N - x
  BY <1>2
<1>4. ASSUME NEW y \in S PROVE x >= y
  <2>1. N - y \in D
    OBVIOUS
  <2>2. N - x <= N - y
    BY <1>2, <1>3, <2>1
  <2>3. QED
    BY <2>2
<1>5. QED
  BY <1>4 DEF Max

LEMMA OwnerType ==
    ASSUME NEW c \in Configurations, NEW s \in Slots
    PROVE  Owner(c, s) \in Nodes \cup {NoPrimary}
<1> DEFINE nodes == ParseLines(Replies[c])
<1>1. Replies[c] \in Seq(Lines)
  BY ManagerAssumption, ElementOfSeq, LenProperties DEF Configurations
<1>2. nodes \in Seq(ParsedLines) /\ DOMAIN nodes = 1 .. Len(nodes)
  BY <1>1, ParseLinesType, LenProperties
<1>3. \A i \in DOMAIN nodes : nodes[i].address \in Nodes
  <2>1. \A i \in DOMAIN nodes : nodes[i] \in ParsedLines
    BY <1>2, ElementOfSeq
  <2>2. \A node \in ParsedLines : node.address \in Nodes
    BY DEF ParsedLines, ParseLine, Lines
  <2>3. QED
    BY <2>1, <2>2
<1> HIDE DEF nodes
<1>4. SlotOwner(nodes, s) = Unknown \/ SlotOwner(nodes, s) \in DOMAIN nodes
  <2> DEFINE claim == {i \in PrimariesOf(nodes) : s \in ToSet(nodes[i].slots)}
  <2>1. Len(nodes) \in Nat /\ claim \subseteq 1 .. Len(nodes)
    BY <1>2, LenProperties DEF PrimariesOf
  <2>2. claim # {} => Max(claim) \in claim
    <3> HIDE DEF claim
    <3>1. QED
      BY <2>1, GreatestIsIn
  <2>3. SlotOwner(nodes, s) = IF claim = {} THEN Unknown ELSE Max(claim)
    BY DEF SlotOwner
  <2> HIDE DEF claim
  <2>4. QED
    BY <1>2, <2>1, <2>2, <2>3
<1>5. CASE Topologies[c] = NoTopology
  BY <1>5 DEF Owner, NodeForSlot, NoTopology
<1>6. CASE Topologies[c] # NoTopology
  <2>1. /\ Topologies[c].nodes = nodes
        /\ Topologies[c].slotMap[s] = SlotOwner(nodes, s)
    BY <1>6 DEF Topologies, FromClusterNodes, nodes
  <2>2. QED
    BY <1>3, <1>4, <2>1 DEF Owner, NodeForSlot, AddressOf
<1>7. QED
  BY <1>5, <1>6

LEMMA HasIsInSet ==
    ASSUME NEW S, NEW s \in Seq(S), NEW x
    PROVE  Has(s, x) <=> x \in ToSet(s)
<1>1. DOMAIN s = 1 .. Len(s)
  BY LenProperties
<1>2. QED
  BY <1>1 DEF Has, ToSet

LEMMA OtherPrimariesAre ==
    ASSUME topology \in Configurations
    PROVE  /\ OtherPrimaries \in Seq(Nodes)
           /\ ToSet(PrimariesHeld) \subseteq ToSet(seedAddresses) \cup ToSet(OtherPrimaries)
<1> DEFINE others == ToSet(PrimariesHeld) \ ToSet(seedAddresses)
<1>1. PrimariesHeld \in Seq(Nodes)
  BY PrimariesType DEF PrimariesHeld
<1>2. OtherPrimaries = Kept(PrimariesHeld, others)
  BY DEF OtherPrimaries
<1> HIDE DEF others
<1>3. /\ Kept(PrimariesHeld, others) \in Seq(Nodes)
      /\ \A x : Has(Kept(PrimariesHeld, others), x) <=> x \in others /\ Has(PrimariesHeld, x)
  BY <1>1, KeptIsFilter
<1>4. \A x \in others : x \in ToSet(OtherPrimaries)
  BY <1>1, <1>2, <1>3, HasIsInSet DEF others
<1>5. QED
  BY <1>2, <1>3, <1>4 DEF others

LEMMA HeadAndTail ==
    ASSUME NEW S, NEW s \in Seq(S), s # <<>>
    PROVE  Head(s) \in S /\ Tail(s) \in Seq(S) /\ ToSet(s) = {Head(s)} \cup ToSet(Tail(s))
<1>1. /\ Head(s) \in S /\ Tail(s) \in Seq(S) /\ Head(s) = s[1]
      /\ Len(s) \in Nat \ {0} /\ Len(Tail(s)) = Len(s) - 1
      /\ \A i \in 1 .. Len(Tail(s)) : Tail(s)[i] = s[i + 1]
      /\ DOMAIN s = 1 .. Len(s)
  BY HeadTailProperties, LenProperties, EmptySeq
<1>2. DOMAIN Tail(s) = 1 .. Len(Tail(s))
  BY <1>1, LenProperties
<1> DEFINE t == Tail(s)
<1>3. t = Tail(s)
  OBVIOUS
<1> HIDE DEF t
<1>4. ASSUME NEW i \in 1 .. Len(s) PROVE s[i] = Head(s) \/ \E j \in 1 .. Len(t) : s[i] = t[j]
  <2>1. CASE i = 1
    BY <1>1, <2>1
  <2>2. CASE i # 1
    <3>1. i - 1 \in 1 .. Len(t) /\ (i - 1) + 1 = i
      BY <1>1, <1>3, <2>2
    <3>2. t[i - 1] = s[i]
      BY <1>1, <1>3, <3>1
    <3>3. QED
      BY <3>1, <3>2
  <2>3. QED
    BY <2>1, <2>2
<1>5. ASSUME NEW j \in 1 .. Len(t) PROVE \E i \in 1 .. Len(s) : s[i] = t[j]
  <2>1. j + 1 \in 1 .. Len(s) /\ t[j] = s[j + 1]
    BY <1>1, <1>3
  <2>2. QED
    BY <2>1
<1>6. 1 \in 1 .. Len(s)
  BY <1>1
<1>7. ToSet(s) = {s[i] : i \in 1 .. Len(s)} /\ ToSet(t) = {t[j] : j \in 1 .. Len(t)}
  BY <1>1, <1>2, <1>3 DEF ToSet
<1>8. ToSet(s) = {Head(s)} \cup ToSet(t)
  BY <1>1, <1>4, <1>5, <1>6, <1>7
<1>9. QED
  BY <1>1, <1>3, <1>8

-----------------------------------------------------------------------------
(* Who has been asked.  While a thread goes through the seeds, those that it  *)
(* has yet to try and those that failed it are all seeds; after that, all    *)
(* seeds and primaries.  The topology does not change meanwhile, as only a   *)
(* refresh changes it and there is no other one.                             *)

Kinds ==
    /\ candidates \in [Threads -> Seq(Nodes)] /\ failed \in [Threads -> SUBSET Nodes]
    /\ target \in [Threads -> Nodes \cup {NoPrimary}]

Asked(t) ==
    pc[t] = "fetch" =>
        /\ ToSet(seedAddresses) \subseteq failed[t] \cup ToSet(candidates[t])
        /\ ~inSeeds[t] => ToSet(PrimariesHeld) \subseteq failed[t] \cup ToSet(candidates[t])

TInv ==
    /\ TypeOK /\ Kinds /\ OneRefreshAtATime
    /\ \A t \in Threads : Asked(t)
    /\ FailsOnlyWhenCutOff

LEMMA InitTInv ==
    ASSUME Init
    PROVE  TInv
<1>1. Len(Replies) \in Nat \ {0} /\ Configurations = 1 .. Len(Replies)
  BY ManagerAssumption, LenProperties, EmptySeq DEF Configurations
<1>2. 1 \in Configurations
  BY <1>1
<1>3. TypeOK
  <2>1. inSeeds \in [Threads -> BOOLEAN]
    BY Zenon DEF Init
  <2>2. succeeded \in [Threads -> BOOLEAN]
    BY Zenon DEF Init
  <2>3. isRefreshing \in BOOLEAN
    BY Zenon DEF Init
  <2>4. pc \in [Threads -> {"idle", "moved", "redirect", "create"} \cup Refreshing]
    BY DEF Init
  <2>5. fetched \in [Threads -> Configurations] /\ view \in [Nodes -> Configurations]
    BY <1>2 DEF Init
  <2>6. lastUpdate \in 1 .. MaxVersion /\ outages \in 0 .. MaxOutages
    BY ManagerAssumption DEF Init
  <2>7. /\ seedAddresses \in SeedLists /\ topology \in Configurations /\ config \in Configurations
        /\ cache \subseteq Nodes /\ up \subseteq Nodes
    BY <1>2 DEF Init
  <2>8. QED
    BY <2>1, <2>2, <2>3, <2>4, <2>5, <2>6, <2>7 DEF TypeOK
<1>4. Kinds
  <2>1. candidates \in [Threads -> Seq(Nodes)]
    BY EmptySeq DEF Init
  <2>2. failed \in [Threads -> SUBSET Nodes]
    BY DEF Init
  <2>3. target \in [Threads -> Nodes \cup {NoPrimary}]
    BY DEF Init
  <2>4. QED
    BY <2>1, <2>2, <2>3 DEF Kinds
<1>5. \A t \in Threads : pc[t] \notin Refreshing
  BY DEF Init, Refreshing
<1>6. ~isRefreshing
  BY DEF Init
<1>7. OneRefreshAtATime
  BY <1>5, <1>6 DEF OneRefreshAtATime
<1>8. FailsOnlyWhenCutOff /\ \A t \in Threads : Asked(t)
  BY <1>5 DEF FailsOnlyWhenCutOff, Asked, Refreshing
<1>9. QED
  BY <1>3, <1>4, <1>7, <1>8 DEF TInv

(* A step that leaves the refreshes, the topology and the seeds alone.       *)
LEMMA Undisturbed ==
    ASSUME TInv, UNCHANGED <<seedAddresses, topology, candidates, inSeeds, succeeded, failed>>,
           \A t \in Threads : pc'[t] \in {"fetch", "release"} => pc'[t] = pc[t]
    PROVE  (\A t \in Threads : Asked(t)') /\ FailsOnlyWhenCutOff'
<1>1. PrimariesHeld' = PrimariesHeld
  BY DEF PrimariesHeld, Topologies
<1>2. \A t \in Threads : Asked(t)'
  BY <1>1 DEF TInv, Asked
<1>3. FailsOnlyWhenCutOff'
  BY <1>1 DEF TInv, FailsOnlyWhenCutOff
<1>4. QED
  BY <1>2, <1>3

LEMMA OthersKeepTInv ==
    ASSUME TInv, Servers \/ \E t \in Threads, s \in Slots : Send(t, s)
    PROVE  TypeOK' /\ Kinds' /\ (\A t \in Threads : Asked(t)') /\ FailsOnlyWhenCutOff'
<1>1. CASE Servers
  <2>1. UNCHANGED <<managerVars, pc, refreshVars, target>>
    BY <1>1 DEF Servers, Reconfigure, Learn, Fail, Recover
  <2>2. /\ config' \in Configurations /\ view' \in [Nodes -> Configurations]
        /\ up' \subseteq Nodes /\ outages' \in 0 .. MaxOutages
    <3>1. CASE \E n \in Nodes : Reconfigure(n) \/ Learn(n)
      BY <3>1 DEF TInv, TypeOK, Reconfigure, Learn
    <3>2. CASE \E cutOff \in CutOffs : Fail(cutOff)
      BY <3>2, ManagerAssumption DEF TInv, TypeOK, Fail
    <3>3. CASE Recover
      BY <3>3 DEF TInv, TypeOK, Recover
    <3>4. QED
      BY <1>1, <3>1, <3>2, <3>3 DEF Servers
  <2>3. TypeOK' /\ Kinds'
    BY <2>1, <2>2 DEF TInv, TypeOK, Kinds, managerVars, refreshVars, Refreshing
  <2>4. QED
    BY <2>1, <2>3, Undisturbed DEF managerVars, refreshVars
<1>2. CASE \E t \in Threads, s \in Slots : Send(t, s)
  <2>1. PICK t \in Threads, s \in Slots : Send(t, s)
    BY <1>2
  <2>2. PICK answer \in Answers(Owner(topology, s), s) :
          /\ IsRedirect(answer)
          /\ target' = [target EXCEPT ![t] = answer.address]
          /\ pc' = [pc EXCEPT ![t] = IF answer.word = "ASK" THEN "redirect" ELSE "moved"]
    BY <2>1 DEF Send
  <2>3. UNCHANGED <<managerVars, refreshVars, serverVars>>
    BY <2>1 DEF Send
  <2>4. answer.address \in Nodes \cup {NoPrimary}
    <3>1. \A c \in Configurations : Owner(c, s) \in Nodes \cup {NoPrimary}
      BY OwnerType
    <3>2. Owner(topology, s) \in Nodes
      BY <2>1 DEF Send, TInv, TypeOK
    <3>3. view[Owner(topology, s)] \in Configurations /\ config \in Configurations
      BY <3>2 DEF TInv, TypeOK
    <3>4. QED
      BY <2>2, <3>1, <3>2, <3>3 DEF Answers
  <2>5. pc' \in [Threads -> {"idle", "moved", "redirect", "create"} \cup Refreshing]
    BY <2>2 DEF TInv, TypeOK
  <2>6. target' \in [Threads -> Nodes \cup {NoPrimary}]
    BY <2>2, <2>4 DEF TInv, Kinds
  <2>7. TypeOK' /\ Kinds'
    BY <2>3, <2>5, <2>6 DEF TInv, TypeOK, Kinds, managerVars, refreshVars, serverVars, Refreshing
  <2>8. \A u \in Threads : pc'[u] \in {"fetch", "release"} => pc'[u] = pc[u]
    BY <2>2 DEF TInv, TypeOK
  <2>9. QED
    BY <2>3, <2>7, <2>8, Undisturbed DEF managerVars, refreshVars
<1>3. QED
  BY <1>1, <1>2

LEMMA CallKeepsTInv ==
    ASSUME TInv, NEW t \in Threads, Call(t)
    PROVE  TypeOK' /\ Kinds' /\ (\A u \in Threads : Asked(u)') /\ FailsOnlyWhenCutOff'
<1>1. /\ pc \in [Threads -> {"idle", "moved", "redirect", "create"} \cup Refreshing]
      /\ candidates \in [Threads -> Seq(Nodes)] /\ failed \in [Threads -> SUBSET Nodes]
      /\ inSeeds \in [Threads -> BOOLEAN] /\ succeeded \in [Threads -> BOOLEAN]
  BY DEF TInv, TypeOK, Kinds
<1>2. CASE UseCached(t) \/ MissCache(t) \/ CreateRedirect(t) \/ RefreshElsewhere(t)
  <2>1. UNCHANGED <<seedAddresses, topology, isRefreshing, lastUpdate, refreshVars, serverVars>>
    BY <1>2 DEF UseCached, MissCache, CreateRedirect, RefreshElsewhere, managerVars
  <2>2. pc' = [pc EXCEPT ![t] = "idle"] \/ pc' = [pc EXCEPT ![t] = "create"] \/ pc' = [pc EXCEPT ![t] = "redirect"]
    BY <1>2 DEF UseCached, MissCache, CreateRedirect, RefreshElsewhere
  <2>3. target' \in [Threads -> Nodes \cup {NoPrimary}] /\ cache' \subseteq Nodes
    BY <1>2 DEF UseCached, MissCache, CreateRedirect, RefreshElsewhere, managerVars, TInv, TypeOK, Kinds
  <2>4. pc' \in [Threads -> {"idle", "moved", "redirect", "create"} \cup Refreshing]
    BY <1>1, <2>2
  <2>5. TypeOK' /\ Kinds'
    BY <2>1, <2>3, <2>4 DEF TInv, TypeOK, Kinds, refreshVars, serverVars, Refreshing
  <2>6. \A u \in Threads : pc'[u] \in {"fetch", "release"} => pc'[u] = pc[u]
    BY <1>1, <2>2
  <2>7. QED
    BY <2>1, <2>5, <2>6, Undisturbed DEF refreshVars
<1>3. CASE BeginRefresh(t)
  <2>1. /\ pc' = [pc EXCEPT ![t] = "fetch"] /\ candidates' = [candidates EXCEPT ![t] = seedAddresses]
        /\ inSeeds' = [inSeeds EXCEPT ![t] = TRUE] /\ failed' = [failed EXCEPT ![t] = {}]
        /\ isRefreshing' = TRUE
        /\ UNCHANGED <<seedAddresses, topology, lastUpdate, cache, fetched, succeeded, target, serverVars>>
    BY <1>3 DEF BeginRefresh
  <2>2. seedAddresses \in Seq(Nodes)
    BY ManagerAssumption DEF TInv, TypeOK
  <2>3. TypeOK' /\ Kinds'
    <3>1. pc' \in [Threads -> {"idle", "moved", "redirect", "create"} \cup Refreshing]
      BY <1>1, <2>1 DEF Refreshing
    <3>2. inSeeds' \in [Threads -> BOOLEAN]
      BY <1>1, <2>1, Zenon
    <3>3. candidates' \in [Threads -> Seq(Nodes)] /\ failed' \in [Threads -> SUBSET Nodes]
      BY <1>1, <2>1, <2>2
    <3>4. isRefreshing' \in BOOLEAN
      BY <2>1, Zenon
    <3>5. QED
      BY <2>1, <3>1, <3>2, <3>3, <3>4 DEF TInv, TypeOK, Kinds, serverVars, Refreshing
  <2>4. PrimariesHeld' = PrimariesHeld
    BY <2>1 DEF PrimariesHeld, Topologies
  <2>5. ASSUME NEW u \in Threads PROVE Asked(u)'
    <3>1. CASE u = t
      BY <1>1, <2>1, <3>1 DEF Asked
    <3>2. CASE u # t
      <4>1. pc'[u] = pc[u] /\ candidates'[u] = candidates[u] /\ inSeeds'[u] = inSeeds[u] /\ failed'[u] = failed[u]
        BY <1>1, <2>1, <3>2
      <4>2. QED
        BY <2>1, <2>4, <4>1 DEF TInv, Asked
    <3>3. QED
      BY <3>1, <3>2
  <2>6. FailsOnlyWhenCutOff'
    <3>1. \A u \in Threads : pc'[u] = "release" => pc[u] = "release" /\ failed'[u] = failed[u]
      BY <1>1, <2>1
    <3>2. QED
      BY <2>1, <2>4, <3>1 DEF TInv, FailsOnlyWhenCutOff
  <2>7. QED
    BY <2>3, <2>5, <2>6
<1>4. CASE FetchSucceeds(t)
  <2>1. /\ pc' = [pc EXCEPT ![t] = "install"]
        /\ fetched' = [fetched EXCEPT ![t] = view[Head(candidates[t])]]
        /\ Head(candidates[t]) \in up
        /\ UNCHANGED <<managerVars, candidates, inSeeds, succeeded, failed, target, serverVars>>
    BY <1>4 DEF FetchSucceeds
  <2>2. fetched' \in [Threads -> Configurations]
    BY <2>1 DEF TInv, TypeOK
  <2>3. pc' \in [Threads -> {"idle", "moved", "redirect", "create"} \cup Refreshing]
    BY <1>1, <2>1 DEF Refreshing
  <2>4. TypeOK' /\ Kinds'
    BY <2>1, <2>2, <2>3 DEF TInv, TypeOK, Kinds, managerVars, serverVars, Refreshing
  <2>5. \A u \in Threads : pc'[u] \in {"fetch", "release"} => pc'[u] = pc[u]
    BY <1>1, <2>1
  <2>6. QED
    BY <2>1, <2>4, <2>5, Undisturbed DEF managerVars
<1>5. CASE FetchFails(t)
  <2> DEFINE s == candidates[t]
  <2>1. /\ pc[t] = "fetch" /\ s # <<>>
        /\ candidates' = [candidates EXCEPT ![t] = Tail(s)]
        /\ failed' = [failed EXCEPT ![t] = failed[t] \cup {Head(s)}]
        /\ UNCHANGED <<managerVars, pc, inSeeds, fetched, succeeded, target, serverVars>>
    BY <1>5 DEF FetchFails
  <2>2. s \in Seq(Nodes)
    BY <1>1
  <2>3. Head(s) \in Nodes /\ Tail(s) \in Seq(Nodes) /\ ToSet(s) = {Head(s)} \cup ToSet(Tail(s))
    BY <2>1, <2>2, HeadAndTail
  <2> HIDE DEF s
  <2>4. candidates' \in [Threads -> Seq(Nodes)] /\ failed' \in [Threads -> SUBSET Nodes]
    BY <1>1, <2>1, <2>3
  <2>5. TypeOK' /\ Kinds'
    BY <2>1, <2>4 DEF TInv, TypeOK, Kinds, managerVars, serverVars, Refreshing
  <2>6. PrimariesHeld' = PrimariesHeld
    BY <2>1 DEF PrimariesHeld, Topologies, managerVars
  <2>7. ASSUME NEW u \in Threads PROVE Asked(u)'
    <3>1. Asked(u)
      BY DEF TInv
    <3>2. CASE u = t
      <4>1. candidates'[t] = Tail(s) /\ failed'[t] = failed[t] \cup {Head(s)}
        BY <1>1, <2>1
      <4>2. UNCHANGED <<seedAddresses, pc, inSeeds>>
        BY <2>1 DEF managerVars
      <4>3. QED
        BY <2>3, <2>6, <3>1, <3>2, <4>1, <4>2 DEF Asked, s
    <3>3. CASE u # t
      <4>1. candidates'[u] = candidates[u] /\ failed'[u] = failed[u]
        BY <1>1, <2>1, <3>3
      <4>2. UNCHANGED <<seedAddresses, pc, inSeeds>>
        BY <2>1 DEF managerVars
      <4>3. QED
        BY <2>6, <3>1, <4>1, <4>2 DEF Asked
    <3>4. QED
      BY <3>2, <3>3
  <2>8. FailsOnlyWhenCutOff'
    <3>1. \A u \in Threads : pc[u] = "release" => failed'[u] = failed[u]
      BY <1>1, <2>1
    <3>2. UNCHANGED <<seedAddresses, pc, succeeded>>
      BY <2>1 DEF managerVars
    <3>3. QED
      BY <2>6, <3>1, <3>2 DEF TInv, FailsOnlyWhenCutOff
  <2>9. QED
    BY <2>5, <2>7, <2>8
<1>6. CASE TryPrimaries(t)
  <2>1. /\ pc[t] = "fetch" /\ candidates[t] = <<>> /\ inSeeds[t]
        /\ candidates' = [candidates EXCEPT ![t] = OtherPrimaries]
        /\ inSeeds' = [inSeeds EXCEPT ![t] = FALSE]
        /\ UNCHANGED <<managerVars, pc, fetched, succeeded, failed, target, serverVars>>
    BY <1>6 DEF TryPrimaries
  <2>2. /\ OtherPrimaries \in Seq(Nodes)
        /\ ToSet(PrimariesHeld) \subseteq ToSet(seedAddresses) \cup ToSet(OtherPrimaries)
    BY OtherPrimariesAre DEF TInv, TypeOK
  <2>3. candidates' \in [Threads -> Seq(Nodes)]
    BY <1>1, <2>1, <2>2
  <2>4. inSeeds' \in [Threads -> BOOLEAN]
    BY <1>1, <2>1, Zenon
  <2>5. TypeOK' /\ Kinds'
    BY <2>1, <2>3, <2>4 DEF TInv, TypeOK, Kinds, managerVars, serverVars, Refreshing
  <2>6. PrimariesHeld' = PrimariesHeld /\ UNCHANGED <<seedAddresses, pc, failed, succeeded>>
    BY <2>1 DEF PrimariesHeld, Topologies, managerVars
  <2>7. ToSet(<<>>) = {}
    BY DEF ToSet
  <2>8. ToSet(seedAddresses) \subseteq failed[t]
    BY <2>1, <2>7 DEF TInv, Asked
  <2>9. ASSUME NEW u \in Threads PROVE Asked(u)'
    <3>1. CASE u = t
      <4>1. candidates'[t] = OtherPrimaries
        BY <1>1, <2>1
      <4>2. QED
        BY <2>2, <2>6, <2>8, <3>1, <4>1 DEF Asked
    <3>2. CASE u # t
      <4>1. candidates'[u] = candidates[u] /\ inSeeds'[u] = inSeeds[u]
        BY <1>1, <2>1, <3>2
      <4>2. QED
        BY <2>6, <4>1 DEF TInv, Asked
    <3>3. QED
      BY <3>1, <3>2
  <2>10. FailsOnlyWhenCutOff'
    BY <2>6 DEF TInv, FailsOnlyWhenCutOff
  <2>11. QED
    BY <2>5, <2>9, <2>10
<1>7. CASE Install(t)
  <2>1. /\ pc[t] = "install" /\ topology' = fetched[t] /\ cache' = {}
        /\ lastUpdate' = (IF lastUpdate < MaxVersion THEN lastUpdate + 1 ELSE lastUpdate)
        /\ succeeded' = [succeeded EXCEPT ![t] = TRUE] /\ pc' = [pc EXCEPT ![t] = "release"]
        /\ UNCHANGED <<seedAddresses, isRefreshing, candidates, inSeeds, fetched, failed, target, serverVars>>
    BY <1>7 DEF Install
  <2>2. topology' \in Configurations /\ lastUpdate' \in 1 .. MaxVersion /\ cache' \subseteq Nodes
    BY <2>1, ManagerAssumption DEF TInv, TypeOK
  <2>3. succeeded' \in [Threads -> BOOLEAN]
    BY <1>1, <2>1, Zenon
  <2>4. pc' \in [Threads -> {"idle", "moved", "redirect", "create"} \cup Refreshing]
    BY <1>1, <2>1 DEF Refreshing
  <2>5. TypeOK' /\ Kinds'
    BY <2>1, <2>2, <2>3, <2>4 DEF TInv, TypeOK, Kinds, serverVars, Refreshing
  <2>6. \A u \in Threads : u # t => pc'[u] \notin Refreshing
    <3>1. \A u \in Threads : u # t => pc[u] \notin Refreshing
      BY <2>1 DEF TInv, OneRefreshAtATime, Refreshing
    <3>2. QED
      BY <1>1, <2>1, <3>1
  <2>7. pc'[t] = "release" /\ succeeded'[t]
    BY <1>1, <2>1
  <2>8. QED
    BY <2>5, <2>6, <2>7 DEF Asked, FailsOnlyWhenCutOff, Refreshing
<1>8. CASE GiveUp(t)
  <2>1. /\ pc[t] = "fetch" /\ candidates[t] = <<>> /\ ~inSeeds[t]
        /\ succeeded' = [succeeded EXCEPT ![t] = FALSE] /\ pc' = [pc EXCEPT ![t] = "release"]
        /\ UNCHANGED <<managerVars, candidates, inSeeds, fetched, failed, target, serverVars>>
    BY <1>8 DEF GiveUp
  <2>2. succeeded' \in [Threads -> BOOLEAN]
    BY <1>1, <2>1, Zenon
  <2>3. pc' \in [Threads -> {"idle", "moved", "redirect", "create"} \cup Refreshing]
    BY <1>1, <2>1 DEF Refreshing
  <2>4. TypeOK' /\ Kinds'
    BY <2>1, <2>2, <2>3 DEF TInv, TypeOK, Kinds, managerVars, serverVars, Refreshing
  <2>5. PrimariesHeld' = PrimariesHeld /\ UNCHANGED <<seedAddresses, failed, candidates, inSeeds>>
    BY <2>1 DEF PrimariesHeld, Topologies, managerVars
  <2>6. ToSet(<<>>) = {}
    BY DEF ToSet
  <2>7. ToSet(seedAddresses) \cup ToSet(PrimariesHeld) \subseteq failed[t]
    BY <2>1, <2>6 DEF TInv, Asked
  <2>8. \A u \in Threads : u # t => pc'[u] = pc[u] /\ succeeded'[u] = succeeded[u]
    BY <1>1, <2>1
  <2>9. \A u \in Threads : pc'[u] = "fetch" => pc[u] = "fetch"
    BY <1>1, <2>1
  <2>10. \A u \in Threads : Asked(u)'
    BY <2>5, <2>9 DEF TInv, Asked
  <2>11. FailsOnlyWhenCutOff'
    BY <2>5, <2>7, <2>8 DEF TInv, FailsOnlyWhenCutOff
  <2>12. QED
    BY <2>4, <2>10, <2>11
<1>9. CASE Release(t)
  <2>1. /\ isRefreshing' = FALSE /\ pc' = [pc EXCEPT ![t] = "redirect"]
        /\ failed' = [failed EXCEPT ![t] = {}] /\ fetched' = [fetched EXCEPT ![t] = 1]
        /\ candidates' = [candidates EXCEPT ![t] = <<>>] /\ inSeeds' = [inSeeds EXCEPT ![t] = FALSE]
        /\ succeeded' = [succeeded EXCEPT ![t] = FALSE]
        /\ UNCHANGED <<seedAddresses, topology, lastUpdate, cache, target, serverVars>>
    BY <1>9 DEF Release
  <2>2. 1 \in Configurations
    <3>1. Len(Replies) \in Nat \ {0} /\ Configurations = 1 .. Len(Replies)
      BY ManagerAssumption, LenProperties, EmptySeq DEF Configurations
    <3>2. QED
      BY <3>1
  <2>3. fetched' \in [Threads -> Configurations] /\ failed' \in [Threads -> SUBSET Nodes]
    BY <1>1, <2>1, <2>2 DEF TInv, TypeOK
  <2>4. candidates' \in [Threads -> Seq(Nodes)]
    BY <1>1, <2>1, EmptySeq
  <2>5. inSeeds' \in [Threads -> BOOLEAN] /\ succeeded' \in [Threads -> BOOLEAN] /\ isRefreshing' \in BOOLEAN
    BY <1>1, <2>1, Zenon
  <2>6. pc' \in [Threads -> {"idle", "moved", "redirect", "create"} \cup Refreshing]
    BY <1>1, <2>1 DEF Refreshing
  <2>7. TypeOK' /\ Kinds'
    BY <2>1, <2>3, <2>4, <2>5, <2>6 DEF TInv, TypeOK, Kinds, serverVars, Refreshing
  <2>8. PrimariesHeld' = PrimariesHeld
    BY <2>1 DEF PrimariesHeld, Topologies
  <2>9. \A u \in Threads : pc'[u] \in {"fetch", "release"} =>
           /\ pc'[u] = pc[u] /\ candidates'[u] = candidates[u] /\ failed'[u] = failed[u]
           /\ inSeeds'[u] = inSeeds[u] /\ succeeded'[u] = succeeded[u]
    BY <1>1, <2>1
  <2>10. \A u \in Threads : Asked(u)'
    BY <2>1, <2>8, <2>9 DEF TInv, Asked
  <2>11. FailsOnlyWhenCutOff'
    BY <2>1, <2>8, <2>9 DEF TInv, FailsOnlyWhenCutOff
  <2>12. QED
    BY <2>7, <2>10, <2>11
<1>10. QED
  BY <1>2, <1>3, <1>4, <1>5, <1>6, <1>7, <1>8, <1>9 DEF Call, Refresh

LEMMA TInvInvariant == Spec => []TInv
<1>1. TInv /\ [Next]_vars => TInv'
  <2>1. SUFFICES ASSUME TInv, [Next]_vars PROVE TInv'
    OBVIOUS
  <2>2. OneRefreshAtATime'
    <3>1. PcOK
      BY <2>1 DEF TInv, TypeOK, PcOK
    <3>2. QED
      BY <2>1, <3>1, StepKeepsIt DEF TInv
  <2>3. TypeOK' /\ Kinds' /\ (\A t \in Threads : Asked(t)') /\ FailsOnlyWhenCutOff'
    <3>1. CASE \E t \in Threads : Call(t)
      BY <2>1, <3>1, CallKeepsTInv
    <3>2. CASE Servers \/ \E t \in Threads, s \in Slots : Send(t, s)
      BY <2>1, <3>2, OthersKeepTInv
    <3>3. CASE UNCHANGED vars
      <4>1. TypeOK' /\ Kinds'
        BY <2>1, <3>3 DEF TInv, TypeOK, Kinds, vars, managerVars, refreshVars, serverVars, Refreshing
      <4>2. QED
        BY <2>1, <3>3, <4>1, Undisturbed DEF vars, managerVars, refreshVars
    <3>4. QED
      BY <2>1, <3>1, <3>2, <3>3 DEF Next
  <2>4. QED
    BY <2>2, <2>3 DEF TInv
<1>2. Init => TInv
  BY InitTInv
<1>3. QED
  BY <1>1, <1>2, PTL DEF Spec

(* The variables of the manager keep their types: the version counts on from  *)
(* 1, and the topology held is one that some server told.                    *)
THEOREM TypeCorrect == Spec => []TypeOK
<1>1. TInv => TypeOK
  BY DEF TInv
<1>2. QED
  BY <1>1, TInvInvariant, PTL

(* A refresh that fails has been refused by every seed and by every primary  *)
(* of the topology that is held when it fails: do_refresh.                   *)
THEOREM GivesUpLast == Spec => []FailsOnlyWhenCutOff
<1>1. TInv => FailsOnlyWhenCutOff
  BY DEF TInv
<1>2. QED
  BY <1>1, TInvInvariant, PTL

-----------------------------------------------------------------------------
(* ClusterSnapshots.  What the fields of the two lists have in common.       *)
Strategies == {"integer", "memory", "float", "percentile", "cmdstats"}
FieldOK(f) ==
    /\ f.strategy \in Strategies
    /\ f.prefix \in BOOLEAN
    /\ f.prefix => f.name[1] = "cmdstat_"
    /\ f.nodes = "primary" => ~f.prefix /\ f.name[1] # "cmdstat_"
    /\ f.key = "calls" => f.strategy = "cmdstats" /\ f.nodes = "all" /\ f.perNode = TRUE

(* A list of fields in which those that ask for the same key are combined    *)
(* alike.                                                                    *)
FieldsOK(fields) ==
    /\ Len(fields) \in Nat /\ DOMAIN fields = 1 .. Len(fields)
    /\ \A i \in DOMAIN fields : FieldOK(fields[i])
    /\ \A i, j \in DOMAIN fields : \A key :
          Asks(fields[i], key) /\ Asks(fields[j], key) =>
              fields[i].aggregation = fields[j].aggregation /\ fields[i].perNode = fields[j].perNode

LEMMA CmdstatOK ==
    ASSUME NEW name, name[1] = "cmdstat_", NEW stat
    PROVE  /\ FieldOK(Cmdstat(name, stat)) /\ Cmdstat(name, stat).key = stat
           /\ Cmdstat(name, stat).perNode = TRUE
           /\ Cmdstat(name, stat).aggregation = IF stat = "usec_per_call" THEN "average" ELSE "sum"
  BY DEF FieldOK, Strategies, Cmdstat, Parsed, NewField

LEMMA InfoFieldsOK == FieldsOK(DefaultInfoFields)
<1> DEFINE F == DefaultInfoFields
<1>1. /\ F[1] = PrimaryOnly(Parsed(NewField(<<"used_memory">>), "memory", NoKey))
      /\ F[2] = Counter(<<"keyspace_hits">>) /\ F[3] = Counter(<<"keyspace_misses">>)
      /\ Len(F) = 10 /\ DOMAIN F = 1 .. 10
  BY DEF DefaultInfoFields
<1>2. /\ FieldOK(F[1]) /\ FieldOK(F[2]) /\ FieldOK(F[3])
      /\ F[1].key = NoKey /\ F[2].key = NoKey /\ F[3].key = NoKey
      /\ F[1].name = <<"used_memory">> /\ F[2].name = <<"keyspace_hits">> /\ F[3].name = <<"keyspace_misses">>
      /\ F[1].prefix = FALSE /\ F[2].prefix = FALSE /\ F[3].prefix = FALSE
  BY <1>1 DEF FieldOK, Strategies, Counter, Parsed, NewField, PrimaryOnly, NoKey
<1>3. \A i \in 4 .. 10 :
        /\ FieldOK(F[i]) /\ F[i].key # NoKey /\ F[i].perNode = TRUE
        /\ F[i].aggregation = IF F[i].key = "usec_per_call" THEN "average" ELSE "sum"
  <2>1. <<"cmdstat_", "FT.SEARCH">>[1] = "cmdstat_" /\ <<"cmdstat_">>[1] = "cmdstat_"
    OBVIOUS
  <2>2. \A i \in 4 .. 10 :
          \E name \in {<<"cmdstat_", "FT.SEARCH">>, <<"cmdstat_">>},
             stat \in {"calls", "usec", "usec_per_call", "rejected", "failed"} :
              F[i] = Cmdstat(name, stat)
    <3>1. /\ F[4] = Cmdstat(<<"cmdstat_", "FT.SEARCH">>, "calls")
          /\ F[5] = Cmdstat(<<"cmdstat_", "FT.SEARCH">>, "usec")
          /\ F[6] = Cmdstat(<<"cmdstat_", "FT.SEARCH">>, "usec_per_call")
          /\ F[7] = Cmdstat(<<"cmdstat_", "FT.SEARCH">>, "rejected")
          /\ F[8] = Cmdstat(<<"cmdstat_", "FT.SEARCH">>, "failed")
          /\ F[9] = Cmdstat(<<"cmdstat_">>, "calls") /\ F[10] = Cmdstat(<<"cmdstat_">>, "usec")
      BY DEF DefaultInfoFields
    <3>2. \A i \in 4 .. 10 : i = 4 \/ i = 5 \/ i = 6 \/ i = 7 \/ i = 8 \/ i = 9 \/ i = 10
      OBVIOUS
    <3> HIDE DEF F
    <3>3. QED BY <3>1, <3>2, Zenon
  <2> HIDE DEF F
  <2>3. TAKE i \in 4 .. 10
  <2>4. PICK name \in {<<"cmdstat_", "FT.SEARCH">>, <<"cmdstat_">>},
             stat \in {"calls", "usec", "usec_per_call", "rejected", "failed"} :
              F[i] = Cmdstat(name, stat)
    BY <2>2, <2>3
  <2>5. name[1] = "cmdstat_" /\ stat # NoKey
    BY <2>1, <2>4 DEF NoKey
  <2>6. /\ FieldOK(F[i]) /\ F[i].key = stat /\ F[i].perNode = TRUE
        /\ F[i].aggregation = IF stat = "usec_per_call" THEN "average" ELSE "sum"
    <3>1. /\ FieldOK(Cmdstat(name, stat)) /\ Cmdstat(name, stat).key = stat
          /\ Cmdstat(name, stat).perNode = TRUE
          /\ Cmdstat(name, stat).aggregation = IF stat = "usec_per_call" THEN "average" ELSE "sum"
      BY <2>5, CmdstatOK
    <3>2. QED BY ONLY <2>4, <3>1
  <2>7. QED
    BY <2>5, <2>6
<1> HIDE DEF F
<1>4. \A i \in 1 .. 3 : \A line : Matches(F[i], line) => line = F[i].name
  BY <1>2 DEF Matches
<1>5. \A i, j \in 1 .. 3 : F[i].name = F[j].name => i = j
  BY <1>2
<1>6. ASSUME NEW i \in 1 .. 10, NEW j \in 1 .. 10, NEW key, Asks(F[i], key), Asks(F[j], key)
      PROVE  F[i].aggregation = F[j].aggregation /\ F[i].perNode = F[j].perNode
  <2>1. F[i].key = F[j].key /\ Matches(F[i], key[1]) /\ Matches(F[j], key[1])
    BY <1>6 DEF Asks
  <2>2. CASE i \in 1 .. 3 /\ j \in 1 .. 3
    <3>1. F[i].name = F[j].name
      BY <1>4, <2>1, <2>2
    <3>2. QED BY <1>5, <2>2, <3>1
  <2>3. CASE i \in 4 .. 10 /\ j \in 4 .. 10
    <3>1. F[i].aggregation = IF F[i].key = "usec_per_call" THEN "average" ELSE "sum"
      BY <1>3, <2>3
    <3>2. F[j].aggregation = IF F[j].key = "usec_per_call" THEN "average" ELSE "sum"
      BY <1>3, <2>3
    <3>3. F[i].perNode = TRUE /\ F[j].perNode = TRUE
      BY <1>3, <2>3
    <3>4. QED BY ONLY <2>1, <3>1, <3>2, <3>3
  <2>4. CASE ~(i \in 1 .. 3 <=> j \in 1 .. 3)
    BY <1>2, <1>3, <2>1, <2>4
  <2>5. QED BY <2>2, <2>3, <2>4
<1>7. \A i \in 1 .. 10 : FieldOK(F[i])
  BY <1>2, <1>3
<1>8. FieldsOK(F)
  BY <1>1, <1>6, <1>7 DEF FieldsOK
<1>9. QED BY <1>8 DEF F

(* A field that reads a number under a name of its own.                      *)
Plain(f, name) == f.name = name /\ f.prefix = FALSE /\ f.strategy \in Strategies /\ f.key = NoKey

LEMMA PresetsArePlain ==
    ASSUME NEW name
    PROVE  /\ Plain(Counter(name), name) /\ Plain(CounterPrimary(name), name)
           /\ Plain(MemoryField(name), name) /\ Plain(MaxValue(name), name)
           /\ Plain(FloatRate(name), name) /\ Plain(FloatRatePrimary(name), name)
           /\ Plain(Percentage(name), name) /\ Plain(PercentagePrimary(name), name)
           /\ Plain(AverageField(name), name) /\ Plain(AveragePrimary(name), name)
           /\ Plain(Gauge(name), name) /\ Plain(GaugeAll(name), name) /\ Plain(Status(name), name)
           /\ Plain(Aggregated(NewField(name), "minmax"), name)
<1>1. Plain(Counter(name), name) /\ Plain(CounterPrimary(name), name) /\ Plain(MemoryField(name), name)
  BY DEF Plain, Strategies, Counter, CounterPrimary, MemoryField, NewField, PrimaryOnly
<1>2. Plain(MaxValue(name), name) /\ Plain(Aggregated(NewField(name), "minmax"), name)
  BY DEF Plain, Strategies, MaxValue, Aggregated, NewField, PrimaryOnly
<1>3. Plain(FloatRate(name), name) /\ Plain(FloatRatePrimary(name), name)
  BY DEF Plain, Strategies, FloatRate, FloatRatePrimary, Parsed, NewField, PrimaryOnly
<1>4. Plain(Percentage(name), name) /\ Plain(PercentagePrimary(name), name)
  BY DEF Plain, Strategies, Percentage, PercentagePrimary, AverageField, Aggregated, Parsed, NewField,
         PrimaryOnly
<1>5. Plain(AverageField(name), name) /\ Plain(AveragePrimary(name), name)
  BY DEF Plain, Strategies, AverageField, AveragePrimary, Aggregated, NewField, PrimaryOnly
<1>6. Plain(Gauge(name), name) /\ Plain(GaugeAll(name), name) /\ Plain(Status(name), name)
  BY DEF Plain, Strategies, Gauge, GaugeAll, Status, NewField, PrimaryOnly, NoPerNode
<1>7. QED BY <1>1, <1>2, <1>3, <1>4, <1>5, <1>6

LEMMA SearchFieldsOK == FieldsOK(DefaultSearchInfoFields)
<1> DEFINE F == DefaultSearchInfoFields
           Word == <<"requests", "indexed_keys", "used_memory", "lag", "read_cpu", "write_cpu",
                     "used_read_cpu", "used_write_cpu", "queue", "writer_queue", "latency", "latency",
                     "indexes", "queries", "status", "write_threads">>
           Key(i) == IF i = 11 THEN "p50" ELSE IF i = 12 THEN "p99" ELSE NoKey
           Followed(i) ==
        /\ F[i].name = <<"search_", Word[i]>> /\ F[i].prefix = FALSE /\ F[i].strategy \in Strategies
        /\ F[i].key = Key(i)
<1>1. Len(F) = 16 /\ DOMAIN F = 1 .. 16
  BY DEF DefaultSearchInfoFields
<1>2. \A i \in 1 .. 16 : Followed(i)
  <2>1. \A i \in (1 .. 16) \ {11, 12} : Plain(F[i], <<"search_", Word[i]>>)
    <3>1. \A i \in 1 .. 8 : Plain(F[i], <<"search_", Word[i]>>)
      BY PresetsArePlain DEF DefaultSearchInfoFields
    <3>2. \A i \in 9 .. 16 : i \notin {11, 12} => Plain(F[i], <<"search_", Word[i]>>)
      BY PresetsArePlain DEF DefaultSearchInfoFields
    <3> HIDE DEF F, Word
    <3>3. QED BY <3>1, <3>2
  <2>2. /\ F[11] = LatencyPercentile(<<"search_", Word[11]>>, "p50")
        /\ F[12] = LatencyPercentile(<<"search_", Word[12]>>, "p99")
    BY DEF DefaultSearchInfoFields
  <2> HIDE DEF F, Word
  <2>3. Followed(11) /\ Followed(12)
    BY <2>2 DEF LatencyPercentile, Aggregated, Parsed, NewField, Strategies
  <2>4. QED BY <2>1, <2>3 DEF Plain
<1>3. \A i, j \in 1 .. 16 : Word[i] = Word[j] => i = j \/ (i = 11 /\ j = 12) \/ (i = 12 /\ j = 11)
  OBVIOUS
<1> HIDE DEF F, Word
<1>4. \A i \in 1 .. 16 : FieldOK(F[i])
  <2>1. TAKE i \in 1 .. 16
  <2>2. F[i].name[1] = "search_" /\ F[i].prefix = FALSE /\ F[i].key # "calls" /\ F[i].strategy \in Strategies
    BY <1>2, <2>1 DEF NoKey
  <2>3. QED BY <2>2 DEF FieldOK
<1>5. ASSUME NEW i \in 1 .. 16, NEW j \in 1 .. 16, NEW key, Asks(F[i], key), Asks(F[j], key)
      PROVE  i = j
  <2>1. F[i].key = F[j].key /\ key[1] = <<"search_", Word[i]>> /\ key[1] = <<"search_", Word[j]>>
    BY <1>2, <1>5 DEF Asks, Matches
  <2>2. Word[i] = Word[j]
    BY <2>1
  <2>3. Key(i) = Key(j)
    BY <1>2, <2>1
  <2>4. QED BY <1>3, <2>2, <2>3 DEF NoKey
<1>6. \A i, j \in 1 .. 16 : \A key : Asks(F[i], key) /\ Asks(F[j], key) => i = j
  BY <1>5
<1>7. FieldsOK(F)
  <2>1. ASSUME NEW i \in 1 .. 16, NEW j \in 1 .. 16, NEW key, Asks(F[i], key), Asks(F[j], key)
        PROVE  F[i].aggregation = F[j].aggregation /\ F[i].perNode = F[j].perNode
    BY <1>6, <2>1
  <2>2. \A i, j \in DOMAIN F : \A key :
          Asks(F[i], key) /\ Asks(F[j], key) =>
              F[i].aggregation = F[j].aggregation /\ F[i].perNode = F[j].perNode
    BY ONLY <1>1, <2>1
  <2>3. Len(F) \in Nat /\ DOMAIN F = 1 .. Len(F) /\ \A i \in DOMAIN F : FieldOK(F[i])
    BY ONLY <1>1, <1>4
  <2>4. QED BY ONLY <2>2, <2>3 DEF FieldsOK
<1>8. QED BY <1>7 DEF F

-----------------------------------------------------------------------------
(* What INFO says of a node that has executed counts.                        *)
Counts == [Commands -> Nat]

LEMMA InfoLines ==
    ASSUME NEW counts \in Counts
    PROVE  /\ DOMAIN Info(counts) = Gauges \cup Statistics(counts)
           /\ \A c \in Commands : <<"cmdstat_", c>> \in DOMAIN Info(counts) <=> counts[c] > 0
           /\ \A line \in Gauges : line[1] # "cmdstat_"
           /\ \A line \in Statistics(counts) : line[1] = "cmdstat_"
<1>1. DOMAIN Info(counts) = Gauges \cup Statistics(counts)
  BY DEF Info
<1>2. \A line \in Gauges : line[1] # "cmdstat_"
  BY DEF Gauges
<1>3. \A line \in Statistics(counts) : line[1] = "cmdstat_"
  BY DEF Statistics
<1>4. ASSUME NEW c \in Commands
      PROVE  <<"cmdstat_", c>> \in DOMAIN Info(counts) <=> counts[c] > 0
  <2>1. <<"cmdstat_", c>> \notin Gauges
    BY <1>2
  <2>2. <<"cmdstat_", c>> \in Statistics(counts) <=> counts[c] > 0
    BY DEF Statistics
  <2>3. QED BY <1>1, <2>1, <2>2
<1>5. QED BY <1>1, <1>2, <1>3, <1>4

LEMMA CallsOfCommand ==
    ASSUME NEW counts \in Counts, NEW c \in Commands, counts[c] > 0
    PROVE  LET raw == Info(counts)[<<"cmdstat_", c>>]
           IN  raw.form = "pairs" /\ "calls" \in DOMAIN raw.pairs /\ raw.pairs["calls"] = counts[c]
<1> DEFINE line == <<"cmdstat_", c>>
<1>1. line \in Gauges \cup Statistics(counts) /\ line \notin Gauges
  BY InfoLines
<1>2. Info(counts)[line] =
        Pairs([calls |-> counts[line[2]], usec |-> 2 * counts[line[2]],
               usec_per_call |-> 2, rejected_calls |-> 0, failed_calls |-> 0])
  BY <1>1 DEF Info, Gauges
<1>3. QED BY <1>2 DEF Pairs

(* Whether a gauge can be read does not depend on what was executed.         *)
LEMMA GaugeForm ==
    ASSUME NEW counts \in Counts, NEW others \in Counts, NEW line \in Gauges, NEW f
    PROVE  CanParse(f, Info(counts)[line]) <=> CanParse(f, Info(others)[line])
<1> DEFINE raw == Info(counts)[line]
           other == Info(others)[line]
<1>1. /\ raw.form = other.form
      /\ raw.form = "pairs" => DOMAIN raw.pairs = DOMAIN other.pairs
  BY DEF Info, Gauges, Whole, Size, Pairs
<1> HIDE DEF raw, other
<1>2. CanParse(f, raw) <=> CanParse(f, other)
  BY <1>1 DEF CanParse
<1>3. QED BY <1>2 DEF raw, other

(* Every value is a number.                                                  *)
LEMMA ValuesAreNumbers ==
    ASSUME NEW counts \in Counts, NEW line \in DOMAIN Info(counts), NEW f, f.strategy \in Strategies,
           CanParse(f, Info(counts)[line])
    PROVE  ParseValue(f, Info(counts)[line]) \in Int
<1> DEFINE raw == Info(counts)[line]
<1>1. \/ raw.form \in {"whole", "size"} /\ raw.number \in Nat
      \/ raw.form = "pairs" /\ \A k \in DOMAIN raw.pairs : raw.pairs[k] \in Nat
  <2>1. CASE line \in Gauges
    <3>1. counts["GET"] \in Nat /\ counts["FT.SEARCH"] \in Nat /\ Total(counts) \in Nat
      BY DEF Counts, Commands, Total
    <3> DEFINE n == counts["FT.SEARCH"]
    <3>2. \/ raw \in {Whole(1 + Total(counts)), Whole(counts["GET"]), Whole(n), Size(1 + n), Whole(Total(counts))}
          \/ raw = Pairs([p50 |-> 1, p99 |-> 1 + n])
      BY <2>1 DEF Info, Gauges
    <3> HIDE DEF raw, n
    <3>3. n \in Nat
      BY <3>1 DEF n
    <3>4. CASE raw = Pairs([p50 |-> 1, p99 |-> 1 + n])
      BY <3>3, <3>4 DEF Pairs
    <3>5. CASE raw # Pairs([p50 |-> 1, p99 |-> 1 + n])
      BY <3>1, <3>2, <3>3, <3>5 DEF Whole, Size
    <3>6. QED BY <3>4, <3>5
  <2>2. CASE line \in Statistics(counts) /\ line \notin Gauges
    <3>1. line[2] \in Commands
      BY <2>2 DEF Statistics
    <3>2. QED BY <2>2, <3>1 DEF Info, Gauges, Pairs, Counts
  <2>3. QED BY <2>1, <2>2, InfoLines
<1> HIDE DEF raw
<1>2. CanParse(f, raw)
  BY DEF raw
<1>3. ParseValue(f, raw) \in Int
  BY <1>1, <1>2 DEF CanParse, ParseValue, Strategies
<1>4. QED BY <1>3 DEF raw

-----------------------------------------------------------------------------
(* What a snapshot keeps of a node: the last field that can read a line says *)
(* how.                                                                      *)
Hit(fields, info, isPrimary, h, line) ==
    /\ h \in DOMAIN fields /\ line \in DOMAIN info
    /\ Matches(fields[h], line) /\ Includes(fields[h], isPrimary) /\ CanParse(fields[h], info[line])

LEMMA NodeKeys ==
    ASSUME NEW fields, NEW info, NEW isPrimary, NEW key
    PROVE  key \in DOMAIN NodeValues(fields, info, isPrimary) <=>
               \E h \in DOMAIN fields, line \in DOMAIN info :
                   Hit(fields, info, isPrimary, h, line) /\ key = <<line, fields[h].key>>
<1> DEFINE hits == {hit \in (DOMAIN fields) \X (DOMAIN info) :
                      /\ Matches(fields[hit[1]], hit[2]) /\ Includes(fields[hit[1]], isPrimary)
                      /\ CanParse(fields[hit[1]], info[hit[2]])}
<1>1. DOMAIN NodeValues(fields, info, isPrimary) = {<<h[2], fields[h[1]].key>> : h \in hits}
  BY DEF NodeValues, FieldKey
<1>2. \A h \in DOMAIN fields, line \in DOMAIN info :
        Hit(fields, info, isPrimary, h, line) <=> <<h, line>> \in hits
  BY DEF Hit
<1>3. \A x \in hits : x = <<x[1], x[2]>> /\ x[1] \in DOMAIN fields /\ x[2] \in DOMAIN info
  OBVIOUS
<1> HIDE DEF hits
<1>4. ASSUME NEW h \in DOMAIN fields, NEW line \in DOMAIN info, Hit(fields, info, isPrimary, h, line),
             key = <<line, fields[h].key>>
      PROVE  key \in DOMAIN NodeValues(fields, info, isPrimary)
  <2>1. <<h, line>> \in hits
    BY <1>2, <1>4
  <2> DEFINE x == <<h, line>>
  <2>2. x[1] = h /\ x[2] = line
    OBVIOUS
  <2> HIDE DEF x
  <2>3. key = <<x[2], fields[x[1]].key>> /\ x \in hits
    BY <1>4, <2>1, <2>2 DEF x
  <2>4. QED BY <1>1, <2>3
<1>5. ASSUME key \in DOMAIN NodeValues(fields, info, isPrimary)
      PROVE  \E h \in DOMAIN fields, line \in DOMAIN info :
                 Hit(fields, info, isPrimary, h, line) /\ key = <<line, fields[h].key>>
  <2>1. PICK x \in hits : key = <<x[2], fields[x[1]].key>>
    BY <1>1, <1>5
  <2>2. Hit(fields, info, isPrimary, x[1], x[2])
    BY <1>2, <1>3
  <2>3. QED BY <1>3, <2>1, <2>2
<1>6. QED BY <1>4, <1>5

LEMMA NodeValue ==
    ASSUME NEW fields, DOMAIN fields = 1 .. Len(fields), Len(fields) \in Nat,
           NEW info, NEW isPrimary, NEW key \in DOMAIN NodeValues(fields, info, isPrimary)
    PROVE  \E h \in DOMAIN fields :
               /\ Hit(fields, info, isPrimary, h, key[1]) /\ fields[h].key = key[2]
               /\ NodeValues(fields, info, isPrimary)[key] = ParseValue(fields[h], info[key[1]])
<1> DEFINE hits == {hit \in (DOMAIN fields) \X (DOMAIN info) :
                      /\ Matches(fields[hit[1]], hit[2]) /\ Includes(fields[hit[1]], isPrimary)
                      /\ CanParse(fields[hit[1]], info[hit[2]])}
           S == {h[1] : h \in {x \in hits : <<x[2], fields[x[1]].key>> = key}}
<1>1. NodeValues(fields, info, isPrimary)[key] = ParseValue(fields[Max(S)], info[key[1]])
  BY DEF NodeValues, FieldKey
<1>2. DOMAIN NodeValues(fields, info, isPrimary) = {<<h[2], fields[h[1]].key>> : h \in hits}
  BY DEF NodeValues, FieldKey
<1>3. S \in SUBSET (1 .. Len(fields)) /\ S # {}
  <2>1. PICK x \in hits : key = <<x[2], fields[x[1]].key>>
    BY <1>2
  <2>2. x[1] \in S
    BY <2>1
  <2>3. QED BY <2>2
<1>4. Max(S) \in S
  <2> HIDE DEF S
  <2>1. QED BY <1>3, GreatestIsIn
<1>5. PICK x \in hits : x[1] = Max(S) /\ <<x[2], fields[x[1]].key>> = key
  <2> DEFINE m == Max(S)
  <2>1. m \in S
    BY <1>4
  <2> HIDE DEF m
  <2>2. \E x \in hits : x[1] = m /\ <<x[2], fields[x[1]].key>> = key
    BY <2>1
  <2>3. QED BY <2>2 DEF m
<1>6. Hit(fields, info, isPrimary, x[1], x[2]) /\ x[1] \in DOMAIN fields
  BY DEF Hit
<1>7. x[2] = key[1] /\ fields[x[1]].key = key[2]
  BY <1>5
<1> HIDE DEF S, hits
<1>8. QED BY <1>1, <1>5, <1>6, <1>7

(* A gauge that only primaries are asked for does not come and go with the   *)
(* traffic.                                                                  *)
LEMMA GaugesStay ==
    ASSUME NEW fields, FieldsOK(fields), NEW counts \in Counts, NEW others \in Counts, NEW isPrimary,
           NEW f \in DOMAIN fields, fields[f].nodes = "primary", NEW key, Asks(fields[f], key),
           key \in DOMAIN NodeValues(fields, Info(counts), isPrimary)
    PROVE  key \in DOMAIN NodeValues(fields, Info(others), isPrimary)
<1>1. PICK h \in DOMAIN fields, line \in DOMAIN Info(counts) :
         Hit(fields, Info(counts), isPrimary, h, line) /\ key = <<line, fields[h].key>>
  BY NodeKeys
<1>2. key[1] = line /\ line = fields[f].name /\ line[1] # "cmdstat_"
  <2>1. FieldOK(fields[f])
    BY DEF FieldsOK
  <2>2. fields[f].prefix = FALSE /\ fields[f].name[1] # "cmdstat_"
    BY <2>1 DEF FieldOK
  <2>3. key[1] = line
    BY <1>1
  <2>4. QED BY <2>2, <2>3 DEF Asks, Matches
<1>3. line \in Gauges /\ line \in DOMAIN Info(others)
  BY <1>2, InfoLines
<1>4. Hit(fields, Info(others), isPrimary, h, line)
  BY <1>1, <1>3, GaugeForm DEF Hit
<1>5. QED BY <1>1, <1>3, <1>4, NodeKeys

(* The calls of a command are kept when there are any, as they are.          *)
LEMMA CallsKept ==
    ASSUME NEW fields, FieldsOK(fields), NEW counts \in Counts, NEW isPrimary, NEW c \in Commands
    PROVE  LET kept == NodeValues(fields, Info(counts), isPrimary)
           IN  /\ Calls(c) \in DOMAIN kept => counts[c] > 0 /\ kept[Calls(c)] = counts[c]
               /\ counts[c] > 0 /\ (\E f \in DOMAIN fields : Asks(fields[f], Calls(c))) =>
                     Calls(c) \in DOMAIN kept
<1> DEFINE line == <<"cmdstat_", c>>
           kept == NodeValues(fields, Info(counts), isPrimary)
<1>1. Calls(c) = <<line, "calls">> /\ Calls(c)[1] = line /\ Calls(c)[2] = "calls"
  BY DEF Calls
<1>2. \A h \in DOMAIN fields : FieldOK(fields[h])
  BY DEF FieldsOK
<1>3. ASSUME Calls(c) \in DOMAIN kept
      PROVE  counts[c] > 0 /\ kept[Calls(c)] = counts[c]
  <2>1. PICK h \in DOMAIN fields :
           /\ Hit(fields, Info(counts), isPrimary, h, line) /\ fields[h].key = "calls"
           /\ kept[Calls(c)] = ParseValue(fields[h], Info(counts)[line])
    <3> HIDE DEF line
    <3>1. QED BY <1>1, <1>3, NodeValue DEF FieldsOK
  <2>2. counts[c] > 0
    BY <2>1, InfoLines DEF Hit
  <2>3. fields[h].strategy = "cmdstats"
    BY <1>2, <2>1 DEF FieldOK
  <2>4. ParseValue(fields[h], Info(counts)[line]) = Info(counts)[line].pairs["calls"]
    BY <2>1, <2>3 DEF ParseValue
  <2>5. QED BY <2>1, <2>2, <2>4, CallsOfCommand
<1>4. ASSUME counts[c] > 0, NEW f \in DOMAIN fields, Asks(fields[f], Calls(c))
      PROVE  Calls(c) \in DOMAIN kept
  <2>1. Matches(fields[f], line) /\ fields[f].key = "calls"
    BY <1>1, <1>4 DEF Asks
  <2>2. fields[f].strategy = "cmdstats" /\ fields[f].nodes = "all"
    BY <1>2, <2>1 DEF FieldOK
  <2>3. line \in DOMAIN Info(counts)
    BY <1>4, InfoLines
  <2>4. CanParse(fields[f], Info(counts)[line])
    BY <1>4, <2>1, <2>2, CallsOfCommand DEF CanParse
  <2>5. Hit(fields, Info(counts), isPrimary, f, line)
    BY <2>1, <2>2, <2>3, <2>4 DEF Hit, Includes
  <2>6. QED BY <1>1, <2>1, <2>3, <2>5, NodeKeys
<1>5. QED BY <1>3, <1>4

LEMMA KeptAreNumbers ==
    ASSUME NEW fields, FieldsOK(fields), NEW counts \in Counts, NEW isPrimary,
           NEW key \in DOMAIN NodeValues(fields, Info(counts), isPrimary)
    PROVE  NodeValues(fields, Info(counts), isPrimary)[key] \in Int
<1>1. PICK h \in DOMAIN fields :
         /\ Hit(fields, Info(counts), isPrimary, h, key[1])
         /\ NodeValues(fields, Info(counts), isPrimary)[key] = ParseValue(fields[h], Info(counts)[key[1]])
  BY NodeValue DEF FieldsOK
<1>2. fields[h].strategy \in Strategies
  BY DEF FieldsOK, FieldOK
<1>3. QED BY <1>1, <1>2, ValuesAreNumbers DEF Hit

-----------------------------------------------------------------------------
(* What the snapshots hold: the counts of each node when it was asked, and   *)
(* for a node that was not restarted these are the ones before the test and  *)
(* the ones with the test's commands.                                        *)
Carried(n) == [c \in Commands |-> setup.ran[n][c] + sent[n][c]]

Taken(values, n, counted) ==
    \E counts \in Counts :
        /\ values = NodeValues(setup.fields, Info(counts), IsPrimary(n))
        /\ n \notin restarted => counts = counted

SnapshotInv ==
    /\ SnapshotTypeOK
    /\ \A n \in Nodes \ restarted : ran[n] = Carried(n)
    /\ \A i \in DOMAIN before : Taken(before[i], Addresses[i], setup.ran[Addresses[i]])
    /\ \A i \in DOMAIN after : Taken(after[i], Addresses[i], Carried(Addresses[i]))
    /\ stage = "before" => \A n \in Nodes, c \in Commands : sent[n][c] = 0
    /\ stage \in {"before", "running"} => DOMAIN after = {}

LEMMA SetupOK ==
    ASSUME setup \in Setups
    PROVE  /\ Addresses \in Seq(Nodes) /\ ToSet(Primaries(known)) \subseteq Nodes
           /\ Len(Addresses) \in Nat /\ DOMAIN Addresses = 1 .. Len(Addresses)
           /\ \A i \in DOMAIN Addresses : Addresses[i] \in Nodes
           /\ FieldsOK(setup.fields)
           /\ setup.ran \in [Nodes -> Counts]
<1>1. /\ setup.lines \in Seq(Lines) /\ setup.addresses \in Seq(Nodes)
      /\ setup.readFrom \in {"primary", "preferReplica", "all"}
      /\ setup.fields \in {DefaultInfoFields, DefaultSearchInfoFields}
      /\ setup.ran \in [Nodes -> [Commands -> Nat]]
  BY SnapshotsAssumption
<1>2. known = FromClusterNodes(setup.lines)
  BY DEF known, Discovered
<1>3. known.nodes \in Seq(ParsedLines)
  BY <1>1, <1>2, TopologyNodes
<1>4. Addresses = IF setup.lines # <<>> THEN SelectNodes(known, setup.readFrom) ELSE setup.addresses
  BY DEF Addresses, BenchmarkAddresses, known
<1> HIDE DEF known, Addresses
<1>5. SelectNodes(known, setup.readFrom) \in Seq(Nodes)
  <2> DEFINE available(roles) ==
               LET chosen == Kept(known.nodes,
                                  {node \in ToSet(known.nodes) : node.role \in roles /\ IsAvailable(node)})
               IN  [i \in DOMAIN chosen |-> chosen[i].address]
  <2>1. \A roles : available(roles) \in Seq(Nodes)
    BY <1>3, AddressesOfKept
  <2>2. SelectNodes(known, setup.readFrom) \in
          {available({"primary"}), available({"replica"}), available({"primary", "replica", "other"})}
    BY <1>1 DEF SelectNodes
  <2> HIDE DEF available
  <2>3. QED BY <2>1, <2>2
<1>6. ToSet(Primaries(known)) \subseteq Nodes
  <2> DEFINE chosen == Kept(known.nodes, {node \in ToSet(known.nodes) : node.role = "primary"})
  <2>1. Primaries(known) = [i \in DOMAIN chosen |-> chosen[i].address]
    BY DEF Primaries
  <2>2. [i \in DOMAIN chosen |-> chosen[i].address] \in Seq(Nodes)
    BY <1>3, AddressesOfKept
  <2>3. Primaries(known) \in Seq(Nodes)
    BY <2>1, <2>2
  <2>4. QED BY <2>3, LenProperties, ElementOfSeq DEF ToSet
<1>7. FieldsOK(setup.fields)
  BY <1>1, InfoFieldsOK, SearchFieldsOK
<1>8. Addresses \in Seq(Nodes)
  BY <1>1, <1>4, <1>5
<1>9. QED
  BY <1>1, <1>6, <1>7, <1>8, LenProperties, ElementOfSeq DEF Counts

LEMMA SnapshotInitInv ==
    ASSUME SnapshotInit
    PROVE  SnapshotInv
<1>1. setup \in Setups
  BY DEF SnapshotInit
<1>2. SnapshotTypeOK
  BY <1>1, SetupOK, SnapshotsAssumption DEF SnapshotInit, SnapshotTypeOK, Counts
<1>3. \A n \in Nodes : ran[n] = Carried(n)
  <2>1. TAKE n \in Nodes
  <2>2. ran[n] \in [Commands -> Nat] /\ setup.ran[n] = ran[n] /\ \A c \in Commands : sent[n][c] = 0
    BY <1>1, <2>1, SetupOK DEF SnapshotInit, Counts
  <2>3. QED BY <2>2 DEF Carried
<1>4. DOMAIN before = {} /\ DOMAIN after = {} /\ \A n \in Nodes, c \in Commands : sent[n][c] = 0
  BY DEF SnapshotInit
<1>5. QED
  BY <1>2, <1>3, <1>4 DEF SnapshotInv

(* What is held stays true while nothing is sent: a restart only makes less  *)
(* be known.                                                                 *)
LEMMA HeldStays ==
    ASSUME SnapshotInv, UNCHANGED <<setup, sent>>, restarted \subseteq restarted'
    PROVE  /\ Addresses' = Addresses
           /\ \A i : IsPrimary(Addresses[i])' = IsPrimary(Addresses[i])
           /\ \A i : Carried(Addresses[i])' = Carried(Addresses[i])
           /\ \A n : Carried(n)' = Carried(n)
           /\ \A i \in DOMAIN before : before'[i] = before[i] =>
                 Taken(before[i], Addresses[i], setup.ran[Addresses[i]])'
           /\ \A i \in DOMAIN after : after'[i] = after[i] =>
                 Taken(after[i], Addresses[i], Carried(Addresses[i]))'
<1>1. /\ Addresses' = Addresses /\ \A n : Carried(n)' = Carried(n)
      /\ \A i : Carried(Addresses[i])' = Carried(Addresses[i])
  BY DEF Addresses, Carried
<1>2. \A i : IsPrimary(Addresses[i])' = IsPrimary(Addresses[i])
  BY <1>1 DEF IsPrimary, Clustered, known
<1>3. ASSUME NEW i \in DOMAIN before, before'[i] = before[i]
      PROVE  Taken(before[i], Addresses[i], setup.ran[Addresses[i]])'
  <2>1. Taken(before[i], Addresses[i], setup.ran[Addresses[i]])
    BY DEF SnapshotInv
  <2>2. QED BY <1>1, <1>2, <1>3, <2>1 DEF Taken
<1>4. ASSUME NEW i \in DOMAIN after, after'[i] = after[i]
      PROVE  Taken(after[i], Addresses[i], Carried(Addresses[i]))'
  <2>1. Taken(after[i], Addresses[i], Carried(Addresses[i]))
    BY DEF SnapshotInv
  <2>2. QED BY <1>1, <1>2, <1>4, <2>1 DEF Taken
<1>5. QED BY <1>1, <1>2, <1>3, <1>4

LEMMA SnapshotTypeStep ==
    ASSUME SnapshotInv, SnapshotNext
    PROVE  SnapshotTypeOK'
<1>1. /\ setup \in Setups
      /\ stage \in {"before", "running", "after", "compared"}
      /\ at \in 1 .. Len(Addresses) + 1
      /\ DOMAIN before \subseteq DOMAIN Addresses /\ DOMAIN after \subseteq DOMAIN Addresses
      /\ reachable \subseteq Nodes /\ primaries \subseteq Nodes /\ restarted \subseteq Nodes
      /\ disconnects \in 0 .. MaxDisconnects
      /\ ran \in [Nodes -> [Commands -> Nat]] /\ sent \in [Nodes -> [Commands -> Nat]]
  BY DEF SnapshotInv, SnapshotTypeOK
<1>2. MaxDisconnects \in Nat /\ Len(Addresses) \in Nat /\ DOMAIN Addresses = 1 .. Len(Addresses)
  BY <1>1, SnapshotsAssumption, SetupOK
<1>3. setup' = setup
  BY DEF SnapshotNext, MainThread, CaptureNode, StartWorkers, JoinWorkers, Compare, Server, Execute,
         Disconnect, Reconnect, Restart, Failover, captureVars
<1>4. Addresses' = Addresses
  BY <1>3 DEF Addresses
<1>5. CASE CaptureNode
  <2>1. \A data, n : DOMAIN Captured(data, n) \subseteq DOMAIN data \cup {at}
    BY DEF Captured
  <2>2. at \in DOMAIN Addresses /\ at' \in 1 .. Len(Addresses) + 1
    BY <1>1, <1>2, <1>5 DEF CaptureNode
  <2>3. DOMAIN before' \subseteq DOMAIN Addresses /\ DOMAIN after' \subseteq DOMAIN Addresses
    BY <1>1, <1>5, <2>1, <2>2 DEF CaptureNode
  <2>4. UNCHANGED <<setup, stage, reachable, disconnects, primaries, ran, sent, restarted>>
    BY <1>5 DEF CaptureNode, countVars
  <2>5. QED BY <1>1, <1>4, <2>2, <2>3, <2>4 DEF SnapshotTypeOK
<1>6. CASE StartWorkers \/ JoinWorkers \/ Compare
  <2>1. /\ UNCHANGED <<setup, before, after, reachable, disconnects, primaries, ran, sent, restarted>>
        /\ stage' \in {"running", "after", "compared"} /\ (at' = at \/ at' = 1)
    BY <1>6 DEF StartWorkers, JoinWorkers, Compare, countVars
  <2>2. QED BY <1>1, <1>2, <1>4, <2>1 DEF SnapshotTypeOK
<1>7. ASSUME NEW n \in Nodes, Server(n) PROVE SnapshotTypeOK'
  <2>1. UNCHANGED <<setup, stage, at, before, after>>
    BY <1>7 DEF Server, Execute, Disconnect, Reconnect, Restart, Failover, captureVars
  <2>2. reachable' \subseteq Nodes /\ primaries' \subseteq Nodes /\ restarted' \subseteq Nodes
    BY <1>1, <1>7 DEF Server, Execute, Disconnect, Reconnect, Restart, Failover, countVars
  <2>3. disconnects' \in 0 .. MaxDisconnects
    BY <1>1, <1>2, <1>7 DEF Server, Execute, Disconnect, Reconnect, Restart, Failover
  <2>4. ran' \in [Nodes -> [Commands -> Nat]] /\ sent' \in [Nodes -> [Commands -> Nat]]
    <3>1. CASE \E c \in Commands : Execute(n, c)
      BY <1>1, <3>1 DEF Execute
    <3>2. CASE Restart(n)
      BY <1>1, <3>2 DEF Restart
    <3>3. CASE Disconnect(n) \/ Reconnect(n) \/ \E r \in Nodes : Failover(n, r)
      BY <1>1, <3>3 DEF Disconnect, Reconnect, Failover, countVars
    <3>4. QED BY <1>7, <3>1, <3>2, <3>3 DEF Server
  <2>5. QED BY <1>1, <1>4, <2>1, <2>2, <2>3, <2>4 DEF SnapshotTypeOK
<1>8. QED BY <1>5, <1>6, <1>7 DEF SnapshotNext, MainThread

(* A step that takes nothing and sends nothing.                              *)
LEMMA QuietStepInv ==
    ASSUME SnapshotInv, SnapshotTypeOK', UNCHANGED <<setup, before, after, sent>>,
           restarted \subseteq restarted', \A n \in Nodes \ restarted' : ran'[n] = ran[n],
           stage' = "before" => stage = "before", stage' = "running" => stage \in {"before", "running"}
    PROVE  SnapshotInv'
<1>1. \A n \in Nodes \ restarted' : ran'[n] = Carried(n)'
  BY HeldStays DEF SnapshotInv
<1>2. \A i \in DOMAIN before' : Taken(before[i], Addresses[i], setup.ran[Addresses[i]])'
  BY HeldStays
<1>3. \A i \in DOMAIN after' : Taken(after[i], Addresses[i], Carried(Addresses[i]))'
  BY HeldStays
<1>4. /\ stage' = "before" => \A n \in Nodes, c \in Commands : sent'[n][c] = 0
      /\ stage' \in {"before", "running"} => DOMAIN after' = {}
  BY DEF SnapshotInv
<1>5. QED BY <1>1, <1>2, <1>3, <1>4 DEF SnapshotInv

LEMMA ExecuteInv ==
    ASSUME SnapshotInv, SnapshotTypeOK', NEW n \in Nodes, NEW c \in Commands, Execute(n, c)
    PROVE  SnapshotInv'
<1>1. /\ stage = "running" /\ UNCHANGED <<setup, stage, before, after, restarted>>
      /\ ran' = [ran EXCEPT ![n][c] = @ + 1] /\ sent' = [sent EXCEPT ![n][c] = @ + 1]
  BY DEF Execute, captureVars
<1>2. /\ ran \in [Nodes -> [Commands -> Nat]] /\ sent \in [Nodes -> [Commands -> Nat]]
      /\ setup.ran \in [Nodes -> [Commands -> Nat]]
  BY SetupOK DEF SnapshotInv, SnapshotTypeOK, Counts
<1>3. DOMAIN after' = {}
  BY <1>1 DEF SnapshotInv
<1>4. ASSUME NEW m \in Nodes \ restarted' PROVE ran'[m] = Carried(m)'
  <2>1. ran[m] = [x \in Commands |-> setup.ran[m][x] + sent[m][x]]
    BY <1>1, <1>4 DEF SnapshotInv, Carried
  <2>2. \A x \in Commands : ran'[m][x] = setup.ran[m][x] + sent'[m][x]
    <3>1. TAKE x \in Commands
    <3>2. ran[m][x] = setup.ran[m][x] + sent[m][x] /\ setup.ran[m][x] \in Nat /\ sent[m][x] \in Nat
      BY <1>2, <2>1
    <3>3. CASE m = n /\ x = c
      BY <1>1, <1>2, <3>2, <3>3
    <3>4. CASE ~(m = n /\ x = c)
      BY <1>1, <1>2, <3>2, <3>4
    <3>5. QED BY <3>3, <3>4
  <2>3. ran'[m] \in [Commands -> Nat]
    BY <1>1, <1>2
  <2>4. ran'[m] = [x \in Commands |-> setup.ran[m][x] + sent'[m][x]]
    BY <2>2, <2>3
  <2>5. QED BY <1>1, <2>4 DEF Carried
<1>5. ASSUME NEW i \in DOMAIN before'
      PROVE  Taken(before[i], Addresses[i], setup.ran[Addresses[i]])'
  <2>1. Taken(before[i], Addresses[i], setup.ran[Addresses[i]])
    BY <1>1 DEF SnapshotInv
  <2>2. Addresses' = Addresses
    BY <1>1 DEF Addresses
  <2>3. IsPrimary(Addresses[i])' = IsPrimary(Addresses[i])
    BY <1>1, <2>2 DEF IsPrimary, Clustered, known
  <2>4. QED BY <1>1, <2>1, <2>2, <2>3 DEF Taken
<1>6. QED BY <1>1, <1>3, <1>4, <1>5 DEF SnapshotInv

LEMMA CaptureInv ==
    ASSUME SnapshotInv, SnapshotTypeOK', CaptureNode
    PROVE  SnapshotInv'
<1>1. /\ UNCHANGED <<setup, stage, ran, sent, restarted>>
      /\ stage \in {"before", "after"} /\ at \in DOMAIN Addresses
      /\ \/ stage = "before" /\ before' = Captured(before, Addresses[at]) /\ after' = after
         \/ stage = "after" /\ after' = Captured(after, Addresses[at]) /\ before' = before
  <2>1. at \in 1 .. Len(Addresses) + 1 /\ setup \in Setups
    BY DEF SnapshotInv, SnapshotTypeOK
  <2>2. QED BY <2>1, SetupOK DEF CaptureNode, countVars
<1> DEFINE n == Addresses[at]
           values == NodeValues(setup.fields, Info(ran[n]), IsPrimary(n))
<1>2. n \in Nodes /\ ran[n] \in Counts
  BY <1>1, SetupOK DEF SnapshotInv, SnapshotTypeOK, Counts
<1>3. \A data : \A i \in DOMAIN Captured(data, n) :
        \/ i = at /\ Captured(data, n)[i] = values
        \/ i \in DOMAIN data /\ Captured(data, n)[i] = data[i]
  BY DEF Captured
<1>4. \A m \in Nodes \ restarted' : ran'[m] = Carried(m)'
  BY <1>1, HeldStays DEF SnapshotInv
<1>5. n \notin restarted => ran[n] = Carried(n)
  BY <1>2 DEF SnapshotInv
<1>6. ASSUME NEW i \in DOMAIN before'
      PROVE  Taken(before[i], Addresses[i], setup.ran[Addresses[i]])'
  <2>1. CASE i \in DOMAIN before /\ before'[i] = before[i]
    BY <1>1, <2>1, HeldStays
  <2>2. CASE stage = "before" /\ i = at /\ before'[i] = values
    <3>1. n \notin restarted => ran[n] = setup.ran[n]
      <4>1. \A c \in Commands : sent[n][c] = 0
        BY <1>2, <2>2 DEF SnapshotInv
      <4>2. setup.ran[n] \in [Commands -> Nat]
        BY <1>2, SetupOK DEF SnapshotInv, SnapshotTypeOK, Counts
      <4>3. Carried(n) = setup.ran[n]
        BY <4>1, <4>2 DEF Carried
      <4>4. QED BY <1>5, <4>3
    <3>2. /\ Addresses' = Addresses /\ IsPrimary(Addresses[i])' = IsPrimary(Addresses[i])
      BY <1>1, HeldStays
    <3>3. Addresses[i] = n
      BY <2>2
    <3> HIDE DEF n
    <3>4. QED BY <1>1, <1>2, <2>2, <3>1, <3>2, <3>3 DEF Taken
  <2>3. QED BY <1>1, <1>3, <2>1, <2>2
<1>7. ASSUME NEW i \in DOMAIN after'
      PROVE  Taken(after[i], Addresses[i], Carried(Addresses[i]))'
  <2>1. CASE i \in DOMAIN after /\ after'[i] = after[i]
    BY <1>1, <2>1, HeldStays
  <2>2. CASE stage = "after" /\ i = at /\ after'[i] = values
    <3>1. /\ Addresses' = Addresses /\ IsPrimary(Addresses[i])' = IsPrimary(Addresses[i])
          /\ Carried(Addresses[i])' = Carried(Addresses[i])
      BY <1>1, HeldStays
    <3>2. Addresses[i] = n
      BY <2>2
    <3> HIDE DEF n
    <3>3. QED BY <1>1, <1>2, <1>5, <2>2, <3>1, <3>2 DEF Taken
  <2>3. QED BY <1>1, <1>3, <2>1, <2>2
<1>8. /\ stage' = "before" => \A m \in Nodes, c \in Commands : sent'[m][c] = 0
      /\ stage' \in {"before", "running"} => DOMAIN after' = {}
  BY <1>1 DEF SnapshotInv
<1>9. QED BY <1>4, <1>6, <1>7, <1>8 DEF SnapshotInv

LEMMA SnapshotStepInv ==
    ASSUME SnapshotInv, [SnapshotNext]_snapshotVars
    PROVE  SnapshotInv'
<1>1. CASE UNCHANGED snapshotVars
  <2>1. UNCHANGED <<setup, stage, at, before, after, reachable, disconnects, primaries, ran, sent, restarted>>
    BY <1>1 DEF snapshotVars, captureVars, countVars
  <2>2. SnapshotTypeOK'
    <3>1. Addresses' = Addresses
      BY <2>1 DEF Addresses
    <3>2. QED BY <2>1, <3>1 DEF SnapshotInv, SnapshotTypeOK
  <2>3. QED BY <2>1, <2>2, QuietStepInv
<1>2. CASE SnapshotNext
  <2>1. SnapshotTypeOK'
    BY <1>2, SnapshotTypeStep
  <2>2. CASE CaptureNode
    BY <2>1, <2>2, CaptureInv
  <2>3. CASE StartWorkers \/ JoinWorkers \/ Compare
    <3>1. /\ UNCHANGED <<setup, before, after, ran, sent, restarted>>
          /\ stage' # "before" /\ (stage' = "running" => stage \in {"before", "running"})
      BY <2>3 DEF StartWorkers, JoinWorkers, Compare, countVars
    <3>2. QED BY <2>1, <3>1, QuietStepInv
  <2>4. ASSUME NEW n \in Nodes, Server(n) PROVE SnapshotInv'
    <3>1. CASE \E c \in Commands : Execute(n, c)
      BY <2>1, <3>1, ExecuteInv
    <3>2. CASE Restart(n) \/ Disconnect(n) \/ Reconnect(n) \/ \E r \in Nodes : Failover(n, r)
      <4>1. /\ UNCHANGED <<setup, stage, before, after, sent>> /\ restarted \subseteq restarted'
            /\ \A m \in Nodes \ restarted' : ran'[m] = ran[m]
        <5>1. CASE Restart(n)
          BY <5>1 DEF Restart, captureVars, SnapshotInv, SnapshotTypeOK
        <5>2. CASE Disconnect(n) \/ Reconnect(n) \/ \E r \in Nodes : Failover(n, r)
          BY <5>2 DEF Disconnect, Reconnect, Failover, captureVars, countVars
        <5>3. QED BY <3>2, <5>1, <5>2
      <4>2. QED BY <2>1, <4>1, QuietStepInv
    <3>3. QED BY <2>4, <3>1, <3>2 DEF Server
  <2>5. QED BY <1>2, <2>2, <2>3, <2>4 DEF SnapshotNext, MainThread
<1>3. QED BY <1>1, <1>2

LEMMA SnapshotInvariant == SnapshotSpec => []SnapshotInv
<1>1. SnapshotInv /\ [SnapshotNext]_snapshotVars => SnapshotInv'
  BY SnapshotStepInv
<1>2. QED BY <1>1, SnapshotInitInv, PTL DEF SnapshotSpec

(* At every time, whatever a snapshot holds is what some counts of the node  *)
(* give.                                                                     *)
LEMMA HeldIsTaken ==
    ASSUME SnapshotInv, NEW data \in {before, after}, NEW i \in DOMAIN data
    PROVE  /\ i \in DOMAIN Addresses
           /\ \E counts \in Counts :
                 data[i] = NodeValues(setup.fields, Info(counts), IsPrimary(Addresses[i]))
  BY DEF SnapshotInv, SnapshotTypeOK, Taken

LEMMA PrimariesStayStep ==
    ASSUME SnapshotInv
    PROVE  PrimariesStay
<1>1. FieldsOK(setup.fields)
  BY SetupOK DEF SnapshotInv, SnapshotTypeOK
<1>2. SUFFICES ASSUME NEW data \in {before, after}, NEW other \in {before, after},
                      NEW i \in DOMAIN data, NEW j \in DOMAIN other, Addresses[i] = Addresses[j],
                      NEW f \in DOMAIN setup.fields, setup.fields[f].nodes = "primary",
                      NEW key, Asks(setup.fields[f], key), key \in DOMAIN data[i]
               PROVE  key \in DOMAIN other[j]
  BY DEF PrimariesStay, ToSet
<1>3. PICK counts \in Counts : data[i] = NodeValues(setup.fields, Info(counts), IsPrimary(Addresses[i]))
  BY HeldIsTaken
<1>4. PICK others \in Counts : other[j] = NodeValues(setup.fields, Info(others), IsPrimary(Addresses[j]))
  BY HeldIsTaken
<1>5. QED BY <1>1, <1>2, <1>3, <1>4, GaugesStay

(* Gauges of the primaries are comparable, whatever fails over, for any      *)
(* cluster and any traffic.                                                  *)
THEOREM PrimariesComparable == SnapshotSpec => []PrimariesStay
<1>1. SnapshotInv => PrimariesStay
  BY PrimariesStayStep
<1>2. QED BY <1>1, SnapshotInvariant, PTL

-----------------------------------------------------------------------------
(* The matrix, cell by cell.                                                 *)

LEMMA AskingIsGreatest ==
    ASSUME NEW fields, FieldsOK(fields), NEW key, Asking(fields, key) # {}
    PROVE  /\ Max(Asking(fields, key)) \in DOMAIN fields
           /\ Asks(fields[Max(Asking(fields, key))], key)
<1>1. Asking(fields, key) \in SUBSET (1 .. Len(fields)) /\ Len(fields) \in Nat
  BY DEF Asking, FieldsOK
<1>2. Max(Asking(fields, key)) \in Asking(fields, key)
  BY <1>1, GreatestIsIn
<1>3. QED BY <1>2 DEF Asking

(* A snapshot has a value for every key that a field asks for.               *)
LEMMA SnapshotOf ==
    ASSUME NEW fields, FieldsOK(fields), NEW data, NEW f \in DOMAIN fields, NEW key, Asks(fields[f], key)
    PROVE  LET snapshot == BuildSnapshot(fields, data)
           IN  /\ key \in DOMAIN snapshot <=> Holding(data, key) # {}
               /\ key \in DOMAIN snapshot =>
                     /\ snapshot[key].value = Aggregate(fields[f].aggregation, data, key)
                     /\ snapshot[key].tracked = fields[f].perNode
                     /\ snapshot[key].perNode = [i \in Holding(data, key) |-> data[i][key]]
<1>1. Asking(fields, key) # {}
  BY DEF Asking
<1> DEFINE last == fields[Max(Asking(fields, key))]
<1>2. last.aggregation = fields[f].aggregation /\ last.perNode = fields[f].perNode
  BY <1>1, AskingIsGreatest DEF FieldsOK
<1>3. key \in KeysOf(data) <=> Holding(data, key) # {}
  BY DEF KeysOf, Holding
<1>4. DOMAIN BuildSnapshot(fields, data) = {k \in KeysOf(data) : Asking(fields, k) # {}}
  BY DEF BuildSnapshot
<1>5. key \in DOMAIN BuildSnapshot(fields, data) =>
        BuildSnapshot(fields, data)[key] =
          [value |-> Aggregate(last.aggregation, data, key), tracked |-> last.perNode,
           perNode |-> [i \in Holding(data, key) |-> data[i][key]]]
  BY <1>4 DEF BuildSnapshot
<1> HIDE DEF last
<1>6. QED BY <1>1, <1>2, <1>3, <1>4, <1>5

(* The calls a snapshot has of a node that was not restarted.                *)
LEMMA CallsHeld ==
    ASSUME SnapshotInv, NEW c \in Commands, NEW f \in DOMAIN setup.fields, Asks(setup.fields[f], Calls(c))
    PROVE  /\ \A i \in DOMAIN before : Addresses[i] \notin restarted =>
                 /\ setup.ran[Addresses[i]][c] \in Nat
                 /\ Calls(c) \in DOMAIN before[i] <=> setup.ran[Addresses[i]][c] > 0
                 /\ Calls(c) \in DOMAIN before[i] => before[i][Calls(c)] = setup.ran[Addresses[i]][c]
           /\ \A i \in DOMAIN after : Addresses[i] \notin restarted =>
                 /\ Carried(Addresses[i])[c] \in Nat
                 /\ Calls(c) \in DOMAIN after[i] <=> Carried(Addresses[i])[c] > 0
                 /\ Calls(c) \in DOMAIN after[i] => after[i][Calls(c)] = Carried(Addresses[i])[c]
<1>1. FieldsOK(setup.fields)
  BY SetupOK DEF SnapshotInv, SnapshotTypeOK
<1>2. ASSUME NEW values, NEW n, NEW counted, Taken(values, n, counted), n \notin restarted
      PROVE  /\ counted[c] \in Nat
             /\ Calls(c) \in DOMAIN values <=> counted[c] > 0
             /\ Calls(c) \in DOMAIN values => values[Calls(c)] = counted[c]
  <2>1. counted \in Counts /\ values = NodeValues(setup.fields, Info(counted), IsPrimary(n))
    BY <1>2 DEF Taken
  <2>2. counted[c] \in Nat
    BY <2>1 DEF Counts
  <2>3. QED BY <1>1, <2>1, <2>2, CallsKept
<1>3. QED BY <1>2 DEF SnapshotInv

LEMMA OldCallsFound ==
    ASSUME SnapshotInv, NEW c \in Commands, NEW f \in DOMAIN setup.fields, Asks(setup.fields[f], Calls(c)),
           NEW i \in DOMAIN before, Addresses[i] \notin restarted
    PROVE  OldCell(Old, Calls(c), Addresses[i]) = setup.ran[Addresses[i]][c]
<1> DEFINE key == Calls(c)
           n == Addresses[i]
           places == {j \in Holding(before, key) : Addresses[j] = n}
<1>1. FieldsOK(setup.fields) /\ Len(Addresses) \in Nat /\ DOMAIN Addresses = 1 .. Len(Addresses)
  BY SetupOK DEF SnapshotInv, SnapshotTypeOK
<1>2. setup.fields[f].perNode = TRUE
  <2>1. setup.fields[f].key = "calls"
    BY DEF Asks, Calls
  <2>2. QED BY <1>1, <2>1 DEF FieldsOK, FieldOK
<1>3. /\ key \in DOMAIN Old <=> Holding(before, key) # {}
      /\ key \in DOMAIN Old =>
            /\ Old[key].tracked = TRUE
            /\ Old[key].perNode = [j \in Holding(before, key) |-> before[j][key]]
  BY <1>1, <1>2, SnapshotOf DEF Old
<1>4. \A j \in places : before[j][key] = setup.ran[n][c]
  BY CallsHeld DEF Holding
<1>5. places = {} => setup.ran[n][c] = 0
  <2>1. places = {} => key \notin DOMAIN before[i]
    BY DEF Holding
  <2>2. /\ setup.ran[n][c] \in Nat
        /\ key \in DOMAIN before[i] <=> setup.ran[n][c] > 0
    BY CallsHeld
  <2>3. QED BY <2>1, <2>2
<1>6. places \in SUBSET (1 .. Len(Addresses))
  BY <1>1 DEF Holding, SnapshotInv, SnapshotTypeOK
<1> HIDE DEF places, key, n
<1>7. places # {} => Max(places) \in places
  BY <1>1, <1>6, GreatestIsIn
<1>8. \A j \in places : j \in Holding(before, key)
  BY DEF places
<1>9. CASE key \in DOMAIN Old
  <2>1. OldCell(Old, key, n) = IF places = {} THEN 0 ELSE Old[key].perNode[Max(places)]
    <3>1. {j \in DOMAIN Old[key].perNode : Addresses[j] = n} = places
      BY <1>3, <1>9 DEF places
    <3>2. QED BY <1>3, <1>9, <3>1 DEF OldCell
  <2>2. places # {} => Old[key].perNode[Max(places)] = before[Max(places)][key]
    BY <1>3, <1>7, <1>8, <1>9
  <2>3. OldCell(Old, key, n) = setup.ran[n][c]
    BY <1>4, <1>5, <1>7, <2>1, <2>2
  <2>4. QED BY <2>3 DEF key, n
<1>10. CASE key \notin DOMAIN Old
  <2>1. places = {}
    BY <1>3, <1>10 DEF places
  <2>2. OldCell(Old, key, n) = 0
    BY <1>10 DEF OldCell
  <2>3. QED BY <1>5, <2>1, <2>2 DEF key, n
<1>11. QED BY <1>9, <1>10

LEMMA CellsOfCalls ==
    ASSUME SnapshotInv, NEW c \in Commands, NEW f \in DOMAIN setup.fields, Asks(setup.fields[f], Calls(c)),
           NEW i \in DOMAIN before \cap DOMAIN after, Addresses[i] \notin restarted
    PROVE  LET cells == Cells(setup.fields[f], Old, New, Calls(c))
           IN  /\ i \in DOMAIN cells => Calls(c) \in DOMAIN New /\ cells[i] = sent[Addresses[i]][c]
               /\ sent[Addresses[i]][c] > 0 => i \in DOMAIN cells /\ Calls(c) \in DOMAIN New
<1> DEFINE key == Calls(c)
           n == Addresses[i]
           cells == Cells(setup.fields[f], Old, New, key)
<1>1. FieldsOK(setup.fields) /\ n \in Nodes
  BY SetupOK DEF SnapshotInv, SnapshotTypeOK
<1>2. setup.fields[f].perNode = TRUE
  <2>1. setup.fields[f].key = "calls"
    BY DEF Asks, Calls
  <2>2. QED BY <1>1, <2>1 DEF FieldsOK, FieldOK
<1>3. /\ key \in DOMAIN New <=> Holding(after, key) # {}
      /\ key \in DOMAIN New =>
            /\ New[key].tracked = TRUE
            /\ New[key].perNode = [j \in Holding(after, key) |-> after[j][key]]
  BY <1>1, <1>2, SnapshotOf DEF New
<1>4. /\ Carried(n)[c] = setup.ran[n][c] + sent[n][c]
      /\ setup.ran[n][c] \in Nat /\ sent[n][c] \in Nat
  BY <1>1, SetupOK DEF SnapshotInv, SnapshotTypeOK, Carried, Counts
<1>5. /\ key \in DOMAIN after[i] <=> Carried(n)[c] > 0
      /\ key \in DOMAIN after[i] => after[i][key] = Carried(n)[c]
  BY CallsHeld
<1>6. OldCell(Old, key, n) = setup.ran[n][c]
  BY OldCallsFound
<1>7. i \in Holding(after, key) <=> key \in DOMAIN after[i]
  BY DEF Holding
<1> HIDE DEF key
<1>8. cells = IF key \in DOMAIN New
              THEN [j \in Holding(after, key) |-> after[j][key] - OldCell(Old, key, Addresses[j])]
              ELSE <<>>
  BY <1>2, <1>3 DEF Cells
<1>9. i \in DOMAIN cells => key \in DOMAIN New /\ cells[i] = sent[n][c]
  <2>1. CASE key \notin DOMAIN New
    <3>1. DOMAIN cells = {}
      BY <1>8, <2>1
    <3>2. QED BY <3>1
  <2>2. CASE key \in DOMAIN New /\ i \in DOMAIN cells
    <3>1. i \in Holding(after, key) /\ cells[i] = after[i][key] - OldCell(Old, key, n)
      BY <1>8, <2>2
    <3>2. QED BY <1>4, <1>5, <1>6, <1>7, <2>2, <3>1
  <2>3. QED BY <2>1, <2>2
<1>10. sent[n][c] > 0 => i \in DOMAIN cells /\ key \in DOMAIN New
  BY <1>3, <1>4, <1>5, <1>7, <1>8
<1>11. QED BY <1>9, <1>10 DEF key

LEMMA DiffRows ==
    /\ \A row \in Diff :
          \E f \in DOMAIN setup.fields, key \in DOMAIN Old \cup DOMAIN New :
              Asks(setup.fields[f], key) /\ row = RowFor(setup.fields, f, Old, New, key)
    /\ \A f \in DOMAIN setup.fields, key \in DOMAIN Old \cup DOMAIN New :
          Asks(setup.fields[f], key) => RowFor(setup.fields, f, Old, New, key) \in Diff
<1> DEFINE Compared == {y \in (DOMAIN setup.fields) \X (DOMAIN Old \cup DOMAIN New) : Asks(setup.fields[y[1]], y[2])}
<1>1. Diff = {RowFor(setup.fields, x[1], Old, New, x[2]) : x \in Compared}
  BY DEF Diff, CompareSnapshots
<1>2. \A x \in Compared : x[1] \in DOMAIN setup.fields /\ x[2] \in DOMAIN Old \cup DOMAIN New
                     /\ Asks(setup.fields[x[1]], x[2])
  OBVIOUS
<1>3. ASSUME NEW f \in DOMAIN setup.fields, NEW key \in DOMAIN Old \cup DOMAIN New, Asks(setup.fields[f], key)
      PROVE  RowFor(setup.fields, f, Old, New, key) \in Diff
  <2>1. <<f, key>> \in Compared
    BY <1>3
  <2>2. \E x \in Compared : x[1] = f /\ x[2] = key
    BY <2>1
  <2> HIDE DEF Compared
  <2>3. QED BY <1>1, <2>2
<1> HIDE DEF Compared
<1>4. QED BY <1>1, <1>2, <1>3

LEMMA RowParts ==
    ASSUME NEW f, NEW key
    PROVE  LET row == RowFor(setup.fields, f, Old, New, key)
           IN  /\ row.field = f /\ row.key = key /\ row.delta = ValueOf(New, key) - ValueOf(Old, key)
               /\ row.cells = Cells(setup.fields[f], Old, New, key)
  BY DEF RowFor

LEMMA CellsAreTrafficStep ==
    ASSUME SnapshotInv
    PROVE  CellsAreTraffic
<1>1. SUFFICES ASSUME NEW i \in DOMAIN before \cap DOMAIN after, NEW c \in Commands,
                      NEW f \in DOMAIN setup.fields, Addresses[i] \notin restarted
               PROVE  /\ \A row \in Rows(Diff) : row.key = Calls(c) /\ i \in DOMAIN row.cells =>
                            row.cells[i] = sent[Addresses[i]][c]
                      /\ Asks(setup.fields[f], Calls(c)) /\ sent[Addresses[i]][c] > 0 =>
                            \E row \in Rows(Diff) :
                                row.field = f /\ row.key = Calls(c) /\ i \in DOMAIN row.cells
  BY DEF CellsAreTraffic
<1>2. ASSUME NEW row \in Rows(Diff), row.key = Calls(c), i \in DOMAIN row.cells
      PROVE  row.cells[i] = sent[Addresses[i]][c]
  <2>1. PICK g \in DOMAIN setup.fields, key \in DOMAIN Old \cup DOMAIN New :
           Asks(setup.fields[g], key) /\ row = RowFor(setup.fields, g, Old, New, key)
    BY DiffRows DEF Rows
  <2>2. key = Calls(c) /\ row.cells = Cells(setup.fields[g], Old, New, key)
    BY <1>2, <2>1, RowParts
  <2>3. QED BY <1>1, <1>2, <2>1, <2>2, CellsOfCalls
<1>3. ASSUME Asks(setup.fields[f], Calls(c)), sent[Addresses[i]][c] > 0
      PROVE  \E row \in Rows(Diff) : row.field = f /\ row.key = Calls(c) /\ i \in DOMAIN row.cells
  <2> DEFINE row == RowFor(setup.fields, f, Old, New, Calls(c))
  <2>1. /\ i \in DOMAIN Cells(setup.fields[f], Old, New, Calls(c)) /\ Calls(c) \in DOMAIN New
        /\ Cells(setup.fields[f], Old, New, Calls(c))[i] = sent[Addresses[i]][c]
    BY <1>1, <1>3, CellsOfCalls
  <2>2. row \in Diff
    BY <1>3, <2>1, DiffRows
  <2>3. /\ row.field = f /\ row.key = Calls(c)
        /\ row.cells = Cells(setup.fields[f], Old, New, Calls(c))
    BY RowParts
  <2> HIDE DEF row
  <2>4. row \in Rows(Diff)
    <3>1. sent[Addresses[i]][c] # 0
      <4>1. sent[Addresses[i]][c] \in Nat
        BY SetupOK DEF SnapshotInv, SnapshotTypeOK
      <4>2. QED BY <1>3, <4>1
    <3>2. QED BY <2>1, <2>2, <2>3, <3>1 DEF Rows
  <2>5. QED BY <2>1, <2>3, <2>4
<1>4. QED BY <1>2, <1>3

-----------------------------------------------------------------------------
(* The matrix, in total.                                                     *)

(* The function that SumUp computes with exists and adds up.                 *)
SumsAll(numbers, k) ==
    k = [i \in 0 .. Len(numbers) |-> IF i = 0 THEN 0 ELSE k[i - 1] + numbers[i]]
SumsUpTo(numbers, k, n) ==
    /\ k \in [0 .. n -> Int] /\ k[0] = 0
    /\ \A i \in 1 .. n : k[i] = k[i - 1] + numbers[i]

LEMMA SumExists ==
    ASSUME NEW N \in Nat, NEW numbers \in [1 .. N -> Int]
    PROVE  \E k : SumsUpTo(numbers, k, N)
<1> DEFINE T == {n \in 0 .. N : \E k : SumsUpTo(numbers, k, n)}
<1>1. 0 \in T
  <2>1. SumsUpTo(numbers, [i \in 0 .. 0 |-> 0], 0)
    BY DEF SumsUpTo
  <2>2. QED BY <2>1
<1>2. ASSUME NEW n \in 0 .. N - 1, n \in T PROVE n + 1 \in T
  <2>1. PICK k : SumsUpTo(numbers, k, n)
    BY <1>2
  <2> DEFINE m == [i \in 0 .. n + 1 |-> IF i = n + 1 THEN k[n] + numbers[n + 1] ELSE k[i]]
  <2>2. numbers[n + 1] \in Int /\ n \in Nat /\ k[n] \in Int
    BY <2>1 DEF SumsUpTo
  <2>3. m \in [0 .. n + 1 -> Int] /\ m[0] = 0
    BY <2>1, <2>2 DEF SumsUpTo
  <2>4. \A i \in 1 .. n + 1 : m[i] = m[i - 1] + numbers[i]
    <3>1. TAKE i \in 1 .. n + 1
    <3>2. CASE i = n + 1
      BY <2>2, <3>2
    <3>3. CASE i # n + 1
      BY <2>1, <2>2, <3>3 DEF SumsUpTo
    <3>4. QED BY <3>2, <3>3
  <2> HIDE DEF m
  <2>5. SumsUpTo(numbers, m, n + 1)
    BY <2>3, <2>4 DEF SumsUpTo
  <2>6. QED BY <2>2, <2>5
<1>3. 0 .. N \subseteq T
  <2> HIDE DEF T
  <2>1. \A n \in 0 .. N - 1 : n \in T => n + 1 \in T
    BY <1>2
  <2>2. QED BY <1>1, <2>1, Induction
<1>4. QED BY <1>3

LEMMA SumIs ==
    ASSUME NEW N \in Nat, NEW numbers \in [1 .. N -> Int]
    PROVE  \E k : SumsUpTo(numbers, k, N) /\ SumUp(numbers) = k[N]
<1>1. Len(numbers) = N
  OBVIOUS
<1>2. PICK k : SumsUpTo(numbers, k, N)
  BY SumExists
<1>3. SumsAll(numbers, k)
  BY <1>1, <1>2 DEF SumsUpTo, SumsAll
<1> DEFINE sum == CHOOSE x : SumsAll(numbers, x)
<1>4. SumsAll(numbers, sum)
  BY <1>3
<1>5. SumUp(numbers) = sum[N]
  BY <1>1 DEF SumUp, SumsAll
<1> HIDE DEF sum
<1>6. /\ DOMAIN sum = 0 .. N /\ sum[0] = 0
      /\ \A i \in 1 .. N : sum[i] = sum[i - 1] + numbers[i]
  BY <1>1, <1>4 DEF SumsAll
<1> DEFINE T == {n \in 0 .. N : sum[n] = k[n]}
<1>7. 0 .. N \subseteq T
  <2>1. 0 \in T
    BY <1>2, <1>6 DEF SumsUpTo
  <2>2. ASSUME NEW n \in 0 .. N - 1, n \in T PROVE n + 1 \in T
    <3>1. n + 1 \in 1 .. N /\ (n + 1) - 1 = n /\ sum[n] = k[n]
      BY <2>2
    <3>2. sum[n + 1] = sum[n] + numbers[n + 1] /\ k[n + 1] = k[n] + numbers[n + 1]
      BY <1>2, <1>6, <3>1 DEF SumsUpTo
    <3>3. QED BY <3>1, <3>2
  <2>3. \A n \in 0 .. N - 1 : n \in T => n + 1 \in T
    BY <2>2
  <2> HIDE DEF T
  <2>4. QED BY <2>1, <2>3, Induction
<1>8. sum[N] = k[N]
  BY <1>7
<1>9. QED BY <1>2, <1>5, <1>8

(* Differences of lists of numbers add up.                                   *)
Differ(N, a, b, c, d) ==
    /\ N \in Nat
    /\ a \in [1 .. N -> Int] /\ b \in [1 .. N -> Int] /\ c \in [1 .. N -> Int] /\ d \in [1 .. N -> Int]
    /\ \A i \in 1 .. N : a[i] - (b[i] - c[i]) = d[i]

LEMMA SumsDiffer ==
    ASSUME NEW N, NEW a, NEW b, NEW c, NEW d, Differ(N, a, b, c, d)
    PROVE  /\ SumUp(a) - (SumUp(b) - SumUp(c)) = SumUp(d)
           /\ SumUp(a) \in Int /\ SumUp(b) \in Int /\ SumUp(c) \in Int
<1>0. /\ N \in Nat /\ \A i \in 1 .. N : a[i] - (b[i] - c[i]) = d[i]
      /\ a \in [1 .. N -> Int] /\ b \in [1 .. N -> Int] /\ c \in [1 .. N -> Int] /\ d \in [1 .. N -> Int]
  BY DEF Differ
<1>1. PICK ka : SumsUpTo(a, ka, N) /\ SumUp(a) = ka[N]
  BY <1>0, SumIs
<1>2. PICK kb : SumsUpTo(b, kb, N) /\ SumUp(b) = kb[N]
  BY <1>0, SumIs
<1>3. PICK kc : SumsUpTo(c, kc, N) /\ SumUp(c) = kc[N]
  BY <1>0, SumIs
<1>4. PICK kd : SumsUpTo(d, kd, N) /\ SumUp(d) = kd[N]
  BY <1>0, SumIs
<1> DEFINE T == {n \in 0 .. N : ka[n] - (kb[n] - kc[n]) = kd[n]}
<1>5. 0 \in T
  BY <1>0, <1>1, <1>2, <1>3, <1>4 DEF SumsUpTo
<1>6. ASSUME NEW n \in 0 .. N - 1, n \in T PROVE n + 1 \in T
  <2>1. n + 1 \in 1 .. N /\ (n + 1) - 1 = n /\ n \in 0 .. N /\ ka[n] - (kb[n] - kc[n]) = kd[n]
    BY <1>0, <1>6
  <2>2. /\ ka[n + 1] = ka[n] + a[n + 1] /\ kb[n + 1] = kb[n] + b[n + 1]
        /\ kc[n + 1] = kc[n] + c[n + 1] /\ kd[n + 1] = kd[n] + d[n + 1]
    BY <1>1, <1>2, <1>3, <1>4, <2>1 DEF SumsUpTo
  <2>3. /\ ka[n] \in Int /\ kb[n] \in Int /\ kc[n] \in Int /\ kd[n] \in Int
    BY <1>1, <1>2, <1>3, <1>4, <2>1 DEF SumsUpTo
  <2>4. /\ a[n + 1] \in Int /\ b[n + 1] \in Int /\ c[n + 1] \in Int /\ d[n + 1] \in Int
        /\ a[n + 1] - (b[n + 1] - c[n + 1]) = d[n + 1]
    BY <1>0, <2>1
  <2>5. QED BY <2>1, <2>2, <2>3, <2>4
<1>7. 0 .. N \subseteq T
  <2>1. \A n \in 0 .. N - 1 : n \in T => n + 1 \in T
    BY <1>0, <1>6
  <2> HIDE DEF T
  <2>2. QED BY <1>0, <1>5, <2>1, Induction
<1>8. ka[N] - (kb[N] - kc[N]) = kd[N]
  BY <1>0, <1>7
<1>9. ka[N] \in Int /\ kb[N] \in Int /\ kc[N] \in Int
  BY <1>0, <1>1, <1>2, <1>3 DEF SumsUpTo
<1>10. QED BY <1>1, <1>2, <1>3, <1>4, <1>8, <1>9

LEMMA SumOfZeros ==
    ASSUME NEW N \in Nat, NEW numbers \in [1 .. N -> Int], \A i \in 1 .. N : numbers[i] = 0
    PROVE  SumUp(numbers) = 0
<1>1. PICK k : SumsUpTo(numbers, k, N) /\ SumUp(numbers) = k[N]
  BY SumIs
<1> DEFINE T == {n \in 0 .. N : k[n] = 0}
<1>2. 0 \in T
  BY <1>1 DEF SumsUpTo
<1>3. ASSUME NEW n \in 0 .. N - 1, n \in T PROVE n + 1 \in T
  <2>1. n + 1 \in 1 .. N /\ (n + 1) - 1 = n /\ k[n] = 0
    BY <1>3
  <2>2. k[n + 1] = k[n] + numbers[n + 1] /\ numbers[n + 1] = 0
    BY <1>1, <2>1 DEF SumsUpTo
  <2>3. QED BY <2>1, <2>2
<1>4. 0 .. N \subseteq T
  <2>1. \A n \in 0 .. N - 1 : n \in T => n + 1 \in T
    BY <1>3
  <2> HIDE DEF T
  <2>2. QED BY <1>2, <2>1, Induction
<1>5. QED BY <1>1, <1>4

LEMMA ReadingsAreNumbers ==
    ASSUME SnapshotInv, NEW data \in {before, after}, NEW key
    PROVE  \A i \in Holding(data, key) : i \in DOMAIN Addresses /\ data[i][key] \in Int
<1>1. FieldsOK(setup.fields)
  BY SetupOK DEF SnapshotInv, SnapshotTypeOK
<1>2. TAKE i \in Holding(data, key)
<1>3. i \in DOMAIN data /\ key \in DOMAIN data[i]
  BY DEF Holding
<1>4. i \in DOMAIN Addresses
  BY <1>3, HeldIsTaken
<1>5. PICK counts \in Counts : data[i] = NodeValues(setup.fields, Info(counts), IsPrimary(Addresses[i]))
  BY <1>3, HeldIsTaken
<1>6. data[i][key] \in Int
  BY <1>1, <1>3, <1>5, KeptAreNumbers
<1>7. QED BY <1>4, <1>6

LEMMA OldReadingFound ==
    ASSUME SnapshotInv, AskedOnce, NEW f \in DOMAIN setup.fields, NEW key, Asks(setup.fields[f], key),
           setup.fields[f].perNode, NEW i \in DOMAIN Addresses
    PROVE  OldCell(Old, key, Addresses[i]) = Reading(before, key, i)
<1> DEFINE places == {j \in Holding(before, key) : Addresses[j] = Addresses[i]}
<1>1. FieldsOK(setup.fields) /\ Len(Addresses) \in Nat /\ DOMAIN Addresses = 1 .. Len(Addresses)
  BY SetupOK DEF SnapshotInv, SnapshotTypeOK
<1>2. /\ key \in DOMAIN Old <=> Holding(before, key) # {}
      /\ key \in DOMAIN Old =>
            /\ Old[key].tracked
            /\ Old[key].perNode = [j \in Holding(before, key) |-> before[j][key]]
  BY <1>1, SnapshotOf DEF Old
<1>3. Holding(before, key) \subseteq DOMAIN Addresses
  BY ReadingsAreNumbers
<1>4. places = {} <=> i \notin Holding(before, key)
  BY <1>3 DEF AskedOnce
<1>5. places \in SUBSET (1 .. Len(Addresses)) /\ \A j \in places : j = i
  BY <1>1, <1>3 DEF AskedOnce
<1>6. CASE i \in Holding(before, key)
  <2>1. Max(places) = i
    <3> HIDE DEF places
    <3>1. QED BY <1>1, <1>4, <1>5, <1>6, GreatestIsIn
  <2>2. {j \in DOMAIN Old[key].perNode : Addresses[j] = Addresses[i]} = places
    BY <1>2, <1>6
  <2> HIDE DEF places
  <2>3. OldCell(Old, key, Addresses[i]) = Old[key].perNode[i]
    BY <1>2, <1>4, <1>6, <2>1, <2>2 DEF OldCell
  <2>4. Old[key].perNode[i] = before[i][key]
    BY <1>2, <1>6
  <2>5. QED BY <1>6, <2>3, <2>4 DEF Reading
<1>7. CASE i \notin Holding(before, key)
  <2>1. places = {}
    BY <1>4, <1>7
  <2>2. key \in DOMAIN Old => {j \in DOMAIN Old[key].perNode : Addresses[j] = Addresses[i]} = {}
    BY <1>2, <2>1
  <2>3. OldCell(Old, key, Addresses[i]) = 0
    BY <2>2 DEF OldCell
  <2>4. QED BY <1>7, <2>3 DEF Reading
<1>8. QED BY <1>6, <1>7

LEMMA OldIs ==
    ASSUME FieldsOK(setup.fields), NEW f \in DOMAIN setup.fields, NEW key, Asks(setup.fields[f], key)
    PROVE  /\ key \in DOMAIN Old <=> Holding(before, key) # {}
           /\ key \in DOMAIN Old =>
                 /\ Old[key].value = Aggregate(setup.fields[f].aggregation, before, key)
                 /\ Old[key].tracked = setup.fields[f].perNode
                 /\ Old[key].perNode = [i \in Holding(before, key) |-> before[i][key]]
  BY SnapshotOf DEF Old

LEMMA NewIs ==
    ASSUME FieldsOK(setup.fields), NEW f \in DOMAIN setup.fields, NEW key, Asks(setup.fields[f], key)
    PROVE  /\ key \in DOMAIN New <=> Holding(after, key) # {}
           /\ key \in DOMAIN New =>
                 /\ New[key].value = Aggregate(setup.fields[f].aggregation, after, key)
                 /\ New[key].tracked = setup.fields[f].perNode
                 /\ New[key].perNode = [i \in Holding(after, key) |-> after[i][key]]
  BY SnapshotOf DEF New

LEMMA MatrixAddsUpStep ==
    ASSUME SnapshotInv
    PROVE  MatrixAddsUp
<1>1. SUFFICES ASSUME AskedOnce, NEW row \in Rows(Diff), setup.fields[row.field].aggregation = "sum"
               PROVE  TotalOf(row) - row.delta =
                        SumUp([i \in DOMAIN Addresses |-> IF i \in Lost(row) THEN before[i][row.key] ELSE 0])
  BY DEF MatrixAddsUp
<1>2. PICK f \in DOMAIN setup.fields, key \in DOMAIN Old \cup DOMAIN New :
         Asks(setup.fields[f], key) /\ row = RowFor(setup.fields, f, Old, New, key)
  BY DiffRows DEF Rows
<1> DEFINE field == setup.fields[f]
           N == Len(Addresses)
           cells == Cells(field, Old, New, key)
<1>3. /\ row.field = f /\ row.key = key /\ row.delta = ValueOf(New, key) - ValueOf(Old, key)
      /\ row.cells = cells
  BY <1>2, RowParts
<1>4. FieldsOK(setup.fields) /\ N \in Nat /\ DOMAIN Addresses = 1 .. N
  BY SetupOK DEF SnapshotInv, SnapshotTypeOK
<1>5. /\ key \in DOMAIN New <=> Holding(after, key) # {}
      /\ key \in DOMAIN New =>
            /\ New[key].value = SumOf(after, key) /\ New[key].tracked = field.perNode
            /\ New[key].perNode = [i \in Holding(after, key) |-> after[i][key]]
  <2>1. setup.fields[f].aggregation = "sum" /\ Aggregate("sum", after, key) = SumOf(after, key)
    BY <1>1, <1>3 DEF Aggregate
  <2>2. FieldsOK(setup.fields) /\ f \in DOMAIN setup.fields /\ Asks(setup.fields[f], key)
    BY <1>2, <1>4
  <2>3. /\ key \in DOMAIN New <=> Holding(after, key) # {}
        /\ key \in DOMAIN New =>
              /\ New[key].value = Aggregate(setup.fields[f].aggregation, after, key)
              /\ New[key].tracked = setup.fields[f].perNode
              /\ New[key].perNode = [i \in Holding(after, key) |-> after[i][key]]
    BY ONLY <2>2, NewIs
  <2>4. QED BY ONLY <2>1, <2>3
<1>6. /\ key \in DOMAIN Old <=> Holding(before, key) # {}
      /\ key \in DOMAIN Old => Old[key].value = SumOf(before, key)
  <2>1. setup.fields[f].aggregation = "sum" /\ Aggregate("sum", before, key) = SumOf(before, key)
    BY <1>1, <1>3 DEF Aggregate
  <2>2. FieldsOK(setup.fields) /\ f \in DOMAIN setup.fields /\ Asks(setup.fields[f], key)
    BY <1>2, <1>4
  <2>3. /\ key \in DOMAIN Old <=> Holding(before, key) # {}
        /\ key \in DOMAIN Old =>
              /\ Old[key].value = Aggregate(setup.fields[f].aggregation, before, key)
              /\ Old[key].tracked = setup.fields[f].perNode
              /\ Old[key].perNode = [i \in Holding(before, key) |-> before[i][key]]
    BY ONLY <2>2, OldIs
  <2>4. QED BY ONLY <2>1, <2>3
<1>7. field.perNode /\ key \in DOMAIN New
  <2>1. \E i \in DOMAIN cells : cells[i] # 0
    BY <1>3 DEF Rows
  <2>2. cells # <<>>
    BY <2>1
  <2>3. QED BY <2>2 DEF Cells
<1>8. cells = [i \in Holding(after, key) |-> after[i][key] - OldCell(Old, key, Addresses[i])]
  BY <1>5, <1>7 DEF Cells
<1> DEFINE a == [i \in DOMAIN Addresses |-> IF i \in DOMAIN row.cells THEN row.cells[i] ELSE 0]
           b == [i \in DOMAIN Addresses |-> Reading(after, key, i)]
           c == [i \in DOMAIN Addresses |-> Reading(before, key, i)]
           d == [i \in DOMAIN Addresses |-> IF i \in Lost(row) THEN before[i][row.key] ELSE 0]
<1>9. /\ \A i \in 1 .. N : i \in Holding(after, key) => after[i][key] \in Int
      /\ \A i \in 1 .. N : i \in Holding(before, key) => before[i][key] \in Int
  BY ReadingsAreNumbers
<1>10. /\ \A i \in 1 .. N : b[i] = IF i \in Holding(after, key) THEN after[i][key] ELSE 0
       /\ \A i \in 1 .. N : c[i] = IF i \in Holding(before, key) THEN before[i][key] ELSE 0
  BY <1>4 DEF Reading
<1>11. \A i \in 1 .. N : d[i] = IF i \in Holding(before, key) /\ i \notin Holding(after, key)
                              THEN before[i][key] ELSE 0
  BY <1>3, <1>4, <1>8 DEF Lost
<1>12. \A i \in 1 .. N : a[i] = IF i \in Holding(after, key) THEN after[i][key] - c[i] ELSE 0
  <2>1. \A i \in 1 .. N : OldCell(Old, key, Addresses[i]) = Reading(before, key, i)
    BY <1>1, <1>2, <1>4, <1>7, OldReadingFound
  <2>2. QED BY <1>3, <1>4, <1>8, <2>1
<1>13. DOMAIN a = 1 .. N /\ DOMAIN b = 1 .. N /\ DOMAIN c = 1 .. N /\ DOMAIN d = 1 .. N
  BY <1>4
<1>14. TotalOf(row) = SumUp(a) /\ SumOf(after, key) = SumUp(b) /\ SumOf(before, key) = SumUp(c)
  BY DEF TotalOf, SumOf
<1>15. /\ a = [i \in 1 .. N |-> a[i]] /\ b = [i \in 1 .. N |-> b[i]]
       /\ c = [i \in 1 .. N |-> c[i]] /\ d = [i \in 1 .. N |-> d[i]]
  BY <1>4
<1> SUFFICES TotalOf(row) - row.delta = SumUp(d)
  OBVIOUS
<1> HIDE DEF a, b, c, d, cells, field
<1>16. \A i \in 1 .. N : a[i] \in Int /\ b[i] \in Int /\ c[i] \in Int /\ d[i] \in Int
                       /\ a[i] - (b[i] - c[i]) = d[i]
  BY <1>9, <1>10, <1>11, <1>12
<1>17. a \in [1 .. N -> Int] /\ b \in [1 .. N -> Int] /\ c \in [1 .. N -> Int] /\ d \in [1 .. N -> Int]
  BY <1>15, <1>16
<1> HIDE DEF N
<1>18. /\ SumUp(a) - (SumUp(b) - SumUp(c)) = SumUp(d)
       /\ SumUp(a) \in Int /\ SumUp(b) \in Int /\ SumUp(c) \in Int
  <2>1. Differ(N, a, b, c, d)
    BY <1>4, <1>16, <1>17 DEF Differ
  <2>2. QED BY ONLY <2>1, SumsDiffer
<1>19. ValueOf(New, key) = SumUp(b)
  BY <1>5, <1>7, <1>14 DEF ValueOf
<1>20. ValueOf(Old, key) = SumUp(c)
  <2>1. CASE key \in DOMAIN Old
    BY <1>6, <1>14, <2>1 DEF ValueOf
  <2>2. CASE key \notin DOMAIN Old
    <3>1. \A i \in 1 .. N : c[i] = 0
      BY <1>6, <1>10, <2>2
    <3>2. SumUp(c) = 0
      BY <1>4, <1>17, <3>1, SumOfZeros
    <3>3. QED BY <2>2, <3>2 DEF ValueOf
  <2>3. QED BY <2>1, <2>2
<1>21. QED BY <1>3, <1>14, <1>18, <1>19, <1>20

(* Cell by cell and in total the matrix is what the test did to the servers, *)
(* for any deployment and any traffic.                                       *)
THEOREM MatrixIsRight == SnapshotSpec => []MatrixIsTraffic
<1>1. SnapshotInv => MatrixIsTraffic
  BY CellsAreTrafficStep, MatrixAddsUpStep DEF MatrixIsTraffic
<1>2. QED BY <1>1, SnapshotInvariant, PTL

-----------------------------------------------------------------------------
(* The titles of the columns.                                                *)

Distinct(nodes) == \A i, j \in DOMAIN nodes : nodes[i].address = nodes[j].address => i = j

LEMMA ParsedParts ==
    ASSUME NEW node \in ParsedLines
    PROVE  /\ node.address \in Nodes /\ FirstSlot(node) \in Nat
           /\ node.primary # NoPrimary => node.role = "replica"
<1>1. PICK line \in Lines : node = ParseLine(line)
  BY DEF ParsedLines
<1>2. /\ node.address = line.address /\ node.role = Role(line)
      /\ node.primary = IF Role(line) = "replica" THEN line.primary ELSE NoPrimary
      /\ node.slots = IF Role(line) = "primary" THEN line.slots ELSE <<>>
  BY <1>1 DEF ParseLine
<1>3. line.address \in Nodes /\ line.slots \in Seq(Slots)
  BY DEF Lines
<1>4. node.slots \in Seq(Slots)
  BY <1>2, <1>3, EmptySeq
<1>5. FirstSlot(node) \in Nat
  <2>1. node.slots # <<>> => Head(node.slots) \in Slots
    BY <1>4, HeadAndTail
  <2>2. \A s \in Slots : s \in Nat
    BY TopologyAssumption
  <2>3. FirstSlot(node) = IF node.slots = <<>> THEN NoSlots ELSE Head(node.slots)
    BY DEF FirstSlot
  <2>4. QED BY <2>1, <2>2, <2>3 DEF NoSlots
<1>6. QED BY <1>2, <1>3, <1>5

LEMMA NodesParts ==
    ASSUME NEW nodes \in Seq(ParsedLines)
    PROVE  /\ Len(nodes) \in Nat /\ DOMAIN nodes = 1 .. Len(nodes)
           /\ \A i \in DOMAIN nodes : nodes[i] \in ParsedLines
           /\ \A T \in SUBSET DOMAIN nodes : IsFiniteSet(T) /\ Cardinality(T) \in Nat
<1>1. /\ Len(nodes) \in Nat /\ DOMAIN nodes = 1 .. Len(nodes)
      /\ \A i \in DOMAIN nodes : nodes[i] \in ParsedLines
  BY LenProperties, ElementOfSeq
<1>2. IsFiniteSet(1 .. Len(nodes))
  BY <1>1, FS_Interval
<1>3. \A T \in SUBSET DOMAIN nodes : IsFiniteSet(T)
  BY <1>1, <1>2, FS_Subset
<1>4. QED BY <1>1, <1>3, FS_CardinalityType

(* A larger set of places has more elements.                                 *)
LEMMA LargerSet ==
    ASSUME NEW nodes \in Seq(ParsedLines), NEW S \in SUBSET DOMAIN nodes, NEW T \in SUBSET S, S # T
    PROVE  Cardinality(T) < Cardinality(S)
<1>1. IsFiniteSet(S) /\ Cardinality(S) \in Nat /\ Cardinality(T) \in Nat
  BY NodesParts
<1>2. Cardinality(T) <= Cardinality(S) /\ Cardinality(S) # Cardinality(T)
  BY <1>1, FS_Subset
<1>3. QED BY <1>1, <1>2

(* Shards have numbers of their own, and so have the nodes of a shard.       *)
LEMMA ShardsDiffer ==
    ASSUME NEW nodes \in Seq(ParsedLines), NEW p \in PrimariesOf(nodes), NEW q \in PrimariesOf(nodes),
           SortsBefore(nodes, p, q)
    PROVE  ShardOf(nodes, p) < ShardOf(nodes, q)
<1> DEFINE S == {r \in PrimariesOf(nodes) : SortsBefore(nodes, r, q)}
           T == {r \in PrimariesOf(nodes) : SortsBefore(nodes, r, p)}
<1>1. \A r \in PrimariesOf(nodes) : r \in Nat /\ r \in DOMAIN nodes /\ FirstSlot(nodes[r]) \in Nat
  BY NodesParts, ParsedParts DEF PrimariesOf
<1>2. T \subseteq S
  BY <1>1 DEF SortsBefore
<1>3. p \in S /\ p \notin T
  BY <1>1 DEF SortsBefore
<1>4. S \in SUBSET DOMAIN nodes
  BY <1>1
<1>5. Cardinality(T) < Cardinality(S) /\ Cardinality(T) \in Nat /\ Cardinality(S) \in Nat
  <2> HIDE DEF S, T
  <2>1. QED BY <1>2, <1>3, <1>4, LargerSet, NodesParts
<1>6. QED BY <1>5 DEF ShardOf

LEMMA ShardsTellPrimaries ==
    ASSUME NEW nodes \in Seq(ParsedLines), NEW p \in PrimariesOf(nodes), NEW q \in PrimariesOf(nodes),
           ShardOf(nodes, p) = ShardOf(nodes, q)
    PROVE  p = q
<1>1. \A r \in PrimariesOf(nodes) : r \in Nat /\ FirstSlot(nodes[r]) \in Nat /\ ShardOf(nodes, r) \in Nat \ {0}
  <2>1. TAKE r \in PrimariesOf(nodes)
  <2>2. {x \in PrimariesOf(nodes) : SortsBefore(nodes, x, r)} \in SUBSET DOMAIN nodes
    BY DEF PrimariesOf
  <2>3. Cardinality({x \in PrimariesOf(nodes) : SortsBefore(nodes, x, r)}) \in Nat
    BY <2>2, NodesParts
  <2>4. QED BY <2>3, NodesParts, ParsedParts DEF PrimariesOf, ShardOf
<1>2. p # q => SortsBefore(nodes, p, q) \/ SortsBefore(nodes, q, p)
  BY <1>1 DEF SortsBefore
<1>3. QED BY <1>1, <1>2, ShardsDiffer

LEMMA PlacesTellReplicas ==
    ASSUME NEW nodes \in Seq(ParsedLines), NEW p \in PrimariesOf(nodes),
           NEW i \in ReplicasOf(nodes, p), NEW j \in ReplicasOf(nodes, p),
           Cardinality({k \in ReplicasOf(nodes, p) : k <= i}) = Cardinality({k \in ReplicasOf(nodes, p) : k <= j})
    PROVE  i = j
<1>1. ReplicasOf(nodes, p) \subseteq DOMAIN nodes /\ DOMAIN nodes = 1 .. Len(nodes)
  BY NodesParts DEF ReplicasOf
<1>2. ASSUME NEW x \in ReplicasOf(nodes, p), NEW y \in ReplicasOf(nodes, p), x < y
      PROVE  Cardinality({k \in ReplicasOf(nodes, p) : k <= x}) < Cardinality({k \in ReplicasOf(nodes, p) : k <= y})
  <2> DEFINE T == {k \in ReplicasOf(nodes, p) : k <= x}
             S == {k \in ReplicasOf(nodes, p) : k <= y}
  <2>1. T \subseteq S /\ y \in S /\ y \notin T /\ S \in SUBSET DOMAIN nodes
    BY <1>1, <1>2
  <2> HIDE DEF S, T
  <2>2. Cardinality(T) < Cardinality(S)
    BY <2>1, LargerSet
  <2>3. QED BY <2>2 DEF S, T
<1> DEFINE Count(x) == Cardinality({k \in ReplicasOf(nodes, p) : k <= x})
<1>3. Count(i) \in Nat /\ i \in Nat /\ j \in Nat
  <2>1. {k \in ReplicasOf(nodes, p) : k <= i} \in SUBSET DOMAIN nodes
    BY <1>1
  <2>2. QED BY <1>1, <2>1, NodesParts
<1>4. Count(i) = Count(j) /\ (i < j => Count(i) < Count(j)) /\ (j < i => Count(j) < Count(i))
  BY <1>2
<1> HIDE DEF Count
<1>5. QED BY <1>3, <1>4

(* The place of a node that is a primary or has one.                         *)
LEMMA PlaceIs ==
    ASSUME NEW nodes \in Seq(ParsedLines), Distinct(nodes), NEW i \in DOMAIN nodes,
           NEW p \in PrimariesOf(nodes), i = p \/ i \in ReplicasOf(nodes, p)
    PROVE  ShardPlaces(nodes)[i] = ShardPlace(nodes, p, i)
<1> DEFINE heads == {q \in PrimariesOf(nodes) : i = q \/ i \in ReplicasOf(nodes, q)}
<1>1. \A q \in heads : q = p
  <2>1. \A q \in PrimariesOf(nodes) : q \in DOMAIN nodes /\ nodes[q].role = "primary"
    BY DEF PrimariesOf
  <2>2. \A q : i \in ReplicasOf(nodes, q) => nodes[i].role = "replica" /\ nodes[i].primary = nodes[q].address
    BY DEF ReplicasOf
  <2>3. QED BY <2>1, <2>2 DEF Distinct
<1>2. p \in heads
  OBVIOUS
<1>3. heads # {} /\ (CHOOSE q \in heads : TRUE) = p
  <2> HIDE DEF heads
  <2>1. QED BY <1>1, <1>2
<1>4. ShardPlaces(nodes)[i] =
        IF heads = {} THEN NoShard ELSE ShardPlace(nodes, CHOOSE q \in heads : TRUE, i)
  BY DEF ShardPlaces
<1> HIDE DEF heads
<1>5. QED BY <1>3, <1>4

LEMMA PlaceIsNone ==
    ASSUME NEW nodes, NEW i \in DOMAIN nodes,
           \A p \in PrimariesOf(nodes) : i # p /\ i \notin ReplicasOf(nodes, p)
    PROVE  ShardPlaces(nodes)[i] = NoShard
  BY DEF ShardPlaces

LEMMA ShardsCount ==
    ASSUME NEW nodes \in Seq(ParsedLines), NEW p \in PrimariesOf(nodes), NEW i
    PROVE  /\ ShardPlace(nodes, p, i).shard = ShardOf(nodes, p)
           /\ ShardOf(nodes, p) \in Nat \ {0} /\ ShardPlace(nodes, p, i) # NoShard
<1>1. {x \in PrimariesOf(nodes) : SortsBefore(nodes, x, p)} \in SUBSET DOMAIN nodes
  BY DEF PrimariesOf
<1>2. ShardOf(nodes, p) \in Nat \ {0}
  BY <1>1, NodesParts DEF ShardOf
<1>3. ShardPlace(nodes, p, i).shard = ShardOf(nodes, p)
  BY DEF ShardPlace
<1>4. ShardPlace(nodes, p, i) # NoShard
  BY <1>2, <1>3 DEF NoShard
<1>5. QED BY <1>2, <1>3, <1>4

(* The title of a node of the topology.                                      *)
LEMMA TitleIs ==
    ASSUME NEW t, Distinct(t.nodes), t.nodes \in Seq(ParsedLines), NEW i \in DOMAIN t.nodes
    PROVE  DisplayName(t, t.nodes[i].address) =
             IF t.place[i] = NoShard THEN <<0, 0, t.nodes[i].address>>
             ELSE <<t.place[i].shard, t.place[i].index, t.nodes[i].role>>
<1> DEFINE n == t.nodes[i].address
<1>1. NodesAt(t, n) = {i}
  BY DEF NodesAt, AddressOf, Distinct
<1>2. i \in Nat
  BY NodesParts
<1>3. Min({i}) = i
  BY <1>2 DEF Min
<1> HIDE DEF n
<1>4. DisplayName(t, n) = IF t.place[i] = NoShard THEN <<0, 0, n>>
                         ELSE <<t.place[i].shard, t.place[i].index, t.nodes[i].role>>
  BY <1>1, <1>3 DEF DisplayName
<1>5. QED BY <1>4 DEF n

LEMMA TitlesDiffer ==
    ASSUME NEW t, Distinct(t.nodes), t.nodes \in Seq(ParsedLines), t.place = ShardPlaces(t.nodes),
           NEW i \in DOMAIN t.nodes, NEW j \in DOMAIN t.nodes,
           DisplayName(t, t.nodes[i].address) = DisplayName(t, t.nodes[j].address)
    PROVE  i = j
<1> DEFINE nodes == t.nodes
           InShard(k, p) == k = p \/ k \in ReplicasOf(nodes, p)
           Alone(k) == \A p \in PrimariesOf(nodes) : ~InShard(k, p)
<1>1. \A k \in DOMAIN nodes :
        DisplayName(t, nodes[k].address) =
          IF t.place[k] = NoShard THEN <<0, 0, nodes[k].address>>
          ELSE <<t.place[k].shard, t.place[k].index, nodes[k].role>>
  BY TitleIs
<1>2. \A k \in DOMAIN nodes : Alone(k) => DisplayName(t, nodes[k].address) = <<0, 0, nodes[k].address>>
  BY <1>1, PlaceIsNone
<1>3. \A k \in DOMAIN nodes, p \in PrimariesOf(nodes) :
        InShard(k, p) => /\ ShardOf(nodes, p) \in Nat \ {0}
                         /\ DisplayName(t, nodes[k].address) =
                               <<ShardOf(nodes, p), ShardPlace(nodes, p, k).index, nodes[k].role>>
  <2>1. SUFFICES ASSUME NEW k \in DOMAIN nodes, NEW p \in PrimariesOf(nodes), InShard(k, p)
                 PROVE  /\ ShardOf(nodes, p) \in Nat \ {0}
                        /\ DisplayName(t, nodes[k].address) =
                              <<ShardOf(nodes, p), ShardPlace(nodes, p, k).index, nodes[k].role>>
    OBVIOUS
  <2>2. t.place[k] = ShardPlace(nodes, p, k)
    BY <2>1, PlaceIs
  <2>3. /\ ShardOf(nodes, p) \in Nat \ {0} /\ ShardPlace(nodes, p, k) # NoShard
        /\ ShardPlace(nodes, p, k).shard = ShardOf(nodes, p)
    BY ShardsCount
  <2>4. QED BY <1>1, <2>1, <2>2, <2>3
<1>4. CASE Alone(i) /\ Alone(j)
  <2>1. nodes[i].address = nodes[j].address
    BY <1>2, <1>4
  <2>2. QED BY <2>1 DEF Distinct
<1>5. CASE ~(Alone(i) <=> Alone(j))
  <2>1. \A k \in DOMAIN nodes : Alone(k) => DisplayName(t, nodes[k].address)[1] = 0
    BY <1>2
  <2>2. \A k \in DOMAIN nodes : ~Alone(k) => DisplayName(t, nodes[k].address)[1] # 0
    <3>1. TAKE k \in DOMAIN nodes
    <3>2. SUFFICES ASSUME NEW p \in PrimariesOf(nodes), InShard(k, p)
                   PROVE  DisplayName(t, nodes[k].address)[1] # 0
      OBVIOUS
    <3>3. QED BY <1>3, <3>2
  <2>3. QED BY <1>5, <2>1, <2>2
<1>6. CASE ~Alone(i) /\ ~Alone(j)
  <2>1. PICK p \in PrimariesOf(nodes) : InShard(i, p)
    BY <1>6
  <2>2. PICK q \in PrimariesOf(nodes) : InShard(j, q)
    BY <1>6
  <2>3. /\ ShardOf(nodes, p) = ShardOf(nodes, q)
        /\ ShardPlace(nodes, p, i).index = ShardPlace(nodes, q, j).index
        /\ nodes[i].role = nodes[j].role
    BY <1>3, <2>1, <2>2
  <2>4. p = q
    BY <2>3, ShardsTellPrimaries
  <2>5. \A k : /\ k \in ReplicasOf(nodes, p) => nodes[k].role = "replica"
               /\ k = p => nodes[k].role = "primary"
    BY DEF ReplicasOf, PrimariesOf
  <2>6. CASE i = p \/ j = p
    BY <2>1, <2>2, <2>3, <2>4, <2>5, <2>6
  <2>7. CASE i # p /\ j # p
    <3>1. i \in ReplicasOf(nodes, p) /\ j \in ReplicasOf(nodes, p)
      BY <2>1, <2>2, <2>4, <2>7
    <3> DEFINE Count(x) == Cardinality({k \in ReplicasOf(nodes, p) : k <= x})
    <3>2. 1 + Count(i) = 1 + Count(j)
      BY <2>3, <2>4, <2>7 DEF ShardPlace
    <3>3. Count(i) \in Nat /\ Count(j) \in Nat
      <4>1. \A x : {k \in ReplicasOf(nodes, p) : k <= x} \in SUBSET DOMAIN nodes
        BY DEF ReplicasOf
      <4>2. QED BY <4>1, NodesParts
    <3>4. Count(i) = Count(j)
      <4> HIDE DEF Count
      <4>1. QED BY <3>2, <3>3
    <3>5. QED BY <3>1, <3>4, PlacesTellReplicas
  <2>8. QED BY <2>6, <2>7
<1>7. QED BY <1>4, <1>5, <1>6

LEMMA KnownOK ==
    ASSUME setup \in Setups
    PROVE  /\ known.nodes \in Seq(ParsedLines) /\ Distinct(known.nodes)
           /\ known.nodes # <<>> => known.place = ShardPlaces(known.nodes)
<1>1. setup.lines \in Seq(Lines) /\ Distinct(ParseLines(setup.lines))
  BY SnapshotsAssumption DEF Distinct
<1>2. known = FromClusterNodes(setup.lines)
  BY DEF known, Discovered
<1>3. known.nodes \in Seq(ParsedLines)
  BY <1>1, <1>2, TopologyNodes
<1> HIDE DEF known
<1>4. \/ known.nodes = <<>>
      \/ known.nodes = ParseLines(setup.lines) /\ known.place = ShardPlaces(known.nodes)
  BY <1>2 DEF FromClusterNodes, NoTopology
<1>5. Distinct(<<>>)
  BY DEF Distinct
<1>6. QED BY <1>1, <1>3, <1>4, <1>5

LEMMA ColumnsAreNodes ==
    ASSUME SnapshotInv, Clustered, NEW n \in ColumnsOf(Diff)
    PROVE  \E i \in DOMAIN known.nodes : known.nodes[i].address = n
<1>1. setup \in Setups /\ setup.readFrom \in {"primary", "preferReplica", "all"}
  BY SnapshotsAssumption DEF SnapshotInv, SnapshotTypeOK
<1>2. n \in ToSet(Addresses)
  <2>0. PICK row \in Rows(Diff) : \E i \in DOMAIN row.cells : n = Addresses[i]
    BY DEF ColumnsOf
  <2>1. PICK i \in DOMAIN row.cells : n = Addresses[i]
    BY <2>0
  <2>2. PICK f \in DOMAIN setup.fields, key \in DOMAIN Old \cup DOMAIN New :
           Asks(setup.fields[f], key) /\ row = RowFor(setup.fields, f, Old, New, key)
    BY DiffRows DEF Rows
  <2>3. row.cells = Cells(setup.fields[f], Old, New, key)
    BY <2>2, RowParts
  <2>4. key \in DOMAIN New /\ DOMAIN row.cells = DOMAIN New[key].perNode
    <3>1. row.cells # <<>>
      BY <2>1
    <3>2. QED BY <2>3, <3>1 DEF Cells
  <2>5. FieldsOK(setup.fields) /\ DOMAIN New[key].perNode = Holding(after, key)
    BY <1>1, <2>2, <2>4, SetupOK, NewIs
  <2>6. i \in DOMAIN Addresses
    BY <2>1, <2>4, <2>5, ReadingsAreNumbers
  <2>7. QED BY <2>1, <2>6 DEF ToSet
<1>3. Addresses = SelectNodes(known, setup.readFrom)
  BY <1>1 DEF Addresses, BenchmarkAddresses, known, Clustered
<1>4. known.nodes \in Seq(ParsedLines)
  BY <1>1, KnownOK
<1> HIDE DEF known
<1> DEFINE available(roles) ==
             LET chosen == Kept(known.nodes,
                                {node \in ToSet(known.nodes) : node.role \in roles /\ IsAvailable(node)})
             IN  [i \in DOMAIN chosen |-> chosen[i].address]
<1>5. \A roles : \A m \in ToSet(available(roles)) :
        \E i \in DOMAIN known.nodes : known.nodes[i].address = m
  BY <1>4, AddressesOfKept
<1>6. Addresses \in {available({"primary"}), available({"replica"}), available({"primary", "replica", "other"})}
  BY <1>1, <1>3 DEF SelectNodes
<1> HIDE DEF available
<1>7. QED BY <1>2, <1>5, <1>6

LEMMA TitlesTellNodesStep ==
    ASSUME SnapshotInv
    PROVE  TitlesTellNodes
<1>1. SUFFICES ASSUME Clustered
               PROVE  /\ \A n, o \in ColumnsOf(Diff) : Title(n) = Title(o) => n = o
                      /\ \A i \in DOMAIN known.nodes, p \in PrimariesOf(known.nodes) :
                            AddressOf(known, i) \in ColumnsOf(Diff)
                            /\ known.nodes[i].primary = AddressOf(known, p) =>
                                Head(Title(AddressOf(known, i))) = Head(Title(AddressOf(known, p)))
  BY DEF TitlesTellNodes
<1>2. setup \in Setups
  BY DEF SnapshotInv, SnapshotTypeOK
<1> DEFINE t == known
<1>3. t.nodes \in Seq(ParsedLines) /\ Distinct(t.nodes)
  BY <1>2, KnownOK
<1>4. \A i \in DOMAIN t.nodes : t.place = ShardPlaces(t.nodes)
  BY <1>2, KnownOK
<1>5. ASSUME NEW n \in ColumnsOf(Diff), NEW o \in ColumnsOf(Diff), Title(n) = Title(o)
      PROVE  n = o
  <2>1. PICK i \in DOMAIN t.nodes : t.nodes[i].address = n
    BY <1>1, ColumnsAreNodes
  <2>2. PICK j \in DOMAIN t.nodes : t.nodes[j].address = o
    BY <1>1, ColumnsAreNodes
  <2>3. DisplayName(t, t.nodes[i].address) = DisplayName(t, t.nodes[j].address)
    BY <1>5, <2>1, <2>2 DEF Title
  <2> HIDE DEF t
  <2>4. i = j
    BY <1>3, <1>4, <2>3, TitlesDiffer
  <2>5. QED BY <2>1, <2>2, <2>4
<1>6. ASSUME NEW i \in DOMAIN t.nodes, NEW p \in PrimariesOf(t.nodes), t.nodes[i].primary = t.nodes[p].address
      PROVE  Head(DisplayName(t, t.nodes[i].address)) = Head(DisplayName(t, t.nodes[p].address))
  <2> HIDE DEF t
  <2>1. p \in DOMAIN t.nodes /\ t.nodes[i] \in ParsedLines /\ t.nodes[p] \in ParsedLines
    BY <1>3, NodesParts DEF PrimariesOf
  <2>2. t.nodes[i].primary # NoPrimary
    BY <1>6, <2>1, ParsedParts, TopologyAssumption
  <2>3. i \in ReplicasOf(t.nodes, p)
    BY <1>6, <2>1, <2>2, ParsedParts DEF ReplicasOf
  <2>4. \A k \in {i, p} : t.place[k].shard = ShardOf(t.nodes, p) /\ t.place[k] # NoShard
    BY <1>3, <1>4, <2>1, <2>3, PlaceIs, ShardsCount
  <2>5. \A k \in {i, p} : DisplayName(t, t.nodes[k].address) =
                           <<ShardOf(t.nodes, p), t.place[k].index, t.nodes[k].role>>
    BY <1>3, <2>1, <2>4, TitleIs
  <2>6. QED BY <2>5
<1>7. QED BY <1>5, <1>6 DEF Title, AddressOf

(* The titles of the columns tell the nodes of any cluster apart, and say    *)
(* which shard a replica is in.                                              *)
THEOREM TitlesAreRight == SnapshotSpec => []TitlesTellNodes
<1>1. SnapshotInv => TitlesTellNodes
  BY TitlesTellNodesStep
<1>2. QED BY <1>1, SnapshotInvariant, PTL

=============================================================================
