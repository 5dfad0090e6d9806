-------------------------- MODULE VectorRunsProofs --------------------------
(***************************************************************************)
(* What vector workloads load, delete and leave on the server, for every   *)
(* number of clients, every dataset and any sequence of runs.  That the    *)
(* bytes of files and requests mean what they should is BytesAsMeant,      *)
(* which TLC checks for datasets; here it is a hypothesis.  At the end,    *)
(* what IdPool's loops hand out, which VectorRuns takes as one step: for   *)
(* every number of vectors, any skipped ids and any threads, the ids below *)
(* the counter are the ones handed out or skipped, in increasing order.    *)
(***************************************************************************)
EXTENDS VectorRuns, IdPool, FiniteSetTheorems, SequenceTheorems, WellFoundedInduction, TLAPS

(* What is read and sent of the dataset, which does not change.              *)
Kinds == {"load", "update", "delete", "query"}
Opened ==
    /\ setup \in Setups /\ opened = View[setup.dataset]
    /\ NumVectors \in Nat \ {0} /\ Batch \in Nat \ {0} /\ Requests \in Nat
    /\ Workloads \in Seq(Kinds)
    /\ {"template", "query"} \cap Nodes = {}
    /\ ~Cluster => \A m, n \in Nodes : m = n
    /\ \A id \in Ids : opened.load[Batch][id].id = id /\ opened.delete[Batch][id].id = id
    /\ FourBytes(setup.dataset) =>
          \A id \in Ids : LET vector == opened.load[Batch][id].vector
                          IN  /\ vector[1] = "record"
                              /\ vector[2] = id + Datasets[setup.dataset].offset

LEMMA ViewShape ==
    ASSUME NEW name \in DOMAIN Datasets, NEW batch \in Batches
    PROVE  /\ DOMAIN View[name].load[batch] = 0 .. View[name].count - 1
           /\ DOMAIN View[name].delete[batch] = 0 .. View[name].count - 1
           /\ DOMAIN View[name].vectors = 0 .. View[name].count - 1
  BY DEF View, ViewOf, ViewIn, ViewFrom, RequestsOf, RequestsWith

LEMMA ViewCount ==
    ASSUME NEW name \in DOMAIN Datasets
    PROVE  View[name].count = CountOf(name)
  BY DEF View, ViewOf, ViewIn, ViewFrom, CountOf

LEMMA InitOpened ==
    ASSUME Init, BytesAsMeant
    PROVE  Opened
<1>1. setup \in Setups /\ opened = View[setup.dataset] /\ phase = "scan"
  BY DEF Init
<1>2. AllRead /\ AllParsed
  BY <1>1 DEF BytesAsMeant
<1>3. setup.dataset \in DOMAIN Datasets /\ Batch \in Batches
  BY <1>1, VectorAssumption DEF Batches, Batch
<1>4. /\ NumVectors \in Nat \ {0} /\ Batch \in Nat \ {0} /\ Requests \in Nat
      /\ Workloads \in Seq(Kinds)
  <2>1. NumVectors = CountOf(setup.dataset)
    BY <1>1, <1>3, ViewCount DEF NumVectors
  <2>2. QED
    BY <1>1, <2>1, VectorAssumption DEF Batch, Requests, Workloads, Kinds
<1>5. DOMAIN NodeOf = Clients /\ Nodes = Range(NodeOf)
  BY <1>1, VectorAssumption DEF Nodes, NodeOf, Range
<1>6. /\ {"template", "query"} \cap Nodes = {}
      /\ ~Cluster => \A m, n \in Nodes : m = n
  <2>1. {"template", "query"} \cap Range(setup.nodeOf) = {}
    BY <1>1, VectorAssumption
  <2>2. ~setup.cluster => \A c, d \in Clients : setup.nodeOf[c] = setup.nodeOf[d]
    BY <1>1, VectorAssumption
  <2>3. {"template", "query"} \cap Nodes = {}
    BY <1>5, <2>1 DEF NodeOf
  <2>4. ASSUME ~Cluster, NEW m \in Nodes, NEW n \in Nodes PROVE m = n
    BY <2>2, <2>4 DEF Nodes, NodeOf, Cluster
  <2>5. QED
    BY <2>3, <2>4
<1>7. /\ DOMAIN opened.load[Batch] = Ids /\ DOMAIN opened.vectors = Ids
  BY <1>1, <1>3, ViewShape DEF Ids, NumVectors
<1>8. VectorsParsed(Batch)
  BY <1>2, <1>3 DEF AllParsed
<1>9. \A id \in Ids : opened.load[Batch][id].id = id /\ opened.delete[Batch][id].id = id
  BY <1>7, <1>8 DEF VectorsParsed
<1>10. \A i \in Ids : /\ opened.vectors[i][1] = "record"
                      /\ opened.vectors[i][2] = i + Datasets[setup.dataset].offset
  BY <1>2, <1>7 DEF AllRead, ReadAsWritten
<1>11. FourBytes(setup.dataset) => \A id \in Ids : opened.load[Batch][id].vector = opened.vectors[id]
  BY <1>7, <1>8 DEF VectorsParsed
<1>12. QED
  BY <1>1, <1>4, <1>6, <1>9, <1>10, <1>11 DEF Opened

-----------------------------------------------------------------------------
(* The keys that the process, or an earlier one, loads; and what a request of *)
(* each kind may be about.                                                   *)
KeyOf(id, n) == [id |-> id, tag |-> n, vector |-> opened.load[Batch][id].vector]
LoadedKeys == {KeyOf(id, n) : id \in Ids, n \in Nodes}

Meant(op, key) ==
    \/ key = TemplateKey
    \/ op = "query"
    \/ op \in {"load", "update"} /\ key \in LoadedKeys
    \/ op = "delete" /\ key.id \notin Protected

Types ==
    /\ run \in Nat \ {0} /\ phase \in {"scan", "between", "running"}
    /\ phase = "running" => run <= Len(Workloads)
    /\ phase = "scan" => run = 1
    /\ scanning \subseteq Nodes /\ (phase # "scan" => scanning = {})
    /\ mapped \subseteq Ids
    /\ sold \in Nat /\ unmapped \in Nat /\ deleted \in Nat /\ dataset \in Nat
    /\ client \in [Clients -> {"idle", "claimed", "sent"}]
    /\ buffer = [c \in Clients |-> buffer[c]]

Contents ==
    /\ keys \subseteq LoadedKeys \cup {TemplateKey}
    /\ \A r \in stray : Meant(r.op, r.key)
    /\ phase = "running" => \A c \in Clients : Meant(Workload, buffer[c])

(* The ids of a vec-load come in ascending order, each once.                 *)
Loading ==
    phase = "running" /\ Workload = "load" =>
        /\ \A k \in sent : k \in LoadedKeys /\ k.id \notin mapped /\ k.id < unmapped
        /\ \A k, l \in sent : k.id = l.id => k = l
        /\ \A c \in Clients : buffer[c] = TemplateKey \/ buffer[c] \in sent
        /\ \A c, d \in Clients : c # d /\ buffer[c] = buffer[d] => buffer[c] = TemplateKey

VInv == Opened /\ Types /\ Contents /\ Loading

(* A step leaves the process's setup alone, and all that depends on it.      *)
LEMMA SetupKept ==
    ASSUME Opened, UNCHANGED <<setup, opened>>
    PROVE  /\ Opened' /\ Ids' = Ids /\ Nodes' = Nodes /\ LoadedKeys' = LoadedKeys
           /\ Protected' = Protected /\ Workloads' = Workloads /\ NumVectors' = NumVectors
           /\ Batch' = Batch /\ Requests' = Requests /\ CountMode' = CountMode
           /\ NodeOf' = NodeOf /\ Cluster' = Cluster
           /\ run' = run => Workload' = Workload
<1>1. /\ Ids' = Ids /\ Nodes' = Nodes /\ NumVectors' = NumVectors /\ Protected' = Protected
      /\ Workloads' = Workloads
      /\ Batch' = Batch /\ Requests' = Requests /\ CountMode' = CountMode
      /\ NodeOf' = NodeOf /\ Cluster' = Cluster
  BY DEF Ids, Nodes, NumVectors, Protected, Workloads, Batch, Requests, CountMode, NodeOf, Cluster
<1>2. LoadedKeys' = LoadedKeys
  BY <1>1 DEF LoadedKeys, KeyOf
<1>3. Opened'
  BY <1>1 DEF Opened, FourBytes
<1>4. run' = run => Workload' = Workload
  BY <1>1 DEF Workload
<1>5. QED
  BY <1>1, <1>2, <1>3, <1>4

LEMMA MeantKept ==
    ASSUME Opened, UNCHANGED <<setup, opened>>, NEW op, NEW key, Meant(op, key)
    PROVE  Meant(op, key)'
<1>1. LoadedKeys' = LoadedKeys /\ Protected' = Protected
  BY SetupKept
<1>2. QED
  BY <1>1 DEF Meant, TemplateKey

(* The least candidate is one, and the counter passes it.                    *)
LEMMA LeastIsIn ==
    ASSUME NEW S \in SUBSET Nat, S # {}
    PROVE  Min(S) \in S /\ \A n \in S : Min(S) <= n
<1> DEFINE Less == {p \in Nat \X Nat : p[1] < p[2]}
<1>1. IsWellFoundedOn({p \in Nat \X Nat : p[1] < p[2]}, Nat)
  BY NatLessThanWellFounded, Zenon DEF OpToRel
<1>2. PICK m \in S : \A n \in S : <<n, m>> \notin Less
  BY <1>1, WFMin
<1>3. ASSUME NEW n \in S PROVE m <= n
  <2>1. n \in Nat /\ m \in Nat
    OBVIOUS
  <2>2. <<n, m>> \notin Less
    BY <1>2
  <2>3. QED
    BY <2>1, <2>2
<1>4. QED
  BY <1>3 DEF Min

LEMMA Next_After ==
    ASSUME Opened, NEW n \in Nat, NEW skipped
    PROVE  /\ After(n, skipped) \in Nat
           /\ n < After(n, skipped) \/ NumVectors <= n
           /\ Candidates(n, skipped) # {} =>
                LET m == Min(Candidates(n, skipped))
                IN  m \in Ids \ skipped /\ n <= m /\ After(n, skipped) = m + 1
           /\ \A id \in Ids \ skipped : id < After(n, skipped) =>
                id < n \/ (Candidates(n, skipped) # {} /\ id = Min(Candidates(n, skipped)))
           /\ Candidates(n, skipped) = {} => NumVectors <= After(n, skipped)
<1> DEFINE C == Candidates(n, skipped)
           a == After(n, skipped)
<1>1. NumVectors \in Nat /\ Ids = 0 .. NumVectors - 1
  BY DEF Opened, Ids
<1>2. C \subseteq Nat /\ \A id : id \in C <=> id \in Ids \ skipped /\ id >= n
  BY <1>1 DEF Candidates
<1>3. C # {} => /\ Min(C) \in C /\ \A id \in C : Min(C) <= id
  BY <1>2, LeastIsIn
<1>4. C # {} => a = Min(C) + 1
  BY DEF After
<1>5. C = {} => a = IF n >= NumVectors THEN NumVectors ELSE NumVectors + 1
  BY DEF After
<1> HIDE DEF C, a
<1>6. CASE C = {}
  <2>1. \A id \in Ids \ skipped : id < n
    BY <1>1, <1>2, <1>6
  <2>2. QED
    BY <1>1, <1>5, <1>6, <2>1 DEF C, a
<1>7. CASE C # {}
  <2>1. Min(C) \in Ids \ skipped /\ n <= Min(C) /\ Min(C) \in Nat /\ a = Min(C) + 1
    BY <1>1, <1>2, <1>3, <1>4, <1>7
  <2>2. \A id \in Ids \ skipped : id < a => id < n \/ id = Min(C)
    BY <1>1, <1>2, <1>3, <1>7, <2>1
  <2>3. QED
    BY <1>7, <2>1, <2>2 DEF C, a
<1>8. QED
  BY <1>6, <1>7

LEMMA LoadedShape ==
    ASSUME NEW k \in LoadedKeys
    PROVE  k.id \in Ids /\ k.tag \in Nodes /\ k = KeyOf(k.id, k.tag)
  BY DEF LoadedKeys, KeyOf

LEMMA TemplateIsApart ==
    ASSUME Opened
    PROVE  TemplateKey \notin LoadedKeys /\ TemplateKey.tag \notin Nodes
<1>1. TemplateKey.tag \notin Nodes
  BY DEF TemplateKey, Opened
<1>2. QED
  BY <1>1, LoadedShape

LEMMA KeyForIs ==
    ASSUME Opened, NEW id \in Ids, NEW c \in Clients
    PROVE  /\ KeyFor(id, c).id = id /\ KeyFor(id, c).tag = NodeOf[c] /\ NodeOf[c] \in Nodes
           /\ KeyFor(id, c).tag # TemplateKey.tag
           /\ Workload # "delete" => KeyFor(id, c) = KeyOf(id, NodeOf[c]) /\ KeyFor(id, c) \in LoadedKeys
<1>1. opened.load[Batch][id].id = id /\ opened.delete[Batch][id].id = id
  BY DEF Opened
<1>2. NodeOf[c] \in Nodes
  BY DEF Nodes
<1>3. KeyFor(id, c).id = id /\ KeyFor(id, c).tag = NodeOf[c]
  BY <1>1 DEF KeyFor
<1>4. Workload # "delete" => KeyFor(id, c) = KeyOf(id, NodeOf[c])
  BY <1>1 DEF KeyFor, KeyOf
<1>5. QED
  BY <1>2, <1>3, <1>4, TemplateIsApart DEF LoadedKeys

(* What a request that is meant does to the keys.                            *)
LEMMA ExecutedKeeps ==
    ASSUME Opened, keys \subseteq LoadedKeys \cup {TemplateKey}, NEW op, NEW key, Meant(op, key)
    PROVE  /\ Executed(op, key) \subseteq LoadedKeys \cup {TemplateKey}
           /\ \A k \in keys : k.id \in Protected /\ k # TemplateKey => k \in Executed(op, key)
<1> DEFINE others == {k \in keys : k.id # key.id \/ k.tag # key.tag}
<1>1. \A k \in keys : k # TemplateKey => k \in LoadedKeys
  OBVIOUS
<1>2. CASE op = "query"
  BY <1>2 DEF Executed
<1>3. CASE op = "delete"
  <2>1. Executed(op, key) = others
    BY <1>3 DEF Executed
  <2>2. key = TemplateKey \/ key.id \notin Protected
    BY <1>3 DEF Meant
  <2>3. \A k \in keys : k # TemplateKey => k.tag # TemplateKey.tag
    BY <1>1, LoadedShape, TemplateIsApart
  <2>4. QED
    BY <2>1, <2>2, <2>3
<1>4. CASE op \notin {"query", "delete"}
  <2>1. Executed(op, key) = others \cup {key}
    BY <1>4 DEF Executed
  <2>2. key = TemplateKey \/ key \in LoadedKeys
    BY <1>4 DEF Meant
  <2>3. ASSUME NEW k \in keys, k # TemplateKey, k.id = key.id, k.tag = key.tag PROVE k = key
    <3>1. k = KeyOf(k.id, k.tag) /\ k.tag \in Nodes
      BY <1>1, <2>3, LoadedShape
    <3>2. key \in LoadedKeys
      BY <2>2, <2>3, <3>1, TemplateIsApart
    <3>3. QED
      BY <2>3, <3>1, <3>2, LoadedShape
  <2>4. QED
    BY <2>1, <2>2, <2>3
<1>5. QED
  BY <1>2, <1>3, <1>4

-----------------------------------------------------------------------------

LEMMA InitVInv ==
    ASSUME Init, BytesAsMeant
    PROVE  VInv
<1>1. Opened
  BY InitOpened
<1>2. setup \in Setups /\ opened = View[setup.dataset]
  BY DEF Init
<1>3. Types
  BY DEF Init, Types, Scans
<1>4. keys \subseteq LoadedKeys
  <2>1. ASSUME NEW p \in Preloaded PROVE p[1] \in Ids /\ p[2] \in Nodes
    <3>1. p \in Ids \X Range(NodeOf) /\ DOMAIN NodeOf = Clients
      <4>1. NumVectors = CountOf(setup.dataset)
        BY <1>2, VectorAssumption, ViewCount DEF NumVectors
      <4>2. QED
        BY <1>2, <4>1, VectorAssumption DEF Preloaded, Ids, NodeOf
    <3>2. Range(NodeOf) = Nodes
      BY <3>1 DEF Range, Nodes
    <3>3. QED
      BY <3>1, <3>2
  <2>2. keys = {KeyOf(p[1], p[2]) : p \in Preloaded}
    BY DEF Init, KeyOf
  <2>3. QED
    BY <2>1, <2>2 DEF LoadedKeys
<1>5. Contents
  BY <1>4 DEF Init, Contents
<1>6. Loading
  BY DEF Init, Loading
<1>7. QED
  BY <1>1, <1>3, <1>5, <1>6 DEF VInv

LEMMA ScanNodeKeeps ==
    ASSUME VInv, UNCHANGED <<setup, opened>>, NEW n \in Nodes, ScanNode(n)
    PROVE  VInv'
<1>1. PICK seen \in SUBSET {k \in keys : k.tag = n} : mapped' = mapped \cup IdsOf(seen)
  BY DEF ScanNode
<1>2. Opened' /\ phase' = phase /\ phase = "scan" /\ UNCHANGED <<run, sold, poolVars, queueVars, stray, keys>>
  BY SetupKept DEF VInv, ScanNode, Types
<1>3. Ids' = Ids /\ Nodes' = Nodes /\ Workloads' = Workloads /\ LoadedKeys' = LoadedKeys
  BY SetupKept DEF VInv
<1>4. IdsOf(seen) \subseteq Ids
  <2>1. ASSUME NEW k \in seen PROVE k.id \in Ids
    <3>1. k \in LoadedKeys \/ k = TemplateKey
      BY <1>1 DEF VInv, Contents
    <3>2. k # TemplateKey
      BY <1>1, TemplateIsApart DEF VInv
    <3>3. QED
      BY <3>1, <3>2, LoadedShape
  <2>2. QED
    BY <2>1 DEF IdsOf
<1>5. Types'
  BY <1>1, <1>2, <1>3, <1>4 DEF VInv, Types, ScanNode, poolVars, queueVars
<1>6. Contents'
  <2>1. \A r \in stray : Meant(r.op, r.key)'
    BY MeantKept, <1>2 DEF VInv, Contents
  <2>2. QED
    BY <1>2, <1>3, <2>1 DEF VInv, Contents, TemplateKey
<1>7. Loading'
  BY <1>2 DEF Loading
<1>8. QED
  BY <1>2, <1>5, <1>6, <1>7 DEF VInv

(* A step between runs, or one that ends a run: no run is under way then.    *)
LEMMA NoRunKeeps ==
    ASSUME VInv, UNCHANGED <<setup, opened>>, BuildTagMap \/ SkipRun \/ EndRun
    PROVE  VInv'
<1>1. Opened' /\ Ids' = Ids /\ Nodes' = Nodes /\ Workloads' = Workloads /\ LoadedKeys' = LoadedKeys
  BY SetupKept DEF VInv
<1>2. phase' = "between" /\ (run' = run \/ run' = run + 1) /\ UNCHANGED <<mapVars, sold, poolVars, buffer, keys>>
  BY DEF BuildTagMap, SkipRun, EndRun, queueVars
<1>3. scanning = {}
  BY DEF VInv, Types, BuildTagMap, SkipRun, EndRun
<1>4. client' = client \/ client' = [c \in Clients |-> "idle"]
  BY DEF BuildTagMap, SkipRun, EndRun, queueVars
<1>5. Types'
  BY <1>1, <1>2, <1>3, <1>4 DEF VInv, Types, mapVars, poolVars
<1>6. \A r \in stray' : Meant(r.op, r.key)
  <2>1. CASE EndRun
    BY <2>1 DEF EndRun, VInv, Contents
  <2>2. CASE BuildTagMap \/ SkipRun
    BY <2>2 DEF BuildTagMap, SkipRun, VInv, Contents
  <2>3. QED
    BY <2>1, <2>2
<1>7. Contents'
  <2>1. \A r \in stray' : Meant(r.op, r.key)'
    BY MeantKept, <1>6 DEF VInv
  <2>2. QED
    BY <1>1, <1>2, <2>1 DEF VInv, Contents, TemplateKey
<1>8. Loading'
  BY <1>2 DEF Loading
<1>9. QED
  BY <1>1, <1>5, <1>7, <1>8 DEF VInv

LEMMA StartRunKeeps ==
    ASSUME VInv, UNCHANGED <<setup, opened>>, StartRun
    PROVE  VInv'
<1>1. Opened' /\ Ids' = Ids /\ Nodes' = Nodes /\ Workloads' = Workloads /\ LoadedKeys' = LoadedKeys
  BY SetupKept DEF VInv
<1>2. /\ phase' = "running" /\ run <= Len(Workloads) /\ phase = "between"
      /\ sold' = 0 /\ dataset' = 0 /\ (unmapped' = 0 \/ unmapped' = unmapped)
      /\ client' = [c \in Clients |-> "idle"] /\ buffer' = [c \in Clients |-> TemplateKey]
      /\ sent' = {} /\ UNCHANGED <<run, mapVars, deleted, stray, keys>>
  BY DEF StartRun
<1>3. Types'
  BY <1>1, <1>2 DEF VInv, Types, mapVars
<1>4. Contents'
  <2>1. \A r \in stray : Meant(r.op, r.key)'
    BY MeantKept DEF VInv, Contents
  <2>2. \A c \in Clients : Meant(Workload, buffer[c])'
    BY <1>2 DEF Meant, TemplateKey
  <2>3. QED
    BY <1>1, <1>2, <2>1, <2>2 DEF VInv, Contents, TemplateKey
<1>5. Loading'
  BY <1>2 DEF Loading, TemplateKey
<1>6. QED
  BY <1>1, <1>3, <1>4, <1>5 DEF VInv

(* A step of a run, or of the server, that leaves the buffers, the ids and    *)
(* the counters alone.                                                       *)
LEMMA QuietStepKeeps ==
    ASSUME VInv, UNCHANGED <<setup, opened, run, phase, mapVars, poolVars, buffer, sent>>,
           stray' \subseteq stray, sold' \in Nat, client' \in [Clients -> {"idle", "claimed", "sent"}],
           keys' \subseteq LoadedKeys \cup {TemplateKey}
    PROVE  VInv'
<1>1. /\ Opened' /\ Ids' = Ids /\ Nodes' = Nodes /\ Workloads' = Workloads
      /\ LoadedKeys' = LoadedKeys /\ Workload' = Workload
  BY SetupKept DEF VInv
<1>2. Types'
  BY <1>1 DEF VInv, Types, mapVars, poolVars
<1>3. Contents'
  <2>1. \A r \in stray : Meant(r.op, r.key)'
    BY MeantKept DEF VInv, Contents
  <2>2. phase = "running" => \A c \in Clients : Meant(Workload, buffer[c])'
    <3>1. phase = "running" => \A c \in Clients : Meant(Workload, buffer[c])
      BY DEF VInv, Contents
    <3>2. Protected' = Protected /\ UNCHANGED buffer
      BY SetupKept DEF VInv
    <3>3. QED
      BY <1>1, <3>1, <3>2 DEF Meant, TemplateKey
  <2>4. QED
    BY <1>1, <2>1, <2>2 DEF Contents, TemplateKey
<1>4. Loading'
  BY <1>1 DEF VInv, Loading, mapVars, poolVars, TemplateKey
<1>5. QED
  BY <1>1, <1>2, <1>3, <1>4 DEF VInv

LEMMA QuietKeeps ==
    ASSUME VInv, UNCHANGED <<setup, opened>>,
           (\E c \in Clients : ClaimBatch(c) \/ Answered(c) \/ AnsweredQuery(c) \/ Failed(c)) \/ Straggler
    PROVE  /\ VInv'
           /\ \A k \in keys : k.id \in Protected /\ k # TemplateKey => k \in keys'
<1>0. Opened /\ keys \subseteq LoadedKeys \cup {TemplateKey} /\ sold \in Nat
      /\ client \in [Clients -> {"idle", "claimed", "sent"}]
  BY DEF VInv, Types, Contents
<1>1. CASE \E c \in Clients : ClaimBatch(c) \/ AnsweredQuery(c)
  <2>1. PICK c \in Clients : ClaimBatch(c) \/ AnsweredQuery(c)
    BY <1>1
  <2>2. UNCHANGED <<run, phase, mapVars, poolVars, buffer, sent, stray, keys>>
    BY <2>1 DEF ClaimBatch, AnsweredQuery
  <2>3. sold' \in Nat /\ client' \in [Clients -> {"idle", "claimed", "sent"}]
    BY <1>0, <2>1 DEF ClaimBatch, AnsweredQuery
  <2>4. QED
    BY <1>0, <2>2, <2>3, QuietStepKeeps
<1>2. CASE \E c \in Clients : Answered(c) \/ Failed(c)
  <2>1. PICK c \in Clients : Answered(c) \/ Failed(c)
    BY <1>2
  <2>2. UNCHANGED <<run, phase, mapVars, poolVars, buffer, sent, stray, sold>> /\ phase = "running"
    BY <2>1 DEF Answered, Failed
  <2>3. client' \in [Clients -> {"idle", "claimed", "sent"}]
    BY <1>0, <2>1 DEF Answered, Failed
  <2>4. keys' \in {keys, Executed(Workload, buffer[c])}
    BY <2>1 DEF Answered, Failed
  <2>5. Meant(Workload, buffer[c])
    BY <2>2 DEF VInv, Contents
  <2>6. /\ keys' \subseteq LoadedKeys \cup {TemplateKey}
        /\ \A k \in keys : k.id \in Protected /\ k # TemplateKey => k \in keys'
    BY <1>0, <2>4, <2>5, ExecutedKeeps
  <2>7. QED
    BY <1>0, <2>2, <2>3, <2>6, QuietStepKeeps
<1>3. CASE Straggler
  <2>1. PICK r \in stray : /\ stray' = stray \ {r} /\ keys' \in {keys, Executed(r.op, r.key)}
                           /\ UNCHANGED <<run, phase, mapVars, total, poolVars, sold, queueVars, outcomeVars>>
    BY <1>3 DEF Straggler
  <2>2. Meant(r.op, r.key)
    BY DEF VInv, Contents
  <2>3. /\ keys' \subseteq LoadedKeys \cup {TemplateKey}
        /\ \A k \in keys : k.id \in Protected /\ k # TemplateKey => k \in keys'
    BY <1>0, <2>1, <2>2, ExecutedKeeps
  <2>4. UNCHANGED <<buffer, sent, sold, client, run, phase, mapVars, poolVars>>
    BY <2>1 DEF queueVars
  <2>5. QED
    BY <1>0, <2>1, <2>3, <2>4, QuietStepKeeps
<1>4. QED
  BY <1>1, <1>2, <1>3

(* A client has got an id, or none is left.                                  *)
FillPools(c) == FillLoad(c) \/ FillDelete(c) \/ FillUpdate(c)

LEMMA FillStep ==
    ASSUME VInv, NEW c \in Clients, NEW ids \in SUBSET Ids, Fill(c, ids)
    PROVE  /\ phase = "running" /\ client[c] = "claimed"
           /\ buffer' = [d \in Clients |-> buffer'[d]]
           /\ \A d \in Clients : d # c => buffer'[d] = buffer[d]
           /\ ids = {} => buffer' = buffer /\ sent' = sent
           /\ ids # {} => LET key == KeyFor(Min(ids), c)
                          IN  /\ Min(ids) \in ids /\ Min(ids) \in Ids
                              /\ buffer'[c] = key /\ sent' = sent \cup {key}
           /\ client' = [client EXCEPT ![c] = "sent"]
           /\ UNCHANGED <<run, phase, mapVars, total, sold, stray, keys, outcomeVars>>
<1>1. Ids \subseteq Nat
  BY DEF VInv, Opened, Ids
<1>2. ids # {} => Min(ids) \in ids
  BY <1>1, LeastIsIn
<1>3. buffer = [d \in Clients |-> buffer[d]]
  BY DEF VInv, Types
<1>4. ids = {} => buffer' = buffer
  <2>1. ids = {} => buffer' = [buffer EXCEPT ![c] = buffer[c]]
    BY DEF Fill
  <2>2. buffer = [d \in Clients |-> buffer[d]]
    BY DEF VInv, Types
  <2>3. QED
    BY <2>1, <2>2
<1>5. QED
  BY <1>2, <1>3, <1>4 DEF Fill

LEMMA FillPoolsKeeps ==
    ASSUME VInv, UNCHANGED <<setup, opened>>, NEW c \in Clients, FillPools(c)
    PROVE  VInv'
<1>0. /\ Opened' /\ Ids' = Ids /\ Nodes' = Nodes /\ Workloads' = Workloads /\ LoadedKeys' = LoadedKeys
      /\ Opened /\ NumVectors \in Nat \ {0} /\ Ids = 0 .. NumVectors - 1 /\ Protected' = Protected
      /\ unmapped \in Nat /\ deleted \in Nat /\ dataset \in Nat
  BY SetupKept DEF VInv, Opened, Ids, Types
<1> DEFINE ids == CASE Workload = "load" -> Candidates(unmapped, mapped)
                    [] Workload = "delete" -> Candidates(deleted, Protected)
                    [] OTHER -> {dataset % NumVectors}
           key == KeyFor(Min(ids), c)
<1>1. Fill(c, ids) /\ Workload \in {"load", "delete", "update"}
  BY DEF FillPools, FillLoad, FillDelete, FillUpdate
<1>2. ids \in SUBSET Ids
  BY <1>0 DEF Candidates
<1>3. /\ Workload = "load" => unmapped' = After(unmapped, mapped) /\ UNCHANGED <<deleted, dataset>>
      /\ Workload = "delete" => deleted' = After(deleted, Protected) /\ UNCHANGED <<unmapped, dataset>>
      /\ Workload = "update" => dataset' = dataset + 1 /\ UNCHANGED <<unmapped, deleted>>
  BY DEF FillPools, FillLoad, FillDelete, FillUpdate
<1> HIDE DEF ids
<1>4. /\ phase = "running" /\ client[c] = "claimed"
      /\ buffer' = [d \in Clients |-> buffer'[d]]
      /\ \A d \in Clients : d # c => buffer'[d] = buffer[d]
      /\ ids = {} => buffer' = buffer /\ sent' = sent
      /\ ids # {} => /\ Min(ids) \in ids /\ Min(ids) \in Ids
                     /\ buffer'[c] = key /\ sent' = sent \cup {key}
      /\ client' = [client EXCEPT ![c] = "sent"]
      /\ UNCHANGED <<run, phase, mapVars, total, sold, stray, keys, outcomeVars>>
  BY <1>1, <1>2, FillStep
<1>5. ids # {} => /\ key.id = Min(ids)
                  /\ Workload # "delete" => key \in LoadedKeys
                  /\ Meant(Workload, key) /\ key # TemplateKey
  <2>1. SUFFICES ASSUME ids # {}
                 PROVE  /\ key.id = Min(ids) /\ (Workload # "delete" => key \in LoadedKeys)
                        /\ Meant(Workload, key) /\ key # TemplateKey
    OBVIOUS
  <2>2. /\ key.id = Min(ids) /\ key # TemplateKey
        /\ Workload # "delete" => key \in LoadedKeys
    BY <1>0, <1>4, <2>1, KeyForIs
  <2>3. Workload = "delete" => Min(ids) \notin Protected
    BY <1>4, <2>1 DEF ids, Candidates
  <2>4. QED
    BY <1>1, <2>2, <2>3 DEF Meant
<1> HIDE DEF key
<1>6. Workload' = Workload
  BY <1>4, SetupKept DEF VInv
<1>7. unmapped' \in Nat /\ deleted' \in Nat /\ dataset' \in Nat
  <2>1. Opened /\ unmapped \in Nat /\ deleted \in Nat /\ dataset \in Nat
    BY DEF VInv, Types
  <2>2. After(unmapped, mapped) \in Nat /\ After(deleted, Protected) \in Nat
    BY <2>1, Next_After
  <2>3. QED
    BY <1>1, <1>3, <2>1, <2>2
<1>8. Types'
  BY <1>0, <1>4, <1>7 DEF VInv, Types, mapVars
<1>9. Contents'
  <2>1. \A r \in stray : Meant(r.op, r.key)'
    BY MeantKept DEF VInv, Contents
  <2>2. ASSUME NEW d \in Clients PROVE Meant(Workload, buffer'[d])
    BY <1>4, <1>5 DEF VInv, Contents
  <2>3. \A d \in Clients : Meant(Workload, buffer[d])'
    BY <1>0, <1>6, <2>2 DEF Meant, TemplateKey
  <2>4. QED
    BY <1>0, <1>4, <2>1, <2>3 DEF VInv, Contents, TemplateKey
<1>10. Loading'
  <2>1. SUFFICES ASSUME Workload = "load"
                 PROVE  /\ \A k \in sent' : k \in LoadedKeys /\ k.id \notin mapped /\ k.id < unmapped'
                        /\ \A k, l \in sent' : k.id = l.id => k = l
                        /\ \A d \in Clients : buffer'[d] = TemplateKey \/ buffer'[d] \in sent'
                        /\ \A d, e \in Clients : d # e /\ buffer'[d] = buffer'[e] => buffer'[d] = TemplateKey
    BY <1>0, <1>4, <1>6 DEF Loading, mapVars, TemplateKey
  <2>2. /\ \A k \in sent : k \in LoadedKeys /\ k.id \notin mapped /\ k.id < unmapped
        /\ \A k, l \in sent : k.id = l.id => k = l
        /\ \A d \in Clients : buffer[d] = TemplateKey \/ buffer[d] \in sent
        /\ \A d, e \in Clients : d # e /\ buffer[d] = buffer[e] => buffer[d] = TemplateKey
    BY <1>4, <2>1 DEF VInv, Loading
  <2>3. \A k \in sent : k.id \in Nat
    BY <1>0, <2>2, LoadedShape
  <2>4. CASE ids = {}
    <3>1. NumVectors <= unmapped' /\ unmapped' \in Nat
      BY <1>0, <1>3, <1>7, <2>1, <2>4, Next_After DEF ids
    <3>2. \A k \in sent : k.id < unmapped'
      BY <1>0, <2>2, <3>1, LoadedShape
    <3>3. QED
      BY <1>4, <2>2, <2>4, <3>2
  <2>5. CASE ids # {}
    <3>1. /\ Min(ids) \in Ids \ mapped /\ unmapped <= Min(ids) /\ unmapped' = Min(ids) + 1
      BY <1>0, <1>3, <2>1, <2>5, Next_After DEF ids
    <3>2. /\ key \in LoadedKeys /\ key.id = Min(ids) /\ key.id \in Nat /\ key.id \notin mapped
          /\ unmapped <= key.id /\ unmapped' = key.id + 1 /\ key # TemplateKey
          /\ buffer'[c] = key /\ sent' = sent \cup {key}
      BY <1>0, <1>4, <1>5, <2>1, <2>5, <3>1
    <3>3. \A k \in sent : k.id < key.id /\ k.id < unmapped' /\ k # key
      BY <1>0, <2>2, <2>3, <3>2
    <3>4. key \notin sent /\ key.id < unmapped'
      BY <3>2, <3>3
    <3>5. \A k, l \in sent' : k.id = l.id => k = l
      BY <2>2, <2>3, <3>2, <3>3
    <3>6. \A d, e \in Clients : d # e /\ buffer'[d] = buffer'[e] => buffer'[d] = TemplateKey
      BY <1>4, <2>2, <3>2, <3>4
    <3>7. QED
      BY <1>4, <2>2, <3>2, <3>3, <3>4, <3>5, <3>6
  <2>6. QED
    BY <2>4, <2>5
<1>11. QED
  BY <1>0, <1>8, <1>9, <1>10 DEF VInv

LEMMA FillQueryKeeps ==
    ASSUME VInv, UNCHANGED <<setup, opened>>, NEW c \in Clients, FillQuery(c)
    PROVE  VInv'
<1>1. /\ Opened' /\ Ids' = Ids /\ Nodes' = Nodes /\ Workloads' = Workloads /\ LoadedKeys' = LoadedKeys
  BY SetupKept DEF VInv
<1>0. buffer = [d \in Clients |-> buffer[d]]
  BY DEF VInv, Types
<1>2. /\ Workload = "query" /\ phase = "running" /\ buffer' = [d \in Clients |-> buffer'[d]]
      /\ client' = [client EXCEPT ![c] = "sent"]
      /\ UNCHANGED <<run, phase, mapVars, total, poolVars, sold, stray, keys, sent, outcomeVars>>
  BY <1>0 DEF FillQuery
<1>3. Workload' = "query"
  BY <1>2, SetupKept DEF VInv
<1>4. Types'
  BY <1>1, <1>2 DEF VInv, Types, mapVars, poolVars
<1>5. Contents'
  <2>1. \A r \in stray : Meant(r.op, r.key)'
    BY MeantKept DEF VInv, Contents
  <2>2. \A d \in Clients : Meant(Workload, buffer[d])'
    BY <1>3 DEF Meant
  <2>3. QED
    BY <1>1, <1>2, <2>1, <2>2 DEF VInv, Contents, TemplateKey
<1>6. Loading'
  BY <1>3 DEF Loading
<1>7. QED
  BY <1>1, <1>4, <1>5, <1>6 DEF VInv

LEMMA VInvStep ==
    ASSUME VInv, [Next]_vectorVars
    PROVE  /\ VInv'
           /\ \A k \in keys : k.id \in Protected /\ k # TemplateKey => k \in keys'
<1>1. CASE UNCHANGED vectorVars
  <2>1. UNCHANGED <<setup, opened, run, phase, mapVars, poolVars, buffer, sent, stray, sold, client, keys>>
    BY <1>1 DEF vectorVars, queueVars
  <2>2. QED
    BY <2>1, QuietStepKeeps DEF VInv, Types, Contents
<1>2. CASE Next
  <2>1. UNCHANGED <<setup, opened>>
    BY <1>2 DEF Next
  <2>2. CASE (\E c \in Clients : ClaimBatch(c) \/ Answered(c) \/ AnsweredQuery(c) \/ Failed(c)) \/ Straggler
    BY <2>1, <2>2, QuietKeeps
  <2>3. CASE BuildTagMap \/ SkipRun \/ EndRun
    BY <2>1, <2>3, NoRunKeeps DEF BuildTagMap, SkipRun, EndRun
  <2>4. CASE StartRun
    BY <2>1, <2>4, StartRunKeeps DEF StartRun
  <2>5. CASE \E n \in Nodes : ScanNode(n)
    BY <2>1, <2>5, ScanNodeKeeps DEF ScanNode
  <2>6. CASE \E c \in Clients : FillPools(c)
    BY <2>1, <2>6, FillPoolsKeeps DEF FillPools, FillLoad, FillDelete, FillUpdate, Fill
  <2>7. CASE \E c \in Clients : FillQuery(c)
    BY <2>1, <2>7, FillQueryKeeps DEF FillQuery
  <2>8. QED
    BY <1>2, <2>2, <2>3, <2>4, <2>5, <2>6, <2>7 DEF Next, FillPools
<1>3. QED
  BY <1>1, <1>2

LEMMA VInvInvariant == Spec /\ []BytesAsMeant => []VInv
<1>1. Init /\ BytesAsMeant => VInv
  BY InitVInv
<1>2. VInv /\ [Next]_vectorVars => VInv'
  BY VInvStep
<1>3. QED
  BY <1>1, <1>2, PTL DEF Spec

(* However many clients there are, no vector is loaded by two batches of a    *)
(* vec-load, none that the tag map had, and no two requests under way carry  *)
(* the same one: claim_next_id over next_unmapped_id.                        *)
THEOREM LoadedOnce == Spec /\ []BytesAsMeant => []EachVectorLoadedOnce
<1>1. VInv => EachVectorLoadedOnce
  <2>1. SUFFICES ASSUME VInv, phase = "running", Workload = "load"
                 PROVE  /\ \A k, l \in sent : k.id = l.id => k = l
                        /\ IdsOf(sent) \cap mapped = {}
                        /\ \A c, d \in Clients :
                              c # d /\ client[c] = "sent" /\ client[d] = "sent" /\ buffer[c] = buffer[d]
                                => buffer[c] = TemplateKey
    BY DEF EachVectorLoadedOnce
  <2>2. /\ \A k \in sent : k.id \notin mapped
        /\ \A k, l \in sent : k.id = l.id => k = l
        /\ \A c, d \in Clients : c # d /\ buffer[c] = buffer[d] => buffer[c] = TemplateKey
    BY <2>1 DEF VInv, Loading
  <2>3. QED
    BY <2>2 DEF IdsOf
<1>2. QED
  BY <1>1, VInvInvariant, PTL

(* No request of any run, whether its buffer is stale or it is executed late, *)
(* removes or changes a vector that some query's truth names.                *)
THEOREM GroundTruthSurvives == Spec /\ []BytesAsMeant => ProtectedSurvive
<1>1. VInv /\ [Next]_vectorVars
        => [\A k \in keys : k.id \in Protected /\ k # TemplateKey => k \in keys']_vectorVars
  BY VInvStep
<1>2. QED
  BY <1>1, VInvInvariant, PTL DEF Spec, ProtectedSurvive

(* Every key of the server that is not the template's holds its own record.   *)
THEOREM RecordsInPlace == Spec /\ []BytesAsMeant => []StoredIsItsVector
<1>1. VInv => StoredIsItsVector
  <2>1. SUFFICES ASSUME VInv, FourBytes(setup.dataset), NEW k \in keys, k # TemplateKey
                 PROVE  k.vector[1] = "record" /\ k.vector[2] = k.id + Datasets[setup.dataset].offset
    BY DEF StoredIsItsVector
  <2>2. k \in LoadedKeys
    BY <2>1 DEF VInv, Contents
  <2>3. k.id \in Ids /\ k.vector = opened.load[Batch][k.id].vector
    BY <2>2 DEF LoadedKeys, KeyOf, VInv, Opened
  <2>4. QED
    BY <2>1, <2>3, SMTT(30) DEF VInv, Opened
<1>2. QED
  BY <1>1, VInvInvariant, PTL

-----------------------------------------------------------------------------
(* Counting, when a run stops after so many requests.  What was claimed is    *)
(* what was filled and what is about to be; while no vec-delete has run, the *)
(* keys that the map knew are there, and the counter of the deletes is zero. *)
Claimed == {c \in Clients : client[c] = "claimed"}
NeverDeleted == \A r \in 1 .. run - 1 : Workloads[r] # "delete"
Running(w) == phase = "running" /\ Workload = w

Counted ==
    CountMode =>
        /\ stray = {} /\ TemplateKey \notin keys
        /\ phase = "running" =>
              /\ total = QuotaFor(Workload) /\ (sold - 1) * Batch < total
              /\ Workload \in {"load", "update"} =>
                    \A c \in Clients : client[c] = "sent" => buffer[c] # TemplateKey

LoadCounted ==
    CountMode /\ Running("load") =>
        /\ Cardinality(IdsOf(sent)) + Cardinality(Claimed) = sold
        /\ \A id \in Ids \ mapped : id < unmapped => id \in IdsOf(sent)

LoadKept ==
    CountMode =>
        /\ NeverDeleted /\ ~Running("delete") => mapped \subseteq IdsOf(keys)
        /\ Running("load") /\ ~errors =>
              \A k \in sent : k \in keys \/ \E c \in Clients : client[c] = "sent" /\ buffer[c] = k

UnderWay(k) == \E c \in Clients : client[c] = "sent" /\ buffer[c].id = k.id /\ buffer[c].tag = k.tag
DeleteCounted ==
    CountMode /\ ~Cluster /\ NeverDeleted =>
        /\ ~Running("delete") => deleted = 0
        /\ Running("delete") =>
              /\ sold <= deleted + Cardinality(Claimed) \/ NumVectors <= deleted
              /\ \A id \in Ids \ Protected : id < deleted => id \in IdsOf(sent)
              /\ ~errors => \A k \in keys : k.id \in IdsOf(sent) => UnderWay(k)

CInv == Counted /\ LoadCounted /\ LoadKept /\ DeleteCounted /\ LoadCompletes /\ DeleteCompletes

LEMMA RunFrame ==
    ASSUME VInv, UNCHANGED <<setup, opened, run, phase, mapVars>>
    PROVE  /\ Workload' = Workload /\ NeverDeleted' = NeverDeleted
           /\ Running("load")' = Running("load") /\ Running("delete")' = Running("delete")
           /\ CountMode' = CountMode /\ Cluster' = Cluster /\ Ids' = Ids /\ Protected' = Protected
           /\ NumVectors' = NumVectors /\ Batch' = Batch /\ Requests' = Requests
           /\ QuotaFor(Workload)' = QuotaFor(Workload)
<1>1. /\ Workload' = Workload /\ Workloads' = Workloads
      /\ CountMode' = CountMode /\ Cluster' = Cluster /\ Ids' = Ids /\ Protected' = Protected
      /\ NumVectors' = NumVectors /\ Batch' = Batch /\ Requests' = Requests
  BY SetupKept DEF VInv
<1>2. NeverDeleted' = NeverDeleted
  BY <1>1 DEF NeverDeleted
<1>3. Running("load")' = Running("load") /\ Running("delete")' = Running("delete")
  BY <1>1 DEF Running
<1>4. QuotaFor(Workload)' = QuotaFor(Workload)
  BY <1>1 DEF QuotaFor, ToLoad, mapVars, LeastOf
<1>5. QED
  BY <1>1, <1>2, <1>3, <1>4

LEMMA ClaimedFinite == IsFiniteSet(Claimed) /\ Cardinality(Claimed) \in Nat
<1>1. IsFiniteSet(Clients) /\ Claimed \subseteq Clients
  BY VectorAssumption DEF Claimed
<1>2. QED
  BY <1>1, FS_Subset, FS_CardinalityType

LEMMA ClaimedAfter ==
    ASSUME Types, NEW c \in Clients, NEW place \in {"idle", "claimed", "sent"},
           client' = [client EXCEPT ![c] = place]
    PROVE  /\ client[c] = "idle" /\ place = "claimed" =>
                Cardinality(Claimed') = Cardinality(Claimed) + 1
           /\ client[c] = "claimed" /\ place = "sent" =>
                Cardinality(Claimed') = Cardinality(Claimed) - 1 /\ Cardinality(Claimed) >= 1
           /\ client[c] = "sent" /\ place = "idle" => Claimed' = Claimed
<1>1. client \in [Clients -> {"idle", "claimed", "sent"}]
  BY DEF Types
<1>2. CASE client[c] = "idle" /\ place = "claimed"
  <2>1. Claimed' = Claimed \cup {c} /\ c \notin Claimed
    BY <1>1, <1>2 DEF Claimed
  <2>2. QED
    BY <1>2, <2>1, ClaimedFinite, FS_AddElement
<1>3. CASE client[c] = "claimed" /\ place = "sent"
  <2>1. Claimed' = Claimed \ {c} /\ c \in Claimed
    BY <1>1, <1>3 DEF Claimed
  <2>2. Cardinality(Claimed') = Cardinality(Claimed) - 1
    BY <2>1, ClaimedFinite, FS_RemoveElement
  <2>3. Cardinality(Claimed) # 0
    BY <2>1, ClaimedFinite, FS_EmptySet
  <2>4. QED
    BY <1>3, <2>2, <2>3, ClaimedFinite
<1>4. CASE client[c] = "sent" /\ place = "idle"
  BY <1>1, <1>4 DEF Claimed
<1>5. QED
  BY <1>2, <1>3, <1>4

(* In a vec-load that is limited by the number of requests, a client with a   *)
(* batch finds an id.                                                        *)
LEMMA IdsLeft ==
    ASSUME VInv, Counted, LoadCounted, CountMode, Running("load"), NEW c \in Clients, client[c] = "claimed"
    PROVE  Candidates(unmapped, mapped) # {}
<1>1. SUFFICES ASSUME Candidates(unmapped, mapped) = {} PROVE FALSE
  OBVIOUS
<1>2. /\ NumVectors \in Nat \ {0} /\ Batch \in Nat \ {0} /\ Requests \in Nat /\ Ids = 0 .. NumVectors - 1
      /\ mapped \subseteq Ids /\ unmapped \in Nat /\ sold \in Nat
  BY DEF VInv, Opened, Types, Ids
<1>3. /\ IsFiniteSet(Ids) /\ Cardinality(Ids) = NumVectors
      /\ IsFiniteSet(mapped) /\ Cardinality(mapped) \in Nat /\ Cardinality(mapped) <= NumVectors
  <2> DEFINE n == NumVectors - 1
  <2>1. IsFiniteSet(0 .. n) /\ Cardinality(0 .. n) = NumVectors
    <3>1. n \in Int /\ ~(0 > n) /\ n - 0 + 1 = NumVectors
      BY <1>2
    <3> HIDE DEF n
    <3>2. QED
      BY <3>1, FS_Interval
  <2>2. QED
    BY <1>2, <2>1, FS_Subset, FS_CardinalityType
<1>4. Ids \ mapped \subseteq IdsOf(sent)
  BY <1>1, <1>2 DEF LoadCounted, Candidates
<1>5. IdsOf(sent) \subseteq Ids \ mapped
  BY LoadedShape DEF VInv, Loading, Running, IdsOf
<1>6. Cardinality(Ids \ mapped) = NumVectors - Cardinality(mapped)
  <2>1. Ids \cap mapped = mapped
    BY <1>2
  <2>2. QED
    BY <1>3, <2>1, FS_Difference
<1>7. Cardinality(IdsOf(sent)) = NumVectors - Cardinality(mapped)
  <2>1. IdsOf(sent) = Ids \ mapped
    BY <1>4, <1>5
  <2>2. QED
    BY <1>6, <2>1
<1>8. Cardinality(Claimed) >= 1
  <2>1. c \in Claimed
    BY DEF Claimed
  <2>2. Cardinality(Claimed) # 0
    BY <2>1, ClaimedFinite, FS_EmptySet
  <2>3. QED
    BY <2>2, ClaimedFinite
<1>9. Cardinality(IdsOf(sent)) + Cardinality(Claimed) = sold /\ (sold - 1) * Batch < total
  BY DEF LoadCounted, Counted, Running
<1>10. total <= NumVectors - Cardinality(mapped)
  <2>1. total = LeastOf(Requests, NumVectors) - Cardinality(mapped)
    BY DEF Counted, Running, QuotaFor, ToLoad
  <2>2. QED
    BY <1>2, <1>3, <2>1 DEF LeastOf
<1>11. total \in Int
  BY <1>2, <1>3 DEF Counted, Running, QuotaFor, ToLoad, LeastOf
<1>12. sold - 1 >= NumVectors - Cardinality(mapped) /\ NumVectors - Cardinality(mapped) >= 0
  BY <1>2, <1>3, <1>7, <1>8, <1>9, ClaimedFinite
<1>13. (sold - 1) * Batch >= sold - 1
  <2> DEFINE n == sold - 1
  <2>1. n \in Nat
    BY <1>2, <1>3, <1>12
  <2> HIDE DEF n
  <2>2. n * Batch >= n
    BY <1>2, <2>1
  <2>3. QED
    BY <2>2 DEF n
<1>14. QED
  <2> DEFINE p == (sold - 1) * Batch
  <2>1. p \in Int /\ p >= sold - 1 /\ p < total
    BY <1>2, <1>9, <1>13
  <2> HIDE DEF p
  <2>2. QED
    BY <1>2, <1>3, <1>10, <1>11, <1>12, <2>1

LEMMA InitCInv ==
    ASSUME Init, VInv
    PROVE  CInv
<1>1. phase = "scan" /\ run = 1 /\ stray = {} /\ mapped = {} /\ deleted = 0
  BY DEF Init
<1>2. TemplateKey \notin keys
  <2>1. \A p \in Preloaded : p[2] \in Nodes
    <3>1. \A p \in Preloaded : p[2] \in Range(NodeOf)
      BY VectorAssumption DEF VInv, Opened, Preloaded, NodeOf
    <3>2. Range(NodeOf) = Nodes
      BY VectorAssumption DEF VInv, Opened, NodeOf, Range, Nodes
    <3>3. QED
      BY <3>1, <3>2
  <2>2. \A k \in keys : k.tag \in Nodes
    BY <2>1 DEF Init
  <2>3. QED
    BY <2>2, TemplateIsApart DEF VInv
<1>3. QED
  BY <1>1, <1>2
  DEF CInv, Counted, LoadCounted, LoadKept, DeleteCounted, LoadCompletes, DeleteCompletes, JustEnded,
      Running

(* The keys and the map hold no other ids than the dataset has.              *)
LEMMA KeysCounted ==
    ASSUME VInv, TemplateKey \notin keys
    PROVE  /\ IsFiniteSet(IdsOf(keys)) /\ IdsOf(keys) \subseteq Ids /\ IsFiniteSet(mapped)
           /\ IsFiniteSet(IdsOf(keys) \ mapped)
           /\ Cardinality(mapped) \in Nat /\ Cardinality(IdsOf(keys)) \in Nat
           /\ Cardinality(IdsOf(keys) \ mapped) \in Nat
<1>1. NumVectors \in Nat \ {0} /\ Ids = 0 .. NumVectors - 1 /\ mapped \subseteq Ids
  BY DEF VInv, Opened, Ids, Types
<1>2. IsFiniteSet(Ids)
  BY <1>1, FS_Interval
<1>3. IdsOf(keys) \subseteq Ids
  <2>1. \A k \in keys : k \in LoadedKeys
    BY DEF VInv, Contents
  <2>2. QED
    BY <2>1, LoadedShape DEF IdsOf
<1>4. IsFiniteSet(IdsOf(keys)) /\ IsFiniteSet(mapped)
  BY <1>1, <1>2, <1>3, FS_Subset
<1>5. IsFiniteSet(IdsOf(keys) \ mapped)
  BY <1>4, FS_Subset
<1>6. QED
  BY <1>3, <1>4, <1>5, FS_CardinalityType

LEMMA NoRunCounts ==
    ASSUME VInv, CInv, UNCHANGED <<setup, opened>>,
           BuildTagMap \/ SkipRun \/ \E n \in Nodes : ScanNode(n)
    PROVE  CInv'
<1>1. /\ CountMode' = CountMode /\ Cluster' = Cluster /\ Ids' = Ids /\ Protected' = Protected
      /\ NumVectors' = NumVectors /\ Batch' = Batch /\ Requests' = Requests /\ Workloads' = Workloads
      /\ NumVectors \in Nat \ {0} /\ Batch \in Nat \ {0} /\ Requests \in Nat /\ run \in Nat \ {0}
  BY SetupKept DEF VInv, Opened, Types
<1>2. phase # "running" /\ phase' # "running" /\ UNCHANGED <<stray, keys, deleted, errors>>
  BY DEF BuildTagMap, SkipRun, ScanNode, VInv, Types, poolVars, outcomeVars
<1>3. run' = run \/ (run' = run + 1 /\ SkipRun)
  BY DEF BuildTagMap, SkipRun, ScanNode
<1>4. NeverDeleted' => NeverDeleted
  BY <1>1, <1>3 DEF NeverDeleted
<1>5. CASE ~CountMode
  BY <1>1, <1>5
  DEF CInv, Counted, LoadCounted, LoadKept, DeleteCounted, LoadCompletes, DeleteCompletes
<1>6. CASE CountMode
  <2>1. Counted' /\ LoadCounted'
    BY <1>1, <1>2, <1>6 DEF CInv, Counted, LoadCounted, Running, TemplateKey
  <2>2. ASSUME NeverDeleted' PROVE mapped' \subseteq IdsOf(keys)'
    <3>1. mapped \subseteq IdsOf(keys)
      BY <1>2, <1>4, <1>6, <2>2 DEF CInv, LoadKept, Running
    <3>2. mapped' = mapped \/ \E seen \in SUBSET keys : mapped' = mapped \cup IdsOf(seen)
      BY DEF BuildTagMap, SkipRun, ScanNode, mapVars
    <3>3. QED
      BY <1>2, <3>1, <3>2 DEF IdsOf
  <2>3. LoadKept'
    BY <1>2, <2>2 DEF LoadKept, Running
  <2>4. DeleteCounted'
    BY <1>1, <1>2, <1>4, <1>6 DEF CInv, DeleteCounted, Running
  <2>5. CASE SkipRun
    <3>1. /\ run' = run + 1 /\ run <= Len(Workloads) /\ QuotaFor(Workload) <= 0 /\ mapped' = mapped
          /\ run' - 1 = run
      BY <1>1, <2>5 DEF SkipRun, mapVars
    <3>2. Workload = Workloads[run] /\ Workloads'[run' - 1] = Workload
      BY <1>1, <3>1 DEF Workload
    <3>3. ~Before("delete")' => NeverDeleted
      <4>1. run' - 2 = run - 1
        BY <1>1, <3>1
      <4>2. QED
        BY <1>1, <4>1 DEF Before, NeverDeleted
    <3>4. LoadCompletes'
      <4>1. SUFFICES ASSUME Workload = "load"
                     PROVE  Cardinality(IdsOf(keys) \ mapped) * Batch >= ToLoad
        BY <1>1, <1>2, <3>1, <3>2 DEF LoadCompletes, JustEnded, ToLoad, LeastOf
      <4>2. TemplateKey \notin keys
        BY <1>6 DEF CInv, Counted
      <4>3. ToLoad <= 0
        BY <3>1, <4>1 DEF QuotaFor
      <4> DEFINE more == Cardinality(IdsOf(keys) \ mapped)
                 p == more * Batch
      <4>4. Cardinality(mapped) \in Nat /\ more \in Nat
        BY <4>2, KeysCounted
      <4>5. ToLoad \in Int
        BY <1>1, <4>4 DEF ToLoad, LeastOf
      <4> HIDE DEF more
      <4>6. p \in Nat
        BY <1>1, <4>4
      <4> HIDE DEF p
      <4>7. p >= ToLoad
        BY <4>3, <4>5, <4>6
      <4>8. QED
        BY <4>7 DEF p, more
    <3>5. DeleteCompletes'
      <4>1. SUFFICES ASSUME Workload = "delete", Requests >= NumVectors * Batch PROVE FALSE
        BY <1>1, <3>1, <3>2 DEF DeleteCompletes, JustEnded
      <4>2. Requests <= 0
        BY <3>1, <4>1 DEF QuotaFor
      <4>3. NumVectors * Batch >= 1
        BY <1>1
      <4> DEFINE p == NumVectors * Batch
      <4>4. p \in Int /\ p >= 1 /\ Requests >= p
        BY <1>1, <4>1, <4>3
      <4> HIDE DEF p
      <4>5. QED
        BY <1>1, <4>2, <4>4
    <3>6. QED
      BY <2>1, <2>3, <2>4, <3>4, <3>5 DEF CInv
  <2>6. CASE ~SkipRun
    <3>1. run' = 1 \/ phase' # "between"
      BY <1>3, <2>6 DEF BuildTagMap, SkipRun, ScanNode, VInv, Types
    <3>2. LoadCompletes' /\ DeleteCompletes'
      BY <3>1 DEF LoadCompletes, DeleteCompletes, JustEnded
    <3>3. QED
      BY <2>1, <2>3, <2>4, <3>2 DEF CInv
  <2>7. QED
    BY <2>5, <2>6
<1>7. QED
  BY <1>5, <1>6

LEMMA StartRunCounts ==
    ASSUME VInv, CInv, UNCHANGED <<setup, opened>>, StartRun
    PROVE  CInv'
<1>1. /\ CountMode' = CountMode /\ Cluster' = Cluster /\ Ids' = Ids /\ Protected' = Protected
      /\ NumVectors' = NumVectors /\ Batch' = Batch /\ Requests' = Requests /\ Workloads' = Workloads
      /\ NumVectors \in Nat \ {0} /\ Batch \in Nat \ {0} /\ Requests \in Nat
      /\ Ids = 0 .. NumVectors - 1 /\ deleted \in Nat
  BY SetupKept DEF VInv, Opened, Ids, Types
<1>2. /\ phase = "between" /\ phase' = "running" /\ QuotaFor(Workload) > 0
      /\ total' = QuotaFor(Workload) /\ sold' = 0
      /\ unmapped' = (IF Workload = "load" THEN 0 ELSE unmapped)
      /\ client' = [c \in Clients |-> "idle"] /\ sent' = {}
      /\ UNCHANGED <<run, mapped, deleted, stray, keys, errors>>
  BY DEF StartRun, mapVars
<1>3. Workload' = Workload /\ NeverDeleted' = NeverDeleted
  BY <1>1, <1>2, SetupKept DEF VInv, NeverDeleted
<1>4. QuotaFor(Workload)' = QuotaFor(Workload) /\ QuotaFor(Workload) \in Int
  <2>1. QuotaFor(Workload)' = QuotaFor(Workload)
    BY <1>1, <1>2, <1>3 DEF QuotaFor, ToLoad, LeastOf
  <2>2. Cardinality(mapped) \in Nat
    <3>1. IsFiniteSet(Ids)
      BY <1>1, FS_Interval
    <3>2. QED
      BY <3>1, FS_Subset, FS_CardinalityType DEF VInv, Types
  <2>3. QED
    BY <1>1, <2>1, <2>2 DEF QuotaFor, ToLoad, LeastOf
<1>5. Claimed' = {} /\ Cardinality(Claimed') = 0
  <2>1. Claimed' = {}
    BY <1>2 DEF Claimed
  <2>2. QED
    BY <2>1, FS_EmptySet
<1>6. IdsOf(sent)' = {} /\ Cardinality(IdsOf(sent)') = 0
  <2>1. IdsOf(sent)' = {}
    BY <1>2 DEF IdsOf
  <2>2. QED
    BY <2>1, FS_EmptySet
<1>7. LoadCompletes' /\ DeleteCompletes'
  BY <1>2 DEF LoadCompletes, DeleteCompletes, JustEnded
<1>8. CASE ~CountMode
  BY <1>1, <1>7, <1>8 DEF CInv, Counted, LoadCounted, LoadKept, DeleteCounted
<1>9. CASE CountMode
  <2>1. Counted'
    <3>1. (sold' - 1) * Batch < total'
      <4>1. (0 - 1) * Batch = - Batch
        BY <1>1
      <4>2. (sold' - 1) * Batch = - Batch
        BY <1>2, <4>1
      <4>3. QED
        BY <1>1, <1>2, <1>4, <4>2
    <3>2. stray = {} /\ TemplateKey \notin keys
      BY <1>9 DEF CInv, Counted
    <3>3. QED
      BY <1>1, <1>2, <1>3, <1>4, <3>1, <3>2 DEF Counted, TemplateKey
  <2>2. LoadCounted'
    BY <1>1, <1>2, <1>3, <1>5, <1>6 DEF LoadCounted, Running
  <2>3. LoadKept'
    <3>1. NeverDeleted => mapped \subseteq IdsOf(keys)
      BY <1>2, <1>9 DEF CInv, LoadKept, Running
    <3>2. QED
      BY <1>2, <1>3, <3>1 DEF LoadKept, IdsOf
  <2>4. DeleteCounted'
    <3>1. ~Cluster /\ NeverDeleted => deleted = 0
      BY <1>2, <1>9 DEF CInv, DeleteCounted, Running
    <3>2. QED
      BY <1>1, <1>2, <1>3, <1>5, <1>6, <3>1 DEF DeleteCounted
  <2>5. QED
    BY <1>7, <2>1, <2>2, <2>3, <2>4 DEF CInv
<1>10. QED
  BY <1>8, <1>9

(* The steps of a run; of one that is not limited by its requests nothing is  *)
(* counted, and no run has ended yet.                                        *)
LEMMA RunningCounts ==
    ASSUME VInv, UNCHANGED <<setup, opened, run, phase, mapVars>>, phase = "running",
           CountMode => Counted' /\ LoadCounted' /\ LoadKept' /\ DeleteCounted'
    PROVE  CInv'
<1>1. CountMode' = CountMode
  BY RunFrame
<1>2. LoadCompletes' /\ DeleteCompletes'
  BY DEF LoadCompletes, DeleteCompletes, JustEnded
<1>3. QED
  BY <1>1, <1>2 DEF CInv, Counted, LoadCounted, LoadKept, DeleteCounted

LEMMA ClaimCounts ==
    ASSUME VInv, CInv, UNCHANGED <<setup, opened>>, NEW c \in Clients, ClaimBatch(c)
    PROVE  CInv'
<1>1. /\ phase = "running" /\ client[c] = "idle" /\ sold' = sold + 1
      /\ CountMode => sold * Batch < total
      /\ client' = [client EXCEPT ![c] = "claimed"]
      /\ UNCHANGED <<run, phase, mapVars, total, poolVars, buffer, stray, keys, sent, outcomeVars>>
  BY DEF ClaimBatch
<1>2. /\ Workload' = Workload /\ NeverDeleted' = NeverDeleted
      /\ Running("load")' = Running("load") /\ Running("delete")' = Running("delete")
      /\ CountMode' = CountMode /\ Cluster' = Cluster /\ Ids' = Ids /\ Protected' = Protected
      /\ NumVectors' = NumVectors /\ Batch' = Batch
      /\ QuotaFor(Workload)' = QuotaFor(Workload)
  BY <1>1, RunFrame
<1>3. \A d \in Clients : client'[d] = "sent" <=> client[d] = "sent"
  BY <1>1 DEF VInv, Types
<1>4. Cardinality(Claimed') = Cardinality(Claimed) + 1 /\ Cardinality(Claimed) \in Nat
  BY <1>1, ClaimedAfter, ClaimedFinite DEF VInv
<1>5. sold \in Nat /\ deleted \in Nat /\ NumVectors \in Nat
  BY DEF VInv, Types, Opened
<1>6. SUFFICES ASSUME CountMode PROVE Counted' /\ LoadCounted' /\ LoadKept' /\ DeleteCounted'
  BY <1>1, RunningCounts
<1>7. Counted'
  <2>1. sold' - 1 = sold
    BY <1>1, <1>5
  <2>2. (sold' - 1) * Batch' < total'
    BY <1>1, <1>2, <1>6, <2>1
  <2>3. QED
    BY <1>1, <1>2, <1>3, <1>6, <2>2 DEF CInv, Counted, TemplateKey
<1>8. LoadCounted'
  <2>1. CASE ~Running("load")
    BY <1>2, <2>1 DEF LoadCounted
  <2>2. CASE Running("load")
    <3>1. /\ Cardinality(IdsOf(sent)) + Cardinality(Claimed) = sold
          /\ \A id \in Ids \ mapped : id < unmapped => id \in IdsOf(sent)
      BY <1>6, <2>2 DEF CInv, LoadCounted
    <3>2. IdsOf(sent)' = IdsOf(sent) /\ mapped' = mapped /\ unmapped' = unmapped
      BY <1>1 DEF IdsOf, mapVars, poolVars
    <3>3. Cardinality(IdsOf(sent)) \in Int
      <4>1. IsFiniteSet(Ids)
        BY FS_Interval DEF VInv, Opened, Ids
      <4>2. IdsOf(sent) \subseteq Ids
        BY <2>2, LoadedShape DEF VInv, Loading, Running, IdsOf
      <4>3. QED
        BY <4>1, <4>2, FS_Subset, FS_CardinalityType
    <3>4. Cardinality(IdsOf(sent)') + Cardinality(Claimed') = sold'
      BY <1>1, <1>4, <1>5, <3>1, <3>2, <3>3
    <3>5. QED
      BY <1>2, <3>1, <3>2, <3>4 DEF LoadCounted
  <2>3. QED
    BY <2>1, <2>2
<1>9. LoadKept'
  <2>1. IdsOf(keys)' = IdsOf(keys) /\ mapped' = mapped /\ errors' = errors
    BY <1>1 DEF IdsOf, mapVars, outcomeVars
  <2>2. QED
    BY <1>1, <1>2, <1>3, <1>6, <2>1 DEF CInv, LoadKept
<1>10. DeleteCounted'
  <2>1. IdsOf(sent)' = IdsOf(sent) /\ deleted' = deleted /\ errors' = errors /\ keys' = keys
    BY <1>1 DEF IdsOf, poolVars, outcomeVars
  <2>2. \A k : UnderWay(k) => UnderWay(k)'
    BY <1>1, <1>3 DEF UnderWay
  <2>3. sold <= deleted + Cardinality(Claimed) => sold' <= deleted' + Cardinality(Claimed')
    BY <1>1, <1>4, <1>5, <2>1
  <2>4. QED
    BY <1>2, <1>6, <2>1, <2>2, <2>3 DEF CInv, DeleteCounted
<1>11. QED
  BY <1>7, <1>8, <1>9, <1>10

LEMMA FillCounts ==
    ASSUME VInv, CInv, UNCHANGED <<setup, opened>>, NEW c \in Clients, FillPools(c)
    PROVE  CInv'
<1>1. /\ NumVectors \in Nat \ {0} /\ Ids = 0 .. NumVectors - 1 /\ Opened
      /\ unmapped \in Nat /\ deleted \in Nat /\ dataset \in Nat /\ sold \in Nat
  BY DEF VInv, Opened, Ids, Types
<1> DEFINE ids == CASE Workload = "load" -> Candidates(unmapped, mapped)
                    [] Workload = "delete" -> Candidates(deleted, Protected)
                    [] OTHER -> {dataset % NumVectors}
           key == KeyFor(Min(ids), c)
<1>2. Fill(c, ids) /\ Workload \in {"load", "delete", "update"}
  BY DEF FillPools, FillLoad, FillDelete, FillUpdate
<1>3. ids \in SUBSET Ids
  BY <1>1 DEF Candidates
<1>4. /\ Workload = "load" => unmapped' = After(unmapped, mapped) /\ deleted' = deleted
      /\ Workload = "delete" => deleted' = After(deleted, Protected)
      /\ Workload = "update" => deleted' = deleted /\ ids # {}
  BY DEF FillPools, FillLoad, FillDelete, FillUpdate
<1>5. /\ phase = "running" /\ client[c] = "claimed"
      /\ \A d \in Clients : d # c => buffer'[d] = buffer[d]
      /\ ids = {} => buffer' = buffer /\ sent' = sent
      /\ ids # {} => /\ Min(ids) \in ids /\ Min(ids) \in Ids
                     /\ buffer'[c] = key /\ sent' = sent \cup {key}
      /\ client' = [client EXCEPT ![c] = "sent"]
      /\ UNCHANGED <<run, phase, mapVars, total, sold, stray, keys, outcomeVars>>
  <2> HIDE DEF ids
  <2>1. QED
    BY <1>2, <1>3, FillStep
<1>6. /\ Workload' = Workload /\ NeverDeleted' = NeverDeleted
      /\ Running("load")' = Running("load") /\ Running("delete")' = Running("delete")
      /\ CountMode' = CountMode /\ Cluster' = Cluster /\ Ids' = Ids /\ Protected' = Protected
      /\ NumVectors' = NumVectors /\ Batch' = Batch
      /\ QuotaFor(Workload)' = QuotaFor(Workload)
  BY <1>5, RunFrame
<1>7. ids # {} => key.id = Min(ids) /\ key.tag = NodeOf[c] /\ key # TemplateKey
  <2> HIDE DEF ids
  <2>1. QED
    BY <1>1, <1>5, KeyForIs
<1>8. /\ client'[c] = "sent"
      /\ \A d \in Clients : d # c => client'[d] = client[d]
      /\ \A d \in Clients : client[d] = "sent" => client'[d] = "sent" /\ d # c
  BY <1>5 DEF VInv, Types
<1>9. /\ Cardinality(Claimed') = Cardinality(Claimed) - 1 /\ Cardinality(Claimed) >= 1
      /\ Cardinality(Claimed) \in Nat
  BY <1>5, ClaimedAfter, ClaimedFinite DEF VInv
<1>10. UNCHANGED <<keys, stray, mapped, total, sold, errors>>
  BY <1>5 DEF mapVars, outcomeVars
<1>11. SUFFICES ASSUME CountMode PROVE Counted' /\ LoadCounted' /\ LoadKept' /\ DeleteCounted'
  BY <1>5, RunningCounts
<1>12. Workload = "load" => ids # {}
  BY <1>5, <1>11, IdsLeft DEF CInv, Running
<1> HIDE DEF key
<1>13. Counted'
  <2>1. ASSUME Workload \in {"load", "update"}, NEW d \in Clients, client'[d] = "sent"
        PROVE  buffer'[d] # TemplateKey
    <3>1. ids # {}
      BY <1>4, <1>12, <2>1
    <3>2. CASE d = c
      BY <1>5, <1>7, <3>1, <3>2
    <3>3. CASE d # c
      <4>1. buffer[d] # TemplateKey
        BY <1>5, <1>8, <1>11, <2>1, <3>3 DEF CInv, Counted
      <4>2. QED
        BY <1>5, <3>3, <4>1
    <3>4. QED
      BY <3>2, <3>3
  <2>2. stray = {} /\ TemplateKey \notin keys /\ total = QuotaFor(Workload) /\ (sold - 1) * Batch < total
    BY <1>5, <1>11 DEF CInv, Counted
  <2>3. QED
    BY <1>6, <1>10, <2>1, <2>2 DEF Counted, TemplateKey
<1>14. LoadCounted'
  <2>1. CASE ~Running("load")
    BY <1>6, <2>1 DEF LoadCounted
  <2>2. CASE Running("load")
    <3>1. /\ Cardinality(IdsOf(sent)) + Cardinality(Claimed) = sold
          /\ \A id \in Ids \ mapped : id < unmapped => id \in IdsOf(sent)
          /\ Workload = "load"
      BY <1>11, <2>2 DEF CInv, LoadCounted, Running
    <3> DEFINE m == Min(Candidates(unmapped, mapped))
    <3>2. /\ m \in Ids \ mapped /\ unmapped <= m
          /\ \A id \in Ids \ mapped : id < unmapped' => id < unmapped \/ id = m
      BY <1>1, <1>4, <1>12, <3>1, Next_After
    <3>3. key.id = m /\ sent' = sent \cup {key}
      BY <1>5, <1>7, <1>12, <3>1
    <3> HIDE DEF m, ids
    <3>4. IdsOf(sent') = IdsOf(sent) \cup {m}
      BY <3>3 DEF IdsOf
    <3>5. IdsOf(sent) \subseteq Ids /\ m \notin IdsOf(sent)
      <4>1. \A k \in sent : k.id \in Ids /\ k.id < unmapped
        BY <1>5, <3>1, LoadedShape DEF VInv, Loading
      <4>2. \A id \in IdsOf(sent) : id \in Ids /\ id < unmapped
        BY <4>1 DEF IdsOf
      <4>3. QED
        BY <1>1, <3>2, <4>2
    <3>6. IsFiniteSet(IdsOf(sent)) /\ Cardinality(IdsOf(sent)) \in Nat
      <4>1. IsFiniteSet(Ids)
        BY <1>1, FS_Interval
      <4>2. QED
        BY <3>5, <4>1, FS_Subset, FS_CardinalityType
    <3>7. Cardinality(IdsOf(sent')) = Cardinality(IdsOf(sent)) + 1
      BY <3>4, <3>5, <3>6, FS_AddElement
    <3>8. Cardinality(IdsOf(sent')) + Cardinality(Claimed') = sold'
      BY <1>1, <1>9, <1>10, <3>1, <3>6, <3>7
    <3>9. \A id \in Ids \ mapped : id < unmapped' => id \in IdsOf(sent')
      BY <3>1, <3>2, <3>4
    <3>10. QED
      BY <1>6, <1>10, <3>8, <3>9 DEF LoadCounted, IdsOf
  <2>3. QED
    BY <2>1, <2>2
<1>15. LoadKept'
  <2>1. SUFFICES /\ NeverDeleted /\ ~Running("delete") => mapped \subseteq IdsOf(keys)
                 /\ Running("load") /\ ~errors =>
                       \A k \in sent' : k \in keys \/ \E d \in Clients : client'[d] = "sent" /\ buffer'[d] = k
    BY <1>6, <1>10 DEF LoadKept, IdsOf
  <2>2. NeverDeleted /\ ~Running("delete") => mapped \subseteq IdsOf(keys)
    BY <1>11 DEF CInv, LoadKept
  <2>3. ASSUME Running("load"), ~errors, NEW k \in sent', k \notin keys
        PROVE  \E d \in Clients : client'[d] = "sent" /\ buffer'[d] = k
    <3> HIDE DEF ids
    <3>1. sent' = sent \cup {key} /\ buffer'[c] = key
      BY <1>5, <1>12, <2>3 DEF Running
    <3>2. CASE k = key
      BY <1>8, <3>1, <3>2
    <3>3. CASE k \in sent
      <4>1. PICK d \in Clients : client[d] = "sent" /\ buffer[d] = k
        BY <1>11, <2>3, <3>3 DEF CInv, LoadKept
      <4>2. QED
        BY <1>5, <1>8, <4>1
    <3>4. QED
      BY <2>3, <3>1, <3>2, <3>3
  <2>4. QED
    BY <2>2, <2>3
<1>16. DeleteCounted'
  <2>1. CASE ~(~Cluster /\ NeverDeleted)
    BY <1>6, <2>1 DEF DeleteCounted
  <2>2. CASE ~Cluster /\ NeverDeleted /\ ~Running("delete")
    <3>1. deleted' = deleted
      BY <1>2, <1>4, <1>5, <2>2 DEF Running
    <3>2. deleted = 0
      BY <1>11, <2>2 DEF CInv, DeleteCounted
    <3>3. QED
      BY <1>6, <2>2, <3>1, <3>2 DEF DeleteCounted
  <2>3. CASE ~Cluster /\ NeverDeleted /\ Running("delete")
    <3>1. /\ sold <= deleted + Cardinality(Claimed) \/ NumVectors <= deleted
          /\ \A id \in Ids \ Protected : id < deleted => id \in IdsOf(sent)
          /\ ~errors => \A k \in keys : k.id \in IdsOf(sent) => UnderWay(k)
          /\ Workload = "delete"
      BY <1>11, <2>3 DEF CInv, DeleteCounted, Running
    <3> DEFINE C == Candidates(deleted, Protected)
               m == Min(C)
    <3>2. ids = C /\ deleted' = After(deleted, Protected)
      BY <1>4, <3>1
    <3>3. /\ deleted' \in Nat
          /\ deleted < deleted' \/ NumVectors <= deleted
          /\ C = {} => NumVectors <= deleted'
          /\ C # {} => deleted <= m /\ deleted' = m + 1 /\ m \in Ids
          /\ \A id \in Ids \ Protected : id < deleted' => id < deleted \/ (C # {} /\ id = m)
      BY <1>1, <3>2, Next_After
    <3>4. C # {} => key.id = m /\ key.tag = NodeOf[c] /\ sent' = sent \cup {key} /\ buffer'[c] = key
      BY <1>5, <1>7, <3>2
    <3>5. C = {} => sent' = sent /\ buffer' = buffer
      BY <1>5, <3>2
    <3> HIDE DEF ids, C, m
    <3>6. sold' <= deleted' + Cardinality(Claimed') \/ NumVectors <= deleted'
      <4>1. CASE NumVectors <= deleted
        <5>1. deleted <= deleted' \/ NumVectors <= deleted'
          BY <1>1, <3>3
        <5>2. QED
          BY <1>1, <3>3, <4>1, <5>1
      <4>2. CASE deleted < deleted' /\ sold <= deleted + Cardinality(Claimed)
        BY <1>1, <1>9, <1>10, <3>3, <4>2
      <4>3. QED
        BY <3>1, <3>3, <4>1, <4>2
    <3>7. \A id \in Ids \ Protected : id < deleted' => id \in IdsOf(sent')
      BY <3>1, <3>3, <3>4, <3>5 DEF IdsOf
    <3>8. ASSUME ~errors, NEW k \in keys, k.id \in IdsOf(sent') PROVE UnderWay(k)'
      <4>1. k.tag = NodeOf[c]
        <5>1. k \in LoadedKeys
          BY <1>11 DEF VInv, Contents, CInv, Counted
        <5>2. k.tag \in Nodes /\ NodeOf[c] \in Nodes
          BY <5>1, LoadedShape DEF Nodes
        <5>3. QED
          BY <1>1, <2>3, <5>2 DEF Opened
      <4>2. CASE C # {} /\ k.id = m
        BY <1>8, <3>4, <4>1, <4>2 DEF UnderWay
      <4>3. CASE k.id \in IdsOf(sent)
        <5>1. PICK d \in Clients : client[d] = "sent" /\ buffer[d].id = k.id /\ buffer[d].tag = k.tag
          BY <3>1, <3>8, <4>3 DEF UnderWay
        <5>2. client'[d] = "sent" /\ buffer'[d] = buffer[d]
          BY <1>5, <1>8, <5>1
        <5>3. QED
          BY <5>1, <5>2 DEF UnderWay
      <4>4. QED
        BY <3>4, <3>5, <3>8, <4>2, <4>3 DEF IdsOf
    <3>9. \A k \in keys' : k \in keys
      BY <1>10
    <3>10. IdsOf(sent)' = IdsOf(sent') /\ errors' = errors /\ Cardinality(Claimed)' = Cardinality(Claimed')
      BY <1>10 DEF IdsOf
    <3>11. ~errors' => \A k \in keys' : k.id \in IdsOf(sent)' => UnderWay(k)'
      BY <3>8, <3>9, <3>10
    <3>12. QED
      BY <1>6, <2>3, <3>6, <3>7, <3>10, <3>11 DEF DeleteCounted
  <2>4. QED
    BY <2>1, <2>2, <2>3
<1>17. QED
  BY <1>13, <1>14, <1>15, <1>16

(* A step of a run after which the same batches are claimed and no id has     *)
(* been given; a query's run, or an answer that leaves the keys alone.       *)
LEMMA QueryCounts ==
    ASSUME VInv, CInv, UNCHANGED <<setup, opened>>, NEW c \in Clients, FillQuery(c) \/ AnsweredQuery(c)
    PROVE  CInv'
<1>1. /\ phase = "running" /\ Workload = "query"
      /\ UNCHANGED <<run, phase, mapVars, total, poolVars, sold, stray, keys, sent>>
  BY DEF FillQuery, AnsweredQuery
<1>2. /\ Workload' = Workload /\ NeverDeleted' = NeverDeleted
      /\ Running("load")' = Running("load") /\ Running("delete")' = Running("delete")
      /\ CountMode' = CountMode /\ Cluster' = Cluster /\ Batch' = Batch
      /\ QuotaFor(Workload)' = QuotaFor(Workload)
  BY <1>1, RunFrame
<1>3. ~Running("load") /\ ~Running("delete")
  BY <1>1 DEF Running
<1>4. SUFFICES ASSUME CountMode PROVE Counted' /\ LoadCounted' /\ LoadKept' /\ DeleteCounted'
  BY <1>1, RunningCounts
<1>5. Counted'
  BY <1>1, <1>2, <1>4 DEF CInv, Counted, TemplateKey
<1>6. LoadCounted'
  BY <1>2, <1>3 DEF LoadCounted
<1>7. LoadKept'
  BY <1>1, <1>2, <1>3, <1>4 DEF CInv, LoadKept, IdsOf, mapVars
<1>8. DeleteCounted'
  BY <1>1, <1>2, <1>3, <1>4 DEF CInv, DeleteCounted, poolVars
<1>9. QED
  BY <1>5, <1>6, <1>7, <1>8

LEMMA AnswerCounts ==
    ASSUME VInv, CInv, UNCHANGED <<setup, opened>>, NEW c \in Clients, Answered(c) \/ Failed(c)
    PROVE  CInv'
<1> DEFINE key == buffer[c]
           others == {k \in keys : k.id # key.id \/ k.tag # key.tag}
<1>1. /\ phase = "running" /\ client[c] = "sent" /\ client' = [client EXCEPT ![c] = "idle"]
      /\ UNCHANGED <<run, phase, mapVars, total, poolVars, sold, buffer, stray, sent>>
      /\ keys' = keys \/ keys' = Executed(Workload, key)
      /\ ~errors' => ~errors /\ keys' = Executed(Workload, key)
  BY DEF Answered, Failed, outcomeVars
<1>2. /\ Workload' = Workload /\ NeverDeleted' = NeverDeleted
      /\ Running("load")' = Running("load") /\ Running("delete")' = Running("delete")
      /\ CountMode' = CountMode /\ Cluster' = Cluster /\ Batch' = Batch
      /\ Ids' = Ids /\ Protected' = Protected /\ NumVectors' = NumVectors
      /\ QuotaFor(Workload)' = QuotaFor(Workload)
  BY <1>1, RunFrame
<1>3. /\ \A d \in Clients : client'[d] = "sent" => client[d] = "sent"
      /\ \A d \in Clients : client[d] = "sent" /\ d # c => client'[d] = "sent"
  BY <1>1 DEF VInv, Types
<1>4. Claimed' = Claimed
  BY <1>1, ClaimedAfter DEF VInv
<1>5. UNCHANGED <<mapped, unmapped, deleted>> /\ IdsOf(sent)' = IdsOf(sent)
  BY <1>1 DEF mapVars, poolVars, IdsOf
<1>6. SUFFICES ASSUME CountMode PROVE Counted' /\ LoadCounted' /\ LoadKept' /\ DeleteCounted'
  BY <1>1, RunningCounts
<1>7. Workload \in Kinds
  <2>1. Workload = Workloads[run] /\ run \in 1 .. Len(Workloads)
    BY <1>1 DEF VInv, Types, Opened, Workload
  <2>2. QED
    BY <2>1 DEF VInv, Opened
<1>8. /\ Workload = "query" => Executed(Workload, key) = keys
      /\ Workload = "delete" => Executed(Workload, key) = others
      /\ Workload \in {"load", "update"} => Executed(Workload, key) = others \cup {key}
  BY DEF Executed
<1>9. Counted'
  <2>1. /\ stray = {} /\ TemplateKey \notin keys
        /\ total = QuotaFor(Workload) /\ (sold - 1) * Batch < total
        /\ Workload \in {"load", "update"} =>
              \A d \in Clients : client[d] = "sent" => buffer[d] # TemplateKey
    BY <1>1, <1>6 DEF CInv, Counted
  <2>2. TemplateKey \notin keys'
    BY <1>1, <1>7, <1>8, <2>1 DEF Kinds
  <2>3. QED
    BY <1>1, <1>2, <1>3, <2>1, <2>2 DEF Counted, TemplateKey
<1>10. LoadCounted'
  BY <1>1, <1>2, <1>4, <1>5, <1>6 DEF CInv, LoadCounted
<1>11. LoadKept'
  <2>1. SUFFICES /\ NeverDeleted /\ ~Running("delete") => mapped \subseteq IdsOf(keys')
                 /\ Running("load") /\ ~errors' =>
                       \A k \in sent : k \in keys' \/ \E d \in Clients : client'[d] = "sent" /\ buffer[d] = k
    BY <1>1, <1>2, <1>5, Zenon DEF LoadKept, IdsOf, Running
  <2>2. ASSUME NeverDeleted, ~Running("delete") PROVE mapped \subseteq IdsOf(keys')
    <3>1. mapped \subseteq IdsOf(keys) /\ Workload # "delete"
      BY <1>1, <1>6, <2>2 DEF CInv, LoadKept, Running
    <3>2. \A k \in keys : \E l \in keys' : l.id = k.id
      BY <1>1, <1>7, <1>8, <3>1 DEF Kinds
    <3>3. QED
      BY <3>1, <3>2 DEF IdsOf
  <2>3. ASSUME Running("load"), ~errors', NEW k \in sent, k \notin keys'
        PROVE  \E d \in Clients : client'[d] = "sent" /\ buffer[d] = k
    <3>1. keys' = others \cup {key} /\ Workload = "load" /\ ~errors
      BY <1>1, <1>8, <2>3 DEF Running
    <3>2. k # key
      BY <2>3, <3>1
    <3>3. k \in LoadedKeys /\ key \in LoadedKeys
      <4>1. key # TemplateKey
        BY <1>1, <1>6, <3>1 DEF CInv, Counted
      <4>2. QED
        BY <1>1, <3>1, <4>1 DEF VInv, Loading
    <3>4. k \notin keys
      <4>1. k.id # key.id \/ k.tag # key.tag
        BY <3>2, <3>3, LoadedShape
      <4>2. QED
        BY <2>3, <3>1, <4>1
    <3>5. PICK d \in Clients : client[d] = "sent" /\ buffer[d] = k
      BY <1>6, <2>3, <3>1, <3>4 DEF CInv, LoadKept
    <3>6. d # c
      BY <3>2, <3>5
    <3>7. QED
      BY <1>3, <3>5, <3>6
  <2>4. QED
    BY <2>2, <2>3
<1>12. DeleteCounted'
  <2>1. CASE ~(~Cluster /\ NeverDeleted /\ Running("delete"))
    BY <1>1, <1>2, <1>5, <1>6, <2>1 DEF CInv, DeleteCounted
  <2>2. CASE ~Cluster /\ NeverDeleted /\ Running("delete")
    <3>1. /\ sold <= deleted + Cardinality(Claimed) \/ NumVectors <= deleted
          /\ \A id \in Ids \ Protected : id < deleted => id \in IdsOf(sent)
          /\ ~errors => \A k \in keys : k.id \in IdsOf(sent) => UnderWay(k)
          /\ Workload = "delete"
      BY <1>6, <2>2 DEF CInv, DeleteCounted, Running
    <3>2. ASSUME ~errors', NEW k \in keys', k.id \in IdsOf(sent) PROVE UnderWay(k)'
      <4>1. k \in keys /\ (k.id # key.id \/ k.tag # key.tag) /\ ~errors
        BY <1>1, <1>8, <3>1, <3>2
      <4>2. PICK d \in Clients : client[d] = "sent" /\ buffer[d].id = k.id /\ buffer[d].tag = k.tag
        BY <3>1, <3>2, <4>1 DEF UnderWay
      <4>3. d # c
        BY <4>1, <4>2
      <4>4. client'[d] = "sent" /\ buffer' = buffer
        BY <1>1, <1>3, <4>2, <4>3
      <4>5. QED
        BY <4>2, <4>4 DEF UnderWay
    <3>3. Cardinality(Claimed)' = Cardinality(Claimed)
      BY <1>4
    <3>4. ~errors' => \A k \in keys' : k.id \in IdsOf(sent)' => UnderWay(k)'
      BY <1>5, <3>2
    <3>5. QED
      BY <1>1, <1>2, <1>5, <2>2, <3>1, <3>3, <3>4 DEF DeleteCounted
  <2>3. QED
    BY <2>1, <2>2
<1>13. QED
  BY <1>9, <1>10, <1>11, <1>12

LEMMA EndRunCounts ==
    ASSUME VInv, CInv, UNCHANGED <<setup, opened>>, EndRun
    PROVE  CInv'
<1>1. /\ CountMode' = CountMode /\ Cluster' = Cluster /\ Ids' = Ids /\ Protected' = Protected
      /\ NumVectors' = NumVectors /\ Batch' = Batch /\ Requests' = Requests /\ Workloads' = Workloads
      /\ NumVectors \in Nat \ {0} /\ Batch \in Nat \ {0} /\ Requests \in Nat /\ run \in Nat \ {0}
      /\ Ids = 0 .. NumVectors - 1 /\ deleted \in Nat /\ sold \in Nat /\ mapped \subseteq Ids
  BY SetupKept DEF VInv, Opened, Types, Ids
<1>2. /\ phase = "running" /\ phase' = "between" /\ run' = run + 1
      /\ UNCHANGED <<mapped, unmapped, deleted, total, sold, keys, sent, errors>>
      /\ stray' = stray \cup {[op |-> Workload, key |-> buffer[c]] : c \in {d \in Clients : client[d] = "sent"}}
  BY DEF EndRun, mapVars, poolVars, outcomeVars
<1>3. run <= Len(Workloads) /\ Workload = Workloads[run] /\ run' - 1 = run /\ run' - 2 = run - 1
  BY <1>1, <1>2 DEF VInv, Types, Workload
<1>4. Workloads'[run' - 1] = Workload
  BY <1>1, <1>3
<1>5. NeverDeleted' => NeverDeleted /\ Workload # "delete"
  BY <1>1, <1>2, <1>3 DEF NeverDeleted
<1>6. ~Before("delete")' => NeverDeleted
  BY <1>1, <1>3 DEF Before, NeverDeleted
<1>7. CASE ~CountMode
  BY <1>1, <1>7
  DEF CInv, Counted, LoadCounted, LoadKept, DeleteCounted, LoadCompletes, DeleteCompletes
<1>8. CASE CountMode
  <2>1. sold * Batch >= total /\ \A c \in Clients : client[c] = "idle"
    BY <1>8 DEF EndRun
  <2>2. /\ stray = {} /\ TemplateKey \notin keys /\ total = QuotaFor(Workload)
    BY <1>2, <1>8 DEF CInv, Counted
  <2>3. Claimed = {} /\ Cardinality(Claimed) = 0
    <3>1. Claimed = {}
      BY <2>1 DEF Claimed
    <3>2. QED
      BY <3>1, FS_EmptySet
  <2>4. Counted' /\ LoadCounted'
    <3>1. stray' = {}
      BY <1>2, <2>1, <2>2
    <3>2. QED
      BY <1>2, <2>2, <3>1 DEF Counted, LoadCounted, Running, TemplateKey
  <2>5. LoadKept'
    BY <1>2, <1>5, <1>8 DEF CInv, LoadKept, Running, IdsOf
  <2>6. DeleteCounted'
    BY <1>1, <1>2, <1>5, <1>8 DEF CInv, DeleteCounted, Running
  <2>7. LoadCompletes'
    <3>1. SUFFICES ASSUME Workload = "load", ~errors
                   PROVE  Cardinality(IdsOf(keys) \ mapped) * Batch >= ToLoad
      BY <1>1, <1>2, <1>4 DEF LoadCompletes, JustEnded, ToLoad, LeastOf, IdsOf
    <3>2. Running("load")
      BY <1>2, <3>1 DEF Running
    <3>3. IdsOf(sent) \subseteq IdsOf(keys) \ mapped
      <4>1. \A k \in sent : k \in keys \/ \E c \in Clients : client[c] = "sent" /\ buffer[c] = k
        BY <1>8, <3>1, <3>2 DEF CInv, LoadKept
      <4>2. sent \subseteq keys
        BY <2>1, <4>1
      <4>3. mapped \cap IdsOf(sent) = {}
        BY <1>2, <3>1 DEF VInv, Loading, IdsOf
      <4>4. QED
        BY <4>2, <4>3 DEF IdsOf
    <3> DEFINE more == Cardinality(IdsOf(keys) \ mapped)
    <3>4. IsFiniteSet(IdsOf(keys) \ mapped) /\ more \in Nat /\ Cardinality(mapped) \in Nat
      BY <2>2, KeysCounted
    <3>5. Cardinality(IdsOf(sent)) \in Nat /\ Cardinality(IdsOf(sent)) <= more
      BY <3>3, <3>4, FS_Subset, FS_CardinalityType
    <3>6. Cardinality(IdsOf(sent)) = sold
      BY <1>1, <1>8, <2>3, <3>2, <3>5 DEF CInv, LoadCounted
    <3>7. total = ToLoad /\ ToLoad \in Int
      BY <1>1, <2>2, <3>1, <3>4 DEF QuotaFor, ToLoad, LeastOf
    <3> HIDE DEF more
    <3>8. more * Batch >= sold * Batch
      BY <1>1, <3>4, <3>5, <3>6
    <3>9. more * Batch >= ToLoad
      <4> DEFINE p == more * Batch
                 q == sold * Batch
      <4>1. p \in Int /\ q \in Int /\ p >= q /\ q >= total
        BY <1>1, <2>1, <3>4, <3>8
      <4> HIDE DEF p, q
      <4>2. p >= ToLoad
        BY <3>7, <4>1
      <4>3. QED
        BY <4>2 DEF p
    <3>10. QED
      BY <3>9 DEF more
  <2>8. DeleteCompletes'
    <3>1. SUFFICES ASSUME Workload = "delete", NeverDeleted, ~errors, ~Cluster, Requests >= NumVectors * Batch
                   PROVE  IdsOf(keys) \subseteq Protected
      BY <1>1, <1>2, <1>4, <1>6 DEF DeleteCompletes, JustEnded, IdsOf
    <3>2. /\ sold <= deleted + Cardinality(Claimed) \/ NumVectors <= deleted
          /\ \A id \in Ids \ Protected : id < deleted => id \in IdsOf(sent)
          /\ \A k \in keys : k.id \in IdsOf(sent) => UnderWay(k)
      BY <1>2, <1>8, <3>1 DEF CInv, DeleteCounted, Running
    <3>3. NumVectors <= sold
      <4>1. SUFFICES ASSUME sold < NumVectors PROVE FALSE
        BY <1>1
      <4>2. sold * Batch < NumVectors * Batch
        BY <1>1, <4>1
      <4> DEFINE p == sold * Batch
                 q == NumVectors * Batch
      <4>3. p \in Int /\ q \in Int /\ p < q /\ p >= Requests /\ Requests >= q
        BY <1>1, <2>1, <2>2, <3>1, <4>2 DEF QuotaFor
      <4> HIDE DEF p, q
      <4>4. QED
        BY <1>1, <4>3
    <3>4. NumVectors <= deleted
      BY <1>1, <2>3, <3>2, <3>3
    <3>5. \A k \in keys : k.id \notin IdsOf(sent)
      BY <2>1, <3>2 DEF UnderWay
    <3>6. \A k \in keys : k.id \in Ids
      <4>1. keys \subseteq LoadedKeys
        BY <2>2 DEF VInv, Contents
      <4>2. QED
        BY <4>1, LoadedShape
    <3>7. \A k \in keys : k.id \in Protected
      BY <1>1, <3>2, <3>4, <3>5, <3>6
    <3>8. QED
      BY <3>7 DEF IdsOf
  <2>9. QED
    BY <2>4, <2>5, <2>6, <2>7, <2>8 DEF CInv
<1>9. QED
  BY <1>7, <1>8

(* Nothing of an earlier run is executed later, when requests are counted.   *)
LEMMA StragglerCounts ==
    ASSUME VInv, CInv, UNCHANGED <<setup, opened>>, Straggler
    PROVE  CInv'
<1>1. CountMode' = CountMode
  BY SetupKept DEF VInv
<1>2. ~CountMode
  BY DEF CInv, Counted, Straggler
<1>3. QED
  BY <1>1, <1>2
  DEF CInv, Counted, LoadCounted, LoadKept, DeleteCounted, LoadCompletes, DeleteCompletes

LEMMA StutterCounts ==
    ASSUME VInv, CInv, UNCHANGED vectorVars
    PROVE  CInv'
<1>1. UNCHANGED <<setup, opened, run, phase, mapVars, total, poolVars, sold, client, buffer, sent, stray, keys, errors>>
  BY DEF vectorVars, queueVars, outcomeVars
<1>2. /\ Workload' = Workload /\ NeverDeleted' = NeverDeleted
      /\ Running("load")' = Running("load") /\ Running("delete")' = Running("delete")
      /\ CountMode' = CountMode /\ Cluster' = Cluster /\ Batch' = Batch /\ Requests' = Requests
      /\ Ids' = Ids /\ Protected' = Protected /\ NumVectors' = NumVectors
      /\ QuotaFor(Workload)' = QuotaFor(Workload)
  BY <1>1, RunFrame
<1>3. /\ Claimed' = Claimed /\ IdsOf(sent)' = IdsOf(sent) /\ IdsOf(keys)' = IdsOf(keys)
      /\ ToLoad' = ToLoad /\ UNCHANGED <<mapped, unmapped, deleted>>
  BY <1>1, <1>2 DEF Claimed, IdsOf, mapVars, poolVars, ToLoad, LeastOf
<1>4. Counted'
  BY <1>1, <1>2 DEF CInv, Counted, TemplateKey
<1>5. LoadCounted'
  BY <1>1, <1>2, <1>3 DEF CInv, LoadCounted
<1>6. LoadKept'
  BY <1>1, <1>2, <1>3 DEF CInv, LoadKept
<1>7. DeleteCounted'
  BY <1>1, <1>2, <1>3 DEF CInv, DeleteCounted, UnderWay
<1>8. Workloads' = Workloads
  BY <1>1 DEF Workloads
<1>9. LoadCompletes' /\ DeleteCompletes'
  BY <1>1, <1>2, <1>3, <1>8 DEF CInv, LoadCompletes, DeleteCompletes, JustEnded, Before
<1>10. QED
  BY <1>4, <1>5, <1>6, <1>7, <1>9 DEF CInv

LEMMA CInvStep ==
    ASSUME VInv, CInv, [Next]_vectorVars
    PROVE  CInv'
<1>1. CASE UNCHANGED vectorVars
  BY <1>1, StutterCounts
<1>2. CASE Next
  <2>1. UNCHANGED <<setup, opened>>
    BY <1>2 DEF Next
  <2>2. CASE BuildTagMap \/ SkipRun \/ \E n \in Nodes : ScanNode(n)
    BY <2>1, <2>2, NoRunCounts
  <2>3. CASE StartRun
    BY <2>1, <2>3, StartRunCounts
  <2>4. CASE EndRun
    BY <2>1, <2>4, EndRunCounts
  <2>5. CASE Straggler
    BY <2>1, <2>5, StragglerCounts
  <2>6. CASE \E c \in Clients : ClaimBatch(c)
    BY <2>1, <2>6, ClaimCounts
  <2>7. CASE \E c \in Clients : FillPools(c)
    BY <2>1, <2>7, FillCounts
  <2>8. CASE \E c \in Clients : FillQuery(c) \/ AnsweredQuery(c)
    BY <2>1, <2>8, QueryCounts
  <2>9. CASE \E c \in Clients : Answered(c) \/ Failed(c)
    BY <2>1, <2>9, AnswerCounts
  <2>10. QED
    BY <1>2, <2>2, <2>3, <2>4, <2>5, <2>6, <2>7, <2>8, <2>9 DEF Next, FillPools
<1>3. QED
  BY <1>1, <1>2

LEMMA CInvInvariant == Spec /\ []BytesAsMeant => []CInv
<1>1. Init /\ VInv => CInv
  BY InitCInv
<1>2. VInv /\ CInv /\ [Next]_vectorVars => CInv'
  BY CInvStep
<1>3. QED
  BY <1>1, <1>2, VInvInvariant, PTL DEF Spec

(* A vec-load that nothing failed leaves as many vectors as were asked for,   *)
(* whatever was there and whatever of it the scan saw: run_test_event's      *)
(* quota, the claims on it and the ids that are given agree.                 *)
THEOREM LoadsWhatWasAsked == Spec /\ []BytesAsMeant => []LoadCompletes
<1>1. CInv => LoadCompletes
  BY DEF CInv
<1>2. QED
  BY <1>1, CInvInvariant, PTL

(* A server's first vec-delete, asked for enough, leaves only vectors that    *)
(* next_deleteable_id must skip.                                             *)
THEOREM DeletesAllButTruth == Spec /\ []BytesAsMeant => []DeleteCompletes
<1>1. CInv => DeleteCompletes
  BY DEF CInv
<1>2. QED
  BY <1>1, CInvInvariant, PTL

-----------------------------------------------------------------------------
(* What an exact search finds, when the neighbours are there: FlattenSeq     *)
(* joins what is found for each record, from the nearest on.                 *)

(* Induction up to a number.                                                 *)
LEMMA Induction ==
    ASSUME NEW N \in Nat, NEW T, 0 \in T, \A n \in 0 .. N - 1 : n \in T => n + 1 \in T
    PROVE  0 .. N \subseteq T
<1> DEFINE S == (0 .. N) \ T
<1>1. SUFFICES ASSUME S # {} PROVE FALSE
  OBVIOUS
<1>2. S \in SUBSET Nat
  OBVIOUS
<1> DEFINE m == Min(S)
<1>3. m \in S /\ \A n \in S : m <= n
  <2> HIDE DEF S
  <2>1. QED
    BY <1>1, <1>2, LeastIsIn
<1> HIDE DEF m
<1>4. m \in 1 .. N /\ m \notin T
  BY <1>3
<1>5. m - 1 \in 0 .. N - 1 /\ (m - 1) + 1 = m
  BY <1>4
<1>6. m - 1 \notin S
  BY <1>3, <1>4
<1>7. QED
  BY <1>4, <1>5, <1>6

(* The function that FlattenSeq computes with exists.                        *)
Joined(ss, k, i) == IF i = 1 THEN ss[i] ELSE k[i - 1] \o ss[i]
JoinsUpTo(ss, S, k, n) == k \in [1 .. n -> Seq(S)] /\ \A i \in 1 .. n : k[i] = Joined(ss, k, i)
JoinsAll(ss, k) == k = [i \in 1 .. Len(ss) |-> Joined(ss, k, i)]

LEMMA JoinExists ==
    ASSUME NEW S, NEW ss \in Seq(Seq(S))
    PROVE  \E k : JoinsAll(ss, k)
<1> DEFINE N == Len(ss)
           Done == {n \in 0 .. N : \E k : JoinsUpTo(ss, S, k, n)}
<1>1. N \in Nat /\ \A i \in 1 .. N : ss[i] \in Seq(S)
  BY LenProperties, ElementOfSeq
<1>2. 0 \in Done
  <2>1. JoinsUpTo(ss, S, [i \in 1 .. 0 |-> <<>>], 0)
    BY DEF JoinsUpTo
  <2>2. QED
    BY <1>1, <2>1
<1>3. ASSUME NEW n \in 0 .. N - 1, n \in Done PROVE n + 1 \in Done
  <2>1. PICK k : JoinsUpTo(ss, S, k, n)
    BY <1>3
  <2> DEFINE next == IF n = 0 THEN ss[1] ELSE k[n] \o ss[n + 1]
             longer == [i \in 1 .. n + 1 |-> IF i <= n THEN k[i] ELSE next]
  <2>2. n + 1 \in 1 .. N /\ (n # 0 => n \in 1 .. n)
    BY <1>1
  <2>3. next \in Seq(S)
    <3>1. n # 0 => k[n] \in Seq(S)
      BY <2>1, <2>2 DEF JoinsUpTo
    <3>2. ss[n + 1] \in Seq(S) /\ (n = 0 => ss[1] \in Seq(S))
      BY <1>1, <2>2
    <3>3. QED
      BY <3>1, <3>2, ConcatProperties
  <2> HIDE DEF next
  <2>4. longer \in [1 .. n + 1 -> Seq(S)]
    BY <2>1, <2>3 DEF JoinsUpTo
  <2>5. ASSUME NEW i \in 1 .. n + 1 PROVE longer[i] = Joined(ss, longer, i)
    <3>1. CASE i <= n
      <4>1. longer[i] = k[i] /\ (i # 1 => longer[i - 1] = k[i - 1]) /\ k[i] = Joined(ss, k, i)
        BY <2>1, <3>1 DEF JoinsUpTo
      <4>2. QED
        BY <4>1 DEF Joined
    <3>2. CASE i = n + 1
      <4>1. longer[i] = next /\ (i # 1 => longer[i - 1] = k[n])
        BY <3>2
      <4>2. i = 1 <=> n = 0
        BY <3>2
      <4>3. QED
        BY <3>2, <4>1, <4>2 DEF Joined, next
    <3>3. QED
      BY <3>1, <3>2
  <2>6. JoinsUpTo(ss, S, longer, n + 1)
    BY <2>4, <2>5 DEF JoinsUpTo
  <2>7. QED
    BY <1>1, <2>2, <2>6
<1>4. N \in Done
  <2> HIDE DEF Done
  <2>1. \A n \in 0 .. N - 1 : n \in Done => n + 1 \in Done
    BY <1>3
  <2> HIDE DEF N
  <2>2. 0 .. N \subseteq Done
    BY <1>1, <1>2, <2>1, Induction
  <2>3. QED
    BY <1>1, <2>2
<1>5. PICK k : JoinsUpTo(ss, S, k, N)
  BY <1>4
<1>6. JoinsAll(ss, k)
  <2>1. k = [i \in 1 .. N |-> k[i]]
    BY <1>5 DEF JoinsUpTo
  <2>2. \A i \in 1 .. N : k[i] = Joined(ss, k, i)
    BY <1>5 DEF JoinsUpTo
  <2>3. QED
    BY <2>1, <2>2 DEF JoinsAll
<1>7. QED
  BY <1>6

(* Lists of one element each, joined, begin with these.                      *)
LEMMA FlattenBegins ==
    ASSUME NEW S, NEW ss \in Seq(Seq(S)), NEW m \in 1 .. Len(ss), \A i \in 1 .. m : Len(ss[i]) = 1
    PROVE  /\ FlattenSeq(ss) \in Seq(S) /\ Len(FlattenSeq(ss)) >= m
           /\ \A i \in 1 .. m : FlattenSeq(ss)[i] = ss[i][1]
<1> DEFINE N == Len(ss)
           joined == CHOOSE k : JoinsAll(ss, k)
           Right(n) == /\ joined[n] \in Seq(S)
                       /\ n <= m => Len(joined[n]) = n
                       /\ n > m => Len(joined[n]) >= m
                       /\ \A i \in 1 .. m : i <= n => joined[n][i] = ss[i][1]
           Done == {n \in 0 .. N : n = 0 \/ Right(n)}
<1>1. N \in Nat /\ m \in 1 .. N /\ \A i \in 1 .. N : ss[i] \in Seq(S) /\ Len(ss[i]) \in Nat
  BY LenProperties, ElementOfSeq
<1>2. JoinsAll(ss, joined)
  BY JoinExists
<1>3. FlattenSeq(ss) = joined[N]
  BY <1>1 DEF FlattenSeq, JoinsAll, Joined
<1> HIDE DEF joined
<1>4. \A i \in 1 .. N : joined[i] = IF i = 1 THEN ss[i] ELSE joined[i - 1] \o ss[i]
  <2>1. \A i \in 1 .. N : joined[i] = Joined(ss, joined, i)
    BY <1>2 DEF JoinsAll
  <2>2. QED
    BY <2>1 DEF Joined
<1>5. 0 \in Done
  BY <1>1
<1>6. ASSUME NEW n \in 0 .. N - 1, n \in Done PROVE n + 1 \in Done
  <2>1. n + 1 \in 1 .. N /\ (n + 1) - 1 = n /\ n \in Nat
    BY <1>1
  <2>2. CASE n = 0
    <3>1. joined[1] = ss[1] /\ 1 \in 1 .. m /\ 1 \in 1 .. N
      BY <1>1, <1>4
    <3>2. Right(1)
      BY <1>1, <3>1
    <3>3. QED
      BY <1>1, <2>2, <3>2
  <2>3. CASE n # 0
    <3>1. joined[n + 1] = joined[n] \o ss[n + 1] /\ Right(n)
      <4>1. n + 1 # 1 /\ joined[n + 1] = IF n + 1 = 1 THEN ss[n + 1] ELSE joined[(n + 1) - 1] \o ss[n + 1]
        BY <1>4, <2>1, <2>3
      <4>2. joined[n + 1] = joined[n] \o ss[n + 1]
        BY <4>1, <2>1
      <4>3. QED
        BY <4>2, <1>6, <2>3
    <3> DEFINE s == joined[n]
               r == ss[n + 1]
    <3>2. s \in Seq(S) /\ r \in Seq(S) /\ Len(s) \in Nat /\ Len(r) \in Nat
      BY <1>1, <2>1, <3>1
    <3>3. /\ s \o r \in Seq(S) /\ Len(s \o r) = Len(s) + Len(r)
          /\ \A i \in 1 .. Len(s) : (s \o r)[i] = s[i]
          /\ r # <<>> => (s \o r)[Len(s) + 1] = r[1]
      <4> HIDE DEF s, r
      <4> QED
        BY <3>2
    <3>4. n + 1 <= m => Len(r) = 1
      BY <2>1
    <3>5. /\ n <= m => Len(s) = n
          /\ n > m => Len(s) >= m
          /\ \A i \in 1 .. m : i <= n => s[i] = ss[i][1]
      BY <3>1
    <3>6. joined[n + 1] = s \o r
      BY <3>1
    <3> HIDE DEF s
    <3>7. n + 1 <= m => Len(joined[n + 1]) = n + 1
      <4>1. Len(joined[n + 1]) = Len(s) + Len(r) /\ m \in Nat
        BY <1>1, <3>3, <3>6
      <4>2. ASSUME n + 1 <= m PROVE Len(s) = n /\ Len(r) = 1
        BY <2>1, <3>4, <3>5, <4>1, <4>2
      <4>3. QED
        BY <2>1, <4>1, <4>2
    <3>8. n + 1 > m => Len(joined[n + 1]) >= m
      BY <1>1, <2>1, <3>2, <3>3, <3>5, <3>6
    <3>9. ASSUME NEW i \in 1 .. m, i <= n + 1 PROVE joined[n + 1][i] = ss[i][1]
      <4>1. CASE i <= n
        BY <1>1, <2>1, <3>2, <3>3, <3>5, <3>6, <3>9, <4>1
      <4>2. CASE i = n + 1
        BY <1>1, <2>1, <3>2, <3>3, <3>4, <3>5, <3>6, <3>9, <4>2
      <4>3. QED
        BY <2>1, <3>9, <4>1, <4>2
    <3>10. joined[n + 1] \in Seq(S)
      BY <3>3, <3>6
    <3>11. QED
      BY <1>1, <2>1, <3>7, <3>8, <3>9, <3>10
  <2>4. QED
    BY <2>2, <2>3
<1>7. N \in Done
  <2> HIDE DEF Done
  <2>1. \A n \in 0 .. N - 1 : n \in Done => n + 1 \in Done
    BY <1>6
  <2> HIDE DEF N
  <2>2. 0 .. N \subseteq Done
    BY <1>1, <1>5, <2>1, Induction
  <2>3. QED
    BY <1>1, <2>2
<1>8. Right(N)
  BY <1>1, <1>7
<1>9. \A i \in 1 .. m : i <= N
  BY <1>1
<1>10. m = N \/ N > m
  BY <1>1
<1> HIDE DEF N
<1>11. QED
  BY <1>1, <1>3, <1>8, <1>9, <1>10

(* SetToSeq of no or one element.                                            *)
LEMMA OneToSeq ==
    ASSUME NEW x, NEW S \in SUBSET {x}
    PROVE  /\ SetToSeq(S) \in Seq({x})
           /\ S # {} => Len(SetToSeq(S)) = 1 /\ SetToSeq(S)[1] = x
<1>1. CASE S = {}
  <2>1. Cardinality(S) = 0
    BY <1>1, FS_EmptySet
  <2>2. [i \in 1 .. 0 |-> x] \in [1 .. 0 -> {}] /\ IsInjective([i \in 1 .. 0 |-> x])
    BY DEF IsInjective
  <2>3. SetToSeq(S) \in [1 .. 0 -> {}]
    BY <1>1, <2>1, <2>2 DEF SetToSeq
  <2>4. SetToSeq(S) \in Seq({x})
    BY <2>3
  <2>5. QED
    BY <1>1, <2>4
<1>2. CASE S = {x}
  <2>1. Cardinality(S) = 1
    BY <1>2, FS_Singleton
  <2>2. [i \in 1 .. 1 |-> x] \in [1 .. 1 -> {x}] /\ IsInjective([i \in 1 .. 1 |-> x])
    BY DEF IsInjective
  <2>3. SetToSeq(S) \in [1 .. 1 -> {x}]
    BY <1>2, <2>1, <2>2 DEF SetToSeq
  <2> DEFINE s == SetToSeq(S)
  <2>4. s \in [1 .. 1 -> {x}]
    BY <2>3
  <2> HIDE DEF s
  <2>5. s = [i \in 1 .. 1 |-> x]
    BY <2>4
  <2>6. [i \in 1 .. 1 |-> x] \in Seq({x}) /\ Len([i \in 1 .. 1 |-> x]) = 1
    OBVIOUS
  <2>7. [i \in 1 .. 1 |-> x][1] = x
    OBVIOUS
  <2>8. s \in Seq({x}) /\ Len(s) = 1 /\ s[1] = x
    BY <2>5, <2>6, <2>7
  <2>9. QED
    BY <2>8 DEF s
<1>3. S = {} \/ S = {x}
  OBVIOUS
<1>4. QED
  BY <1>1, <1>2, <1>3

(* The first hits are the neighbours: recall is full.                        *)
LEMMA FullRecall ==
    ASSUME NEW hits, NEW truth, NEW k \in Nat \ {0}, Len(truth) = k, Len(hits) \in Nat, Len(hits) >= k,
           \A i \in 1 .. k : hits[i] = truth[i]
    PROVE  RecallOf(hits, truth, k) = Unit
<1> DEFINE S == {k, Len(truth), Len(hits)}
           matches == {i \in 1 .. k : \E j \in 1 .. k : hits[i] = truth[j]}
<1>1. Min(S) = k
  <2>1. S \in SUBSET Nat /\ S # {} /\ k \in S
    OBVIOUS
  <2>2. \A n \in S : n >= k
    OBVIOUS
  <2> HIDE DEF S
  <2>3. Min(S) \in S /\ Min(S) <= k
    BY <2>1, LeastIsIn
  <2> DEFINE m == Min(S)
  <2>4. m \in Nat /\ m <= k /\ m >= k
    BY <2>1, <2>2, <2>3
  <2> HIDE DEF m
  <2>5. m = k
    BY <2>4
  <2>6. QED
    BY <2>5 DEF m
<1>2. matches = 1 .. k
  OBVIOUS
<1>3. Cardinality(1 .. k) = k
  <2>1. ~(1 > k) /\ k - 1 + 1 = k
    OBVIOUS
  <2>2. QED
    BY <2>1, FS_Interval
<1>4. (12 * k) \div k = 12
  OBVIOUS
<1>5. RecallOf(hits, truth, k) =
        IF Min(S) = 0 THEN 0
        ELSE (12 * Cardinality({i \in 1 .. Min(S) : \E j \in 1 .. Min(S) : hits[i] = truth[j]})) \div Min(S)
  BY DEF RecallOf, Unit
<1> HIDE DEF S
<1>6. RecallOf(hits, truth, k) = IF k = 0 THEN 0 ELSE (12 * Cardinality(matches)) \div k
  BY <1>1, <1>5
<1>7. Cardinality(matches) = k
  BY <1>2, <1>3
<1> HIDE DEF matches
<1>8. RecallOf(hits, truth, k) = (12 * k) \div k
  BY <1>6, <1>7
<1>9. QED
  BY <1>4, <1>8 DEF Unit

(* What a dataset that is loaded as a whole is asked for, and which of its   *)
(* records are the answer.                                                   *)
Data == Datasets[setup.dataset]
Truth(q) == opened.neighbors[q]
Nearest(q) == Data.nearest[q + 1]
Asked(q) == [id |-> q, tag |-> "query", vector |-> opened.query[Batch][q].vector]
Whole == LoadsAll /\ FourBytes(setup.dataset)

TruthKnown ==
    Whole =>
        /\ Data.offset = 0 /\ Protected \subseteq Ids
        /\ \A q \in Queries :
              /\ opened.query[Batch][q].vector[1] = "query" /\ opened.query[Batch][q].vector[2] = q
              /\ Nearest(q) \in Seq(Ids) /\ Len(Nearest(q)) = NumVectors
              /\ \A i, j \in 1 .. NumVectors : Nearest(q)[i] = Nearest(q)[j] => i = j
              /\ Truth(q) \in Seq(Ids) /\ Len(Truth(q)) \in 1 .. NumVectors
              /\ \A i \in 1 .. Len(Truth(q)) : Truth(q)[i] = Nearest(q)[i] /\ Truth(q)[i] \in Protected

LEMMA InitTruthKnown ==
    ASSUME Init, BytesAsMeant
    PROVE  TruthKnown
<1> DEFINE schema == Data.schema
           context == ContextOf(Data)
           K == Neighbors(schema)
<1>1. setup \in Setups /\ opened = View[setup.dataset] /\ phase = "scan"
  BY DEF Init
<1>2. AllRead /\ AllParsed
  BY <1>1 DEF BytesAsMeant
<1>3. setup.dataset \in DOMAIN Datasets /\ Batch \in Batches
  BY <1>1, VectorAssumption DEF Batches, Batch
<1>4. /\ schema.records \in Nat /\ Data.count \in Nat /\ Data.offset \in Nat
      /\ QueryCount(schema) \in Nat
      /\ QueryCount(schema) > 0 => schema.truth.present /\ K \in 1 .. schema.records
      /\ \A q \in 1 .. QueryCount(schema) :
            /\ Data.nearest[q] \in Seq(0 .. schema.records - 1)
            /\ Len(Data.nearest[q]) = schema.records
            /\ \A i, j \in 1 .. schema.records : Data.nearest[q][i] = Data.nearest[q][j] => i = j
  BY <1>3, DatasetsAssumption DEF Data
<1>5. /\ context.schema = schema
      /\ context.section.hasTruth = (schema.truth.present /\ QueryCount(schema) > 0)
  BY DEF ContextOf, Limited, Open, SectionLayout, SectionsAfter
<1>6. opened = ViewFrom(context, VectorField(context), Data.search, EffectiveCount(context), QueryCount(schema))
  BY <1>1, <1>3, <1>5 DEF View, ViewOf, ViewIn, Data
<1>7. /\ opened.count = EffectiveCount(context)
      /\ opened.protected = GroundTruthIds(context)
      /\ Queries = 0 .. QueryCount(schema) - 1
      /\ opened.neighbors = [q \in 0 .. QueryCount(schema) - 1 |-> GetNeighbors(context, q)]
      /\ DOMAIN opened.query[Batch] = 0 .. QueryCount(schema) - 1
  BY <1>3, <1>6 DEF ViewFrom, Queries, RequestsOf, RequestsWith
<1> SUFFICES ASSUME Whole PROVE TruthKnown
  BY DEF TruthKnown
<1>8. Data.offset = 0 /\ NumVectors = schema.records
  <2>1. opened.count = schema.records /\ schema.records # 0
    <3>1. opened.count = CountOf(setup.dataset)
      BY <1>7 DEF CountOf, Data
    <3>2. CountOf(setup.dataset) # 0
      BY <1>1, VectorAssumption
    <3>3. QED
      BY <3>1, <3>2 DEF Whole, LoadsAll, Data
  <2> DEFINE from == IF Data.offset < schema.records THEN Data.offset ELSE schema.records
             remaining == schema.records - from
             limit == IF Data.count > 0 /\ Data.count < remaining THEN <<Data.count>> ELSE <<>>
  <2>2. context.offset = from /\ context.count = limit
    BY DEF ContextOf, Limited, Open
  <2>3. opened.count = OrElse(limit, remaining)
    BY <1>5, <1>7, <2>2 DEF EffectiveCount
  <2>4. opened.count = IF Data.count > 0 /\ Data.count < remaining THEN Data.count ELSE remaining
    BY <2>3 DEF OrElse
  <2>5. from \in Nat /\ remaining \in Nat /\ (from = 0 => Data.offset = 0)
    BY <1>4, <2>1
  <2> HIDE DEF from
  <2>6. QED
    BY <1>4, <2>1, <2>4, <2>5 DEF NumVectors
<1> HIDE DEF context, schema, K
<1>9. ASSUME NEW q \in Queries
      PROVE  /\ opened.query[Batch][q].vector[1] = "query" /\ opened.query[Batch][q].vector[2] = q
             /\ Nearest(q) \in Seq(Ids) /\ Len(Nearest(q)) = NumVectors
             /\ \A i, j \in 1 .. NumVectors : Nearest(q)[i] = Nearest(q)[j] => i = j
             /\ Truth(q) \in Seq(Ids) /\ Len(Truth(q)) \in 1 .. NumVectors
             /\ \A i \in 1 .. Len(Truth(q)) : Truth(q)[i] = Nearest(q)[i] /\ Truth(q)[i] \in Protected
  <2>1. q \in 0 .. QueryCount(schema) - 1 /\ q + 1 \in 1 .. QueryCount(schema) /\ QueryCount(schema) > 0
    BY <1>4, <1>7
  <2>2. Nearest(q) \in Seq(Ids) /\ Len(Nearest(q)) = NumVectors
        /\ \A i, j \in 1 .. NumVectors : Nearest(q)[i] = Nearest(q)[j] => i = j
    BY <1>4, <1>8, <2>1 DEF Nearest, Ids
  <2>3. /\ opened.queries[q][1] = "query" /\ opened.queries[q][2] = q
        /\ GetNeighbors(context, q) = SubSeq(Nearest(q), 1, K)
    BY <1>2, <2>1 DEF AllRead, ReadAsWritten, QueriesAsWritten, Nearest, Data, schema, context, K
  <2>4. opened.query[Batch][q].vector = opened.queries[q]
    <3>1. VectorsParsed(Batch)
      BY <1>2, <1>3 DEF AllParsed
    <3>2. q \in DOMAIN opened.query[Batch] /\ FourBytes(setup.dataset)
      BY <1>7, <2>1 DEF Whole
    <3>3. QED
      BY <3>1, <3>2 DEF VectorsParsed
  <2>5. K \in 1 .. NumVectors /\ NumVectors \in Nat
    BY <1>4, <1>8, <2>1
  <2>6. Truth(q) = SubSeq(Nearest(q), 1, K)
    BY <1>7, <2>1, <2>3 DEF Truth
  <2>7. Truth(q) \in Seq(Ids) /\ Len(Truth(q)) = K /\ \A i \in 1 .. K : Truth(q)[i] = Nearest(q)[i]
    BY <2>2, <2>5, <2>6
  <2>8. ASSUME NEW i \in 1 .. K PROVE Truth(q)[i] \in Protected
    <3>1. Truth(q) = GetNeighbors(context, q)
      BY <2>3, <2>6
    <3>2. i \in DOMAIN Truth(q)
      BY <2>2, <2>5, <2>6
    <3>3. Truth(q)[i] \in Range(GetNeighbors(context, q))
      BY <3>1, <3>2 DEF Range
    <3>4. Protected = UNION {Range(GetNeighbors(context, p)) : p \in 0 .. QueryCount(schema) - 1}
      BY <1>4, <1>5, <1>7, <2>1 DEF Protected, GroundTruthIds
    <3>5. QED
      BY <2>1, <3>3, <3>4
  <2>9. QED
    BY <2>2, <2>3, <2>4, <2>5, <2>7, <2>8
<1>10. Protected \subseteq Ids
  <2>1. SUFFICES ASSUME NEW id \in Protected PROVE id \in Ids
    OBVIOUS
  <2>2. PICK q \in 0 .. QueryCount(schema) - 1 : id \in Range(GetNeighbors(context, q))
    <3>1. id \in GroundTruthIds(context)
      BY <1>7, <2>1 DEF Protected
    <3>2. QED
      BY <1>5, <3>1 DEF GroundTruthIds
  <2>3. q \in Queries /\ Truth(q) = GetNeighbors(context, q)
    BY <1>7 DEF Truth
  <2>4. PICK i \in DOMAIN Truth(q) : id = Truth(q)[i]
    BY <2>2, <2>3 DEF Range
  <2>5. DOMAIN Truth(q) = 1 .. Len(Truth(q))
    BY <1>9, <2>3, LenProperties
  <2>6. i \in 1 .. NumVectors /\ id = Nearest(q)[i]
    BY <1>9, <2>3, <2>4, <2>5
  <2>7. QED
    BY <1>9, <2>3, <2>6
<1>11. QED
  BY <1>8, <1>9, <1>10 DEF TruthKnown

(* With the neighbours of its queries on the server, a search finds them     *)
(* first.                                                                    *)
InPlace == \A id \in Protected : \E k \in keys : k.id = id /\ k # TemplateKey

LEMMA SearchFindsTruth ==
    ASSUME VInv, TruthKnown, Whole, InPlace, TemplateKey \notin keys, NEW q \in Queries
    PROVE  RecallOf(Hits(Asked(q).vector), Truth(q), Len(Truth(q))) = Unit
<1> DEFINE query == Asked(q).vector
           idsWith(record) == {k.id : k \in {l \in keys : l.vector[1] = "record" /\ l.vector[2] = record}}
           found == [i \in DOMAIN Nearest(q) |-> SetToSeq(idsWith(Nearest(q)[i]))]
           K == Len(Truth(q))
<1>1. query[1] = "query" /\ query[2] = q
  BY DEF Asked, TruthKnown
<1>2. /\ Nearest(q) \in Seq(Ids) /\ Len(Nearest(q)) = NumVectors /\ NumVectors \in Nat
      /\ K \in 1 .. NumVectors
      /\ \A i \in 1 .. K : Truth(q)[i] = Nearest(q)[i] /\ Truth(q)[i] \in Protected
  BY DEF TruthKnown, VInv, Opened
<1>3. Hits(query) = FlattenSeq(found)
  BY <1>1 DEF Hits, Nearest, Data
<1>4. ASSUME NEW k \in keys PROVE k.vector[1] = "record" /\ k.vector[2] = k.id /\ k.id \in Ids
  <2>1. k \in LoadedKeys
    BY DEF VInv, Contents
  <2>2. k.id \in Ids /\ k.vector = opened.load[Batch][k.id].vector
    BY <2>1 DEF LoadedKeys, KeyOf
  <2>3. k.vector[1] = "record" /\ k.vector[2] = k.id + Data.offset
    BY <2>2, SMTT(30) DEF VInv, Opened, Whole, Data
  <2>4. k.id \in Nat
    BY <2>2 DEF VInv, Opened, Ids
  <2>5. Data.offset = 0
    BY DEF TruthKnown
  <2>6. QED
    BY <2>2, <2>3, <2>4, <2>5
<1>5. ASSUME NEW id, NEW x PROVE x \in idsWith(id) <=> \E k \in keys : k.id = id /\ x = id
  <2>1. \A k \in keys : (k.vector[1] = "record" /\ k.vector[2] = id) <=> k.id = id
    BY <1>4
  <2>2. x \in idsWith(id) <=> \E k \in keys : k.vector[1] = "record" /\ k.vector[2] = id /\ x = k.id
    OBVIOUS
  <2>3. QED
    BY <2>1, <2>2
<1>6. ASSUME NEW id PROVE idsWith(id) \in SUBSET {id} /\ (id \in Protected => idsWith(id) # {})
  <2> DEFINE W == idsWith(id)
  <2>1. \A x : x \in W <=> \E k \in keys : k.id = id /\ x = id
    BY <1>5
  <2> HIDE DEF W
  <2>2. W \in SUBSET {id} /\ (id \in Protected => W # {})
    BY <2>1 DEF InPlace
  <2>3. QED
    BY <2>2 DEF W
<1> HIDE DEF idsWith
<1>7. DOMAIN Nearest(q) = 1 .. NumVectors /\ \A i \in 1 .. NumVectors : Nearest(q)[i] \in Ids
  BY <1>2
<1>8. found \in Seq(Seq(Ids)) /\ Len(found) = NumVectors
  <2>1. ASSUME NEW i \in 1 .. NumVectors PROVE SetToSeq(idsWith(Nearest(q)[i])) \in Seq(Ids)
    <3>1. SetToSeq(idsWith(Nearest(q)[i])) \in Seq({Nearest(q)[i]})
      BY <1>6, OneToSeq
    <3>2. {Nearest(q)[i]} \subseteq Ids
      BY <1>7
    <3>3. QED
      BY <3>1, <3>2, SeqMonotonic
  <2>2. QED
    BY <1>2, <1>7, <2>1
<1>9. \A i \in 1 .. K : Len(found[i]) = 1 /\ found[i][1] = Truth(q)[i]
  <2>1. SUFFICES ASSUME NEW i \in 1 .. K PROVE Len(found[i]) = 1 /\ found[i][1] = Truth(q)[i]
    OBVIOUS
  <2>2. i \in 1 .. NumVectors /\ Nearest(q)[i] \in Protected /\ Nearest(q)[i] = Truth(q)[i]
    BY <1>2
  <2>3. found[i] = SetToSeq(idsWith(Nearest(q)[i]))
    BY <1>7, <2>2
  <2>4. /\ idsWith(Nearest(q)[i]) \in SUBSET {Nearest(q)[i]}
        /\ idsWith(Nearest(q)[i]) # {}
    BY <1>6, <2>2
  <2>5. /\ Len(SetToSeq(idsWith(Nearest(q)[i]))) = 1
        /\ SetToSeq(idsWith(Nearest(q)[i]))[1] = Nearest(q)[i]
    BY <2>4, OneToSeq
  <2>6. QED
    BY <2>2, <2>3, <2>5
<1> HIDE DEF found
<1>10. K \in 1 .. Len(found) /\ K \in Nat \ {0}
  BY <1>2, <1>8
<1>11. /\ FlattenSeq(found) \in Seq(Ids) /\ Len(FlattenSeq(found)) >= K
       /\ \A i \in 1 .. K : FlattenSeq(found)[i] = found[i][1]
  BY <1>8, <1>9, <1>10, FlattenBegins
<1>12. /\ Len(Hits(query)) \in Nat /\ Len(Hits(query)) >= K
       /\ \A i \in 1 .. K : Hits(query)[i] = Truth(q)[i]
  BY <1>3, <1>9, <1>11, LenProperties
<1>13. QED
  BY <1>10, <1>12, FullRecall

-----------------------------------------------------------------------------
(* In such a process the neighbours are in place when the first run, which   *)
(* loads, is over, and no later one takes them away.                         *)
Recallable == Whole /\ CountMode /\ Workloads[1] = "load" /\ Requests >= NumVectors /\ Batch = 1

RInv ==
    Recallable /\ ~errors =>
        /\ worst = Unit
        /\ run > 1 => InPlace
        /\ Running("query") =>
              \A c \in Clients : client[c] = "sent" => \E q \in Queries : buffer[c] = Asked(q)

AllPut == Recallable /\ run = 2 /\ phase = "between" /\ ~errors => InPlace

LEMMA LoadPutsAll ==
    ASSUME VInv, CInv, TruthKnown
    PROVE  AllPut
<1> SUFFICES ASSUME Recallable, run = 2, phase = "between", ~errors
             PROVE  InPlace
  BY DEF AllPut
<1>1. CountMode /\ Workloads[1] = "load" /\ Batch = 1 /\ Requests >= NumVectors
  BY DEF Recallable
<1>2. NeverDeleted /\ ~Running("delete")
  BY <1>1 DEF NeverDeleted, Running
<1>3. mapped \subseteq IdsOf(keys) /\ TemplateKey \notin keys
  BY <1>1, <1>2 DEF CInv, LoadKept, Counted
<1>4. Cardinality(IdsOf(keys) \ mapped) * Batch >= ToLoad
  <2>1. JustEnded("load")
    BY <1>1 DEF JustEnded
  <2>2. QED
    BY <1>1, <2>1 DEF CInv, LoadCompletes
<1>5. /\ NumVectors \in Nat \ {0} /\ Requests \in Nat /\ Ids = 0 .. NumVectors - 1
  BY DEF VInv, Opened, Ids
<1>6. /\ IsFiniteSet(IdsOf(keys)) /\ IdsOf(keys) \subseteq Ids /\ IsFiniteSet(mapped)
      /\ Cardinality(mapped) \in Nat /\ Cardinality(IdsOf(keys)) \in Nat
      /\ Cardinality(IdsOf(keys) \ mapped) \in Nat
  BY <1>3, KeysCounted
<1>7. Cardinality(IdsOf(keys)) >= NumVectors
  <2>1. ToLoad = NumVectors - Cardinality(mapped)
    BY <1>1, <1>5 DEF ToLoad, LeastOf
  <2>2. Cardinality(IdsOf(keys) \ mapped) = Cardinality(IdsOf(keys)) - Cardinality(mapped)
    <3>1. Cardinality(IdsOf(keys) \ mapped)
            = Cardinality(IdsOf(keys)) - Cardinality(IdsOf(keys) \cap mapped)
      BY <1>6, FS_Difference
    <3>2. IdsOf(keys) \cap mapped = mapped
      BY <1>3
    <3>3. QED
      BY <3>1, <3>2
  <2>3. QED
    BY <1>1, <1>4, <1>5, <1>6, <2>1, <2>2
<1>8. IsFiniteSet(Ids) /\ Cardinality(Ids) = NumVectors
  <2> DEFINE n == NumVectors - 1
  <2>1. n \in Int /\ ~(0 > n) /\ n - 0 + 1 = NumVectors
    BY <1>5
  <2> HIDE DEF n
  <2>2. IsFiniteSet(0 .. n) /\ Cardinality(0 .. n) = NumVectors
    BY <2>1, FS_Interval
  <2>3. QED
    BY <1>5, <2>2 DEF n
<1>9. IdsOf(keys) = Ids
  <2>1. /\ Cardinality(IdsOf(keys)) <= Cardinality(Ids)
        /\ Cardinality(IdsOf(keys)) = Cardinality(Ids) => IdsOf(keys) = Ids
    BY <1>6, <1>8, FS_Subset
  <2>2. QED
    BY <1>5, <1>6, <1>7, <1>8, <2>1
<1>10. Protected \subseteq Ids
  BY DEF Recallable, TruthKnown
<1>11. QED
  BY <1>3, <1>9, <1>10 DEF InPlace, IdsOf

LEMMA InitRInv == ASSUME Init PROVE RInv
  BY DEF Init, RInv, Running

(* What a step does to a run's outcome, and to its requests.                 *)
LEMMA OutcomeSteps ==
    ASSUME [Next]_vectorVars
    PROVE  /\ UNCHANGED <<setup, opened>>
           /\ errors' = errors \/ errors'
           /\ run' = run \/ (run' = run + 1 /\ phase' = "between")
           /\ worst' = worst \/ worst' = Unit \/ \E c \in Clients : AnsweredQuery(c)
<1>1. CASE UNCHANGED vectorVars
  BY <1>1 DEF vectorVars, outcomeVars
<1>2. CASE Next
  <2>1. UNCHANGED <<setup, opened>>
    BY <1>2 DEF Next
  <2>2. CASE BuildTagMap \/ SkipRun \/ EndRun \/ Straggler
    BY <2>1, <2>2 DEF BuildTagMap, SkipRun, EndRun, Straggler, outcomeVars
  <2>3. CASE StartRun
    BY <2>1, <2>3 DEF StartRun
  <2>4. CASE \E n \in Nodes : ScanNode(n)
    BY <2>1, <2>4 DEF ScanNode, outcomeVars
  <2>5. CASE \E c \in Clients : FillLoad(c) \/ FillDelete(c) \/ FillUpdate(c)
    BY <2>1, <2>5 DEF FillLoad, FillDelete, FillUpdate, Fill, outcomeVars
  <2>6. CASE \E c \in Clients : ClaimBatch(c) \/ FillQuery(c) \/ Answered(c)
    BY <2>1, <2>6 DEF ClaimBatch, FillQuery, Answered, outcomeVars
  <2>7. CASE \E c \in Clients : AnsweredQuery(c) \/ Failed(c)
    BY <2>1, <2>7 DEF AnsweredQuery, Failed
  <2>8. QED
    BY <1>2, <2>2, <2>3, <2>4, <2>5, <2>6, <2>7 DEF Next
<1>3. QED
  BY <1>1, <1>2

QueriesAsked == \A c \in Clients : client[c] = "sent" => \E q \in Queries : buffer[c] = Asked(q)

LEMMA AskedSteps ==
    ASSUME VInv, [Next]_vectorVars, Running("query") => QueriesAsked, Running("query")'
    PROVE  QueriesAsked'
<1>1. UNCHANGED <<setup, opened>>
  BY OutcomeSteps
<1>2. /\ Queries' = Queries /\ Batch' = Batch /\ \A q : Asked(q)' = Asked(q)
      /\ run' = run => Workload' = Workload
  <2>1. Queries' = Queries /\ Batch' = Batch /\ (run' = run => Workload' = Workload)
    BY <1>1 DEF Queries, Batch, Workload, Workloads
  <2>2. QED
    BY <1>1, <2>1 DEF Asked
<1>3. client \in [Clients -> {"idle", "claimed", "sent"}] /\ buffer = [c \in Clients |-> buffer[c]]
  BY DEF VInv, Types
<1>4. phase' = "running" /\ Workload' = "query"
  BY DEF Running
<1>5. ASSUME UNCHANGED <<run, phase>>,
             \A c \in Clients : client'[c] = "sent" =>
                 \/ client[c] = "sent" /\ buffer'[c] = buffer[c]
                 \/ \E q \in Queries : buffer'[c] = Asked(q)
      PROVE  QueriesAsked'
  <2>1. Running("query")
    BY <1>2, <1>4, <1>5 DEF Running
  <2>2. \A c \in Clients : client'[c] = "sent" => \E q \in Queries : buffer'[c] = Asked(q)
    BY <1>5, <2>1 DEF QueriesAsked
  <2>3. QED
    BY <1>2, <2>2 DEF QueriesAsked
<1>6. CASE UNCHANGED vectorVars
  BY <1>5, <1>6 DEF vectorVars, queueVars
<1>7. CASE BuildTagMap \/ SkipRun \/ EndRun
  BY <1>4, <1>7 DEF BuildTagMap, SkipRun, EndRun
<1>8. CASE StartRun
  BY <1>8 DEF StartRun, QueriesAsked
<1>9. CASE Straggler \/ \E n \in Nodes : ScanNode(n)
  BY <1>5, <1>9 DEF Straggler, ScanNode, queueVars
<1>10. CASE \E c \in Clients : FillLoad(c) \/ FillDelete(c) \/ FillUpdate(c)
  BY <1>2, <1>4, <1>10 DEF FillLoad, FillDelete, FillUpdate, Fill
<1>11. CASE \E c \in Clients : ClaimBatch(c) \/ Answered(c) \/ AnsweredQuery(c) \/ Failed(c)
  <2>1. PICK c \in Clients : ClaimBatch(c) \/ Answered(c) \/ AnsweredQuery(c) \/ Failed(c)
    BY <1>11
  <2>2. UNCHANGED <<run, phase, buffer>>
    BY <2>1 DEF ClaimBatch, Answered, AnsweredQuery, Failed
  <2>3. \E place \in {"idle", "claimed"} : client' = [client EXCEPT ![c] = place]
    BY <2>1 DEF ClaimBatch, Answered, AnsweredQuery, Failed
  <2>4. QED
    BY <1>3, <1>5, <2>2, <2>3
<1>12. CASE \E c \in Clients : FillQuery(c)
  <2>1. PICK c \in Clients : FillQuery(c)
    BY <1>12
  <2>2. PICK q \in Queries : buffer' = [buffer EXCEPT ![c] = Asked(q)]
    BY <2>1 DEF FillQuery, Asked
  <2>3. UNCHANGED <<run, phase>> /\ client' = [client EXCEPT ![c] = "sent"]
    BY <2>1 DEF FillQuery
  <2>4. \A d \in Clients \ {c} : client'[d] = client[d] /\ buffer'[d] = buffer[d]
    BY <1>3, <2>2, <2>3
  <2>5. buffer'[c] = Asked(q)
    BY <1>3, <2>2
  <2>6. QED
    BY <1>5, <2>3, <2>4, <2>5
<1>13. QED
  BY <1>6, <1>7, <1>8, <1>9, <1>10, <1>11, <1>12 DEF Next

LEMMA RInvStep ==
    ASSUME VInv, CInv, TruthKnown, RInv, AllPut', [Next]_vectorVars
    PROVE  RInv'
<1>1. /\ UNCHANGED <<setup, opened>>
      /\ errors' = errors \/ errors'
      /\ run' = run \/ (run' = run + 1 /\ phase' = "between")
      /\ worst' = worst \/ worst' = Unit \/ \E c \in Clients : AnsweredQuery(c)
  BY OutcomeSteps
<1>2. Recallable' = Recallable /\ Protected' = Protected
  BY <1>1 DEF Recallable, Whole, LoadsAll, FourBytes, CountMode, Workloads, Requests, NumVectors, Batch, Protected
<1>3. SUFFICES ASSUME Recallable', ~errors' PROVE RInv'
  BY DEF RInv
<1>4. /\ Recallable /\ worst = Unit
      /\ run > 1 => InPlace
      /\ Running("query") => QueriesAsked
  BY <1>1, <1>2, <1>3 DEF RInv, QueriesAsked
<1>5. InPlace => InPlace'
  <2>1. \A k \in keys : k.id \in Protected /\ k # TemplateKey => k \in keys'
    BY VInvStep
  <2>2. QED
    BY <1>2, <2>1 DEF InPlace, TemplateKey
<1>6. run' > 1 => InPlace'
  <2>1. run \in Nat \ {0}
    BY DEF VInv, Types
  <2>2. CASE run = 1 /\ run' > 1
    <3>1. run' = 2 /\ phase' = "between"
      BY <1>1, <2>2
    <3>2. QED
      BY <1>3, <3>1 DEF AllPut
  <2>3. QED
    BY <1>1, <1>4, <1>5, <2>1, <2>2
<1>7. Running("query")' => QueriesAsked'
  BY <1>4, AskedSteps
<1>8. worst' = Unit
  <2>1. SUFFICES ASSUME NEW c \in Clients, AnsweredQuery(c) PROVE worst' = Unit
    BY <1>1, <1>4
  <2>2. Running("query") /\ client[c] = "sent"
    BY <2>1 DEF AnsweredQuery, Running
  <2>3. PICK q \in Queries : buffer[c] = Asked(q)
    BY <1>4, <2>2 DEF QueriesAsked
  <2>4. InPlace
    <3>1. Workload = "query" /\ Workloads[1] = "load" /\ run \in Nat \ {0} /\ run <= Len(Workloads)
      BY <1>4, <2>2 DEF Running, Recallable, VInv, Types
    <3>2. run # 1
      BY <3>1 DEF Workload
    <3>3. QED
      BY <1>4, <3>1, <3>2
  <2>5. TemplateKey \notin keys
    BY <1>4 DEF CInv, Counted, Recallable
  <2>6. RecallOf(Hits(Asked(q).vector), Truth(q), Len(Truth(q))) = Unit
    BY <1>4, <2>4, <2>5, SearchFindsTruth DEF Recallable
  <2>7. buffer[c].id = q
    BY <2>3 DEF Asked
  <2>8. RecallOf(Hits(buffer[c].vector), opened.neighbors[buffer[c].id], Len(opened.neighbors[buffer[c].id])) = Unit
    BY <2>3, <2>6, <2>7 DEF Truth
  <2>9. QED
    BY <1>4, <2>1, <2>8 DEF AnsweredQuery
<1>9. QED
  BY <1>6, <1>7, <1>8 DEF RInv, QueriesAsked

(* Whatever runs follow a complete vec-load, and whatever they delete, a      *)
(* server that searches exactly answers every query with the whole of its    *)
(* ground truth, and compute_and_record_recall says so.                      *)
THEOREM RecallStays == Spec /\ []BytesAsMeant => []RecallSurvivesDeletes
<1>1. Init /\ BytesAsMeant => TruthKnown /\ RInv
  BY InitTruthKnown, InitRInv
<1>2. TruthKnown /\ [Next]_vectorVars => TruthKnown'
  <2>1. SUFFICES ASSUME TruthKnown, [Next]_vectorVars PROVE TruthKnown'
    OBVIOUS
  <2>2. UNCHANGED <<setup, opened>>
    BY <2>1, OutcomeSteps
  <2>3. QED
    BY <2>1, <2>2
    DEF TruthKnown, Whole, LoadsAll, FourBytes, Data, Protected, Ids, NumVectors, Queries, Nearest, Truth, Batch
<1>3. VInv /\ CInv /\ TruthKnown => AllPut
  BY LoadPutsAll
<1>4. VInv /\ CInv /\ TruthKnown /\ RInv /\ AllPut' /\ [Next]_vectorVars => RInv'
  BY RInvStep
<1>5. RInv => RecallSurvivesDeletes
  BY DEF RInv, RecallSurvivesDeletes, Recallable, Whole
<1>6. QED
  BY <1>1, <1>2, <1>3, <1>4, <1>5, VInvInvariant, CInvInvariant, PTL DEF Spec

-----------------------------------------------------------------------------
(* The search loops of the id pools.                                         *)

(* Every id handed out has been passed by the counter.                       *)
HandedBelowCounter == \A i \in 1 .. Len(handed) : handed[i] < counter

(* Every eligible id the counter has passed has been handed out.             *)
PassedAreHanded == \A id \in Eligible : id < counter => id \in HandedIds

(* A worker is only told "none" by a candidate at or past the limit.         *)
NoneBeyondLimit == (\E w \in Workers : search[w] = "none") => counter >= MaxId

PoolInv ==
    /\ PoolTypeOK
    /\ HandedOutOnce
    /\ NeverHandsSkipped
    /\ HandedBelowCounter
    /\ PassedAreHanded
    /\ NoneBeyondLimit

-----------------------------------------------------------------------------

(* The empty history hands out nothing.                                      *)
LEMMA NothingHanded ==
    ASSUME handed = <<>>
    PROVE  Len(handed) = 0 /\ HandedIds = {} /\ handed \in Seq(0 .. MaxId - 1)
<1>1. Len(handed) = 0
  OBVIOUS
<1>2. HandedIds = {}
  BY <1>1 DEF HandedIds
<1>3. handed \in Seq(0 .. MaxId - 1)
  OBVIOUS
<1>4. QED
  BY <1>1, <1>2, <1>3

(* Each id in the history is an id of the dataset below the counter.         *)
LEMMA HandedAreIds ==
    ASSUME PoolTypeOK, HandedBelowCounter, NEW i \in 1 .. Len(handed)
    PROVE  handed[i] \in Int /\ handed[i] < counter
<1>1. handed \in Seq(0 .. MaxId - 1)
  BY DEF PoolTypeOK
<1>2. handed[i] \in 0 .. MaxId - 1
  BY <1>1, ElementOfSeq
<1>3. handed[i] \in Int
  BY <1>2, PoolAssumption
<1>4. QED
  BY <1>3 DEF HandedBelowCounter

LEMMA InitPoolInv == PoolInit => PoolInv
<1> SUFFICES ASSUME PoolInit PROVE PoolInv
  OBVIOUS
<1>1. handed = <<>> /\ counter = 0 /\ search = [w \in Workers |-> "idle"]
  BY DEF PoolInit
<1>2. Len(handed) = 0 /\ HandedIds = {} /\ handed \in Seq(0 .. MaxId - 1)
  BY <1>1, NothingHanded
<1>3. PoolTypeOK
  BY <1>1, <1>2 DEF PoolTypeOK
<1>4. HandedOutOnce /\ HandedBelowCounter /\ NeverHandsSkipped
  BY <1>1, <1>2 DEF HandedOutOnce, HandedBelowCounter, NeverHandsSkipped
<1>5. PassedAreHanded /\ NoneBeyondLimit
  BY <1>1, PoolAssumption DEF PassedAreHanded, NoneBeyondLimit, Eligible
<1>6. QED
  BY <1>3, <1>4, <1>5 DEF PoolInv

(* A turn of the loop that gives its candidate adds it to the history.       *)
LEMMA GiveStep ==
    ASSUME PoolTypeOK, counter < MaxId, handed' = Append(handed, counter)
    PROVE  /\ Len(handed') = Len(handed) + 1
           /\ \A i \in 1 .. Len(handed) : handed'[i] = handed[i]
           /\ handed'[Len(handed) + 1] = counter
           /\ handed' \in Seq(0 .. MaxId - 1)
           /\ HandedIds' = HandedIds \cup {counter}
<1>0. counter \in 0 .. MaxId - 1 /\ handed \in Seq(0 .. MaxId - 1) /\ Len(handed) \in Nat
  BY PoolAssumption DEF PoolTypeOK
<1>1. /\ Len(handed') = Len(handed) + 1
      /\ \A i \in 1 .. Len(handed) : handed'[i] = handed[i]
      /\ handed'[Len(handed) + 1] = counter
      /\ handed' \in Seq(0 .. MaxId - 1)
  BY <1>0
<1>2. 1 .. Len(handed') = (1 .. Len(handed)) \cup {Len(handed) + 1}
  BY <1>0, <1>1
<1>3. HandedIds' = HandedIds \cup {counter}
  <2>1. HandedIds' = {handed'[i] : i \in 1 .. Len(handed')}
    BY DEF HandedIds
  <2>2. HandedIds' \subseteq HandedIds \cup {counter}
    BY <1>1, <1>2, <2>1 DEF HandedIds
  <2>3. HandedIds \subseteq HandedIds'
    BY <1>1, <1>2, <2>1 DEF HandedIds
  <2>4. counter \in HandedIds'
    BY <1>1, <1>2, <2>1
  <2>5. QED
    BY <2>2, <2>3, <2>4
<1>4. QED
  BY <1>1, <1>3

LEMMA FetchPoolInv ==
    ASSUME PoolInv, NEW w \in Workers, Fetch(w)
    PROVE  PoolInv'
<1> USE DEF PoolInv
<1>0. PoolTypeOK /\ counter \in Nat /\ counter' = counter + 1 /\ Len(handed) \in Nat
  BY DEF PoolTypeOK, Fetch
<1>1. CASE counter >= MaxId
  <2>1. search' = [search EXCEPT ![w] = "none"] /\ UNCHANGED handed
    BY <1>0, <1>1, PoolAssumption DEF Fetch
  <2>2. PoolTypeOK'
    BY <1>0, <2>1 DEF PoolTypeOK
  <2>3. HandedIds' = HandedIds /\ Len(handed') = Len(handed)
    BY <2>1 DEF HandedIds
  <2>4. HandedBelowCounter'
    <3> SUFFICES ASSUME NEW i \in 1 .. Len(handed) PROVE handed[i] < counter + 1
      BY <1>0, <2>1 DEF HandedBelowCounter
    <3>1. handed[i] < counter /\ handed[i] \in Int
      BY <1>0, HandedAreIds
    <3>2. QED
      BY <1>0, <3>1
  <2>5. PassedAreHanded'
    BY <1>0, <1>1, <2>3, PoolAssumption DEF PassedAreHanded, Eligible
  <2>6. NoneBeyondLimit'
    BY <1>0, <1>1, PoolAssumption DEF NoneBeyondLimit
  <2>7. QED
    BY <2>1, <2>2, <2>3, <2>4, <2>5, <2>6 DEF HandedOutOnce, NeverHandsSkipped
<1>2. CASE counter < MaxId /\ counter \in Skipped
  <2>1. UNCHANGED <<search, handed>>
    BY <1>0, <1>2, PoolAssumption DEF Fetch
  <2>2. PoolTypeOK'
    BY <1>0, <2>1 DEF PoolTypeOK
  <2>3. HandedIds' = HandedIds
    BY <2>1 DEF HandedIds
  <2>4. HandedBelowCounter'
    <3> SUFFICES ASSUME NEW i \in 1 .. Len(handed) PROVE handed[i] < counter + 1
      BY <1>0, <2>1 DEF HandedBelowCounter
    <3>1. handed[i] < counter /\ handed[i] \in Int
      BY <1>0, HandedAreIds
    <3>2. QED
      BY <1>0, <3>1
  <2>5. PassedAreHanded'
    BY <1>0, <1>2, <2>3 DEF PassedAreHanded, Eligible
  <2>6. NoneBeyondLimit'
    BY <1>0, <2>1, PoolAssumption DEF NoneBeyondLimit
  <2>7. QED
    BY <2>1, <2>2, <2>3, <2>4, <2>5, <2>6 DEF HandedOutOnce, NeverHandsSkipped
<1>3. CASE counter < MaxId /\ counter \notin Skipped
  <2>1. search' = [search EXCEPT ![w] = "given"] /\ handed' = Append(handed, counter)
    BY <1>0, <1>3, PoolAssumption DEF Fetch
  <2>2. /\ Len(handed') = Len(handed) + 1
        /\ \A i \in 1 .. Len(handed) : handed'[i] = handed[i]
        /\ handed'[Len(handed) + 1] = counter
        /\ handed' \in Seq(0 .. MaxId - 1)
        /\ HandedIds' = HandedIds \cup {counter}
    BY <1>0, <1>3, <2>1, GiveStep
  <2>3. PoolTypeOK'
    BY <1>0, <2>1, <2>2 DEF PoolTypeOK
  <2>4. HandedOutOnce'
    <3> SUFFICES ASSUME NEW i \in 1 .. Len(handed'), NEW j \in 1 .. Len(handed'), i < j
                 PROVE  handed'[i] < handed'[j]
      BY DEF HandedOutOnce
    <3>1. i \in 1 .. Len(handed) /\ handed'[i] = handed[i]
      BY <1>0, <2>2
    <3>2. CASE j \in 1 .. Len(handed)
      BY <2>2, <3>1, <3>2 DEF HandedOutOnce
    <3>3. CASE j = Len(handed) + 1
      BY <2>2, <3>1, <3>3 DEF HandedBelowCounter
    <3>4. QED
      BY <1>0, <2>2, <3>2, <3>3
  <2>5. NeverHandsSkipped'
    BY <1>3, <2>2 DEF NeverHandsSkipped
  <2>6. HandedBelowCounter'
    <3> SUFFICES ASSUME NEW i \in 1 .. Len(handed') PROVE handed'[i] < counter + 1
      BY <1>0 DEF HandedBelowCounter
    <3>1. CASE i \in 1 .. Len(handed)
      <4>1. handed[i] < counter /\ handed[i] \in Int
        BY <1>0, <3>1, HandedAreIds
      <4>2. QED
        BY <1>0, <2>2, <3>1, <4>1
    <3>2. CASE i = Len(handed) + 1
      BY <1>0, <2>2, <3>2
    <3>3. QED
      BY <1>0, <2>2, <3>1, <3>2
  <2>7. PassedAreHanded'
    <3> SUFFICES ASSUME NEW id \in Eligible, id < counter + 1 PROVE id \in HandedIds'
      BY <1>0 DEF PassedAreHanded, Eligible
    <3>1. CASE id < counter
      BY <2>2, <3>1 DEF PassedAreHanded
    <3>2. CASE id = counter
      BY <2>2, <3>2
    <3>3. QED
      BY <1>0, <3>1, <3>2 DEF Eligible
  <2>8. NoneBeyondLimit'
    BY <1>0, <1>3, <2>1, PoolAssumption DEF NoneBeyondLimit, PoolTypeOK
  <2>9. QED
    BY <2>3, <2>4, <2>5, <2>6, <2>7, <2>8
<1>4. QED
  BY <1>0, <1>1, <1>2, <1>3, PoolAssumption

LEMMA BeginPoolInv ==
    ASSUME PoolInv, NEW w \in Workers, BeginSearch(w)
    PROVE  PoolInv'
<1>1. search' = [search EXCEPT ![w] = "asked"] /\ UNCHANGED <<counter, handed>>
  BY DEF BeginSearch
<1>2. PoolTypeOK' /\ NoneBeyondLimit'
  BY <1>1 DEF PoolInv, PoolTypeOK, NoneBeyondLimit
<1>3. HandedIds' = HandedIds
  BY <1>1 DEF HandedIds
<1>4. QED
  BY <1>1, <1>2, <1>3 DEF PoolInv, HandedOutOnce, NeverHandsSkipped, HandedBelowCounter,
                          PassedAreHanded

LEMMA ResetPoolInv == ASSUME Reset PROVE PoolInv'
<1>1. handed' = <<>> /\ counter' = 0 /\ search' = [w \in Workers |-> "idle"]
  BY DEF Reset
<1>2. Len(handed') = 0 /\ handed' \in Seq(0 .. MaxId - 1)
  BY <1>1
<1>3. HandedIds' = {}
  BY <1>2 DEF HandedIds
<1>4. PoolTypeOK'
  BY <1>1, <1>2 DEF PoolTypeOK
<1>5. PassedAreHanded' /\ NoneBeyondLimit'
  BY <1>1, PoolAssumption DEF PassedAreHanded, NoneBeyondLimit, Eligible
<1>6. QED
  BY <1>1, <1>2, <1>3, <1>4, <1>5 DEF PoolInv, HandedOutOnce, HandedBelowCounter, NeverHandsSkipped

LEMMA StepPoolInv == PoolInv /\ [PoolNext]_claimVars => PoolInv'
<1> SUFFICES ASSUME PoolInv, [PoolNext]_claimVars PROVE PoolInv'
  OBVIOUS
<1>1. CASE Reset
  BY <1>1, ResetPoolInv
<1>2. ASSUME NEW w \in Workers, BeginSearch(w) PROVE PoolInv'
  BY <1>2, BeginPoolInv
<1>3. ASSUME NEW w \in Workers, Fetch(w) PROVE PoolInv'
  BY <1>3, FetchPoolInv
<1>4. CASE UNCHANGED claimVars
  BY <1>4 DEF PoolInv, claimVars, PoolTypeOK, HandedOutOnce, NeverHandsSkipped,
              HandedBelowCounter, PassedAreHanded, NoneBeyondLimit, HandedIds
<1>5. QED
  BY <1>1, <1>2, <1>3, <1>4 DEF PoolNext

(* The inductive invariant is an invariant.                                  *)
THEOREM PoolInductive == PoolSpec => []PoolInv
BY InitPoolInv, StepPoolInv, PTL DEF PoolSpec

-----------------------------------------------------------------------------

(* Only vectors of the dataset are handed out.                               *)
THEOREM PoolTypeCorrect == PoolSpec => []PoolTypeOK
BY PoolInductive, PTL DEF PoolInv

(* No vector is handed out twice in a run.                                   *)
THEOREM NoIdTwice == PoolSpec => []HandedOutOnce
BY PoolInductive, PTL DEF PoolInv

(* An existing, or a protected, vector is never handed out.                  *)
THEOREM SkippedIsNeverHanded == PoolSpec => []NeverHandsSkipped
BY PoolInductive, PTL DEF PoolInv

(* "No more ids" means that every eligible vector has been handed out.       *)
LEMMA ExhaustedFromInv == PoolInv => NoneMeansExhausted
BY PoolAssumption DEF PoolInv, NoneMeansExhausted, NoneBeyondLimit, PassedAreHanded, Eligible, PoolTypeOK

THEOREM NoneIsExhaustion == PoolSpec => []NoneMeansExhausted
BY PoolInductive, ExhaustedFromInv, PTL

-----------------------------------------------------------------------------

LEMMA AbstractInit == PoolInit => Dispenser!Init
BY NothingHanded DEF PoolInit, Dispenser!Init

LEMMA AbstractStep == PoolInv /\ PoolInv' /\ [PoolNext]_claimVars => [Dispenser!Next]_Dispenser!dispenserVars
<1> SUFFICES ASSUME PoolInv, PoolInv', [PoolNext]_claimVars
             PROVE  [Dispenser!Next]_Dispenser!dispenserVars
  OBVIOUS
<1>0. PoolTypeOK /\ counter \in Nat
  BY DEF PoolInv, PoolTypeOK
<1>1. CASE Reset
  <2>1. Len(handed') = 0
    BY <1>1 DEF Reset
  <2>2. HandedIds' = {}
    BY <2>1 DEF HandedIds
  <2>3. QED
    BY <1>1, <2>2 DEF Reset, Dispenser!Next, Dispenser!Refill
<1>2. ASSUME NEW w \in Workers, BeginSearch(w) PROVE Dispenser!Ask(w)
  BY <1>2 DEF BeginSearch, Dispenser!Ask, HandedIds
<1>3. ASSUME NEW w \in Workers, Fetch(w)
      PROVE  \/ Dispenser!Give(w)
             \/ Dispenser!TurnAway(w)
             \/ UNCHANGED Dispenser!dispenserVars
  <2>1. CASE counter >= MaxId
    <3>1. search[w] = "asked" /\ search' = [search EXCEPT ![w] = "none"] /\ UNCHANGED handed
      BY <1>0, <1>3, <2>1, PoolAssumption DEF Fetch
    <3>2. Eligible \subseteq HandedIds
      BY <1>0, <2>1, PoolAssumption DEF PoolInv, PassedAreHanded, Eligible
    <3>3. QED
      BY <3>1, <3>2 DEF Dispenser!TurnAway, HandedIds
  <2>2. CASE counter < MaxId /\ counter \in Skipped
    BY <1>0, <1>3, <2>2, PoolAssumption DEF Fetch, Dispenser!dispenserVars, HandedIds
  <2>3. CASE counter < MaxId /\ counter \notin Skipped
    <3>1. /\ search[w] = "asked"
          /\ search' = [search EXCEPT ![w] = "given"]
          /\ handed' = Append(handed, counter)
      BY <1>0, <1>3, <2>3, PoolAssumption DEF Fetch
    <3>2. HandedIds' = HandedIds \cup {counter}
      BY <1>0, <2>3, <3>1, GiveStep
    <3>3. counter \in Eligible
      BY <1>0, <2>3, PoolAssumption DEF Eligible
    <3>4. counter \notin HandedIds
      BY DEF PoolInv, HandedBelowCounter, HandedIds, PoolTypeOK
    <3>5. QED
      BY <3>1, <3>2, <3>3, <3>4 DEF Dispenser!Give
  <2>4. QED
    BY <1>0, <2>1, <2>2, <2>3, PoolAssumption
<1>4. CASE UNCHANGED claimVars
  BY <1>4 DEF claimVars, Dispenser!dispenserVars, HandedIds
<1>5. QED
  BY <1>1, <1>2, <1>3, <1>4 DEF PoolNext, Dispenser!Next

(* The loops of any number of workers look like one dispenser that gives     *)
(* each eligible id once and turns a worker away only when it is empty.      *)
THEOREM SearchesLookAtomic == PoolSpec => ImplementsDispenser
<1>1. PoolInit => Dispenser!Init
  BY AbstractInit
<1>2. PoolInv /\ PoolInv' /\ [PoolNext]_claimVars => [Dispenser!Next]_Dispenser!dispenserVars
  BY AbstractStep
<1>3. QED
  BY <1>1, <1>2, PoolInductive, PTL DEF PoolSpec, ImplementsDispenser, Dispenser!Spec

=============================================================================
