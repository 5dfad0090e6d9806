----------------------------- MODULE VectorRuns -----------------------------
(***************************************************************************)
(* The vector workloads of one process, run one after the other:           *)
(* vec-load, vec-update, vec-delete and vec-query, with what they read     *)
(* from a dataset's file (DatasetFile) and send (CommandTemplates).        *)
(* Orchestrator::run_test_event sets a run up from the tag map and the     *)
(* protected ids, which are shared by all runs; clients claim a batch of   *)
(* the quota and one vector id for it                                      *)
(* (src/workload/context.rs) and write the id and its vector into their    *)
(* command buffer (fill_placeholders_for in                                *)
(* src/benchmark/event_worker.rs).  The quota and the id pools answer in   *)
(* one step here: RequestQuota and IdPool show that they look so to the    *)
(* workers; EventClient shows that a query is scored with its own reply.   *)
(***************************************************************************)
EXTENDS CommandTemplates

CONSTANTS
    Clients,    \* connections
    Datasets,   \* name -> [schema, nearest, count, offset, search]: nearest tells, for each
                \* query, the records from the nearest on; count and offset are --num-vectors
                \* and --vector-offset; search is the search configuration
    Setups,     \* the servers and command lines to look at
    MaxBatches  \* bound on the batches of one run in duration mode

VARIABLES
    setup,      \* one of Setups, for the whole process
    opened,     \* what is read and sent of the process's dataset
    run,        \* index of the current workload; one past the last at the end
    phase,      \* "scan", "between" runs, "running"
    scanning,   \* nodes whose scan is under way
    mapped,     \* ids in the tag map
    total,      \* the run's quota
    sold,       \* batches claimed in this run
    unmapped,   \* ClusterTagMap.unmapped_counter
    deleted,    \* ProtectedVectorIds.delete_counter
    dataset,    \* GlobalCounters.dataset_counter
    client,     \* "idle", "claimed" (a batch, no id yet) or "sent"
    buffer,     \* the key in each client's command buffer
    stray,      \* requests of an earlier run that the server may yet execute
    keys,       \* keys on the server
    sent,       \* history: keys put in a buffer by this run
    errors,     \* history: a batch of this process failed
    worst       \* RecallStats.min_recall of this run

mapVars == <<scanning, mapped>>
outcomeVars == <<errors, worst>>
queueVars == <<client, buffer, sent>>
poolVars == <<unmapped, deleted, dataset>>
vectorVars == <<setup, opened, run, phase, mapVars, total, poolVars, sold, queueVars, stray, keys, outcomeVars>>

NodeOf == setup.nodeOf          \* the primary each client is connected to
Cluster == setup.cluster        \* whether there is a topology; else there is one node
Preloaded == setup.preloaded    \* ids, each with its node, that an earlier process loaded
Unscanned == setup.unscanned    \* nodes whose scan may fail when the tag map is built
Workloads == setup.workloads    \* the tests of the process, in order
Requests == setup.requests      \* effective_requests()
Batch == setup.batch            \* commands per pipeline
CountMode == setup.countMode    \* --requests, not --duration

Tag == <<Char(123), Char(65), Char(66), Char(67), Char(125)>>   \* one of the cluster tags
Batches == {s.batch : s \in Setups}

(* What the process reads from each dataset's file, once main has opened it  *)
(* and set the limits, and what servers make of the requests that it sends;  *)
(* an item is told by its bytes.  A request that servers do not understand   *)
(* as so many equal commands has no id.                                      *)
ContextOf(data) ==
    Limited(Open(data.schema, Written(data.schema, data.nearest)), data.count, data.offset)
VectorField(context) == context.schema.fields[context.layout.vector]
ItemIn(bytes, field) == ItemOf(bytes, FieldSize(field))

Understood(workload, prefix, field, number, commands, batch) ==
    IF Len(commands) = batch /\ \A i \in 1 .. batch : commands[i] = commands[1]
    THEN [id |-> IF workload = "query" THEN number ELSE ParsedId(prefix, commands[1][2]),
          vector |-> CASE workload = "load" -> ItemIn(commands[1][4], field)
                       [] workload = "query" -> ItemIn(commands[1][7], field)
                       [] OTHER -> <<"none">>]
    ELSE [id |-> NoId, vector |-> Garbled]
RequestsWith(template, workload, prefix, context, field, batch, n) ==
    [i \in 0 .. n - 1 |->
       Understood(workload, prefix, field, i, Received(Request(context, template, i, Tag)), batch)]
RequestsOf(workload, search, context, field, n) ==
    [batch \in Batches |->
       RequestsWith(Build(VectorTemplate(workload, search, OrElse(field.dimensions, 0)), batch),
                    workload, search.prefix, context, field, batch, n)]

ViewFrom(context, field, search, count, queries) ==
    [count |-> count,
     protected |-> GroundTruthIds(context),
     vectors |-> [i \in 0 .. count - 1 |-> ItemIn(GetVector(context, i), field)],
     queries |-> [q \in 0 .. queries - 1 |-> ItemIn(GetQuery(context, q), field)],
     neighbors |-> [q \in 0 .. queries - 1 |-> GetNeighbors(context, q)],
     load |-> RequestsOf("load", search, context, field, count),
     delete |-> RequestsOf("delete", search, context, field, count),
     query |-> RequestsOf("query", search, context, field, queries)]
ViewIn(context, search) ==
    ViewFrom(context, VectorField(context), search, EffectiveCount(context), QueryCount(context.schema))
ViewOf(data) == ViewIn(ContextOf(data), data.search)

View == [name \in DOMAIN Datasets |-> ViewOf(Datasets[name])]

CountOf(name) == EffectiveCount(ContextOf(Datasets[name]))

(* A dataset has a vector; a pipeline has a command; all nodes that hold keys *)
(* have clients, of which a server that is not a cluster has all.            *)
ASSUME VectorAssumption ==
    /\ IsFiniteSet(Clients) /\ MaxBatches \in Nat
    /\ \A s \in Setups :
          /\ s.dataset \in DOMAIN Datasets /\ CountOf(s.dataset) \in Nat \ {0}
          /\ DOMAIN s.nodeOf = Clients /\ {"template", "query"} \cap Range(s.nodeOf) = {}
          /\ ~s.cluster => \A c, d \in Clients : s.nodeOf[c] = s.nodeOf[d]
          /\ s.preloaded \subseteq (0 .. CountOf(s.dataset) - 1) \X Range(s.nodeOf)
          /\ s.workloads \in Seq({"load", "update", "delete", "query"})
          /\ s.requests \in Nat /\ s.batch \in Nat \ {0}

(* The writer of a file with queries knows the nearest of the records, of    *)
(* which the ground truth has one at least, and ranks each of them once.     *)
ASSUME DatasetsAssumption ==
    \A name \in DOMAIN Datasets :
        LET data == Datasets[name]
            schema == data.schema
        IN  /\ schema.records \in Nat /\ data.count \in Nat /\ data.offset \in Nat
            /\ QueryCount(schema) \in Nat
            /\ QueryCount(schema) > 0 =>
                  schema.truth.present /\ Neighbors(schema) \in 1 .. schema.records
            /\ \A q \in 1 .. QueryCount(schema) :
                  /\ data.nearest[q] \in Seq(0 .. schema.records - 1)
                  /\ Len(data.nearest[q]) = schema.records
                  /\ \A i, j \in 1 .. schema.records :
                        data.nearest[q][i] = data.nearest[q][j] => i = j

NumVectors == opened.count
Protected == opened.protected
Ids == 0 .. NumVectors - 1
Queries == DOMAIN opened.queries
Nodes == {NodeOf[c] : c \in Clients}

(* build_vector_id_mappings scans every primary in a thread of its own; a    *)
(* server that is not a cluster is not scanned.                              *)
Scans == IF Cluster THEN Nodes ELSE {}

Workload == IF run <= Len(Workloads) THEN Workloads[run] ELSE "none"

(* deterministic_cluster_tag depends on the id, and through owns_slot on the *)
(* node of the client: a vector has one key per node (of a node that owns no *)
(* candidate's slot see KeyspaceRuns).                                       *)
KeyFor(id, c) ==
    LET understood == IF Workload = "delete" THEN opened.delete[Batch] ELSE opened.load[Batch]
    IN  [id |-> understood[id].id, tag |-> NodeOf[c], vector |-> understood[id].vector]

(* What build() leaves in a fresh buffer: id 0 under the tag {000}, which no *)
(* client computes, and a vector of zeros.                                   *)
TemplateKey == [id |-> 0, tag |-> "template", vector |-> <<"zeros">>]

IdsOf(ks) == {k.id : k \in ks}

-----------------------------------------------------------------------------

Init ==
    /\ setup \in Setups
    /\ opened = View[setup.dataset]
    /\ run = 1
    /\ phase = "scan"
    /\ scanning = Scans
    /\ mapped = {}
    /\ total = 0 /\ sold = 0
    /\ unmapped = 0 /\ deleted = 0 /\ dataset = 0
    /\ client = [c \in Clients |-> "idle"]
    /\ buffer = [c \in Clients |-> TemplateKey]
    /\ stray = {}
    /\ keys = {[id |-> p[1], tag |-> p[2], vector |-> opened.load[Batch][p[1]].vector] : p \in Preloaded}
    /\ sent = {}
    /\ errors = FALSE
    /\ worst = Unit

(* scan_node: the keys of a node are mapped page by page, until its cursor    *)
(* is zero again or the scan fails; a failure is only counted, and what was  *)
(* not seen is left out.                                                     *)
ScanNode(n) ==
    /\ n \in scanning
    /\ \E seen \in SUBSET {k \in keys : k.tag = n} :
          /\ n \notin Unscanned => seen = {k \in keys : k.tag = n}
          /\ mapped' = mapped \cup IdsOf(seen)
    /\ scanning' = scanning \ {n}
    /\ UNCHANGED <<run, phase, total, poolVars, sold, queueVars, stray, keys, outcomeVars>>

(* build_cluster_tag_map, when all threads have been joined. *)
BuildTagMap ==
    /\ phase = "scan"
    /\ scanning = {}
    /\ phase' = "between"
    /\ UNCHANGED <<run, mapVars, total, poolVars, sold, queueVars, stray, keys, outcomeVars>>

(* The quota of a run: a vec-load is only asked for what the map lacks. *)
LeastOf(a, b) == IF a <= b THEN a ELSE b
ToLoad == LeastOf(Requests, NumVectors) - Cardinality(mapped)
QuotaForOneLess(w) == IF w = "load" THEN ToLoad - 1 ELSE Requests  \* mutant
QuotaFor(w) == IF w = "load" THEN ToLoad ELSE Requests

(* run_test_event: reset_unmapped_counter for a vec-load, new counters and   *)
(* new clients with fresh buffers; the delete counter is left alone.         *)
StartRun ==
    /\ phase = "between"
    /\ run <= Len(Workloads)
    /\ QuotaFor(Workload) > 0
    /\ phase' = "running"
    /\ total' = QuotaFor(Workload)
    /\ sold' = 0
    /\ unmapped' = IF Workload = "load" THEN 0 ELSE unmapped
    /\ dataset' = 0
    /\ client' = [c \in Clients |-> "idle"]
    /\ buffer' = [c \in Clients |-> TemplateKey]
    /\ sent' = {}
    /\ worst' = Unit
    /\ UNCHANGED <<run, mapVars, deleted, stray, keys, errors>>

(* "All vectors already loaded, nothing to do". *)
SkipRun ==
    /\ phase = "between"
    /\ run <= Len(Workloads)
    /\ QuotaFor(Workload) <= 0
    /\ run' = run + 1
    /\ UNCHANGED <<phase, mapVars, total, poolVars, sold, queueVars, stray, keys, outcomeVars>>

-----------------------------------------------------------------------------

ClaimBatch(c) ==
    /\ phase = "running"
    /\ client[c] = "idle"
    /\ IF CountMode THEN sold * Batch < total ELSE sold < MaxBatches
    /\ sold' = sold + 1
    /\ client' = [client EXCEPT ![c] = "claimed"]
    /\ UNCHANGED <<run, phase, mapVars, total, poolVars, buffer, stray, keys, sent, outcomeVars>>

(* The search loop of a pool at counter n: its next candidate, and where the *)
(* counter ends.  The limit itself is fetched too before the pool says None. *)
Candidates(n, skipped) == {id \in Ids \ skipped : id >= n}
AfterNext(n, skipped) ==  \* mutant: the id after the candidate is lost
    IF Candidates(n, skipped) = {} THEN NumVectors ELSE Min(Candidates(n, skipped)) + 2
After(n, skipped) ==
    IF Candidates(n, skipped) = {}
    THEN IF n >= NumVectors THEN NumVectors ELSE NumVectors + 1
    ELSE Min(Candidates(n, skipped)) + 1

(* fill_placeholders_for: one id for the whole pipeline, from the pool of    *)
(* the workload.  With no id left it returns early, and the request is sent  *)
(* with what the buffer held.                                                *)
Fill(c, ids) ==
    /\ phase = "running"
    /\ client[c] = "claimed"
    /\ buffer' = [buffer EXCEPT ![c] = IF ids = {} THEN @ ELSE KeyFor(Min(ids), c)]
    /\ client' = [client EXCEPT ![c] = "sent"]
    /\ sent' = IF ids = {} THEN sent ELSE sent \cup {KeyFor(Min(ids), c)}
    /\ UNCHANGED <<run, phase, mapVars, total, sold, stray, keys, outcomeVars>>

(* Mutants: the counter is not advanced; protected ids are not skipped. *)
FillLoadPeeks(c) ==
    /\ Workload = "load"
    /\ Fill(c, Candidates(unmapped, mapped))
    /\ UNCHANGED poolVars
FillDeleteUnprotected(c) ==
    /\ Workload = "delete"
    /\ Fill(c, Candidates(deleted, {}))
    /\ deleted' = After(deleted, {})
    /\ UNCHANGED <<unmapped, dataset>>

FillLoad(c) ==
    /\ Workload = "load"
    /\ Fill(c, Candidates(unmapped, mapped))
    /\ unmapped' = After(unmapped, mapped)
    /\ UNCHANGED <<deleted, dataset>>

FillDelete(c) ==
    /\ Workload = "delete"
    /\ Fill(c, Candidates(deleted, Protected))
    /\ deleted' = After(deleted, Protected)
    /\ UNCHANGED <<unmapped, dataset>>

FillUpdate(c) ==
    /\ Workload = "update"
    /\ Fill(c, {dataset % NumVectors})
    /\ dataset' = dataset + 1
    /\ UNCHANGED <<unmapped, deleted>>

(* A query chosen at random; its number is kept in query_indices. *)
FillQuery(c) ==
    /\ Workload = "query"
    /\ phase = "running"
    /\ client[c] = "claimed"
    /\ \E q \in Queries :
          buffer' = [buffer EXCEPT ![c] = [id |-> q, tag |-> "query", vector |-> opened.query[Batch][q].vector]]
    /\ client' = [client EXCEPT ![c] = "sent"]
    /\ UNCHANGED <<run, phase, mapVars, total, poolVars, sold, stray, keys, sent, outcomeVars>>

(* The server executes a pipeline of HSETs or DELs of one key. *)
Executed(op, key) ==
    LET others == {k \in keys : k.id # key.id \/ k.tag # key.tag}
    IN  CASE op = "delete" -> others [] op = "query" -> keys [] OTHER -> others \cup {key}

Answered(c) ==
    /\ phase = "running"
    /\ client[c] = "sent"
    /\ Workload # "query"
    /\ keys' = Executed(Workload, buffer[c])
    /\ client' = [client EXCEPT ![c] = "idle"]
    /\ UNCHANGED <<run, phase, mapVars, total, poolVars, sold, buffer, stray, sent, outcomeVars>>

(* A server that searches exactly: the ids of the keys that hold the vectors *)
(* nearest to the query's, if it was a query that the dataset has.           *)
Hits(query) ==
    LET nearest == Datasets[setup.dataset].nearest[query[2] + 1]
        idsWith(record) == {k.id : k \in {l \in keys : l.vector[1] = "record" /\ l.vector[2] = record}}
    IN  IF query[1] # "query" THEN <<>>
        ELSE FlattenSeq([i \in DOMAIN nearest |-> SetToSeq(idsWith(nearest[i]))])

(* compute_and_record_recall: extract_numeric_ids leaves the ids of the keys,*)
(* which are compared with the ids in the ground truth.                      *)
AnsweredQuery(c) ==
    /\ phase = "running"
    /\ client[c] = "sent"
    /\ Workload = "query"
    /\ LET truth == opened.neighbors[buffer[c].id]
           recall == RecallOf(Hits(buffer[c].vector), truth, Len(truth))
       IN  worst' = IF recall < worst THEN recall ELSE worst
    /\ client' = [client EXCEPT ![c] = "idle"]
    /\ UNCHANGED <<run, phase, mapVars, total, poolVars, sold, buffer, stray, keys, sent, errors>>

(* The connection breaks; the server may or may not have executed it. *)
Failed(c) ==
    /\ phase = "running"
    /\ client[c] = "sent"
    /\ keys' \in {keys, Executed(Workload, buffer[c])}
    /\ errors' = TRUE
    /\ client' = [client EXCEPT ![c] = "idle"]
    /\ UNCHANGED <<run, phase, mapVars, total, poolVars, sold, buffer, stray, sent, worst>>

(* The workers have left: in count mode when all is answered, in duration    *)
(* mode at any time, abandoning what is in flight.                           *)
EndRun ==
    /\ phase = "running"
    /\ \A c \in Clients : client[c] # "claimed"
    /\ CountMode => sold * Batch >= total /\ \A c \in Clients : client[c] = "idle"
    /\ stray' = stray \cup {[op |-> Workload, key |-> buffer[c]] :
                               c \in {d \in Clients : client[d] = "sent"}}
    /\ phase' = "between"
    /\ run' = run + 1
    /\ client' = [c \in Clients |-> "idle"]
    /\ UNCHANGED <<mapVars, total, poolVars, sold, buffer, keys, sent, outcomeVars>>

(* The server finds an abandoned request in a socket's buffer, or does not. *)
Straggler ==
    \E r \in stray :
        /\ stray' = stray \ {r}
        /\ keys' \in {keys, Executed(r.op, r.key)}
        /\ UNCHANGED <<run, phase, mapVars, total, poolVars, sold, queueVars, outcomeVars>>

Next ==
    /\ \/ BuildTagMap \/ StartRun \/ SkipRun \/ EndRun \/ Straggler
       \/ \E n \in Nodes : ScanNode(n)
       \/ \E c \in Clients :
             \/ ClaimBatch(c) \/ FillLoad(c) \/ FillDelete(c) \/ FillUpdate(c)
             \/ FillQuery(c) \/ Answered(c) \/ AnsweredQuery(c) \/ Failed(c)
    /\ UNCHANGED <<setup, opened>>

Spec == Init /\ [][Next]_vectorVars

-----------------------------------------------------------------------------

Items == Range(opened.vectors) \cup Range(opened.queries) \cup {Garbled, <<"none">>}
AllKeys == [id : Ids \cup Queries, tag : Nodes \cup {"query"}, vector : Items] \cup {TemplateKey}

TypeOK ==
    /\ setup \in Setups
    /\ run \in 1 .. Len(Workloads) + 1
    /\ phase \in {"scan", "between", "running"}
    /\ scanning \subseteq Nodes
    /\ mapped \subseteq Ids
    /\ total \in Nat /\ sold \in Nat
    /\ unmapped \in Nat /\ deleted \in Nat /\ dataset \in Nat
    /\ client \in [Clients -> {"idle", "claimed", "sent"}]
    /\ buffer \in [Clients -> AllKeys]
    /\ stray \subseteq [op : {"load", "delete", "update", "query"}, key : AllKeys]
    /\ keys \subseteq AllKeys
    /\ sent \subseteq AllKeys
    /\ errors \in BOOLEAN
    /\ worst \in 0 .. Unit

(* A run has just ended, and nothing of the process failed. *)
JustEnded(w) == phase = "between" /\ run > 1 /\ Workloads[run - 1] = w /\ ~errors

(* "Delete some vectors (ground truth neighbors are protected)": no step of  *)
(* any run removes a ground-truth vector, not even a request sent with a     *)
(* stale buffer, or one that the server executes during a later run.         *)
ProtectedSurvive ==
    [][\A k \in keys : k.id \in Protected /\ k # TemplateKey => k \in keys']_vectorVars

(* A vector is claimed by one batch of a vec-load, under one key, and is     *)
(* not one that the map knew to exist: no work is duplicated.  With all      *)
(* vectors claimed, a clock that still runs makes clients send the key they  *)
(* sent before, or the template's.                                           *)
EachVectorLoadedOnce ==
    phase = "running" /\ Workload = "load" =>
        /\ \A k, l \in sent : k.id = l.id => k = l
        /\ IdsOf(sent) \cap mapped = {}
        /\ \A c, d \in Clients :
              c # d /\ client[c] = "sent" /\ client[d] = "sent" /\ buffer[c] = buffer[d]
                => buffer[c] = TemplateKey

(* A vec-load leaves as many vectors on the server, besides those that the   *)
(* map knows of, as were asked for, when it is not pipelined; a pipeline of  *)
(* Batch commands loads one vector only.  What the map knows of is skipped,  *)
(* even if a vec-delete, of which the map is not told, has removed it.       *)
LoadCompletes ==
    CountMode /\ JustEnded("load") => Cardinality(IdsOf(keys) \ mapped) * Batch >= ToLoad

(* The first vec-delete of a process, asked for all deleteable vectors of a  *)
(* server, leaves the protected ones.  (In a cluster the key of an id has    *)
(* the tag of the client that got the id, whichever node it was loaded to.)  *)
Before(w) == \E r \in 1 .. run - 2 : Workloads[r] = w
DeleteCompletes ==
    CountMode /\ JustEnded("delete") /\ ~Before("delete") /\ ~Cluster
        /\ Requests >= NumVectors * Batch => IdsOf(keys) \subseteq Protected

(* "The schema provides ALL information needed to compute byte offsets at    *)
(* load time" (docs/dataset-binary-format.md): every field, key, query and   *)
(* neighbour of the window is read as what the writer put there, whatever    *)
(* sections, prefixes and queries of other fields come before it; and a file *)
(* that lacks a byte is refused.                                             *)
FieldContentSize(schema, record, f) ==
    IF schema.fields[f].type \in {"text", "tag", "blob"}
    THEN ContentSize(record, schema.fields[f].max[1]) ELSE FieldSize(schema.fields[f])
Unpadded(bytes) == SelectSeq(bytes, LAMBDA byte : byte.item[1] # "padding")
FieldsAsWritten(context, schema, i, record) ==
    /\ \A f \in DOMAIN schema.fields :
          ItemOf(Unpadded(GetField(context, i, f)), FieldContentSize(schema, record, f))
            = <<"record", record, f>>
    /\ schema.keys.present /\ schema.keys.pattern = <<>> =>
          ItemOf(GetKey(context, i), ContentSize(record, schema.keys.max[1])) = <<"key", record>>
QueriesAsWritten(context, schema, queries, nearest) ==
    \A q \in 0 .. QueryCount(schema) - 1 :
        /\ queries[q][1] = "query" /\ queries[q][2] = q
        /\ GetNeighbors(context, q) = SubSeq(nearest[q + 1], 1, Neighbors(schema))
ReadAsWritten(data, context, view) ==
    /\ Accepted(data.schema, context.file) /\ ~Accepted(data.schema, Front(context.file))
    /\ \A i \in DOMAIN view.vectors :
          /\ FieldsAsWritten(context, data.schema, i, i + context.offset)
          /\ view.vectors[i][1] = "record" /\ view.vectors[i][2] = i + data.offset
    /\ QueriesAsWritten(context, data.schema, view.queries, data.nearest)
AllRead ==
    ReadAsWritten(Datasets[setup.dataset], ContextOf(Datasets[setup.dataset]), opened)

(* The commands take four bytes per dimension for granted.                   *)
FourBytes(name) ==
    \A f \in DOMAIN Datasets[name].schema.fields :
        LET field == Datasets[name].schema.fields[f]
        IN  field.type = "vector" => ByteSize(OrElse(field.dtype, "float32")) = 4

(* "RESP encoding requires consistent blob sizes" (key_format.rs): a request *)
(* of every workload, in a pipeline of any length, whether its buffer is     *)
(* fresh or has been filled before, is so many commands to a server, with    *)
(* all their arguments, and the number in a key is the one that was written. *)
Refilled(template, bytes, number) ==
    FillHoles(template, bytes,
              [i \in DOMAIN template.holes |-> Content(template.holes[i], number, Tag)])
AsMeant(commands, args, batch, number, keyed) ==
    /\ Len(commands) = batch
    /\ \A i \in DOMAIN commands :
          Len(commands[i]) = Len(args) /\ (keyed => ParsedId(4, commands[i][2]) = number)
SimpleParsed(args, template, batch, keyed) ==
    AsMeant(Received(Refilled(template, Refilled(template, template.bytes, 305), 12)),
            args, batch, 12, keyed)
ArgsParsed(args, batch, keyed) == SimpleParsed(args, Build(args, batch), batch, keyed)
VectorsParsed(batch) ==
    /\ \A id \in DOMAIN opened.load[batch] :
          /\ opened.load[batch][id].id = id /\ opened.delete[batch][id].id = id
          /\ FourBytes(setup.dataset) => opened.load[batch][id].vector = opened.vectors[id]
    /\ \A q \in DOMAIN opened.query[batch] :
          /\ opened.query[batch][q].id = q
          /\ FourBytes(setup.dataset) => opened.query[batch][q].vector = opened.queries[q]
AllParsed ==
    \A batch \in Batches :
        /\ \A workload \in Simple, cluster \in BOOLEAN :
              ArgsParsed(SimpleTemplate(workload, 4, 11, cluster), batch, workload # "PING")
        /\ VectorsParsed(batch)

(* What is read is what was written, at both ends.                           *)
BytesAsMeant == phase = "scan" => AllRead /\ AllParsed

(* A key holds the vector of its record, as many records after the first as  *)
(* the command line said, whoever wrote it and after whatever failed; if the *)
(* vectors have four bytes per dimension.                                    *)
StoredIsItsVector ==
    FourBytes(setup.dataset) =>
        \A k \in keys \ {TemplateKey} :
            k.vector[1] = "record" /\ k.vector[2] = k.id + Datasets[setup.dataset].offset

(* "These IDs will be skipped during vec-delete to ensure valid recall       *)
(* computation": when all of a dataset has been loaded, which a pipeline     *)
(* longer than one command never does, an exact server scores a recall of    *)
(* 1.0 in every query of every later run, whatever was deleted in between,   *)
(* if the vectors have four bytes per dimension.                             *)
LoadsAll == opened.count = Datasets[setup.dataset].schema.records
RecallSurvivesDeletes ==
    LoadsAll /\ CountMode /\ ~errors /\ FourBytes(setup.dataset)
        /\ Workloads[1] = "load" /\ Requests >= NumVectors /\ Batch = 1 => worst = Unit

=============================================================================
