-------------------------- MODULE ClusterSnapshots --------------------------
(***************************************************************************)
(* The statistics of a test: the INFO of every node before and after it,   *)
(* the difference of the two, and the matrix of nodes and fields that is   *)
(* printed.  capture_snapshot of src/benchmark/orchestrator.rs, and        *)
(* src/metrics/snapshot.rs for the rest.                                   *)
(*                                                                         *)
(* Servers count the commands they execute, and start to count anew when   *)
(* they are restarted; a failover may make a primary of a replica.  The    *)
(* process keeps the topology it discovered when it started.               *)
(***************************************************************************)
EXTENDS InfoFields, Topology, FiniteSetsExt

CONSTANTS
    Setups,         \* the deployments to look at
    MaxExecuted,    \* bound on the commands a node executes in the test
    MaxDisconnects  \* bound on how often a server becomes unreachable

Commands == {"GET", "FT.SEARCH"}

(* A setup: lines, the reply to CLUSTER NODES, or <<>> for standalone        *)
(* servers; addresses, those of the command line; readFrom; fields, of INFO  *)
(* or of INFO SEARCH; ran, the commands each node has executed before.  A    *)
(* reply names a node once.                                                  *)
ASSUME SnapshotsAssumption ==
    /\ MaxExecuted \in Nat /\ MaxDisconnects \in Nat
    /\ \A s \in Setups :
          /\ s.lines \in Seq(Lines) /\ s.addresses \in Seq(Nodes)
          /\ LET nodes == ParseLines(s.lines)
             IN  \A i, j \in DOMAIN nodes : nodes[i].address = nodes[j].address => i = j
          /\ s.readFrom \in {"primary", "preferReplica", "all"}
          /\ s.fields \in {DefaultInfoFields, DefaultSearchInfoFields}
          /\ s.ran \in [Nodes -> [Commands -> Nat]]

VARIABLES
    setup,
    stage,      \* before, running, after or compared
    at,         \* the index of the address that is asked next
    before,     \* what the snapshots keep of each node's INFO, by the index of its address
    after,
    reachable,
    disconnects,
    primaries,  \* the primaries of the cluster as it is now
    ran,        \* the commands each server has executed since it started
    sent,       \* of these, the ones of this test
    restarted   \* the servers restarted since the first snapshot began

captureVars == <<setup, stage, at, before, after>>
countVars == <<ran, sent, restarted>>
snapshotVars == <<captureVars, reachable, disconnects, primaries, countVars>>

(* The topology that the process keeps. *)
Discovered == [s \in Setups |-> FromClusterNodes(s.lines)]
known == Discovered[setup]
Clustered == setup.lines # <<>>

SnapshotInit ==
    /\ setup \in Setups
    /\ stage = "before" /\ at = 1 /\ before = <<>> /\ after = <<>>
    /\ reachable = Nodes /\ disconnects = 0
    /\ primaries = ToSet(Primaries(known))
    /\ ran = setup.ran
    /\ sent = [n \in Nodes |-> [c \in Commands |-> 0]]
    /\ restarted = {}

-----------------------------------------------------------------------------
(* The servers.  A command that was never executed has no line.             *)

Total(counts) == counts["GET"] + counts["FT.SEARCH"]

Gauges == {<<"used_memory">>, <<"keyspace_hits">>, <<"search_", "requests">>,
           <<"search_", "used_memory">>, <<"search_", "queue">>, <<"search_", "latency">>}
Statistics(counts) == {<<"cmdstat_", c>> : c \in {x \in Commands : counts[x] > 0}}

Info(counts) ==
    [line \in Gauges \cup Statistics(counts) |->
        CASE line = <<"used_memory">> -> Whole(1 + Total(counts))
          [] line = <<"keyspace_hits">> -> Whole(counts["GET"])
          [] line = <<"search_", "requests">> -> Whole(counts["FT.SEARCH"])
          [] line = <<"search_", "used_memory">> -> Size(1 + counts["FT.SEARCH"])
          [] line = <<"search_", "queue">> -> Whole(Total(counts))
          [] line = <<"search_", "latency">> -> Pairs([p50 |-> 1, p99 |-> 1 + counts["FT.SEARCH"]])
          [] OTHER -> Pairs([calls |-> counts[line[2]], usec |-> 2 * counts[line[2]],
                             usec_per_call |-> 2, rejected_calls |-> 0, failed_calls |-> 0])]

Execute(n, c) ==
    /\ stage = "running" /\ n \in reachable /\ Total(sent[n]) < MaxExecuted
    /\ ran' = [ran EXCEPT ![n][c] = @ + 1]
    /\ sent' = [sent EXCEPT ![n][c] = @ + 1]
    /\ UNCHANGED <<captureVars, reachable, disconnects, primaries, restarted>>

Disconnect(n) ==
    /\ n \in reachable /\ disconnects < MaxDisconnects
    /\ reachable' = reachable \ {n} /\ disconnects' = disconnects + 1
    /\ UNCHANGED <<captureVars, primaries, countVars>>

Reconnect(n) ==
    /\ n \notin reachable
    /\ reachable' = reachable \cup {n}
    /\ UNCHANGED <<captureVars, disconnects, primaries, countVars>>

Restart(n) ==
    /\ n \notin reachable
    /\ reachable' = reachable \cup {n}
    /\ ran' = [ran EXCEPT ![n] = [c \in Commands |-> 0]]
    /\ restarted' = restarted \cup {n}
    /\ UNCHANGED <<captureVars, disconnects, primaries, sent>>

Failover(p, r) ==
    /\ p \in primaries \ reachable /\ r \in reachable \ primaries
    /\ \E i \in DOMAIN known.nodes : known.nodes[i].address = r /\ known.nodes[i].primary = p
    /\ primaries' = (primaries \ {p}) \cup {r}
    /\ UNCHANGED <<captureVars, reachable, disconnects, countVars>>

-----------------------------------------------------------------------------
(* capture_snapshot.  A node that cannot be asked is left out.              *)

BenchmarkAddresses ==
    [s \in Setups |-> IF s.lines # <<>> THEN SelectNodes(Discovered[s], s.readFrom) ELSE s.addresses]
Addresses == BenchmarkAddresses[setup]

IsPrimaryNow(n) == ~Clustered \/ n \in primaries       \* mutant
IsPrimary(n) == ~Clustered \/ n \in ToSet(Primaries(known))

(* SnapshotBuilder::add_node.                                               *)
NodeValues(fields, info, isPrimary) ==
    LET hits == {hit \in (DOMAIN fields) \X (DOMAIN info) :
                    /\ Matches(fields[hit[1]], hit[2]) /\ Includes(fields[hit[1]], isPrimary)
                    /\ CanParse(fields[hit[1]], info[hit[2]])}
        last(key) == Max({h[1] : h \in {x \in hits : FieldKey(fields[x[1]], x[2]) = key}})
    IN  [key \in {FieldKey(fields[h[1]], h[2]) : h \in hits} |->
            ParseValue(fields[last(key)], info[key[1]])]

Captured(data, n) ==
    IF n \in reachable
    THEN [i \in DOMAIN data \cup {at} |->
             IF i = at THEN NodeValues(setup.fields, Info(ran[n]), IsPrimary(n)) ELSE data[i]]
    ELSE data

CaptureNode ==
    /\ at <= Len(Addresses)
    /\ \/ stage = "before" /\ before' = Captured(before, Addresses[at]) /\ UNCHANGED after
       \/ stage = "after" /\ after' = Captured(after, Addresses[at]) /\ UNCHANGED before
    /\ at' = at + 1
    /\ UNCHANGED <<setup, stage, reachable, disconnects, primaries, countVars>>

(* The workers are started after the first snapshot and joined before the   *)
(* second one.                                                              *)
StartWorkers ==
    /\ stage = "before" /\ at > Len(Addresses)
    /\ stage' = "running" /\ at' = 1
    /\ UNCHANGED <<setup, before, after, reachable, disconnects, primaries, countVars>>

JoinWorkers ==
    /\ stage = "running"
    /\ stage' = "after"
    /\ UNCHANGED <<setup, at, before, after, reachable, disconnects, primaries, countVars>>

Compare ==
    /\ stage = "after" /\ at > Len(Addresses)
    /\ stage' = "compared"
    /\ UNCHANGED <<setup, at, before, after, reachable, disconnects, primaries, countVars>>

-----------------------------------------------------------------------------
(* SnapshotBuilder::build.  A snapshot maps the keys to the value of the     *)
(* cluster and to those of the nodes.                                       *)

KeysOf(data) == UNION {DOMAIN data[i] : i \in DOMAIN data}
Holding(data, key) == {i \in DOMAIN data : key \in DOMAIN data[i]}
Reading(data, key, i) == IF i \in Holding(data, key) THEN data[i][key] ELSE 0
SumOf(data, key) == SumUp([i \in DOMAIN Addresses |-> Reading(data, key, i)])
GreatestOf(data, key) == Max({data[i][key] : i \in Holding(data, key)})

Aggregate(how, data, key) ==
    CASE how = "sum" -> SumOf(data, key)
      [] how = "average" -> SumOf(data, key) \div Cardinality(Holding(data, key))
      [] how \in {"max", "minmax"} -> GreatestOf(data, key)

Asking(fields, key) == {i \in DOMAIN fields : Asks(fields[i], key)}

BuildSnapshot(fields, data) ==
    [key \in {k \in KeysOf(data) : Asking(fields, k) # {}} |->
        LET field == fields[Max(Asking(fields, key))]
        IN  [value |-> Aggregate(field.aggregation, data, key), tracked |-> field.perNode,
             perNode |-> [i \in Holding(data, key) |-> data[i][key]]]]

(* get_value. *)
ValueOf(snapshot, key) == IF key \in DOMAIN snapshot THEN snapshot[key].value ELSE 0

(* compare_snapshots: one row for every field that asks for a key of either   *)
(* snapshot.  A value that is missing counts as 0; without a new value there  *)
(* are no cells.                                                              *)
OldCell(old, key, n) ==
    LET places == IF key \in DOMAIN old /\ old[key].tracked
                  THEN {i \in DOMAIN old[key].perNode : Addresses[i] = n} ELSE {}
    IN  IF places = {} THEN 0 ELSE old[key].perNode[Max(places)]

Cells(field, old, new, key) ==
    IF field.perNode /\ key \in DOMAIN new /\ new[key].tracked
    THEN [i \in DOMAIN new[key].perNode |-> new[key].perNode[i] - OldCell(old, key, Addresses[i])]
    ELSE <<>>

RowFor(fields, i, old, new, key) ==
    [field |-> i, key |-> key, delta |-> ValueOf(new, key) - ValueOf(old, key),
     cells |-> Cells(fields[i], old, new, key)]

CompareCommon(fields, old, new) ==      \* mutant
    {RowFor(fields, x[1], old, new, x[2]) :
        x \in {y \in (DOMAIN fields) \X (DOMAIN old \cap DOMAIN new) : Asks(fields[y[1]], y[2])}}
CompareSnapshots(fields, old, new) ==
    {RowFor(fields, x[1], old, new, x[2]) :
        x \in {y \in (DOMAIN fields) \X (DOMAIN old \cup DOMAIN new) : Asks(fields[y[1]], y[2])}}

(* print_per_node_matrix: the rows with a cell that is not 0, a column for    *)
(* each node of any of these rows, the total of each row.                     *)
Rows(diff) == {row \in diff : \E i \in DOMAIN row.cells : row.cells[i] # 0}
ColumnsOf(diff) == {Addresses[i] : i \in UNION {DOMAIN row.cells : row \in Rows(diff)}}
TotalOf(row) == SumUp([i \in DOMAIN Addresses |-> IF i \in DOMAIN row.cells THEN row.cells[i] ELSE 0])
Title(n) == DisplayName(known, n)

Old == BuildSnapshot(setup.fields, before)
New == BuildSnapshot(setup.fields, after)
Diff == CompareSnapshots(setup.fields, Old, New)

-----------------------------------------------------------------------------

Server(n) ==
    \/ \E c \in Commands : Execute(n, c)
    \/ Disconnect(n) \/ Reconnect(n) \/ Restart(n)
    \/ \E r \in Nodes : Failover(n, r)

MainThread == CaptureNode \/ StartWorkers \/ JoinWorkers \/ Compare

SnapshotNext == MainThread \/ \E n \in Nodes : Server(n)

SnapshotSpec == SnapshotInit /\ [][SnapshotNext]_snapshotVars

-----------------------------------------------------------------------------

SnapshotTypeOK ==
    /\ setup \in Setups
    /\ stage \in {"before", "running", "after", "compared"}
    /\ at \in 1 .. Len(Addresses) + 1
    /\ DOMAIN before \subseteq DOMAIN Addresses /\ DOMAIN after \subseteq DOMAIN Addresses
    /\ reachable \subseteq Nodes /\ primaries \subseteq Nodes /\ restarted \subseteq Nodes
    /\ disconnects \in 0 .. MaxDisconnects
    /\ ran \in [Nodes -> [Commands -> Nat]] /\ sent \in [Nodes -> [Commands -> Nat]]

(* A cell of the matrix is the traffic of this test: for a node that answered *)
(* both times and was not restarted, as many calls of a command as it executed*)
(* for the test, a command it never executed before included.  (A node that   *)
(* is missing in the first snapshot shows everything it ever executed.)       *)
Calls(c) == <<(<<"cmdstat_", c>>), "calls">>

CellsAreTraffic ==
    stage = "compared" =>
        LET rows == Rows(Diff)
        IN  \A i \in DOMAIN before \cap DOMAIN after, c \in Commands, f \in DOMAIN setup.fields :
                Addresses[i] \notin restarted =>
                    /\ \A row \in rows : row.key = Calls(c) /\ i \in DOMAIN row.cells =>
                            row.cells[i] = sent[Addresses[i]][c]
                    /\ Asks(setup.fields[f], Calls(c)) /\ sent[Addresses[i]][c] > 0 =>
                            \E row \in rows : row.field = f /\ row.key = Calls(c) /\ i \in DOMAIN row.cells

(* What a row says of the cluster differs from the difference of the two sums *)
(* by what the nodes lost since the first snapshot had counted, if no node is *)
(* asked twice.                                                               *)
AskedOnce == \A i, j \in DOMAIN Addresses : Addresses[i] = Addresses[j] => i = j
Lost(row) == Holding(before, row.key) \ DOMAIN row.cells
MatrixAddsUp ==
    stage = "compared" /\ AskedOnce =>
        \A row \in Rows(Diff) :
            setup.fields[row.field].aggregation = "sum" =>
                TotalOf(row) - row.delta =
                    SumUp([i \in DOMAIN Addresses |-> IF i \in Lost(row) THEN before[i][row.key] ELSE 0])

(* The matrix is what the test did to the servers, cell by cell and in total. *)
MatrixIsTraffic == CellsAreTraffic /\ MatrixAddsUp

(* Gauges of the primaries are comparable: whatever fails over in between,    *)
(* a node whose memory is in one snapshot is in the other one, too, unless it *)
(* did not answer.                                                            *)
PrimariesStay ==
    stage = "compared" =>
        \A data, other \in {before, after} :
            \A i \in DOMAIN data, j \in DOMAIN other, f \in ToSet(setup.fields),
               key \in KeysOf(before) \cup KeysOf(after) :
                Addresses[i] = Addresses[j] /\ f.nodes = "primary" /\ Asks(f, key) =>
                    (key \in DOMAIN data[i] <=> key \in DOMAIN other[j])

(* No two columns have the same title, and the title of a replica names the   *)
(* shard of its primary.                                                      *)
TitlesTellNodes ==
    stage = "compared" /\ Clustered =>
        LET columns == ColumnsOf(Diff)
        IN  /\ \A n, o \in columns : Title(n) = Title(o) => n = o
            /\ \A i \in DOMAIN known.nodes, p \in PrimariesOf(known.nodes) :
                  AddressOf(known, i) \in columns /\ known.nodes[i].primary = AddressOf(known, p) =>
                      Head(Title(AddressOf(known, i))) = Head(Title(AddressOf(known, p)))

=============================================================================
