----------------------------- MODULE InfoFields -----------------------------
(***************************************************************************)
(* Which INFO fields are followed and how a line of INFO becomes a number: *)
(* src/metrics/info_fields.rs, with parse_memory_value of                  *)
(* src/utils/parsing.rs.                                                   *)
(*                                                                         *)
(* The name of a line is a sequence of words, so that a prefix of a name   *)
(* is a prefix of the sequence; letter case is left out.  The text behind  *)
(* it is a whole number, a decimal (in thousandths), a size with a unit    *)
(* (in bytes), or a list of key=value pairs.                               *)
(***************************************************************************)
EXTENDS Integers, Sequences, SequencesExt

Whole(n) == [form |-> "whole", number |-> n]
Decimal(milli) == [form |-> "decimal", number |-> milli]
Size(bytes) == [form |-> "size", number |-> bytes]
Pairs(values) == [form |-> "pairs", pairs |-> values]

NoKey == "none"

(* InfoFieldType::new and its builder methods.                              *)
NewField(name) ==
    [name |-> name, prefix |-> FALSE, strategy |-> "integer", key |-> NoKey,
     aggregation |-> "sum", perNode |-> TRUE, nodes |-> "all"]

PrimaryOnly(f) == [f EXCEPT !.nodes = "primary"]
NoPerNode(f) == [f EXCEPT !.perNode = FALSE]
Aggregated(f, how) == [f EXCEPT !.aggregation = how]
Parsed(f, strategy, key) == [f EXCEPT !.strategy = strategy, !.key = key]

(* presets.                                                                 *)
Counter(name) == NewField(name)
CounterPrimary(name) == PrimaryOnly(Counter(name))
MemoryField(name) == PrimaryOnly(NewField(name))
MaxValue(name) == PrimaryOnly(Aggregated(NewField(name), "max"))
ConfigField(name) == NoPerNode(PrimaryOnly(Aggregated(NewField(name), "minmax")))
GaugeAll(name) == NewField(name)
Gauge(name) == PrimaryOnly(GaugeAll(name))
AverageField(name) == Aggregated(NewField(name), "average")
AveragePrimary(name) == PrimaryOnly(AverageField(name))
Percentage(name) == Parsed(AverageField(name), "float", NoKey)
PercentagePrimary(name) == PrimaryOnly(Percentage(name))
FloatRate(name) == Parsed(NewField(name), "float", NoKey)
FloatRatePrimary(name) == PrimaryOnly(FloatRate(name))
LatencyPercentile(name, p) == Parsed(Aggregated(NewField(name), "max"), "percentile", p)
Status(name) == NoPerNode(PrimaryOnly(NewField(name)))

Cmdstat(name, stat) ==
    [Parsed(NewField(name), "cmdstats", stat) EXCEPT
        !.prefix = TRUE,
        !.aggregation = IF stat = "usec_per_call" THEN "average" ELSE "sum"]

(* default_info_fields.                                                     *)
DefaultInfoFields ==
    <<PrimaryOnly(Parsed(NewField(<<"used_memory">>), "memory", NoKey)),
      Counter(<<"keyspace_hits">>), Counter(<<"keyspace_misses">>),
      Cmdstat(<<"cmdstat_", "FT.SEARCH">>, "calls"), Cmdstat(<<"cmdstat_", "FT.SEARCH">>, "usec"),
      Cmdstat(<<"cmdstat_", "FT.SEARCH">>, "usec_per_call"),
      Cmdstat(<<"cmdstat_", "FT.SEARCH">>, "rejected"), Cmdstat(<<"cmdstat_", "FT.SEARCH">>, "failed"),
      Cmdstat(<<"cmdstat_">>, "calls"), Cmdstat(<<"cmdstat_">>, "usec")>>

(* default_search_info_fields: one field for each way in which they differ. *)
DefaultSearchInfoFields ==
    <<Counter(<<"search_", "requests">>), CounterPrimary(<<"search_", "indexed_keys">>),
      MemoryField(<<"search_", "used_memory">>), MaxValue(<<"search_", "lag">>),
      FloatRate(<<"search_", "read_cpu">>), FloatRatePrimary(<<"search_", "write_cpu">>),
      Percentage(<<"search_", "used_read_cpu">>), PercentagePrimary(<<"search_", "used_write_cpu">>),
      AverageField(<<"search_", "queue">>), AveragePrimary(<<"search_", "writer_queue">>),
      LatencyPercentile(<<"search_", "latency">>, "p50"),
      LatencyPercentile(<<"search_", "latency">>, "p99"),
      Gauge(<<"search_", "indexes">>), GaugeAll(<<"search_", "queries">>),
      Status(<<"search_", "status">>),
      Aggregated(NewField(<<"search_", "write_threads">>), "minmax")>>

-----------------------------------------------------------------------------

(* InfoFieldType::matches, and the filter of SnapshotBuilder::add_node.     *)
Matches(f, line) == IF f.prefix THEN IsPrefix(f.name, line) ELSE f.name = line
Includes(f, isPrimary) == f.nodes = "primary" => isPrimary

(* parse_value.  A size is read as a number only by the memory strategy; of  *)
(* pairs the one with the field's key counts.                                *)
CanParse(f, raw) ==
    CASE f.strategy = "integer" -> raw.form = "whole"
      [] f.strategy = "memory" -> raw.form \in {"whole", "decimal", "size"}
      [] f.strategy = "float" -> raw.form \in {"whole", "decimal"}
      [] OTHER -> raw.form = "pairs" /\ f.key \in DOMAIN raw.pairs
ParseValue(f, raw) ==
    CASE f.strategy \in {"percentile", "cmdstats"} -> raw.pairs[f.key]
      [] f.strategy = "float" /\ raw.form = "whole" -> raw.number * 1000
      [] f.strategy = "memory" /\ raw.form = "decimal" -> raw.number \div 1000
      [] OTHER -> raw.number

(* The key under which a value is kept: the line's own name and the key of  *)
(* the pair; a field asks for the keys that begin and end as it does.       *)
FieldKey(f, line) == <<line, f.key>>
Asks(f, key) == Matches(f, key[1]) /\ f.key = key[2]

=============================================================================
