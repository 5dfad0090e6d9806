---------------------------- MODULE DatasetFile ----------------------------
(***************************************************************************)
(* A dataset (src/dataset): a YAML schema, from which the places of all    *)
(* items in a binary file are computed, and the file, which has no header. *)
(* schema.rs says how long a field is, layout.rs where the fields of a     *)
(* record and the sections of the file begin, and context.rs reads.  The   *)
(* second half is the other side, whoever writes such a file, which puts   *)
(* item after item.  A file is a sequence of bytes that know which item    *)
(* they belong to, so that what is read can be told from what was meant.   *)
(*                                                                         *)
(* A schema is a record                                                    *)
(*   [version, fields : Seq(field), records,                               *)
(*    keys : [present, pattern, length, max],                              *)
(*    queries : [present, count, fields], truth : [present, k, idType]]    *)
(* and what the YAML may leave out is <<>> or <<value>>.                   *)
(***************************************************************************)
EXTENDS Integers, FiniteSets, SequencesExt

SchemaVersion == 1

OrElse(option, default) == IF option = <<>> THEN default ELSE option[1]
Sum(numbers) == FoldLeft(LAMBDA sum, n : sum + n, 0, numbers)

-----------------------------------------------------------------------------
(* schema.rs *)

ByteSize(dtype) ==
    CASE dtype \in {"float32", "int32", "u32"} -> 4
      [] dtype = "float16" -> 2
      [] dtype \in {"float64", "int64", "u64"} -> 8
      [] dtype \in {"uint8", "int8"} -> 1

(* A text, a tag or a blob of variable length has a prefix that says how     *)
(* much of the space it takes.                                               *)
TextSizeBare(length, max) == OrElse(max, 64)  \* mutant
TextSize(length, max) == OrElse(max, 64) + IF length = <<"variable">> THEN 4 ELSE 0

FieldSize(field) ==
    CASE field.type = "vector" -> OrElse(field.dimensions, 1) * ByteSize(OrElse(field.dtype, "float32"))
      [] field.type \in {"text", "tag", "blob"} -> TextSize(field.length, field.max)
      [] field.type = "numeric" -> ByteSize(OrElse(field.dtype, "float64"))

QueryCount(schema) == IF schema.queries.present THEN OrElse(schema.queries.count, 0) ELSE 0
Neighbors(schema) == OrElse(schema.truth.k, 100)
IdSize(schema) == IF schema.truth.idType = <<"u32">> THEN 4 ELSE 8

-----------------------------------------------------------------------------
(* layout.rs *)

(* RecordLayout::from_fields. *)
RecordLayout(schema) ==
    LET sizes == [i \in DOMAIN schema.fields |-> FieldSize(schema.fields[i])]
        isVariable(field) == field.length = <<"variable">>
    IN  [fields |-> [i \in DOMAIN sizes |->
                       [offset |-> Sum(SubSeq(sizes, 1, i - 1)), size |-> sizes[i],
                        variable |-> isVariable(schema.fields[i]),
                        data |-> IF isVariable(schema.fields[i]) THEN 4 ELSE 0]],
         size |-> Sum(sizes),
         vector |-> SelectInSeq(schema.fields, LAMBDA field : field.type = "vector")]

(* RecordLayout::field_index: of two fields of a name, the later.            *)
FieldIndex(schema, name) == SelectLastInSeq(schema.fields, LAMBDA field : field.name = name)

(* A query has all fields, or those that are named; a name that no field has *)
(* is passed over.                                                           *)
QueryFields(schema) ==
    IF schema.queries.fields = <<>> THEN [i \in DOMAIN schema.fields |-> i]
    ELSE SelectSeq([i \in DOMAIN schema.queries.fields[1] |->
                      FieldIndex(schema, schema.queries.fields[1][i])], LAMBDA i : i # 0)

(* SectionLayout::compute: records, keys, queries, ground truth.             *)
SectionsAfter(keySize, schema, layout) ==
    LET recordsEnd == schema.records * layout.size
        keysEnd == recordsEnd + schema.records * keySize
        asked == QueryFields(schema)
        querySize == Sum([i \in DOMAIN asked |-> layout.fields[asked[i]].size])
        queriesEnd == keysEnd + QueryCount(schema) * querySize
        hasTruth == schema.truth.present /\ QueryCount(schema) > 0
    IN  [keys |-> recordsEnd, keySize |-> keySize,
         queries |-> keysEnd, querySize |-> querySize, asked |-> asked,
         truth |-> queriesEnd, hasTruth |-> hasTruth,
         size |-> queriesEnd
                    + IF hasTruth THEN QueryCount(schema) * Neighbors(schema) * IdSize(schema) ELSE 0]

SectionLayout(schema, layout) ==
    SectionsAfter(IF schema.keys.present THEN TextSize(schema.keys.length, schema.keys.max) ELSE 0,
                  schema, layout)

-----------------------------------------------------------------------------
(* context.rs.  What is opened is remembered with its layouts and with the   *)
(* limits of the command line.  (A schema of a collection is refused too.)   *)

Accepted(schema, file) ==
    /\ schema.version <= SchemaVersion
    /\ Len(file) >= SectionLayout(schema, RecordLayout(schema)).size

Open(schema, file) ==
    LET layout == RecordLayout(schema)
    IN  [schema |-> schema, file |-> file, layout |-> layout,
         section |-> SectionLayout(schema, layout), count |-> <<>>, offset |-> 0]

(* set_effective_limits. *)
Limited(context, count, offset) ==
    LET from == IF offset < context.schema.records THEN offset ELSE context.schema.records
        remaining == context.schema.records - from
    IN  [context EXCEPT !.offset = from,
                        !.count = IF count > 0 /\ count < remaining THEN <<count>> ELSE <<>>]

EffectiveCount(context) == OrElse(context.count, context.schema.records - context.offset)

Bytes(context, offset, size) == SubSeq(context.file, offset + 1, offset + size)

(* u32::from_le_bytes and the reinterpretation of 8 bytes as a u64.          *)
LittleEndian(bytes) == FoldRight(LAMBDA byte, n : byte.value + 256 * n, bytes, 0)

Prefixed(context, offset) ==
    Bytes(context, offset + 4, LittleEndian(Bytes(context, offset, 4)))

RecordAtNoOffset(context, i) == i * context.layout.size  \* mutant
RecordAt(context, i) == (i + context.offset) * context.layout.size

GetField(context, i, f) ==
    LET field == context.layout.fields[f]
        offset == RecordAt(context, i) + field.offset
    IN  IF field.variable THEN Prefixed(context, offset) ELSE Bytes(context, offset, field.size)

GetVector(context, i) ==
    LET field == context.layout.fields[context.layout.vector]
    IN  Bytes(context, RecordAt(context, i) + field.offset, field.size)

(* The vector within a query, wherever query_fields puts it; a query without *)
(* one is taken whole.                                                       *)
GetQuery(context, q) ==
    LET section == context.section
        offset == section.queries + q * section.querySize
        at == SelectInSeq(section.asked, LAMBDA f : f = context.layout.vector)
        before == [i \in 1 .. at - 1 |-> context.layout.fields[section.asked[i]].size]
    IN  IF at = 0 THEN Bytes(context, offset, section.querySize)
        ELSE Bytes(context, offset + Sum(before), context.layout.fields[context.layout.vector].size)

(* A pattern comes before the keys of the file, and its ids are not shifted. *)
GetKey(context, i) ==
    LET section == context.section
        offset == section.keys + (i + context.offset) * section.keySize
        bytes == Bytes(context, offset, section.keySize)
        end == SelectInSeq(bytes, LAMBDA byte : byte.value = 0)
    IN  IF context.schema.keys.pattern # <<>> \/ ~context.schema.keys.present
        THEN <<[item |-> <<"generated", i>>, byte |-> 0, value |-> i]>>
        ELSE IF context.schema.keys.length = <<"variable">> THEN Prefixed(context, offset)
        ELSE IF end = 0 THEN bytes ELSE SubSeq(bytes, 1, end - 1)

(* The ids of the records as they are numbered in the file: the offset of    *)
(* the command line is not taken off.                                        *)
GetNeighbors(context, q) ==
    LET size == IdSize(context.schema)
        k == Neighbors(context.schema)
        start == context.section.truth + q * k * size
    IN  [i \in 1 .. k |-> LittleEndian(Bytes(context, start + (i - 1) * size, size))]

GroundTruthIds(context) ==
    IF ~context.section.hasTruth THEN {}
    ELSE UNION {Range(GetNeighbors(context, q)) : q \in 0 .. QueryCount(context.schema) - 1}

Unit == 12  \* a recall of 1.0, in parts that the ranks in question divide

(* compute_recall_with_gt: of the first k hits, those among the first k      *)
(* neighbours, where k shrinks to the shorter of the two.                    *)
RecallOf(hits, truth, most) ==
    LET k == Min({most, Len(truth), Len(hits)})
        matches == {i \in 1 .. k : \E j \in 1 .. k : hits[i] = truth[j]}
    IN  IF k = 0 THEN 0 ELSE (Unit * Cardinality(matches)) \div k

-----------------------------------------------------------------------------
(* The reference: a file as docs/dataset-binary-format.md describes it, item *)
(* after item, by a writer that knows the sizes of what it writes and no     *)
(* offsets.                                                                  *)

Byte(item, i, value) == [item |-> item, byte |-> i, value |-> value]

(* A number, little-endian, in so many bytes. *)
Number(item, n, size) ==
    LET rest[i \in 1 .. size] == IF i = 1 THEN n ELSE rest[i - 1] \div 256
    IN  [i \in 1 .. size |-> Byte(item, i - 1, rest[i] % 256)]

(* Content of some length, padded with zeros, after a prefix if it has one.  *)
Text(item, used, max, variable) ==
    LET padding == <<"padding", item>>
    IN  (IF variable THEN Number(padding, used, 4) ELSE <<>>)
        \o [i \in 1 .. max |-> IF i <= used THEN Byte(item, i - 1, 120) ELSE Byte(padding, i, 0)]

ContentSize(i, max) == 1 + (i % max)  \* of the text in record i

WrittenField(section, i, f, field) ==
    LET item == <<section, i, f>>
    IN  IF field.type \in {"text", "tag", "blob"}
        THEN Text(item, ContentSize(i, field.max[1]), field.max[1], field.length = <<"variable">>)
        ELSE [b \in 1 .. FieldSize(field) |-> Byte(item, b - 1, 63)]

Concat(n, part(_)) == FlattenSeq([i \in 1 .. n |-> part(i - 1)])

(* "truth" tells the neighbours of a query, nearest first.                   *)
Written(schema, truth) ==
    LET fields(section, i, which) ==
            FlattenSeq([j \in DOMAIN which |->
                          WrittenField(section, i, which[j], schema.fields[which[j]])])
        all == [f \in DOMAIN schema.fields |-> f]
        keyMax == schema.keys.max[1]
        k == schema.truth.k[1]
        idSize == IF schema.truth.idType = <<"u32">> THEN 4 ELSE 8
        queries == IF schema.queries.present THEN schema.queries.count[1] ELSE 0
    IN  Concat(schema.records, LAMBDA i : fields("record", i, all))
        \o (IF schema.keys.present
            THEN Concat(schema.records, LAMBDA i :
                   Text(<<"key", i>>, ContentSize(i, keyMax), keyMax, schema.keys.length = <<"variable">>))
            ELSE <<>>)
        \o Concat(queries, LAMBDA q :
             fields("query", q, IF schema.queries.fields = <<>> THEN all ELSE
                                [j \in DOMAIN schema.queries.fields[1] |->
                                   FieldIndex(schema, schema.queries.fields[1][j])]))
        \o (IF schema.truth.present
            THEN Concat(queries, LAMBDA q :
                   Concat(k, LAMBDA j : Number(<<"truth", q, j>>, truth[q + 1][j + 1], idSize)))
            ELSE <<>>)

(* Which item some bytes are, when they are all of it and nothing else.      *)
Garbled == <<"garbled">>
ItemOf(bytes, size) ==
    IF Len(bytes) = size /\ \A i \in DOMAIN bytes :
          bytes[i].item = bytes[1].item /\ bytes[i].byte = i - 1
    THEN bytes[1].item ELSE Garbled

=============================================================================
