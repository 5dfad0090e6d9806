-------------------------- MODULE CommandTemplates --------------------------
(***************************************************************************)
(* The commands of a workload as bytes (src/workload/template_factory.rs,  *)
(* command_template.rs, key_format.rs).  A template is encoded once, for a *)
(* whole pipeline, and the places of its placeholders are remembered; for  *)
(* each request a worker writes over these places in its copy of the       *)
(* bytes, whose lengths were settled when it was encoded.  At the end,     *)
(* what a server makes of such bytes.                                      *)
(*                                                                         *)
(* An argument is a sequence of pieces: literal bytes, or the hole that a  *)
(* placeholder leaves, with the bytes it has until it is filled.           *)
(***************************************************************************)
EXTENDS DatasetFile

KeyWidth == 12      \* DEFAULT_KEY_WIDTH

Char(value) == [item |-> <<"char">>, byte |-> 0, value |-> value]
Repeat(value, n) == [i \in 1 .. n |-> Char(value)]
Slice(bytes, from, to) == SubSeq(bytes, from, Min({to, Len(bytes)}))
CRLF == <<Char(13), Char(10)>>

(* write_fixed_width_u64: the last digits of a number. *)
FixedWidth(n, width) ==
    LET rest[i \in 1 .. width] == IF i = width THEN n ELSE rest[i + 1] \div 10
    IN  [i \in 1 .. width |-> Char(48 + (rest[i] % 10))]

Decimal(n) == FixedWidth(n, CHOOSE w \in 1 .. 6 : n < 10^w /\ (w = 1 \/ n >= 10^(w - 1)))

-----------------------------------------------------------------------------
(* TemplateArg and CommandTemplate. *)

Literal(bytes) == [hole |-> "none", bytes |-> bytes]
Hole(type, bytes) == [hole |-> type, bytes |-> bytes]

Word(length) == <<Literal(Repeat(97, length))>>
Placeholder(type, length) == <<Hole(type, Repeat(48, length))>>

(* The key of a vector, or of a key-value command in a cluster: the prefix,  *)
(* five bytes of cluster tag, a colon, and a number.                         *)
TagRegion == <<Char(123), Char(48), Char(48), Char(48), Char(125)>>
TaggedKey(prefix) ==
    Word(prefix) \o <<Hole("clusterTag", TagRegion), Literal(<<Char(58)>>)>>
        \o Placeholder("key", KeyWidth)
PlainKey(prefix) == Word(prefix) \o Placeholder("key", KeyWidth)

(* create_template, with lengths for names and values.  A search             *)
(* configuration is a record [prefix, tag, numeric, nocontent]: the length   *)
(* of its prefix, of a tag if there is one, and of each numeric field.  Its  *)
(* vectors are taken to have four bytes per dimension.                       *)
VecByteLen(dim) == dim * 4
LoadTemplate(search, dim) ==
    <<Word(4), TaggedKey(search.prefix), Word(9), Placeholder("vector", VecByteLen(dim))>>
        \o (IF search.tag = <<>> THEN <<>> ELSE <<Word(3), Placeholder("tag", search.tag[1])>>)
        \o FlattenSeq([i \in DOMAIN search.numeric |->
                         <<Word(5), Placeholder("numeric", search.numeric[i])>>])
QueryTemplate(search, dim) ==
    <<Word(9), Word(3), Word(20), Word(6), Word(1), Word(4),
      Placeholder("queryVector", VecByteLen(dim)), Word(7), Word(1), Word(5), Word(1), Word(1)>>
        \o (IF search.nocontent THEN <<Word(9)>> ELSE <<>>)

VectorTemplate(workload, search, dim) ==
    CASE workload \in {"load", "update"} -> LoadTemplate(search, dim)
      [] workload = "query" -> QueryTemplate(search, dim)
      [] workload = "delete" -> <<Word(3), TaggedKey(search.prefix)>>

Simple == {"PING", "GET", "SET", "LRANGE", "SADD", "HSET", "ZADD", "MSET"}  \* and those like them
SimpleTemplate(workload, prefix, dataSize, cluster) ==
    LET key == IF cluster THEN TaggedKey(prefix) ELSE PlainKey(prefix)
        data == Word(dataSize)
        random == Placeholder("randInt", KeyWidth)
    IN  <<Word(4)>> \o
        CASE workload = "PING" -> <<>>
          [] workload = "GET" -> <<key>>              \* INCR, LPOP, RPOP, SPOP, ZPOPMIN
          [] workload = "SET" -> <<key, data>>        \* LPUSH, RPUSH
          [] workload = "LRANGE" -> <<key, Word(1), Word(2)>>
          [] workload = "SADD" -> <<key, random>>
          [] workload = "HSET" -> <<key, Word(5), data>>
          [] workload = "ZADD" -> <<key, random, Word(6)>>
          [] workload = "MSET" -> FlattenSeq([i \in 1 .. 10 |-> <<key, data>>])

-----------------------------------------------------------------------------
(* build_single and build. *)

Length(pieces) == Sum([i \in DOMAIN pieces |-> Len(pieces[i].bytes)])

EncodedArg(arg) ==
    <<Literal(<<Char(36)>> \o Decimal(Length(arg)) \o CRLF)>> \o arg \o <<Literal(CRLF)>>

HolesFrom(pieces, header) ==
    SelectSeq([i \in DOMAIN pieces |->
                 [type |-> pieces[i].hole, length |-> Len(pieces[i].bytes),
                  offset |-> header + Length(SubSeq(pieces, 1, i - 1))]],
              LAMBDA hole : hole.type # "none")

BuildUnprefixed(args, pipeline) ==      \* mutant: the array's header is not counted
    LET pieces == FlattenSeq([i \in DOMAIN args |-> EncodedArg(args[i])])
        single == <<Char(42)>> \o Decimal(Len(args)) \o CRLF
                      \o FlattenSeq([i \in DOMAIN pieces |-> pieces[i].bytes])
    IN  [bytes |-> FlattenSeq([i \in 1 .. pipeline |-> single]),
         commandLen |-> Len(single), pipeline |-> pipeline, holes |-> HolesFrom(pieces, 0)]
Build(args, pipeline) ==
    LET header == <<Char(42)>> \o Decimal(Len(args)) \o CRLF
        pieces == FlattenSeq([i \in DOMAIN args |-> EncodedArg(args[i])])
        single == header \o FlattenSeq([i \in DOMAIN pieces |-> pieces[i].bytes])
    IN  [bytes |-> FlattenSeq([i \in 1 .. pipeline |-> single]),
         commandLen |-> Len(single), pipeline |-> pipeline,
         holes |-> HolesFrom(pieces, Len(header))]

(* fill_placeholders_with_key.  What is written may be shorter or longer     *)
(* than the hole; beyond the end of the buffer the worker would panic.       *)
(* Every command of a pipeline has the same contents, one for each hole.     *)
Overwritten(bytes, offset, new) ==
    Slice(bytes, 1, offset) \o new \o Slice(bytes, offset + Len(new) + 1, Len(bytes))

FillHoles(template, bytes, contents) ==
    FoldLeft(LAMBDA filled, command :
               FoldLeft(LAMBDA buffer, i :
                          Overwritten(buffer, (command - 1) * template.commandLen + template.holes[i].offset,
                                      contents[i]),
                        filled, [i \in DOMAIN contents |-> i]),
             bytes, [command \in 1 .. template.pipeline |-> command])

(* What fills a hole, except for vectors: names cut or padded with commas,   *)
(* values of numeric fields with zeros on their right.  Names and values are *)
(* drawn by the number of the key; a key may get no name, or a long one.     *)
Padded(bytes, length, pad) == Slice(bytes \o Repeat(pad, length), 1, length)
DrawnName(number) == Repeat(98, (7 * number) % 20)

Content(hole, number, tag) ==
    CASE hole.type = "key" -> FixedWidth(number, hole.length)
      [] hole.type = "clusterTag" -> tag
      [] hole.type = "randInt" -> FixedWidth(number, hole.length)
      [] hole.type = "tag" -> Padded(DrawnName(number), hole.length, 44)
      [] hole.type = "numeric" -> Padded(Decimal(number), hole.length, 48)

(* What a worker writes into a request with a number: the number of the key, *)
(* or of the vector or the query, which are copied from the file.            *)
Request(context, template, number, tag) ==
    LET content(hole) ==
            CASE hole.type = "vector" -> GetVector(context, number)
              [] hole.type = "queryVector" -> GetQuery(context, number)
              [] OTHER -> Content(hole, number, tag)
    IN  FillHoles(template, template.bytes,
                  [i \in DOMAIN template.holes |-> content(template.holes[i])])

-----------------------------------------------------------------------------
(* KeyFormat::parse_key: the number in a key, for the scan of a cluster and  *)
(* for recall.                                                               *)

IsDigit(byte) == byte.item = <<"char">> /\ byte.value \in 48 .. 57
NumberIn(digits) ==
    IF \A i \in DOMAIN digits : IsDigit(digits[i])
    THEN FoldLeft(LAMBDA n, digit : 10 * n + (digit.value - 48), 0, digits) ELSE 0

NoId == -1
ParsedId(prefix, key) ==
    LET rest == Slice(key, prefix + 1, Len(key))
        tagged == rest # <<>> /\ rest[1] = Char(123)
        tagEnd == SelectInSeq(rest, LAMBDA byte : byte = Char(125))
        after == Slice(rest, Len(TagRegion) + 1, Len(rest))
        digits == IF ~tagged THEN rest
                  ELSE IF after # <<>> /\ after[1] = Char(58) THEN Tail(after) ELSE after
    IN  IF /\ Slice(key, 1, prefix) = Repeat(97, prefix)
           /\ IF tagged THEN tagEnd - 2 \in 1 .. 3 ELSE \A i \in DOMAIN rest : IsDigit(rest[i])
        THEN NumberIn(digits) ELSE NoId

-----------------------------------------------------------------------------
(* A server: it reads headers, each with what they announce.                 *)

(* The header at a place, and where it ends; without one, the end is 0.      *)
HeaderAt(bytes, at, kind) ==
    LET stops == {e \in at + 2 .. at + 5 : Slice(bytes, e, e + 1) = CRLF}
        end == IF stops = {} THEN 0 ELSE Min(stops)
        digits == Slice(bytes, at + 1, end - 1)
    IN  IF stops # {} /\ bytes[at] = Char(kind) /\ \A i \in DOMAIN digits : IsDigit(digits[i])
        THEN [number |-> NumberIn(digits), end |-> end + 2] ELSE [number |-> 0, end |-> 0]

(* The commands in some bytes, each a sequence of arguments; none, if there  *)
(* is anything else in the bytes.                                            *)
ReadOne(bytes, reader) ==
    LET header == HeaderAt(bytes, reader.at, IF reader.missing = 0 THEN 42 ELSE 36)
        content == Slice(bytes, header.end, header.end + header.number - 1)
        next == header.end + header.number
    IN  IF reader.at > Len(bytes) \/ reader.broken THEN reader
        ELSE IF header.end = 0 THEN [reader EXCEPT !.broken = TRUE]
        ELSE IF reader.missing = 0
             THEN [reader EXCEPT !.at = header.end, !.missing = header.number,
                                 !.commands = Append(@, <<>>)]
             ELSE [reader EXCEPT !.at = next + 2, !.missing = @ - 1,
                                 !.broken = Slice(bytes, next, next + 1) # CRLF,
                                 !.commands[Len(reader.commands)] = Append(@, content)]
Received(bytes) ==
    LET reader == FoldLeft(LAMBDA r, line : ReadOne(bytes, r),
                           [at |-> 1, missing |-> 0, broken |-> FALSE, commands |-> <<>>],
                           SelectSeq(bytes, LAMBDA byte : byte = Char(10)))  \* a header ends in one
    IN  IF reader.broken \/ reader.missing > 0 THEN <<>> ELSE reader.commands

=============================================================================
