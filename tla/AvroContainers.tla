--------------------------- MODULE AvroContainers ---------------------------
(***************************************************************************)
(* The Avro object container manifests are kept in                         *)
(* (rust/src/iceberg/avro.rs).                                             *)
(*                                                                         *)
(* A schema node, and the document it is parsed from, is [kind, name,      *)
(* names, items, size]: a document's node may also be of kind "name", a    *)
(* name that is resolved.  A value is [kind, number, text, names, items].  *)
(* Encoded bytes are a sequence of tokens [number, text], an integer or a  *)
(* run of bytes with its length; the bytes of one integer are modelled     *)
(* apart.                                                                  *)
(***************************************************************************)
EXTENDS Options

-----------------------------------------------------------------------------
(* Integers: zig-zag, then digits of Group bits, the last one unflagged.   *)

ZigZag(value) == IF value >= 0 THEN 2 * value ELSE -2 * value - 1
UnZigZag(encoded) == IF encoded % 2 = 0 THEN encoded \div 2 ELSE -(encoded \div 2) - 1

RECURSIVE Digits(_, _)
Digits(encoded, group) ==
    LET digit == encoded % 2^group IN
    IF encoded < 2^group THEN <<[digit |-> digit, more |-> FALSE]>>
    ELSE <<[digit |-> digit, more |-> TRUE]>> \o Digits(encoded \div 2^group, group)

\* put_long.
PutLong(value, group) == Digits(ZigZag(value), group)

\* long, of `width' bits: a digit past the width is refused.
ReadLong(bytes, width, group) ==
    LET last == SelectInSeq(bytes, LAMBDA byte : ~byte.more)
        sum == FoldLeft(LAMBDA total, k : total + bytes[k].digit * 2^(group * (k - 1)),
                        0, [k \in 1 .. last |-> k])
    IN IF last = 0 \/ group * (last - 1) > width - 1 THEN None
       ELSE Some(UnZigZag(sum % 2^width))

-----------------------------------------------------------------------------
(* Values.                                                                 *)

Value(kind, number, text) ==
    [kind |-> kind, number |-> number, text |-> text, names |-> <<>>, items |-> <<>>]
Null == Value("null", 0, "")
Boolean(truth) == Value("boolean", IF truth THEN 1 ELSE 0, "")
Integer(number) == Value("integer", number, "")
Text(text) == Value("string", 0, text)
Bytes(text, size) == Value("bytes", size, text)
Items(values) == [Value("sequence", 0, "") EXCEPT !.items = values]
Mapping(names, values) == [Value("mapping", 0, "") EXCEPT !.names = names, !.items = values]
OrNull(option) == OrElse(option, Null)

\* get_key_str.
Get(value, name) ==
    LET at == SelectInSeq(value.names, LAMBDA other : other = name) IN
    IF at = 0 THEN None ELSE Some(value.items[at])

-----------------------------------------------------------------------------
(* Schemas.                                                                *)

Node(kind, name, names, items, size) ==
    [kind |-> kind, name |-> name, names |-> names, items |-> items, size |-> size]
Primitives == {"null", "boolean", "int", "long", "float", "double", "bytes", "string"}
Primitive(name) == Node(name, "", <<>>, <<>>, 0)
Called(name) == Node("name", name, <<>>, <<>>, 0)

\* resolve_name.
ResolveName(name, named) ==
    IF name \in Primitives THEN Some(Primitive(name))
    ELSE IF name \in DOMAIN named THEN Some(named[name]) ELSE None

RECURSIVE ParseSchema(_, _), ParseEach(_, _)
ParseEach(documents, named) ==
    IF documents = <<>> THEN [schemas |-> Some(<<>>), named |-> named]
    ELSE LET first == ParseSchema(Head(documents), named)
             rest == ParseEach(Tail(documents), first.named)
         IN IF first.schema = None \/ rest.schemas = None
            THEN [schemas |-> None, named |-> named]
            ELSE [schemas |-> Some(first.schema \o The(rest.schemas)), named |-> rest.named]

\* parse_schema and parse_record; what is named is known once it is parsed.
ParseSchema(document, named) ==
    LET below == ParseEach(document.items, named)
        schema == [document EXCEPT !.items = The(below.schemas)]
        known == IF document.kind \in {"record", "enum", "fixed"}
                 THEN (document.name :> schema) @@ below.named ELSE below.named
    IN IF document.kind = "name"
       THEN [schema |-> ResolveName(document.name, named), named |-> named]
       ELSE IF below.schemas = None THEN [schema |-> None, named |-> named]
       ELSE [schema |-> Some(schema), named |-> known]
SchemaOf(document) == ParseSchema(document, <<>>).schema

-----------------------------------------------------------------------------
(* Encoding.                                                               *)

Accepted ==
    [null |-> "null", boolean |-> "boolean", int |-> "integer", long |-> "integer",
     float |-> "float", double |-> "float", bytes |-> "bytes", fixed |-> "bytes",
     string |-> "string", enum |-> "string", record |-> "mapping", map |-> "mapping",
     array |-> "sequence"]
Fits(schema, value) ==
    schema.kind \in DOMAIN Accepted /\ Accepted[schema.kind] = value.kind

Token(number, text) == [number |-> number, text |-> text]
Joined(results) == AndThen(Every(results), LAMBDA tokens : Some(FlattenSeq(tokens)))
Blocked(count, result) ==
    AndThen(result, LAMBDA tokens :
        Some((IF count = 0 THEN <<>> ELSE <<Token(count, "")>>) \o tokens \o <<Token(0, "")>>))

RECURSIVE Encode(_, _)
\* encode, encode_record and union_branch.
Encode(schema, value) ==
    LET branch == SelectInSeq(schema.items, LAMBDA item : Fits(item, value))
        symbol == SelectInSeq(schema.names, LAMBDA name : name = value.text)
    IN CASE schema.kind = "union" ->
              IF branch = 0 THEN None
              ELSE Joined(<<Some(<<Token(branch - 1, "")>>), Encode(schema.items[branch], value)>>)
         [] ~Fits(schema, value) -> None
         [] schema.kind = "null" -> Some(<<>>)
         [] schema.kind = "record" ->
              Joined([k \in DOMAIN schema.names |->
                         Encode(schema.items[k], OrNull(Get(value, schema.names[k])))])
         [] schema.kind = "array" ->
              Blocked(Len(value.items), Joined([k \in DOMAIN value.items |->
                         Encode(schema.items[1], value.items[k])]))
         [] schema.kind = "map" ->
              Blocked(Len(value.items), Joined([k \in DOMAIN value.items |->
                         Joined(<<Some(<<Token(0, value.names[k])>>),
                                  Encode(schema.items[1], value.items[k])>>)]))
         [] schema.kind = "enum" ->
              IF symbol = 0 THEN None ELSE Some(<<Token(symbol - 1, "")>>)
         [] schema.kind = "fixed" /\ value.number # schema.size -> None
         [] OTHER -> Some(<<Token(value.number, value.text)>>)

\* block_count: where the block's items start.  A negative count is followed
\* by the block's size in bytes.
BlockStart(tokens, at) == IF tokens[at].number < 0 THEN at + 2 ELSE at + 1
BlockCount(tokens, at) == IF tokens[at].number < 0 THEN -tokens[at].number ELSE tokens[at].number

RECURSIVE Decode(_, _, _), DecodeEach(_, _, _), DecodeBlocks(_, _, _)

\* decode of some schemas in turn: the values and where they end.
DecodeEach(schemas, tokens, at) ==
    IF schemas = <<>> THEN Some([values |-> <<>>, at |-> at])
    ELSE AndThen(Decode(Head(schemas), tokens, at), LAMBDA first :
         AndThen(DecodeEach(Tail(schemas), tokens, first.at), LAMBDA rest :
             Some([values |-> <<first.value>> \o rest.values, at |-> rest.at])))

\* The blocks of an array, or of a map as keys and values in turn.
DecodeBlocks(schemas, tokens, at) ==
    IF at > Len(tokens) THEN None
    ELSE IF BlockCount(tokens, at) = 0 THEN Some([values |-> <<>>, at |-> at + 1])
    ELSE AndThen(DecodeEach(FlattenSeq([k \in 1 .. BlockCount(tokens, at) |-> schemas]),
                            tokens, BlockStart(tokens, at)), LAMBDA block :
         AndThen(DecodeBlocks(schemas, tokens, block.at), LAMBDA rest :
             Some([values |-> block.values \o rest.values, at |-> rest.at])))

Built(got, Make(_)) ==
    AndThen(got, LAMBDA read : Some([value |-> Make(read.values), at |-> read.at]))
KindRead == [boolean |-> "boolean", int |-> "integer", long |-> "integer", float |-> "float",
             double |-> "float", bytes |-> "bytes", fixed |-> "bytes", string |-> "string"]

\* decode.
Decode(schema, tokens, at) ==
    CASE schema.kind = "null" -> Some([value |-> Null, at |-> at])
      [] schema.kind = "record" ->
            Built(DecodeEach(schema.items, tokens, at), LAMBDA values : Mapping(schema.names, values))
      [] schema.kind = "array" -> Built(DecodeBlocks(schema.items, tokens, at), Items)
      [] schema.kind = "map" ->
            Built(DecodeBlocks(<<Primitive("string"), schema.items[1]>>, tokens, at),
                  LAMBDA values : Mapping([k \in 1 .. Len(values) \div 2 |-> values[2 * k - 1].text],
                                          [k \in 1 .. Len(values) \div 2 |-> values[2 * k]]))
      [] at > Len(tokens) -> None
      [] schema.kind = "union" ->
            IF tokens[at].number + 1 \notin DOMAIN schema.items THEN None
            ELSE Decode(schema.items[tokens[at].number + 1], tokens, at + 1)
      [] schema.kind = "enum" ->
            IF tokens[at].number + 1 \notin DOMAIN schema.names THEN None
            ELSE Some([value |-> Text(schema.names[tokens[at].number + 1]), at |-> at + 1])
      [] OTHER ->
            Some([value |-> Value(KindRead[schema.kind], tokens[at].number, tokens[at].text),
                  at |-> at + 1])

-----------------------------------------------------------------------------
(* Containers: [magic, header, sync, blocks], a block [count, coding,      *)
(* tokens, sync] of the coding its payload was compressed with.            *)

Magic == "Obj1"
SyncMarker == "marker"

\* block_codec.
Codings == [null |-> "identity", deflate |-> "deflate", zstandard |-> "zstd"]

\* Every block is of the header's coding, and ends with its marker.
Sealed(container, codec) ==
    /\ container.magic = Magic /\ codec \in DOMAIN Codings
    /\ \A k \in DOMAIN container.blocks :
          LET block == container.blocks[k] IN
          block.count >= 0 /\ block.sync = container.sync /\ block.coding = Codings[codec]

\* read_container: [metadata, rows].
ReadContainer(container) ==
    LET reserved == {"avro.schema", "avro.codec"} IN
    IF ~Sealed(container, OrElse(Read(container.header, "avro.codec"), "null")) THEN None
    ELSE AndThen(Read(container.header, "avro.schema"), LAMBDA document :
         AndThen(SchemaOf(document), LAMBDA schema :
         AndThen(Every([k \in DOMAIN container.blocks |->
                    DecodeEach([n \in 1 .. container.blocks[k].count |-> schema],
                               container.blocks[k].tokens, 1)]), LAMBDA read :
             Some([metadata |-> [key \in DOMAIN container.header \ reserved |-> container.header[key]],
                   rows |-> FlattenSeq([k \in DOMAIN read |-> read[k].values])]))))

\* write_container: one block, of deflate.
WriteContainer(document, metadata, rows) ==
    AndThen(SchemaOf(document), LAMBDA schema :
    AndThen(Joined([k \in DOMAIN rows |-> Encode(schema, rows[k])]), LAMBDA payload :
        Some([magic |-> Magic, sync |-> SyncMarker,
              header |-> ("avro.schema" :> document) @@ ("avro.codec" :> "deflate") @@ metadata,
              blocks |-> IF rows = <<>> THEN <<>>
                         ELSE <<[count |-> Len(rows), coding |-> "deflate",
                                 tokens |-> payload, sync |-> SyncMarker]>>])))

-----------------------------------------------------------------------------
(* Properties of the encoding, over given values.                          *)

\* Every integer of the width reads back, from no more digits than the width
\* holds, and no other digits of that many do.
IntegersReadBack(width, group) ==
    \A value \in -(2^(width - 1)) .. 2^(width - 1) - 1 :
        LET bytes == PutLong(value, group) IN
        /\ ReadLong(bytes, width, group) = Some(value)
        /\ group * (Len(bytes) - 1) < width
        /\ \A extra \in 1 .. width :
              LET padded == [k \in 1 .. Len(bytes) + extra |->
                        IF k <= Len(bytes) THEN [bytes[k] EXCEPT !.more = TRUE]
                        ELSE [digit |-> 0, more |-> k < Len(bytes) + extra]]
              IN ReadLong(padded, width, group) \in {None, Some(value)}

=============================================================================
