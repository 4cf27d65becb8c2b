------------------------------ MODULE Manifests ------------------------------
(***************************************************************************)
(* Manifests and manifest lists (rust/src/iceberg/manifest.rs), written    *)
(* and read as the containers of AvroContainers.                           *)
(***************************************************************************)
EXTENDS SchemaDocuments, AvroContainers

-----------------------------------------------------------------------------
(* Avro schemas.  A field of a table is [name, since, until, type].        *)

RecordOf(name, fields) ==
    Node("record", name, [k \in DOMAIN fields |-> fields[k].name],
         [k \in DOMAIN fields |-> fields[k].type], 0)
Optional(type) == Node("union", "", <<>>, <<Called("null"), type>>, 0)
ArrayOf(type) == Node("array", "", <<>>, <<type>>, 0)
Field(name, type) == [name |-> name, since |-> 1, until |-> 3, type |-> type]
Since(least, field) == [field EXCEPT !.since = least]
Only(one, field) == [field EXCEPT !.until = one]
Required(name, type) == Field(name, Called(type))
Maybe(name, type) == Field(name, Optional(Called(type)))
MaybeArray(name, type) == Field(name, Optional(ArrayOf(type)))

\* avro_map: an array of pairs under an integer key.
PairsOf(name, type) ==
    Field(name, Optional(ArrayOf(RecordOf("k_" \o name, <<Required("key", "int"), Required("value", type)>>))))

\* partition_record: every value optional, of the Iceberg type's name.
PartitionRecord(tuple) ==
    AndThen(Every([k \in DOMAIN tuple.fields |-> PrimitiveOf(tuple.fields[k].type)]), LAMBDA types :
        Some(RecordOf("r102", [k \in DOMAIN tuple.fields |->
                Maybe(tuple.fields[k].name, types[k].word)])))

CountKeys == <<"column_sizes", "value_counts", "null_value_counts", "nan_value_counts">>
BoundKeys == <<"lower_bounds", "upper_bounds">>
Written(at, fields) == SelectSeq(fields, LAMBDA field : at \in field.since .. field.until)

\* manifest_entry_schema.
EntrySchema(at, partition) ==
    LET file == Written(at,
            << Since(2, Required("content", "int")), Required("file_path", "string"),
               Required("file_format", "string"), Field("partition", partition),
               Required("record_count", "long"), Required("file_size_in_bytes", "long"),
               Only(1, Required("block_size_in_bytes", "long")) >>
            \o [k \in DOMAIN CountKeys |-> PairsOf(CountKeys[k], "long")]
            \o [k \in DOMAIN BoundKeys |-> PairsOf(BoundKeys[k], "bytes")]
            \o << Maybe("key_metadata", "bytes"), MaybeArray("split_offsets", Called("long")),
                  Since(2, MaybeArray("equality_ids", Called("long"))), Maybe("sort_order_id", "int"),
                  Since(3, Maybe("first_row_id", "long")),
                  Since(3, Maybe("referenced_data_file", "string")),
                  Since(3, Maybe("content_offset", "long")),
                  Since(3, Maybe("content_size_in_bytes", "long")) >>)
    IN RecordOf("manifest_entry", Written(at,
            << Required("status", "int"), Only(1, Required("snapshot_id", "long")),
               Since(2, Maybe("snapshot_id", "long")), Since(2, Maybe("sequence_number", "long")),
               Since(2, Maybe("file_sequence_number", "long")),
               Field("data_file", RecordOf("r2", file)) >>))

RowCounts == <<"added_files_count", "existing_files_count", "deleted_files_count",
               "added_rows_count", "existing_rows_count", "deleted_rows_count">>
LegacyCount ==
    [added_files_count |-> "added_data_files_count",
     existing_files_count |-> "existing_data_files_count",
     deleted_files_count |-> "deleted_data_files_count"]

\* manifest_list_schema.
ListSchema(at) ==
    LET summary == RecordOf("r508",
            << Required("contains_null", "boolean"), Maybe("contains_nan", "boolean"),
               Maybe("lower_bound", "bytes"), Maybe("upper_bound", "bytes") >>)
    IN RecordOf("manifest_file", Written(at,
            << Required("manifest_path", "string"), Required("manifest_length", "long"),
               Required("partition_spec_id", "int"), Since(2, Required("content", "int")),
               Since(2, Required("sequence_number", "long")),
               Since(2, Required("min_sequence_number", "long")),
               Required("added_snapshot_id", "long") >>
            \o [k \in DOMAIN RowCounts |-> IF at = 1 THEN Maybe(RowCounts[k], "long")
                                           ELSE Required(RowCounts[k], "long")]
            \o << MaybeArray("partitions", summary), Maybe("key_metadata", "bytes"),
                  Since(3, Maybe("first_row_id", "long")) >>))

-----------------------------------------------------------------------------
(* Entries: [status, snapshot, sequence, fileSequence, file], and a file   *)
(* as DataFile has it, its pairs under `counts' and `bounds' by key.       *)

Numbered(option) == IF option = None THEN Null ELSE Integer(The(option))
NumberIn(value, name) ==
    LET got == OrNull(Get(value, name)) IN IF got.kind = "integer" THEN Some(got.number) ELSE None

\* pairs and from_pairs: no pairs are written as null.
Pairs(entries, Make(_)) ==
    IF entries = <<>> THEN Null
    ELSE Items([k \in DOMAIN entries |->
            Mapping(<<"key", "value">>, <<Integer(entries[k][1]), Make(entries[k][2])>>)])
FromPairs(value, Take(_)) ==
    [k \in DOMAIN value.items |-> <<value.items[k].items[1].number, Take(value.items[k].items[2])>>]
Bound(text) == Bytes(text, 1)

\* entry_to_value; encoding takes the keys of the version.
EntryToValue(entry, tuple) ==
    LET file == entry.file
        places == [k \in DOMAIN tuple.fields |-> tuple.fields[k].name]
        data == Mapping(
            << "content", "file_path", "file_format", "partition", "record_count",
               "file_size_in_bytes", "block_size_in_bytes", "split_offsets", "sort_order_id",
               "first_row_id" >> \o CountKeys \o BoundKeys,
            << Integer(file.content), Text(file.path), Text(file.format),
               Mapping(places, file.partition), Integer(file.records), Integer(file.size),
               Integer(0),
               IF file.offsets = <<>> THEN Null
               ELSE Items([k \in DOMAIN file.offsets |-> Integer(file.offsets[k])]),
               Numbered(file.order), Numbered(file.firstRow) >>
            \o [k \in DOMAIN CountKeys |-> Pairs(file.counts[CountKeys[k]], Integer)]
            \o [k \in DOMAIN BoundKeys |-> Pairs(file.bounds[BoundKeys[k]], Bound)])
    IN IF Len(file.partition) # Len(tuple.fields) THEN None
       ELSE Some(Mapping(
            <<"status", "snapshot_id", "sequence_number", "file_sequence_number", "data_file">>,
            << Integer(entry.status), Numbered(entry.snapshot), Numbered(entry.sequence),
               Numbered(entry.fileSequence), data >>))

\* FileFormat::from_str, of names in any case.
FormatOf == [PARQUET |-> "PARQUET", parquet |-> "PARQUET", AVRO |-> "AVRO", ORC |-> "ORC"]
Existing == 0
Added == 1
Deleted == 2

\* entry_from_value, counts and bounds.
EntryFromValue(row) ==
    LET status == NumberIn(row, "status")
        file == OrNull(Get(row, "data_file"))
        path == OrNull(Get(file, "file_path"))
        format == OrElse(Get(file, "file_format"), Text("PARQUET")).text
        in(key) == OrNull(Get(file, key))
        number(key) == OrElse(NumberIn(file, key), 0)
    IN IF \/ status \notin {Some(Existing), Some(Added), Some(Deleted)}
          \/ path.kind # "string" \/ format \notin DOMAIN FormatOf
       THEN None
       ELSE Some([status |-> The(status), snapshot |-> NumberIn(row, "snapshot_id"),
                  sequence |-> NumberIn(row, "sequence_number"),
                  fileSequence |-> NumberIn(row, "file_sequence_number"),
                  file |-> [content |-> number("content"), path |-> path.text,
                     format |-> FormatOf[format], partition |-> in("partition").items,
                     records |-> number("record_count"), size |-> number("file_size_in_bytes"),
                     counts |-> [key \in Range(CountKeys) |->
                                    FromPairs(in(key), LAMBDA value : value.number)],
                     bounds |-> [key \in Range(BoundKeys) |->
                                    FromPairs(in(key), LAMBDA value : value.text)],
                     offsets |-> [k \in DOMAIN in("split_offsets").items |->
                                    in("split_offsets").items[k].number],
                     order |-> NumberIn(file, "sort_order_id"),
                     firstRow |-> NumberIn(file, "first_row_id")]])

\* write_manifest.
WriteManifest(at, root, spec, entries) ==
    AndThen(PartitionField(spec, root), LAMBDA tuple :
    AndThen(PartitionRecord(tuple), LAMBDA partition :
    AndThen(SchemaToJson(root), LAMBDA schema :
    AndThen(Every([k \in DOMAIN entries |-> EntryToValue(entries[k], tuple)]), LAMBDA rows :
        WriteContainer(EntrySchema(at, partition),
            ("schema" :> schema) @@ ("schema-id" :> OrElse(root.id, 0))
            @@ ("partition-spec" :> SpecToV1Json(spec)) @@ ("partition-spec-id" :> spec.id)
            @@ ("format-version" :> at) @@ ("content" :> "data"), rows)))))

\* read_manifest and read_manifest_spec.
ReadManifest(container) ==
    AndThen(ReadContainer(container), LAMBDA read :
        Every([k \in DOMAIN read.rows |-> EntryFromValue(read.rows[k])]))
ReadManifestSpec(container) ==
    AndThen(ReadContainer(container), LAMBDA read :
        IF "partition-spec" \notin DOMAIN read.metadata THEN Some(Unpartitioned)
        ELSE AndThen(SpecFromV1Json(read.metadata["partition-spec"]), LAMBDA spec :
             Some([spec EXCEPT !.id = OrElse(Read(read.metadata, "partition-spec-id"), @)])))

-----------------------------------------------------------------------------
(* List rows: [path, length, spec, content, sequence, least, snapshot,     *)
(* counts, partitions, firstRow], counts by the names of RowCounts.        *)

Maybes(option, Make(_)) == IF option = None THEN Null ELSE Make(The(option))
SummaryToValue(summary) ==
    Mapping(<<"contains_null", "contains_nan", "lower_bound", "upper_bound">>,
            << Boolean(summary.null), Maybes(summary.nan, Boolean), Maybes(summary.lower, Bound),
               Maybes(summary.upper, Bound) >>)
SummaryFromValue(row) ==
    LET bound(key) == LET got == OrNull(Get(row, key)) IN
                      IF got.kind = "bytes" THEN Some(got.text) ELSE None
        nan == OrNull(Get(row, "contains_nan"))
    IN [null |-> Get(row, "contains_null") = Some(Boolean(TRUE)),
        nan |-> IF nan.kind = "boolean" THEN Some(nan.number = 1) ELSE None,
        lower |-> bound("lower_bound"), upper |-> bound("upper_bound")]

\* manifest_to_value and summaries_to_value.
RowToValue(row) ==
    Mapping(<< "manifest_path", "manifest_length", "partition_spec_id", "content",
               "sequence_number", "min_sequence_number", "added_snapshot_id", "partitions",
               "first_row_id" >> \o RowCounts,
            << Text(row.path), Integer(row.length), Integer(row.spec), Integer(row.content),
               Integer(row.sequence), Integer(row.least), Integer(row.snapshot),
               IF row.partitions = <<>> THEN Null
               ELSE Items([k \in DOMAIN row.partitions |-> SummaryToValue(row.partitions[k])]),
               Numbered(row.firstRow) >>
            \o [k \in DOMAIN RowCounts |-> Integer(row.counts[RowCounts[k]])])

\* manifest_from_value and summaries_from_value, with the names v1 gave counts.
RowFromValue(value) ==
    LET number(key) == OrElse(NumberIn(value, key), 0)
        path == OrNull(Get(value, "manifest_path"))
        named(key) == IF Get(value, key) # None \/ key \notin DOMAIN LegacyCount THEN key
                      ELSE LegacyCount[key]
        partitions == OrNull(Get(value, "partitions")).items
    IN IF path.kind # "string" \/ number("content") \notin {0, 1} THEN None
       ELSE Some([path |-> path.text, length |-> number("manifest_length"),
                  spec |-> number("partition_spec_id"), content |-> number("content"),
                  sequence |-> number("sequence_number"), least |-> number("min_sequence_number"),
                  snapshot |-> number("added_snapshot_id"),
                  counts |-> [key \in Range(RowCounts) |-> number(named(key))],
                  partitions |-> [k \in DOMAIN partitions |-> SummaryFromValue(partitions[k])],
                  firstRow |-> NumberIn(value, "first_row_id")])

\* write_manifest_list and read_manifest_list.
WriteList(at, rows) ==
    WriteContainer(ListSchema(at), "format-version" :> at,
                   [k \in DOMAIN rows |-> RowToValue(rows[k])])
ReadList(container) ==
    AndThen(ReadContainer(container), LAMBDA read :
        Every([k \in DOMAIN read.rows |-> RowFromValue(read.rows[k])]))

-----------------------------------------------------------------------------
(* Properties of both, over given cases.                                   *)

\* What a version leaves out.
EntryAs(at, entry) ==
    [entry EXCEPT !.sequence = IF at = 1 THEN None ELSE @,
                  !.fileSequence = IF at = 1 THEN None ELSE @,
                  !.file.content = IF at = 1 THEN 0 ELSE @,
                  !.file.firstRow = IF at = 3 THEN @ ELSE None]
RowAs(at, row) ==
    [row EXCEPT !.content = IF at = 1 THEN 0 ELSE @, !.sequence = IF at = 1 THEN 0 ELSE @,
                !.least = IF at = 1 THEN 0 ELSE @, !.firstRow = IF at = 3 THEN @ ELSE None]

\* A tuple can be written when each column's Iceberg name is one of Avro's too
\* and its value is of that type or null.
Writable(tuple, values) ==
    /\ Len(values) = Len(tuple.fields)
    /\ \A k \in DOMAIN values :
          LET name == The(PrimitiveOf(tuple.fields[k].type)).word IN
          name \in Primitives /\ (values[k] = Null \/ Fits(Primitive(name), values[k]))

\* Blocks as another writer may cut them: a row each, of another coding.
Recut(container, codec) ==
    [container EXCEPT
        !.header = ("avro.codec" :> codec) @@ @,
        !.blocks = FlattenSeq([k \in DOMAIN @ |->
            [n \in 1 .. 2 |-> [@[k] EXCEPT !.coding = Codings[codec],
                !.count = IF n = 1 THEN 0 ELSE @, !.tokens = IF n = 1 THEN <<>> ELSE @]]])]

\* Entries read as they were written, but for what their version leaves out,
\* and so do their spec and what another writer cuts otherwise; they are
\* refused only when a tuple has no Avro type.
EntriesReadBack(at, root, spec, entries) ==
    LET tuple == The(PartitionField(spec, root))
        container == WriteManifest(at, root, spec, entries)
        expected == Some([k \in DOMAIN entries |-> EntryAs(at, entries[k])])
    IN IF \/ \E k \in DOMAIN tuple.fields :
                The(PrimitiveOf(tuple.fields[k].type)).word \notin Primitives
          \/ \E k \in DOMAIN entries : \/ ~Writable(tuple, entries[k].file.partition)
                                       \/ at = 1 /\ entries[k].snapshot = None
       THEN container = None
       ELSE /\ container # None
            /\ ReadManifest(The(container)) = expected
            /\ ReadManifestSpec(The(container)) = Some(spec)
            /\ \A codec \in DOMAIN Codings : ReadManifest(Recut(The(container), codec)) = expected
RowsReadBack(at, rows) ==
    LET container == WriteList(at, rows) IN
    /\ container # None
    /\ ReadList(The(container)) = Some([k \in DOMAIN rows |-> RowAs(at, rows[k])])

\* An array reads the same from blocks of one item that say their size.
BlocksReadBack(type, values) ==
    LET sized == FlattenSeq([k \in DOMAIN values |->
                    <<Token(-1, ""), Token(9, "")>> \o The(Encode(type, values[k]))])
                 \o <<Token(0, "")>>
    IN Decode(Node("array", "", <<>>, <<type>>, 0), sized, 1)
          = Some([value |-> Items(values), at |-> Len(sized) + 1])

=============================================================================
