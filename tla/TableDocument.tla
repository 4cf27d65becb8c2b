---------------------------- MODULE TableDocument ----------------------------
(***************************************************************************)
(* The metadata document of one Iceberg table, edited in memory, written   *)
(* as JSON and read again (rust/src/iceberg/metadata.rs, with the          *)
(* documents of schema.rs, partition.rs and snapshot.rs).                  *)
(*                                                                         *)
(* Every edit is a change closure of Table::commit_changes on the          *)
(* in-memory document; a commit validates the result and writes it, or     *)
(* restores what the handle held.  What snapshots and references do is in  *)
(* TableMetadata, how commits race in IcebergCommit.  Clocks, logs of      *)
(* documents and retention are left out.                                   *)
(***************************************************************************)
EXTENDS SchemaDocuments

CONSTANTS
    Created,        \* the tables callers create: [version, schema, spec]
    Foreign,        \* documents other writers left, of every version
    NewSchemas,     \* the roots callers add
    NewSpecs,       \* the specs they add
    NewOrders,      \* the sort orders they add: [id, fields]
    Keys, Strings,    \* property keys, and their values and locations
    Uuids,          \* well-shaped UUIDs
    MaxEdits        \* bound: edits of one execution

VARIABLES
    document,       \* TableMetadata, as the handle holds it
    kept,           \* what a failed commit restores
    stored,         \* the JSON last written
    edits,          \* how many edits there were
    unmarked        \* ghost: ids of schemas added since all were marked

documentVars == <<document, kept, stored, edits, unmarked>>

Unsorted == [id |-> 0, fields |-> <<>>]

SchemaId(root) == OrElse(root.id, 0)

\* new.
NewDocument(created) ==
    LET marked == MarkPartitions(created.spec, created.schema) IN
    [version |-> created.version, uuid |-> CHOOSE uuid \in Uuids : TRUE,
     location |-> CHOOSE text \in Strings : TRUE,
     lastSequence |-> 0, lastColumn |-> HighestId(created.schema),
     schemas |-> <<marked>>, currentSchema |-> SchemaId(marked),
     specs |-> <<created.spec>>, defaultSpec |-> created.spec.id,
     lastPartition |-> LastPartitionField(created.spec),
     orders |-> <<Unsorted>>, defaultOrder |-> 0, properties |-> <<>>,
     current |-> None, snapshots |-> <<>>, refs |-> <<>>,
     nextRow |-> IF created.version >= 3 THEN Some(0) ELSE None]

-----------------------------------------------------------------------------
(* Lookups: the first of its id.                                           *)

Numbered(sequence, id) == SelectSeq(sequence, LAMBDA item : item.id = id)
SchemaById(md, id) == SelectSeq(md.schemas, LAMBDA root : SchemaId(root) = id)
SpecById(md, id) == Numbered(md.specs, id)

-----------------------------------------------------------------------------
(* Validation.                                                             *)

RECURSIVE FieldIds(_)
\* collect_field_ids.
FieldIds(fields) ==
    FoldLeft(LAMBDA ids, field : ids \o field.id \o FieldIds(field.type.fields), <<>>, fields)

SchemaNumbered(md) ==
    LET ids == FieldIds(SchemaById(md, md.currentSchema)[1].fields) IN
    IsInjective(ids) /\ \A k \in DOMAIN ids : ids[k] # 0 /\ ids[k] <= md.lastColumn

\* validate.
Valid(md) ==
    /\ SchemaById(md, md.currentSchema) # <<>> /\ SchemaNumbered(md)
    /\ SpecById(md, md.defaultSpec) # <<>>
    /\ \A k \in DOMAIN md.specs :
          md.specs[k].fields = <<>> \/ LastPartitionField(md.specs[k]) <= md.lastPartition
    /\ Numbered(md.orders, md.defaultOrder) # <<>>
    /\ md.current # None => Numbered(md.snapshots, The(md.current)) # <<>>
    /\ \A k \in DOMAIN md.refs : Numbered(md.snapshots, md.refs[k].id) # <<>>

-----------------------------------------------------------------------------
(* JSON.                                                                   *)

\* Snapshot::to_json and from_json: [id, sequence, firstRow].
SnapshotToJson(snapshot, version) ==
    [id |-> snapshot.id]
    @@ (IF version >= 2 THEN Entry("sequence-number", snapshot.sequence) ELSE <<>>)
    @@ (IF version >= 3 THEN Entry("first-row-id", snapshot.firstRow) ELSE <<>>)
SnapshotFromJson(json) ==
    [id |-> json.id, sequence |-> Read(json, "sequence-number"),
     firstRow |-> Read(json, "first-row-id")]

\* SortOrder::to_json and from_json, with what a field may leave out.
OrderToJson(order) == order
SortFieldFromJson(json) ==
    AndThen(TransformOf(OrElse(Read(json, "transform"), Word("identity"))), LAMBDA transform :
        Some([source |-> OrElse(Read(json, "source"), 0), transform |-> transform,
              direction |-> OrElse(Read(json, "direction"), "asc"),
              nulls |-> OrElse(Read(json, "nulls"), "nulls-first")]))
OrderFromJson(json) ==
    AndThen(Every([k \in DOMAIN json.fields |-> SortFieldFromJson(json.fields[k])]), LAMBDA fields :
        Some([id |-> OrElse(Read(json, "id"), 0), fields |-> fields]))

Each(Convert(_), sequence) == [k \in DOMAIN sequence |-> Convert(sequence[k])]

\* to_json: the current schema and spec again for a v1 reader.
ToJson(md) ==
    LET v1 == md.version = 1 IN
    IF v1 /\ (SchemaById(md, md.currentSchema) = <<>> \/ SpecById(md, md.defaultSpec) = <<>>)
    THEN None
    ELSE AndThen(Every(Each(SchemaToJson, md.schemas)), LAMBDA schemas :
         Some(("format-version" :> md.version) @@ ("table-uuid" :> md.uuid)
         @@ ("location" :> md.location)
         @@ (IF v1 THEN ("schema" :> CHOOSE json \in ToSet(schemas) :
                                        \E k \in DOMAIN schemas : schemas[k] = json
                                            /\ md.schemas[k] = SchemaById(md, md.currentSchema)[1])
                        @@ ("partition-spec" :> SpecToV1Json(SpecById(md, md.defaultSpec)[1]))
             ELSE "last-sequence-number" :> md.lastSequence)
         @@ ("last-column-id" :> md.lastColumn) @@ ("schemas" :> schemas)
         @@ ("current-schema-id" :> md.currentSchema)
         @@ ("partition-specs" :> Each(SpecToJson, md.specs))
         @@ ("default-spec-id" :> md.defaultSpec) @@ ("last-partition-id" :> md.lastPartition)
         @@ ("sort-orders" :> Each(OrderToJson, md.orders))
         @@ ("default-sort-order-id" :> md.defaultOrder) @@ ("properties" :> md.properties)
         @@ Entry("current-snapshot-id", md.current)
         @@ ("snapshots" :> [k \in DOMAIN md.snapshots |->
                                SnapshotToJson(md.snapshots[k], md.version)])
         @@ ("refs" :> md.refs)
         @@ (IF md.version >= 3 THEN "next-row-id" :> OrElse(md.nextRow, 0) ELSE <<>>)))

\* The plural of a key, or its singular as v1 wrote it, or what stands for it.
Plural(json, key) == OrElse(Read(json, key), <<>>)
SchemasOf(json) ==
    Every(Each(SchemaFromJson, IF Plural(json, "schemas") = <<>> THEN Read(json, "schema")
                               ELSE json["schemas"]))
SpecsOf(json) ==
    IF Plural(json, "partition-specs") # <<>> THEN Every(Each(SpecFromJson, json["partition-specs"]))
    ELSE IF "partition-spec" \notin DOMAIN json THEN Some(<<Unpartitioned>>)
    ELSE Every(<<SpecFromV1Json(json["partition-spec"])>>)
OrdersOf(json) ==
    IF Plural(json, "sort-orders") = <<>> THEN Some(<<Unsorted>>)
    ELSE Every(Each(OrderFromJson, json["sort-orders"]))
LastPartitionOf(specs) ==
    FoldLeft(LAMBDA highest, spec :
        IF LastPartitionField(spec) > highest THEN LastPartitionField(spec) ELSE highest,
        FirstPartitionId - 1, specs)
MarkedBy(specs, id, schemas) ==
    LET spec == Numbered(specs, id) IN
    IF spec = <<>> THEN schemas ELSE [k \in DOMAIN schemas |-> MarkPartitions(spec[1], schemas[k])]
CurrentOf(json) == SelectSeq(Read(json, "current-snapshot-id"), LAMBDA id : id >= 0)

\* from_json.
FromJson(json) ==
    LET default == OrElse(Read(json, "default-spec-id"), 0)
        required == {"format-version", "location"} \subseteq DOMAIN json
    IN AndThen(IF required THEN SchemasOf(json) ELSE None, LAMBDA schemas :
       AndThen(SpecsOf(json), LAMBDA specs :
       AndThen(OrdersOf(json), LAMBDA orders :
       AndThen(IF schemas = <<>> THEN None ELSE
           Some([version |-> json["format-version"],
                 uuid |-> OrElse(Read(json, "table-uuid"), ""), location |-> json["location"],
                 lastSequence |-> OrElse(Read(json, "last-sequence-number"), 0),
                 lastColumn |-> OrElse(Read(json, "last-column-id"), 0),
                 schemas |-> MarkedBy(specs, default, schemas),
                 currentSchema |-> OrElse(Read(json, "current-schema-id"), 0),
                 specs |-> specs, defaultSpec |-> default,
                 lastPartition |-> OrElse(Read(json, "last-partition-id"), LastPartitionOf(specs)),
                 orders |-> orders,
                 defaultOrder |-> OrElse(Read(json, "default-sort-order-id"), 0),
                 properties |-> Plural(json, "properties"), current |-> CurrentOf(json),
                 snapshots |-> Each(SnapshotFromJson, Plural(json, "snapshots")),
                 refs |-> Plural(json, "refs"), nextRow |-> Read(json, "next-row-id")]), LAMBDA md :
           IF Valid(md) THEN Some(md) ELSE None))))

-----------------------------------------------------------------------------
DocumentInit ==
    /\ \/ \E created \in Created : document = NewDocument(created)
       \/ \E json \in Foreign : \E read \in {FromJson(json)} : read # None /\ document = The(read)
    /\ kept = document
    /\ stored = None
    /\ edits = 0
    /\ unmarked = {}

\* A change closure that succeeded; one that fails changes nothing.
Edit(changed) ==
    /\ edits < MaxEdits
    /\ edits' = edits + 1
    /\ document' = changed
    /\ UNCHANGED <<kept, stored>>
EditUnmarked(changed) == Edit(changed) /\ UNCHANGED unmarked

RECURSIVE NumberedFrom(_, _), CountBelow(_)
CountBelow(fields) ==
    FoldLeft(LAMBDA n, field : n + (IF field.id = None THEN 1 ELSE 0)
                                 + CountBelow(field.type.fields), 0, fields)
\* assign_parquet_field_ids: what has no id, depth first.
NumberedFrom(fields, next) ==
    [k \in DOMAIN fields |->
        LET start == next + CountBelow(SubSeq(fields, 1, k - 1))
            own == IF fields[k].id = None THEN 1 ELSE 0
        IN [fields[k] EXCEPT !.id = IF @ = None THEN Some(start) ELSE @,
                             !.type.fields = NumberedFrom(@, start + own)]]

MaxOf(numbers, least) ==
    CHOOSE n \in numbers \cup {least} : \A m \in numbers \cup {least} : m <= n

\* Mutant: the next schema id counts the schemas.
AddSchemaByCount(md, schema) ==
    LET root == [schema EXCEPT !.fields = NumberedFrom(@, md.lastColumn + 1),
                               !.id = Some(Len(md.schemas))]
    IN [md EXCEPT !.schemas = Append(@, root), !.lastColumn = MaxOf({HighestId(root)}, @)]

\* add_schema: the new schema is not marked.
AddSchema(md, schema) ==
    LET next == MaxOf({SchemaId(md.schemas[k]) : k \in DOMAIN md.schemas}, -1) + 1
        root == [schema EXCEPT !.fields = NumberedFrom(@, md.lastColumn + 1), !.id = Some(next)]
    IN [md EXCEPT !.schemas = Append(@, root), !.lastColumn = MaxOf({HighestId(root)}, @)]

EditSchemas ==
    \/ \E schema \in NewSchemas :
          /\ Edit(AddSchema(document, schema))
          /\ unmarked' = unmarked \cup {SchemaId(Last(document'.schemas))}
    \/ \E root \in {document.schemas[k] : k \in DOMAIN document.schemas} :       \* set_current_schema
          EditUnmarked([document EXCEPT !.currentSchema = SchemaId(root)])

\* add_spec.
AddSpec(spec) ==
    /\ SpecById(document, spec.id) = <<>>
    /\ EditUnmarked([document EXCEPT !.specs = Append(@, spec),
                                     !.lastPartition = MaxOf({LastPartitionField(spec)}, @)])

\* set_default_spec: every schema is marked anew.
SetDefaultSpec(id) ==
    /\ SpecById(document, id) # <<>>
    /\ Edit([document EXCEPT !.defaultSpec = id,
                             !.schemas = MarkedBy(document.specs, id, @)])
    /\ unmarked' = {}

EditSpecs ==
    \/ \E spec \in NewSpecs : AddSpec(spec)
    \/ \E k \in DOMAIN document.specs : SetDefaultSpec(document.specs[k].id)

\* add_sort_order and set_default_sort_order.
EditOrders ==
    \/ \E order \in NewOrders :
          /\ Numbered(document.orders, order.id) = <<>>
          /\ EditUnmarked([document EXCEPT !.orders = Append(@, order)])
    \/ \E k \in DOMAIN document.orders :
          EditUnmarked([document EXCEPT !.defaultOrder = document.orders[k].id])

\* property, set_property and remove_property: a key keeps its place.
Property(md, key) ==
    LET entries == SelectSeq(md.properties, LAMBDA entry : entry[1] = key) IN
    IF entries = <<>> THEN None ELSE Some(entries[1][2])
SetProperty(md, key, value) ==
    [md EXCEPT !.properties =
        IF Property(md, key) = None THEN Append(@, <<key, value>>)
        ELSE [k \in DOMAIN @ |-> IF @[k][1] = key THEN <<key, value>> ELSE @[k]]]
EditProperties ==
    \/ \E key \in Keys, value \in Strings : EditUnmarked(SetProperty(document, key, value))
    \/ \E key \in Keys :
          /\ Property(document, key) # None
          /\ EditUnmarked([document EXCEPT !.properties = SelectSeq(@, LAMBDA entry : entry[1] # key)])

\* set_location, assign_uuid and upgrade_format_version.
EditTable ==
    \/ \E text \in Strings : EditUnmarked([document EXCEPT !.location = text])
    \/ \E uuid \in Uuids : EditUnmarked([document EXCEPT !.uuid = uuid])
    \/ \E version \in document.version .. 3 :
          EditUnmarked([document EXCEPT !.version = version,
                                        !.nextRow = IF version = 3 /\ @ = None THEN Some(0) ELSE @])

\* set_current_snapshot, of a snapshot that takes the next sequence number and
\* in v3 the next rows.
CommitSnapshot ==
    LET id == Len(document.snapshots) + 1
        sequence == document.lastSequence + 1
        numbered == document.version >= 2
    IN EditUnmarked([document EXCEPT
            !.snapshots = Append(@, [id |-> id,
                sequence |-> IF numbered THEN Some(sequence) ELSE None,
                firstRow |-> IF document.version >= 3 THEN document.nextRow ELSE None]),
            !.lastSequence = IF numbered THEN sequence ELSE @,
            !.current = Some(id),
            !.refs = <<[name |-> "main", id |-> id]>>,
            !.nextRow = IF document.version >= 3 THEN Some(OrElse(@, 0) + 1) ELSE @])

\* commit_document: the edited document is written, or given up.
Save ==
    /\ Valid(document)
    /\ \E json \in {ToJson(document)} : json # None /\ stored' = json
    /\ kept' = document
    /\ UNCHANGED <<document, edits, unmarked>>
Reject ==
    /\ ~Valid(document)
    /\ document' = kept
    /\ UNCHANGED <<kept, stored, edits, unmarked>>

\* Table::open.
Open ==
    /\ stored # None
    /\ \E read \in {FromJson(The(stored))} : read # None /\ document' = The(read)
    /\ kept' = document'
    /\ unmarked' = {}
    /\ UNCHANGED <<stored, edits>>

DocumentNext ==
    \/ EditSchemas \/ EditSpecs \/ EditOrders \/ EditProperties \/ EditTable
    \/ CommitSnapshot \/ Save \/ Reject \/ Open

-----------------------------------------------------------------------------
(* Properties.                                                             *)

\* What JSON has no spelling for: the physical variants of a type, the names
\* of a list's and a map's children, and a zone other than UTC.
RECURSIVE Canonical(_), CanonicalFields(_)
Canonical(type) ==
    [type EXCEPT
        !.kind = CASE @ \in {"large_utf8", "utf8_view"} -> "utf8"
                   [] @ \in {"large_binary", "binary_view"} -> "binary"
                   [] @ \in {"large_list", "list_view"} -> "list"
                   [] @ = "us_zoned" -> "us_utc"
                   [] @ = "decimal64" -> "decimal128"
                   [] OTHER -> @,
        !.fields = LET names == CASE type.kind \in {"list", "large_list", "list_view"} -> <<"element">>
                                  [] type.kind = "map" -> <<"key", "value">>
                                  [] OTHER -> [k \in DOMAIN @ |-> @[k].name]
                       below == CanonicalFields(@)
                   IN [k \in DOMAIN below |-> [below[k] EXCEPT !.name = names[k]]]]
CanonicalFields(fields) ==
    [k \in DOMAIN fields |-> [fields[k] EXCEPT !.type = Canonical(@)]]

\* What a version does not write, and how the schemas come back marked.
AsRead(md) ==
    LET spec == SpecById(md, md.defaultSpec)[1] IN
    [md EXCEPT
        !.schemas = [k \in DOMAIN @ |->
            MarkPartitions(spec, [@[k] EXCEPT !.fields = CanonicalFields(@)])],
        !.lastSequence = IF md.version = 1 THEN 0 ELSE @,
        !.nextRow = IF md.version = 3 THEN Some(OrElse(@, 0)) ELSE None,
        !.snapshots = [k \in DOMAIN @ |->
            [@[k] EXCEPT !.sequence = IF md.version >= 2 THEN @ ELSE None,
                         !.firstRow = IF md.version = 3 THEN @ ELSE None]]]

\* A valid document is written, and reads back as it was but for what its
\* version and the type vocabulary leave out (metadata.rs:17-19).
WrittenReadsBack ==
    Valid(document) =>
        \A json \in {ToJson(document)} :
            json # None /\ FromJson(The(json)) = Some(AsRead(document))

\* A spec is read back off the tuple it makes (partition.rs:327-330), and off
\* the columns it marks when those are all its fields, at the top and in
\* order (partition.rs:308-312, schema marks).
MarkedInOrder(spec, root) ==
    \E places \in [DOMAIN spec.fields -> DOMAIN root.fields] :
        /\ \A k \in DOMAIN places : /\ root.fields[places[k]].id = Some(spec.fields[k].source)
                                    /\ root.fields[places[k]].name = spec.fields[k].name
                                    /\ spec.fields[k].id = FirstPartitionId + k - 1
                                    /\ IsIdentity(spec.fields[k].transform)
        /\ \A j, k \in DOMAIN places : j < k => places[j] < places[k]
SpecsReadBack ==
    \A n \in DOMAIN document.schemas, s \in DOMAIN document.specs :
        LET root == document.schemas[n]
            spec == document.specs[s]
            tuple == PartitionField(spec, root)
        IN /\ tuple # None => SpecOfField(The(tuple)) = spec
           /\ MarkedInOrder(spec, root) =>
                  SpecOfMarks(spec.id, MarkPartitions(spec, root)) = Some(spec)

\* A version 1 document that says only what version 1 says, of a table with
\* one schema and one spec of id 0: no plurals, no field ids (metadata.rs:16).
V1Keys == {"format-version", "table-uuid", "location", "last-column-id", "schema",
           "partition-spec", "properties", "current-snapshot-id", "snapshots", "refs"}
AsV1Wrote(json) ==
    [key \in V1Keys \cap DOMAIN json |->
        IF key # "partition-spec" THEN json[key]
        ELSE [k \in DOMAIN json[key] |-> [name |-> json[key][k]["name"],
                transform |-> json[key][k].transform, source |-> json[key][k].source]]]
FirstLayout(md) ==
    /\ md.version = 1 /\ Len(md.schemas) = 1 /\ md.currentSchema = 0
    /\ Len(md.specs) = 1 /\ md.defaultSpec = 0 /\ md.orders = <<Unsorted>>
    /\ \A k \in DOMAIN md.specs[1].fields : md.specs[1].fields[k].id = FirstPartitionId + k - 1
OldFormsRead ==
    Valid(document) /\ FirstLayout(document) =>
        FromJson(AsV1Wrote(The(ToJson(document)))) = Some(AsRead(document))

\* The JSON form is one: what is written reads the same, in the shape of its
\* version or of an older writer, and so do its specs.
DocumentsReadBack == WrittenReadsBack /\ OldFormsRead /\ SpecsReadBack

\* Every schema the handle holds says the layout of the default spec
\* (metadata.rs:876-878), but those added since it was set or read.
SchemasSayLayout ==
    \A k \in DOMAIN document.schemas :
        LET root == document.schemas[k] IN
        SchemaId(root) \notin unmarked =>
            root = MarkPartitions(SpecById(document, document.defaultSpec)[1], root)

\* No id is given twice and no counter falls behind what it counted, whatever
\* the edits; a document is invalid only when a caller numbered the columns of
\* its own schema twice, and is then never stored.
EditsKeepNumbers ==
    /\ IsInjective(Each(SchemaId, document.schemas))
    /\ IsInjective([k \in DOMAIN document.specs |-> document.specs[k].id])
    /\ IsInjective([k \in DOMAIN document.orders |-> document.orders[k].id])
    /\ \A k \in DOMAIN document.schemas : HighestId(document.schemas[k]) <= document.lastColumn
    /\ \A k \in DOMAIN document.specs :
          LastPartitionField(document.specs[k]) <= document.lastPartition
    /\ document.version = 3 => document.nextRow # None
    /\ Valid(document) <=> SchemaNumbered(document)
    /\ Valid(kept)
    /\ stored # None => FromJson(The(stored)) # None
    /\ SchemasSayLayout

=============================================================================
