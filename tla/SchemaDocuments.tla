--------------------------- MODULE SchemaDocuments ---------------------------
(***************************************************************************)
(* Iceberg's spelling of types and schemas (rust/src/iceberg/types.rs,     *)
(* schema.rs and partition.rs): the JSON a table document stores of a      *)
(* schema, a partition spec and their names.                               *)
(*                                                                         *)
(* A JSON object is a function from its keys.  A name with                 *)
(* parameters is [word, in, args], `in' the brackets it was written with;  *)
(* the type of a column is [kind, args, fields], and its JSON an object    *)
(* with the key "name" (a primitive) or "type".  Literals are opaque.      *)
(***************************************************************************)
EXTENDS Options, FiniteSets

-----------------------------------------------------------------------------
(* Names.                                                                  *)

Word(word) == [word |-> word, in |-> "", args |-> <<>>]
Name(word, in, args) == [word |-> word, in |-> in, args |-> args]

\* parenthesized_pair, parenthesized_one and bracketed: brackets are dropped.
Parameters(name, brackets, count) ==
    IF name.in \in brackets /\ Len(name.args) = count THEN Some(name.args) ELSE None

\* PrimitiveType, of a datatype; several datatypes have one.
PlainType ==
    [boolean |-> "boolean", int32 |-> "int", int64 |-> "long", float32 |-> "float",
     float64 |-> "double", date32 |-> "date", time_us |-> "time", us |-> "timestamp",
     us_utc |-> "timestamptz", us_zoned |-> "timestamptz", ns |-> "timestamp_ns",
     ns_utc |-> "timestamptz_ns", null |-> "unknown", utf8 |-> "string",
     large_utf8 |-> "string", utf8_view |-> "string", binary |-> "binary",
     large_binary |-> "binary", binary_view |-> "binary"]

\* from_data_type and Display.
PrimitiveOf(type) ==
    CASE type.kind \in DOMAIN PlainType -> Some(Word(PlainType[type.kind]))
      [] type.kind \in {"decimal64", "decimal128"} -> Some(Name("decimal", "()", type.args))
      [] type.kind = "fixed" -> Some(Name("fixed", "[]", type.args))
      [] OTHER -> None

\* to_data_type.
PlainKinds ==
    [boolean |-> "boolean", int |-> "int32", long |-> "int64", float |-> "float32",
     double |-> "float64", date |-> "date32", time |-> "time_us", timestamp |-> "us",
     timestamptz |-> "us_utc", timestamp_ns |-> "ns", timestamptz_ns |-> "ns_utc",
     unknown |-> "null", string |-> "utf8", binary |-> "binary"]
Leaf(kind, args) == [kind |-> kind, args |-> args, fields |-> <<>>]
DecimalOf(args) ==
    IF args[1] \in 1..76 /\ args[2] <= args[1]
    THEN Some(Leaf(IF args[1] <= 38 THEN "decimal128" ELSE "decimal256", args)) ELSE None

\* from_str and to_data_type.
TypeOfName(name) ==
    CASE name.word \in DOMAIN PlainKinds /\ name.in = "" -> Some(Leaf(PlainKinds[name.word], <<>>))
      [] name.word = "uuid" /\ name.in = "" -> Some(Leaf("fixed", <<16>>))
      [] name.word = "decimal" /\ Holds(Parameters(name, {"()"}, 2)) -> DecimalOf(name.args)
      [] name.word = "fixed" /\ Holds(Parameters(name, {"[]", "()"}, 1)) ->
            IF name.args[1] >= 0 THEN Some(Leaf("fixed", name.args)) ELSE None
      [] OTHER -> None

\* Transform::from_str; a transform is the name it displays as.
TransformOf(name) ==
    CASE name.in = "" /\ name.word \in {"identity", "year", "month", "day", "hour", "void"} ->
            Some(name)
      [] /\ name.word \in {"bucket", "truncate"}
         /\ Holds(Parameters(name, {"[]", "()"}, 1)) -> Some([name EXCEPT !.in = "[]"])
      [] OTHER -> None

IsIdentity(transform) == transform.word = "identity"
IsInvertible(transform) == transform.word \in {"identity", "void"}

\* Transform::result_type.
ResultType(transform, source) ==
    CASE transform.word \in {"identity", "truncate"} -> source
      [] transform.word = "void" -> Leaf("null", <<>>)
      [] OTHER -> Leaf("int32", <<>>)

-----------------------------------------------------------------------------
(* Schemas.  A field is [name, nullable, type, id, props, marked]: props   *)
(* its doc and defaults, marked that it is a partition column.  A root is  *)
(* [id, identifiers, fields].                                              *)

RECURSIVE TypeToJson(_), FieldToJson(_), TypeFromJson(_), FieldFromJson(_), IdsBelow(_)

FieldsToJson(fields) == Every([k \in DOMAIN fields |-> FieldToJson(fields[k])])

\* type_to_json; a child that is not a struct's may lack an id.
TypeToJson(type) ==
    CASE type.kind = "struct" ->
            AndThen(FieldsToJson(type.fields), LAMBDA below :
                Some([type |-> "struct", fields |-> below]))
      [] type.kind \in {"list", "large_list", "list_view"} ->
            AndThen(TypeToJson(type.fields[1].type), LAMBDA element :
                Some([type |-> "list", element |-> element,
                      required |-> ~type.fields[1].nullable]
                     @@ Entry("element-id", type.fields[1].id)))
      [] type.kind = "map" ->
            AndThen(Every([k \in 1..2 |-> TypeToJson(type.fields[k].type)]), LAMBDA pair :
                Some([type |-> "map", key |-> pair[1], value |-> pair[2],
                      required |-> ~type.fields[2].nullable]
                     @@ Entry("key-id", type.fields[1].id)
                     @@ Entry("value-id", type.fields[2].id)))
      [] OTHER -> AndThen(PrimitiveOf(type), LAMBDA name : Some([name |-> name]))

\* fields_to_json.
FieldToJson(field) ==
    AndThen(field.id, LAMBDA id : AndThen(TypeToJson(field.type), LAMBDA type :
        Some([id |-> id, name |-> field.name, required |-> ~field.nullable, type |-> type]
             @@ field.props)))

DistinctNames(fields) == IsInjective([k \in DOMAIN fields |-> fields[k].name])

\* schema_to_json: validate_struct_root, and what fields_to_json refuses.
SchemaToJson(root) ==
    IF ~DistinctNames(root.fields) THEN None
    ELSE AndThen(FieldsToJson(root.fields), LAMBDA below :
         Some([fields |-> below] @@ Entry("schema-id", root.id)
              @@ Entry("identifier-field-ids", root.identifiers)))

Plain(name, nullable, type, id) ==
    [name |-> name, nullable |-> nullable, type |-> type, id |-> id,
     props |-> <<>>, marked |-> FALSE]

FieldsFromJson(entries) ==
    AndThen(Every([k \in DOMAIN entries |-> FieldFromJson(entries[k])]), LAMBDA fields :
        IF DistinctNames(fields) THEN Some(fields) ELSE None)

Nested(kind, fields) == [kind |-> kind, args |-> <<>>, fields |-> fields]
Nullable(json) == ~OrElse(Read(json, "required"), TRUE)

\* typed_field_from_json.
TypeFromJson(json) ==
    IF "name" \in DOMAIN json THEN TypeOfName(json["name"])
    ELSE CASE json.type = "struct" ->
                AndThen(FieldsFromJson(json.fields), LAMBDA below : Some(Nested("struct", below)))
           [] json.type = "list" ->
                AndThen(TypeFromJson(json.element), LAMBDA element :
                    Some(Nested("list", <<Plain("element", Nullable(json), element,
                                                Read(json, "element-id"))>>)))
           [] json.type = "map" ->
                AndThen(Every(<<TypeFromJson(json.key), TypeFromJson(json.value)>>), LAMBDA pair :
                    Some(Nested("map", <<Plain("key", FALSE, pair[1], Read(json, "key-id")),
                                         Plain("value", Nullable(json), pair[2],
                                               Read(json, "value-id"))>>)))
           [] OTHER -> None

PropertyKeys == {"doc", "initial-default", "write-default"}

\* field_from_json.
FieldFromJson(json) ==
    IF ~({"id", "name", "required", "type"} \subseteq DOMAIN json) THEN None
    ELSE AndThen(TypeFromJson(json.type), LAMBDA type :
         Some([Plain(json["name"], ~json.required, type, Some(json.id)) EXCEPT
                 !.props = [key \in PropertyKeys \cap DOMAIN json |-> json[key]]]))

\* schema_from_json.
SchemaFromJson(json) ==
    AndThen(FieldsFromJson(json.fields), LAMBDA fields :
        Some([id |-> Read(json, "schema-id"),
              identifiers |-> Read(json, "identifier-field-ids"), fields |-> fields]))

IdsBelow(fields) ==
    UNION {(IF fields[k].id = None THEN {} ELSE {The(fields[k].id)})
           \cup IdsBelow(fields[k].type.fields) : k \in DOMAIN fields}

\* last_field_id.
HighestId(root) ==
    LET ids == IdsBelow(root.fields) IN
    IF ids = {} THEN 0 ELSE CHOOSE id \in ids : \A other \in ids : other <= id

-----------------------------------------------------------------------------
(* Partition specs: [id, fields], of fields [source, id, name, transform]. *)

FirstPartitionId == 1000
Unpartitioned == [id |-> 0, fields |-> <<>>]

PartFieldToJson(field) ==
    [name |-> field.name, transform |-> field.transform, source |-> field.source,
     id |-> field.id]
SpecToJson(spec) ==
    [id |-> spec.id, fields |-> [k \in DOMAIN spec.fields |-> PartFieldToJson(spec.fields[k])]]
SpecToV1Json(spec) == SpecToJson(spec).fields

\* Mutant: every field without an id is the first.
PartFieldFromJsonFirst(json, k) ==
    AndThen(TransformOf(json.transform), LAMBDA transform :
        Some([source |-> json.source, id |-> OrElse(Read(json, "id"), FirstPartitionId),
              name |-> json["name"], transform |-> transform]))

\* PartitionField::from_json, of the k-th entry: a field without an id is
\* numbered by its place.
PartFieldFromJson(json, k) ==
    AndThen(TransformOf(json.transform), LAMBDA transform :
        Some([source |-> json.source, id |-> OrElse(Read(json, "id"), FirstPartitionId + k - 1),
              name |-> json["name"], transform |-> transform]))

\* PartitionSpec::from_json, of a spec object and of v1's bare array.
SpecNumbered(id, entries) ==
    AndThen(Every([k \in DOMAIN entries |-> PartFieldFromJson(entries[k], k)]), LAMBDA fields :
        Some([id |-> id, fields |-> fields]))
SpecFromV1Json(entries) == SpecNumbered(0, entries)
SpecFromJson(json) == SpecNumbered(OrElse(Read(json, "id"), 0), json.fields)

\* PartitionSpec::last_field_id.
LastPartitionField(spec) ==
    FoldLeft(LAMBDA highest, field : IF field.id > highest THEN field.id ELSE highest,
             FirstPartitionId - 1, spec.fields)

\* field_by_parquet_field_id: depth first.
RECURSIVE ById(_, _)
ById(fields, id) ==
    FoldLeft(LAMBDA found, field :
        IF found # None THEN found
        ELSE IF field.id = Some(id) THEN Some(field) ELSE ById(field.type.fields, id),
        None, fields)

\* mark_partitions and with_partition_fields: by name, at the top.
MarkPartitions(spec, root) ==
    LET sources == {ById(root.fields, spec.fields[k].source) : k \in
                        {k \in DOMAIN spec.fields : IsIdentity(spec.fields[k].transform)}}
        names == {The(source).name : source \in sources \ {None}}
    IN [root EXCEPT !.fields = [k \in DOMAIN @ |->
            [@[k] EXCEPT !.marked = root.fields[k].name \in names]]]

\* PartitionSpec::from_schema and identity, of the columns that are marked.
SpecOfMarks(id, root) ==
    LET marked == SelectSeq(root.fields, LAMBDA field : field.marked) IN
    IF \E k \in DOMAIN marked : marked[k].id = None THEN None
    ELSE Some([id |-> id, fields |-> [k \in DOMAIN marked |->
            [source |-> The(marked[k].id), id |-> FirstPartitionId + k - 1,
             name |-> marked[k].name, transform |-> Word("identity")]]])

\* partition_field: the tuple a manifest stores, [spec, fields], its fields
\* with the source and the transform that made them.
PartitionField(spec, root) ==
    AndThen(Every([k \in DOMAIN spec.fields |->
                AndThen(ById(root.fields, spec.fields[k].source), LAMBDA source :
                    Some([Plain(spec.fields[k].name, TRUE,
                                ResultType(spec.fields[k].transform, source.type),
                                Some(spec.fields[k].id)) EXCEPT
                            !.props = ("partition-source-id" :> spec.fields[k].source)
                                      @@ ("transform" :> spec.fields[k].transform),
                            !.marked = TRUE]))]), LAMBDA children :
        IF DistinctNames(children) THEN Some([spec |-> spec.id, fields |-> children]) ELSE None)

\* PartitionSpec::from_field.
SpecOfField(tuple) ==
    [id |-> tuple.spec,
     fields |-> [k \in DOMAIN tuple.fields |->
        LET child == tuple.fields[k] IN
        [source |-> child.props["partition-source-id"], id |-> The(child.id),
         name |-> child.name, transform |-> child.props["transform"]]]]

=============================================================================
