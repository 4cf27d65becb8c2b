----------------------------- MODULE MCSchemas -----------------------------
(* Small instances, for TLC, of what is done with schemas: a field's life,  *)
(* the comparison of two schemas, the normalization of one, and a cast or the *)
(* evolution of a table (MCSchemaEvolution).                                *)
EXTENDS Fields, TLC

CONSTANTS KeyCapacity, Handles, FirstColumns, Updates, Batches, MaxEvolutions, MaxFiles

Order == <<
    <<"PARQUET", ":", "field_id">>, <<"alias">>, <<"field">>, <<"field", ":", "Content-Type">>, <<"field", ":", "a">>, <<"field", ":", "init">>,
    <<"field", ":", "partition">>,
    <<"http">>, <<"http", ":", "a">>, <<"http", ":", "content-encoding">>, <<"http", ":", "content-length">>,
    <<"http", ":", "content-type">>, <<"location">>,
    <<"postgres">>, <<"postgres", "-legacy">>, <<"postgres", ":", "Content-Type">>,
    <<"postgres", ":", "a">>, <<"postgres", "ql">>, <<"postgres", "ql", ":", "a">> >>

Small == [token \in {"Content-Type"} |-> "content-type"]

SomeSchemes == {<<"http">>, <<"https">>, <<"postgres">>, <<"field">>}

Entries == {
    <<<<"alias">>, "">>,
    <<<<"field", ":", "partition">>, "false">>,
    <<<<"PARQUET", ":", "field_id">>, "+7">>,
    <<<<"HTTPS", ":", "Content-Type">>, "text/a;q">>,
    <<<<"http", ":", "content-encoding">>, "tab">>,
    <<<<"http", ":", "content-length">>, "07">>,
    <<<<"location">>, "FILE:/a">>,
    <<<<"postgres", "-legacy">>, "">>,
    <<<<"postgres", ":", "a">>, "x">>,
    <<<<"postgres", "ql", ":", "a">>, "x">> }

\* Two at a time: of one key, spelled alike or not, of two, and refused.
Header(key, value) == <<<<"http", ":", key>>, value>>
SomeLists == {<<>>,
    <<Header("content-type", "text/a"), <<<<"HTTPS", ":", "Content-Type">>, "text/a;q">>>>,
    <<<<<<"postgres", ":", "a">>, "x">>, <<<<"field", ":", "partition">>, "true">>>>,
    <<<<<<"location">>, "file:/a">>, <<<<"field", ":", "init">>, "no">>>>}

SomeProperties == {<<<<"a">>, "x">>, <<<<"Content-Type">>, "plain">>, <<<<>>, "x">>}

Leaf(name) == NewField(name, [kind |-> "int"], FALSE, Empty)

SomeTypes == {[kind |-> "int"], [kind |-> "dictionary"], StructOf(<<Leaf("a")>>)}

\* Arrow fields whose keys and values are spelled otherwise, or twice.
Spelled(metadata) == Arrow("a", [kind |-> "int"], FALSE, [id |-> 0, ordered |-> FALSE], metadata)
Respelled == Single(<<"HTTP", ":", "Content-Type">>, "text/b")
SomeForeign == {
    Spelled(Respelled),
    Spelled(Overlay(Respelled, Single(ContentType, "text/a"))),
    Arrow("a", StructOf(<<Spelled(Respelled)>>), FALSE, [id |-> 0, ordered |-> FALSE],
          Single(FieldIdKey, "7")) }

SomeMedia == {[base |-> "text/a", coding |-> c] : c \in {"none", "zlib", "xz"}}

VARIABLES
    part,
    left, right, root, withMetadata, returnEqual, work, pending, lines, closed,
    given, current,
    table, handles, overridden, asked, answer

E == INSTANCE MCSchemaEvolution

\* Its values for the constants, which depend on none of them.
Given == INSTANCE MCSchemaEvolution WITH
            KeyCapacity <- 0, Handles <- {}, FirstColumns <- <<>>, Updates <- {}, Batches <- {},
            MaxEvolutions <- 0, MaxFiles <- 0
TwoLevels == Given!TwoLevels
SomeUpdates == Given!SomeUpdates
SomeBatches == Given!SomeBatches
Alike == Permutations(Handles)
tableVars == <<table, handles, overridden, asked, answer>>

-----------------------------------------------------------------------------
(* Pairs of schemas to compare, two levels deep, with storage shared or not. *)

Bare == [key \in {} |-> ""]
One(value) == [key \in {"b"} |-> value]
Both(value) == [key \in {"a", "b"} |-> value]

Kind(kind, params, fields, types, ids, at) ==
    [kind |-> kind, params |-> params, fields |-> fields, types |-> types, ids |-> ids, at |-> at]
NoParams == [name \in {} |-> ""]
Simple(kind) == Kind(kind, NoParams, <<>>, <<>>, <<>>, 0)
Stamp(unit, zone) == Kind("timestamp", [unit |-> unit, timezone |-> zone], <<>>, <<>>, <<>>, 0)

Named(name, type, at, entries) ==
    [name |-> name, nullable |-> FALSE, dictionary |-> [id |-> 0, ordered |-> FALSE],
     metadata |-> [at |-> at, entries |-> entries], type |-> type]

\* Empty metadata is one shared object.
Unshared(type) == Named("c", type, 9, Bare)
Members == {Unshared(Simple("int")), Unshared(Simple("text")), Unshared(Stamp("s", "utc")),
            Unshared(Stamp("ms", "paris")), Named("c", Simple("int"), 0, One("x")),
            [Unshared(Simple("int")) EXCEPT !.nullable = TRUE, !.name = "d"]}

Coded(key, value, id, ordered) ==
    [Unshared(Kind("dictionary", NoParams, <<>>, <<Simple(key), Simple(value)>>, <<>>, 0))
       EXCEPT !.dictionary = [id |-> id, ordered |-> ordered]]

Structs == {Kind("struct", NoParams, fields, <<>>, <<>>, 0) :
              fields \in {<<>>} \union {<<m>> : m \in Members}
                           \union {<<m, Unshared(Simple("int"))>> : m \in Members}}
Unions == {Kind("union", [mode |-> mode], fields, <<>>, SubSeq(ids, 1, Len(fields)), 0) :
             mode \in {"dense", "sparse"}, ids \in {<<0, 1>>, <<0, 2>>, <<3, 1>>},
             fields \in {<<m, n>> : m \in {Unshared(Simple("int")), Unshared(Simple("text"))}, n \in {Unshared(Simple("int"))}}
                          \union {<<Unshared(Simple("int"))>>}}
Others == {Kind("list", NoParams, <<m>>, <<>>, <<>>, 0) : m \in Members}
    \union {Kind("fixed", [length |-> n], <<m>>, <<>>, <<>>, 0) : n \in {"1", "2"},
              m \in {Unshared(Simple("int")), Named("c", Simple("int"), 0, One("x"))}}
    \union {Kind("map", [keys_sorted |-> n], <<Unshared(type)>>, <<>>, <<>>, 0) : n \in {"yes", "no"},
              type \in {Kind("struct", NoParams, <<Unshared(Simple("int")), Unshared(Simple(v))>>, <<>>, <<>>, 0)
                          : v \in {"int", "text"}}}
    \union {Kind("ree", NoParams, <<Unshared(Simple("int")), m>>, <<>>, <<>>, 0) : m \in Members}

Tops == {Unshared(type) : type \in Structs \union Others \union Unions \union {Simple("int")}}
Listed(type) == Unshared(Kind("list", NoParams, <<Named("item", type, 0, Both("x"))>>, <<>>, <<>>, 0))

\* Two fields over one storage, and fields beside it.
AtOne(f, entries) == [f EXCEPT !.type.at = 1, !.metadata = [at |-> 0, entries |-> entries]]
Sharing == {<<AtOne(f, One("x")), AtOne(f, entries)>> :
              f \in Tops, entries \in {One("x"), One("y"), Both("x"), Bare}}

Similar(f, g) == f.type.kind = g.type.kind
SomePairs ==
    {pair \in Tops \X Tops : Similar(pair[1], pair[2])} \union Sharing
      \union {<<Unshared(Simple("int")), Coded("int", "text", 0, FALSE)>>}
      \union {Coded("int", "text", 0, FALSE), Coded("int", "int", 1, FALSE), Coded("text", "text", 0, TRUE)}
               \X {Coded("int", "text", 0, FALSE), Coded("text", "int", 1, TRUE)}
      \union {<<Listed(g.type), Listed(f.type)>> : f, g \in {h \in Tops : h.type.kind = "struct"}}

D == INSTANCE SchemaDiff WITH Pairs <- SomePairs, KeyOrder <- <<"a", "b">>

diffVars == <<left, right, root, withMetadata, returnEqual, work, pending, lines, closed>>

-----------------------------------------------------------------------------
(* Schemas to normalize, two levels deep.                                  *)

Data(kind, fields, types) == [kind |-> kind, fields |-> fields, types |-> types]
Column(metadata, type) ==
    [name |-> "c", nullable |-> FALSE, metadata |-> metadata, type |-> type]
Scalar(kind) == Data(kind, <<>>, <<>>)

SomeKinds == {"int8", "uint8", "uint64", "float16", "utf8", "large_utf8", "fixed_binary",
    "decimal32", "decimal32(negative)", "decimal256", "timestamp(s)", "timestamp(us)",
    "timestamp(ns)", "date64", "time64(us)", "time64(ns)", "interval(year_month)",
    "duration(us)", "null"}
Inner == {Column(m, Scalar(kind)) : m \in {"plain", "extension"}, kind \in SomeKinds}

Over(item) ==
    {Data(kind, <<item>>, <<>>) :
        kind \in {"list", "list_view", "large_list", "large_list_view", "fixed_list"}}
    \union {Data("struct", <<item, Column("plain", Scalar("int32"))>>, <<>>),
            Data("struct", <<Column("plain", Scalar("uint8")), item>>, <<>>),
            Data("map", <<Column("plain", Data("struct", <<Column("plain", Scalar("utf8")), item>>, <<>>))>>, <<>>),
            Data("union", <<item>>, <<>>),
            Data("dictionary", <<>>, <<Scalar("int32"), item.type>>),
            Data("ree", <<Column("plain", Scalar("int32")), item>>, <<>>),
            Data("ree", <<Column("extension", Scalar("int32")), item>>, <<>>)}

OneLevel == UNION {Over(item) : item \in Inner}
Fewer == UNION {Over(item) : item \in {Column(m, Scalar(kind)) :
            m \in {"plain", "extension"}, kind \in {"int8", "int32", "timestamp(ns)"}}}
SomeGivens == {Column(m, type) : m \in {"plain", "extension"},
    type \in {Scalar(kind) : kind \in SomeKinds} \union OneLevel
               \union UNION {Over(Column(m2, type)) : m2 \in {"plain", "extension"}, type \in Fewer}}

C == INSTANCE SchemaCompat WITH Givens <- SomeGivens

-----------------------------------------------------------------------------
AField == NewField("a", [kind |-> "int"], FALSE, Empty)
AColumn == Column("plain", Scalar("null"))

NoField == field = AField
NoDiff ==
    /\ left = Unshared(Simple("int")) /\ right = left
    /\ root = "field" /\ withMetadata = FALSE /\ returnEqual = FALSE
    /\ work = <<>> /\ pending = <<>> /\ lines = <<>> /\ closed = FALSE
NoCompat == given = AColumn /\ current = AColumn
NoTable == E!NoSchema

OneOf ==
    \/ part = "field" /\ Init /\ NoDiff /\ NoCompat /\ NoTable
    \/ part = "diff" /\ D!Init /\ NoField /\ NoCompat /\ NoTable
    \/ part = "compat" /\ C!CompatInit /\ NoField /\ NoDiff /\ NoTable
    \/ part = "table" /\ E!OneOf /\ NoField /\ NoDiff /\ NoCompat
OneStep ==
    /\ UNCHANGED part
    /\ \/ part = "field" /\ Next /\ UNCHANGED <<diffVars, given, current, tableVars>>
       \/ part = "diff" /\ D!Next /\ UNCHANGED <<field, given, current, tableVars>>
       \/ part = "compat" /\ C!CompatNext /\ UNCHANGED <<field, diffVars, tableVars>>
       \/ part = "table" /\ E!Step /\ UNCHANGED <<field, diffVars, given, current>>
Schemas == OneOf /\ [][OneStep]_<<part, field, diffVars, given, current, tableVars>>

\* A comparison yields every difference once, and nothing else.
DiffsAreExact == part = "diff" => D!DiffsAreExact

\* A normalized schema is the target's and stays what it was.
CompatIsStable == C!CompatIsStable

\* What a cast returns is of the values it was given and of the field it was
\* asked for (plan.rs).
CastsHold == part = "table" => E!CastsHold

\* As updates evolve the schema, a field id names one column (evolve.rs).
IdsNameColumns == part = "table" => E!IdsNameColumns

\* A file is scanned by the names its columns have now and pruned by their ids,
\* and each column shows its own cells (table.rs, scan.rs).
ScansFollowColumns == part = "table" => E!ScansFollowColumns

=============================================================================
