--------------------------- MODULE MCTableFiles ---------------------------
(* Small instances, for TLC, of what a table keeps in files, of TableDocument *)
(* and ManifestCommits, and the cases Manifests is checked over.              *)
EXTENDS Manifests

-----------------------------------------------------------------------------
(* Documents: schemas with what JSON has no spelling of, specs by columns   *)
(* and by other transforms, and documents of other writers.                 *)

Column(name, type, nullable, id) == Plain(name, nullable, type, id)
Root(id, fields) == [id |-> id, identifiers |-> None, fields |-> fields]
String == Leaf("utf8", <<>>)

\* A column of a struct beside plain ones.
Venues == Root(None, <<
    Column("a", String, TRUE, Some(1)),
    Column("b", Leaf("large_utf8", <<>>), FALSE, Some(2)),
    Column("s", Nested("struct", <<Column("x", Leaf("us_zoned", <<>>), TRUE, Some(4))>>),
           TRUE, Some(3)) >>)
Deep == Root(Some(0), <<
    Column("l", Nested("large_list", <<Column("item", Leaf("decimal64", <<9, 2>>), TRUE, Some(2))>>),
           TRUE, Some(1)),
    Column("m", Nested("map", <<Column("keys", Leaf("fixed", <<16>>), FALSE, None),
                              Column("values", Leaf("int32", <<>>), TRUE, Some(5))>>),
           TRUE, Some(3)) >>)

Part(source, id, name, transform) ==
    [source |-> source, id |-> id, name |-> name, transform |-> transform]
Identity == Word("identity")
ByB == [id |-> 0, fields |-> <<Part(2, 1000, "b", Identity)>>]
ByAB == [id |-> 0, fields |-> <<Part(1, 1000, "a", Identity), Part(2, 1001, "b", Identity)>>]
AnyCreated ==
    { [version |-> version, schema |-> table[1], spec |-> table[2]] :
        version \in 1..3, table \in {<<Venues, ByAB>>, <<Deep, Unpartitioned>>} }

\* Columns to be numbered, below one too; and two a caller numbered alike.
AnySchemas == {
    Root(None, <<Column("a", String, TRUE, Some(1)),
                 Column("c", Nested("struct", <<Column("y", String, TRUE, None)>>), TRUE, None),
                 Column("d", String, FALSE, None)>>),
    Root(Some(9), <<Column("a", String, TRUE, Some(7)), Column("b", String, TRUE, Some(7))>>) }
\* Fields out of order, of a nested column, and of one that is retired.
AnySpecs == {
    [id |-> 3, fields |-> <<Part(2, 1004, "b", Identity),
                            Part(1, 1001, "a_bucket", Name("bucket", "[]", <<16>>))>>],
    [id |-> 1, fields |-> <<Part(4, 1000, "x", Identity), Part(1, 1003, "a", Word("void"))>>] }
AnyOrders == { [id |-> 1, fields |-> <<[source |-> 1, transform |-> Word("year"),
                                        direction |-> "desc", nulls |-> "nulls-last"]>>] }

\* A version 2 document that leaves out what it may, and a version 1 one.
Json(root) == The(SchemaToJson(root))
AnyForeign == {
    ("format-version" :> 2) @@ ("location" :> "w") @@ ("last-column-id" :> 4)
      @@ ("schemas" :> <<Json(Venues), Json([Venues EXCEPT !.id = Some(2)])>>)
      @@ ("current-schema-id" :> 2) @@ ("partition-specs" :> <<SpecToJson(ByB)>>)
      @@ ("current-snapshot-id" :> -1),
    ("format-version" :> 1) @@ ("location" :> "w") @@ ("last-column-id" :> 4)
      @@ ("schema" :> Json(Venues)) @@ ("partition-spec" :> SpecToV1Json(ByAB))
      @@ ("sort-orders" :> <<[id |-> 0, fields |-> <<[source |-> 1]>>]>>) }

-----------------------------------------------------------------------------
(* Manifests, their entries and their lists.                               *)

Flat(name, type, id) == Column(name, Leaf(type, <<>>), TRUE, Some(id))
AnySchema ==
    Root(None, <<Flat("a", "int32", 1), Flat("b", "utf8", 2), Flat("d", "date32", 3)>>)

\* By a column, by two out of order, and by a date.
ByA == [id |-> 0, fields |-> <<Part(1, 1000, "a", Word("identity"))>>]
ByBA == [id |-> 1, fields |-> <<Part(2, 1001, "b", Word("identity")),
                                Part(1, 1000, "a_bucket", Name("bucket", "[]", <<16>>))>>]
ByD == [id |-> 2, fields |-> <<Part(3, 1000, "d", Word("identity"))>>]
FileSpecs == {ByA, ByBA, ByD}

\* A file that says the least, and one that says all.
NoPairs == [key \in ToSet(CountKeys) |-> <<>>]
NoBounds == [key \in ToSet(BoundKeys) |-> <<>>]
File(path, tuple) ==
    [content |-> 0, path |-> path, format |-> "PARQUET", partition |-> tuple, records |-> 2,
     size |-> 9, counts |-> NoPairs, bounds |-> NoBounds, offsets |-> <<>>, order |-> None,
     firstRow |-> None]
Full(path, tuple) ==
    [File(path, tuple) EXCEPT !.content = 1, !.format = "ORC", !.offsets = <<4, 8>>,
        !.counts = [@ EXCEPT !["column_sizes"] = << <<1, 7>>, <<2, 5>> >>,
                             !["nan_value_counts"] = << <<1, 0>> >>],
        !.bounds = [@ EXCEPT !["upper_bounds"] = << <<2, "z">> >>],
        !.order = Some(0), !.firstRow = Some(10)]
AnyContents == { [spec |-> 0, file |-> File("", <<Integer(1)>>)],
                 [spec |-> 1, file |-> Full("", <<Text("x"), Null>>)],
                 [spec |-> 2, file |-> File("", <<Integer(1)>>)] }
TwoPaths == <<"f1", "f2">>

EntryOf(status, snapshot, number, file) ==
    [status |-> status, snapshot |-> snapshot, sequence |-> number, fileSequence |-> number,
     file |-> file]
NewOf(file) == EntryOf(Added, Some(3), None, file)

\* No entry; each status; tuples too short, of another type, of a date; none.
EntryCases == {
    <<ByA, <<>> >>,
    <<ByA, <<NewOf(File("f", <<Integer(1)>>)), EntryOf(Deleted, None, Some(2), Full("g", <<Null>>))>> >>,
    <<ByA, <<NewOf(File("f", <<Text("x")>>))>> >>,
    <<ByA, <<NewOf(File("f", <<>>))>> >>,
    <<ByBA, <<EntryOf(Existing, Some(3), Some(1), Full("f", <<Text("x"), Integer(3)>>))>> >>,
    <<ByD, <<NewOf(File("f", <<Null>>))>> >>,
    <<Unpartitioned, <<EntryOf(Added, Some(3), Some(4), Full("f", <<>>))>> >> }

ZeroCounts == [key \in ToSet(RowCounts) |-> 0]
FullRow ==
    [path |-> "m", length |-> 5, spec |-> 1, content |-> 1, sequence |-> 3, least |-> 2,
     snapshot |-> 7, firstRow |-> Some(9),
     counts |-> [ZeroCounts EXCEPT !["added_files_count"] = 2, !["deleted_rows_count"] = 4],
     partitions |-> <<[null |-> TRUE, nan |-> Some(FALSE), lower |-> Some("q"), upper |-> None],
                      [null |-> FALSE, nan |-> None, lower |-> None, upper |-> Some("r")]>>]
BareRow == [FullRow EXCEPT !.content = 0, !.partitions = <<>>, !.firstRow = None]
ListCases == { <<>>, <<FullRow>>, <<BareRow, FullRow>> }

EncodingsReadBack ==
    /\ IntegersReadBack(6, 3) /\ IntegersReadBack(7, 3)
    /\ BlocksReadBack(Primitive("long"), <<Integer(1), Integer(2)>>)
    /\ \A at \in 1..3 : \A case \in EntryCases : EntriesReadBack(at, AnySchema, case[1], case[2])
    /\ \A at \in 1..3 : \A rows \in ListCases : RowsReadBack(at, rows)

-----------------------------------------------------------------------------
(* Where a table starts: empty; left by a version 1 writer, that named and  *)
(* cut things otherwise, with a file removed and one empty; and a version 2 *)
(* table with deletes, one entry's numbers spelled out.                     *)

EmptyTable(version) ==
    [table |-> [version |-> version, sequence |-> 0, list |-> None], manifests |-> <<>>,
     live |-> <<>>]
LiveFile(tuple, born) == [spec |-> 0, partition |-> tuple, born |-> born]

OldSchema ==
    RecordOf("manifest_file", << Required("manifest_path", "string"),
        Required("manifest_length", "long"), Required("added_snapshot_id", "long"),
        Maybe("added_data_files_count", "int"), Maybe("existing_data_files_count", "int"),
        Required("partition_spec_id", "int") >>)
OldRow ==
    Mapping(<<"manifest_path", "manifest_length", "added_snapshot_id", "added_data_files_count",
              "existing_data_files_count", "partition_spec_id">>,
            <<Text("old"), Integer(3), Integer(4), Integer(1), Integer(2), Integer(0)>>)
OldEntries ==
    << EntryOf(Added, Some(4), None, File("g1", <<Integer(2)>>)),
       EntryOf(Deleted, Some(4), None, File("g2", <<Integer(2)>>)),
       EntryOf(Existing, Some(4), None, [File("g3", <<Integer(2)>>) EXCEPT !.records = 0]),
       EntryOf(Existing, Some(3), None, File("g4", <<Null>>)) >>
OldTable ==
    [table |-> [version |-> 1, sequence |-> 0, list |-> WriteContainer(OldSchema, <<>>, <<OldRow>>)],
     manifests |-> "old" :> Recut(The(WriteManifest(1, AnySchema, ByA, OldEntries)), "null"),
     live |-> ("g1" :> LiveFile(<<Integer(2)>>, 0)) @@ ("g4" :> LiveFile(<<Null>>, 0))]

SpeltEntries ==
    << EntryOf(Existing, None, Some(2), File("g4", <<Null>>)),
       EntryOf(Added, None, None, File("g1", <<Integer(2)>>)) >>
TableWithDeletes ==
    [table |-> [version |-> 2, sequence |-> 5, list |-> WriteList(2,
        << [BareRow EXCEPT !.path = "old", !.spec = 0, !.sequence = 4],
           [FullRow EXCEPT !.path = "deletes", !.sequence = 5, !.least = 5] >>)],
     manifests |-> "old" :> The(WriteManifest(2, AnySchema, ByA, SpeltEntries)),
     live |-> ("g1" :> LiveFile(<<Integer(2)>>, 4)) @@ ("g4" :> LiveFile(<<Null>>, 2))]
AnyTables == {EmptyTable(1), EmptyTable(3), OldTable, TableWithDeletes}

=============================================================================
