------------------------------ MODULE MCTables ------------------------------
(* Small instances, for TLC, of the ways a table is found and kept: an      *)
(* execution writes and scans an Iceberg table, writes a folder as one      *)
(* table, or handles the location of one.                                   *)
EXTENDS IcebergScan, FolderWrites, Locations

VARIABLE subject  \* what this execution is about

-----------------------------------------------------------------------------
(* Iceberg tables: two values, the null and, in one of the columns, a NaN, *)
(* which is the greatest.                                                  *)

Cell(part, key) == [part |-> part, key |-> key]

\* Nothing; one row; rows of two partitions out of order with a key that
\* arrives twice in a batch and again in a later one; the null on either side
\* and in a batch of its own; a NaN.
AnyIncoming ==
    { <<>>,
      << <<Cell(1, 1)>> >>,
      << <<Cell(1, 2), Cell(2, 2), Cell(1, 1)>>, <<Cell(2, 1)>> >>,
      << <<Cell(Null, 2)>>, <<Cell(2, Null), Cell(Null, 1)>> >>,
      << <<Cell(2, 3)>> >> }

Equals(column, value) == [column |-> column, value |-> value, isNull |-> FALSE]
IsNull(column) == [column |-> column, value |-> Null, isNull |-> TRUE]

\* The last two are texts the column's type cannot read.
AnyReadFilters ==
    { {}, {Equals("part", 1)}, {Equals("part", 2)}, {IsNull("part")},
      {Equals("key", 1)}, {Equals("key", 2)}, {Equals("key", 3)}, {IsNull("key")},
      {Equals("part", 1), Equals("key", 2)}, {IsNull("part"), IsNull("key")},
      {Equals("part", Null)}, {Equals("key", Null)} }

AnyWriteFilters == { {}, {Equals("part", 1)}, {Equals("key", 2)} }
AnyKeys == { {"key"}, {"part", "key"} }

-----------------------------------------------------------------------------
(* Folders: a text column and an integer one, whose values are written as  *)
(* their text, to lay the tree out by.                                     *)

FolderRow(part, key, val) == [part |-> part, key |-> key, val |-> val]
Stored(key, val) == [key |-> key, val |-> val]
Part(text) == <<<<"part", text>>>>
Leaf(dir, number) == [dir |-> dir, number |-> number]

\* An empty folder; a directory that declares the layout; one leaf in each of
\* two partitions; two leaves in one; a leaf above the directories; a flat one.
AnyFolder ==
    { [dirs |-> {}, leaves |-> <<>>],
      [dirs |-> {Part("p")}, leaves |-> <<>>],
      [dirs |-> {Part("p"), Part("q")},
       leaves |-> (Leaf(Part("p"), 0) :> <<Stored("1", "x"), Stored("2", "x")>>)
               @@ (Leaf(Part("q"), 0) :> <<Stored("1", "x")>>)],
      [dirs |-> {Part("p")},
       leaves |-> (Leaf(Part("p"), 0) :> <<Stored("1", "x")>>)
               @@ (Leaf(Part("p"), 1) :> <<Stored("2", "x")>>)],
      [dirs |-> {Part("q")},
       leaves |-> (Leaf(<<>>, 0) :> <<FolderRow("p", "1", "x")>>)
               @@ (Leaf(Part("q"), 0) :> <<Stored("1", "x")>>)],
      [dirs |-> {}, leaves |-> Leaf(<<>>, 0) :> <<FolderRow("p", "1", "x")>>] }

\* Nothing; two batches that meet in a partition, with a key that arrives
\* twice; a null beside the text that spells it.
AnyBatches ==
    { <<>>,
      << <<FolderRow("p", "1", "y"), FolderRow("q", "2", "y"), FolderRow("p", "2", "y")>>, <<FolderRow("p", "2", "z")>> >>,
      << <<FolderRow(Null, "1", "y"), FolderRow("null", "1", "z")>>, <<FolderRow("q", Null, "y")>> >> }

AnyRequest ==
    [kind : {"overwrite", "append"}, by : {{}, {"key"}, {"part"}, {"part", "key"}},
     declared : {<<>>, <<"part">>, <<"key">>}, batches : AnyBatches]

-----------------------------------------------------------------------------
(* Locations.                                                              *)

Of(word) == <<word>>

\* Spelt with the wrong case, the wrong separators, without an authority or
\* with one that is a drive; relative; globs; what URNs alone allow.
AnyText ==
    { <<"FILE", ":", "/", "/", "/", "w", "/", "x", ".", "csv">>,
      <<"file", ":", "w", "/">>,
      <<"file", ":", "\\", "\\", "host", "\\", "w">>,
      <<"file", ":", "/", "/", "host">>,
      <<"file", ":", "/", "/", "/", "/", "w", "/", "/", "x">>,
      <<"file", ":", "/", "/", "c", ":", "/", "%43">>,
      <<"file", ":", "/", "/", "/", "w", "/", "*", "*", "/", "*", ".", "csv">>,
      <<"file", ":", "/", "/", "/", ".", "w", "/", "*", ".", "csv">>,
      <<"http", ":", "/", "/", "host", "/", "*", "/", "x", ".", "csv">>,
      <<"http", ":", "/", "/", "u", "@", "host", ":", "1", "?", "w", "=", "1", "#", "?">>,
      <<"http", ":", "/", "/", "[", "::1", "]", "/", ".", "x", ".", "tgz">>,
      <<"c", ":", "/", "w">>, <<"c", ":", "w">>, <<"c", ":", "\\", "w">>,
      <<"urn", ":", "ISBN", ":", "x", ".", "csv", "?", "+", "w", "?", "=", "x">>,
      <<"/", "w", "%2f", "x">>, <<"w", "\\", "x">>, <<"\\", "w">> }

\* A server's share, a drive, slashes to lose, what must be encoded.
AnyPath ==
    { <<"\\", "\\", "host", "\\", "w">>, <<"c", ":", "/", "w">>, <<"/", "w", "/">>,
      <<"/", "/", "/", "w", "/", ".", ".">>, <<"/", "%43">>,
      <<"w", " ", "x", ".", "csv", ".", "gz">> }

AnyName ==
    { Of("x"), Of("csv"), Of("%2f"), <<".", ".">>, <<".", "w">>, <<"w", ".", "gz">>,
      <<"w", "/">>, <<"c", ":">> }

AnyMedia ==
    { [base |-> "csv", codings |-> Of("gz")], [base |-> "bin", codings |-> <<>>],
      [base |-> "custom", codings |-> <<>>] }

\* The last five are patterns as well.
AnyJoin ==
    { <<>>, Of("x"), Of("%20"), Of(" "), <<".", ".">>, <<".", ".", "/">>, <<"/", "y", "/">>,
      <<"w", "/", ".", ".", "/", "x">>, <<"/", "c", ":", "/", "x">>, <<"x", "=", "1">>,
      Of("*"), <<"*", "*">>, <<"*", ".", "csv">> }

AnyValue ==
    { <<>>, Of("1"), Of("%43"), Of(" "), <<"x", "=", "1">>, <<"1", "/", "2">>, <<".", ".">>,
      <<"c", ":">> }
AnyPartition ==
    {<<<<Of("p"), value>>>> : value \in AnyValue}
    \cup {<<<<Of("p"), Of("1")>>, <<Of("q"), Of("2")>>>>}

AnySubtree == { UNION {[1..n -> {Of("w"), <<"x", ".", "csv">>, <<".", "w">>}] : n \in 1..3} }

AnySegmentText == UNION {[1..n -> {"c", "C", "1", "-", "]"}] : n \in 0..3}
AnySegmentPattern ==
    { <<"*">>, <<"c", "*">>, <<"*", "c">>, <<"*", "c", "*", "1">>, <<"?", "*", "?">>,
      <<"[", "1", "-", "C", "]">>, <<"[", "!", "c", "]", "*">>, <<"[", "^", "1", "-", "]">>,
      <<"[", "]", "c", "]">>, <<"[", "c">>, <<"c", "[", "1", "-">>, <<"[", "1", "-", "C">>,
      <<"[", "!", "c">>, <<"[", "1", "-", "1">>, <<"[", "^", "c">> }

-----------------------------------------------------------------------------
NoWrites == spec = "none" /\ manifests = <<>> /\ writes = 0
            /\ asked = [op |-> "none", batches |-> <<>>, filters |-> {}, by |-> {},
                        before |-> <<>>, layouts |-> {}]
NoFolder ==
    /\ dirs = {} /\ leaves = <<>> /\ call = NoCall /\ phase = "idle" /\ toClear = {}
    /\ batches = <<>> /\ groups = <<>> /\ written = {} /\ before = <<>>
    /\ ended = "none" /\ calls = 0 /\ faults = 0
NoLocation == view = "unused" /\ location = Failed /\ changes = 0

OneSubject ==
    \/ subject = "rows" /\ Init /\ NoFolder /\ NoLocation
    \/ subject = "folder" /\ FolderInit /\ NoWrites /\ NoLocation
    \/ subject = "location" /\ LocationInit /\ NoWrites /\ NoFolder
OneStep ==
    /\ \/ subject = "rows" /\ Next /\ UNCHANGED <<folderVars, locationVars>>
       \/ subject = "folder" /\ FolderNext /\ UNCHANGED <<vars, locationVars>>
       \/ subject = "location" /\ LocationNext /\ UNCHANGED <<vars, folderVars>>
    /\ UNCHANGED subject
EachSubject == OneSubject /\ [][OneStep]_<<subject, vars, folderVars, locationVars>>

\* The promises of Locations, of the executions about one.
LocationsReadBack == subject = "location" => ReadsBack
LocationsKeepNames == subject = "location" => NamesAreKept
LocationsSelect == subject = "location" => PatternsSelect /\ PartitionsReadBack
LocationsJoinPaths == subject = "location" => JoinPathReplaces

=============================================================================
