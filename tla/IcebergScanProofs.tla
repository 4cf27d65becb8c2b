------------------------- MODULE IcebergScanProofs -------------------------
(***************************************************************************)
(* What IcebergScan promises, for any values, columns' bounds, filters,    *)
(* keys, files and number of writes.                                       *)
(***************************************************************************)
EXTENDS IcebergScan, RecordMergeProofs

-----------------------------------------------------------------------------
(* Pruning hides nothing: a row the filters accept is in a file FileMatches *)
(* keeps and in a manifest ManifestMatches opens, and a stored row an       *)
(* incoming key matches is in a file Mergeable has a merge read.            *)

\* A file holds rows, of its own partition when its spec has one.
Placed(file) ==
    /\ Range(file.rows) \subseteq Row
    /\ file.spec = "identity" => \A row \in Range(file.rows) : row.part = file.tuple

\* A column's footer bounds cover every value its rows hold and it can bound.
LEMMA BoundsCover ==
    ASSUME NEW file, NEW column, NEW v \in CellsOf(file, column), v # Null, v \notin Unbounded
    PROVE  Within(v, Lower(file, column), Upper(file, column))
BY DEF Within, Lower, Upper, Least, Greatest

\* A value some file of a manifest is placed under lies within the summary.
LEMMA SummaryCovers ==
    ASSUME NEW files, NEW file \in files, file.tuple # Null
    PROVE  Within(file.tuple, Summary(files).lower, Summary(files).upper)
BY DEF Within, Summary, Least, Greatest

\* file_matches: no file is excluded that holds a row every filter accepts,
\* by its partition tuple or by its statistics.
THEOREM FilesNotHidden ==
    ASSUME NEW file, Placed(file),
           NEW filters \in SUBSET Filter, \A filter \in filters : Exact(filter),
           NEW row \in Range(file.rows), PassesAll(row, filters)
    PROVE  FileMatches(file, filters)
<1> SUFFICES ASSUME NEW filter \in filters
             PROVE  IF Settles(file.spec, filter) THEN file.tuple = filter.value
                    ELSE StatisticsAllow(file, filter)
  BY DEF FileMatches
<1>1. Passes(row, filter) /\ Exact(filter) /\ filter \in Filter
  BY DEF PassesAll
<1>2. CASE Settles(file.spec, filter)
  <2>1. row.part = file.tuple /\ filter.column = "part"
    BY <1>2 DEF Placed, Settles
  <2> QED
    BY <1>1, <1>2, <2>1 DEF Passes, Exact, Readable, Filter
<1>3. CASE ~Settles(file.spec, filter)
  <2>1. row[filter.column] \in CellsOf(file, filter.column)
    BY DEF CellsOf
  <2>2. CASE filter.isNull
    BY <1>1, <1>3, <2>1, <2>2 DEF StatisticsAllow, Passes
  <2>3. CASE ~filter.isNull
    <3>1. row[filter.column] = filter.value /\ filter.value # Null /\ filter.value \notin Unbounded
      BY <1>1, <2>3 DEF Passes, Exact, Readable
    <3>2. CellsOf(file, filter.column) # {Null}
      BY <2>1, <3>1
    <3>3. Within(filter.value, Lower(file, filter.column), Upper(file, filter.column))
      BY <2>1, <3>1, BoundsCover
    <3>4. \A v \in Encoded(filter) : v = filter.value
      BY DEF Encoded
    <3> QED
      BY <1>3, <2>3, <3>2, <3>3, <3>4 DEF StatisticsAllow
  <2> QED
    BY <2>2, <2>3 DEF Filter
<1> QED
  BY <1>2, <1>3

\* manifest_matches: no manifest is left unopened that lists a file holding a
\* row every filter accepts.
THEOREM ManifestsNotHidden ==
    ASSUME NEW manifest, NEW file \in Range(manifest.files), Placed(file),
           file.spec = manifest.spec, NEW filters \in SUBSET Filter,
           NEW row \in Range(file.rows), PassesAll(row, filters)
    PROVE  ManifestMatches(manifest, filters)
<1> DEFINE summary == Summary(Range(manifest.files))
<1> SUFFICES ASSUME NEW filter \in filters, Settles(manifest.spec, filter)
             PROVE  SummaryAllows(summary, filter)
  BY DEF ManifestMatches
<1>0. Passes(row, filter)
  BY DEF PassesAll
<1>1. file.tuple = row.part /\ filter.column = "part"
  BY DEF Placed, Settles
<1>2. CASE filter.isNull
  <2>1. file.tuple = Null
    BY <1>0, <1>1, <1>2 DEF Passes
  <2>2. summary.containsNull
    BY <2>1 DEF Summary
  <2> QED
    BY <1>2, <2>2 DEF SummaryAllows
<1>3. CASE ~filter.isNull
  <2>1. file.tuple = filter.value /\ file.tuple # Null
    BY <1>0, <1>1, <1>3 DEF Passes
  <2>2. Within(filter.value, summary.lower, summary.upper)
    BY <2>1, SummaryCovers
  <2>3. \A v \in Encoded(filter) : v = filter.value
    BY DEF Encoded
  <2> QED
    BY <1>3, <2>2, <2>3 DEF SummaryAllows
<1> QED
  BY <1>2, <1>3 DEF Filter

\* KeyBounds::may_hold: a merge reads every file that stores a row one of the
\* arriving keys matches, nulls included, so it can replace that row.
THEOREM MatchesNotMissed ==
    ASSUME NEW file, Range(file.rows) \subseteq Row,
           NEW rows \in SUBSET Row, NEW by \in SUBSET Columns,
           NEW arriving \in rows, NEW stored \in Range(file.rows),
           \A column \in by : arriving[column] \notin Unbounded,
           KeyOf(arriving, by) = KeyOf(stored, by)
    PROVE  Mergeable(file, rows, by)
<1> SUFFICES ASSUME NEW column \in by, column \in Portable
             PROVE  MayHold(file, column, {row[column] : row \in rows})
  BY DEF Mergeable, MayHold
<1> DEFINE keys == {row[column] : row \in rows}
           held == keys \ {Null}
           v == stored[column]
<1>1. arriving[column] = v
  <2>1. KeyOf(arriving, by)[column] = KeyOf(stored, by)[column]
    OBVIOUS
  <2> QED
    BY <2>1 DEF KeyOf
<1>2. v \in keys /\ v \in CellsOf(file, column)
  BY <1>1 DEF CellsOf
<1>3. CASE v = Null
  BY <1>2, <1>3 DEF MayHold
<1>4. CASE v # Null
  <2>1. v \in Values /\ v \in held
    <3>1. stored \in Row /\ column \in Columns
      OBVIOUS
    <3>2. v \in Cells
      BY <3>1 DEF Row, Columns
    <3> QED
      BY <1>2, <1>4, <3>2 DEF Cells
  <2>2. held \subseteq Int /\ v \in Int
    <3>1. \A row \in rows : row[column] \in Cells
      BY DEF Row, Columns
    <3> QED
      BY <2>1, <3>1, PruningAssumption DEF Cells
  <2>3. Within(v, Lower(file, column), Upper(file, column))
    <3>1. v \notin Unbounded
      BY <1>1
    <3> QED BY <1>2, <1>4, <3>1, BoundsCover
  <2>4. \A least \in Least(held) : \A most \in Greatest(held) : least <= v /\ v <= most
    BY <2>1 DEF Least, Greatest
  <2>5. Lower(file, column) \subseteq Int /\ Upper(file, column) \subseteq Int
    <3>1. CellsOf(file, column) \subseteq Cells
      BY DEF CellsOf, Row, Columns
    <3> QED
      BY <3>1, PruningAssumption DEF Lower, Upper, Least, Greatest, Cells
  <2>6. Least(held) \subseteq Int /\ Greatest(held) \subseteq Int
    BY <2>2 DEF Least, Greatest
  <2>7. \A lo \in Lower(file, column) : \A hi \in Upper(file, column) :
          \A least \in Least(held) : \A most \in Greatest(held) :
             lo <= most /\ least <= hi
    BY <2>2, <2>3, <2>4, <2>5, <2>6 DEF Within
  <2> QED
    BY <2>1, <2>7 DEF MayHold
<1> QED
  BY <1>3, <1>4

\* Partition tuples that match leave the residual nothing to add.
LEMMA ResidualIsEnough ==
    ASSUME NEW file, Placed(file), NEW filters \in SUBSET Filter,
           \A filter \in filters : Exact(filter), FileMatches(file, filters),
           NEW row \in Range(file.rows)
    PROVE  PassesAll(row, Residual(file, filters)) <=> PassesAll(row, filters)
<1>1. ASSUME NEW filter \in filters, Settles(file.spec, filter) PROVE Passes(row, filter)
  <2>1. row.part = file.tuple /\ filter.column = "part" /\ file.tuple = filter.value
    BY <1>1 DEF Placed, Settles, FileMatches
  <2>2. (filter.isNull => filter.value = Null) /\ (filter.isNull \/ filter.value # Null)
    BY <1>1 DEF Filter, Exact, Readable
  <2> QED BY <2>1, <2>2 DEF Passes
<1> QED BY <1>1 DEF PassesAll, Residual

-----------------------------------------------------------------------------
(* The table's data, and what a scan makes of it.                          *)

\* The manifests, well formed, with every file in its partition.
TableInv == manifests \in Seq(Manifest) /\ TableHolds

FilesOf == [m \in Manifest |-> m.files]
RowsOf == [f \in File |-> f.rows]

LEMMA FilesOfMakes == FilesOf \in Making(Manifest, File)
BY DEF FilesOf, Making, Manifest

LEMMA RowsOfMakes == RowsOf \in Making(File, Row)
BY DEF RowsOf, Making, File

LEMMA FilesInIs == ASSUME NEW list \in Seq(Manifest) PROVE FilesIn(list) = Over(FilesOf, list)
<1>1. \A n \in DOMAIN list : list[n] \in Manifest
  BY LenProperties, ElementOfSeq
<1>2. Each(FilesOf, list) = [n \in DOMAIN list |-> list[n].files]
  BY <1>1 DEF Each, FilesOf
<1> QED BY <1>2 DEF FilesIn, Over

LEMMA RowsInIs == ASSUME NEW files \in Seq(File) PROVE RowsIn(files) = Over(RowsOf, files)
<1>1. \A n \in DOMAIN files : files[n] \in File
  BY LenProperties, ElementOfSeq
<1>2. Each(RowsOf, files) = [n \in DOMAIN files |-> files[n].rows]
  BY <1>1 DEF Each, RowsOf
<1> QED BY <1>2 DEF RowsIn, Over

LEMMA FilesInType == ASSUME NEW list \in Seq(Manifest) PROVE FilesIn(list) \in Seq(File)
<1>1. Over(FilesOf, list) \in Seq(File)
  BY FilesOfMakes, OverType
<1> QED BY <1>1, FilesInIs

LEMMA RowsInType == ASSUME NEW files \in Seq(File) PROVE RowsIn(files) \in Seq(Row)
<1>1. Over(RowsOf, files) \in Seq(Row)
  BY RowsOfMakes, OverType
<1> QED BY <1>1, RowsInIs

LEMMA FilesFrom ==
    ASSUME NEW list \in Seq(Manifest), NEW file
    PROVE  file \in Range(FilesIn(list)) <=> \E m \in Range(list) : file \in Range(m.files)
<1>1. file \in Range(Over(FilesOf, list)) <=> \E m \in Range(list) : file \in Range(FilesOf[m])
  BY FilesOfMakes, OverFrom
<1>2. \A m \in Range(list) : FilesOf[m] = m.files
  BY ElementsType DEF FilesOf
<1> QED BY <1>1, <1>2, FilesInIs

LEMMA RowsFrom ==
    ASSUME NEW files \in Seq(File), NEW row
    PROVE  row \in Range(RowsIn(files)) <=> \E f \in Range(files) : row \in Range(f.rows)
<1>1. row \in Range(Over(RowsOf, files)) <=> \E f \in Range(files) : row \in Range(RowsOf[f])
  BY RowsOfMakes, OverFrom
<1>2. \A f \in Range(files) : RowsOf[f] = f.rows
  BY ElementsType DEF RowsOf
<1> QED BY <1>1, <1>2, RowsInIs

\* Every file of the table is in its partition, and under its manifest's spec.
LEMMA FilesArePlaced ==
    ASSUME TableInv, NEW m \in Range(manifests), NEW f \in Range(m.files)
    PROVE  m \in Manifest /\ f \in File /\ f.rows \in Seq(Row) /\ Placed(f) /\ f.spec = m.spec
<1>1. m \in Manifest /\ m.files \in Seq(File)
  BY ElementsType DEF TableInv, Manifest
<1>2. f \in File /\ f.rows \in Seq(Row)
  <2>1. Range(m.files) \subseteq File
    BY <1>1, ElementsType
  <2>2. f \in File
    BY <2>1
  <2> QED BY <2>2 DEF File
<1>3. Range(f.rows) \subseteq Row
  BY <1>2, ElementsType
<1>4. f \in Range(FilesIn(manifests))
  BY FilesFrom DEF TableInv
<1> QED BY <1>1, <1>2, <1>3, <1>4 DEF TableInv, TableHolds, TypeOK, RowsInTheirPartition, Placed

LEMMA AllRowsType == ASSUME TableInv PROVE AllRows \in Seq(Row)
<1>1. PICK files \in Seq(File) : files = FilesIn(manifests)
  <2>1. FilesIn(manifests) \in Seq(File)
    BY FilesInType DEF TableInv
  <2> QED BY <2>1
<1>2. RowsIn(files) \in Seq(Row)
  BY RowsInType
<1> QED BY <1>1, <1>2 DEF AllRows

\* Of a manifest's files, in one go: what a scan reads, and what the full scan
\* has that the filters accept.
Reads(filters) == [f \in File |-> Accepted(f.rows, Residual(f, filters))]
Accepting(P) == [f \in File |-> Only(f.rows, P)]

LEMMA ReadsMakes == ASSUME NEW filters PROVE Reads(filters) \in Making(File, Row)
<1>1. ASSUME NEW f \in File PROVE Accepted(f.rows, Residual(f, filters)) \in Seq(Row)
  <2>1. f.rows \in Seq(Row)
    BY DEF File
  <2> QED BY <2>1, OnlyType DEF Accepted
<1> QED BY <1>1 DEF Reads, Making

LEMMA AcceptingMakes == ASSUME NEW P PROVE Accepting(P) \in Making(File, Row)
<1>1. ASSUME NEW f \in File PROVE Only(f.rows, P) \in Seq(Row)
  <2>1. f.rows \in Seq(Row)
    BY DEF File
  <2> QED BY <2>1, OnlyType
<1> QED BY <1>1 DEF Accepting, Making

\* Filtering rows file by file is filtering them all.
LEMMA OnlyRowsIn ==
    ASSUME NEW P, NEW files \in Seq(File)
    PROVE  Only(RowsIn(files), P) = Over(Accepting(P), files)
<1>1. PICK C \in Making(Row, Row) : C = Chosen(Row, P)
  BY ChosenType
<1>2. PICK R \in Making(File, Row) : R = RowsOf
  BY RowsOfMakes
<1>3. PICK B \in Making(File, Row) : B = Accepting(P)
  BY AcceptingMakes
<1>4. ASSUME NEW f \in File PROVE B[f] = Over(C, R[f])
  <2>1. f.rows \in Seq(Row) /\ R[f] = f.rows
    BY <1>2 DEF File, RowsOf
  <2>2. Only(f.rows, P) = Over(C, f.rows)
    BY <1>1, <2>1, OnlyIs
  <2> QED BY <1>3, <2>1, <2>2 DEF Accepting
<1>5. Over(C, Over(R, files)) = Over(B, files)
  BY <1>4, OverOver
<1>6. Only(Over(R, files), P) = Over(C, Over(R, files))
  <2>1. Over(R, files) \in Seq(Row)
    BY OverType
  <2> QED BY <1>1, <2>1, OnlyIs
<1> QED BY <1>2, <1>3, <1>5, <1>6, RowsInIs

\* And so is manifest by manifest.
PerManifest(G) == [m \in Manifest |-> Over(G, m.files)]

LEMMA PerManifestMakes ==
    ASSUME NEW Y, NEW G \in Making(File, Y) PROVE PerManifest(G) \in Making(Manifest, Y)
<1>1. ASSUME NEW m \in Manifest PROVE Over(G, m.files) \in Seq(Y)
  <2>1. m.files \in Seq(File)
    BY DEF Manifest
  <2> QED BY <2>1, OverType
<1> QED BY <1>1 DEF PerManifest, Making

LEMMA OverFilesIn ==
    ASSUME NEW Y, NEW G \in Making(File, Y), NEW list \in Seq(Manifest)
    PROVE  Over(G, FilesIn(list)) = Over(PerManifest(G), list)
<1>1. PICK R \in Making(Manifest, File) : R = FilesOf
  BY FilesOfMakes
<1>2. PICK B \in Making(Manifest, Y) : B = PerManifest(G)
  BY PerManifestMakes
<1>3. ASSUME NEW m \in Manifest PROVE B[m] = Over(G, R[m])
  BY <1>1, <1>2 DEF PerManifest, FilesOf
<1>4. Over(G, Over(R, list)) = Over(B, list)
  BY <1>3, OverOver
<1> QED BY <1>1, <1>2, <1>4, FilesInIs

-----------------------------------------------------------------------------
(* A filtered scan.                                                        *)

LEMMA OpenedIs ==
    ASSUME TableInv, NEW filters
    PROVE  Opened(filters) \in Seq(File)
<1>1. PICK list \in Seq(Manifest) :
         list = Only(manifests, {m \in Range(manifests) : ManifestMatches(m, filters)})
  <2>1. manifests \in Seq(Manifest)
    BY DEF TableInv
  <2>2. Only(manifests, {m \in Range(manifests) : ManifestMatches(m, filters)}) \in Seq(Manifest)
    BY <2>1, OnlyType
  <2> QED BY <2>2
<1>2. FilesIn(list) \in Seq(File)
  BY FilesInType
<1> QED BY <1>1, <1>2 DEF Opened

LEMMA OpenedFrom ==
    ASSUME TableInv, NEW filters, NEW file
    PROVE  file \in Range(Opened(filters))
              <=> \E m \in Range(manifests) :
                     ManifestMatches(m, filters) /\ file \in Range(m.files)
<1> DEFINE M == {m \in Range(manifests) : ManifestMatches(m, filters)}
<1>0. manifests \in Seq(Manifest)
  BY DEF TableInv
<1>1. Only(manifests, M) \in Seq(Manifest)
  BY <1>0, OnlyType
<1>2. Range(Only(manifests, M)) = Range(manifests) \cap M
  BY <1>0, ElementsOnly
<1>3. file \in Range(FilesIn(Only(manifests, M)))
         <=> \E m \in Range(Only(manifests, M)) : file \in Range(m.files)
  BY <1>1, FilesFrom
<1> QED BY <1>2, <1>3 DEF Opened

\* What each file gives to a scan: nothing unless it is planned.
ScanOf(filters, files) ==
    Kept(Reads(filters), File, {file \in Range(files) : FileMatches(file, filters)})

LEMMA ScanWhereIs ==
    ASSUME TableInv, NEW filters
    PROVE  ScanWhere(filters) =
             Over(Kept(PerManifest(ScanOf(filters, Opened(filters))), Manifest,
                       {m \in Range(manifests) : ManifestMatches(m, filters)}), manifests)
<1> DEFINE M == {m \in Range(manifests) : ManifestMatches(m, filters)}
           S == {file \in Range(Opened(filters)) : FileMatches(file, filters)}
<1>0. manifests \in Seq(Manifest)
  BY DEF TableInv
<1>1. PICK opened \in Seq(File) : opened = Opened(filters)
  <2>1. Opened(filters) \in Seq(File)
    BY OpenedIs
  <2> QED BY <2>1
<1>2. PICK tasks \in Seq(File) : tasks = Tasks(filters) /\ tasks = Only(opened, S)
  <2>1. Only(opened, S) \in Seq(File)
    BY OnlyType
  <2>2. Tasks(filters) = Only(opened, S)
    BY <1>1 DEF Tasks
  <2> QED BY <2>1, <2>2
<1>3. ScanWhere(filters) = Over(Reads(filters), tasks)
  <2>1. \A n \in DOMAIN tasks : tasks[n] \in File
    BY LenProperties, ElementOfSeq
  <2>2. Each(Reads(filters), tasks)
          = [n \in DOMAIN tasks |-> Accepted(tasks[n].rows, Residual(tasks[n], filters))]
    BY <2>1 DEF Each, Reads
  <2> QED BY <1>2, <2>2 DEF ScanWhere, Over
<1>4. PICK R \in Making(File, Row) : R = Reads(filters)
  BY ReadsMakes
<1>5. PICK G \in Making(File, Row) : G = Kept(R, File, S) /\ G = ScanOf(filters, Opened(filters))
  <2>1. Kept(R, File, S) \in Making(File, Row)
    BY KeptMakes
  <2>2. Kept(R, File, S) = ScanOf(filters, Opened(filters))
    BY <1>4 DEF ScanOf
  <2> QED BY <2>1, <2>2
<1>6. Over(R, Only(opened, S)) = Over(Kept(R, File, S), opened)
  BY OverOnly
<1>7. PICK list \in Seq(Manifest) : list = Only(manifests, M)
  <2>1. Only(manifests, M) \in Seq(Manifest)
    BY <1>0, OnlyType
  <2> QED BY <2>1
<1>8. Over(G, FilesIn(list)) = Over(PerManifest(G), list)
  BY OverFilesIn
<1>9. PICK H \in Making(Manifest, Row) : H = PerManifest(G)
  BY PerManifestMakes
<1>10. Over(H, Only(manifests, M)) = Over(Kept(H, Manifest, M), manifests)
  BY <1>0, OverOnly
<1>11. opened = FilesIn(list)
  BY <1>1, <1>7 DEF Opened
<1> QED BY <1>2, <1>3, <1>4, <1>5, <1>6, <1>7, <1>8, <1>9, <1>10, <1>11

LEMMA AcceptedIs ==
    ASSUME TableInv, NEW P
    PROVE  Only(AllRows, P) = Over(PerManifest(Accepting(P)), manifests)
<1>0. PICK list \in Seq(Manifest) : list = manifests
  BY DEF TableInv
<1>1. PICK files \in Seq(File) : files = FilesIn(list)
  <2>1. FilesIn(list) \in Seq(File)
    BY FilesInType
  <2> QED BY <2>1
<1>2. Only(RowsIn(files), P) = Over(Accepting(P), files)
  BY OnlyRowsIn
<1>3. PICK G \in Making(File, Row) : G = Accepting(P)
  BY AcceptingMakes
<1>4. Over(G, FilesIn(list)) = Over(PerManifest(G), list)
  BY OverFilesIn
<1> QED BY <1>0, <1>1, <1>2, <1>3, <1>4 DEF AllRows

LEMMA RowsOfTable ==
    ASSUME TableInv, NEW m \in Range(manifests), NEW f \in Range(m.files),
           NEW row \in Range(f.rows)
    PROVE  row \in Range(AllRows)
<1>0. PICK list \in Seq(Manifest) : list = manifests
  BY DEF TableInv
<1>1. PICK files \in Seq(File) : files = FilesIn(list)
  <2>1. FilesIn(list) \in Seq(File)
    BY FilesInType
  <2> QED BY <2>1
<1>2. f \in Range(FilesIn(list)) <=> \E n \in Range(list) : f \in Range(n.files)
  BY FilesFrom
<1>3. row \in Range(RowsIn(files)) <=> \E g \in Range(files) : row \in Range(g.rows)
  BY RowsFrom
<1> QED BY <1>0, <1>1, <1>2, <1>3 DEF AllRows

\* A file's part of a scan is its part of the full scan, filtered.
LEMMA FileScanned ==
    ASSUME TableInv, NEW filters \in SUBSET Filter, \A filter \in filters : Exact(filter),
           NEW m \in Range(manifests), ManifestMatches(m, filters), NEW f \in Range(m.files)
    PROVE  ScanOf(filters, Opened(filters))[f]
             = Only(f.rows, {row \in Range(AllRows) : PassesAll(row, filters)})
<1> DEFINE P == {row \in Range(AllRows) : PassesAll(row, filters)}
           Q == {row \in Range(f.rows) : PassesAll(row, Residual(f, filters))}
           S == {file \in Range(Opened(filters)) : FileMatches(file, filters)}
<1>1. m \in Manifest /\ f \in File /\ f.rows \in Seq(Row) /\ Placed(f) /\ f.spec = m.spec
  BY FilesArePlaced
<1>2. f \in Range(Opened(filters))
  BY OpenedFrom
<1>3. \A row \in Range(f.rows) : row \in Range(AllRows)
  BY RowsOfTable
<1>4. ScanOf(filters, Opened(filters))[f] = IF f \in S THEN Reads(filters)[f] ELSE <<>>
  BY <1>1 DEF ScanOf, Kept
<1>5. CASE FileMatches(f, filters)
  <2>1. \A row \in Range(f.rows) :
           PassesAll(row, Residual(f, filters)) <=> PassesAll(row, filters)
    BY <1>1, <1>5, ResidualIsEnough
  <2>2. Range(f.rows) \cap Q = Range(f.rows) \cap P
    BY <1>3, <2>1
  <2>3. Only(f.rows, Q) = Only(f.rows, P)
    BY <2>2, OnlyAlike
  <2>4. Reads(filters)[f] = Only(f.rows, Q)
    BY <1>1 DEF Reads, Accepted
  <2> QED BY <1>2, <1>4, <1>5, <2>3, <2>4
<1>6. CASE ~FileMatches(f, filters)
  <2>1. \A row \in Range(f.rows) : ~PassesAll(row, filters)
    BY <1>1, <1>6, FilesNotHidden
  <2>2. Range(f.rows) \cap P = {}
    BY <2>1
  <2>3. Only(f.rows, P) = <<>>
    BY <1>1, <2>2, OnlyNothing
  <2> QED BY <1>4, <1>6, <2>3
<1> QED BY <1>5, <1>6

\* And so is a manifest's, opened or not.
LEMMA ManifestScanned ==
    ASSUME TableInv, NEW filters \in SUBSET Filter, \A filter \in filters : Exact(filter),
           NEW m \in Range(manifests)
    PROVE  Kept(PerManifest(ScanOf(filters, Opened(filters))), Manifest,
                {n \in Range(manifests) : ManifestMatches(n, filters)})[m]
             = PerManifest(Accepting({row \in Range(AllRows) : PassesAll(row, filters)}))[m]
<1> DEFINE P == {row \in Range(AllRows) : PassesAll(row, filters)}
           G == ScanOf(filters, Opened(filters))
           H == Accepting(P)
           M == {n \in Range(manifests) : ManifestMatches(n, filters)}
<1>0. m \in Manifest /\ m.files \in Seq(File)
  BY ElementsType DEF TableInv, Manifest
<1>1. Kept(PerManifest(G), Manifest, M)[m] = IF m \in M THEN Over(G, m.files) ELSE <<>>
  BY <1>0 DEF Kept, PerManifest
<1>2. PerManifest(H)[m] = Over(H, m.files)
  BY <1>0 DEF PerManifest
<1>3. \A n \in DOMAIN m.files : m.files[n] \in Range(m.files) /\ m.files[n] \in File
  BY <1>0, LenProperties, ElementOfSeq DEF Range
<1>4. \A f \in File : H[f] = Only(f.rows, P)
  BY DEF Accepting
<1>5. ASSUME ManifestMatches(m, filters)
      PROVE  Kept(PerManifest(G), Manifest, M)[m] = PerManifest(H)[m]
  <2>1. \A f \in Range(m.files) : G[f] = Only(f.rows, P)
    BY <1>5, FileScanned
  <2> HIDE DEF G, H, P, M
  <2>2. \A n \in DOMAIN m.files : G[m.files[n]] = H[m.files[n]]
    BY <1>3, <1>4, <2>1
  <2>3. Over(G, m.files) = Over(H, m.files)
    BY <2>2, OverAlike
  <2>4. m \in M
    BY <1>5 DEF M
  <2> QED BY <1>1, <1>2, <2>3, <2>4
<1>6. ASSUME ~ManifestMatches(m, filters)
      PROVE  Kept(PerManifest(G), Manifest, M)[m] = PerManifest(H)[m]
  <2>1. ASSUME NEW f \in Range(m.files) PROVE Only(f.rows, P) = <<>>
    <3>1. f.rows \in Seq(Row) /\ Placed(f) /\ f.spec = m.spec
      BY FilesArePlaced
    <3>2. \A row \in Range(f.rows) : ~PassesAll(row, filters)
      BY <1>6, <3>1, ManifestsNotHidden
    <3>3. Range(f.rows) \cap P = {}
      BY <3>2
    <3> QED BY <3>1, <3>3, OnlyNothing
  <2>2. m \notin M
    BY <1>6
  <2> HIDE DEF G, H, P, M
  <2>3. \A n \in DOMAIN m.files : H[m.files[n]] = <<>>
    BY <1>3, <1>4, <2>1
  <2>4. Over(H, m.files) = <<>>
    BY <1>0, <2>3, OverNothing
  <2> QED BY <1>1, <1>2, <2>2, <2>4
<1> QED BY <1>5, <1>6

LEMMA ScansAreExact == TableInv => ScanExact
<1> SUFFICES ASSUME TableInv, NEW filters \in ReadFilters, \A filter \in filters : Exact(filter)
             PROVE  ScanWhere(filters) = Accepted(AllRows, filters)
  BY DEF ScanExact
<1> DEFINE P == {row \in Range(AllRows) : PassesAll(row, filters)}
           G == Kept(PerManifest(ScanOf(filters, Opened(filters))), Manifest,
                     {m \in Range(manifests) : ManifestMatches(m, filters)})
           H == PerManifest(Accepting(P))
<1>1. filters \in SUBSET Filter
  BY ScanAssumption
<1>2. ScanWhere(filters) = Over(G, manifests)
  BY ScanWhereIs
<1>3. Only(AllRows, P) = Over(H, manifests)
  BY AcceptedIs
<1>4. \A m \in Range(manifests) : G[m] = H[m]
  BY <1>1, ManifestScanned
<1> HIDE DEF G, H
<1>5. \A n \in DOMAIN manifests : G[manifests[n]] = H[manifests[n]]
  BY <1>4 DEF Range
<1>6. Over(G, manifests) = Over(H, manifests)
  BY <1>5, OverAlike
<1> QED BY <1>2, <1>3, <1>6 DEF Accepted

-----------------------------------------------------------------------------
(* Writing: rows in groups, groups in files, files in a manifest.          *)

Specs == {"identity", "none"}
InPlace(f) == f.spec = "identity" => \A row \in Range(f.rows) : row.part = f.tuple
GoodFile(s) == {f \in File : f.spec = s /\ f.rows # <<>> /\ InPlace(f)}
GoodFiles == {f \in File : f.rows # <<>> /\ InPlace(f)}
GoodManifest == {m \in Manifest : m.files # <<>> /\ m.files \in Seq(GoodFile(m.spec))}

RowsAt(k) == {row \in Row : GroupKey(row) = k}
Full(k) == Seq(RowsAt(k)) \ {<<>>}
Groups(k) == Seq(Full(k)) \ {<<>>}

LEMMA SomeType ==
    ASSUME NEW X, NEW batches \in Seq(Seq(X))
    PROVE  WithRows(batches) \in Seq(Seq(X) \ {<<>>})
<1>1. Only(batches, Range(batches) \ {<<>>}) \in Seq(Seq(X) \cap (Range(batches) \ {<<>>}))
  BY OnlyWithin
<1>2. PICK s : s = WithRows(batches) /\ s \in Seq(Seq(X) \cap (Range(batches) \ {<<>>}))
  BY <1>1 DEF WithRows
<1>3. s \in Seq(Seq(X) \ {<<>>})
  BY <1>2, SeqMonotone
<1> QED BY <1>2, <1>3

LEMMA SomeFrom ==
    ASSUME NEW X, NEW batches \in Seq(Seq(X)), NEW b
    PROVE  b \in Range(WithRows(batches)) <=> b \in Range(batches) /\ b # <<>>
<1>1. Range(Only(batches, Range(batches) \ {<<>>}))
        = Range(batches) \cap (Range(batches) \ {<<>>})
  BY ElementsOnly
<1> QED BY <1>1 DEF WithRows

KeysIn(rows) == [n \in DOMAIN rows |-> GroupKey(rows[n])]
KeysOf(batches) == Firsts(KeysIn(FlattenSeq(batches)))
Taken(batches, k) ==
    [b \in DOMAIN batches |-> Only(batches[b], {row \in Range(batches[b]) : GroupKey(row) = k})]

LEMMA GroupedIs ==
    ASSUME NEW batches
    PROVE  Grouped(batches) = [n \in DOMAIN KeysOf(batches) |->
                                 WithRows(Taken(batches, KeysOf(batches)[n]))]
BY DEF Grouped, KeysOf, KeysIn, Taken

Taking(k) == [s \in Seq(Row) |-> Only(s, RowsAt(k))]

LEMMA TakingMaps == ASSUME NEW k PROVE Taking(k) \in [Seq(Row) -> Seq(RowsAt(k))]
<1>1. ASSUME NEW s \in Seq(Row) PROVE Only(s, RowsAt(k)) \in Seq(RowsAt(k))
  <2>1. Only(s, RowsAt(k)) \in Seq(Row \cap RowsAt(k))
    BY OnlyWithin
  <2>2. Row \cap RowsAt(k) = RowsAt(k)
    BY DEF RowsAt
  <2> QED BY <2>1, <2>2
<1> QED BY <1>1 DEF Taking

LEMMA TakenIs ==
    ASSUME NEW batches \in Seq(Seq(Row)), NEW k
    PROVE  Taken(batches, k) = Each(Taking(k), batches)
<1>1. ASSUME NEW b \in DOMAIN batches
      PROVE  Only(batches[b], {row \in Range(batches[b]) : GroupKey(row) = k})
               = Taking(k)[batches[b]]
  <2>1. batches[b] \in Seq(Row)
    BY LenProperties, ElementOfSeq
  <2>2. Range(batches[b]) \subseteq Row
    BY <2>1, ElementsType
  <2>3. Range(batches[b]) \cap {row \in Range(batches[b]) : GroupKey(row) = k}
          = Range(batches[b]) \cap RowsAt(k)
    BY <2>2 DEF RowsAt
  <2>4. Only(batches[b], {row \in Range(batches[b]) : GroupKey(row) = k})
          = Only(batches[b], RowsAt(k))
    BY <2>3, OnlyAlike
  <2> QED BY <2>1, <2>4 DEF Taking
<1> QED BY <1>1 DEF Taken, Each

LEMMA KeysInIs ==
    ASSUME NEW rows \in Seq(Row)
    PROVE  KeysIn(rows) \in Seq(Cells)
<1>1. ASSUME NEW n \in DOMAIN rows PROVE GroupKey(rows[n]) \in Cells
  <2>1. rows[n] \in Row
    BY LenProperties, ElementOfSeq
  <2> QED BY <2>1 DEF GroupKey, Row, Cells
<1>2. PICK f : f = KeysIn(rows)
  OBVIOUS
<1>3. f = [n \in DOMAIN rows |-> f[n]] /\ \A n \in DOMAIN rows : f[n] \in Cells
  BY <1>1, <1>2 DEF KeysIn
<1>4. f \in Seq(Cells)
  BY <1>3, Tabulated
<1> QED BY <1>2, <1>4

\* The keys are those the rows have.
LEMMA KeysFrom ==
    ASSUME NEW batches \in Seq(Seq(Row)), NEW k
    PROVE  k \in Range(KeysOf(batches))
              <=> \E b \in Range(batches) : \E row \in Range(b) : GroupKey(row) = k
<1>1. PICK rows \in Seq(Row) : rows = FlattenSeq(batches)
  <2>1. FlattenSeq(batches) \in Seq(Row)
    BY FlattenType
  <2> QED BY <2>1
<1>2. PICK keys \in Seq(Cells) : keys = KeysIn(rows)
  BY KeysInIs
<1>3. Range(Firsts(keys)) = Range(keys)
  BY FirstsFrom
<1>4. k \in Range(keys) <=> \E row \in Range(rows) : GroupKey(row) = k
  BY <1>2 DEF KeysIn, Range
<1>5. \A row : row \in Range(FlattenSeq(batches)) <=> \E b \in Range(batches) : row \in Range(b)
  BY FlattenFrom
<1> QED BY <1>1, <1>2, <1>3, <1>4, <1>5 DEF KeysOf

LEMMA KeysType == ASSUME NEW batches \in Seq(Seq(Row)) PROVE KeysOf(batches) \in Seq(Cells)
<1>1. PICK rows \in Seq(Row) : rows = FlattenSeq(batches)
  <2>1. FlattenSeq(batches) \in Seq(Row)
    BY FlattenType
  <2> QED BY <2>1
<1>2. PICK keys \in Seq(Cells) : keys = KeysIn(rows)
  BY KeysInIs
<1>3. Firsts(keys) \in Seq(Cells)
  BY FirstsType
<1> QED BY <1>1, <1>2, <1>3 DEF KeysOf

LEMMA GroupType ==
    ASSUME NEW batches \in Seq(Seq(Row)), NEW k \in Range(KeysOf(batches))
    PROVE  WithRows(Taken(batches, k)) \in Groups(k)
<1>1. PICK G \in [Seq(Row) -> Seq(RowsAt(k))] : G = Taking(k)
  BY TakingMaps
<1>2. PICK taken \in Seq(Seq(RowsAt(k))) : taken = Taken(batches, k) /\ taken = Each(G, batches)
  <2>1. Each(G, batches) \in Seq(Seq(RowsAt(k)))
    BY EachType
  <2> QED BY <1>1, <2>1, TakenIs
<1>3. WithRows(taken) \in Seq(Seq(RowsAt(k)) \ {<<>>})
  BY SomeType
<1>4. PICK b \in Range(batches) : \E row \in Range(b) : GroupKey(row) = k
  BY KeysFrom
<1>45. PICK row \in Range(b) : GroupKey(row) = k
  BY <1>4
<1>5. b \in Seq(Row) /\ row \in Row /\ row \in RowsAt(k)
  <2>1. b \in Seq(Row)
    BY ElementsType
  <2>2. row \in Row
    BY <2>1, ElementsType
  <2> QED BY <1>45, <2>1, <2>2 DEF RowsAt
<1>6. row \in Range(G[b])
  <2>1. Range(Only(b, RowsAt(k))) = Range(b) \cap RowsAt(k)
    BY <1>5, ElementsOnly
  <2> QED BY <1>1, <1>5, <2>1 DEF Taking
<1>7. G[b] \in Range(Each(G, batches))
  BY EachFrom
<1>8. G[b] # <<>>
  BY <1>6, ElementsEmpty
<1>9. G[b] \in Range(WithRows(taken))
  BY <1>2, <1>7, <1>8, SomeFrom
<1>10. WithRows(taken) # <<>>
  BY <1>9, ElementsEmpty
<1> QED BY <1>2, <1>3, <1>10 DEF Groups, Full

LEMMA RolledType ==
    ASSUME NEW k, NEW group \in Groups(k), NEW target
    PROVE  Rolled(group, target) \in Groups(k)
<1>1. group \in Seq(Full(k)) /\ group # <<>>
  BY DEF Groups
<1>2. group \in Seq(Seq(RowsAt(k)))
  <2>1. Full(k) \subseteq Seq(RowsAt(k))
    BY DEF Full
  <2> QED BY <1>1, <2>1, SeqMonotone
<1>3. FlattenSeq(group) \in Seq(RowsAt(k))
  BY <1>2, FlattenType
<1>4. group[1] \in Range(group) /\ group[1] \in Full(k)
  BY <1>1, FirstElement, ElementsType
<1>5. group[1] \in Seq(RowsAt(k)) /\ group[1] # <<>>
  BY <1>4 DEF Full
<1>6. group[1][1] \in Range(group[1])
  BY <1>5, FirstElement
<1>7. group[1][1] \in Range(FlattenSeq(group))
  BY <1>2, <1>4, <1>6, FlattenFrom
<1>8. FlattenSeq(group) # <<>>
  BY <1>7, ElementsEmpty
<1>9. FlattenSeq(group) \in Full(k)
  BY <1>3, <1>8 DEF Full
<1>10. PICK rows \in Full(k) : rows = FlattenSeq(group)
  BY <1>9
<1>11. <<rows>> \in Seq(Full(k)) /\ <<rows>> # <<>>
  OBVIOUS
<1> QED BY <1>10, <1>11 DEF Rolled, Groups

LEMMA GroupStarts ==
    ASSUME NEW k, NEW group \in Groups(k)
    PROVE  group[1][1] \in RowsAt(k)
<1>1. group \in Seq(Full(k)) /\ group # <<>>
  BY DEF Groups
<1>2. group[1] \in Full(k)
  BY <1>1, FirstElement, ElementsType
<1>3. group[1] \in Seq(RowsAt(k)) /\ group[1] # <<>>
  BY <1>2 DEF Full
<1> QED BY <1>3, FirstElement, ElementsType

LEMMA DataFilesType ==
    ASSUME NEW k, NEW group \in Groups(k), NEW target, spec \in Specs
    PROVE  DataFiles(group, target) \in Seq(GoodFile(spec))
<1>1. PICK chunks : chunks = Rolled(group, target) /\ chunks \in Groups(k)
  BY RolledType
<1>2. chunks \in Seq(Full(k))
  BY <1>1 DEF Groups
<1>3. group[1][1] \in RowsAt(k)
  BY GroupStarts
<1>4. PICK tuple : tuple = IF spec = "identity" THEN group[1][1].part ELSE Null
  OBVIOUS
<1>5. tuple \in Cells
  BY <1>3, <1>4 DEF RowsAt, Row, Cells
<1>6. ASSUME NEW n \in DOMAIN chunks
      PROVE  [spec |-> spec, tuple |-> tuple, rows |-> chunks[n]] \in GoodFile(spec)
  <2>1. chunks[n] \in Seq(RowsAt(k)) /\ chunks[n] # <<>>
    BY <1>2, LenProperties, ElementOfSeq DEF Full
  <2>2. chunks[n] \in Seq(Row)
    <3>1. RowsAt(k) \subseteq Row
      BY DEF RowsAt
    <3> QED BY <2>1, <3>1, SeqMonotone
  <2>3. Range(chunks[n]) \subseteq RowsAt(k)
    BY <2>1, ElementsType
  <2>4. spec = "identity" => \A row \in Range(chunks[n]) : row.part = tuple
    BY <1>3, <1>4, <2>3 DEF RowsAt, GroupKey
  <2> QED BY <1>5, <2>1, <2>2, <2>4 DEF GoodFile, File, InPlace, Specs
<1>7. PICK f : f = DataFiles(group, target)
  OBVIOUS
<1>8. f = [n \in DOMAIN chunks |-> [spec |-> spec, tuple |-> tuple, rows |-> chunks[n]]]
  BY <1>1, <1>4, <1>7 DEF DataFiles
<1>9. f = [n \in DOMAIN chunks |-> f[n]] /\ \A n \in DOMAIN chunks : f[n] \in GoodFile(spec)
  BY <1>6, <1>8
<1>10. f \in Seq(GoodFile(spec))
  BY <1>2, <1>9, Tabulated
<1> QED BY <1>7, <1>10

LEMMA ManifestOfType ==
    ASSUME NEW s \in Specs, NEW files \in Seq(GoodFile(s))
    PROVE  ManifestOf(files) \in Seq(GoodManifest)
<1>1. CASE files = <<>>
  BY <1>1, EmptySeq DEF ManifestOf
<1>2. CASE files # <<>>
  <2>1. files[1] \in GoodFile(s)
    BY <1>2, FirstElement, ElementsType
  <2>2. files[1].spec = s
    BY <2>1 DEF GoodFile
  <2>3. files \in Seq(File)
    <3>1. GoodFile(s) \subseteq File
      BY DEF GoodFile
    <3> QED BY <3>1, SeqMonotone
  <2>4. PICK m : m = [spec |-> s, files |-> files]
    OBVIOUS
  <2>5. m \in GoodManifest
    BY <1>2, <2>3, <2>4 DEF GoodManifest, Manifest, Specs
  <2>6. <<m>> \in Seq(GoodManifest)
    BY <2>5
  <2> QED BY <1>2, <2>2, <2>4, <2>6 DEF ManifestOf
<1> QED BY <1>1, <1>2

LEMMA WrittenType ==
    ASSUME NEW batches \in Seq(Seq(Row)), NEW target, spec \in Specs
    PROVE  Written(batches, target) \in Seq(GoodManifest)
<1>1. PICK keys \in Seq(Cells) : keys = KeysOf(batches)
  BY KeysType
<1>2. PICK groups : groups = Grouped(batches)
  OBVIOUS
<1>3. groups = [n \in DOMAIN keys |-> WithRows(Taken(batches, keys[n]))]
  BY <1>1, <1>2, GroupedIs
<1>4. ASSUME NEW n \in DOMAIN keys PROVE DataFiles(groups[n], target) \in Seq(GoodFile(spec))
  <2>1. keys[n] \in Range(KeysOf(batches))
    BY <1>1 DEF Range
  <2>2. groups[n] \in Groups(keys[n])
    BY <1>3, <2>1, GroupType
  <2> QED BY <2>2, DataFilesType
<1>5. PICK made : made = [n \in DOMAIN groups |-> DataFiles(groups[n], target)]
  OBVIOUS
<1>6. /\ made = [n \in DOMAIN keys |-> made[n]]
      /\ \A n \in DOMAIN keys : made[n] \in Seq(GoodFile(spec))
  BY <1>3, <1>4, <1>5
<1>7. made \in Seq(Seq(GoodFile(spec)))
  BY <1>6, Tabulated
<1>8. PICK files \in Seq(GoodFile(spec)) : files = FlattenSeq(made)
  <2>1. FlattenSeq(made) \in Seq(GoodFile(spec))
    BY <1>7, FlattenType
  <2> QED BY <2>1
<1>9. ManifestOf(files) \in Seq(GoodManifest)
  BY ManifestOfType
<1> QED BY <1>2, <1>5, <1>8, <1>9 DEF Written

SpecsIn(files) == [n \in DOMAIN files |-> files[n].spec]

LEMMA SpecsInType == ASSUME NEW files \in Seq(File) PROVE SpecsIn(files) \in Seq(Specs)
<1>1. ASSUME NEW n \in DOMAIN files PROVE files[n].spec \in Specs
  <2>1. files[n] \in File
    BY LenProperties, ElementOfSeq
  <2> QED BY <2>1 DEF File, Specs
<1>2. PICK f : f = SpecsIn(files)
  OBVIOUS
<1>3. f = [n \in DOMAIN files |-> f[n]] /\ \A n \in DOMAIN files : f[n] \in Specs
  BY <1>1, <1>2 DEF SpecsIn
<1>4. f \in Seq(Specs)
  BY <1>3, Tabulated
<1> QED BY <1>2, <1>4

LEMMA CarriedType ==
    ASSUME NEW files \in Seq(GoodFiles) PROVE Carried(files) \in Seq(GoodManifest)
<1>0. files \in Seq(File)
  <2>1. GoodFiles \subseteq File
    BY DEF GoodFiles
  <2> QED BY <2>1, SeqMonotone
<1>1. PICK all \in Seq(Specs) : all = SpecsIn(files)
  BY <1>0, SpecsInType
<1>2. PICK specs \in Seq(Specs) : specs = Firsts(all)
  <2>1. Firsts(all) \in Seq(Specs)
    BY FirstsType
  <2> QED BY <2>1
<1> DEFINE Of(s) == [spec |-> s, files |-> Only(files, {file \in Range(files) : file.spec = s})]
<1>3. ASSUME NEW n \in DOMAIN specs PROVE Of(specs[n]) \in GoodManifest
  <2>1. specs[n] \in Specs /\ specs[n] \in Range(all)
    <3>1. specs[n] \in Range(specs)
      BY DEF Range
    <3>2. Range(Firsts(all)) = Range(all)
      BY FirstsFrom
    <3> QED BY <1>2, <3>1, <3>2, ElementsType
  <2>2. PICK s : s = specs[n]
    OBVIOUS
  <2>3. PICK f \in Range(files) : f.spec = s
    BY <1>1, <2>1, <2>2 DEF SpecsIn, Range
  <2>4. PICK S : S = {file \in Range(files) : file.spec = s}
    OBVIOUS
  <2>5. Only(files, S) \in Seq(GoodFiles \cap S)
    BY OnlyWithin
  <2>6. GoodFiles \cap S \subseteq GoodFile(s) /\ GoodFile(s) \subseteq File
    BY <2>4 DEF GoodFiles, GoodFile
  <2>7. Only(files, S) \in Seq(GoodFile(s))
    BY <2>5, <2>6, SeqMonotone
  <2>8. Only(files, S) \in Seq(File)
    BY <2>6, <2>7, SeqMonotone
  <2>9. Only(files, S) # <<>>
    <3>1. Range(Only(files, S)) = Range(files) \cap S
      BY ElementsOnly
    <3>2. f \in Range(Only(files, S))
      BY <2>3, <2>4, <3>1
    <3> QED BY <3>2, ElementsEmpty
  <2> HIDE DEF Only
  <2> QED BY <2>1, <2>2, <2>4, <2>7, <2>8, <2>9 DEF GoodManifest, Manifest, Specs
<1>4. PICK f : f = Carried(files)
  OBVIOUS
<1>5. f = [n \in DOMAIN specs |-> Of(specs[n])]
  BY <1>1, <1>2, <1>4 DEF Carried, SpecsIn
<1> HIDE DEF Of
<1>6. f = [n \in DOMAIN specs |-> f[n]] /\ \A n \in DOMAIN specs : f[n] \in GoodManifest
  BY <1>3, <1>5
<1>7. f \in Seq(GoodManifest)
  BY <1>6, Tabulated
<1> QED BY <1>4, <1>7

-----------------------------------------------------------------------------
(* What every commit leaves.                                               *)

DataInv ==
    /\ manifests \in Seq(GoodManifest)
    /\ spec \in Specs
    /\ writes \in 0..MaxWrites

LEMMA GoodIsManifest == GoodManifest \subseteq Manifest
BY DEF GoodManifest

LEMMA GoodIsFile == GoodFiles \subseteq File
BY DEF GoodFiles

LEMMA GoodOfManifest ==
    ASSUME NEW m \in GoodManifest PROVE m.files \in Seq(GoodFiles)
<1>1. m.files \in Seq(GoodFile(m.spec))
  BY DEF GoodManifest
<1>2. GoodFile(m.spec) \subseteq GoodFiles
  BY DEF GoodFile, GoodFiles
<1> QED BY <1>1, <1>2, SeqMonotone

LEMMA GoodFilesIn ==
    ASSUME NEW list \in Seq(GoodManifest) PROVE FilesIn(list) \in Seq(GoodFiles)
<1>1. list \in Seq(Manifest)
  BY GoodIsManifest, SeqMonotone
<1>2. PICK files \in Seq(File) : files = FilesIn(list)
  <2>1. FilesIn(list) \in Seq(File)
    BY <1>1, FilesInType
  <2> QED BY <2>1
<1>3. ASSUME NEW f \in Range(files) PROVE f \in GoodFiles
  <2>1. PICK m \in Range(list) : f \in Range(m.files)
    BY <1>1, <1>2, FilesFrom
  <2>2. m \in GoodManifest
    BY ElementsType
  <2>3. m.files \in Seq(GoodFiles)
    BY <2>2, GoodOfManifest
  <2> QED BY <2>1, <2>3, ElementsType
<1>4. Range(files) \subseteq GoodFiles
  BY <1>3
<1>5. files \in Seq(GoodFiles)
  BY <1>4, SeqWithin
<1> QED BY <1>2, <1>5

LEMMA FileIsTyped ==
    ASSUME NEW s, NEW f \in GoodFile(s)
    PROVE  /\ f.spec = s /\ f.tuple \in Cells /\ f.rows # <<>> /\ InPlace(f)
           /\ \A row \in Range(f.rows) : row.part \in Cells /\ row.key \in Cells
<1>1. f \in File /\ f.rows \in Seq(Row)
  BY DEF GoodFile, File
<1>2. Range(f.rows) \subseteq Row
  BY <1>1, ElementsType
<1> QED BY <1>1, <1>2 DEF GoodFile, File, Row

LEMMA DataHolds == DataInv => TableInv
<1> SUFFICES ASSUME DataInv PROVE TableInv
  OBVIOUS
<1>1. manifests \in Seq(GoodManifest) /\ manifests \in Seq(Manifest)
  BY GoodIsManifest, SeqMonotone DEF DataInv
<1>2. ASSUME NEW m \in Range(manifests)
      PROVE  /\ m.spec \in {"identity", "none"} /\ m.files # <<>>
             /\ Range(m.files) \subseteq GoodFile(m.spec)
  <2>1. m \in GoodManifest
    BY <1>1, ElementsType
  <2>2. m.files \in Seq(GoodFile(m.spec))
    BY <2>1 DEF GoodManifest
  <2>3. Range(m.files) \subseteq GoodFile(m.spec)
    BY <2>2, ElementsType
  <2> QED BY <2>1, <2>3 DEF GoodManifest, Manifest
<1>3. TypeOK
  BY <1>2, FileIsTyped DEF TypeOK, DataInv, Specs
<1>4. ASSUME NEW f \in Range(FilesIn(manifests)) PROVE InPlace(f)
  <2>1. PICK m \in Range(manifests) : f \in Range(m.files)
    BY <1>1, FilesFrom
  <2> QED BY <1>2, <2>1, FileIsTyped
<1>5. RowsInTheirPartition
  BY <1>4 DEF RowsInTheirPartition, InPlace
<1> QED BY <1>1, <1>3, <1>5 DEF TableInv, TableHolds

LEMMA SkippedType == ASSUME DataInv, NEW filters PROVE Skipped(filters) \in Seq(GoodManifest)
BY OnlyType DEF DataInv, Skipped

LEMMA OpenedType == ASSUME DataInv, NEW filters PROVE Opened(filters) \in Seq(GoodFiles)
<1>1. manifests \in Seq(GoodManifest)
  BY DEF DataInv
<1>2. Only(manifests, {m \in Range(manifests) : ManifestMatches(m, filters)}) \in Seq(GoodManifest)
  BY <1>1, OnlyType
<1>3. PICK list \in Seq(GoodManifest) :
         list = Only(manifests, {m \in Range(manifests) : ManifestMatches(m, filters)})
  BY <1>2
<1>4. FilesIn(list) \in Seq(GoodFiles)
  BY GoodFilesIn
<1> QED BY <1>3, <1>4 DEF Opened

LEMMA TasksType == ASSUME DataInv, NEW filters PROVE Tasks(filters) \in Seq(GoodFiles)
<1>1. PICK opened \in Seq(GoodFiles) : opened = Opened(filters)
  BY OpenedType
<1> QED BY <1>1, OnlyType DEF Tasks

LEMMA ExcludedType == ASSUME DataInv, NEW filters PROVE Excluded(filters) \in Seq(GoodFiles)
<1>1. PICK opened \in Seq(GoodFiles) : opened = Opened(filters)
  BY OpenedType
<1> QED BY <1>1, OnlyType DEF Excluded

\* What a caller hands over, and the rows the files of a table hand over.
LEMMA ArrivingType ==
    ASSUME writes \in Nat, NEW batches \in Seq(Seq([part : Cells, key : Cells]))
    PROVE  Arriving(batches) \in Seq(Seq(Row))
<1> DEFINE Of(b) == [n \in DOMAIN batches[b] |->
                       [part |-> batches[b][n].part, key |-> batches[b][n].key,
                        from |-> <<writes + 1, 10 * b + n>>]]
<1>0. PICK C : C = [part : Cells, key : Cells]
  OBVIOUS
<1>01. batches \in Seq(Seq(C))
  BY <1>0
<1>1. ASSUME NEW b \in DOMAIN batches PROVE Of(b) \in Seq(Row)
  <2>1. b \in Nat /\ batches[b] \in Seq(C)
    BY <1>01, LenProperties, ElementOfSeq
  <2>2. PICK batch \in Seq(C) : batch = batches[b]
    BY <2>1
  <2>3. ASSUME NEW n \in DOMAIN batch
        PROVE  [part |-> batch[n].part, key |-> batch[n].key,
                from |-> <<writes + 1, 10 * b + n>>] \in Row
    <3>1. n \in Nat /\ batch[n] \in C
      BY LenProperties, ElementOfSeq
    <3>2. writes + 1 \in Nat /\ 10 * b + n \in Nat
      BY <2>1, <3>1
    <3> QED BY <1>0, <3>1, <3>2 DEF Row
  <2>4. PICK f : f = Of(b)
    OBVIOUS
  <2>5. f = [n \in DOMAIN batch |-> f[n]] /\ \A n \in DOMAIN batch : f[n] \in Row
    BY <2>2, <2>3, <2>4
  <2>6. f \in Seq(Row)
    BY <2>5, Tabulated
  <2> QED BY <2>4, <2>6
<1>2. PICK f : f = Arriving(batches)
  OBVIOUS
<1>3. f = [b \in DOMAIN batches |-> Of(b)]
  BY <1>2 DEF Arriving
<1> HIDE DEF Of
<1>4. f = [b \in DOMAIN batches |-> f[b]] /\ \A b \in DOMAIN batches : f[b] \in Seq(Row)
  BY <1>1, <1>3
<1>5. f \in Seq(Seq(Row))
  BY <1>01, <1>4, Tabulated
<1> QED BY <1>2, <1>5

LEMMA StoredType ==
    ASSUME NEW files \in Seq(File)
    PROVE  [n \in DOMAIN files |-> files[n].rows] \in Seq(Seq(Row))
<1>1. ASSUME NEW n \in DOMAIN files PROVE files[n].rows \in Seq(Row)
  <2>1. files[n] \in File
    BY LenProperties, ElementOfSeq
  <2> QED BY <2>1 DEF File
<1>2. PICK f : f = [n \in DOMAIN files |-> files[n].rows]
  OBVIOUS
<1>3. f = [n \in DOMAIN files |-> f[n]] /\ \A n \in DOMAIN files : f[n] \in Seq(Row)
  BY <1>1, <1>2
<1>4. f \in Seq(Seq(Row))
  BY <1>3, Tabulated
<1> QED BY <1>2, <1>4

LEMMA CommitKeeps ==
    ASSUME DataInv, MaxWrites \in Nat, NEW op, NEW kept \in Seq(GoodManifest),
           NEW batches \in Seq(Seq(Row)), NEW incoming, NEW filters, NEW by,
           Commit(op, kept, batches, incoming, filters, by)
    PROVE  DataInv'
<1>1. PICK target : manifests' = kept \o Written(WithRows(batches), target)
  BY DEF Commit
<1>2. WithRows(batches) \in Seq(Seq(Row))
  BY OnlyType DEF WithRows
<1>3. PICK some \in Seq(Seq(Row)) : some = WithRows(batches)
  BY <1>2
<1>4. Written(some, target) \in Seq(GoodManifest)
  BY WrittenType DEF DataInv
<1>5. kept \o Written(some, target) \in Seq(GoodManifest)
  BY <1>4, ConcatProperties
<1>6. writes' \in 0..MaxWrites /\ spec' = spec
  BY DEF Commit, DataInv
<1> QED BY <1>1, <1>3, <1>5, <1>6 DEF DataInv

-----------------------------------------------------------------------------
(* Every operation keeps the table whole.                                  *)

LEMMA IncomingType ==
    ASSUME DataInv, NEW batches \in Incoming PROVE Arriving(batches) \in Seq(Seq(Row))
<1>1. Incoming \subseteq Seq(Seq([part : Cells, key : Cells])) /\ MaxWrites \in Nat
  BY ScanAssumption
<1>2. batches \in Seq(Seq([part : Cells, key : Cells]))
  BY <1>1
<1>3. writes \in Nat
  BY <1>1 DEF DataInv
<1> QED BY <1>2, <1>3, ArrivingType

LEMMA CatGood ==
    ASSUME NEW kept \in Seq(GoodManifest), NEW files \in Seq(GoodFiles)
    PROVE  kept \o Carried(files) \in Seq(GoodManifest)
<1>1. PICK carried \in Seq(GoodManifest) : carried = Carried(files)
  BY CarriedType
<1>2. kept \o carried \in Seq(GoodManifest)
  BY ConcatProperties
<1> QED BY <1>1, <1>2

LEMMA AppendKeeps == ASSUME DataInv, MaxWrites \in Nat, AppendRows PROVE DataInv'
<1>1. PICK batches \in Incoming :
         Commit("append", manifests, Arriving(batches), Arriving(batches), {}, {})
  BY DEF AppendRows
<1>2. PICK arriving \in Seq(Seq(Row)) : arriving = Arriving(batches)
  BY IncomingType
<1>3. manifests \in Seq(GoodManifest)
  BY DEF DataInv
<1>4. Commit("append", manifests, arriving, arriving, {}, {})
  BY <1>1, <1>2
<1> QED BY <1>3, <1>4, CommitKeeps

LEMMA OverwriteKeeps == ASSUME DataInv, MaxWrites \in Nat, OverwriteWhere PROVE DataInv'
<1>1. PICK batches \in Incoming, filters \in WriteFilters :
         Commit("overwrite", Skipped(filters) \o Carried(Excluded(filters)),
                Arriving(batches), Arriving(batches), filters, {})
  BY DEF OverwriteWhere
<1>2. PICK arriving \in Seq(Seq(Row)) : arriving = Arriving(batches)
  BY IncomingType
<1>3. PICK excluded \in Seq(GoodFiles) : excluded = Excluded(filters)
  BY ExcludedType
<1>4. PICK skipped \in Seq(GoodManifest) : skipped = Skipped(filters)
  BY SkippedType
<1>5. PICK kept \in Seq(GoodManifest) : kept = skipped \o Carried(excluded)
  <2>1. skipped \o Carried(excluded) \in Seq(GoodManifest)
    BY CatGood
  <2> QED BY <2>1
<1>6. Commit("overwrite", kept, arriving, arriving, filters, {})
  BY <1>1, <1>2, <1>3, <1>4, <1>5
<1> QED BY <1>6, CommitKeeps

LEMMA MergeKeeps == ASSUME DataInv, MaxWrites \in Nat, MergeWhere PROVE DataInv'
<1>0. PICK batches \in Incoming, filters \in WriteFilters, by \in MatchKeys \ {{}} :
         \E rows, tasks, selected, unread, stored :
           /\ rows = Range(FlattenSeq(Arriving(batches)))
           /\ tasks = Tasks(filters)
           /\ selected = Only(tasks, {f \in Range(tasks) : Mergeable(f, rows, by)})
           /\ unread = Only(tasks, {f \in Range(tasks) : ~Mergeable(f, rows, by)})
           /\ stored = [n \in DOMAIN selected |-> selected[n].rows]
           /\ Commit("merge", Skipped(filters) \o Carried(Excluded(filters) \o unread),
                     Merged(stored, Arriving(batches), by), Arriving(batches), filters, by)
  BY DEF MergeWhere
<1>1. PICK rows, tasks, selected, unread, stored :
         /\ rows = Range(FlattenSeq(Arriving(batches)))
         /\ tasks = Tasks(filters)
         /\ selected = Only(tasks, {f \in Range(tasks) : Mergeable(f, rows, by)})
         /\ unread = Only(tasks, {f \in Range(tasks) : ~Mergeable(f, rows, by)})
         /\ stored = [n \in DOMAIN selected |-> selected[n].rows]
         /\ Commit("merge", Skipped(filters) \o Carried(Excluded(filters) \o unread),
                   Merged(stored, Arriving(batches), by), Arriving(batches), filters, by)
  BY <1>0
<1>2. PICK arriving \in Seq(Seq(Row)) : arriving = Arriving(batches)
  BY IncomingType
<1>3. PICK excluded \in Seq(GoodFiles) : excluded = Excluded(filters)
  BY ExcludedType
<1>4. PICK skipped \in Seq(GoodManifest) : skipped = Skipped(filters)
  BY SkippedType
<1>5. tasks \in Seq(GoodFiles)
  BY <1>1, TasksType
<1>6. selected \in Seq(GoodFiles)
  BY <1>1, <1>5, OnlyType
<1>7. unread \in Seq(GoodFiles)
  BY <1>1, <1>5, OnlyType
<1>8. selected \in Seq(File)
  BY <1>6, GoodIsFile, SeqMonotone
<1>9. stored \in Seq(Seq(Row))
  BY <1>1, <1>8, StoredType
<1>10. PICK merged \in Seq(Seq(Row)) : merged = Merged(stored, arriving, by)
  <2>1. Merged(stored, arriving, by) \in Seq(Seq(Row))
    BY <1>9, MergedType
  <2> QED BY <2>1
<1>11. PICK left \in Seq(GoodFiles) : left = excluded \o unread
  <2>1. excluded \o unread \in Seq(GoodFiles)
    BY <1>7, ConcatProperties
  <2> QED BY <2>1
<1>12. PICK kept \in Seq(GoodManifest) : kept = skipped \o Carried(left)
  <2>1. skipped \o Carried(left) \in Seq(GoodManifest)
    BY CatGood
  <2> QED BY <2>1
<1>13. Commit("merge", kept, merged, arriving, filters, by)
  BY <1>1, <1>2, <1>3, <1>4, <1>10, <1>11, <1>12
<1> QED BY <1>13, CommitKeeps

LEMMA CompactKeeps == ASSUME DataInv, MaxWrites \in Nat, Compact PROVE DataInv'
<1>1. PICK files, chosen, selected, carried, stored :
         /\ files = FilesIn(manifests)
         /\ selected = Only(files, {f \in Range(files) : Place(f) \in chosen})
         /\ carried = Only(files, {f \in Range(files) : Place(f) \notin chosen})
         /\ stored = [n \in DOMAIN selected |-> selected[n].rows]
         /\ Commit("replace", Carried(carried), stored, <<>>, {}, {})
  BY DEF Compact
<1>2. files \in Seq(GoodFiles)
  BY <1>1, GoodFilesIn DEF DataInv
<1>3. selected \in Seq(GoodFiles)
  BY <1>1, <1>2, OnlyType
<1>4. carried \in Seq(GoodFiles)
  BY <1>1, <1>2, OnlyType
<1>5. selected \in Seq(File)
  BY <1>3, GoodIsFile, SeqMonotone
<1>6. stored \in Seq(Seq(Row))
  BY <1>1, <1>5, StoredType
<1>7. PICK kept \in Seq(GoodManifest) : kept = Carried(carried)
  BY <1>4, CarriedType
<1>8. Commit("replace", kept, stored, <<>>, {}, {})
  BY <1>1, <1>7
<1> QED BY <1>6, <1>8, CommitKeeps

LEMMA DataStarts == ASSUME MaxWrites \in Nat, Init PROVE DataInv
BY EmptySeq DEF Init, DataInv, Specs

LEMMA DataStep == ASSUME DataInv, MaxWrites \in Nat, [Next]_vars PROVE DataInv'
<1>1. CASE AppendRows
  BY <1>1, AppendKeeps
<1>2. CASE OverwriteWhere
  BY <1>2, OverwriteKeeps
<1>3. CASE MergeWhere
  BY <1>3, MergeKeeps
<1>4. CASE Compact
  BY <1>4, CompactKeeps
<1>5. CASE SetDefaultSpec
  BY <1>5 DEF SetDefaultSpec, DataInv, Specs
<1>6. CASE UNCHANGED vars
  BY <1>6 DEF vars, DataInv
<1> QED BY <1>1, <1>2, <1>3, <1>4, <1>5, <1>6 DEF Next

\* Whatever is appended, overwritten, merged and compacted, and whichever spec is
\* the default: every manifest lists files of its own spec, each with the rows of
\* one partition and the tuple and statistics of those rows, and carries the
\* bounds that summarise its files (group_by_partition, write_data_file,
\* field_summaries and carry_manifests together).
THEOREM DataAlways == Spec => []DataInv
<1>1. MaxWrites \in Nat
  BY ScanAssumption
<1>2. Init => DataInv
  BY <1>1, DataStarts
<1>3. DataInv /\ [Next]_vars => DataInv'
  BY <1>1, DataStep
<1> QED BY <1>2, <1>3, PTL DEF Spec

\* Every file of the table holds the rows of its own partition, under the spec
\* its manifest names, whichever operations wrote or carried it.
THEOREM TablesHold == Spec => []TableHolds
<1>1. DataInv => TableHolds
  BY DataHolds DEF TableInv
<1> QED BY <1>1, DataAlways, PTL

\* A scan whose filters are exact is the whole scan, filtered, in the same order:
\* skipping manifests, skipping files and leaving the filters a tuple settles out
\* of the residual lose no row and let none through (scan_where, plan_files).
THEOREM ScansExact == Spec => []ScanExact
<1>1. DataInv => ScanExact
  BY DataHolds, ScansAreExact
<1> QED BY <1>1, DataAlways, PTL

-----------------------------------------------------------------------------
(* The rows of what a commit writes, and of what it carries.               *)

Content(list) == RowsIn(FilesIn(list))

LEMMA ContentType ==
    ASSUME NEW list \in Seq(Manifest) PROVE Content(list) \in Seq(Row)
<1>1. PICK files \in Seq(File) : files = FilesIn(list)
  BY FilesInType
<1> QED BY <1>1, RowsInType DEF Content

LEMMA ContentCat ==
    ASSUME NEW list \in Seq(Manifest), NEW more \in Seq(Manifest)
    PROVE  Content(Cat(list, more)) = Cat(Content(list), Content(more))
<1>1. PICK F \in Making(Manifest, File) : F = FilesOf
  BY FilesOfMakes
<1>2. PICK R \in Making(File, Row) : R = RowsOf
  BY RowsOfMakes
<1>3. PICK a \in Seq(File) : a = FilesIn(list)
  BY FilesInType
<1>4. PICK b \in Seq(File) : b = FilesIn(more)
  BY FilesInType
<1>5. PICK all \in Seq(Manifest) : all = Cat(list, more)
  BY CatType
<1>6. Over(F, Cat(list, more)) = Cat(Over(F, list), Over(F, more))
  BY OverCat
<1>7. PICK c \in Seq(File) : c = Cat(a, b)
  BY CatType
<1>8. FilesIn(list) = Over(F, list) /\ FilesIn(more) = Over(F, more) /\ FilesIn(all) = Over(F, all)
  BY <1>1, FilesInIs
<1>9. Over(R, Cat(a, b)) = Cat(Over(R, a), Over(R, b))
  BY OverCat
<1>10. RowsIn(a) = Over(R, a) /\ RowsIn(b) = Over(R, b) /\ RowsIn(c) = Over(R, c)
  BY <1>2, RowsInIs
<1> QED BY <1>3, <1>4, <1>5, <1>6, <1>7, <1>8, <1>9, <1>10 DEF Content

LEMMA FlattenSome ==
    ASSUME NEW X, NEW batches \in Seq(Seq(X))
    PROVE  FlattenSeq(WithRows(batches)) = FlattenSeq(batches)
<1>1. PICK I \in Making(Seq(X), X) : I = Itself(X)
  BY ItselfMakes
<1>2. PICK S : S = Range(batches) \ {<<>>}
  OBVIOUS
<1>3. PICK some \in Seq(Seq(X)) : some = WithRows(batches) /\ some = Only(batches, S)
  BY <1>2, OnlyType DEF WithRows
<1>4. Over(I, Only(batches, S)) = Over(Kept(I, Seq(X), S), batches)
  BY OverOnly
<1>5. PICK K : K = Kept(I, Seq(X), S)
  OBVIOUS
<1>6. ASSUME NEW n \in DOMAIN batches PROVE K[batches[n]] = I[batches[n]]
  <2>1. batches[n] \in Seq(X) /\ batches[n] \in Range(batches)
    BY LenProperties, ElementOfSeq DEF Range
  <2>2. I[batches[n]] = batches[n]
    BY <1>1, <2>1 DEF Itself
  <2> QED BY <1>2, <1>5, <2>1, <2>2 DEF Kept
<1>7. Over(K, batches) = Over(I, batches)
  BY <1>6, OverAlike
<1>8. FlattenSeq(batches) = Over(I, batches)
  BY <1>1, FlattenOver
<1>9. FlattenSeq(some) = Over(I, some)
  BY <1>1, FlattenOver
<1> QED BY <1>3, <1>4, <1>5, <1>7, <1>8, <1>9

\* A group's rows are those of all batches that have its key.
LEMMA FlattenTaken ==
    ASSUME NEW batches \in Seq(Seq(Row)), NEW k
    PROVE  FlattenSeq(Taken(batches, k)) = Only(FlattenSeq(batches), RowsAt(k))
<1>1. PICK I \in Making(Seq(Row), Row) : I = Itself(Row)
  BY ItselfMakes
<1>2. PICK P : P = Picking(Seq(Row), I, RowsAt(k))
  OBVIOUS
<1>3. Only(Over(I, batches), RowsAt(k)) = Over(P, batches)
  BY <1>2, OnlyOver
<1>4. FlattenSeq(batches) = Over(I, batches)
  BY <1>1, FlattenOver
<1>5. FlattenSeq(Taken(batches, k)) = Over(Taking(k), batches)
  BY TakenIs DEF Over
<1>6. ASSUME NEW n \in DOMAIN batches PROVE P[batches[n]] = Taking(k)[batches[n]]
  <2>1. batches[n] \in Seq(Row)
    BY LenProperties, ElementOfSeq
  <2> QED BY <1>1, <1>2, <2>1 DEF Picking, Taking, Itself
<1>7. Over(P, batches) = Over(Taking(k), batches)
  BY <1>6, OverAlike
<1> QED BY <1>3, <1>4, <1>5, <1>7

LEMMA RowsOfGroup ==
    ASSUME NEW k, NEW group \in Groups(k), NEW target
    PROVE  RowsIn(DataFiles(group, target)) = FlattenSeq(group)
<1>1. PICK chunks \in Groups(k) : chunks = Rolled(group, target)
  BY RolledType
<1>2. PICK files : files = DataFiles(group, target)
  OBVIOUS
<1>3. DOMAIN files = DOMAIN chunks /\ \A n \in DOMAIN chunks : files[n].rows = chunks[n]
  BY <1>1, <1>2 DEF DataFiles
<1>4. chunks \in Seq(Full(k))
  BY <1>1 DEF Groups
<1>5. [n \in DOMAIN files |-> files[n].rows] = chunks
  <2>1. chunks = [n \in DOMAIN chunks |-> chunks[n]]
    BY <1>4, LenProperties
  <2> QED BY <1>3, <2>1
<1>6. RowsIn(files) = FlattenSeq(chunks)
  BY <1>5 DEF RowsIn
<1>7. group \in Seq(Seq(RowsAt(k)))
  <2>1. group \in Seq(Full(k)) /\ Full(k) \subseteq Seq(RowsAt(k))
    BY DEF Groups, Full
  <2> QED BY <2>1, SeqMonotone
<1>8. PICK rows \in Seq(RowsAt(k)) : rows = FlattenSeq(group)
  BY <1>7, FlattenType
<1>9. FlattenSeq(<<rows>>) = rows
  BY FlattenOne
<1> QED BY <1>1, <1>2, <1>6, <1>8, <1>9 DEF Rolled

KeyFunction == [row \in Row |-> GroupKey(row)]

LEMMA KeyFunctionType == KeyFunction \in [Row -> Cells]
BY DEF KeyFunction, GroupKey, Row, Cells

\* The files of each key's group.
GroupFiles(batches, target) ==
    [k \in Cells |-> IF k \in Range(KeysOf(batches))
                     THEN DataFiles(WithRows(Taken(batches, k)), target) ELSE <<>>]

LEMMA GroupFilesMakes ==
    ASSUME NEW batches \in Seq(Seq(Row)), NEW target, spec \in Specs
    PROVE  GroupFiles(batches, target) \in Making(Cells, File)
<1>1. ASSUME NEW k \in Range(KeysOf(batches))
      PROVE  DataFiles(WithRows(Taken(batches, k)), target) \in Seq(File)
  <2>1. PICK group \in Groups(k) : group = WithRows(Taken(batches, k))
    BY GroupType
  <2>2. DataFiles(group, target) \in Seq(GoodFile(spec))
    BY DataFilesType
  <2>3. GoodFile(spec) \subseteq File
    BY DEF GoodFile
  <2> QED BY <2>1, <2>2, <2>3, SeqMonotone
<1> QED BY <1>1, EmptySeq DEF GroupFiles, Making

LEMMA WrittenIs ==
    ASSUME NEW batches \in Seq(Seq(Row)), NEW target, spec \in Specs
    PROVE  Written(batches, target) = ManifestOf(Over(GroupFiles(batches, target), KeysOf(batches)))
<1>1. PICK keys \in Seq(Cells) : keys = KeysOf(batches)
  BY KeysType
<1>2. PICK groups : groups = Grouped(batches)
  OBVIOUS
<1>3. groups = [n \in DOMAIN keys |-> WithRows(Taken(batches, keys[n]))]
  BY <1>1, <1>2, GroupedIs
<1>4. PICK made : made = [n \in DOMAIN groups |-> DataFiles(groups[n], target)]
  OBVIOUS
<1>5. \A n \in DOMAIN keys : keys[n] \in Cells /\ keys[n] \in Range(keys)
  BY LenProperties, ElementOfSeq DEF Range
<1>6. Each(GroupFiles(batches, target), keys)
        = [n \in DOMAIN keys |-> DataFiles(WithRows(Taken(batches, keys[n])), target)]
  BY <1>1, <1>5 DEF Each, GroupFiles
<1>7. made = [n \in DOMAIN keys |-> DataFiles(WithRows(Taken(batches, keys[n])), target)]
  BY <1>3, <1>4
<1>8. Written(batches, target) = ManifestOf(FlattenSeq(made))
  BY <1>2, <1>4 DEF Written
<1> QED BY <1>1, <1>6, <1>7, <1>8 DEF Over

LEMMA FilesInOne ==
    ASSUME NEW files \in Seq(File) PROVE FilesIn(ManifestOf(files)) = files
<1>1. CASE files = <<>>
  <2>1. FilesIn(<<>>) = FlattenSeq(<<>>)
    <3>1. [n \in DOMAIN <<>> |-> <<>>[n].files] = <<>>
      BY EmptySeq
    <3> QED BY <3>1 DEF FilesIn
  <2> QED BY <1>1, <2>1, FlattenEmpty DEF ManifestOf
<1>2. CASE files # <<>>
  <2>1. PICK m : m = [spec |-> files[1].spec, files |-> files]
    OBVIOUS
  <2>2. ManifestOf(files) = <<m>>
    BY <1>2, <2>1 DEF ManifestOf
  <2>3. [n \in DOMAIN <<m>> |-> <<m>>[n].files] = <<files>>
    BY <2>1
  <2>4. FlattenSeq(<<files>>) = files
    BY FlattenOne
  <2> QED BY <2>2, <2>3, <2>4 DEF FilesIn
<1> QED BY <1>1, <1>2

\* row_groups, rolled and write_data_file: a commit writes its rows, no other.
LEMMA WrittenContent ==
    ASSUME NEW batches \in Seq(Seq(Row)), NEW target, spec \in Specs
    PROVE  Same(Content(Written(batches, target)), FlattenSeq(batches))
<1>1. PICK keys \in Seq(Cells) : keys = KeysOf(batches)
  BY KeysType
<1>2. PICK D \in Making(Cells, File) : D = GroupFiles(batches, target)
  BY GroupFilesMakes
<1>3. PICK R \in Making(File, Row) : R = RowsOf
  BY RowsOfMakes
<1>4. PICK rows \in Seq(Row) : rows = FlattenSeq(batches)
  BY FlattenType
<1>5. PICK K \in [Row -> Cells] : K = KeyFunction
  BY KeyFunctionType
<1>6. PICK G \in Making(Cells, Row) : G = Portions(Row, Cells, K, rows)
  BY PortionsMake
<1>7. keys = Firsts(Each(K, rows))
  <2>1. \A n \in DOMAIN rows : K[rows[n]] = GroupKey(rows[n])
    BY <1>5, LenProperties, ElementOfSeq DEF KeyFunction
  <2>2. Each(K, rows) = KeysIn(rows)
    BY <2>1 DEF Each, KeysIn
  <2> QED BY <1>1, <1>4, <2>2 DEF KeysOf
<1>8. Same(Over(G, keys), rows)
  <2>1. Same(Over(Portions(Row, Cells, K, rows), Firsts(Each(K, rows))), rows)
    BY Regrouped
  <2> QED BY <1>6, <1>7, <2>1
<1>9. PICK B : B = [k \in Cells |-> Over(R, D[k])]
  OBVIOUS
<1>10. B \in Making(Cells, Row)
  <2>1. \A k \in Cells : D[k] \in Seq(File)
    BY MakingAt
  <2>2. \A k \in Cells : Over(R, D[k]) \in Seq(Row)
    BY <2>1, OverType
  <2> QED BY <1>9, <2>2 DEF Making
<1>11. \A k \in Cells : B[k] = Over(R, D[k])
  BY <1>9
<1>12. Over(R, Over(D, keys)) = Over(B, keys)
  BY <1>10, <1>11, OverOver
<1>13. ASSUME NEW n \in DOMAIN keys PROVE B[keys[n]] = G[keys[n]]
  <2>1. PICK k \in Cells : k = keys[n]
    BY LenProperties, ElementOfSeq
  <2>2. k \in Range(keys)
    BY <2>1 DEF Range
  <2>3. PICK group \in Groups(k) : group = WithRows(Taken(batches, k))
    BY <1>1, <2>2, GroupType
  <2>4. PICK files \in Seq(File) : files = D[k]
    BY MakingAt
  <2>5. files = DataFiles(group, target)
    BY <1>1, <1>2, <2>2, <2>3, <2>4 DEF GroupFiles
  <2>6. RowsIn(DataFiles(group, target)) = FlattenSeq(group)
    BY RowsOfGroup
  <2>7. RowsIn(files) = Over(R, files)
    BY <1>3, RowsInIs
  <2>8. PICK taken \in Seq(Seq(RowsAt(k))) : taken = Taken(batches, k)
    <3>1. PICK T \in [Seq(Row) -> Seq(RowsAt(k))] : T = Taking(k)
      BY TakingMaps
    <3>2. Each(T, batches) \in Seq(Seq(RowsAt(k)))
      BY EachType
    <3> QED BY <3>1, <3>2, TakenIs
  <2>9. FlattenSeq(WithRows(taken)) = FlattenSeq(taken)
    BY FlattenSome
  <2>10. FlattenSeq(Taken(batches, k)) = Only(FlattenSeq(batches), RowsAt(k))
    BY FlattenTaken
  <2>11. G[k] = Only(rows, RowsAt(k))
    <3>1. {row \in Row : K[row] = k} = RowsAt(k)
      BY <1>5 DEF KeyFunction, RowsAt
    <3> QED BY <1>6, <3>1 DEF Portions
  <2> QED BY <1>4, <1>9, <2>1, <2>3, <2>4, <2>5, <2>6, <2>7, <2>8, <2>9, <2>10, <2>11
<1>14. Over(B, keys) = Over(G, keys)
  BY <1>13, OverAlike
<1>15. PICK files \in Seq(File) : files = Over(D, keys)
  BY OverType
<1>16. FilesIn(ManifestOf(files)) = files
  BY FilesInOne
<1>17. RowsIn(files) = Over(R, files)
  BY <1>3, RowsInIs
<1>18. Written(batches, target) = ManifestOf(Over(GroupFiles(batches, target), KeysOf(batches)))
  BY WrittenIs
<1>19. Content(Written(batches, target)) = Over(G, keys)
  BY <1>1, <1>2, <1>12, <1>14, <1>15, <1>16, <1>17, <1>18 DEF Content
<1> QED BY <1>4, <1>8, <1>19

SpecFunction == [f \in File |-> f.spec]

LEMMA SpecFunctionType == SpecFunction \in [File -> Specs]
BY DEF SpecFunction, File, Specs

\* carried_manifests: the kept files, however many specs they are of.
LEMMA CarriedFiles ==
    ASSUME NEW files \in Seq(File) PROVE Same(FilesIn(Carried(files)), files)
<1>1. PICK K \in [File -> Specs] : K = SpecFunction
  BY SpecFunctionType
<1>2. PICK G \in Making(Specs, File) : G = Portions(File, Specs, K, files)
  BY PortionsMake
<1>3. PICK all \in Seq(Specs) : all = SpecsIn(files)
  BY SpecsInType
<1>4. PICK specs \in Seq(Specs) : specs = Firsts(all)
  BY FirstsType
<1>5. all = Each(K, files)
  <2>1. \A n \in DOMAIN files : K[files[n]] = files[n].spec
    BY <1>1, LenProperties, ElementOfSeq DEF SpecFunction
  <2> QED BY <1>3, <2>1 DEF Each, SpecsIn
<1>6. Same(Over(G, specs), files)
  <2>1. Same(Over(Portions(File, Specs, K, files), Firsts(Each(K, files))), files)
    BY Regrouped
  <2> QED BY <1>2, <1>4, <1>5, <2>1
<1>7. ASSUME NEW n \in DOMAIN specs
      PROVE  Only(files, {file \in Range(files) : file.spec = specs[n]}) = G[specs[n]]
  <2>1. PICK s \in Specs : s = specs[n]
    BY LenProperties, ElementOfSeq
  <2>2. PICK S : S = {file \in Range(files) : file.spec = s}
    OBVIOUS
  <2>3. PICK T : T = {file \in File : K[file] = s}
    OBVIOUS
  <2>4. Range(files) \subseteq File
    BY ElementsType
  <2>5. Range(files) \cap S = Range(files) \cap T
    BY <1>1, <2>2, <2>3, <2>4 DEF SpecFunction
  <2>6. Only(files, S) = Only(files, T)
    BY <2>5, OnlyAlike
  <2>7. G[s] = Only(files, T)
    BY <1>2, <2>3 DEF Portions
  <2> QED BY <2>1, <2>2, <2>6, <2>7
<1>8. PICK carried : carried = Carried(files)
  OBVIOUS
<1>9. /\ DOMAIN carried = DOMAIN specs
      /\ \A n \in DOMAIN specs :
           carried[n].files = Only(files, {file \in Range(files) : file.spec = specs[n]})
  BY <1>3, <1>4, <1>8 DEF Carried, SpecsIn
<1>10. [n \in DOMAIN carried |-> carried[n].files] = Each(G, specs)
  BY <1>7, <1>9 DEF Each
<1>11. FilesIn(carried) = Over(G, specs)
  BY <1>10 DEF FilesIn, Over
<1> QED BY <1>6, <1>8, <1>11

LEMMA CarriedContent ==
    ASSUME NEW files \in Seq(GoodFiles) PROVE Same(Content(Carried(files)), RowsIn(files))
<1>1. files \in Seq(File)
  BY GoodIsFile, SeqMonotone
<1>2. Same(FilesIn(Carried(files)), files)
  BY <1>1, CarriedFiles
<1>3. PICK list \in Seq(GoodManifest) : list = Carried(files)
  BY CarriedType
<1>4. list \in Seq(Manifest)
  BY <1>3, GoodIsManifest, SeqMonotone
<1>5. PICK carried \in Seq(File) : carried = FilesIn(list)
  BY <1>4, FilesInType
<1>6. PICK R \in Making(File, Row) : R = RowsOf
  BY RowsOfMakes
<1>7. Same(Over(R, carried), Over(R, files))
  BY <1>1, <1>2, <1>3, <1>5, SameOver
<1>8. RowsIn(carried) = Over(R, carried)
  BY <1>6, RowsInIs
<1>9. RowsIn(files) = Over(R, files)
  BY <1>1, <1>6, RowsInIs
<1> QED BY <1>3, <1>5, <1>7, <1>8, <1>9 DEF Content

-----------------------------------------------------------------------------
(* Every write keeps, adds and drops exactly the rows it says.             *)

\* commit: the table has the rows of what was kept and the rows written.
LEMMA CommitContent ==
    ASSUME DataInv, NEW op, NEW kept \in Seq(GoodManifest),
           NEW batches \in Seq(Seq(Row)), NEW incoming, NEW filters, NEW by,
           Commit(op, kept, batches, incoming, filters, by)
    PROVE  Same(AllRows', Cat(Content(kept), FlattenSeq(batches)))
<1>1. PICK target : manifests' = kept \o Written(WithRows(batches), target)
  BY DEF Commit
<1>2. PICK some \in Seq(Seq(Row)) : some = WithRows(batches)
  <2>1. WithRows(batches) \in Seq(Seq(Row))
    BY OnlyType DEF WithRows
  <2> QED BY <2>1
<1>3. PICK new \in Seq(GoodManifest) : new = Written(some, target)
  BY WrittenType DEF DataInv
<1>4. new \in Seq(Manifest) /\ kept \in Seq(Manifest)
  BY GoodIsManifest, SeqMonotone
<1>5. manifests' = Cat(kept, new)
  BY <1>1, <1>2, <1>3 DEF Cat
<1>6. Content(Cat(kept, new)) = Cat(Content(kept), Content(new))
  BY <1>4, ContentCat
<1>7. Same(Content(new), FlattenSeq(some))
  BY <1>3, WrittenContent DEF DataInv
<1>8. FlattenSeq(some) = FlattenSeq(batches)
  BY <1>2, FlattenSome
<1>9. PICK a \in Seq(Row) : a = Content(kept)
  BY <1>4, ContentType
<1>10. PICK b \in Seq(Row) : b = Content(new)
  BY <1>4, ContentType
<1>11. PICK c \in Seq(Row) : c = FlattenSeq(batches)
  BY FlattenType
<1>12. Same(a, a)
  BY SameReflexive
<1>13. Same(b, c)
  BY <1>7, <1>8, <1>10, <1>11
<1>14. Same(Cat(a, b), Cat(a, c))
  BY <1>12, <1>13, SameCat
<1>15. AllRows' = Content(manifests')
  BY DEF AllRows, Content
<1> QED BY <1>5, <1>6, <1>9, <1>10, <1>11, <1>14, <1>15

LEMMA DataRows == ASSUME DataInv PROVE AllRows \in Seq(Row)
BY DataHolds, AllRowsType

LEMMA DataRowsNext == ASSUME DataInv' PROVE AllRows' \in Seq(Row)
<1>1. PICK list \in Seq(GoodManifest) : list = manifests'
  BY DEF DataInv
<1>2. list \in Seq(Manifest)
  BY <1>1, GoodIsManifest, SeqMonotone
<1>3. Content(list) \in Seq(Row)
  BY <1>2, ContentType
<1> QED BY <1>1, <1>3 DEF AllRows, Content

LEMMA AppendExact ==
    ASSUME DataInv, MaxWrites \in Nat, AppendRows PROVE WritesExact'
<1>1. PICK batches \in Incoming :
         Commit("append", manifests, Arriving(batches), Arriving(batches), {}, {})
  BY DEF AppendRows
<1>2. PICK arriving \in Seq(Seq(Row)) : arriving = Arriving(batches)
  BY IncomingType
<1>3. PICK kept \in Seq(GoodManifest) : kept = manifests
  BY DEF DataInv
<1>4. Commit("append", kept, arriving, arriving, {}, {})
  BY <1>1, <1>2, <1>3
<1>5. Same(AllRows', Cat(Content(kept), FlattenSeq(arriving)))
  BY <1>4, CommitContent
<1>6. Content(kept) = AllRows
  BY <1>3 DEF Content, AllRows
<1>7. PICK before \in Seq(Row) : before = AllRows
  BY DataRows
<1>8. PICK rows \in Seq(Row) : rows = FlattenSeq(arriving)
  BY FlattenType
<1>9. PICK after \in Seq(Row) : after = AllRows'
  <2>1. DataInv'
    BY AppendKeeps
  <2> QED BY <2>1, DataRowsNext
<1>10. Cat(before, rows) \in Seq(Row)
  BY CatType
<1>11. SameRows(after, Cat(before, rows))
  <2>1. Same(after, Cat(before, rows))
    BY <1>5, <1>6, <1>7, <1>8, <1>9
  <2> QED BY <1>10, <2>1, SameIsSameRows
<1>12. asked'.op = "append" /\ asked'.before = AllRows /\ asked'.batches = arriving
  BY <1>4 DEF Commit
<1> QED BY <1>7, <1>8, <1>9, <1>11, <1>12 DEF WritesExact, RowsKept, OverwriteExact, Cat

LEMMA CompactExact ==
    ASSUME DataInv, MaxWrites \in Nat, Compact PROVE WritesExact'
<1>1. PICK files, chosen, selected, carried, stored :
         /\ files = FilesIn(manifests)
         /\ selected = Only(files, {f \in Range(files) : Place(f) \in chosen})
         /\ carried = Only(files, {f \in Range(files) : Place(f) \notin chosen})
         /\ stored = [n \in DOMAIN selected |-> selected[n].rows]
         /\ Commit("replace", Carried(carried), stored, <<>>, {}, {})
  BY DEF Compact
<1>2. files \in Seq(GoodFiles)
  BY <1>1, GoodFilesIn DEF DataInv
<1>3. selected \in Seq(GoodFiles)
  BY <1>1, <1>2, OnlyType
<1>4. carried \in Seq(GoodFiles)
  BY <1>1, <1>2, OnlyType
<1>5. files \in Seq(File) /\ selected \in Seq(File) /\ carried \in Seq(File)
  BY <1>2, <1>3, <1>4, GoodIsFile, SeqMonotone
<1>6. stored \in Seq(Seq(Row))
  BY <1>1, <1>5, StoredType
<1>7. PICK kept \in Seq(GoodManifest) : kept = Carried(carried)
  BY <1>4, CarriedType
<1>8. Commit("replace", kept, stored, <<>>, {}, {})
  BY <1>1, <1>7
<1>9. Same(AllRows', Cat(Content(kept), FlattenSeq(stored)))
  BY <1>6, <1>8, CommitContent
<1>10. FlattenSeq(stored) = RowsIn(selected)
  BY <1>1 DEF RowsIn
<1>11. PICK a \in Seq(Row) : a = RowsIn(carried)
  BY <1>5, RowsInType
<1>12. PICK b \in Seq(Row) : b = RowsIn(selected)
  BY <1>5, RowsInType
<1>13. PICK k \in Seq(Row) : k = Content(kept)
  <2>1. kept \in Seq(Manifest)
    BY GoodIsManifest, SeqMonotone
  <2> QED BY <2>1, ContentType
<1>14. Same(k, a)
  BY <1>4, <1>7, <1>11, <1>13, CarriedContent
<1>15. Same(b, b)
  BY SameReflexive
<1>16. Same(Cat(k, b), Cat(a, b))
  BY <1>14, <1>15, SameCat
<1>17. Same(Cat(carried, selected), files)
  <2> DEFINE S == {f \in Range(files) : Place(f) \notin chosen}
             T == {f \in Range(files) : Place(f) \in chosen}
  <2>1. \A f \in Range(files) : f \in S <=> f \notin T
    OBVIOUS
  <2> HIDE DEF S, T
  <2>2. Same(Cat(Only(files, S), Only(files, T)), files)
    BY <1>5, <2>1, SameParts
  <2> QED BY <1>1, <2>2 DEF S, T
<1>18. PICK R \in Making(File, Row) : R = RowsOf
  BY RowsOfMakes
<1>19. PICK both \in Seq(File) : both = Cat(carried, selected)
  BY <1>5, CatType
<1>20. Same(Over(R, both), Over(R, files))
  BY <1>5, <1>17, <1>19, SameOver
<1>21. Over(R, Cat(carried, selected)) = Cat(Over(R, carried), Over(R, selected))
  BY <1>5, OverCat
<1>22. RowsIn(carried) = Over(R, carried) /\ RowsIn(selected) = Over(R, selected)
       /\ RowsIn(files) = Over(R, files)
  BY <1>5, <1>18, RowsInIs
<1>23. Same(Cat(a, b), AllRows)
  BY <1>1, <1>11, <1>12, <1>19, <1>20, <1>21, <1>22 DEF AllRows
<1>24. Same(AllRows', Cat(k, b))
  BY <1>9, <1>10, <1>12, <1>13
<1>25. Same(AllRows', AllRows)
  BY <1>16, <1>23, <1>24, SameTransitive
<1>26. PICK before \in Seq(Row) : before = AllRows
  BY DataRows
<1>27. PICK after \in Seq(Row) : after = AllRows'
  <2>1. DataInv'
    BY CompactKeeps
  <2> QED BY <2>1, DataRowsNext
<1>28. SameRows(after, before)
  BY <1>25, <1>26, <1>27, SameIsSameRows
<1>29. asked'.op = "replace" /\ asked'.before = AllRows
  BY <1>8 DEF Commit
<1> QED BY <1>26, <1>27, <1>28, <1>29 DEF WritesExact, RowsKept, OverwriteExact

\* A filter on the partition passes all rows of a file or none.
LEMMA FileSettled ==
    ASSUME NEW f, Placed(f), NEW filters \in SUBSET Filter,
           \A filter \in filters : filter.column = "part" /\ Readable(filter) /\ f.spec = "identity",
           NEW row \in Range(f.rows)
    PROVE  PassesAll(row, filters) <=> FileMatches(f, filters)
<1>1. ASSUME NEW filter \in filters
      PROVE  Passes(row, filter)
               <=> IF Settles(f.spec, filter) THEN f.tuple = filter.value
                   ELSE StatisticsAllow(f, filter)
  <2>1. filter.column = "part" /\ Readable(filter) /\ f.spec = "identity"
    BY <1>1
  <2>2. row.part = f.tuple /\ Settles(f.spec, filter)
    BY <2>1 DEF Placed, Settles
  <2>3. (filter.isNull => filter.value = Null) /\ (filter.isNull \/ filter.value # Null)
    BY <2>1 DEF Filter, Readable
  <2> QED BY <2>1, <2>2, <2>3 DEF Passes
<1> QED BY <1>1 DEF PassesAll, FileMatches

\* What a plan skips, excludes and takes is the table, in another order.
OpenedList(filters) == Only(manifests, {m \in Range(manifests) : ManifestMatches(m, filters)})

LEMMA PlanParts ==
    ASSUME DataInv, NEW filters
    PROVE  Same(Cat(Content(Skipped(filters)),
                    Cat(RowsIn(Excluded(filters)), RowsIn(Tasks(filters)))), AllRows)
<1>1. PICK list \in Seq(Manifest) : list = manifests
  BY DataHolds DEF TableInv
<1>2. PICK sk \in Seq(Manifest) : sk = Skipped(filters)
  <2>1. Only(list, {m \in Range(list) : ~ManifestMatches(m, filters)}) \in Seq(Manifest)
    BY OnlyType
  <2> QED BY <1>1, <2>1 DEF Skipped
<1>3. PICK op \in Seq(Manifest) : op = OpenedList(filters)
  <2>1. Only(list, {m \in Range(list) : ManifestMatches(m, filters)}) \in Seq(Manifest)
    BY OnlyType
  <2> QED BY <1>1, <2>1 DEF OpenedList
<1>4. Same(Cat(sk, op), list)
  <2> DEFINE S == {m \in Range(list) : ~ManifestMatches(m, filters)}
             T == {m \in Range(list) : ManifestMatches(m, filters)}
  <2>1. \A m \in Range(list) : m \in S <=> m \notin T
    OBVIOUS
  <2>2. sk = Only(list, S) /\ op = Only(list, T)
    BY <1>1, <1>2, <1>3 DEF Skipped, OpenedList
  <2> HIDE DEF S, T
  <2>3. Same(Cat(Only(list, S), Only(list, T)), list)
    BY <2>1, SameParts
  <2> QED BY <2>2, <2>3
<1>5. PICK F \in Making(Manifest, File) : F = FilesOf
  BY FilesOfMakes
<1>6. PICK R \in Making(File, Row) : R = RowsOf
  BY RowsOfMakes
<1>7. PICK opened \in Seq(File) : opened = FilesIn(op)
  BY FilesInType
<1>8. Opened(filters) = opened
  BY <1>3, <1>7 DEF Opened, OpenedList
<1>9. PICK ex \in Seq(File) : ex = Excluded(filters)
  BY <1>8, OnlyType DEF Excluded
<1>10. PICK ta \in Seq(File) : ta = Tasks(filters)
  BY <1>8, OnlyType DEF Tasks
<1>11. Same(Cat(ex, ta), opened)
  <2> DEFINE S == {f \in Range(opened) : ~FileMatches(f, filters)}
             T == {f \in Range(opened) : FileMatches(f, filters)}
  <2>1. \A f \in Range(opened) : f \in S <=> f \notin T
    OBVIOUS
  <2>2. ex = Only(opened, S) /\ ta = Only(opened, T)
    BY <1>8, <1>9, <1>10 DEF Excluded, Tasks
  <2> HIDE DEF S, T
  <2>3. Same(Cat(Only(opened, S), Only(opened, T)), opened)
    BY <2>1, SameParts
  <2> QED BY <2>2, <2>3
<1>12. Same(Cat(RowsIn(ex), RowsIn(ta)), RowsIn(opened))
  <2>1. PICK both \in Seq(File) : both = Cat(ex, ta)
    BY CatType
  <2>2. Same(Over(R, both), Over(R, opened))
    BY <1>11, <2>1, SameOver
  <2>3. Over(R, Cat(ex, ta)) = Cat(Over(R, ex), Over(R, ta))
    BY OverCat
  <2>4. RowsIn(ex) = Over(R, ex) /\ RowsIn(ta) = Over(R, ta) /\ RowsIn(opened) = Over(R, opened)
    BY <1>6, RowsInIs
  <2> QED BY <2>1, <2>2, <2>3, <2>4
<1>13. Same(Cat(Content(sk), Content(op)), Content(list))
  <2>1. PICK both \in Seq(Manifest) : both = Cat(sk, op)
    BY CatType
  <2>2. PICK bothFiles \in Seq(File) : bothFiles = FilesIn(both)
    BY FilesInType
  <2>3. PICK files \in Seq(File) : files = FilesIn(list)
    BY FilesInType
  <2>4. Same(Over(F, both), Over(F, list))
    BY <1>4, <2>1, SameOver
  <2>5. FilesIn(both) = Over(F, both) /\ FilesIn(list) = Over(F, list)
    BY <1>5, FilesInIs
  <2>6. Same(bothFiles, files)
    BY <2>2, <2>3, <2>4, <2>5
  <2>7. Same(Over(R, bothFiles), Over(R, files))
    BY <2>6, SameOver
  <2>8. RowsIn(bothFiles) = Over(R, bothFiles) /\ RowsIn(files) = Over(R, files)
    BY <1>6, RowsInIs
  <2>9. Content(Cat(sk, op)) = Cat(Content(sk), Content(op))
    BY ContentCat
  <2> QED BY <2>1, <2>2, <2>3, <2>7, <2>8, <2>9 DEF Content
<1>14. PICK a \in Seq(Row) : a = Content(sk)
  BY ContentType
<1>15. PICK b \in Seq(Row) : b = Cat(RowsIn(ex), RowsIn(ta))
  <2>1. PICK p \in Seq(Row) : p = RowsIn(ex)
    BY RowsInType
  <2>2. PICK q \in Seq(Row) : q = RowsIn(ta)
    BY RowsInType
  <2>3. Cat(p, q) \in Seq(Row)
    BY CatType
  <2> QED BY <2>1, <2>2, <2>3
<1>16. PICK c \in Seq(Row) : c = Content(op)
  BY ContentType
<1>17. Same(b, c)
  BY <1>7, <1>12, <1>15, <1>16 DEF Content
<1>18. Same(a, a)
  BY SameReflexive
<1>19. Same(Cat(a, b), Cat(a, c))
  BY <1>17, <1>18, SameCat
<1>20. Same(Cat(a, c), AllRows)
  BY <1>1, <1>13, <1>14, <1>16 DEF AllRows, Content
<1>21. Same(Cat(a, b), AllRows)
  BY <1>19, <1>20, SameTransitive
<1> QED BY <1>2, <1>9, <1>10, <1>14, <1>15, <1>21

\* carried or not, the rows of what a write keeps are those it skips and those
\* it excludes.
LEMMA KeptContent ==
    ASSUME NEW skipped \in Seq(GoodManifest), NEW files \in Seq(GoodFiles)
    PROVE  Same(Content(skipped \o Carried(files)), Cat(Content(skipped), RowsIn(files)))
<1>1. skipped \in Seq(Manifest)
  BY GoodIsManifest, SeqMonotone
<1>2. PICK carried \in Seq(GoodManifest) : carried = Carried(files)
  BY CarriedType
<1>3. carried \in Seq(Manifest)
  BY GoodIsManifest, SeqMonotone
<1>4. files \in Seq(File)
  BY GoodIsFile, SeqMonotone
<1>5. Content(Cat(skipped, carried)) = Cat(Content(skipped), Content(carried))
  BY <1>1, <1>3, ContentCat
<1>6. PICK a \in Seq(Row) : a = Content(skipped)
  BY <1>1, ContentType
<1>7. PICK b \in Seq(Row) : b = Content(carried)
  BY <1>3, ContentType
<1>8. PICK c \in Seq(Row) : c = RowsIn(files)
  BY <1>4, RowsInType
<1>9. Same(b, c)
  BY <1>2, <1>7, <1>8, CarriedContent
<1>10. Same(a, a)
  BY SameReflexive
<1>11. Same(Cat(a, b), Cat(a, c))
  BY <1>9, <1>10, SameCat
<1> QED BY <1>2, <1>5, <1>6, <1>7, <1>8, <1>11 DEF Cat

\* Where a row of a plan's parts is found.
LEMMA SkippedRows ==
    ASSUME DataInv, NEW filters, NEW row \in Range(Content(Skipped(filters)))
    PROVE  \E m \in Range(manifests) : \E f \in Range(m.files) :
              ~ManifestMatches(m, filters) /\ row \in Range(f.rows)
<1>1. PICK list \in Seq(Manifest) : list = manifests
  BY DataHolds DEF TableInv
<1>2. PICK S : S = {m \in Range(list) : ~ManifestMatches(m, filters)}
  OBVIOUS
<1>3. PICK sk \in Seq(Manifest) : sk = Skipped(filters) /\ sk = Only(list, S)
  <2>1. Only(list, S) \in Seq(Manifest)
    BY OnlyType
  <2> QED BY <1>1, <1>2, <2>1 DEF Skipped
<1>4. PICK files \in Seq(File) : files = FilesIn(sk)
  BY FilesInType
<1>5. PICK f \in Range(files) : row \in Range(f.rows)
  BY <1>3, <1>4, RowsFrom DEF Content
<1>6. PICK m \in Range(sk) : f \in Range(m.files)
  BY <1>4, FilesFrom
<1>7. Range(sk) = Range(list) \cap S
  BY <1>3, ElementsOnly
<1> QED BY <1>1, <1>2, <1>5, <1>6, <1>7

LEMMA PlannedRows ==
    ASSUME DataInv, NEW filters, NEW S, NEW files, files = Only(Opened(filters), S),
           NEW row \in Range(RowsIn(files))
    PROVE  \E m \in Range(manifests) : \E f \in Range(m.files) :
              f \in S /\ row \in Range(f.rows)
<1>1. TableInv
  BY DataHolds
<1>2. PICK opened \in Seq(File) : opened = Opened(filters)
  BY <1>1, OpenedIs
<1>3. files \in Seq(File)
  BY <1>2, OnlyType
<1>4. PICK f \in Range(files) : row \in Range(f.rows)
  BY <1>3, RowsFrom
<1>5. Range(files) = Range(opened) \cap S
  BY <1>2, ElementsOnly
<1>6. PICK m \in Range(manifests) : f \in Range(m.files)
  BY <1>1, <1>2, <1>4, <1>5, OpenedFrom
<1> QED BY <1>4, <1>5, <1>6

Failing(filters) == {row \in Row : ~PassesAll(row, filters)}

\* An overwrite its partition settles keeps what fails, and nothing else.
LEMMA OverwriteKeepsFailing ==
    ASSUME DataInv, NEW filters \in SUBSET Filter,
           \A filter \in filters :
              /\ filter.column = "part" /\ Readable(filter)
              /\ {f.spec : f \in Range(FilesIn(manifests))} \subseteq {"identity"}
    PROVE  Same(Cat(Content(Skipped(filters)), RowsIn(Excluded(filters))),
                Only(AllRows, Failing(filters)))
<1>1. TableInv
  BY DataHolds
<1>2. ASSUME NEW m \in Range(manifests), NEW f \in Range(m.files), NEW row \in Range(f.rows)
      PROVE  /\ row \in Row
             /\ row \in Failing(filters) <=> ~FileMatches(f, filters)
             /\ ~ManifestMatches(m, filters) => row \in Failing(filters)
  <2>1. Placed(f) /\ f.spec = m.spec /\ f.rows \in Seq(Row)
    BY <1>1, FilesArePlaced
  <2>2. manifests \in Seq(Manifest)
    BY <1>1 DEF TableInv
  <2>3. f \in Range(FilesIn(manifests))
    BY <2>2, FilesFrom
  <2>4. \A filter \in filters : filter.column = "part" /\ Readable(filter) /\ f.spec = "identity"
    BY <2>3
  <2>5. PassesAll(row, filters) <=> FileMatches(f, filters)
    BY <2>1, <2>4, FileSettled
  <2>6. row \in Row
    BY <2>1, ElementsType
  <2>7. PassesAll(row, filters) => ManifestMatches(m, filters)
    BY <2>1, ManifestsNotHidden
  <2> QED BY <2>5, <2>6, <2>7 DEF Failing
<1>3. PICK skipped \in Seq(GoodManifest) : skipped = Skipped(filters)
  BY SkippedType
<1>4. PICK excluded \in Seq(GoodFiles) : excluded = Excluded(filters)
  BY ExcludedType
<1>5. PICK tasks \in Seq(GoodFiles) : tasks = Tasks(filters)
  BY TasksType
<1>6. skipped \in Seq(Manifest) /\ excluded \in Seq(File) /\ tasks \in Seq(File)
  BY GoodIsManifest, GoodIsFile, SeqMonotone
<1>7. PICK a \in Seq(Row) : a = Content(skipped)
  BY <1>6, ContentType
<1>8. PICK b \in Seq(Row) : b = RowsIn(excluded)
  BY <1>6, RowsInType
<1>9. PICK c \in Seq(Row) : c = RowsIn(tasks)
  BY <1>6, RowsInType
<1>10. PICK s \in Seq(Row) : s = AllRows
  BY DataRows
<1>11. Same(Cat(a, Cat(b, c)), s)
  BY <1>3, <1>4, <1>5, <1>7, <1>8, <1>9, <1>10, PlanParts
<1>12. \A row \in Range(a) : row \in Failing(filters)
  <2>1. ASSUME NEW row \in Range(a) PROVE row \in Failing(filters)
    <3>1. \E m \in Range(manifests) : \E f \in Range(m.files) :
              ~ManifestMatches(m, filters) /\ row \in Range(f.rows)
      BY <1>3, <1>7, SkippedRows
    <3> QED BY <1>2, <3>1
  <2> QED BY <2>1
<1>13. \A row \in Range(b) : row \in Failing(filters)
  <2>1. ASSUME NEW row \in Range(b) PROVE row \in Failing(filters)
    <3>0. PICK S : S = {f \in Range(Opened(filters)) : ~FileMatches(f, filters)}
      OBVIOUS
    <3>1. excluded = Only(Opened(filters), S)
      BY <1>4, <3>0 DEF Excluded
    <3>2. \E m \in Range(manifests) : \E f \in Range(m.files) :
              f \in S /\ row \in Range(f.rows)
      BY <1>8, <3>1, PlannedRows
    <3> QED BY <1>2, <3>0, <3>2
  <2> QED BY <2>1
<1>14. \A row \in Range(c) : row \notin Failing(filters)
  <2>1. ASSUME NEW row \in Range(c) PROVE row \notin Failing(filters)
    <3>0. PICK S : S = {f \in Range(Opened(filters)) : FileMatches(f, filters)}
      OBVIOUS
    <3>1. tasks = Only(Opened(filters), S)
      BY <1>5, <3>0 DEF Tasks
    <3>2. \E m \in Range(manifests) : \E f \in Range(m.files) :
              f \in S /\ row \in Range(f.rows)
      BY <1>9, <3>1, PlannedRows
    <3> QED BY <1>2, <3>0, <3>2
  <2> QED BY <2>1
<1>15. Same(Cat(a, b), Only(s, Failing(filters)))
  BY <1>11, <1>12, <1>13, <1>14, PartsKept
<1> QED BY <1>3, <1>4, <1>7, <1>8, <1>10, <1>15

LEMMA OverwritesExact ==
    ASSUME DataInv, MaxWrites \in Nat, OverwriteWhere PROVE WritesExact'
<1>1. PICK batches \in Incoming, filters \in WriteFilters :
         Commit("overwrite", Skipped(filters) \o Carried(Excluded(filters)),
                Arriving(batches), Arriving(batches), filters, {})
  BY DEF OverwriteWhere
<1>2. PICK arriving \in Seq(Seq(Row)) : arriving = Arriving(batches)
  BY IncomingType
<1>3. PICK excluded \in Seq(GoodFiles) : excluded = Excluded(filters)
  BY ExcludedType
<1>4. PICK skipped \in Seq(GoodManifest) : skipped = Skipped(filters)
  BY SkippedType
<1>5. PICK kept \in Seq(GoodManifest) : kept = skipped \o Carried(excluded)
  <2>1. skipped \o Carried(excluded) \in Seq(GoodManifest)
    BY CatGood
  <2> QED BY <2>1
<1>6. Commit("overwrite", kept, arriving, arriving, filters, {})
  BY <1>1, <1>2, <1>3, <1>4, <1>5
<1>7. /\ asked'.op = "overwrite" /\ asked'.before = AllRows /\ asked'.batches = arriving
      /\ asked'.filters = filters
      /\ asked'.layouts = {f.spec : f \in Range(FilesIn(manifests))}
  BY <1>6 DEF Commit
<1>8. filters \in SUBSET Filter
  BY ScanAssumption
<1>9. PICK before \in Seq(Row) : before = AllRows
  BY DataRows
<1>10. PICK rows \in Seq(Row) : rows = FlattenSeq(arriving)
  BY FlattenType
<1>11. PICK after \in Seq(Row) : after = AllRows'
  <2>1. DataInv'
    BY OverwriteKeeps
  <2> QED BY <2>1, DataRowsNext
<1>12. SUFFICES ASSUME \A filter \in filters :
                          /\ filter.column = "part" /\ Readable(filter)
                          /\ {f.spec : f \in Range(FilesIn(manifests))} \subseteq {"identity"}
                PROVE  SameRows(after, Only(before, {row \in Range(before) : ~PassesAll(row, filters)})
                                         \o rows)
  <2>1. (\A filter \in asked'.filters :
           filter.column = "part" /\ Readable(filter) /\ asked'.layouts \subseteq {"identity"})
        <=> (\A filter \in filters :
               /\ filter.column = "part" /\ Readable(filter)
               /\ {f.spec : f \in Range(FilesIn(manifests))} \subseteq {"identity"})
    BY <1>7
  <2>2. OverwriteExact'
    BY <1>7, <1>9, <1>10, <1>11, <2>1 DEF OverwriteExact
  <2>3. RowsKept'
    BY <1>7 DEF RowsKept
  <2> QED BY <2>2, <2>3 DEF WritesExact
<1>13. Same(after, Cat(Content(kept), rows))
  BY <1>6, <1>10, <1>11, CommitContent
<1>14. kept \in Seq(Manifest) /\ skipped \in Seq(Manifest) /\ excluded \in Seq(File)
  BY GoodIsManifest, GoodIsFile, SeqMonotone
<1>15. PICK k \in Seq(Row) : k = Content(kept)
  BY <1>14, ContentType
<1>16. PICK fails \in Seq(Row) : fails = Only(before, Failing(filters))
  BY OnlyType
<1>17. Same(k, Cat(Content(skipped), RowsIn(excluded)))
  BY <1>5, <1>15, KeptContent
<1>18. Same(Cat(Content(skipped), RowsIn(excluded)), fails)
  BY <1>3, <1>4, <1>8, <1>9, <1>12, <1>16, OverwriteKeepsFailing
<1>19. Same(k, fails)
  BY <1>17, <1>18, SameTransitive
<1>20. Same(rows, rows)
  BY SameReflexive
<1>21. Same(Cat(k, rows), Cat(fails, rows))
  BY <1>19, <1>20, SameCat
<1>22. Same(after, Cat(fails, rows))
  BY <1>13, <1>15, <1>21, SameTransitive
<1>23. Cat(fails, rows) \in Seq(Row)
  BY CatType
<1>24. SameRows(after, Cat(fails, rows))
  BY <1>22, <1>23, SameIsSameRows
<1>25. Only(before, {row \in Range(before) : ~PassesAll(row, filters)}) = fails
  <2> DEFINE S == {row \in Range(before) : ~PassesAll(row, filters)}
  <2>1. Range(before) \subseteq Row
    BY ElementsType
  <2>2. Range(before) \cap S = Range(before) \cap Failing(filters)
    BY <2>1 DEF Failing
  <2> HIDE DEF S
  <2>3. Only(before, S) = Only(before, Failing(filters))
    BY <2>2, OnlyAlike
  <2> QED BY <1>16, <2>3 DEF S
<1> QED BY <1>24, <1>25 DEF Cat

LEMMA MergeWrites == ASSUME MergeWhere PROVE WritesExact'
<1>1. asked'.op = "merge"
  BY DEF MergeWhere, Commit
<1> QED BY <1>1 DEF WritesExact, OverwriteExact, RowsKept

LEMMA SameTable ==
    ASSUME WritesExact, manifests' = manifests, asked' = asked PROVE WritesExact'
<1>1. AllRows' = AllRows
  BY DEF AllRows, FilesIn, RowsIn
<1> QED BY <1>1 DEF WritesExact, OverwriteExact, RowsKept

LEMMA WritesStep == ASSUME DataInv, MaxWrites \in Nat, WritesExact, [Next]_vars PROVE WritesExact'
<1>1. CASE AppendRows
  BY <1>1, AppendExact
<1>2. CASE OverwriteWhere
  BY <1>2, OverwritesExact
<1>3. CASE MergeWhere
  BY <1>3, MergeWrites
<1>4. CASE Compact
  BY <1>4, CompactExact
<1>5. CASE SetDefaultSpec
  BY <1>5, SameTable DEF SetDefaultSpec
<1>6. CASE UNCHANGED vars
  BY <1>6, SameTable DEF vars
<1> QED BY <1>1, <1>2, <1>3, <1>4, <1>5, <1>6 DEF Next

\* append, overwrite and compact: whatever is carried, grouped and rolled, the
\* table has exactly the rows the operation says, each as often.
THEOREM WritesAreExact == Spec => []WritesExact
<1>1. MaxWrites \in Nat
  BY ScanAssumption
<1>2. Init => WritesExact
  BY DEF Init, WritesExact, OverwriteExact, RowsKept
<1>3. DataInv /\ WritesExact /\ [Next]_vars => WritesExact'
  BY <1>1, WritesStep
<1> QED BY <1>2, <1>3, DataAlways, PTL DEF Spec

\* Of the planned files, those a merge reads and those it need not read.
ReadBy(filters, rows, by) ==
    Only(Tasks(filters), {f \in Range(Tasks(filters)) : Mergeable(f, rows, by)})
UnreadBy(filters, rows, by) ==
    Only(Tasks(filters), {f \in Range(Tasks(filters)) : ~Mergeable(f, rows, by)})

LEMMA ReadByType ==
    ASSUME DataInv, NEW filters, NEW rows, NEW by
    PROVE  ReadBy(filters, rows, by) \in Seq(GoodFiles)
<1>1. PICK tasks \in Seq(GoodFiles) : tasks = Tasks(filters)
  BY TasksType
<1> QED BY <1>1, OnlyType DEF ReadBy

LEMMA UnreadByType ==
    ASSUME DataInv, NEW filters, NEW rows, NEW by
    PROVE  UnreadBy(filters, rows, by) \in Seq(GoodFiles)
<1>1. PICK tasks \in Seq(GoodFiles) : tasks = Tasks(filters)
  BY TasksType
<1> QED BY <1>1, OnlyType DEF UnreadBy

\* What is planned is what is read and what is not.
LEMMA TasksParted ==
    ASSUME DataInv, NEW filters, NEW rows, NEW by
    PROVE  Same(Cat(RowsIn(UnreadBy(filters, rows, by)), RowsIn(ReadBy(filters, rows, by))),
                RowsIn(Tasks(filters)))
<1>1. PICK tasks \in Seq(GoodFiles) : tasks = Tasks(filters)
  BY TasksType
<1>2. PICK unread \in Seq(GoodFiles) : unread = UnreadBy(filters, rows, by)
  BY UnreadByType
<1>3. PICK selected \in Seq(GoodFiles) : selected = ReadBy(filters, rows, by)
  BY ReadByType
<1>4. tasks \in Seq(File) /\ unread \in Seq(File) /\ selected \in Seq(File)
  BY GoodIsFile, SeqMonotone
<1>5. Same(Cat(unread, selected), tasks)
  <2> DEFINE S == {f \in Range(tasks) : ~Mergeable(f, rows, by)}
             T == {f \in Range(tasks) : Mergeable(f, rows, by)}
  <2>1. \A f \in Range(tasks) : f \in S <=> f \notin T
    OBVIOUS
  <2>2. unread = Only(tasks, S) /\ selected = Only(tasks, T)
    BY <1>1, <1>2, <1>3 DEF UnreadBy, ReadBy
  <2> HIDE DEF S, T
  <2>3. Same(Cat(Only(tasks, S), Only(tasks, T)), tasks)
    BY <1>4, <2>1, SameParts
  <2> QED BY <2>2, <2>3
<1>6. PICK R \in Making(File, Row) : R = RowsOf
  BY RowsOfMakes
<1>7. PICK both \in Seq(File) : both = Cat(unread, selected)
  BY <1>4, CatType
<1>8. Same(Over(R, both), Over(R, tasks))
  BY <1>4, <1>5, <1>7, SameOver
<1>9. Over(R, Cat(unread, selected)) = Cat(Over(R, unread), Over(R, selected))
  BY <1>4, OverCat
<1>10. RowsIn(unread) = Over(R, unread) /\ RowsIn(selected) = Over(R, selected)
       /\ RowsIn(tasks) = Over(R, tasks)
  BY <1>4, <1>6, RowsInIs
<1> QED BY <1>1, <1>2, <1>3, <1>7, <1>8, <1>9, <1>10

LEMMA FourParts ==
    ASSUME NEW X, NEW a \in Seq(X), NEW b \in Seq(X), NEW u \in Seq(X), NEW c \in Seq(X),
           NEW t \in Seq(X), NEW k \in Seq(X), NEW s \in Seq(X),
           Same(Cat(a, Cat(b, t)), s), Same(Cat(u, c), t), Same(k, Cat(a, Cat(b, u)))
    PROVE  Same(s, Cat(k, c))
<1>1. PICK bt \in Seq(X) : bt = Cat(b, t)
  BY CatType
<1>2. PICK bu \in Seq(X) : bu = Cat(b, u)
  BY CatType
<1>3. ASSUME NEW x PROVE Count(s, x) = Count(Cat(k, c), x)
  <2>1. Count(Cat(a, bt), x) = Count(a, x) + Count(bt, x)
    BY CountCat
  <2>2. Count(Cat(b, t), x) = Count(b, x) + Count(t, x)
    BY CountCat
  <2>3. Count(Cat(a, bu), x) = Count(a, x) + Count(bu, x)
    BY CountCat
  <2>4. Count(Cat(b, u), x) = Count(b, x) + Count(u, x)
    BY CountCat
  <2>5. Count(Cat(u, c), x) = Count(u, x) + Count(c, x)
    BY CountCat
  <2>6. Count(Cat(k, c), x) = Count(k, x) + Count(c, x)
    BY CountCat
  <2>7. Count(a, x) \in Nat /\ Count(b, x) \in Nat /\ Count(u, x) \in Nat /\ Count(c, x) \in Nat
    BY CountType
  <2>8. /\ Count(Cat(a, bt), x) = Count(s, x)
        /\ Count(Cat(u, c), x) = Count(t, x)
        /\ Count(k, x) = Count(Cat(a, bu), x)
    BY <1>1, <1>2 DEF Same
  <2>9. Count(k, x) = Count(a, x) + (Count(b, x) + Count(u, x))
    BY <1>2, <2>3, <2>4, <2>8
  <2>10. Count(t, x) = Count(u, x) + Count(c, x)
    BY <2>5, <2>8
  <2>11. Count(s, x) = Count(a, x) + (Count(b, x) + Count(t, x))
    BY <1>1, <2>1, <2>2, <2>8
  <2> QED BY <2>6, <2>7, <2>9, <2>10, <2>11
<1> QED BY <1>3 DEF Same

\* A merge keeps what it skips, excludes or does not read, and reads the rest.
LEMMA MergeParts ==
    ASSUME DataInv, NEW filters, NEW rows, NEW by,
           NEW kept \in Seq(GoodManifest),
           kept = Skipped(filters) \o Carried(Excluded(filters) \o UnreadBy(filters, rows, by))
    PROVE  /\ Same(AllRows, Cat(Content(kept), RowsIn(ReadBy(filters, rows, by))))
           /\ Same(Content(kept), Cat(Content(Skipped(filters)),
                     Cat(RowsIn(Excluded(filters)), RowsIn(UnreadBy(filters, rows, by)))))
<1>1. PICK excluded \in Seq(GoodFiles) : excluded = Excluded(filters)
  BY ExcludedType
<1>2. PICK skipped \in Seq(GoodManifest) : skipped = Skipped(filters)
  BY SkippedType
<1>3. PICK tasks \in Seq(GoodFiles) : tasks = Tasks(filters)
  BY TasksType
<1>4. PICK unread \in Seq(GoodFiles) : unread = UnreadBy(filters, rows, by)
  BY UnreadByType
<1>5. PICK selected \in Seq(GoodFiles) : selected = ReadBy(filters, rows, by)
  BY ReadByType
<1>6. /\ excluded \in Seq(File) /\ tasks \in Seq(File) /\ unread \in Seq(File)
      /\ selected \in Seq(File) /\ skipped \in Seq(Manifest) /\ kept \in Seq(Manifest)
  BY GoodIsManifest, GoodIsFile, SeqMonotone
<1>7. PICK left \in Seq(GoodFiles) : left = Cat(excluded, unread)
  BY CatType
<1>8. PICK R \in Making(File, Row) : R = RowsOf
  BY RowsOfMakes
<1>9. RowsIn(left) = Cat(RowsIn(excluded), RowsIn(unread))
  <2>1. left \in Seq(File)
    BY GoodIsFile, SeqMonotone
  <2>2. RowsIn(left) = Over(R, left) /\ RowsIn(excluded) = Over(R, excluded)
        /\ RowsIn(unread) = Over(R, unread)
    BY <1>6, <1>8, <2>1, RowsInIs
  <2>3. Over(R, Cat(excluded, unread)) = Cat(Over(R, excluded), Over(R, unread))
    BY <1>6, OverCat
  <2> QED BY <1>7, <2>2, <2>3
<1>10. Same(Content(kept), Cat(Content(skipped), RowsIn(left)))
  <2>1. kept = skipped \o Carried(left)
    BY <1>1, <1>2, <1>4, <1>7 DEF Cat
  <2> QED BY <2>1, KeptContent
<1>11. PICK a \in Seq(Row) : a = Content(skipped)
  BY <1>6, ContentType
<1>12. PICK b \in Seq(Row) : b = RowsIn(excluded)
  BY <1>6, RowsInType
<1>13. PICK u \in Seq(Row) : u = RowsIn(unread)
  BY <1>6, RowsInType
<1>14. PICK c \in Seq(Row) : c = RowsIn(selected)
  BY <1>6, RowsInType
<1>15. PICK t \in Seq(Row) : t = RowsIn(tasks)
  BY <1>6, RowsInType
<1>16. PICK k \in Seq(Row) : k = Content(kept)
  BY <1>6, ContentType
<1>17. PICK s \in Seq(Row) : s = AllRows
  BY DataRows
<1>18. Same(Cat(a, Cat(b, t)), s)
  BY <1>1, <1>2, <1>3, <1>11, <1>12, <1>15, <1>17, PlanParts
<1>19. Same(Cat(u, c), t)
  BY <1>3, <1>4, <1>5, <1>13, <1>14, <1>15, TasksParted
<1>20. Same(k, Cat(a, Cat(b, u)))
  BY <1>9, <1>10, <1>11, <1>12, <1>13, <1>16
<1>21. Same(s, Cat(k, c))
  BY <1>18, <1>19, <1>20, FourParts
<1> QED BY <1>1, <1>2, <1>4, <1>5, <1>11, <1>12, <1>13, <1>14, <1>16, <1>17, <1>20, <1>21

\* Without filters every file is planned, and those left unread have no row an
\* arriving key matches.
LEMMA UnreadUnmet ==
    ASSUME DataInv, NEW batch \in Seq(Row), NEW by \in SUBSET Columns,
           \A row \in Range(batch) : \A column \in by : row[column] \notin Unbounded,
           NEW row \in Range(RowsIn(UnreadBy({}, Range(batch), by)))
    PROVE  ~Met(batch, row, by)
<1>1. PICK unread \in Seq(GoodFiles) : unread = UnreadBy({}, Range(batch), by)
  BY UnreadByType
<1>2. unread \in Seq(File)
  BY GoodIsFile, SeqMonotone
<1>3. PICK f \in Range(unread) : row \in Range(f.rows)
  BY <1>1, <1>2, RowsFrom
<1>4. PICK tasks \in Seq(GoodFiles) : tasks = Tasks({})
  BY TasksType
<1>5. PICK S : S = {g \in Range(tasks) : ~Mergeable(g, Range(batch), by)}
  OBVIOUS
<1>6. Range(Only(tasks, S)) = Range(tasks) \cap S
  BY ElementsOnly
<1>7. ~Mergeable(f, Range(batch), by)
  BY <1>1, <1>3, <1>4, <1>5, <1>6 DEF UnreadBy
<1>8. f \in File
  BY <1>2, <1>3, ElementsType
<1>9. Range(f.rows) \subseteq Row
  <2>1. f.rows \in Seq(Row)
    BY <1>8 DEF File
  <2> QED BY <2>1, ElementsType
<1>10. PICK rows \in SUBSET Row : rows = Range(batch)
  <2>1. Range(batch) \subseteq Row
    BY ElementsType
  <2> QED BY <2>1
<1> SUFFICES ASSUME Met(batch, row, by) PROVE FALSE
  OBVIOUS
<1>11. PICK arriving \in rows : RowKey(arriving, by) = RowKey(row, by)
  BY <1>10 DEF Met
<1>12. KeyOf(arriving, by) = KeyOf(row, by)
  BY <1>11 DEF KeyOf, RowKey
<1>13. \A column \in by : arriving[column] \notin Unbounded
  BY <1>10, <1>11
<1>14. Mergeable(f, rows, by)
  BY <1>3, <1>9, <1>12, <1>13, MatchesNotMissed
<1> QED BY <1>7, <1>10, <1>14

LEMMA KeptUnmet ==
    ASSUME DataInv, NEW batch \in Seq(Row), NEW by \in SUBSET Columns,
           \A row \in Range(batch) : \A column \in by : row[column] \notin Unbounded,
           NEW kept \in Seq(GoodManifest),
           kept = Skipped({}) \o Carried(Excluded({}) \o UnreadBy({}, Range(batch), by)),
           NEW row \in Range(Content(kept))
    PROVE  ~Met(batch, row, by)
<1>1. PICK excluded \in Seq(GoodFiles) : excluded = Excluded({})
  BY ExcludedType
<1>2. PICK skipped \in Seq(GoodManifest) : skipped = Skipped({})
  BY SkippedType
<1>3. PICK unread \in Seq(GoodFiles) : unread = UnreadBy({}, Range(batch), by)
  BY UnreadByType
<1>4. /\ excluded \in Seq(File) /\ unread \in Seq(File)
      /\ skipped \in Seq(Manifest) /\ kept \in Seq(Manifest)
  BY GoodIsManifest, GoodIsFile, SeqMonotone
<1>5. PICK a \in Seq(Row) : a = Content(skipped)
  BY <1>4, ContentType
<1>6. PICK b \in Seq(Row) : b = RowsIn(excluded)
  BY <1>4, RowsInType
<1>7. PICK u \in Seq(Row) : u = RowsIn(unread)
  BY <1>4, RowsInType
<1>8. PICK k \in Seq(Row) : k = Content(kept)
  BY <1>4, ContentType
<1>9. PICK bu \in Seq(Row) : bu = Cat(b, u)
  BY CatType
<1>10. PICK abu \in Seq(Row) : abu = Cat(a, bu)
  BY CatType
<1>11. Same(k, abu)
  BY <1>1, <1>2, <1>3, <1>5, <1>6, <1>7, <1>8, <1>9, <1>10, MergeParts
<1>12. row \in Range(k) <=> row \in Range(abu)
  BY <1>11, SameElements
<1>13. Range(Cat(a, bu)) = Range(a) \cup Range(bu)
  BY ElementsCat
<1>14. Range(Cat(b, u)) = Range(b) \cup Range(u)
  BY ElementsCat
<1>15. row \notin Range(a)
  <2> SUFFICES ASSUME row \in Range(a) PROVE FALSE
    OBVIOUS
  <2>1. \E m \in Range(manifests) : \E f \in Range(m.files) :
          ~ManifestMatches(m, {}) /\ row \in Range(f.rows)
    BY <1>2, <1>5, SkippedRows
  <2> QED BY <2>1 DEF ManifestMatches
<1>16. row \notin Range(b)
  <2> SUFFICES ASSUME row \in Range(b) PROVE FALSE
    OBVIOUS
  <2>1. PICK S : S = {f \in Range(Opened({})) : ~FileMatches(f, {})}
    OBVIOUS
  <2>2. excluded = Only(Opened({}), S)
    BY <1>1, <2>1 DEF Excluded
  <2>3. \E m \in Range(manifests) : \E f \in Range(m.files) :
          f \in S /\ row \in Range(f.rows)
    BY <1>6, <2>2, PlannedRows
  <2> QED BY <2>1, <2>3 DEF FileMatches
<1>17. row \in Range(u)
  BY <1>8, <1>9, <1>10, <1>12, <1>13, <1>14, <1>15, <1>16
<1> QED BY <1>3, <1>7, <1>17, UnreadUnmet

\* What one merge does, in terms of the rows it found, kept, read and folded.
MergesTable(kept, stored, arriving, filters, by) ==
    /\ asked'.op = "merge" /\ asked'.before = AllRows
    /\ asked'.batches = arriving /\ asked'.filters = filters /\ asked'.by = by
    /\ Folding(Row, AllRows, kept, stored, FlattenSeq(arriving), by, AllRows')
    /\ (/\ filters = {}
        /\ \A row \in Range(FlattenSeq(arriving)) :
              \A column \in by : row[column] \notin Unbounded)
         => \A row \in Range(kept) : ~Met(FlattenSeq(arriving), row, by)

LEMMA MergeDoes ==
    ASSUME DataInv, MaxWrites \in Nat, MergeWhere
    PROVE  \E kept \in Seq(Row) : \E stored \in Seq(Row) : \E arriving \in Seq(Seq(Row)) :
           \E filters : \E by \in SUBSET Columns :
             MergesTable(kept, stored, arriving, filters, by)
<1>0. PICK batches \in Incoming, filters \in WriteFilters, by \in MatchKeys \ {{}} :
         \E rows, selected, unread, stored :
           /\ rows = Range(FlattenSeq(Arriving(batches)))
           /\ selected = ReadBy(filters, rows, by)
           /\ unread = UnreadBy(filters, rows, by)
           /\ stored = [n \in DOMAIN selected |-> selected[n].rows]
           /\ Commit("merge", Skipped(filters) \o Carried(Excluded(filters) \o unread),
                     Merged(stored, Arriving(batches), by), Arriving(batches), filters, by)
  BY DEF MergeWhere, ReadBy, UnreadBy
<1>1. PICK rows, selected, unread, stored :
         /\ rows = Range(FlattenSeq(Arriving(batches)))
         /\ selected = ReadBy(filters, rows, by)
         /\ unread = UnreadBy(filters, rows, by)
         /\ stored = [n \in DOMAIN selected |-> selected[n].rows]
         /\ Commit("merge", Skipped(filters) \o Carried(Excluded(filters) \o unread),
                   Merged(stored, Arriving(batches), by), Arriving(batches), filters, by)
  BY <1>0
<1>2. PICK arriving \in Seq(Seq(Row)) : arriving = Arriving(batches)
  BY IncomingType
<1>3. PICK excluded \in Seq(GoodFiles) : excluded = Excluded(filters)
  BY ExcludedType
<1>4. PICK skipped \in Seq(GoodManifest) : skipped = Skipped(filters)
  BY SkippedType
<1>5. selected \in Seq(GoodFiles) /\ unread \in Seq(GoodFiles)
  BY <1>1, ReadByType, UnreadByType
<1>6. selected \in Seq(File)
  BY <1>5, GoodIsFile, SeqMonotone
<1>7. stored \in Seq(Seq(Row))
  BY <1>1, <1>6, StoredType
<1>8. PICK merged \in Seq(Seq(Row)) : merged = Merged(stored, arriving, by)
  <2>1. Merged(stored, arriving, by) \in Seq(Seq(Row))
    BY <1>7, MergedType
  <2> QED BY <2>1
<1>9. PICK left \in Seq(GoodFiles) : left = excluded \o unread
  <2>1. excluded \o unread \in Seq(GoodFiles)
    BY <1>5, ConcatProperties
  <2> QED BY <2>1
<1>10. PICK kept \in Seq(GoodManifest) : kept = skipped \o Carried(left)
  <2>1. skipped \o Carried(left) \in Seq(GoodManifest)
    BY CatGood
  <2> QED BY <2>1
<1>11. Commit("merge", kept, merged, arriving, filters, by)
  BY <1>1, <1>2, <1>3, <1>4, <1>8, <1>9, <1>10
<1>12. /\ asked'.op = "merge" /\ asked'.before = AllRows
       /\ asked'.batches = arriving /\ asked'.filters = filters /\ asked'.by = by
  BY <1>11 DEF Commit
<1>13. kept = Skipped(filters) \o Carried(Excluded(filters) \o UnreadBy(filters, rows, by))
  BY <1>1, <1>3, <1>4, <1>9, <1>10
<1>14. PICK k \in Seq(Row) : k = Content(kept)
  <2>1. kept \in Seq(Manifest)
    BY GoodIsManifest, SeqMonotone
  <2> QED BY <2>1, ContentType
<1>15. PICK rs \in Seq(Row) : rs = RowsIn(selected)
  BY <1>6, RowsInType
<1>16. PICK batch \in Seq(Row) : batch = FlattenSeq(arriving)
  BY FlattenType
<1>17. PICK folded \in Seq(Row) : folded = FlattenSeq(merged)
  BY FlattenType
<1>18. Same(AllRows, Cat(k, rs))
  BY <1>1, <1>13, <1>14, <1>15, MergeParts
<1>19. Same(AllRows', Cat(k, folded))
  BY <1>11, <1>14, <1>17, CommitContent
<1>20. Grown(Row, rs, batch, by, folded)
  <2>1. Grown(Row, FlattenSeq(stored), FlattenSeq(arriving), by,
              FlattenSeq(Merged(stored, arriving, by)))
    BY <1>7, MergedContent
  <2>2. FlattenSeq(stored) = rs
    BY <1>1, <1>15 DEF RowsIn
  <2> QED BY <1>8, <1>16, <1>17, <2>1, <2>2
<1>21. Folding(Row, AllRows, k, rs, batch, by, AllRows')
  BY <1>18, <1>19, <1>20 DEF Folding
<1>22. by \in SUBSET Columns
  BY ScanAssumption
<1>23. ASSUME filters = {},
              \A row \in Range(batch) : \A column \in by : row[column] \notin Unbounded,
              NEW row \in Range(k)
       PROVE  ~Met(batch, row, by)
  <2>1. kept = Skipped({}) \o Carried(Excluded({}) \o UnreadBy({}, Range(batch), by))
    BY <1>1, <1>2, <1>13, <1>16, <1>23
  <2>2. row \in Range(Content(kept))
    BY <1>14, <1>23
  <2>3. \A r \in Range(batch) : \A column \in by : r[column] \notin Unbounded
    BY <1>23
  <2> QED BY <1>22, <2>1, <2>2, <2>3, KeptUnmet
<1>24. MergesTable(k, rs, arriving, filters, by)
  BY <1>12, <1>16, <1>21, <1>23 DEF MergesTable
<1> QED BY <1>22, <1>24

LEMMA MergesUpsert == ASSUME DataInv, MaxWrites \in Nat, MergeWhere PROVE MergesExact'
<1>1. PICK kept \in Seq(Row) : \E stored \in Seq(Row) : \E arriving \in Seq(Seq(Row)) :
           \E filters : \E by \in SUBSET Columns : MergesTable(kept, stored, arriving, filters, by)
  BY MergeDoes
<1>2. PICK stored \in Seq(Row) : \E arriving \in Seq(Seq(Row)) :
           \E filters : \E by \in SUBSET Columns : MergesTable(kept, stored, arriving, filters, by)
  BY <1>1
<1>3. PICK arriving \in Seq(Seq(Row)) :
           \E filters : \E by \in SUBSET Columns : MergesTable(kept, stored, arriving, filters, by)
  BY <1>2
<1>4. PICK filters : \E by \in SUBSET Columns : MergesTable(kept, stored, arriving, filters, by)
  BY <1>3
<1>5. PICK by \in SUBSET Columns : MergesTable(kept, stored, arriving, filters, by)
  BY <1>4
<1>6. PICK before \in Seq(Row) : before = AllRows
  BY DataRows
<1>7. PICK after \in Seq(Row) : after = AllRows'
  <2>1. DataInv'
    BY MergeKeeps
  <2> QED BY <2>1, DataRowsNext
<1>8. PICK batch \in Seq(Row) : batch = FlattenSeq(arriving)
  BY FlattenType
<1>9. Folding(Row, before, kept, stored, batch, by, after)
  BY <1>5, <1>6, <1>7, <1>8 DEF MergesTable
<1>10. ASSUME filters = {},
             \A row \in Range(batch) : \A column \in by : row[column] \notin Unbounded
      PROVE  SameRows(after, Upsert(before, batch, by))
  <2>1. \A row \in Range(kept) : ~Met(batch, row, by)
    BY <1>5, <1>8, <1>10 DEF MergesTable
  <2>2. Same(after, Upsert(before, batch, by))
    BY <1>9, <2>1, FoldingUpserts
  <2>3. Upsert(before, batch, by) \in Seq(Row)
    BY UpsertIs
  <2> QED BY <2>2, <2>3, SameIsSameRows
<1>11. MergeExact'
  BY <1>5, <1>6, <1>7, <1>8, <1>10 DEF MergesTable, MergeExact
<1>12. PICK S : S = {row \in Row : ~Met(batch, row, by)}
  OBVIOUS
<1>13. ASSUME NEW rows \in Seq(Row)
      PROVE  Only(rows, {row \in Range(rows) : Matching(batch, row, by) = {}}) = Only(rows, S)
  <2> DEFINE T == {row \in Range(rows) : Matching(batch, row, by) = {}}
  <2>1. \A row \in Range(rows) : row \in T <=> row \in S
    <3>1. Range(rows) \subseteq Row
      BY ElementsType
    <3>2. \A row : Matching(batch, row, by) # {} <=> Met(batch, row, by)
      BY MetIs
    <3> QED BY <1>12, <3>1, <3>2
  <2> HIDE DEF T
  <2>2. Range(rows) \cap T = Range(rows) \cap S
    BY <2>1
  <2>3. Only(rows, T) = Only(rows, S)
    BY <2>2, OnlyAlike
  <2> QED BY <2>3 DEF T
<1>14. SameRows(Only(after, S), Only(before, S))
  <2>1. Same(Only(after, S), Only(before, S))
    BY <1>9, <1>12, FoldingKeeps
  <2>2. Only(after, S) \in Seq(Row) /\ Only(before, S) \in Seq(Row)
    BY OnlyType
  <2> QED BY <2>1, <2>2, SameIsSameRows
<1>15. SameRows(Only(after, {row \in Range(after) : Matching(batch, row, by) = {}}),
                Only(before, {row \in Range(before) : Matching(batch, row, by) = {}}))
  BY <1>13, <1>14
<1>16. MergeKeepsTheRest'
  BY <1>5, <1>6, <1>7, <1>8, <1>15 DEF MergesTable, MergeKeepsTheRest
<1> QED BY <1>11, <1>16 DEF MergesExact

LEMMA OthersMergeNothing == ASSUME asked'.op # "merge" PROVE MergesExact'
BY DEF MergesExact, MergeExact, MergeKeepsTheRest

LEMMA SameMerges ==
    ASSUME MergesExact, manifests' = manifests, asked' = asked PROVE MergesExact'
<1>1. AllRows' = AllRows
  BY DEF AllRows, FilesIn, RowsIn
<1> QED BY <1>1 DEF MergesExact, MergeExact, MergeKeepsTheRest

LEMMA MergesStep == ASSUME DataInv, MaxWrites \in Nat, MergesExact, [Next]_vars PROVE MergesExact'
<1>1. CASE AppendRows
  <2>1. asked'.op = "append"
    BY <1>1 DEF AppendRows, Commit
  <2> QED BY <2>1, OthersMergeNothing
<1>2. CASE OverwriteWhere
  <2>1. asked'.op = "overwrite"
    BY <1>2 DEF OverwriteWhere, Commit
  <2> QED BY <2>1, OthersMergeNothing
<1>3. CASE MergeWhere
  BY <1>3, MergesUpsert
<1>4. CASE Compact
  <2>1. asked'.op = "replace"
    BY <1>4 DEF Compact, Commit
  <2> QED BY <2>1, OthersMergeNothing
<1>5. CASE SetDefaultSpec
  BY <1>5, SameMerges DEF SetDefaultSpec
<1>6. CASE UNCHANGED vars
  BY <1>6, SameMerges DEF vars
<1> QED BY <1>1, <1>2, <1>3, <1>4, <1>5, <1>6 DEF Next

\* merge: reading only the files whose statistics leave room for an arriving key
\* and folding one batch after another, the table becomes the upsert of all of
\* its rows; a filtered merge changes no row that no arriving key matches.
THEOREM MergesAreExact == Spec => []MergesExact
<1>1. MaxWrites \in Nat
  BY ScanAssumption
<1>2. Init => MergesExact
  BY DEF Init, MergesExact, MergeExact, MergeKeepsTheRest
<1>3. DataInv /\ MergesExact /\ [Next]_vars => MergesExact'
  BY <1>1, MergesStep
<1> QED BY <1>2, <1>3, DataAlways, PTL DEF Spec
=============================================================================
