---------------------------- MODULE FolderProofs ----------------------------
(***************************************************************************)
(* FolderWrites keeps its promises whatever the schema, the values, the    *)
(* tree found first, the requests, their batches and the steps that fail.  *)
(*                                                                         *)
(* The promises speak of whole calls, a call's steps of one leaf.  Between *)
(* them stands FolderInv: while a call is under way there are a layout and *)
(* the rows it has done so far, such that what is done, the partitions     *)
(* still to be written and the batches still to be read are together what  *)
(* arrived (Progress), and the table is what each way of writing makes of  *)
(* the rows done (Appended, Overwritten, Replaced, Upserted, Stayed).      *)
(* After a call it says what the call left.                                *)
(*                                                                         *)
(* The parts: paths; rows of a leaf and of the table; the upsert taken     *)
(* apart by partition; the layouts; a leaf's new contents; a batch's       *)
(* groups and the progress of a call; the ways of writing; the calls; the  *)
(* invariant and its steps.                                                *)
(***************************************************************************)
EXTENDS FolderWrites, RecordMergeProofs

Row == [Schema -> FolderValues]
StoredRow(dir) == [Schema \ Spelled(dir) -> FolderValues]
Texts == FolderValues \ {Missing}

\* What a layout makes of rows: their partition, what a leaf stores of them,
\* and what is read back.
At(layout, dir) == {row \in Row : DirOf(row, layout) = dir}
Reads(layout, row) ==
    [column \in DOMAIN row |->
        IF column \in Range(layout) THEN FromText(column, Text(row[column]))
        ELSE row[column]]
Reading(layout) == [row \in Row |-> Reads(layout, row)]
Dropping(layout, dir) == [row \in At(layout, dir) |-> Without(row, Spelled(dir))]
Restoring(dir) == [row \in StoredRow(dir) |-> With(row, dir)]

\* A directory of the whole layout.
Full(layout) == {dir \in PartitionDirs : ColumnsOf(dir) = layout}

\* Whatever a value's text, it reads back as a value with that text.
LEMMA TextsReadBack ==
    /\ \A value \in FolderValues : Text(value) \in Texts
    /\ \A column, text \in FolderValues : FromText(column, text) \in FolderValues
    /\ \A column : \A text \in Texts : FromText(column, text) \in FolderValues
    /\ \A column : \A text \in Texts : Text(FromText(column, text)) = text
BY FolderAssumption DEF Text, FromText, Texts

\* A row's path is one directory per column of the layout.
LEMMA DirOfIs ==
    ASSUME NEW row \in Row, NEW layout \in Seq(Schema)
    PROVE  /\ DirOf(row, layout) \in Full(layout)
           /\ Len(DirOf(row, layout)) = Len(layout)
           /\ \A n \in 1..Len(layout) : DirOf(row, layout)[n] = <<layout[n], Text(row[layout[n]])>>
<1> DEFINE dir == DirOf(row, layout)
<1>1. dir = [n \in 1..Len(layout) |-> <<layout[n], Text(row[layout[n]])>>]
  BY DEF DirOf
<1>2. \A n \in 1..Len(layout) : layout[n] \in Schema /\ Text(row[layout[n]]) \in Texts
  BY TextsReadBack DEF Row
<1>3. dir \in Seq(Schema \X Texts)
  BY <1>1, <1>2
<1>4. Len(dir) = Len(layout) /\ DOMAIN dir = 1..Len(layout)
  BY <1>1
<1>5. \A m, n \in DOMAIN dir : dir[m][1] = dir[n][1] => dir[m] = dir[n]
  BY <1>1, <1>4
<1>6. dir \in PartitionDirs
  BY <1>3, <1>5 DEF PartitionDirs, Texts
<1>7. ColumnsOf(dir) = layout
  BY <1>1, <1>4 DEF ColumnsOf
<1> QED BY <1>1, <1>4, <1>6, <1>7 DEF Full

\* A directory of the whole layout spells each of its columns.
LEMMA FullIs ==
    ASSUME NEW layout \in Seq(Schema), NEW dir \in Full(layout)
    PROVE  /\ dir \in Seq(Schema \X Texts) /\ Len(dir) = Len(layout)
           /\ \A n \in 1..Len(layout) : dir[n] = <<layout[n], dir[n][2]>> /\ dir[n][2] \in Texts
           /\ Spelled(dir) = Range(layout)
           /\ \A m, n \in 1..Len(layout) : layout[m] = layout[n] => dir[m] = dir[n]
<1>1. dir \in Seq(Schema \X Texts) /\ ColumnsOf(dir) = layout
  BY DEF Full, PartitionDirs, Texts
<1>2. DOMAIN dir = 1..Len(dir) /\ DOMAIN layout = DOMAIN dir
  BY <1>1 DEF ColumnsOf
<1>3. Len(dir) = Len(layout) /\ DOMAIN dir = 1..Len(layout)
  BY <1>2
<1>4. \A n \in 1..Len(layout) : dir[n] \in Schema \X Texts /\ layout[n] = dir[n][1]
  BY <1>1, <1>3 DEF ColumnsOf
<1>5. \A m, n \in 1..Len(layout) : layout[m] = layout[n] => dir[m] = dir[n]
  BY <1>3, <1>4 DEF Full, PartitionDirs
<1> QED BY <1>1, <1>3, <1>4, <1>5 DEF Spelled

\* A restored row: what was stored, and what the directories say.
LEMMA WithIs ==
    ASSUME NEW dir \in PartitionDirs, NEW row \in StoredRow(dir)
    PROVE  /\ With(row, dir) \in Row
           /\ \A column \in Schema \ Spelled(dir) : With(row, dir)[column] = row[column]
           /\ \A n \in DOMAIN dir :
                With(row, dir)[dir[n][1]] = FromText(dir[n][1], dir[n][2])
<1>1. dir \in Seq(Schema \X Texts) BY DEF PartitionDirs, Texts
<1>2. \A n \in DOMAIN dir : dir[n] \in Schema \X Texts
  BY <1>1
<1>3. Spelled(dir) = {dir[n][1] : n \in DOMAIN dir}
  BY DEF Spelled, ColumnsOf, Range
<1>4. Spelled(dir) \subseteq Schema
  BY <1>2, <1>3
<1> DEFINE place(column) == CHOOSE n \in DOMAIN dir : dir[n][1] = column
<1>5. DOMAIN row = Schema \ Spelled(dir) BY DEF StoredRow
<1>6. With(row, dir) = [column \in Schema |->
          IF column \in DOMAIN row THEN row[column]
          ELSE FromText(column, dir[place(column)][2])]
  BY <1>4, <1>5 DEF With
<1>7. \A column \in Spelled(dir) : place(column) \in DOMAIN dir /\ dir[place(column)][1] = column
  BY <1>3
<1>8. \A column \in Spelled(dir) : FromText(column, dir[place(column)][2]) \in FolderValues
  BY <1>7, <1>2, TextsReadBack
<1>9. With(row, dir) \in Row
  BY <1>6, <1>8, <1>5 DEF Row, StoredRow
<1>10. ASSUME NEW n \in DOMAIN dir
       PROVE  With(row, dir)[dir[n][1]] = FromText(dir[n][1], dir[n][2])
  <2>1. dir[n][1] \in Spelled(dir) /\ dir[n][1] \in Schema BY <1>3, <1>4
  <2>2. dir[place(dir[n][1])] = dir[n] BY <2>1, <1>7 DEF PartitionDirs
  <2>3. dir[n][1] \notin DOMAIN row BY <2>1, <1>5
  <2>4. With(row, dir)[dir[n][1]] = FromText(dir[n][1], dir[place(dir[n][1])][2]) BY <2>1, <2>3, <1>6
  <2> QED BY <2>2, <2>4
<1> QED BY <1>6, <1>9, <1>10, <1>4, <1>5

LEMMA RestoringMaps ==
    ASSUME NEW dir \in PartitionDirs PROVE Restoring(dir) \in Maps(StoredRow(dir), Row)
BY WithIs DEF Restoring, Maps

\* A restored row is in the partition of its leaf.
LEMMA DirOfWith ==
    ASSUME NEW layout \in Seq(Schema), NEW dir \in Full(layout), NEW row \in StoredRow(dir)
    PROVE  DirOf(With(row, dir), layout) = dir
<1>1. dir \in PartitionDirs BY DEF Full
<1>2. With(row, dir) \in Row BY <1>1, WithIs
<1>3. dir \in Seq(Schema \X Texts) /\ Len(dir) = Len(layout) BY FullIs
<1> DEFINE that == DirOf(With(row, dir), layout)
<1>4. that \in Seq(Schema \X Texts) /\ Len(that) = Len(layout) BY <1>2, DirOfIs, FullIs
<1>5. ASSUME NEW n \in 1..Len(layout) PROVE that[n] = dir[n]
  <2>1. that[n] = <<layout[n], Text(With(row, dir)[layout[n]])>> BY <1>2, DirOfIs
  <2>2. dir[n] = <<layout[n], dir[n][2]>> /\ dir[n][2] \in Texts BY FullIs
  <2>3. With(row, dir)[dir[n][1]] = FromText(dir[n][1], dir[n][2]) BY <1>1, <1>3, WithIs
  <2>4. dir[n][1] = layout[n] BY <2>2
  <2>5. Text(FromText(layout[n], dir[n][2])) = dir[n][2] BY <2>2, TextsReadBack
  <2> QED BY <2>1, <2>2, <2>3, <2>4, <2>5
<1> QED BY <1>3, <1>4, <1>5

\* A row reads back as itself but for absent values in text columns of the layout.
LEMMA ReadsIs ==
    ASSUME NEW layout \in Seq(Schema), NEW row \in Row
    PROVE  Reads(layout, row) \in Row /\ DirOf(Reads(layout, row), layout) = DirOf(row, layout)
<1>1. DOMAIN row = Schema BY DEF Row
<1>2. \A column \in Schema : Text(row[column]) \in Texts BY TextsReadBack DEF Row
<1>3. Reads(layout, row) \in Row
  BY <1>1, <1>2, TextsReadBack DEF Reads, Row
<1> DEFINE here == DirOf(row, layout)  that == DirOf(Reads(layout, row), layout)
<1>4. here \in Seq(Schema \X Texts) /\ Len(here) = Len(layout) BY DirOfIs, FullIs
<1>5. that \in Seq(Schema \X Texts) /\ Len(that) = Len(layout) BY <1>3, DirOfIs, FullIs
<1>6. ASSUME NEW n \in 1..Len(layout) PROVE that[n] = here[n]
  <2>1. here[n] = <<layout[n], Text(row[layout[n]])>> BY DirOfIs
  <2>2. that[n] = <<layout[n], Text(Reads(layout, row)[layout[n]])>> BY <1>3, DirOfIs
  <2>3. layout[n] \in Schema /\ layout[n] \in Range(layout) BY DEF Range
  <2>4. Reads(layout, row)[layout[n]] = FromText(layout[n], Text(row[layout[n]]))
    BY <2>3, <1>1 DEF Reads
  <2> QED BY <2>1, <2>2, <2>3, <2>4, <1>2, TextsReadBack
<1> QED BY <1>3, <1>4, <1>5, <1>6

LEMMA ReadingMaps ==
    ASSUME NEW layout \in Seq(Schema) PROVE Reading(layout) \in Maps(Row, Row)
BY ReadsIs DEF Reading, Maps

LEMMA DroppingMaps ==
    ASSUME NEW layout, NEW dir PROVE Dropping(layout, dir) \in Maps(At(layout, dir), StoredRow(dir))
BY DEF Dropping, Maps, At, Row, StoredRow, Without

\* What is dropped and restored is what the layout makes of the row.
LEMMA WithWithout ==
    ASSUME NEW layout \in Seq(Schema), NEW dir \in Full(layout), NEW row \in At(layout, dir)
    PROVE  With(Without(row, Spelled(dir)), dir) = Reads(layout, row)
<1>1. dir \in PartitionDirs BY DEF Full
<1>2. row \in Row /\ DirOf(row, layout) = dir /\ DOMAIN row = Schema BY DEF At, Row
<1> DEFINE less == Without(row, Spelled(dir))
<1>3. less \in StoredRow(dir) BY <1>2 DEF Without, StoredRow, Row
<1>4. With(less, dir) \in Row /\ Reads(layout, row) \in Row BY <1>1, <1>2, <1>3, WithIs, ReadsIs
<1>5. Spelled(dir) = Range(layout) BY FullIs
<1>6. ASSUME NEW column \in Schema PROVE With(less, dir)[column] = Reads(layout, row)[column]
  <2>1. CASE column \in Range(layout)
    <3>1. PICK n \in 1..Len(layout) : layout[n] = column BY <2>1 DEF Range
    <3>2. dir[n] = <<column, Text(row[column])>> BY <3>1, <1>2, DirOfIs
    <3>3. n \in DOMAIN dir BY <3>1, FullIs
    <3>4. With(less, dir)[dir[n][1]] = FromText(dir[n][1], dir[n][2]) BY <3>3, <1>1, <1>3, WithIs
    <3>5. With(less, dir)[column] = FromText(column, Text(row[column])) BY <3>2, <3>4
    <3> QED BY <3>5, <2>1, <1>2 DEF Reads
  <2>2. CASE column \notin Range(layout)
    <3>1. With(less, dir)[column] = less[column] BY <2>2, <1>5, <1>1, <1>3, WithIs
    <3>2. less[column] = row[column] BY <2>2, <1>5, <1>2 DEF Without
    <3> QED BY <3>1, <3>2, <2>2, <1>2 DEF Reads
  <2> QED BY <2>1, <2>2
<1> QED BY <1>4, <1>6 DEF Row

\* A key with the layout's columns tells partitions apart.
LEMMA KeyTellsPartition ==
    ASSUME NEW layout \in Seq(Schema), NEW by, NEW x \in Row, NEW y \in Row,
           RowKey(x, by \cup Range(layout)) = RowKey(y, by \cup Range(layout))
    PROVE  DirOf(x, layout) = DirOf(y, layout)
<1>1. \A column \in Range(layout) : x[column] = y[column]
  <2> SUFFICES ASSUME NEW column \in Range(layout) PROVE x[column] = y[column] OBVIOUS
  <2>1. RowKey(x, by \cup Range(layout))[column] = RowKey(y, by \cup Range(layout))[column] OBVIOUS
  <2> QED BY <2>1 DEF RowKey
<1>2. \A n \in DOMAIN layout : layout[n] \in Range(layout) BY DEF Range
<1> QED BY <1>1, <1>2 DEF DirOf

\* Rows of one key.
Alike(x, y, by) == RowKey(x, by) = RowKey(y, by)

\* In one partition, the key a leaf matches on is the key of the table.
LEMMA KeyInLeaf ==
    ASSUME NEW layout \in Seq(Schema), NEW dir \in Full(layout), NEW by \in SUBSET Schema,
           NEW x \in StoredRow(dir), NEW y \in StoredRow(dir)
    PROVE  Alike(With(x, dir), With(y, dir), by \cup Range(layout))
             <=> Alike(x, y, by \ Spelled(dir))
<1>1. dir \in PartitionDirs BY DEF Full
<1>2. Spelled(dir) = Range(layout) BY FullIs
<1> DEFINE all == by \cup Range(layout)  some == by \ Spelled(dir)
<1>3. \A column \in some : With(x, dir)[column] = x[column] /\ With(y, dir)[column] = y[column]
  BY <1>1, WithIs
<1>4. ASSUME NEW column \in Range(layout) PROVE With(x, dir)[column] = With(y, dir)[column]
  <2>1. PICK n \in 1..Len(layout) : layout[n] = column BY DEF Range
  <2>2. dir[n] = <<column, dir[n][2]>> /\ n \in DOMAIN dir BY <2>1, FullIs
  <2>3. dir[n][1] = column BY <2>2
  <2>4. With(x, dir)[dir[n][1]] = FromText(dir[n][1], dir[n][2]) BY <2>2, <1>1, WithIs
  <2>5. With(y, dir)[dir[n][1]] = FromText(dir[n][1], dir[n][2]) BY <2>2, <1>1, WithIs
  <2> QED BY <2>3, <2>4, <2>5
<1>5. ASSUME RowKey(With(x, dir), all) = RowKey(With(y, dir), all), NEW column \in some
      PROVE  x[column] = y[column]
  <2>1. RowKey(With(x, dir), all)[column] = RowKey(With(y, dir), all)[column] BY <1>5
  <2>2. With(x, dir)[column] = With(y, dir)[column] BY <2>1 DEF RowKey
  <2> QED BY <2>2, <1>3
<1>6. ASSUME RowKey(x, some) = RowKey(y, some), NEW column \in all
      PROVE  With(x, dir)[column] = With(y, dir)[column]
  <2>1. CASE column \in Range(layout) BY <2>1, <1>4
  <2>2. CASE column \notin Range(layout)
    <3>1. column \in some BY <2>2, <1>2
    <3>2. RowKey(x, some)[column] = RowKey(y, some)[column] BY <1>6
    <3>3. x[column] = y[column] BY <3>1, <3>2 DEF RowKey
    <3> QED BY <3>1, <3>3, <1>3
  <2> QED BY <2>1, <2>2
<1>7. ASSUME RowKey(With(x, dir), all) = RowKey(With(y, dir), all)
      PROVE  RowKey(x, some) = RowKey(y, some)
  BY <1>5, <1>7 DEF RowKey
<1>8. ASSUME RowKey(x, some) = RowKey(y, some)
      PROVE  RowKey(With(x, dir), all) = RowKey(With(y, dir), all)
  BY <1>6, <1>8 DEF RowKey
<1> QED BY <1>7, <1>8 DEF Alike

-----------------------------------------------------------------------------
(* The rows of a tree: each leaf's in turn, and what a write changes.      *)

LeafNames == [dir : PartitionDirs, number : Nat]

GoodLeaves(tree) ==
    /\ tree = [leaf \in DOMAIN tree |-> tree[leaf]]
    /\ IsFiniteSet(DOMAIN tree)
    /\ DOMAIN tree \subseteq LeafNames
    /\ \A leaf \in DOMAIN tree : tree[leaf] \in Seq(StoredRow(leaf.dir))

Read(dir, rows) == Each(Restoring(dir), rows)
Gives(tree) == [leaf \in DOMAIN tree |-> Read(leaf.dir, tree[leaf])]
TableOf(tree) == Over(Gives(tree), SetToSeq(DOMAIN tree))

Held(tree, leaf) == IF leaf \in DOMAIN tree THEN tree[leaf] ELSE <<>>
PutIn(tree, leaf, rows) ==
    [other \in DOMAIN tree \cup {leaf} |-> IF other = leaf THEN rows ELSE tree[other]]
Others(tree, leaf) == Over(Gives(tree), SetToSeq(DOMAIN tree \ {leaf}))

LEMMA ReadType ==
    ASSUME NEW dir \in PartitionDirs, NEW rows \in Seq(StoredRow(dir))
    PROVE  Read(dir, rows) \in Seq(Row)
BY RestoringMaps, MapsEach DEF Read

LEMMA ReadCat ==
    ASSUME NEW dir \in PartitionDirs, NEW s \in Seq(StoredRow(dir)), NEW t \in Seq(StoredRow(dir))
    PROVE  Read(dir, Cat(s, t)) = Cat(Read(dir, s), Read(dir, t))
BY RestoringMaps, EachCat DEF Read

LEMMA ReadEmpty == ASSUME NEW dir PROVE Read(dir, <<>>) = <<>>
BY DEF Read, Each

\* The rows a leaf reads as are those of its partition.
LEMMA ReadIn ==
    ASSUME NEW layout \in Seq(Schema), NEW dir \in Full(layout),
           NEW rows \in Seq(StoredRow(dir)), NEW x \in Range(Read(dir, rows))
    PROVE  x \in At(layout, dir)
<1>1. dir \in PartitionDirs BY DEF Full
<1>2. PICK row \in Range(rows) : x = Restoring(dir)[row]
  <2>1. \E row \in Range(rows) : x = Restoring(dir)[row] BY EachFrom DEF Read
  <2> QED BY <2>1
<1>3. row \in StoredRow(dir) BY ElementsType
<1>4. x = With(row, dir) BY <1>2, <1>3 DEF Restoring
<1> QED BY <1>1, <1>3, <1>4, WithIs, DirOfWith DEF At

\* Rows stored without their partition columns read back as rows of that partition.
LEMMA ReadDropped ==
    ASSUME NEW layout \in Seq(Schema), NEW dir \in Full(layout), NEW rows \in Seq(At(layout, dir))
    PROVE  Read(dir, Each(Dropping(layout, dir), rows)) = Each(Reading(layout), rows)
<1>1. dir \in PartitionDirs BY DEF Full
<1> DEFINE X == At(layout, dir)  B == [row \in X |-> Reads(layout, row)]
<1>2. \A row \in X : row \in Row BY DEF At
<1>3. B \in Maps(X, Row) BY <1>2, ReadsIs DEF Maps
<1>4. Dropping(layout, dir) \in Maps(X, StoredRow(dir)) BY DroppingMaps
<1>5. Restoring(dir) \in Maps(StoredRow(dir), Row) BY <1>1, RestoringMaps
<1>6. \A row \in X : B[row] = Restoring(dir)[Dropping(layout, dir)[row]]
  <2> SUFFICES ASSUME NEW row \in X PROVE B[row] = Restoring(dir)[Dropping(layout, dir)[row]]
    OBVIOUS
  <2>1. Dropping(layout, dir)[row] \in StoredRow(dir) BY <1>4 DEF Maps
  <2>2. Dropping(layout, dir)[row] = Without(row, Spelled(dir)) BY DEF Dropping
  <2> QED BY <2>1, <2>2, WithWithout DEF Restoring
<1>7. Each(Restoring(dir), Each(Dropping(layout, dir), rows)) = Each(B, rows)
  <2> HIDE DEF X, B
  <2> QED BY <1>3, <1>4, <1>5, <1>6, EachEach DEF X
<1>8. \A n \in DOMAIN rows : rows[n] \in X BY DEF X
<1>9. Each(B, rows) = Each(Reading(layout), rows)
  BY <1>2, <1>8 DEF Each, Reading
<1> QED BY <1>7, <1>9 DEF Read

LEMMA GivesMakes ==
    ASSUME NEW tree, GoodLeaves(tree) PROVE Gives(tree) \in Making(DOMAIN tree, Row)
<1>1. \A leaf \in DOMAIN tree : leaf.dir \in PartitionDirs
  BY DEF GoodLeaves, LeafNames
<1>2. \A leaf \in DOMAIN tree : Read(leaf.dir, tree[leaf]) \in Seq(Row)
  BY <1>1, ReadType DEF GoodLeaves
<1> QED BY <1>2 DEF Gives, Making

LEMMA OthersType ==
    ASSUME NEW tree, GoodLeaves(tree), NEW leaf PROVE Others(tree, leaf) \in Seq(Row)
<1> DEFINE D == DOMAIN tree \ {leaf}
<1>1. IsFiniteSet(D) BY FS_Subset DEF GoodLeaves
<1>2. SetToSeq(D) \in Seq(DOMAIN tree)
  <2>1. SetToSeq(D) \in Seq(D) BY <1>1, ListedOnce
  <2> QED BY <2>1, SeqMonotone
<1> QED BY <1>2, GivesMakes, OverType DEF Others

LEMMA TableType ==
    ASSUME NEW tree, GoodLeaves(tree) PROVE TableOf(tree) \in Seq(Row)
<1>1. IsFiniteSet(DOMAIN tree) BY DEF GoodLeaves
<1>2. SetToSeq(DOMAIN tree) \in Seq(DOMAIN tree) BY <1>1, ListedOnce
<1> QED BY <1>2, GivesMakes, OverType DEF TableOf

\* The table, as the code reads it, is the leaves' rows in turn.
LEMMA TableRowsIs ==
    ASSUME GoodLeaves(leaves) PROVE TableRows = TableOf(leaves)
<1> DEFINE order == SetToSeq(DOMAIN leaves)
<1>1. order \in Seq(DOMAIN leaves) BY ListedOnce DEF GoodLeaves
<1>2. ASSUME NEW leaf \in DOMAIN leaves
      PROVE  Gives(leaves)[leaf] = [m \in DOMAIN leaves[leaf] |-> With(leaves[leaf][m], leaf.dir)]
  <2>1. leaves[leaf] \in Seq(StoredRow(leaf.dir)) BY DEF GoodLeaves
  <2>2. \A m \in DOMAIN leaves[leaf] : leaves[leaf][m] \in StoredRow(leaf.dir) BY <2>1
  <2> QED BY <2>2 DEF Gives, Read, Each, Restoring
<1>3. \A n \in DOMAIN order : order[n] \in DOMAIN leaves BY <1>1
<1>4. Each(Gives(leaves), order)
        = [n \in DOMAIN order |->
              [m \in DOMAIN leaves[order[n]] |-> With(leaves[order[n]][m], order[n].dir)]]
  <2> HIDE DEF order
  <2> QED BY <1>2, <1>3 DEF Each
<1> QED BY <1>4 DEF TableRows, TableOf, Over

\* A finite set listed is the rest of it listed, and the element.
LEMMA ListsApart ==
    ASSUME NEW D, IsFiniteSet(D), NEW x \in D
    PROVE  Same(SetToSeq(D), Append(SetToSeq(D \ {x}), x))
<1> DEFINE E == D \ {x}
<1>1. IsFiniteSet(E) BY FS_Subset
<1>2. SetToSeq(E) \in Seq(D)
  <2>1. SetToSeq(E) \in Seq(E) BY <1>1, ListedOnce
  <2> QED BY <2>1, SeqMonotone
<1>3. ASSUME NEW y PROVE Count(SetToSeq(D), y) = Count(Append(SetToSeq(E), x), y)
  <2>1. Count(SetToSeq(D), y) = IF y \in D THEN 1 ELSE 0 BY ListedOnce
  <2>2. Count(SetToSeq(E), y) = IF y \in E THEN 1 ELSE 0 BY <1>1, ListedOnce
  <2>3. Count(Append(SetToSeq(E), x), y) = Count(SetToSeq(E), y) + IF x = y THEN 1 ELSE 0
    BY <1>2, CountAppend
  <2> QED BY <2>1, <2>2, <2>3
<1> QED BY <1>3 DEF Same

\* A table is what one leaf gives and what the others do.
LEMMA TableParts ==
    ASSUME NEW tree, GoodLeaves(tree), NEW leaf
    PROVE  Same(TableOf(tree), Cat(Others(tree, leaf), Read(leaf.dir, Held(tree, leaf))))
<1> DEFINE D == DOMAIN tree  E == D \ {leaf}  G == Gives(tree)
<1>1. IsFiniteSet(D) /\ IsFiniteSet(E) BY FS_Subset DEF GoodLeaves
<1>2. G \in Making(D, Row) BY GivesMakes
<1>3. SetToSeq(D) \in Seq(D) BY <1>1, ListedOnce
<1>4. SetToSeq(E) \in Seq(D)
  <2>1. SetToSeq(E) \in Seq(E) BY <1>1, ListedOnce
  <2> QED BY <2>1, SeqMonotone
<1>5. CASE leaf \in D
  <2>1. Same(SetToSeq(D), Append(SetToSeq(E), leaf)) BY <1>1, <1>5, ListsApart
  <2>2. Append(SetToSeq(E), leaf) \in Seq(D) BY <1>4, <1>5
  <2>3. Same(Over(G, SetToSeq(D)), Over(G, Append(SetToSeq(E), leaf)))
    BY <1>2, <1>3, <2>1, <2>2, SameOver
  <2>4. Over(G, Append(SetToSeq(E), leaf)) = Cat(Over(G, SetToSeq(E)), G[leaf])
    BY <1>2, <1>4, <1>5, OverAppend
  <2>5. G[leaf] = Read(leaf.dir, Held(tree, leaf)) BY <1>5 DEF Gives, Held
  <2> QED BY <2>3, <2>4, <2>5 DEF TableOf, Others
<1>6. CASE leaf \notin D
  <2>1. E = D BY <1>6
  <2>2. Others(tree, leaf) = TableOf(tree) BY <2>1 DEF Others, TableOf
  <2>3. Read(leaf.dir, Held(tree, leaf)) = <<>> BY <1>6, ReadEmpty DEF Held
  <2>4. Cat(TableOf(tree), <<>>) = TableOf(tree) BY TableType, CatEmpty
  <2> QED BY <2>2, <2>3, <2>4, SameReflexive
<1> QED BY <1>5, <1>6

LEMMA PutGood ==
    ASSUME NEW tree, GoodLeaves(tree), NEW leaf \in LeafNames, NEW rows \in Seq(StoredRow(leaf.dir))
    PROVE  GoodLeaves(PutIn(tree, leaf, rows))
<1> DEFINE more == PutIn(tree, leaf, rows)
<1>1. DOMAIN more = DOMAIN tree \cup {leaf} BY DEF PutIn
<1>2. IsFiniteSet(DOMAIN more) BY <1>1, FS_AddElement DEF GoodLeaves
<1>3. more = [other \in DOMAIN more |-> more[other]] BY <1>1 DEF PutIn
<1>4. DOMAIN more \subseteq LeafNames BY <1>1 DEF GoodLeaves
<1>5. ASSUME NEW other \in DOMAIN more PROVE more[other] \in Seq(StoredRow(other.dir))
  BY <1>1, <1>5 DEF PutIn, GoodLeaves
<1> QED BY <1>2, <1>3, <1>4, <1>5 DEF GoodLeaves

\* Writing a leaf changes no other.
LEMMA OthersPut ==
    ASSUME NEW tree, GoodLeaves(tree), NEW leaf, NEW rows
    PROVE  Others(PutIn(tree, leaf, rows), leaf) = Others(tree, leaf)
<1> DEFINE more == PutIn(tree, leaf, rows)  E == DOMAIN tree \ {leaf}
<1>1. DOMAIN more \ {leaf} = E BY DEF PutIn
<1>2. IsFiniteSet(E) BY FS_Subset DEF GoodLeaves
<1>3. SetToSeq(E) \in Seq(E) BY <1>2, ListedOnce
<1>4. \A n \in DOMAIN SetToSeq(E) : SetToSeq(E)[n] \in E BY <1>3
<1>5. \A other \in E : Gives(more)[other] = Gives(tree)[other] BY DEF Gives, PutIn
<1>6. Over(Gives(more), SetToSeq(E)) = Over(Gives(tree), SetToSeq(E))
  BY <1>4, <1>5, OverAlike
<1> QED BY <1>1, <1>6 DEF Others

\* A write replaces what its leaf gives.
LEMMA TablePut ==
    ASSUME NEW tree, GoodLeaves(tree), NEW leaf \in LeafNames, NEW rows \in Seq(StoredRow(leaf.dir))
    PROVE  Same(TableOf(PutIn(tree, leaf, rows)), Cat(Others(tree, leaf), Read(leaf.dir, rows)))
<1> DEFINE more == PutIn(tree, leaf, rows)
<1>1. GoodLeaves(more) BY PutGood
<1>2. Same(TableOf(more), Cat(Others(more, leaf), Read(leaf.dir, Held(more, leaf))))
  BY <1>1, TableParts
<1>3. Held(more, leaf) = rows BY DEF Held, PutIn
<1> QED BY <1>2, <1>3, OthersPut

\* What the others hold, one of them holds.
LEMMA OthersFrom ==
    ASSUME NEW tree, GoodLeaves(tree), NEW leaf, NEW x \in Range(Others(tree, leaf))
    PROVE  \E other \in DOMAIN tree \ {leaf} : x \in Range(Read(other.dir, tree[other]))
<1> DEFINE E == DOMAIN tree \ {leaf}
<1>1. IsFiniteSet(E) BY FS_Subset DEF GoodLeaves
<1>2. SetToSeq(E) \in Seq(E) BY <1>1, ListedOnce
<1>3. SetToSeq(E) \in Seq(DOMAIN tree) BY <1>2, SeqMonotone
<1>4. \E other \in Range(SetToSeq(E)) : x \in Range(Gives(tree)[other])
  BY <1>3, GivesMakes, OverFrom DEF Others
<1>5. \A other \in Range(SetToSeq(E)) : other \in E BY <1>2, ElementsType
<1> QED BY <1>4, <1>5 DEF Gives

\* Leaves that are all empty make an empty table.
LEMMA TableEmpty ==
    ASSUME NEW tree, GoodLeaves(tree), \A leaf \in DOMAIN tree : tree[leaf] = <<>>
    PROVE  TableOf(tree) = <<>>
<1>1. IsFiniteSet(DOMAIN tree) BY DEF GoodLeaves
<1>2. SetToSeq(DOMAIN tree) \in Seq(DOMAIN tree) BY <1>1, ListedOnce
<1>3. \A leaf \in DOMAIN tree : Gives(tree)[leaf] = <<>> BY ReadEmpty DEF Gives
<1>4. \A n \in DOMAIN SetToSeq(DOMAIN tree) : Gives(tree)[SetToSeq(DOMAIN tree)[n]] = <<>>
  BY <1>2, <1>3
<1> QED BY <1>2, <1>4, OverNothing DEF TableOf

\* Emptying a leaf is putting nothing in it.
LEMMA EmptiedIs ==
    ASSUME NEW tree, GoodLeaves(tree), NEW leaf \in DOMAIN tree
    PROVE  [tree EXCEPT ![leaf] = <<>>] = PutIn(tree, leaf, <<>>)
BY DEF PutIn, GoodLeaves

-----------------------------------------------------------------------------
(* Upserts, up to the order of rows: one after another, of the rows that   *)
(* match only, in the leaf's own columns, and of arrivals reordered.       *)

LEMMA AddsType ==
    ASSUME NEW X, NEW batch \in Seq(X), NEW rows, NEW by, NEW row, Adds(rows, batch, by, row)
    PROVE  row \in Range(batch) /\ row \in X
<1>1. Folded(batch, row, by) \in Range(batch) BY FoldedIn DEF Adds
<1> QED BY <1>1, ElementsType DEF Adds

LEMMA UpsertType ==
    ASSUME NEW X, NEW rows \in Seq(X), NEW batch \in Seq(X), NEW by
    PROVE  Upsert(rows, batch, by) \in Seq(X)
BY UpsertIs

\* Tables of the same rows have upserts of the same rows.
LEMMA UpsertSame ==
    ASSUME NEW X, NEW s \in Seq(X), NEW t \in Seq(X), Same(s, t), NEW batch \in Seq(X), NEW by
    PROVE  Same(Upsert(s, batch, by), Upsert(t, batch, by))
<1> DEFINE R == Replacing(X, batch, by)
<1>1. R \in Maps(X, X) BY MapsReplacing
<1>2. Same(Each(R, s), Each(R, t))
  <2> HIDE DEF R
  <2> QED BY <1>1, SameEach
<1>3. ASSUME NEW row PROVE Adds(s, batch, by, row) <=> Adds(t, batch, by, row)
  <2>1. Met(s, row, by) <=> Met(t, row, by) BY MetSame
  <2> QED BY <2>1 DEF Adds
<1>4. ASSUME NEW row
      PROVE  Count(Upsert(s, batch, by), row) = Count(Upsert(t, batch, by), row)
  <2>1. Count(Upsert(s, batch, by), row)
          = Count(Each(R, s), row) + IF Adds(s, batch, by, row) THEN 1 ELSE 0 BY UpsertIs
  <2>2. Count(Upsert(t, batch, by), row)
          = Count(Each(R, t), row) + IF Adds(t, batch, by, row) THEN 1 ELSE 0 BY UpsertIs
  <2>3. Count(Each(R, s), row) = Count(Each(R, t), row) BY <1>2 DEF Same
  <2> QED BY <2>1, <2>2, <2>3, <1>3
<1> QED BY <1>4 DEF Same

\* What has grown by some arrivals is their upsert.
LEMMA GrownUpserts ==
    ASSUME NEW X, NEW rows \in Seq(X), NEW batch \in Seq(X), NEW by, NEW after,
           Grown(X, rows, batch, by, after)
    PROVE  Same(after, Upsert(rows, batch, by))
<1> DEFINE R == Replacing(X, batch, by)
<1>1. PICK added \in Seq(X) :
          /\ after = Cat(Each(R, rows), added)
          /\ \A row : Count(added, row) = IF Adds(rows, batch, by, row) THEN 1 ELSE 0
  BY DEF Grown
<1>2. Each(R, rows) \in Seq(X) BY MapsReplacing, MapsEach
<1>3. ASSUME NEW row PROVE Count(after, row) = Count(Upsert(rows, batch, by), row)
  <2>1. Count(after, row) = Count(Each(R, rows), row) + Count(added, row)
    BY <1>1, <1>2, CountCat
  <2>2. Count(Upsert(rows, batch, by), row)
          = Count(Each(R, rows), row) + IF Adds(rows, batch, by, row) THEN 1 ELSE 0 BY UpsertIs
  <2> QED BY <1>1, <2>1, <2>2
<1> QED BY <1>3 DEF Same

\* One fold of a batch into rows is their upsert.
LEMMA UpsertFolds ==
    ASSUME NEW X, NEW rows \in Seq(X), NEW batch \in Seq(X), NEW by
    PROVE  Same(Cat(Each(Replacing(X, batch, by), rows), Newcomers(rows, batch, by)),
                Upsert(rows, batch, by))
<1> DEFINE R == Replacing(X, batch, by)
<1>1. Each(R, rows) \in Seq(X) BY MapsReplacing, MapsEach
<1>2. Newcomers(rows, batch, by) \in Seq(X) BY NewcomersType
<1>3. ASSUME NEW row
      PROVE  Count(Cat(Each(R, rows), Newcomers(rows, batch, by)), row)
               = Count(Upsert(rows, batch, by), row)
  <2>1. Count(Cat(Each(R, rows), Newcomers(rows, batch, by)), row)
          = Count(Each(R, rows), row) + Count(Newcomers(rows, batch, by), row)
    BY <1>1, <1>2, CountCat
  <2>2. Count(Newcomers(rows, batch, by), row) = IF Adds(rows, batch, by, row) THEN 1 ELSE 0
    BY NewcomersOnce
  <2>3. Count(Upsert(rows, batch, by), row)
          = Count(Each(R, rows), row) + IF Adds(rows, batch, by, row) THEN 1 ELSE 0 BY UpsertIs
  <2> QED BY <2>1, <2>2, <2>3
<1> QED BY <1>3 DEF Same

\* What a merge leaves of one batch is its upsert.
LEMMA MergedGrows ==
    ASSUME NEW X, NEW rows \in Seq(X), NEW batch \in Seq(X), NEW by
    PROVE  Grown(X, rows, batch, by, FlattenSeq(Merged(<<rows>>, <<batch>>, by)))
<1>1. <<rows>> \in Seq(Seq(X)) /\ <<batch>> \in Seq(Seq(X)) OBVIOUS
<1>2. Grown(X, FlattenSeq(<<rows>>), FlattenSeq(<<batch>>), by,
            FlattenSeq(Merged(<<rows>>, <<batch>>, by)))
  BY <1>1, MergedContent
<1>3. FlattenSeq(<<rows>>) = rows /\ FlattenSeq(<<batch>>) = batch BY FlattenOne
<1> QED BY <1>2, <1>3

\* One upsert after another is the upsert of both.
LEMMA UpsertTwice ==
    ASSUME NEW X, NEW rows \in Seq(X), NEW batch \in Seq(X), NEW next \in Seq(X), NEW by,
           NEW table \in Seq(X), Same(table, Upsert(rows, batch, by))
    PROVE  Same(Upsert(table, next, by), Upsert(rows, Cat(batch, next), by))
<1> DEFINE f == FlattenSeq(Merged(<<rows>>, <<batch>>, by))
           g == Cat(Each(Replacing(X, next, by), f), Newcomers(f, next, by))
<1>1. Grown(X, rows, batch, by, f) BY MergedGrows
<1> HIDE DEF f
<1>2. f \in Seq(X) BY <1>1, GrownType
<1>3. Same(f, Upsert(rows, batch, by)) BY <1>1, GrownUpserts
<1>4. Same(table, f) BY <1>3, SameSymmetric, SameTransitive
<1>5. Same(Upsert(table, next, by), Upsert(f, next, by)) BY <1>2, <1>4, UpsertSame
<1>6. Grown(X, rows, Cat(batch, next), by, g) BY <1>1, GrownStep
<1>7. Cat(batch, next) \in Seq(X) BY CatType
<1>8. Same(g, Upsert(rows, Cat(batch, next), by))
  <2> HIDE DEF g
  <2> QED BY <1>6, <1>7, GrownUpserts
<1>9. Same(g, Upsert(f, next, by)) BY <1>2, UpsertFolds
<1>10. Same(Upsert(f, next, by), g) BY <1>9, SameSymmetric
<1>11. Same(Upsert(table, next, by), g)
  <2> HIDE DEF g
  <2> QED BY <1>5, <1>10, SameTransitive
<1> HIDE DEF g
<1> QED BY <1>8, <1>11, SameTransitive

\* An upsert of nothing changes nothing.
LEMMA UpsertNothing ==
    ASSUME NEW X, NEW rows \in Seq(X), NEW by
    PROVE  Same(rows, Upsert(rows, <<>>, by))
<1>1. Grown(X, rows, <<>>, by, rows) BY GrownStart
<1>2. <<>> \in Seq(X) OBVIOUS
<1> QED BY <1>1, <1>2, GrownUpserts

\* A map under which rows agree on one key when their images do on another.
KeyMap(X, Y, G, some, all) ==
    /\ G \in Maps(X, Y)
    /\ \A x, y \in X : RowKey(G[x], all) = RowKey(G[y], all) <=> RowKey(x, some) = RowKey(y, some)

LEMMA KeyMapMaps ==
    ASSUME NEW X, NEW Y, NEW G, NEW some, NEW all, KeyMap(X, Y, G, some, all)
    PROVE  G \in Maps(X, Y)
BY DEF KeyMap

\* A map that tells keys apart as they were keeps what the upsert asks of them: which rows match,
LEMMA MatchingMapped ==
    ASSUME NEW X, NEW Y, NEW G, NEW some, NEW all, KeyMap(X, Y, G, some, all),
           NEW rows \in Seq(X), NEW x \in X
    PROVE  Matching(Each(G, rows), G[x], all) = Matching(rows, x, some)
<1>1. DOMAIN Each(G, rows) = DOMAIN rows BY DEF Each
<1>2. \A n \in DOMAIN rows : rows[n] \in X /\ Each(G, rows)[n] = G[rows[n]] BY DEF Each
<1>3. \A n \in DOMAIN rows : RowKey(G[rows[n]], all) = RowKey(G[x], all)
                                <=> RowKey(rows[n], some) = RowKey(x, some)
  BY <1>2 DEF KeyMap
<1> QED BY <1>1, <1>2, <1>3 DEF Matching

\* what a row is folded into,
LEMMA FoldedMapped ==
    ASSUME NEW X, NEW Y, NEW G, NEW some, NEW all, KeyMap(X, Y, G, some, all),
           NEW rows \in Seq(X), NEW x \in X
    PROVE  Folded(Each(G, rows), G[x], all) = G[Folded(rows, x, some)]
<1>1. Matching(Each(G, rows), G[x], all) = Matching(rows, x, some) BY MatchingMapped
<1>2. CASE Matching(rows, x, some) = {} BY <1>1, <1>2 DEF Folded
<1>3. CASE Matching(rows, x, some) # {}
  <2>1. LastOf(Matching(rows, x, some)) \in Matching(rows, x, some) BY <1>3, MatchingIs
  <2>2. LastOf(Matching(rows, x, some)) \in DOMAIN rows BY <2>1 DEF Matching
  <2>3. Each(G, rows)[LastOf(Matching(rows, x, some))] = G[rows[LastOf(Matching(rows, x, some))]]
    BY <2>2 DEF Each
  <2> QED BY <1>1, <1>3, <2>3 DEF Folded
<1> QED BY <1>2, <1>3

\* whether a key arrived,
LEMMA MetMapped ==
    ASSUME NEW X, NEW Y, NEW G, NEW some, NEW all, KeyMap(X, Y, G, some, all),
           NEW rows \in Seq(X), NEW x \in X
    PROVE  Met(Each(G, rows), G[x], all) <=> Met(rows, x, some)
<1>1. Matching(Each(G, rows), G[x], all) = Matching(rows, x, some) BY MatchingMapped
<1>2. Matching(Each(G, rows), G[x], all) # {} <=> Met(Each(G, rows), G[x], all) BY MetIs
<1>3. Matching(rows, x, some) # {} <=> Met(rows, x, some) BY MetIs
<1> QED BY <1>1, <1>2, <1>3

\* and which arrivals are new.
LEMMA AddsMapped ==
    ASSUME NEW X, NEW Y, NEW G, NEW some, NEW all, KeyMap(X, Y, G, some, all),
           NEW rows \in Seq(X), NEW batch \in Seq(X), NEW x \in X, Adds(rows, batch, some, x)
    PROVE  Adds(Each(G, rows), Each(G, batch), all, G[x])
<1>1. Met(Each(G, rows), G[x], all) <=> Met(rows, x, some) BY MetMapped
<1>2. Met(Each(G, batch), G[x], all) <=> Met(batch, x, some) BY MetMapped
<1>3. Folded(Each(G, batch), G[x], all) = G[Folded(batch, x, some)] BY FoldedMapped
<1> QED BY <1>1, <1>2, <1>3 DEF Adds

\* What is added arrived.
LEMMA AddsFrom ==
    ASSUME NEW X, NEW Y, NEW G, NEW some, NEW all, KeyMap(X, Y, G, some, all),
           NEW rows \in Seq(X), NEW batch \in Seq(X), NEW y,
           Adds(Each(G, rows), Each(G, batch), all, y)
    PROVE  \E x \in X : y = G[x] /\ Adds(rows, batch, some, x)
<1>1. Each(G, batch) \in Seq(Y) BY KeyMapMaps, MapsEach
<1>2. y \in Range(Each(G, batch)) BY <1>1, AddsType
<1>3. PICK u \in Range(batch) : y = G[u]
  <2>1. \E u \in Range(batch) : y = G[u] BY <1>2, EachFrom
  <2> QED BY <2>1
<1>4. u \in X BY ElementsType
<1> DEFINE x == Folded(batch, u, some)
<1>5. Met(batch, u, some) BY DEF Met
<1>6. x \in X
  <2>1. x \in Range(batch) BY <1>5, FoldedIn
  <2> QED BY <2>1, ElementsType
<1>7. RowKey(x, some) = RowKey(u, some) BY FoldedKey
<1>8. Folded(Each(G, batch), G[u], all) = G[x] BY <1>4, FoldedMapped
<1>9. Folded(Each(G, batch), y, all) = y BY DEF Adds
<1>10. y = G[x] BY <1>3, <1>8, <1>9
<1>11. Folded(batch, x, some) = x BY <1>5, <1>7, FoldedAlike
<1>12. Met(batch, x, some) <=> Met(batch, u, some) BY <1>7, MetAlike
<1>13. Met(Each(G, rows), G[x], all) <=> Met(rows, x, some) BY <1>6, MetMapped
<1>14. ~Met(Each(G, rows), y, all) BY DEF Adds
<1>15. Adds(rows, batch, some, x) BY <1>5, <1>10, <1>11, <1>12, <1>13, <1>14 DEF Adds
<1> QED BY <1>6, <1>10, <1>15

\* The rows added are the mapped ones added.
LEMMA AddedMapped ==
    ASSUME NEW X, NEW Y, NEW G, NEW some, NEW all, KeyMap(X, Y, G, some, all),
           NEW rows \in Seq(X), NEW batch \in Seq(X), NEW added \in Seq(X),
           \A row : Count(added, row) = IF Adds(rows, batch, some, row) THEN 1 ELSE 0,
           NEW y
    PROVE  Count(Each(G, added), y)
             = IF Adds(Each(G, rows), Each(G, batch), all, y) THEN 1 ELSE 0
<1>1. G \in Maps(X, Y) BY KeyMapMaps
<1>2. \A x \in Range(added) : x \in X /\ Adds(rows, batch, some, x)
  <2> SUFFICES ASSUME NEW x \in Range(added) PROVE x \in X /\ Adds(rows, batch, some, x)
    OBVIOUS
  <2>1. Count(added, x) # 0 BY CountIn
  <2>2. x \in X BY ElementsType
  <2>3. Count(added, x) = IF Adds(rows, batch, some, x) THEN 1 ELSE 0 OBVIOUS
  <2> QED BY <2>1, <2>2, <2>3
<1>3. CASE Adds(Each(G, rows), Each(G, batch), all, y)
  <2>1. PICK x \in X : y = G[x] /\ Adds(rows, batch, some, x) BY <1>3, AddsFrom
  <2>2. Count(added, x) = 1 BY <2>1
  <2>3. ASSUME NEW u \in Range(added), G[u] = y PROVE u = x
    <3>1. u \in X /\ Adds(rows, batch, some, u) BY <1>2
    <3>2. RowKey(G[u], all) = RowKey(G[x], all) BY <2>1, <2>3
    <3>3. RowKey(u, some) = RowKey(x, some) BY <3>1, <3>2 DEF KeyMap
    <3>4. Folded(batch, u, some) = Folded(batch, x, some) BY <3>1, <3>3, FoldedAlike DEF Adds
    <3> QED BY <2>1, <3>1, <3>4 DEF Adds
  <2>4. Count(Each(G, added), y) = IF G[x] = y THEN 1 ELSE 0
    BY <1>1, <2>2, <2>3, CountEachOnce
  <2> QED BY <1>3, <2>1, <2>4
<1>4. CASE ~Adds(Each(G, rows), Each(G, batch), all, y)
  <2>1. \A x \in Range(added) : G[x] # y BY <1>2, <1>4, AddsMapped
  <2>2. Count(Each(G, added), y) = 0 BY <1>1, <2>1, CountEachNone
  <2> QED BY <1>4, <2>2
<1> QED BY <1>3, <1>4

\* The rows replaced are the mapped ones replaced.
LEMMA ReplacedMapped ==
    ASSUME NEW X, NEW Y, NEW G, NEW some, NEW all, KeyMap(X, Y, G, some, all),
           NEW rows \in Seq(X), NEW batch \in Seq(X)
    PROVE  Each(G, Each(Replacing(X, batch, some), rows))
             = Each(Replacing(Y, Each(G, batch), all), Each(G, rows))
<1> DEFINE R == Replacing(X, batch, some)  Q == Replacing(Y, Each(G, batch), all)
           B == [x \in X |-> G[Folded(batch, x, some)]]
<1>1. G \in Maps(X, Y) BY KeyMapMaps
<1>2. Each(G, batch) \in Seq(Y) BY <1>1, MapsEach
<1>3. R \in Maps(X, X) BY MapsReplacing
<1>4. Q \in Maps(Y, Y) BY <1>2, MapsReplacing
<1>5. \A x \in X : Folded(batch, x, some) \in X BY FoldedType
<1>6. \A x \in X : G[x] \in Y BY <1>1 DEF Maps
<1>7. B \in Maps(X, Y) BY <1>5, <1>6 DEF Maps
<1>8. \A x \in X : B[x] = G[R[x]] BY DEF Replacing
<1>9. \A x \in X : B[x] = Q[G[x]] BY <1>6, FoldedMapped DEF Replacing
<1> HIDE DEF R, Q, B
<1>10. Each(G, Each(R, rows)) = Each(B, rows) BY <1>1, <1>3, <1>7, <1>8, EachEach
<1>11. Each(Q, Each(G, rows)) = Each(B, rows) BY <1>1, <1>4, <1>7, <1>9, EachEach
<1> QED BY <1>10, <1>11 DEF R, Q

\* The image of what a merge leaves is what it leaves of the images.
LEMMA GrownMapped ==
    ASSUME NEW X, NEW Y, NEW G, NEW some, NEW all, KeyMap(X, Y, G, some, all),
           NEW rows \in Seq(X), NEW batch \in Seq(X), NEW after,
           Grown(X, rows, batch, some, after)
    PROVE  Grown(Y, Each(G, rows), Each(G, batch), all, Each(G, after))
<1>1. PICK added \in Seq(X) :
          /\ after = Cat(Each(Replacing(X, batch, some), rows), added)
          /\ \A row : Count(added, row) = IF Adds(rows, batch, some, row) THEN 1 ELSE 0
  BY DEF Grown
<1>2. G \in Maps(X, Y) BY KeyMapMaps
<1>3. Each(Replacing(X, batch, some), rows) \in Seq(X) BY MapsReplacing, MapsEach
<1>4. Each(G, after) = Cat(Each(G, Each(Replacing(X, batch, some), rows)), Each(G, added))
  BY <1>1, <1>2, <1>3, EachCat
<1>5. Each(G, after) = Cat(Each(Replacing(Y, Each(G, batch), all), Each(G, rows)), Each(G, added))
  BY <1>4, ReplacedMapped
<1>6. Each(G, added) \in Seq(Y) BY <1>2, MapsEach
<1>7. \A y : Count(Each(G, added), y)
               = IF Adds(Each(G, rows), Each(G, batch), all, y) THEN 1 ELSE 0
  BY <1>1, AddedMapped
<1> QED BY <1>5, <1>6, <1>7 DEF Grown

\* Whether a key arrived can be told in its own class.
LEMMA MetOnly ==
    ASSUME NEW X, NEW rows \in Seq(X), NEW row, NEW by, NEW S,
           \A x \in X : RowKey(x, by) = RowKey(row, by) => x \in S
    PROVE  Met(Only(rows, S), row, by) <=> Met(rows, row, by)
<1>1. Range(Only(rows, S)) = Range(rows) \cap S BY ElementsOnly
<1>2. \A x \in Range(rows) : x \in X BY ElementsType
<1> QED BY <1>1, <1>2 DEF Met

\* The part of `rows' in one class.
Class(X, P, z) == {x \in X : P[x] = z}

\* Arrivals may be reordered between classes that the key tells apart.
LEMMA UpsertReordered ==
    ASSUME NEW X, NEW P, NEW by,
           \A x, y \in X : RowKey(x, by) = RowKey(y, by) => P[x] = P[y],
           NEW rows \in Seq(X), NEW a \in Seq(X), NEW b \in Seq(X),
           \A x \in X : Only(a, Class(X, P, P[x])) = Only(b, Class(X, P, P[x]))
    PROVE  Same(Upsert(rows, a, by), Upsert(rows, b, by))
<1>1. ASSUME NEW row \in X
      PROVE  /\ Folded(a, row, by) = Folded(b, row, by)
             /\ Met(a, row, by) <=> Met(b, row, by)
  <2> DEFINE S == Class(X, P, P[row])
  <2>1. \A x \in X : RowKey(x, by) = RowKey(row, by) => x \in S BY DEF Class
  <2>2. Only(a, S) = Only(b, S) OBVIOUS
  <2> HIDE DEF S
  <2>3. Folded(Only(a, S), row, by) = Folded(a, row, by) BY <2>1, FoldedOnly
  <2>4. Folded(Only(b, S), row, by) = Folded(b, row, by) BY <2>1, FoldedOnly
  <2>5. Met(Only(a, S), row, by) <=> Met(a, row, by) BY <2>1, MetOnly
  <2>6. Met(Only(b, S), row, by) <=> Met(b, row, by) BY <2>1, MetOnly
  <2> QED BY <2>2, <2>3, <2>4, <2>5, <2>6
<1>2. Replacing(X, a, by) = Replacing(X, b, by) BY <1>1 DEF Replacing
<1>3. ASSUME NEW row PROVE Adds(rows, a, by, row) <=> Adds(rows, b, by, row)
  <2>1. Adds(rows, a, by, row) => row \in X BY AddsType
  <2>2. Adds(rows, b, by, row) => row \in X BY AddsType
  <2> QED BY <1>1, <2>1, <2>2 DEF Adds
<1>4. ASSUME NEW row PROVE Count(Upsert(rows, a, by), row) = Count(Upsert(rows, b, by), row)
  <2>1. Count(Upsert(rows, a, by), row) = Count(Each(Replacing(X, a, by), rows), row)
                                            + IF Adds(rows, a, by, row) THEN 1 ELSE 0
    BY UpsertIs
  <2>2. Count(Upsert(rows, b, by), row) = Count(Each(Replacing(X, b, by), rows), row)
                                            + IF Adds(rows, b, by, row) THEN 1 ELSE 0
    BY UpsertIs
  <2> QED BY <1>2, <1>3, <2>1, <2>2
<1> QED BY <1>4 DEF Same


-----------------------------------------------------------------------------
(* More of rows in sequences.                                              *)

\* Choosing from a set that has everything leaves nothing out.
LEMMA OnlyAll ==
    ASSUME NEW X, NEW s \in Seq(X), NEW S, Range(s) \subseteq S PROVE Only(s, S) = s
<1> DEFINE I == [x \in X |-> x]  B == Chosen(X, S)
<1>1. I \in Maps(X, X) BY DEF Maps
<1>2. \A n \in DOMAIN s : s[n] \in X /\ s[n] \in S BY DEF Range
<1>3. \A n \in DOMAIN s : Ones(X, I)[s[n]] = B[s[n]] BY <1>2 DEF Ones, Chosen
<1>4. Each(I, s) = s BY <1>2 DEF Each
<1> HIDE DEF I, B
<1>5. Each(I, s) = Over(Ones(X, I), s) BY <1>1, EachIsOver
<1>6. Over(Ones(X, I), s) = Over(B, s) BY <1>3, OverAlike
<1>7. Only(s, S) = Over(B, s) BY OnlyIs DEF B
<1> QED BY <1>4, <1>5, <1>6, <1>7

\* One more row mapped, for a map of the rows to themselves.
LEMMA MapsAppend ==
    ASSUME NEW X, NEW G \in Maps(X, X), NEW s \in Seq(X), NEW x \in X
    PROVE  Each(G, Append(s, x)) = Append(Each(G, s), G[x])
<1>1. G \in [X -> X] BY DEF Maps
<1> QED BY <1>1, EachAppend

\* A map that keeps classes commutes with picking one.
LEMMA OnlyEach ==
    ASSUME NEW X, NEW G \in Maps(X, X), NEW S, \A x \in X : G[x] \in S <=> x \in S,
           NEW s \in Seq(X)
    PROVE  Only(Each(G, s), S) = Each(G, Only(s, S))
<1> DEFINE T == {t \in Seq(X) : Only(Each(G, t), S) = Each(G, Only(t, S))}
<1>1. <<>> \in T
  <2>1. Each(G, <<>>) = <<>> BY DEF Each
  <2>2. Only(<<>>, S) = <<>> BY OnlyEmpty
  <2> QED BY <2>1, <2>2
<1>2. ASSUME NEW t \in T, NEW x \in X PROVE Append(t, x) \in T
  <2>1. t \in Seq(X) /\ Append(t, x) \in Seq(X) OBVIOUS
  <2>2. Each(G, t) \in Seq(X) BY <2>1, MapsEach
  <2>3. G \in [X -> X] BY DEF Maps
  <2>4. G[x] \in X BY <2>3
  <2>5. Each(G, Append(t, x)) = Append(Each(G, t), G[x]) BY <2>1, MapsAppend
  <2>6. Only(Append(Each(G, t), G[x]), S)
          = IF G[x] \in S THEN Append(Only(Each(G, t), S), G[x]) ELSE Only(Each(G, t), S)
    <3>1. PICK e \in Seq(X) : e = Each(G, t) BY <2>2
    <3>2. PICK y \in X : y = G[x] BY <2>4
    <3>3. Only(Append(e, y), S) = IF y \in S THEN Append(Only(e, S), y) ELSE Only(e, S)
      BY OnlyAppend
    <3> QED BY <3>1, <3>2, <3>3
  <2>7. Only(Append(t, x), S) = IF x \in S THEN Append(Only(t, S), x) ELSE Only(t, S)
    BY <2>1, OnlyAppend
  <2>8. Only(t, S) \in Seq(X) BY <2>1, OnlyType
  <2>9. Each(G, Append(Only(t, S), x)) = Append(Each(G, Only(t, S)), G[x])
    <3>1. PICK o \in Seq(X) : o = Only(t, S) BY <2>8
    <3>2. Each(G, Append(o, x)) = Append(Each(G, o), G[x]) BY MapsAppend
    <3> QED BY <3>1, <3>2
  <2>10. Only(Each(G, t), S) = Each(G, Only(t, S)) OBVIOUS
  <2>11. Only(Each(G, Append(t, x)), S) = Each(G, Only(Append(t, x), S))
    BY <2>5, <2>6, <2>7, <2>9, <2>10
  <2> QED BY <2>1, <2>11
<1>3. T \in SUBSET Seq(X) OBVIOUS
<1>4. \A t \in T : \A x \in X : Append(t, x) \in T BY <1>2
<1> HIDE DEF T
<1>5. T = Seq(X) BY <1>1, <1>3, <1>4, SequencesInductive
<1> QED BY <1>5 DEF T

\* The same rows have the same choice of them.
LEMMA SameOnly ==
    ASSUME NEW X, NEW s \in Seq(X), NEW t \in Seq(X), Same(s, t), NEW S
    PROVE  Same(Only(s, S), Only(t, S))
BY CountOnly DEF Same

\* Sequences alike in every class hold the same rows.
LEMMA SameClasses ==
    ASSUME NEW X, NEW P, NEW s \in Seq(X), NEW t \in Seq(X),
           \A x \in X : Only(s, Class(X, P, P[x])) = Only(t, Class(X, P, P[x]))
    PROVE  Same(s, t)
<1> SUFFICES ASSUME NEW x PROVE Count(s, x) = Count(t, x) BY DEF Same
<1>1. CASE x \in X
  <2> DEFINE S == Class(X, P, P[x])
  <2>1. x \in S BY <1>1 DEF Class
  <2>2. Only(s, S) = Only(t, S) BY <1>1
  <2> HIDE DEF S
  <2>3. Count(Only(s, S), x) = Count(s, x) BY <2>1, CountOnly
  <2>4. Count(Only(t, S), x) = Count(t, x) BY <2>1, CountOnly
  <2> QED BY <2>2, <2>3, <2>4
<1>2. CASE x \notin X
  <2>1. x \notin Range(s) /\ x \notin Range(t) BY <1>2, ElementsType
  <2>2. Count(s, x) \in Nat /\ Count(t, x) \in Nat BY CountType
  <2>3. Count(s, x) = 0 BY <2>1, CountIn
  <2>4. Count(t, x) = 0 BY <2>1, CountIn
  <2> QED BY <2>3, <2>4
<1> QED BY <1>1, <1>2

\* Rows are no more of one sequence than of another.
Within(s, t) == \A x : Count(s, x) <= Count(t, x)

\* Being among the rows of a sequence, each as often.
LEMMA WithinReflexive ==
    ASSUME NEW X, NEW s \in Seq(X), NEW t \in Seq(X), Same(s, t) PROVE Within(s, t)
<1> SUFFICES ASSUME NEW x PROVE Count(s, x) <= Count(t, x) BY DEF Within
<1>1. Count(s, x) \in Nat BY CountType
<1>2. Count(s, x) = Count(t, x) BY DEF Same
<1> QED BY <1>1, <1>2

LEMMA WithinTransitive ==
    ASSUME NEW X, NEW s \in Seq(X), NEW t \in Seq(X), NEW u \in Seq(X), Within(s, t), Within(t, u)
    PROVE  Within(s, u)
<1> SUFFICES ASSUME NEW x PROVE Count(s, x) <= Count(u, x) BY DEF Within
<1>1. Count(s, x) \in Nat /\ Count(t, x) \in Nat /\ Count(u, x) \in Nat BY CountType
<1>2. Count(s, x) <= Count(t, x) /\ Count(t, x) <= Count(u, x) BY DEF Within
<1> QED BY <1>1, <1>2

LEMMA WithinCat ==
    ASSUME NEW X, NEW s \in Seq(X), NEW t \in Seq(X), NEW u \in Seq(X), Within(t, u)
    PROVE  Within(s, Cat(s, t)) /\ Within(Cat(s, t), Cat(s, u))
<1>1. ASSUME NEW x PROVE Count(s, x) <= Count(Cat(s, t), x)
                         /\ Count(Cat(s, t), x) <= Count(Cat(s, u), x)
  <2>1. Count(s, x) \in Nat /\ Count(t, x) \in Nat /\ Count(u, x) \in Nat BY CountType
  <2>2. Count(Cat(s, t), x) = Count(s, x) + Count(t, x) BY CountCat
  <2>3. Count(Cat(s, u), x) = Count(s, x) + Count(u, x) BY CountCat
  <2>4. Count(t, x) <= Count(u, x) BY DEF Within
  <2> QED BY <2>1, <2>2, <2>3, <2>4
<1> QED BY <1>1 DEF Within

\* As bags, one is a part of the other.
LEMMA WithinIsBag ==
    ASSUME NEW X, NEW s \in Seq(X), NEW t \in Seq(X), Within(s, t)
    PROVE  ToBag(s) \sqsubseteq ToBag(t)
<1>1. ASSUME NEW x \in Range(s)
      PROVE  /\ x \in Range(t)
             /\ Cardinality(PlacesOf(s, x)) <= Cardinality(PlacesOf(t, x))
  <2>1. Count(s, x) \in Nat /\ Count(t, x) \in Nat BY CountType
  <2>2. Count(s, x) # 0 BY CountIn
  <2>3. Count(s, x) <= Count(t, x) BY DEF Within
  <2>4. Count(t, x) # 0 BY <2>1, <2>2, <2>3
  <2>5. x \in Range(t) BY <2>4, CountIn
  <2>6. Cardinality(PlacesOf(s, x)) = Count(s, x) BY CardinalityIsCount
  <2>7. Cardinality(PlacesOf(t, x)) = Count(t, x) BY CardinalityIsCount
  <2> QED BY <2>3, <2>5, <2>6, <2>7
<1>2. ToBag(s) = [x \in Range(s) |-> Cardinality(PlacesOf(s, x))] BY DEF ToBag, PlacesOf, Range
<1>3. ToBag(t) = [x \in Range(t) |-> Cardinality(PlacesOf(t, x))] BY DEF ToBag, PlacesOf, Range
<1>4. DOMAIN ToBag(s) = Range(s) /\ DOMAIN ToBag(t) = Range(t) BY <1>2, <1>3
<1>5. \A x \in Range(s) : x \in Range(t) /\ ToBag(s)[x] <= ToBag(t)[x] BY <1>1, <1>2, <1>3
<1> QED BY <1>4, <1>5 DEF \sqsubseteq

-----------------------------------------------------------------------------
(* Layouts: what the directories of a tree spell, and the leaf of a path.  *)

LayoutOf(ds) ==
    ColumnsOf(CHOOSE dir \in ds \cup {<<>>} : \A other \in ds : Len(other) <= Len(dir))

\* Directories of one layout: the deepest spells it, the others begin it.
Spells(ds, layout) ==
    /\ ds \subseteq PartitionDirs
    /\ \E deepest \in ds \cup {<<>>} : ColumnsOf(deepest) = layout
    /\ \A dir \in ds : IsPrefix(ColumnsOf(dir), layout)

LEMMA ColumnsType ==
    ASSUME NEW dir \in PartitionDirs \cup {<<>>}
    PROVE  ColumnsOf(dir) \in Seq(Schema) /\ Len(ColumnsOf(dir)) = Len(dir)
<1>1. dir \in Seq(Schema \X Texts)
  <2>1. CASE dir \in PartitionDirs BY <2>1 DEF PartitionDirs, Texts
  <2>2. CASE dir = <<>> BY <2>2
  <2> QED BY <2>1, <2>2
<1>2. \A n \in DOMAIN dir : dir[n][1] \in Schema BY <1>1
<1>3. ColumnsOf(dir) = [n \in 1..Len(dir) |-> dir[n][1]] BY <1>1 DEF ColumnsOf
<1> QED BY <1>1, <1>2, <1>3

\* Prefixes as the code's module has them, by positions.
LEMMA PrefixIs ==
    ASSUME NEW X, NEW s \in Seq(X), NEW t \in Seq(X)
    PROVE  /\ IsPrefix(s, t) <=> Len(s) <= Len(t) /\ \A n \in 1..Len(s) : s[n] = t[n]
           /\ IsPrefix(s, t) /\ Len(s) = Len(t) => s = t
<1>1. ASSUME Len(s) <= Len(t)
      PROVE  /\ SubSeq(s, 1, Len(s)) = SubSeq(t, 1, Len(s)) <=> \A n \in 1..Len(s) : s[n] = t[n]
  <2>1. SubSeq(s, 1, Len(s)) = [n \in 1..Len(s) |-> s[n]]
    BY <1>1
  <2>2. SubSeq(t, 1, Len(s)) = [n \in 1..Len(s) |-> t[n]]
    BY <1>1
  <2>3. ASSUME SubSeq(s, 1, Len(s)) = SubSeq(t, 1, Len(s)), NEW n \in 1..Len(s)
        PROVE  s[n] = t[n]
    <3>1. [m \in 1..Len(s) |-> s[m]][n] = [m \in 1..Len(s) |-> t[m]][n] BY <2>1, <2>2, <2>3
    <3> QED BY <3>1
  <2> QED BY <2>1, <2>2, <2>3
<1>2. IsPrefix(s, t) <=> Len(s) <= Len(t) /\ SubSeq(s, 1, Len(s)) = SubSeq(t, 1, Len(s))
  BY DEF IsPrefix
<1>3. IsPrefix(s, t) <=> Len(s) <= Len(t) /\ \A n \in 1..Len(s) : s[n] = t[n]
  BY <1>1, <1>2
<1>4. Len(s) = Len(t) /\ (\A n \in 1..Len(s) : s[n] = t[n]) => s = t OBVIOUS
<1> QED BY <1>3, <1>4

\* Directories of one layout have it as their deepest chain's.
LEMMA SpellsIs ==
    ASSUME NEW ds, NEW layout, Spells(ds, layout)
    PROVE  LayoutOf(ds) = layout /\ layout \in Seq(Schema)
<1>1. PICK deepest \in ds \cup {<<>>} : ColumnsOf(deepest) = layout BY DEF Spells
<1>2. ds \subseteq PartitionDirs BY DEF Spells
<1>3. layout \in Seq(Schema) /\ Len(layout) = Len(deepest) BY <1>1, <1>2, ColumnsType
<1>4. ASSUME NEW dir \in ds PROVE Len(dir) <= Len(deepest)
  <2>1. ColumnsOf(dir) \in Seq(Schema) /\ Len(ColumnsOf(dir)) = Len(dir) BY <1>2, ColumnsType
  <2>2. IsPrefix(ColumnsOf(dir), layout) BY DEF Spells
  <2>3. Len(ColumnsOf(dir)) <= Len(layout) BY <2>1, <2>2, <1>3, PrefixIs
  <2> QED BY <2>1, <2>3, <1>3
<1> DEFINE top == CHOOSE dir \in ds \cup {<<>>} : \A other \in ds : Len(other) <= Len(dir)
<1>5. top \in ds \cup {<<>>} /\ \A other \in ds : Len(other) <= Len(top) BY <1>4
<1> HIDE DEF top
<1>6. ColumnsOf(top) \in Seq(Schema) /\ Len(ColumnsOf(top)) = Len(top)
  BY <1>2, <1>5, ColumnsType
<1>7. ColumnsOf(top) = layout
  <2>1. CASE top \in ds
    <3>1. IsPrefix(ColumnsOf(top), layout) BY <2>1 DEF Spells
    <3>2. Len(top) <= Len(deepest) BY <2>1, <1>4
    <3>3. Len(deepest) <= Len(top)
      <4>1. CASE deepest \in ds BY <4>1, <1>5
      <4>2. CASE deepest = <<>>
        <5>1. Len(deepest) = 0 BY <4>2
        <5>2. Len(top) \in Nat BY <1>6
        <5> QED BY <5>1, <5>2
      <4> QED BY <4>1, <4>2
    <3>4. Len(top) \in Nat /\ Len(deepest) \in Nat BY <1>3, <1>6
    <3>5. Len(ColumnsOf(top)) = Len(layout) BY <3>2, <3>3, <3>4, <1>3, <1>6
    <3> QED BY <3>1, <3>5, <1>3, <1>6, PrefixIs
  <2>2. CASE top \notin ds
    <3>1. top = <<>> BY <2>2, <1>5
    <3>2. Len(layout) = 0
      <4>1. CASE deepest \in ds
        <5>1. Len(deepest) <= 0 BY <4>1, <3>1, <1>5
        <5>2. Len(layout) \in Nat BY <1>3
        <5> QED BY <5>1, <5>2, <1>3
      <4>2. CASE deepest = <<>>
        <5>1. Len(deepest) = 0 BY <4>2
        <5> QED BY <5>1, <1>3
      <4> QED BY <4>1, <4>2
    <3>3. layout = <<>> BY <3>2, <1>3
    <3>4. ColumnsOf(top) = <<>> BY <3>1 DEF ColumnsOf
    <3> QED BY <3>3, <3>4
  <2> QED BY <2>1, <2>2
<1> QED BY <1>3, <1>7 DEF LayoutOf, top

\* The chain of a directory: its beginnings.
LEMMA ChainIs ==
    ASSUME NEW dir \in PartitionDirs, NEW part \in Chain(dir)
    PROVE  /\ part \in PartitionDirs
           /\ \E l \in 1..Len(dir) : part = SubSeq(dir, 1, l) /\ Len(part) = l
           /\ IsPrefix(ColumnsOf(part), ColumnsOf(dir))
<1>1. dir \in Seq(Schema \X Texts) BY DEF PartitionDirs, Texts
<1>2. PICK l \in 0..Len(dir) : part = SubSeq(dir, 1, l) BY DEF Chain, Prefixes
<1>3. part = [n \in 1..l |-> dir[n]] BY <1>1, <1>2
<1>4. part \in Seq(Schema \X Texts) /\ Len(part) = l BY <1>1, <1>3
<1>5. l # 0
  <2> SUFFICES ASSUME l = 0 PROVE FALSE OBVIOUS
  <2>1. part = <<>> BY <1>4
  <2> QED BY <2>1 DEF Chain
<1>6. \A m, n \in DOMAIN part : part[m][1] = part[n][1] => part[m] = part[n]
  BY <1>1, <1>3, <1>4 DEF PartitionDirs
<1>7. part \in PartitionDirs BY <1>4, <1>6 DEF PartitionDirs, Texts
<1>8. ColumnsOf(part) \in Seq(Schema) /\ Len(ColumnsOf(part)) = l BY <1>4, <1>7, ColumnsType
<1>9. ColumnsOf(dir) \in Seq(Schema) /\ Len(ColumnsOf(dir)) = Len(dir) BY ColumnsType
<1>10. \A n \in 1..l : ColumnsOf(part)[n] = ColumnsOf(dir)[n]
  BY <1>1, <1>3, <1>4 DEF ColumnsOf
<1>11. IsPrefix(ColumnsOf(part), ColumnsOf(dir)) BY <1>1, <1>8, <1>9, <1>10, PrefixIs
<1> QED BY <1>2, <1>4, <1>5, <1>7, <1>11

\* A chain's directories are no longer than its last.
LEMMA ChainEnds ==
    ASSUME NEW dir \in PartitionDirs, dir # <<>> PROVE dir \in Chain(dir)
<1>1. dir \in Seq(Schema \X Texts) BY DEF PartitionDirs, Texts
<1>2. dir = SubSeq(dir, 1, Len(dir)) /\ Len(dir) \in 0..Len(dir) BY <1>1
<1> QED BY <1>2 DEF Chain, Prefixes

\* A leaf in a directory of the whole layout keeps it the layout.
LEMMA ChainSpells ==
    ASSUME NEW ds, NEW stored, Spells(ds, stored), NEW layout \in Seq(Schema),
           stored \in {<<>>, layout}, NEW dir \in Full(layout)
    PROVE  Spells(ds \cup Chain(dir), layout)
<1>1. dir \in PartitionDirs /\ ColumnsOf(dir) = layout BY DEF Full
<1>2. ds \cup Chain(dir) \subseteq PartitionDirs BY <1>1, ChainIs DEF Spells
<1>3. dir \in (ds \cup Chain(dir)) \cup {<<>>} BY <1>1, ChainEnds
<1>4. ASSUME NEW part \in ds \cup Chain(dir) PROVE IsPrefix(ColumnsOf(part), layout)
  <2>1. CASE part \in Chain(dir) BY <2>1, <1>1, ChainIs
  <2>2. CASE part \in ds
    <3>1. IsPrefix(ColumnsOf(part), stored) BY <2>2 DEF Spells
    <3>2. CASE stored = layout BY <3>1, <3>2
    <3>3. CASE stored = <<>>
      <4>1. ColumnsOf(part) \in Seq(Schema) BY <2>2, ColumnsType DEF Spells
      <4>2. Len(ColumnsOf(part)) <= Len(stored)
        <5>1. stored \in Seq(Schema) BY SpellsIs
        <5> QED BY <5>1, <4>1, <3>1, PrefixIs
      <4>3. Len(stored) = 0 BY <3>3
      <4>4. Len(ColumnsOf(part)) = 0 BY <4>1, <4>2, <4>3
      <4>5. Len(ColumnsOf(part)) <= Len(layout)
              /\ \A n \in 1..Len(ColumnsOf(part)) : ColumnsOf(part)[n] = layout[n]
        BY <4>1, <4>4
      <4> QED BY <4>1, <4>5, PrefixIs
    <3> QED BY <3>2, <3>3
  <2> QED BY <2>1, <2>2
<1> QED BY <1>1, <1>2, <1>3, <1>4 DEF Spells

\* The leaf a path is written to.
LEMMA LeafForIs ==
    ASSUME GoodLeaves(leaves), NEW dir \in PartitionDirs
    PROVE  LeafFor(dir) \in LeafNames /\ LeafFor(dir).dir = dir
<1> DEFINE numbers == {leaf.number : leaf \in {leaf \in DOMAIN leaves : leaf.dir = dir}}
<1>1. numbers \in SUBSET Nat BY DEF GoodLeaves, LeafNames
<1>2. ASSUME numbers # {} PROVE \E n \in numbers : \A m \in numbers : n <= m
  <2> HIDE DEF numbers
  <2> QED BY <1>1, <1>2, LeastNumber
<1>3. LeafFor(dir) = [dir |-> dir, number |-> IF numbers = {} THEN 0
                         ELSE CHOOSE n \in numbers : \A m \in numbers : n <= m]
  BY DEF LeafFor
<1> HIDE DEF numbers
<1>4. (IF numbers = {} THEN 0 ELSE CHOOSE n \in numbers : \A m \in numbers : n <= m) \in Nat
  <2>1. CASE numbers = {} BY <2>1
  <2>2. CASE numbers # {} BY <2>2, <1>1, <1>2
  <2> QED BY <2>1, <2>2
<1> QED BY <1>3, <1>4 DEF LeafNames

\* One leaf in each partition and none above them.
OneLeafIn(tree, layout) ==
    \A leaf \in DOMAIN tree :
        /\ ColumnsOf(leaf.dir) = layout
        /\ \A other \in DOMAIN tree : leaf.dir = other.dir => leaf = other

\* A partition that has one leaf after a write had no other before.
LEMMA OneLeafBefore ==
    ASSUME NEW tree, NEW leaf, NEW rows, NEW layout, OneLeafIn(PutIn(tree, leaf, rows), layout)
    PROVE  OneLeafIn(tree, layout)
BY DEF OneLeafIn, PutIn

\* With one leaf in each partition, the others hold nothing of this one's.
LEMMA OthersApart ==
    ASSUME NEW layout \in Seq(Schema), NEW tree, GoodLeaves(tree), NEW leaf, NEW rows,
           OneLeafIn(PutIn(tree, leaf, rows), layout), NEW x \in Range(Others(tree, leaf))
    PROVE  x \notin At(layout, leaf.dir)
<1>1. PICK other \in DOMAIN tree \ {leaf} : x \in Range(Read(other.dir, tree[other]))
  BY OthersFrom
<1>2. other.dir \in PartitionDirs /\ tree[other] \in Seq(StoredRow(other.dir))
  BY DEF GoodLeaves, LeafNames
<1>3. ColumnsOf(other.dir) = layout /\ other.dir # leaf.dir BY DEF OneLeafIn, PutIn
<1>4. other.dir \in Full(layout) BY <1>2, <1>3 DEF Full
<1>5. x \in At(layout, other.dir) BY <1>1, <1>2, <1>4, ReadIn
<1> QED BY <1>3, <1>5 DEF At

-----------------------------------------------------------------------------
(* What a write puts in its leaf.                                          *)

\* A leaf's rows after a group of its partition arrived, as they read back.
Lays(layout, request, held, fresh, dir, rows, c) ==
    /\ c \in Seq(StoredRow(dir))
    /\ request.by \ Range(layout) # {} =>
         Grown(Row, Read(dir, held), Each(Reading(layout), rows),
               request.by \cup Range(layout), Read(dir, c))
    /\ request.by \ Range(layout) = {} =>
         Read(dir, c) = IF request.kind = "overwrite" /\ fresh
                        THEN Each(Reading(layout), rows)
                        ELSE Cat(Read(dir, held), Each(Reading(layout), rows))

\* The rows of a group without their partition columns, as a mapped sequence.
LEMMA DroppedIs ==
    ASSUME NEW layout, NEW dir, NEW rows \in Seq(At(layout, dir))
    PROVE  /\ [n \in DOMAIN rows |-> Without(rows[n], Spelled(dir))]
                = Each(Dropping(layout, dir), rows)
           /\ Each(Dropping(layout, dir), rows) \in Seq(StoredRow(dir))
<1>1. \A n \in DOMAIN rows : rows[n] \in At(layout, dir) OBVIOUS
<1>2. [n \in DOMAIN rows |-> Without(rows[n], Spelled(dir))] = Each(Dropping(layout, dir), rows)
  BY <1>1 DEF Each, Dropping
<1>3. Each(Dropping(layout, dir), rows) \in Seq(StoredRow(dir)) BY DroppingMaps, MapsEach
<1> QED BY <1>2, <1>3

\* Within a partition the key that is left tells rows apart as the whole key does.
LEMMA RestoringKeys ==
    ASSUME NEW layout \in Seq(Schema), NEW dir \in Full(layout), NEW by \in SUBSET Schema
    PROVE  KeyMap(StoredRow(dir), Row, Restoring(dir), by \ Spelled(dir), by \cup Range(layout))
<1>1. dir \in PartitionDirs BY DEF Full
<1>2. Restoring(dir) \in Maps(StoredRow(dir), Row) BY <1>1, RestoringMaps
<1>3. \A x \in StoredRow(dir) : Restoring(dir)[x] = With(x, dir) BY DEF Restoring
<1>4. ASSUME NEW x \in StoredRow(dir), NEW y \in StoredRow(dir)
      PROVE  RowKey(Restoring(dir)[x], by \cup Range(layout))
               = RowKey(Restoring(dir)[y], by \cup Range(layout))
             <=> RowKey(x, by \ Spelled(dir)) = RowKey(y, by \ Spelled(dir))
  <2>1. Alike(With(x, dir), With(y, dir), by \cup Range(layout)) <=> Alike(x, y, by \ Spelled(dir))
    BY KeyInLeaf
  <2>2. Restoring(dir)[x] = With(x, dir) /\ Restoring(dir)[y] = With(y, dir) BY <1>3
  <2> QED BY <2>1, <2>2 DEF Alike
<1> QED BY <1>2, <1>4 DEF KeyMap

\* A merge into a leaf reads back as a merge of its partition.
LEMMA LeafMerges ==
    ASSUME NEW layout \in Seq(Schema), NEW dir \in Full(layout), NEW by \in SUBSET Schema,
           NEW held \in Seq(StoredRow(dir)), NEW rows \in Seq(At(layout, dir)), NEW c,
           c = FlattenSeq(Merged(<<held>>, <<Each(Dropping(layout, dir), rows)>>, by \ Spelled(dir)))
    PROVE  /\ c \in Seq(StoredRow(dir))
           /\ Grown(Row, Read(dir, held), Each(Reading(layout), rows), by \cup Range(layout),
                    Read(dir, c))
<1> DEFINE new == Each(Dropping(layout, dir), rows)
<1>1. new \in Seq(StoredRow(dir)) BY DroppedIs
<1>2. Read(dir, new) = Each(Reading(layout), rows) BY ReadDropped
<1> HIDE DEF new
<1>3. Grown(StoredRow(dir), held, new, by \ Spelled(dir), c)
  BY <1>1, MergedGrows DEF new
<1>4. c \in Seq(StoredRow(dir)) BY <1>1, <1>3, GrownType
<1>5. KeyMap(StoredRow(dir), Row, Restoring(dir), by \ Spelled(dir), by \cup Range(layout))
  BY RestoringKeys
<1>6. Grown(Row, Each(Restoring(dir), held), Each(Restoring(dir), new), by \cup Range(layout),
            Each(Restoring(dir), c))
  BY <1>1, <1>3, <1>5, GrownMapped
<1> QED BY <1>2, <1>4, <1>6 DEF Read

\* A leaf there is not holds nothing.
LEMMA HeldType ==
    ASSUME NEW tree, GoodLeaves(tree), NEW leaf \in LeafNames
    PROVE  Held(tree, leaf) \in Seq(StoredRow(leaf.dir))
<1>1. CASE leaf \in DOMAIN tree BY <1>1 DEF Held, GoodLeaves
<1>2. CASE leaf \notin DOMAIN tree
  <2>1. Held(tree, leaf) = <<>> BY <1>2 DEF Held
  <2> QED BY <2>1
<1> QED BY <1>1, <1>2

\* What WriteLeaf puts in a leaf, for each way of writing.
LEMMA ContentsLays ==
    ASSUME GoodLeaves(leaves), NEW layout \in Seq(Schema), NEW leaf \in LeafNames,
           leaf.dir \in Full(layout), call.by \in SUBSET Schema,
           NEW group, group.dir = leaf.dir, group.rows \in Seq(At(layout, leaf.dir))
    PROVE  Lays(layout, call, Held(leaves, leaf), leaf \notin written, leaf.dir, group.rows,
                Contents(group, leaf))
<1> DEFINE dir == leaf.dir  held == Held(leaves, leaf)  new == Each(Dropping(layout, dir), group.rows)
           c == Contents(group, leaf)
<1>1. held = StoredIn(leaf) BY DEF Held, StoredIn
<1>2. held \in Seq(StoredRow(dir)) BY HeldType
<1>3. [n \in DOMAIN group.rows |-> Without(group.rows[n], Spelled(group.dir))] = new
        /\ new \in Seq(StoredRow(dir))
  BY DroppedIs
<1>4. Spelled(dir) = Range(layout) BY FullIs
<1>5. LeafKey(group.dir) = call.by \ Spelled(dir) BY DEF LeafKey
<1>6. dir \in PartitionDirs BY DEF Full
<1>7. Read(dir, new) = Each(Reading(layout), group.rows) BY ReadDropped
<1>8. c = IF call.by \ Spelled(dir) # {}
          THEN FlattenSeq(Merged(<<held>>, <<new>>, call.by \ Spelled(dir)))
          ELSE IF call.kind = "overwrite" /\ leaf \notin written THEN new
          ELSE held \o new
  BY <1>1, <1>3, <1>5 DEF Contents
<1> HIDE DEF c, held
<1>9. CASE call.by \ Range(layout) # {}
  <2>1. c = FlattenSeq(Merged(<<held>>, <<new>>, call.by \ Spelled(dir))) BY <1>8, <1>9, <1>4
  <2>2. c \in Seq(StoredRow(dir))
          /\ Grown(Row, Read(dir, held), Each(Reading(layout), group.rows),
                   call.by \cup Range(layout), Read(dir, c))
    BY <2>1, <1>2, LeafMerges
  <2> QED BY <1>9, <2>2 DEF Lays, c, held
<1>10. CASE call.by \ Range(layout) = {} /\ call.kind = "overwrite" /\ leaf \notin written
  <2>1. c = new BY <1>8, <1>10, <1>4
  <2> QED BY <1>3, <1>7, <1>10, <2>1 DEF Lays, c, held
<1>11. CASE call.by \ Range(layout) = {} /\ ~(call.kind = "overwrite" /\ leaf \notin written)
  <2> HIDE DEF new
  <2>1. c = Cat(held, new) BY <1>8, <1>11, <1>4 DEF Cat
  <2>2. c \in Seq(StoredRow(dir)) BY <1>2, <1>3, <2>1, CatType
  <2>3. Read(dir, c) = Cat(Read(dir, held), Read(dir, new)) BY <1>2, <1>3, <1>6, <2>1, ReadCat
  <2> QED BY <1>7, <1>11, <2>2, <2>3 DEF Lays, c, held
<1> QED BY <1>9, <1>10, <1>11

\* A write disturbs no row of another partition.
LEMMA PutStays ==
    ASSUME NEW layout \in Seq(Schema), NEW tree, GoodLeaves(tree), NEW leaf \in LeafNames,
           leaf.dir \in Full(layout), NEW c \in Seq(StoredRow(leaf.dir)),
           NEW S, S \cap At(layout, leaf.dir) = {}
    PROVE  Same(Only(TableOf(PutIn(tree, leaf, c)), S), Only(TableOf(tree), S))
<1> DEFINE O == Others(tree, leaf)  H == Read(leaf.dir, Held(tree, leaf))  C == Read(leaf.dir, c)
           T == TableOf(tree)  U == TableOf(PutIn(tree, leaf, c))
<1>1. leaf.dir \in PartitionDirs BY DEF Full
<1>2. Held(tree, leaf) \in Seq(StoredRow(leaf.dir)) BY HeldType
<1>3. O \in Seq(Row) /\ H \in Seq(Row) /\ C \in Seq(Row)
  BY <1>1, <1>2, OthersType, ReadType
<1>4. T \in Seq(Row) /\ U \in Seq(Row) BY PutGood, TableType
<1>5. Same(T, Cat(O, H)) /\ Same(U, Cat(O, C)) BY TableParts, TablePut
<1>6. Range(H) \cap S = {} /\ Range(C) \cap S = {}
  <2>1. \A x \in Range(H) : x \in At(layout, leaf.dir) BY <1>2, ReadIn
  <2>2. \A x \in Range(C) : x \in At(layout, leaf.dir) BY ReadIn
  <2> QED BY <2>1, <2>2
<1> HIDE DEF O, H, C, T, U
<1>7. Only(H, S) = <<>> /\ Only(C, S) = <<>> BY <1>3, <1>6, OnlyNothing
<1>8. Only(Cat(O, H), S) = Cat(Only(O, S), Only(H, S)) BY <1>3, OnlyCat
<1>9. Only(Cat(O, C), S) = Cat(Only(O, S), Only(C, S)) BY <1>3, OnlyCat
<1>10. Only(Cat(O, H), S) = Only(Cat(O, C), S) BY <1>7, <1>8, <1>9
<1>11. Cat(O, H) \in Seq(Row) /\ Cat(O, C) \in Seq(Row) BY <1>3, CatType
<1>12. Same(Only(U, S), Only(Cat(O, C), S)) BY <1>4, <1>5, <1>11, SameOnly
<1>13. Same(Only(T, S), Only(Cat(O, H), S)) BY <1>4, <1>5, <1>11, SameOnly
<1>14. Same(Only(Cat(O, C), S), Only(T, S)) BY <1>10, <1>13, SameSymmetric
<1>15. Same(Only(U, S), Only(T, S)) BY <1>12, <1>14, SameTransitive
<1> QED BY <1>15 DEF T, U

\* A write that keeps what the leaf held adds its rows to the table.
LEMMA PutAppends ==
    ASSUME NEW tree, GoodLeaves(tree), NEW leaf \in LeafNames,
           NEW c \in Seq(StoredRow(leaf.dir)), NEW more \in Seq(Row),
           Read(leaf.dir, c) = Cat(Read(leaf.dir, Held(tree, leaf)), more)
    PROVE  Same(TableOf(PutIn(tree, leaf, c)), Cat(TableOf(tree), more))
<1> DEFINE O == Others(tree, leaf)  H == Read(leaf.dir, Held(tree, leaf))  C == Read(leaf.dir, c)
           T == TableOf(tree)  U == TableOf(PutIn(tree, leaf, c))
<1>1. leaf.dir \in PartitionDirs BY DEF LeafNames
<1>2. Held(tree, leaf) \in Seq(StoredRow(leaf.dir)) BY HeldType
<1>3. O \in Seq(Row) /\ H \in Seq(Row) /\ C \in Seq(Row)
  BY <1>1, <1>2, OthersType, ReadType
<1>4. T \in Seq(Row) BY TableType
<1>5. Same(T, Cat(O, H)) /\ Same(U, Cat(O, C)) BY TableParts, TablePut
<1> HIDE DEF O, H, C, T, U
<1>6. Cat(O, C) = Cat(Cat(O, H), more)
  <2>1. C = Cat(H, more) BY DEF C, H
  <2> QED BY <2>1, <1>3, CatAssociative
<1>7. Cat(O, H) \in Seq(Row) BY <1>3, CatType
<1>8. Same(Cat(O, H), T) BY <1>5, SameSymmetric
<1>9. Same(more, more) BY SameReflexive
<1>10. Same(Cat(Cat(O, H), more), Cat(T, more)) BY <1>4, <1>7, <1>8, <1>9, SameCat
<1>11. Same(U, Cat(Cat(O, H), more)) BY <1>5, <1>6
<1>12. Same(U, Cat(T, more)) BY <1>10, <1>11, SameTransitive
<1> QED BY <1>12 DEF T, U

\* A merge into the one leaf of a partition is a merge into the table.
LEMMA PutUpserts ==
    ASSUME NEW layout \in Seq(Schema), NEW tree, GoodLeaves(tree), NEW leaf \in LeafNames,
           leaf.dir \in Full(layout), NEW c \in Seq(StoredRow(leaf.dir)), NEW by,
           OneLeafIn(PutIn(tree, leaf, c), layout), NEW more \in Seq(At(layout, leaf.dir)),
           more \in Seq(Row),
           Grown(Row, Read(leaf.dir, Held(tree, leaf)), more, by \cup Range(layout),
                 Read(leaf.dir, c))
    PROVE  Same(TableOf(PutIn(tree, leaf, c)), Upsert(TableOf(tree), more, by \cup Range(layout)))
<1> DEFINE O == Others(tree, leaf)  H == Read(leaf.dir, Held(tree, leaf))  C == Read(leaf.dir, c)
           T == TableOf(tree)  U == TableOf(PutIn(tree, leaf, c))  key == by \cup Range(layout)
<1>1. leaf.dir \in PartitionDirs BY DEF LeafNames
<1>2. Held(tree, leaf) \in Seq(StoredRow(leaf.dir)) BY HeldType
<1>3. O \in Seq(Row) /\ H \in Seq(Row) /\ C \in Seq(Row)
  BY <1>1, <1>2, OthersType, ReadType
<1>4. T \in Seq(Row) /\ U \in Seq(Row) BY PutGood, TableType
<1>5. Same(T, Cat(O, H)) /\ Same(U, Cat(O, C)) BY TableParts, TablePut
<1>6. ASSUME NEW row \in Range(O) PROVE ~Met(more, row, key)
  <2>1. row \notin At(layout, leaf.dir) BY <1>6, OthersApart
  <2>2. row \in Row
    <3> HIDE DEF O
    <3> QED BY <1>3, ElementsType
  <2>3. ASSUME NEW other \in Range(more), RowKey(other, key) = RowKey(row, key) PROVE FALSE
    <3>1. other \in At(layout, leaf.dir) BY ElementsType
    <3>2. other \in Row /\ DirOf(other, layout) = leaf.dir BY <3>1 DEF At
    <3>3. DirOf(other, layout) = DirOf(row, layout) BY <2>2, <2>3, <3>2, KeyTellsPartition
    <3> QED BY <2>1, <2>2, <3>2, <3>3 DEF At
  <2> QED BY <2>3 DEF Met
<1>7. Grown(Row, H, more, key, C) OBVIOUS
<1> HIDE DEF O, H, C, T, U, key
<1>8. Folding(Row, T, O, H, more, key, U) BY <1>3, <1>5, <1>7 DEF Folding
<1>9. Same(U, Upsert(T, more, key)) BY <1>3, <1>4, <1>6, <1>8, FoldingUpserts
<1> QED BY <1>9 DEF T, U, key

\* Rows replaced in the one leaf of a partition replace the partition.
LEMMA PutReplaces ==
    ASSUME NEW layout \in Seq(Schema), NEW tree, GoodLeaves(tree), NEW leaf \in LeafNames,
           leaf.dir \in Full(layout), NEW c \in Seq(StoredRow(leaf.dir)),
           OneLeafIn(PutIn(tree, leaf, c), layout), NEW more \in Seq(Row),
           Read(leaf.dir, c) = more
    PROVE  Same(TableOf(PutIn(tree, leaf, c)),
                Cat(Only(TableOf(tree), Row \ At(layout, leaf.dir)), more))
<1> DEFINE O == Others(tree, leaf)  H == Read(leaf.dir, Held(tree, leaf))
           T == TableOf(tree)  U == TableOf(PutIn(tree, leaf, c))  S == Row \ At(layout, leaf.dir)
<1>1. leaf.dir \in PartitionDirs BY DEF LeafNames
<1>2. Held(tree, leaf) \in Seq(StoredRow(leaf.dir)) BY HeldType
<1>3. O \in Seq(Row) /\ H \in Seq(Row) BY <1>1, <1>2, OthersType, ReadType
<1>4. T \in Seq(Row) BY TableType
<1>5. Same(T, Cat(O, H)) /\ Same(U, Cat(O, more)) BY TableParts, TablePut
<1>6. \A x \in Range(H) : x \in At(layout, leaf.dir) BY <1>2, ReadIn
<1>7. \A x \in Range(O) : x \notin At(layout, leaf.dir) BY OthersApart
<1>8. Range(H) \cap S = {} BY <1>6
<1>9. Range(O) \cap S = Range(O) \cap Row
  <2>1. Range(O) \subseteq Row
    <3> HIDE DEF O
    <3> QED BY <1>3, ElementsType
  <2> QED BY <1>7, <2>1
<1> HIDE DEF O, H, T, U, S
<1>10. Only(H, S) = <<>> BY <1>3, <1>8, OnlyNothing
<1>11. Only(O, S) = Only(O, Row) BY <1>9, OnlyAlike
<1>12. Only(O, Row) = O BY <1>3, ElementsType, OnlyAll
<1>13. Only(Cat(O, H), S) = Cat(Only(O, S), Only(H, S)) BY <1>3, OnlyCat
<1>14. Cat(O, <<>>) = O BY <1>3, CatEmpty
<1>15. Only(Cat(O, H), S) = O BY <1>10, <1>11, <1>12, <1>13, <1>14
<1>16. Cat(O, H) \in Seq(Row) BY <1>3, CatType
<1>17. Same(Only(T, S), O) BY <1>4, <1>5, <1>15, <1>16, SameOnly
<1>18. Same(O, Only(T, S)) BY <1>17, SameSymmetric
<1>19. Only(T, S) \in Seq(Row) BY <1>4, OnlyType
<1>20. Same(more, more) BY SameReflexive
<1>21. Same(Cat(O, more), Cat(Only(T, S), more)) BY <1>3, <1>18, <1>19, <1>20, SameCat
<1>22. Same(U, Cat(Only(T, S), more)) BY <1>5, <1>21, SameTransitive
<1> QED BY <1>22 DEF T, U, S

-----------------------------------------------------------------------------
(* A batch split by partition, and how far a call has come.                *)

ReadAs(layout, rows) == Each(Reading(layout), rows)
PartOf(layout) == [row \in Row |-> DirOf(row, layout)]
Named(layout, rows) == {DirOf(row, layout) : row \in Range(rows)}

Groups(layout) ==
    {group \in [dir : Full(layout), rows : Seq(Row)] :
        group.rows \in Seq(At(layout, group.dir))}
RowsIn(layout) == [group \in Groups(layout) |-> group.rows]
Pending(layout, gs, bs) == Cat(Over(RowsIn(layout), gs), FlattenSeq(bs))

\* In every partition, what is done and what is pending are the call's rows.
Progress(layout, rows, done, gs, bs) ==
    \A dir \in Full(layout) :
        Only(Cat(done, Pending(layout, gs, bs)), At(layout, dir)) = Only(rows, At(layout, dir))

LEMMA ReadAsType ==
    ASSUME NEW layout \in Seq(Schema), NEW rows \in Seq(Row) PROVE ReadAs(layout, rows) \in Seq(Row)
BY ReadingMaps, MapsEach DEF ReadAs

LEMMA ReadAsCat ==
    ASSUME NEW layout \in Seq(Schema), NEW s \in Seq(Row), NEW t \in Seq(Row)
    PROVE  ReadAs(layout, Cat(s, t)) = Cat(ReadAs(layout, s), ReadAs(layout, t))
BY ReadingMaps, EachCat DEF ReadAs

LEMMA ReadAsNone == ASSUME NEW layout PROVE ReadAs(layout, <<>>) = <<>>
BY DEF ReadAs, Each

LEMMA ReadAsFrom ==
    ASSUME NEW layout \in Seq(Schema), NEW rows \in Seq(Row), NEW x \in Range(ReadAs(layout, rows))
    PROVE  \E row \in Range(rows) : row \in Row /\ x = Reads(layout, row)
                                      /\ DirOf(x, layout) = DirOf(row, layout)
<1>1. \E row \in Range(rows) : x = Reading(layout)[row] BY EachFrom DEF ReadAs
<1>2. \A row \in Range(rows) : row \in Row BY ElementsType
<1>3. PICK row \in Range(rows) : x = Reading(layout)[row] BY <1>1
<1>4. row \in Row BY <1>2
<1>5. x = Reads(layout, row) BY <1>3, <1>4 DEF Reading
<1>6. DirOf(x, layout) = DirOf(row, layout) BY <1>4, <1>5, ReadsIs
<1> QED BY <1>4, <1>5, <1>6

LEMMA ReadAsHas ==
    ASSUME NEW layout \in Seq(Schema), NEW rows \in Seq(Row), NEW row \in Range(rows)
    PROVE  Reads(layout, row) \in Range(ReadAs(layout, rows))
<1>1. row \in Row BY ElementsType
<1>2. Reading(layout)[row] = Reads(layout, row) BY <1>1 DEF Reading
<1>3. \E x \in Range(rows) : Reads(layout, row) = Reading(layout)[x] BY <1>2
<1> QED BY <1>3, EachFrom DEF ReadAs

\* Rows as they read back are in the partitions they came for.
LEMMA NamedAsRead ==
    ASSUME NEW layout \in Seq(Schema), NEW rows \in Seq(Row)
    PROVE  Named(layout, ReadAs(layout, rows)) = Named(layout, rows)
<1>1. ASSUME NEW dir \in Named(layout, ReadAs(layout, rows)) PROVE dir \in Named(layout, rows)
  <2>1. PICK x \in Range(ReadAs(layout, rows)) : dir = DirOf(x, layout) BY DEF Named
  <2>2. \E row \in Range(rows) : row \in Row /\ x = Reads(layout, row)
                                   /\ DirOf(x, layout) = DirOf(row, layout) BY ReadAsFrom
  <2> QED BY <2>1, <2>2 DEF Named
<1>2. ASSUME NEW dir \in Named(layout, rows) PROVE dir \in Named(layout, ReadAs(layout, rows))
  <2>1. PICK row \in Range(rows) : dir = DirOf(row, layout) BY DEF Named
  <2>2. row \in Row BY ElementsType
  <2>3. DirOf(Reads(layout, row), layout) = dir BY <2>1, <2>2, ReadsIs
  <2>4. Reads(layout, row) \in Range(ReadAs(layout, rows)) BY ReadAsHas
  <2> QED BY <2>3, <2>4 DEF Named
<1> QED BY <1>1, <1>2

\* A row reads back in the partition it was written to.
LEMMA ReadAsAt ==
    ASSUME NEW layout \in Seq(Schema), NEW dir, NEW rows \in Seq(At(layout, dir))
    PROVE  /\ rows \in Seq(Row)
           /\ ReadAs(layout, rows) \in Seq(At(layout, dir))
           /\ ReadAs(layout, rows) \in Seq(Row)
<1>1. At(layout, dir) \subseteq Row BY DEF At
<1>2. rows \in Seq(Row) BY <1>1, SeqMonotone
<1>3. ReadAs(layout, rows) \in Seq(Row) BY <1>2, ReadAsType
<1>4. ASSUME NEW x \in Range(ReadAs(layout, rows)) PROVE x \in At(layout, dir)
  <2>1. \E row \in Range(rows) : row \in Row /\ x = Reads(layout, row)
                                   /\ DirOf(x, layout) = DirOf(row, layout) BY <1>2, ReadAsFrom
  <2>2. \A row \in Range(rows) : row \in At(layout, dir) BY ElementsType
  <2>3. x \in Row BY <1>3, ElementsType
  <2> QED BY <2>1, <2>2, <2>3 DEF At
<1>5. Range(ReadAs(layout, rows)) \subseteq At(layout, dir) BY <1>4
<1>6. ReadAs(layout, rows) \in Seq(At(layout, dir)) BY <1>3, <1>5, SeqWithin
<1> QED BY <1>2, <1>3, <1>6

\* A partition's rows are a class of the rows, by directory.
LEMMA AtIsClass ==
    ASSUME NEW layout, NEW dir PROVE At(layout, dir) = Class(Row, PartOf(layout), dir)
BY DEF At, Class, PartOf

\* Sequences with the same rows in every partition have the same rows.
LEMMA SameByParts ==
    ASSUME NEW layout \in Seq(Schema), NEW s \in Seq(Row), NEW t \in Seq(Row),
           \A dir \in Full(layout) : Only(s, At(layout, dir)) = Only(t, At(layout, dir))
    PROVE  Same(s, t)
<1> DEFINE P == PartOf(layout)
<1>1. ASSUME NEW x \in Row
      PROVE  Only(s, Class(Row, P, P[x])) = Only(t, Class(Row, P, P[x]))
  <2>1. DirOf(x, layout) \in Full(layout) BY DirOfIs
  <2>2. P[x] = DirOf(x, layout) BY DEF PartOf
  <2>3. Class(Row, P, P[x]) = At(layout, DirOf(x, layout)) BY <2>2, AtIsClass
  <2> QED BY <2>1, <2>3
<1> HIDE DEF P
<1> QED BY <1>1, SameClasses

\* Reading back and choosing a partition commute.
LEMMA ReadAsOnly ==
    ASSUME NEW layout \in Seq(Schema), NEW rows \in Seq(Row), NEW dir
    PROVE  Only(ReadAs(layout, rows), At(layout, dir)) = ReadAs(layout, Only(rows, At(layout, dir)))
<1>1. Reading(layout) \in Maps(Row, Row) BY ReadingMaps
<1>2. ASSUME NEW x \in Row PROVE Reading(layout)[x] \in At(layout, dir) <=> x \in At(layout, dir)
  BY ReadsIs DEF Reading, At
<1> QED BY <1>1, <1>2, OnlyEach DEF ReadAs

\* The head of a sequence apart.
LEMMA OverHead ==
    ASSUME NEW X, NEW Y, NEW G \in Making(X, Y), NEW s \in Seq(X), s # <<>>
    PROVE  Over(G, s) = Cat(G[Head(s)], Over(G, Tail(s)))
<1>1. Head(s) \in X /\ Tail(s) \in Seq(X) BY HeadTailProperties
<1>2. <<Head(s)>> \in Seq(X) BY <1>1
<1>3. s = Cat(<<Head(s)>>, Tail(s)) BY DEF Cat
<1>4. Over(G, Cat(<<Head(s)>>, Tail(s))) = Cat(Over(G, <<Head(s)>>), Over(G, Tail(s)))
  <2>1. PICK h \in Seq(X) : h = <<Head(s)>> BY <1>2
  <2>2. PICK t \in Seq(X) : t = Tail(s) BY <1>1
  <2>3. Over(G, Cat(h, t)) = Cat(Over(G, h), Over(G, t)) BY OverCat
  <2> QED BY <2>1, <2>2, <2>3
<1>5. Over(G, <<Head(s)>>) = G[Head(s)] BY <1>1, OverOne
<1> QED BY <1>3, <1>4, <1>5

LEMMA FlattenHead ==
    ASSUME NEW X, NEW seqs \in Seq(Seq(X)), seqs # <<>>
    PROVE  FlattenSeq(seqs) = Cat(Head(seqs), FlattenSeq(Tail(seqs)))
<1>1. Head(seqs) \in Seq(X) /\ Tail(seqs) \in Seq(Seq(X)) BY HeadTailProperties
<1>2. Itself(X) \in Making(Seq(X), X) BY ItselfMakes
<1>3. Over(Itself(X), seqs) = Cat(Itself(X)[Head(seqs)], Over(Itself(X), Tail(seqs)))
  BY <1>2, OverHead
<1>4. Itself(X)[Head(seqs)] = Head(seqs) BY <1>1 DEF Itself
<1>5. FlattenSeq(seqs) = Over(Itself(X), seqs) BY FlattenOver
<1>6. FlattenSeq(Tail(seqs)) = Over(Itself(X), Tail(seqs)) BY <1>1, FlattenOver
<1> QED BY <1>3, <1>4, <1>5, <1>6

LEMMA RowsInMakes == ASSUME NEW layout PROVE RowsIn(layout) \in Making(Groups(layout), Row)
BY DEF RowsIn, Making, Groups

LEMMA PendingType ==
    ASSUME NEW layout, NEW gs \in Seq(Groups(layout)), NEW bs \in Seq(Seq(Row))
    PROVE  /\ Over(RowsIn(layout), gs) \in Seq(Row) /\ FlattenSeq(bs) \in Seq(Row)
           /\ Pending(layout, gs, bs) \in Seq(Row)
<1>1. Over(RowsIn(layout), gs) \in Seq(Row) BY RowsInMakes, OverType
<1>2. FlattenSeq(bs) \in Seq(Row) BY FlattenType
<1>3. Cat(Over(RowsIn(layout), gs), FlattenSeq(bs)) \in Seq(Row) BY <1>1, <1>2, CatType
<1> QED BY <1>1, <1>2, <1>3 DEF Pending

\* One batch in groups: what each directory is given of it.
Grouping(layout, batch) ==
    [dir \in Full(layout) |-> [dir |-> dir, rows |-> Only(batch, At(layout, dir))]]
Sorting(layout, batch) == [dir \in Full(layout) |-> Only(batch, At(layout, dir))]

LEMMA GroupingMaps ==
    ASSUME NEW layout, NEW batch \in Seq(Row)
    PROVE  /\ Grouping(layout, batch) \in Maps(Full(layout), Groups(layout))
           /\ Sorting(layout, batch) \in Making(Full(layout), Row)
           /\ Sorting(layout, batch) \in Maps(Full(layout), Seq(Row))
           /\ RowsIn(layout) \in Maps(Groups(layout), Seq(Row))
<1>1. ASSUME NEW dir \in Full(layout)
      PROVE  Only(batch, At(layout, dir)) \in Seq(Row) /\ Only(batch, At(layout, dir)) \in Seq(At(layout, dir))
  <2>1. Only(batch, At(layout, dir)) \in Seq(Row) BY OnlyType
  <2>2. Only(batch, At(layout, dir)) \in Seq(Row \cap At(layout, dir)) BY OnlyWithin
  <2>3. Row \cap At(layout, dir) = At(layout, dir) BY DEF At
  <2> QED BY <2>1, <2>2, <2>3
<1>2. \A dir \in Full(layout) : Grouping(layout, batch)[dir] \in Groups(layout)
  BY <1>1 DEF Grouping, Groups
<1>3. Grouping(layout, batch) = [dir \in Full(layout) |-> Grouping(layout, batch)[dir]]
  BY DEF Grouping
<1> QED BY <1>1, <1>2, <1>3 DEF Maps, Making, Sorting, RowsIn, Groups

\* The split as the code makes it, one group for each directory in order of appearance.
LEMMA SplitIs ==
    ASSUME NEW layout \in Seq(Schema), LaidOut = layout, NEW batch \in Seq(Row)
    PROVE  LET places == Firsts(Each(PartOf(layout), batch)) IN
           /\ places \in Seq(Full(layout))
           /\ Range(places) = Named(layout, batch)
           /\ SplitByPartition(batch) = Each(Grouping(layout, batch), places)
<1> DEFINE all == Each(PartOf(layout), batch)  places == Firsts(all)
<1>1. \A row \in Row : DirOf(row, layout) \in Full(layout) BY DirOfIs
<1>2. PartOf(layout) \in Maps(Row, Full(layout)) BY <1>1 DEF PartOf, Maps
<1>3. all \in Seq(Full(layout)) BY <1>2, MapsEach
<1>4. places \in Seq(Full(layout)) /\ Range(places) = Range(all)
  <2> HIDE DEF all
  <2> QED BY <1>3, FirstsType, FirstsFrom
<1>5. \A n \in DOMAIN batch : batch[n] \in Row BY DEF Range
<1>6. all = [n \in DOMAIN batch |-> DirOf(batch[n], layout)] BY <1>5 DEF Each, PartOf
<1>7. Range(all) = Named(layout, batch) BY <1>6 DEF Named, Range
<1>8. \A p \in DOMAIN places : places[p] \in Full(layout)
  <2> HIDE DEF places
  <2> QED BY <1>4
<1>9. ASSUME NEW p \in DOMAIN places
      PROVE  Only(batch, {row \in Range(batch) : DirOf(row, LaidOut) = places[p]})
               = Only(batch, At(layout, places[p]))
  <2> HIDE DEF places
  <2>1. \A row \in Range(batch) : row \in Row BY ElementsType
  <2>2. Range(batch) \cap {row \in Range(batch) : DirOf(row, LaidOut) = places[p]}
          = Range(batch) \cap At(layout, places[p])
    BY <2>1 DEF At
  <2> QED BY <2>2, OnlyAlike
<1>10. places = Firsts([n \in DOMAIN batch |-> DirOf(batch[n], LaidOut)]) BY <1>6
<1> HIDE DEF places
<1>11. SplitByPartition(batch) = Each(Grouping(layout, batch), places)
  BY <1>8, <1>9, <1>10 DEF SplitByPartition, Each, Grouping
<1> QED BY <1>4, <1>7, <1>11 DEF places

\* A batch's groups are its rows, in order in each partition.
LEMMA SplitSorts ==
    ASSUME NEW layout \in Seq(Schema), LaidOut = layout, NEW batch \in Seq(Row)
    PROVE  /\ SplitByPartition(batch) \in Seq(Groups(layout))
           /\ \A group \in Range(SplitByPartition(batch)) : group.dir \in Named(layout, batch)
           /\ \A dir \in Full(layout) :
                Only(Over(RowsIn(layout), SplitByPartition(batch)), At(layout, dir))
                  = Only(batch, At(layout, dir))
<1> DEFINE all == Each(PartOf(layout), batch)  places == Firsts(all)
           H == Sorting(layout, batch)  split == SplitByPartition(batch)
<1>1. places \in Seq(Full(layout)) /\ Range(places) = Named(layout, batch)
        /\ split = Each(Grouping(layout, batch), places)
  BY SplitIs
<1>2. Grouping(layout, batch) \in Maps(Full(layout), Groups(layout)) BY GroupingMaps
<1>3. H \in Making(Full(layout), Row) /\ H \in Maps(Full(layout), Seq(Row)) BY GroupingMaps
<1>4. RowsIn(layout) \in Maps(Groups(layout), Seq(Row)) BY GroupingMaps
<1>5. \A dir \in Full(layout) : H[dir] = RowsIn(layout)[Grouping(layout, batch)[dir]]
  BY <1>2 DEF Maps, Sorting, RowsIn, Grouping
<1>6. all \in Seq(Full(layout))
  <2>1. \A row \in Row : DirOf(row, layout) \in Full(layout) BY DirOfIs
  <2>2. PartOf(layout) \in Maps(Row, Full(layout)) BY <2>1 DEF PartOf, Maps
  <2> QED BY <2>2, MapsEach
<1>7. ASSUME NEW dir \in Range(places) PROVE Count(places, dir) = 1
  <2> HIDE DEF all
  <2>1. dir \in Range(all) BY <1>6, FirstsFrom
  <2> QED BY <1>6, <2>1, CountFirsts
<1> HIDE DEF places, split, H
<1>8. split \in Seq(Groups(layout)) BY <1>1, <1>2, MapsEach
<1>9. ASSUME NEW group \in Range(split) PROVE group.dir \in Named(layout, batch)
  <2>1. \E dir \in Range(places) : group = Grouping(layout, batch)[dir] BY <1>1, EachFrom
  <2>2. PICK dir \in Range(places) : group = Grouping(layout, batch)[dir] BY <2>1
  <2>3. dir \in Full(layout) BY <1>1, ElementsType
  <2>4. group.dir = dir BY <2>2, <2>3 DEF Grouping
  <2> QED BY <1>1, <2>4
<1>10. Each(RowsIn(layout), split) = Each(H, places)
  BY <1>1, <1>2, <1>3, <1>4, <1>5, EachEach
<1>11. Over(RowsIn(layout), split) = Over(H, places) BY <1>10 DEF Over
<1>12. ASSUME NEW dir \in Full(layout)
       PROVE  Only(Over(H, places), At(layout, dir)) = Only(batch, At(layout, dir))
  <2> DEFINE S == At(layout, dir)  K == Picking(Full(layout), H, S)
  <2>1. Only(Over(H, places), S) = Over(K, places) BY <1>1, <1>3, OnlyOver
  <2>2. ASSUME NEW other \in Full(layout)
        PROVE  K[other] = Only(batch, At(layout, other) \cap S)
    <3>1. K[other] = Only(H[other], S) BY DEF Picking
    <3>2. H[other] = Only(batch, At(layout, other)) BY DEF H, Sorting
    <3> HIDE DEF S, K
    <3>3. Only(Only(batch, At(layout, other)), S) = Only(batch, At(layout, other) \cap S)
      BY OnlyTwice
    <3> QED BY <3>1, <3>2, <3>3
  <2>3. ASSUME NEW other \in Full(layout), other # dir PROVE K[other] = <<>>
    <3>1. At(layout, other) \cap S = {} BY <2>3 DEF At
    <3>2. Only(batch, {}) = <<>> BY OnlyNothing
    <3> HIDE DEF S, K
    <3> QED BY <2>2, <3>1, <3>2
  <2>4. K[dir] = Only(batch, S)
    <3>1. K[dir] = Only(batch, At(layout, dir) \cap S) BY <2>2
    <3>2. At(layout, dir) \cap S = S OBVIOUS
    <3> HIDE DEF S, K
    <3> QED BY <3>1, <3>2
  <2>5. K \in Making(Full(layout), Row)
    <3>1. \A other \in Full(layout) : Only(H[other], S) \in Seq(Row)
      <4> SUFFICES ASSUME NEW other \in Full(layout) PROVE Only(H[other], S) \in Seq(Row) OBVIOUS
      <4>1. H[other] \in Seq(Row) BY <1>3, MakingAt
      <4> HIDE DEF S
      <4> QED BY <4>1, OnlyType
    <3> QED BY <3>1 DEF Picking, Making
  <2> HIDE DEF K
  <2>6. CASE dir \in Range(places)
    <3>1. Count(places, dir) = 1 BY <2>6, <1>7
    <3>2. \A other \in Full(layout) : other # dir => K[other] = <<>> BY <2>3
    <3>3. Over(K, places) = K[dir] BY <1>1, <2>5, <3>1, <3>2, OverOnce
    <3> QED BY <2>1, <2>4, <3>3
  <2>7. CASE dir \notin Range(places)
    <3>1. \A n \in DOMAIN places : places[n] \in Full(layout) /\ places[n] # dir
      BY <1>1, <2>7 DEF Range
    <3>2. \A n \in DOMAIN places : K[places[n]] = <<>> BY <2>3, <3>1
    <3>3. Over(K, places) = <<>> BY <1>1, <3>2, OverNothing
    <3>4. Range(batch) \cap S = {} BY <1>1, <2>7 DEF At, Named
    <3>5. Only(batch, S) = <<>>
      <4> HIDE DEF S
      <4> QED BY <3>4, OnlyNothing
    <3> QED BY <2>1, <3>3, <3>5
  <2> QED BY <2>6, <2>7
<1> QED BY <1>8, <1>9, <1>11, <1>12 DEF split

-----------------------------------------------------------------------------
(* The steps of a call, as progress.                                       *)

\* When a call begins nothing is done and everything is to be read.
LEMMA BeginProgress ==
    ASSUME NEW layout \in Seq(Schema), NEW bs \in Seq(Seq(Row))
    PROVE  Progress(layout, FlattenSeq(bs), <<>>, <<>>, bs)
<1>1. FlattenSeq(bs) \in Seq(Row) BY FlattenType
<1>2. Over(RowsIn(layout), <<>>) = <<>> BY OverEmpty
<1>3. Pending(layout, <<>>, bs) = FlattenSeq(bs) BY <1>1, <1>2, EmptyCat DEF Pending
<1>4. Cat(<<>>, Pending(layout, <<>>, bs)) = FlattenSeq(bs) BY <1>1, <1>3, EmptyCat
<1> QED BY <1>4 DEF Progress

\* A batch that was read is a batch to be written.
LEMMA BatchProgress ==
    ASSUME NEW layout \in Seq(Schema), LaidOut = layout, NEW rows, NEW done \in Seq(Row),
           NEW bs \in Seq(Seq(Row)), bs # <<>>, Progress(layout, rows, done, <<>>, bs)
    PROVE  Progress(layout, rows, done, SplitByPartition(Head(bs)), Tail(bs))
<1>1. Head(bs) \in Seq(Row) /\ Tail(bs) \in Seq(Seq(Row)) BY HeadTailProperties
<1> DEFINE b == Head(bs)  more == FlattenSeq(Tail(bs))  gs == SplitByPartition(b)
           given == Over(RowsIn(layout), gs)
<1>2. more \in Seq(Row) /\ FlattenSeq(bs) \in Seq(Row) BY <1>1, FlattenType
<1>3. Over(RowsIn(layout), <<>>) = <<>> BY OverEmpty
<1>4. Pending(layout, <<>>, bs) = FlattenSeq(bs) BY <1>2, <1>3, EmptyCat DEF Pending
<1>5. FlattenSeq(bs) = Cat(b, more) BY FlattenHead
<1>6. gs \in Seq(Groups(layout)) BY <1>1, SplitSorts
<1>7. given \in Seq(Row) BY <1>6, RowsInMakes, OverType
<1>8. Pending(layout, gs, Tail(bs)) = Cat(given, more) BY DEF Pending
<1>9. ASSUME NEW dir \in Full(layout)
      PROVE  Only(Cat(done, Pending(layout, gs, Tail(bs))), At(layout, dir)) = Only(rows, At(layout, dir))
  <2> DEFINE S == At(layout, dir)
  <2>1. Only(given, S) = Only(b, S) BY <1>1, SplitSorts
  <2>2. Only(Cat(done, Cat(b, more)), S) = Only(rows, S) BY <1>4, <1>5 DEF Progress
  <2> HIDE DEF S, given, more, b, gs
  <2>3. b \in Seq(Row) BY <1>1 DEF b
  <2>4. Cat(b, more) \in Seq(Row) /\ Cat(given, more) \in Seq(Row) BY <1>2, <1>7, <2>3, CatType
  <2>5. Only(Cat(b, more), S) = Cat(Only(b, S), Only(more, S)) BY <1>2, <2>3, OnlyCat
  <2>6. Only(Cat(given, more), S) = Cat(Only(given, S), Only(more, S)) BY <1>2, <1>7, OnlyCat
  <2>7. Only(Cat(done, Cat(b, more)), S) = Cat(Only(done, S), Only(Cat(b, more), S))
    BY <2>4, OnlyCat
  <2>8. Only(Cat(done, Cat(given, more)), S) = Cat(Only(done, S), Only(Cat(given, more), S))
    BY <2>4, OnlyCat
  <2>9. Only(Cat(done, Cat(given, more)), S) = Only(rows, S)
    BY <2>1, <2>2, <2>5, <2>6, <2>7, <2>8
  <2> QED BY <2>9, <1>8 DEF S
<1> QED BY <1>9 DEF Progress

\* A group that was written is done.
LEMMA WriteProgress ==
    ASSUME NEW layout \in Seq(Schema), NEW rows, NEW done \in Seq(Row),
           NEW gs \in Seq(Groups(layout)), gs # <<>>, NEW bs \in Seq(Seq(Row)),
           Progress(layout, rows, done, gs, bs)
    PROVE  Progress(layout, rows, Cat(done, Head(gs).rows), Tail(gs), bs)
<1>1. Head(gs) \in Groups(layout) /\ Tail(gs) \in Seq(Groups(layout)) BY HeadTailProperties
<1> DEFINE g == Head(gs).rows  more == Over(RowsIn(layout), Tail(gs))  rest == FlattenSeq(bs)
<1>2. g \in Seq(Row) BY <1>1 DEF Groups
<1>3. more \in Seq(Row) BY <1>1, RowsInMakes, OverType
<1>4. rest \in Seq(Row) BY FlattenType
<1>5. RowsIn(layout)[Head(gs)] = g BY <1>1 DEF RowsIn
<1>6. Over(RowsIn(layout), gs) = Cat(RowsIn(layout)[Head(gs)], more) BY RowsInMakes, OverHead
<1>7. Pending(layout, gs, bs) = Cat(Cat(g, more), rest) BY <1>5, <1>6 DEF Pending
<1>8. Pending(layout, Tail(gs), bs) = Cat(more, rest) BY DEF Pending
<1> HIDE DEF g, more, rest
<1>9. Cat(more, rest) \in Seq(Row) BY <1>3, <1>4, CatType
<1>10. Cat(Cat(g, more), rest) = Cat(g, Cat(more, rest)) BY <1>2, <1>3, <1>4, CatAssociative
<1>11. Cat(Cat(done, g), Cat(more, rest)) = Cat(done, Cat(g, Cat(more, rest)))
  BY <1>2, <1>9, CatAssociative
<1>12. Cat(Cat(done, g), Pending(layout, Tail(gs), bs)) = Cat(done, Pending(layout, gs, bs))
  BY <1>7, <1>8, <1>10, <1>11
<1> QED BY <1>12 DEF Progress, g

\* A call writes none of its rows twice.
LEMMA DoneWithin ==
    ASSUME NEW layout \in Seq(Schema), NEW rows \in Seq(Row), NEW done \in Seq(Row),
           NEW gs \in Seq(Groups(layout)), NEW bs \in Seq(Seq(Row)),
           Progress(layout, rows, done, gs, bs)
    PROVE  Within(ReadAs(layout, done), ReadAs(layout, rows))
<1> DEFINE p == Pending(layout, gs, bs)
<1>1. p \in Seq(Row) BY PendingType
<1> HIDE DEF p
<1>2. Cat(done, p) \in Seq(Row) BY <1>1, CatType
<1>3. \A dir \in Full(layout) : Only(Cat(done, p), At(layout, dir)) = Only(rows, At(layout, dir))
  BY DEF Progress, p
<1>4. Same(Cat(done, p), rows) BY <1>2, <1>3, SameByParts
<1>5. Reading(layout) \in Maps(Row, Row) BY ReadingMaps
<1>6. Same(ReadAs(layout, Cat(done, p)), ReadAs(layout, rows))
  BY <1>2, <1>4, <1>5, SameEach DEF ReadAs
<1>7. ReadAs(layout, done) \in Seq(Row) /\ ReadAs(layout, p) \in Seq(Row)
        /\ ReadAs(layout, rows) \in Seq(Row) /\ ReadAs(layout, Cat(done, p)) \in Seq(Row)
  BY <1>1, <1>2, ReadAsType
<1>8. ReadAs(layout, Cat(done, p)) = Cat(ReadAs(layout, done), ReadAs(layout, p))
  BY <1>1, ReadAsCat
<1>9. Within(ReadAs(layout, p), ReadAs(layout, p)) BY <1>7, SameReflexive, WithinReflexive
<1>10. Within(ReadAs(layout, done), Cat(ReadAs(layout, done), ReadAs(layout, p)))
  BY <1>7, <1>9, WithinCat
<1>11. Within(ReadAs(layout, Cat(done, p)), ReadAs(layout, rows)) BY <1>6, <1>7, WithinReflexive
<1> QED BY <1>7, <1>8, <1>10, <1>11, WithinTransitive

\* With nothing pending, what is done is the call's rows, in order in each
\* partition.
LEMMA AllDone ==
    ASSUME NEW layout \in Seq(Schema), NEW rows \in Seq(Row), NEW done \in Seq(Row),
           Progress(layout, rows, done, <<>>, <<>>)
    PROVE  /\ \A dir \in Full(layout) : Only(done, At(layout, dir)) = Only(rows, At(layout, dir))
           /\ Same(done, rows)
<1>1. Over(RowsIn(layout), <<>>) = <<>> BY OverEmpty
<1>2. FlattenSeq(<<>>) = <<>> BY FlattenEmpty
<1>3. Cat(<<>>, <<>>) = <<>>
  <2>1. <<>> \in Seq(Row) OBVIOUS
  <2> QED BY <2>1, CatEmpty
<1>4. Pending(layout, <<>>, <<>>) = <<>> BY <1>1, <1>2, <1>3 DEF Pending
<1>5. Cat(done, <<>>) = done BY CatEmpty
<1>6. \A dir \in Full(layout) : Only(done, At(layout, dir)) = Only(rows, At(layout, dir))
  BY <1>4, <1>5 DEF Progress
<1>7. Same(done, rows) BY <1>6, SameByParts
<1> QED BY <1>6, <1>7

\* Same rows read back the same.
LEMMA ReadAsSame ==
    ASSUME NEW layout \in Seq(Schema), NEW s \in Seq(Row), NEW t \in Seq(Row), Same(s, t)
    PROVE  Same(ReadAs(layout, s), ReadAs(layout, t))
BY ReadingMaps, SameEach DEF ReadAs

\* Rows in the same order in each partition merge alike.
LEMMA UpsertsAlike ==
    ASSUME NEW layout \in Seq(Schema), NEW past \in Seq(Row), NEW s \in Seq(Row), NEW t \in Seq(Row),
           NEW by,
           \A dir \in Full(layout) : Only(s, At(layout, dir)) = Only(t, At(layout, dir))
    PROVE  Same(Upsert(past, ReadAs(layout, s), by \cup Range(layout)),
                Upsert(past, ReadAs(layout, t), by \cup Range(layout)))
<1> DEFINE P == PartOf(layout)  a == ReadAs(layout, s)  b == ReadAs(layout, t)
           key == by \cup Range(layout)
<1>1. a \in Seq(Row) /\ b \in Seq(Row) BY ReadAsType
<1>2. \A x, y \in Row : RowKey(x, key) = RowKey(y, key) => P[x] = P[y]
  BY KeyTellsPartition DEF PartOf
<1>3. ASSUME NEW x \in Row PROVE Only(a, Class(Row, P, P[x])) = Only(b, Class(Row, P, P[x]))
  <2>1. PICK dir \in Full(layout) : dir = DirOf(x, layout)
    <3>1. DirOf(x, layout) \in Full(layout) BY DirOfIs
    <3> QED BY <3>1
  <2>2. P[x] = dir BY <2>1 DEF PartOf
  <2>3. Class(Row, P, P[x]) = At(layout, dir) BY <2>2, AtIsClass
  <2>4. Only(a, At(layout, dir)) = ReadAs(layout, Only(s, At(layout, dir))) BY ReadAsOnly
  <2>5. Only(b, At(layout, dir)) = ReadAs(layout, Only(t, At(layout, dir))) BY ReadAsOnly
  <2> QED BY <2>3, <2>4, <2>5
<1> HIDE DEF P, a, b, key
<1>4. Same(Upsert(past, a, key), Upsert(past, b, key)) BY <1>1, <1>2, <1>3, UpsertReordered
<1> QED BY <1>4 DEF a, b, key

-----------------------------------------------------------------------------
(* What a call has made of the table so far, by what was asked.            *)

Keyed(layout, request) == request.by \ Range(layout) # {}
Sweeping(request) == request.kind = "overwrite" /\ request.by = {}
Unnamed(layout, rows) == {row \in Row : DirOf(row, layout) \notin Named(layout, rows)}
Unwritten(layout, marked) ==
    {row \in Row : DirOf(row, layout) \notin {leaf.dir : leaf \in marked}}

\* An append adds its rows.
Appended(layout, request, past, tree, done) ==
    (request.kind = "append" /\ ~Keyed(layout, request)) =>
        Same(TableOf(tree), Cat(past, ReadAs(layout, done)))

\* An overwrite's rows are all there is.
Overwritten(layout, request, marked, tree, done) ==
    Sweeping(request) =>
        /\ Same(TableOf(tree), ReadAs(layout, done))
        /\ \A leaf \in DOMAIN tree \ marked : tree[leaf] = <<>>

\* A merge by partition columns alone replaces the partitions it wrote.
Replaced(layout, request, past, marked, tree, done) ==
    (/\ request.kind = "overwrite" /\ request.by # {} /\ ~Keyed(layout, request)
     /\ OneLeafIn(tree, layout)) =>
        /\ Same(TableOf(tree), Cat(Only(past, Unwritten(layout, marked)), ReadAs(layout, done)))
        /\ Range(ReadAs(layout, done)) \cap Unwritten(layout, marked) = {}

\* A merge by other columns is an upsert of the table.
Upserted(layout, request, past, tree, done) ==
    (Keyed(layout, request) /\ OneLeafIn(tree, layout)) =>
        Same(TableOf(tree), Upsert(past, ReadAs(layout, done), request.by \cup Range(layout)))

\* A merge leaves alone the partitions that no arriving row names.
Stayed(layout, request, past, tree, rows) ==
    request.by # {} =>
        Same(Only(TableOf(tree), Unnamed(layout, rows)), Only(past, Unnamed(layout, rows)))

\* A leaf written with a group, by a call that has written `marked'.
Writes(layout, request, marked, tree, leaf, group, c) ==
    /\ GoodLeaves(tree) /\ leaf \in LeafNames /\ marked \subseteq DOMAIN tree
    /\ group \in Groups(layout) /\ leaf.dir = group.dir
    /\ request.by \in SUBSET Schema
    /\ Lays(layout, request, Held(tree, leaf), leaf \notin marked, leaf.dir, group.rows, c)

\* The group that is written is of its leaf's partition.
LEMMA WritesIs ==
    ASSUME NEW layout \in Seq(Schema), NEW request, NEW marked, NEW tree, NEW leaf, NEW group, NEW c,
           Writes(layout, request, marked, tree, leaf, group, c)
    PROVE  /\ leaf \in LeafNames /\ leaf.dir \in Full(layout) /\ leaf.dir \in PartitionDirs
           /\ GoodLeaves(tree) /\ GoodLeaves(PutIn(tree, leaf, c))
           /\ c \in Seq(StoredRow(leaf.dir))
           /\ Held(tree, leaf) \in Seq(StoredRow(leaf.dir))
           /\ group.rows \in Seq(Row)
           /\ ReadAs(layout, group.rows) \in Seq(At(layout, leaf.dir))
           /\ ReadAs(layout, group.rows) \in Seq(Row)
<1>1. group.dir \in Full(layout) /\ group.rows \in Seq(At(layout, group.dir)) BY DEF Writes, Groups
<1>2. leaf \in LeafNames /\ GoodLeaves(tree) /\ leaf.dir = group.dir BY DEF Writes
<1>3. c \in Seq(StoredRow(leaf.dir)) BY DEF Writes, Lays
<1>4. leaf.dir \in PartitionDirs BY <1>2 DEF LeafNames
<1>5. GoodLeaves(PutIn(tree, leaf, c)) BY <1>2, <1>3, PutGood
<1>6. Held(tree, leaf) \in Seq(StoredRow(leaf.dir)) BY <1>2, HeldType
<1>7. group.rows \in Seq(Row) /\ ReadAs(layout, group.rows) \in Seq(At(layout, leaf.dir))
        /\ ReadAs(layout, group.rows) \in Seq(Row)
  BY <1>1, <1>2, ReadAsAt
<1> QED BY <1>1, <1>2, <1>3, <1>4, <1>5, <1>6, <1>7

\* The table after a write that keeps what its leaf held.
LEMMA WriteAdds ==
    ASSUME NEW layout \in Seq(Schema), NEW request, NEW marked, NEW tree, NEW leaf, NEW group, NEW c,
           Writes(layout, request, marked, tree, leaf, group, c),
           Read(leaf.dir, c) = Cat(Read(leaf.dir, Held(tree, leaf)), ReadAs(layout, group.rows)),
           NEW past \in Seq(Row), NEW done \in Seq(Row),
           Same(TableOf(tree), Cat(past, ReadAs(layout, done)))
    PROVE  Same(TableOf(PutIn(tree, leaf, c)), Cat(past, ReadAs(layout, Cat(done, group.rows))))
<1> DEFINE a == ReadAs(layout, done)  b == ReadAs(layout, group.rows)
           T == TableOf(tree)  U == TableOf(PutIn(tree, leaf, c))
<1>1. leaf \in LeafNames /\ GoodLeaves(tree) /\ c \in Seq(StoredRow(leaf.dir))
        /\ group.rows \in Seq(Row) /\ b \in Seq(Row)
  BY WritesIs
<1>2. a \in Seq(Row) BY ReadAsType
<1>3. Same(U, Cat(T, b)) BY <1>1, PutAppends
<1>4. T \in Seq(Row) BY <1>1, TableType
<1>5. ReadAs(layout, Cat(done, group.rows)) = Cat(a, b) BY <1>1, ReadAsCat
<1>6. Same(T, Cat(past, a)) OBVIOUS
<1> HIDE DEF a, b, T, U
<1>7. Cat(past, a) \in Seq(Row) BY <1>2, CatType
<1>8. Same(b, b) BY SameReflexive
<1>9. Same(Cat(T, b), Cat(Cat(past, a), b)) BY <1>1, <1>4, <1>6, <1>7, <1>8, SameCat
<1>10. Cat(Cat(past, a), b) = Cat(past, Cat(a, b)) BY <1>1, <1>2, CatAssociative
<1>11. Same(U, Cat(past, Cat(a, b))) BY <1>3, <1>9, <1>10, SameTransitive
<1> QED BY <1>5, <1>11 DEF U

\* The next leaf of an append.
LEMMA AppendedPut ==
    ASSUME NEW layout \in Seq(Schema), NEW request, NEW marked, NEW tree, NEW leaf, NEW group, NEW c,
           Writes(layout, request, marked, tree, leaf, group, c),
           NEW past \in Seq(Row), NEW done \in Seq(Row),
           Appended(layout, request, past, tree, done)
    PROVE  Appended(layout, request, past, PutIn(tree, leaf, c), Cat(done, group.rows))
<1> SUFFICES ASSUME request.kind = "append", ~Keyed(layout, request)
             PROVE  Same(TableOf(PutIn(tree, leaf, c)), Cat(past, ReadAs(layout, Cat(done, group.rows))))
  BY DEF Appended
<1>1. Same(TableOf(tree), Cat(past, ReadAs(layout, done))) BY DEF Appended
<1>2. Read(leaf.dir, c) = Cat(Read(leaf.dir, Held(tree, leaf)), ReadAs(layout, group.rows))
  BY DEF Writes, Lays, Keyed, ReadAs
<1> QED BY <1>1, <1>2, WriteAdds

\* The next leaf of an overwrite: it was empty unless this call wrote it.
LEMMA OverwrittenPut ==
    ASSUME NEW layout \in Seq(Schema), NEW request, NEW marked, NEW tree, NEW leaf, NEW group, NEW c,
           Writes(layout, request, marked, tree, leaf, group, c), NEW done \in Seq(Row),
           Overwritten(layout, request, marked, tree, done)
    PROVE  Overwritten(layout, request, marked \cup {leaf}, PutIn(tree, leaf, c), Cat(done, group.rows))
<1> SUFFICES ASSUME Sweeping(request)
             PROVE  /\ Same(TableOf(PutIn(tree, leaf, c)), ReadAs(layout, Cat(done, group.rows)))
                    /\ \A other \in DOMAIN PutIn(tree, leaf, c) \ (marked \cup {leaf}) :
                         PutIn(tree, leaf, c)[other] = <<>>
  BY DEF Overwritten
<1>1. Same(TableOf(tree), ReadAs(layout, done)) /\ \A other \in DOMAIN tree \ marked : tree[other] = <<>>
  BY DEF Overwritten
<1>2. group.rows \in Seq(Row) /\ ReadAs(layout, group.rows) \in Seq(Row) BY WritesIs
<1>3. ReadAs(layout, done) \in Seq(Row) BY ReadAsType
<1>4. Cat(done, group.rows) \in Seq(Row) BY <1>2, CatType
<1>5. ReadAs(layout, Cat(done, group.rows)) \in Seq(Row) BY <1>4, ReadAsType
<1>6. Read(leaf.dir, c) = Cat(Read(leaf.dir, Held(tree, leaf)), ReadAs(layout, group.rows))
  <2>1. request.by \ Range(layout) = {} BY DEF Sweeping
  <2>2. CASE leaf \notin marked
    <3>1. Held(tree, leaf) = <<>> BY <1>1, <2>2 DEF Held
    <3>2. Read(leaf.dir, <<>>) = <<>> BY ReadEmpty
    <3>3. Cat(<<>>, ReadAs(layout, group.rows)) = ReadAs(layout, group.rows) BY <1>2, EmptyCat
    <3>4. Read(leaf.dir, c) = ReadAs(layout, group.rows)
      BY <2>1, <2>2 DEF Writes, Lays, ReadAs, Sweeping
    <3> QED BY <3>1, <3>2, <3>3, <3>4
  <2>3. CASE leaf \in marked BY <2>1, <2>3 DEF Writes, Lays, ReadAs
  <2> QED BY <2>2, <2>3
<1>7. <<>> \in Seq(Row) OBVIOUS
<1>8. Cat(<<>>, ReadAs(layout, done)) = ReadAs(layout, done) BY <1>3, EmptyCat
<1>9. Same(TableOf(PutIn(tree, leaf, c)), Cat(<<>>, ReadAs(layout, Cat(done, group.rows))))
  BY <1>1, <1>6, <1>7, <1>8, WriteAdds
<1>10. Cat(<<>>, ReadAs(layout, Cat(done, group.rows))) = ReadAs(layout, Cat(done, group.rows))
  BY <1>5, EmptyCat
<1>11. ASSUME NEW other \in DOMAIN PutIn(tree, leaf, c) \ (marked \cup {leaf})
       PROVE  PutIn(tree, leaf, c)[other] = <<>>
  BY <1>1 DEF PutIn
<1> QED BY <1>9, <1>10, <1>11

\* The next leaf of a keyed merge.
LEMMA UpsertedPut ==
    ASSUME NEW layout \in Seq(Schema), NEW request, NEW marked, NEW tree, NEW leaf, NEW group, NEW c,
           Writes(layout, request, marked, tree, leaf, group, c),
           NEW past \in Seq(Row), NEW done \in Seq(Row),
           Upserted(layout, request, past, tree, done)
    PROVE  Upserted(layout, request, past, PutIn(tree, leaf, c), Cat(done, group.rows))
<1> DEFINE a == ReadAs(layout, done)  b == ReadAs(layout, group.rows)
           T == TableOf(tree)  U == TableOf(PutIn(tree, leaf, c))
           key == request.by \cup Range(layout)
<1> SUFFICES ASSUME Keyed(layout, request), OneLeafIn(PutIn(tree, leaf, c), layout)
             PROVE  Same(U, Upsert(past, ReadAs(layout, Cat(done, group.rows)), key))
  BY DEF Upserted
<1>1. OneLeafIn(tree, layout) BY OneLeafBefore
<1>2. Same(T, Upsert(past, a, key)) BY <1>1 DEF Upserted
<1>3. Grown(Row, Read(leaf.dir, Held(tree, leaf)), b, key, Read(leaf.dir, c))
  BY DEF Writes, Lays, Keyed, ReadAs
<1>4. /\ leaf \in LeafNames /\ leaf.dir \in Full(layout) /\ GoodLeaves(tree)
      /\ GoodLeaves(PutIn(tree, leaf, c)) /\ c \in Seq(StoredRow(leaf.dir))
      /\ group.rows \in Seq(Row) /\ b \in Seq(At(layout, leaf.dir)) /\ b \in Seq(Row)
  BY WritesIs
<1>5. Same(U, Upsert(T, b, key)) BY <1>3, <1>4, PutUpserts
<1>6. T \in Seq(Row) BY <1>4, TableType
<1>7. a \in Seq(Row) BY ReadAsType
<1>8. ReadAs(layout, Cat(done, group.rows)) = Cat(a, b) BY <1>4, ReadAsCat
<1> HIDE DEF a, b, T, U, key
<1>9. Same(Upsert(T, b, key), Upsert(past, Cat(a, b), key)) BY <1>2, <1>4, <1>6, <1>7, UpsertTwice
<1> QED BY <1>5, <1>8, <1>9, SameTransitive

\* A named partition has no row of an unnamed one.
LEMMA UnnamedApart ==
    ASSUME NEW layout, NEW rows, NEW dir \in Named(layout, rows)
    PROVE  Unnamed(layout, rows) \cap At(layout, dir) = {}
BY DEF Unnamed, At

\* What is put in a leaf of a named partition stays there.
LEMMA StayedPut ==
    ASSUME NEW layout \in Seq(Schema), NEW request, NEW tree, GoodLeaves(tree), NEW leaf \in LeafNames,
           NEW c \in Seq(StoredRow(leaf.dir)), NEW rows, leaf.dir \in Full(layout),
           leaf.dir \in Named(layout, rows), NEW past \in Seq(Row),
           Stayed(layout, request, past, tree, rows)
    PROVE  Stayed(layout, request, past, PutIn(tree, leaf, c), rows)
<1>1. Unnamed(layout, rows) \cap At(layout, leaf.dir) = {} BY UnnamedApart
<1>2. Same(Only(TableOf(PutIn(tree, leaf, c)), Unnamed(layout, rows)),
           Only(TableOf(tree), Unnamed(layout, rows)))
  BY <1>1, PutStays
<1> QED BY <1>2, SameTransitive DEF Stayed

\* The next leaf of a merge by partition columns alone: the first write of a partition replaces it, the next ones add.
LEMMA ReplacedPut ==
    ASSUME NEW layout \in Seq(Schema), NEW request, NEW marked, NEW tree, NEW leaf, NEW group, NEW c,
           Writes(layout, request, marked, tree, leaf, group, c),
           NEW past \in Seq(Row), NEW done \in Seq(Row),
           Replaced(layout, request, past, marked, tree, done)
    PROVE  Replaced(layout, request, past, marked \cup {leaf}, PutIn(tree, leaf, c),
                    Cat(done, group.rows))
<1> DEFINE a == ReadAs(layout, done)  b == ReadAs(layout, group.rows)
           T == TableOf(tree)  U == TableOf(PutIn(tree, leaf, c))
           N == Unwritten(layout, marked)  M == Unwritten(layout, marked \cup {leaf})
           here == At(layout, leaf.dir)
<1> SUFFICES ASSUME request.kind = "overwrite", request.by # {}, ~Keyed(layout, request),
                    OneLeafIn(PutIn(tree, leaf, c), layout)
             PROVE  /\ Same(U, Cat(Only(past, M), ReadAs(layout, Cat(done, group.rows))))
                    /\ Range(ReadAs(layout, Cat(done, group.rows))) \cap M = {}
  BY DEF Replaced
<1>1. OneLeafIn(tree, layout) BY OneLeafBefore
<1>2. Same(T, Cat(Only(past, N), a)) /\ Range(a) \cap N = {} BY <1>1 DEF Replaced
<1>3. /\ leaf \in LeafNames /\ leaf.dir \in Full(layout) /\ GoodLeaves(tree)
      /\ GoodLeaves(PutIn(tree, leaf, c)) /\ c \in Seq(StoredRow(leaf.dir))
      /\ group.rows \in Seq(Row) /\ b \in Seq(here) /\ b \in Seq(Row)
  BY WritesIs
<1>4. T \in Seq(Row) BY <1>3, TableType
<1>5. a \in Seq(Row) BY ReadAsType
<1>6. ReadAs(layout, Cat(done, group.rows)) = Cat(a, b) BY <1>3, ReadAsCat
<1>7. M = N \cap (Row \ here) BY DEF Unwritten, At
<1>8. \A x \in Range(b) : x \in here BY <1>3, ElementsType
<1>9. Range(Cat(a, b)) \cap M = {}
  <2>1. Range(Cat(a, b)) = Range(a) \cup Range(b) BY <1>3, <1>5, ElementsCat
  <2> QED BY <1>2, <1>7, <1>8, <2>1
<1>10. Only(past, N) \in Seq(Row) /\ Only(past, M) \in Seq(Row) BY OnlyType
<1>11. CASE leaf \in marked
  <2>1. Read(leaf.dir, c) = Cat(Read(leaf.dir, Held(tree, leaf)), b)
    BY <1>11 DEF Writes, Lays, Keyed, ReadAs
  <2>2. marked \cup {leaf} = marked BY <1>11
  <2>3. M = N BY <2>2
  <2>4. Same(U, Cat(Only(past, N), ReadAs(layout, Cat(done, group.rows))))
    BY <2>1, <1>2, <1>10, WriteAdds
  <2> QED BY <2>3, <2>4, <1>6, <1>9
<1>12. CASE leaf \notin marked
  <2>1. Read(leaf.dir, c) = b BY <1>12 DEF Writes, Lays, Keyed, ReadAs
  <2>2. Same(U, Cat(Only(T, Row \ here), b)) BY <1>3, <2>1, PutReplaces
  <2>3. ASSUME NEW other \in marked PROVE other.dir # leaf.dir
    <3>1. other \in DOMAIN PutIn(tree, leaf, c) /\ leaf \in DOMAIN PutIn(tree, leaf, c)
      BY DEF Writes, PutIn
    <3> QED BY <3>1, <1>12 DEF OneLeafIn
  <2>4. here \subseteq N BY <2>3 DEF Unwritten, At
  <2>5. Range(a) \cap (Row \ here) = Range(a) \cap Row BY <1>2, <2>4
  <2>6. Range(a) \subseteq Row
    <3> HIDE DEF a
    <3> QED BY <1>5, ElementsType
  <2> HIDE DEF a, b, T, U, N, M, here
  <2>7. Only(a, Row \ here) = a
    <3>1. Only(a, Row \ here) = Only(a, Row) BY <2>5, OnlyAlike
    <3>2. Only(a, Row) = a BY <1>5, <2>6, OnlyAll
    <3> QED BY <3>1, <3>2
  <2>8. Only(Only(past, N), Row \ here) = Only(past, M)
    <3>1. Only(Only(past, N), Row \ here) = Only(past, N \cap (Row \ here)) BY OnlyTwice
    <3> QED BY <3>1, <1>7
  <2>9. Only(Cat(Only(past, N), a), Row \ here)
          = Cat(Only(Only(past, N), Row \ here), Only(a, Row \ here))
    BY <1>5, <1>10, OnlyCat
  <2>10. Only(Cat(Only(past, N), a), Row \ here) = Cat(Only(past, M), a) BY <2>7, <2>8, <2>9
  <2>11. Cat(Only(past, N), a) \in Seq(Row) /\ Cat(Only(past, M), a) \in Seq(Row)
    BY <1>5, <1>10, CatType
  <2>12. Same(Only(T, Row \ here), Cat(Only(past, M), a))
    BY <1>2, <1>4, <2>10, <2>11, SameOnly
  <2>13. Only(T, Row \ here) \in Seq(Row) BY <1>4, OnlyType
  <2>14. Same(b, b) BY SameReflexive
  <2>15. Same(Cat(Only(T, Row \ here), b), Cat(Cat(Only(past, M), a), b))
    BY <1>3, <2>11, <2>12, <2>13, <2>14, SameCat
  <2>16. Cat(Cat(Only(past, M), a), b) = Cat(Only(past, M), Cat(a, b))
    BY <1>3, <1>5, <1>10, CatAssociative
  <2>17. Same(U, Cat(Only(past, M), Cat(a, b))) BY <2>2, <2>15, <2>16, SameTransitive
  <2> QED BY <2>17, <1>6, <1>9
<1> QED BY <1>11, <1>12

-----------------------------------------------------------------------------
(* The properties, of any tree, call and past.                             *)

Calls ==
    [kind : {"append", "overwrite"}, by : SUBSET Schema, declared : Seq(Schema),
     batches : Seq(Seq(Row))]
All(request) == FlattenSeq(request.batches)

RowsOf(tree) ==
    LET order == SetToSeq(DOMAIN tree) IN
    FlattenSeq([n \in DOMAIN order |->
        [m \in DOMAIN tree[order[n]] |-> With(tree[order[n]][m], order[n].dir)]])
ArrivedAs(layout, request) ==
    LET rows == FlattenSeq(request.batches) IN [n \in DOMAIN rows |-> Reads(layout, rows[n])]
Rest(layout, new, rows) ==
    LET named == {DirOf(row, layout) : row \in Range(new)}
    IN Only(rows, {row \in Range(rows) : DirOf(row, layout) \notin named})

\* FailureKeepsRows.
Keeps(layout, tree, request, marked, past, end) ==
    /\ (request.kind = "overwrite" /\ request.by = {} /\ marked # {}) =>
         ToBag(RowsOf(tree)) \sqsubseteq ToBag(ArrivedAs(layout, request))
    /\ (request.kind = "append" /\ request.by = {} /\ end \notin {"emptied", "refused"}) =>
         /\ ToBag(past) \sqsubseteq ToBag(RowsOf(tree))
         /\ ToBag(RowsOf(tree)) \sqsubseteq ToBag(Cat(past, ArrivedAs(layout, request)))
    /\ request.by # {} =>
         SameRows(Rest(layout, ArrivedAs(layout, request), RowsOf(tree)),
                  Rest(layout, ArrivedAs(layout, request), past))

\* RowsOfOneFile.
PromisedAs(layout, request, past) ==
    LET new == ArrivedAs(layout, request) IN
    IF request.by = {}
    THEN IF request.kind = "append" THEN Cat(past, new) ELSE new
    ELSE IF request.by \ Range(layout) # {} THEN Upsert(past, new, request.by \cup Range(layout))
    ELSE IF request.kind = "append" THEN Cat(past, new) ELSE Cat(Rest(layout, new, past), new)
OneFile(layout, tree, request, past, end) ==
    (end = "ok" /\ (request.by # {} => OneLeafIn(tree, layout))) =>
        SameRows(RowsOf(tree), PromisedAs(layout, request, past))

LEMMA RowsOfIs ==
    ASSUME NEW tree, GoodLeaves(tree) PROVE RowsOf(tree) = TableOf(tree)
<1> DEFINE order == SetToSeq(DOMAIN tree)
<1>1. order \in Seq(DOMAIN tree) BY ListedOnce DEF GoodLeaves
<1>2. ASSUME NEW leaf \in DOMAIN tree
      PROVE  Gives(tree)[leaf] = [m \in DOMAIN tree[leaf] |-> With(tree[leaf][m], leaf.dir)]
  <2>1. tree[leaf] \in Seq(StoredRow(leaf.dir)) BY DEF GoodLeaves
  <2>2. \A m \in DOMAIN tree[leaf] : tree[leaf][m] \in StoredRow(leaf.dir) BY <2>1
  <2> QED BY <2>2 DEF Gives, Read, Each, Restoring
<1>3. \A n \in DOMAIN order : order[n] \in DOMAIN tree BY <1>1
<1>4. Each(Gives(tree), order)
        = [n \in DOMAIN order |->
              [m \in DOMAIN tree[order[n]] |-> With(tree[order[n]][m], order[n].dir)]]
  <2> HIDE DEF order
  <2> QED BY <1>2, <1>3 DEF Each
<1> QED BY <1>4 DEF RowsOf, TableOf, Over

LEMMA AllType == ASSUME NEW request \in Calls PROVE All(request) \in Seq(Row)
BY FlattenType DEF All, Calls

LEMMA ArrivedIs ==
    ASSUME NEW layout \in Seq(Schema), NEW request \in Calls
    PROVE  ArrivedAs(layout, request) = ReadAs(layout, All(request))
             /\ ArrivedAs(layout, request) \in Seq(Row)
<1> DEFINE rows == FlattenSeq(request.batches)
<1>1. rows \in Seq(Row) BY AllType DEF All
<1>2. \A n \in DOMAIN rows : rows[n] \in Row
  <2> HIDE DEF rows
  <2> QED BY <1>1
<1>3. ArrivedAs(layout, request) = ReadAs(layout, rows)
  <2>1. ArrivedAs(layout, request) = [n \in DOMAIN rows |-> Reads(layout, rows[n])] BY DEF ArrivedAs
  <2> HIDE DEF rows
  <2> QED BY <1>2, <2>1 DEF ReadAs, Each, Reading
<1> HIDE DEF rows
<1>4. ReadAs(layout, rows) \in Seq(Row) BY <1>1, ReadAsType
<1> QED BY <1>3, <1>4 DEF All, rows

\* What NotNamed keeps, by partition.
LEMMA RestIs ==
    ASSUME NEW layout, NEW new, NEW rows \in Seq(Row)
    PROVE  Rest(layout, new, rows) = Only(rows, Unnamed(layout, new))
<1> DEFINE S == {row \in Range(rows) : DirOf(row, layout) \notin Named(layout, new)}
<1>1. Range(rows) \subseteq Row BY ElementsType
<1>2. Range(rows) \cap S = Range(rows) \cap Unnamed(layout, new) BY <1>1 DEF Unnamed
<1>3. Rest(layout, new, rows) = Only(rows, S) BY DEF Rest, Named
<1> HIDE DEF S
<1> QED BY <1>2, <1>3, OnlyAlike

LEMMA UnnamedAsRead ==
    ASSUME NEW layout \in Seq(Schema), NEW rows \in Seq(Row)
    PROVE  Unnamed(layout, ReadAs(layout, rows)) = Unnamed(layout, rows)
BY NamedAsRead DEF Unnamed

\* What is stored of a call under way, or of one that failed, is what may be.
LEMMA CallKeeps ==
    ASSUME NEW layout \in Seq(Schema), NEW stored \in Seq(Schema), NEW tree, GoodLeaves(tree),
           NEW request \in Calls, NEW marked, NEW past \in Seq(Row), NEW end, NEW done \in Seq(Row),
           stored # layout => marked = {} /\ (Sweeping(request) \/ Same(TableOf(tree), past)),
           Stayed(layout, request, past, tree, All(request)),
           end \notin {"emptied", "refused"} => Appended(layout, request, past, tree, done),
           (Sweeping(request) /\ marked # {}) =>
               Within(TableOf(tree), ReadAs(layout, All(request))),
           Within(ReadAs(layout, done), ReadAs(layout, All(request)))
    PROVE  Keeps(stored, tree, request, marked, past, end)
<1> DEFINE T == TableOf(tree)  new == ArrivedAs(stored, request)
<1>1. RowsOf(tree) = T /\ T \in Seq(Row) BY RowsOfIs, TableType
<1>2. All(request) \in Seq(Row) BY AllType
<1>3. new = ReadAs(stored, All(request)) /\ new \in Seq(Row) BY ArrivedIs
<1>4. ReadAs(layout, All(request)) \in Seq(Row) /\ ReadAs(layout, done) \in Seq(Row)
  BY <1>2, ReadAsType
<1>5. ASSUME request.kind = "overwrite", request.by = {}, marked # {}
      PROVE  ToBag(T) \sqsubseteq ToBag(new)
  <2>1. Within(T, ReadAs(layout, All(request))) BY <1>5 DEF Sweeping
  <2>2. stored = layout BY <1>5
  <2>3. Within(T, new) BY <2>1, <2>2, <1>3
  <2> HIDE DEF T, new
  <2> QED BY <2>3, <1>1, <1>3, WithinIsBag
<1>6. ASSUME request.kind = "append", request.by = {}, end \notin {"emptied", "refused"}
      PROVE  ToBag(past) \sqsubseteq ToBag(T) /\ ToBag(T) \sqsubseteq ToBag(Cat(past, new))
  <2>1. Within(past, T) /\ Within(T, Cat(past, new))
    <3>1. CASE stored = layout
      <4> DEFINE some == ReadAs(layout, done)
      <4>1. Same(T, Cat(past, some)) BY <1>6 DEF Appended, Keyed
      <4>2. Within(some, new) BY <3>1, <1>3
      <4> HIDE DEF T, new, some
      <4>3. some \in Seq(Row) BY <1>4 DEF some
      <4>4. Cat(past, some) \in Seq(Row) /\ Cat(past, new) \in Seq(Row) BY <1>3, <4>3, CatType
      <4>5. Same(Cat(past, some), T) BY <4>1, SameSymmetric
      <4>6. Within(Cat(past, some), T) /\ Within(T, Cat(past, some))
        BY <4>1, <4>4, <4>5, <1>1, WithinReflexive
      <4>7. Within(past, Cat(past, some)) /\ Within(Cat(past, some), Cat(past, new))
        BY <4>2, <4>3, <1>3, WithinCat
      <4>8. Within(past, T) BY <4>4, <4>6, <4>7, <1>1, WithinTransitive
      <4>9. Within(T, Cat(past, new)) BY <4>4, <4>6, <4>7, <1>1, WithinTransitive
      <4> QED BY <4>8, <4>9
    <3>2. CASE stored # layout
      <4>1. Same(T, past) BY <1>6, <3>2 DEF Sweeping
      <4> HIDE DEF T, new
      <4>2. Same(past, T) BY <4>1, SameSymmetric
      <4>3. Within(past, T) /\ Within(T, past) BY <4>1, <4>2, <1>1, WithinReflexive
      <4>4. Within(new, new) BY <1>3, SameReflexive, WithinReflexive
      <4>5. Within(past, Cat(past, new)) BY <4>4, <1>3, WithinCat
      <4>6. Cat(past, new) \in Seq(Row) BY <1>3, CatType
      <4>7. Within(T, Cat(past, new)) BY <4>3, <4>5, <4>6, <1>1, WithinTransitive
      <4> QED BY <4>3, <4>7
    <3> QED BY <3>1, <3>2
  <2> HIDE DEF T, new
  <2>2. Cat(past, new) \in Seq(Row) BY <1>3, CatType
  <2> QED BY <2>1, <2>2, <1>1, WithinIsBag
<1>7. ASSUME request.by # {} PROVE SameRows(Rest(stored, new, T), Rest(stored, new, past))
  <2> DEFINE S == Unnamed(stored, new)
  <2>1. Same(Only(T, S), Only(past, S))
    <3>1. CASE stored = layout
      <4>1. S = Unnamed(layout, All(request)) BY <3>1, <1>2, <1>3, UnnamedAsRead
      <4>2. Same(Only(T, Unnamed(layout, All(request))), Only(past, Unnamed(layout, All(request))))
        BY <1>7 DEF Stayed
      <4> QED BY <4>1, <4>2
    <3>2. CASE stored # layout
      <4>1. Same(T, past) BY <1>7, <3>2 DEF Sweeping
      <4> HIDE DEF T, S
      <4> QED BY <4>1, <1>1, SameOnly
    <3> QED BY <3>1, <3>2
  <2>2. Rest(stored, new, past) = Only(past, S) BY RestIs
  <2> HIDE DEF T, S, new
  <2>3. Rest(stored, new, T) = Only(T, S)
    <3>1. Rest(stored, new, T) = Only(T, Unnamed(stored, new)) BY <1>1, RestIs
    <3> QED BY <3>1 DEF S
  <2>4. Only(T, S) \in Seq(Row) /\ Only(past, S) \in Seq(Row) BY <1>1, OnlyType
  <2> QED BY <2>1, <2>2, <2>3, <2>4, SameIsSameRows
<1> HIDE DEF T, new
<1> QED BY <1>1, <1>5, <1>6, <1>7 DEF Keeps, new

\* A call that is done has made what one file would hold.
LEMMA CallKeepsPromise ==
    ASSUME NEW layout \in Seq(Schema), NEW stored \in Seq(Schema), stored \in {<<>>, layout},
           NEW tree, GoodLeaves(tree), NEW request \in Calls, NEW marked, NEW past \in Seq(Row),
           NEW done \in Seq(Row), Progress(layout, All(request), done, <<>>, <<>>),
           stored # layout => done = <<>> /\ (Sweeping(request) \/ Same(TableOf(tree), past)),
           \A leaf \in marked : leaf.dir \in Named(layout, All(request)),
           Appended(layout, request, past, tree, done),
           Overwritten(layout, request, marked, tree, done),
           Replaced(layout, request, past, marked, tree, done),
           Upserted(layout, request, past, tree, done), NEW end
    PROVE  OneFile(stored, tree, request, past, end)
<1> DEFINE T == TableOf(tree)  new == ArrivedAs(stored, request)  some == ReadAs(layout, done)
           promised == PromisedAs(stored, request, past)
<1> SUFFICES ASSUME request.by # {} => OneLeafIn(tree, stored) PROVE SameRows(T, promised)
  BY RowsOfIs DEF OneFile
<1>1. T \in Seq(Row) BY TableType
<1>2. All(request) \in Seq(Row) BY AllType
<1>3. new = ReadAs(stored, All(request)) /\ new \in Seq(Row) BY ArrivedIs
<1>4. some \in Seq(Row) BY ReadAsType
<1>5. Same(done, All(request)) BY <1>2, AllDone
<1>6. request.kind \in {"append", "overwrite"} /\ request.by \in SUBSET Schema BY DEF Calls
<1>7. Cat(past, new) \in Seq(Row) BY <1>3, CatType
<1>8. CASE stored = layout
  <2>1. Same(some, new)
    <3>1. Same(ReadAs(layout, done), ReadAs(layout, All(request))) BY <1>2, <1>5, ReadAsSame
    <3> QED BY <3>1, <1>3, <1>8
  <2>2. ASSUME Same(T, Cat(past, some)) PROVE SameRows(T, Cat(past, new))
    <3> HIDE DEF T, new, some
    <3>1. Same(past, past) BY SameReflexive
    <3>2. Same(Cat(past, some), Cat(past, new)) BY <2>1, <3>1, <1>3, <1>4, SameCat
    <3>3. Same(T, Cat(past, new)) BY <2>2, <3>2, SameTransitive
    <3> QED BY <3>3, <1>1, <1>7, SameIsSameRows
  <2>3. CASE request.kind = "append" /\ ~Keyed(layout, request)
    <3>1. Same(T, Cat(past, some)) BY <2>3 DEF Appended
    <3>2. promised = Cat(past, new) BY <2>3, <1>8 DEF PromisedAs, Keyed
    <3> QED BY <3>1, <3>2, <2>2
  <2>4. CASE Sweeping(request)
    <3>1. Same(T, some) BY <2>4 DEF Overwritten
    <3>2. promised = new BY <2>4 DEF PromisedAs, Sweeping
    <3> HIDE DEF T, new, some, promised
    <3>3. Same(T, new) BY <2>1, <3>1, SameTransitive
    <3> QED BY <3>2, <3>3, <1>1, <1>3, SameIsSameRows
  <2>5. CASE Keyed(layout, request)
    <3> DEFINE key == request.by \cup Range(layout)  all == ReadAs(layout, All(request))
    <3>1. request.by # {} BY <2>5 DEF Keyed
    <3>2. Same(T, Upsert(past, some, key)) BY <2>5, <3>1, <1>8 DEF Upserted
    <3>3. \A dir \in Full(layout) : Only(done, At(layout, dir)) = Only(All(request), At(layout, dir))
      BY <1>2, AllDone
    <3>4. Same(Upsert(past, some, key), Upsert(past, all, key)) BY <1>2, <3>3, UpsertsAlike
    <3>5. promised = Upsert(past, all, key) BY <2>5, <3>1, <1>3, <1>8 DEF PromisedAs, Keyed
    <3>6. all \in Seq(Row) BY <1>2, ReadAsType
    <3> HIDE DEF T, new, some, promised, key, all
    <3>7. Same(T, promised) BY <3>2, <3>4, <3>5, SameTransitive
    <3>8. promised \in Seq(Row) BY <3>5, <3>6, UpsertType
    <3> QED BY <3>7, <3>8, <1>1, SameIsSameRows
  <2>6. CASE request.kind = "overwrite" /\ request.by # {} /\ ~Keyed(layout, request)
    <3> DEFINE N == Unwritten(layout, marked)
    <3>1. Same(T, Cat(Only(past, N), some)) /\ Range(some) \cap N = {}
      BY <2>6, <1>8 DEF Replaced
    <3>2. promised = Cat(Rest(stored, new, past), new) BY <2>6, <1>8 DEF PromisedAs, Keyed
    <3>3. Rest(stored, new, past) = Only(past, Unnamed(stored, new)) BY RestIs
    <3>4. Unnamed(stored, new) = Unnamed(layout, All(request)) BY <1>2, <1>3, <1>8, UnnamedAsRead
    <3>5. ASSUME NEW dir \in Named(layout, All(request)) PROVE \E leaf \in marked : leaf.dir = dir
      <4>1. dir \in Named(layout, new) BY <1>2, <1>3, <1>8, NamedAsRead
      <4>2. PICK x \in Range(new) : dir = DirOf(x, layout) BY <4>1 DEF Named
      <4>3. x \in Range(some) /\ x \in Row
        <5> HIDE DEF new, some
        <5> QED BY <2>1, <1>3, <1>4, SameElements, ElementsType
      <4>4. x \notin N BY <4>3, <3>1
      <4> QED BY <4>2, <4>3, <4>4 DEF Unwritten
    <3>6. N = Unnamed(layout, All(request)) BY <3>5 DEF Unwritten, Unnamed
    <3>7. promised = Cat(Only(past, N), new) BY <3>2, <3>3, <3>4, <3>6
    <3> HIDE DEF T, new, some, promised, N
    <3>8. Only(past, N) \in Seq(Row) BY OnlyType
    <3>9. Same(Only(past, N), Only(past, N)) BY SameReflexive
    <3>10. Same(Cat(Only(past, N), some), Cat(Only(past, N), new))
      BY <1>3, <1>4, <2>1, <3>8, <3>9, SameCat
    <3>11. Same(T, promised) BY <3>1, <3>7, <3>10, SameTransitive
    <3>12. promised \in Seq(Row) BY <1>3, <3>7, <3>8, CatType
    <3> QED BY <3>11, <3>12, <1>1, SameIsSameRows
  <2> QED BY <2>3, <2>4, <2>5, <2>6, <1>6 DEF Sweeping
<1>9. CASE stored # layout
  <2>1. done = <<>> /\ stored = <<>> BY <1>9
  <2>2. Same(<<>>, All(request)) BY <2>1, <1>5
  <2>3. Same(some, ReadAs(layout, All(request))) BY <1>2, <1>5, ReadAsSame
  <2>4. Range(All(request)) = {}
    <3>1. \A x \in Range(All(request)) : x \in Range(<<>>)
      <4>1. <<>> \in Seq(Row) OBVIOUS
      <4> QED BY <1>2, <2>2, <4>1, SameElements
    <3> QED BY <3>1, ElementsEmpty
  <2>5. All(request) = <<>> BY <1>2, <2>4, FirstElement
  <2>6. new = <<>> BY <2>5, <1>3, ReadAsNone
  <2>7. CASE Sweeping(request)
    <3>1. Same(T, some) BY <2>7 DEF Overwritten
    <3>2. some = <<>> BY <2>1, ReadAsNone
    <3>3. promised = <<>> BY <2>6, <2>7 DEF PromisedAs, Sweeping
    <3> HIDE DEF T, promised, some
    <3>4. Same(T, promised) /\ promised \in Seq(Row) BY <3>1, <3>2, <3>3
    <3> QED BY <3>4, <1>1, SameIsSameRows
  <2>8. CASE ~Sweeping(request)
    <3>1. Same(T, past) BY <1>9, <2>8
    <3>2. promised = IF request.by = {} THEN Cat(past, <<>>)
                     ELSE Upsert(past, <<>>, request.by \cup Range(stored))
      BY <2>1, <2>6, <2>8, <1>6, ElementsEmpty DEF PromisedAs, Sweeping
    <3>3. Same(past, promised) /\ promised \in Seq(Row)
      <4>1. CASE request.by = {}
        <5>1. promised = past BY <3>2, <4>1, CatEmpty
        <5> QED BY <5>1, SameReflexive
      <4>2. CASE request.by # {}
        <5> DEFINE by == request.by \cup Range(stored)
        <5>1. promised = Upsert(past, <<>>, by) BY <3>2, <4>2
        <5> HIDE DEF by, promised
        <5>2. <<>> \in Seq(Row) OBVIOUS
        <5>3. Same(past, Upsert(past, <<>>, by)) BY UpsertNothing
        <5>4. Upsert(past, <<>>, by) \in Seq(Row) BY <5>2, UpsertType
        <5> QED BY <5>1, <5>3, <5>4
      <4> QED BY <4>1, <4>2
    <3> HIDE DEF T, promised
    <3>4. Same(T, promised) BY <3>1, <3>3, SameTransitive
    <3> QED BY <3>3, <3>4, <1>1, SameIsSameRows
  <2> QED BY <2>7, <2>8
<1> QED BY <1>8, <1>9

-----------------------------------------------------------------------------
(* The inductive invariant.                                                *)

Laid(layout, done) ==
    /\ Layout(call) = {layout}
    /\ StoredColumns \in {<<>>, layout}
    /\ StoredColumns # layout =>
         done = <<>> /\ written = {} /\ (Sweeping(call) \/ Same(TableOf(leaves), before))

\* The call has come as far as `done' of its rows.
Doing(layout, done) ==
    /\ groups \in Seq(Groups(layout))
    /\ \A group \in Range(groups) : group.dir \in Named(layout, All(call))
    /\ \A batch \in Range(batches) : Range(batch) \subseteq Range(All(call))
    /\ \A leaf \in written : leaf.dir \in Named(layout, All(call))
    /\ Progress(layout, All(call), done, groups, batches)

\* And the table holds what that makes of it.
Made(layout, done) ==
    /\ Appended(layout, call, before, leaves, done)
    /\ Replaced(layout, call, before, written, leaves, done)
    /\ Upserted(layout, call, before, leaves, done)
    /\ Stayed(layout, call, before, leaves, All(call))
    /\ phase = "writing" => Overwritten(layout, call, written, leaves, done)

\* An overwrite empties every leaf before it writes one.
Clearing(done) ==
    /\ ~Sweeping(call) => toClear = {}
    /\ phase = "clearing" =>
         /\ done = <<>> /\ groups = <<>> /\ written = {}
         /\ Sweeping(call) => \A leaf \in DOMAIN leaves \ toClear : leaves[leaf] = <<>>

Working(layout, done) ==
    Laid(layout, done) /\ Doing(layout, done) /\ Made(layout, done) /\ Clearing(done)

Tree ==
    /\ \E layout \in Seq(Schema) : Spells(dirs, layout)
    /\ GoodLeaves(leaves)
    /\ \A leaf \in DOMAIN leaves : Chain(leaf.dir) \subseteq dirs

Typed ==
    /\ call \in Calls /\ before \in Seq(Row) /\ batches \in Seq(Seq(Row))
    /\ toClear \subseteq DOMAIN leaves /\ written \subseteq DOMAIN leaves
    /\ phase \in {"idle", "clearing", "writing"}
    /\ ended \in {"none", "ok", "failed", "emptied", "refused"}
    /\ phase # "idle" => ended = "none"
    /\ calls \in 0..MaxCalls /\ faults \in 0..MaxFaults

\* What a call left holds until the next one begins.
Settled ==
    /\ Keeps(StoredColumns, leaves, call, written, before, ended)
    /\ OneFile(StoredColumns, leaves, call, before, ended)

Underway ==
    \E layout \in Seq(Schema) : \E done \in Seq(Row) : Working(layout, done)

FolderInv ==
    /\ Tree
    /\ Typed
    /\ phase = "idle" => Settled
    /\ phase # "idle" => Underway

LEMMA StoredIs == StoredColumns = LayoutOf(dirs)
BY DEF StoredColumns, LayoutOf

LEMMA TableRowsAre == TableRows = RowsOf(leaves)
BY DEF TableRows, RowsOf

LEMMA CallsAre == Requests \subseteq Calls
BY FolderAssumption DEF Calls, Row

\* A tree spells its layout.
LEMMA TreeSpells ==
    ASSUME Tree PROVE StoredColumns \in Seq(Schema) /\ Spells(dirs, StoredColumns)
<1>1. PICK layout \in Seq(Schema) : Spells(dirs, layout) BY DEF Tree
<1>2. LayoutOf(dirs) = layout BY <1>1, SpellsIs
<1> QED BY <1>1, <1>2, StoredIs

\* Whatever becomes of a call under way, what is stored is what may be.
LEMMA WorkingKeeps ==
    ASSUME FolderInv, NEW layout \in Seq(Schema), NEW done \in Seq(Row), Working(layout, done),
           phase # "idle", NEW end
    PROVE  Keeps(StoredColumns, leaves, call, written, before, end)
<1>1. GoodLeaves(leaves) /\ call \in Calls /\ before \in Seq(Row) /\ batches \in Seq(Seq(Row))
  BY DEF FolderInv, Tree, Typed
<1>2. StoredColumns \in Seq(Schema) BY TreeSpells DEF FolderInv
<1>3. All(call) \in Seq(Row) BY <1>1, AllType
<1>4. Within(ReadAs(layout, done), ReadAs(layout, All(call)))
  <2>1. groups \in Seq(Groups(layout)) /\ Progress(layout, All(call), done, groups, batches)
    BY DEF Working, Doing
  <2> QED BY <1>1, <1>3, <2>1, DoneWithin
<1>5. ASSUME Sweeping(call), written # {}
      PROVE  Within(TableOf(leaves), ReadAs(layout, All(call)))
  <2>1. phase = "writing" BY <1>5 DEF Working, Clearing, FolderInv, Typed
  <2>2. Same(TableOf(leaves), ReadAs(layout, done))
    BY <1>5, <2>1 DEF Working, Made, Overwritten
  <2>3. TableOf(leaves) \in Seq(Row) /\ ReadAs(layout, done) \in Seq(Row)
          /\ ReadAs(layout, All(call)) \in Seq(Row)
    BY <1>1, <1>3, TableType, ReadAsType
  <2>4. Within(TableOf(leaves), ReadAs(layout, done)) BY <2>2, <2>3, WithinReflexive
  <2> QED BY <2>3, <2>4, <1>4, WithinTransitive
<1>6. StoredColumns # layout =>
        written = {} /\ (Sweeping(call) \/ Same(TableOf(leaves), before))
  BY DEF Working, Laid
<1>7. Stayed(layout, call, before, leaves, All(call)) /\ Appended(layout, call, before, leaves, done)
  BY DEF Working, Made
<1> QED BY <1>1, <1>2, <1>4, <1>5, <1>6, <1>7, CallKeeps

\* The promises of a call, as the properties state them.
LEMMA KeepsBoth ==
    FailureKeepsRows <=> Keeps(StoredColumns, leaves, call, written, before, ended)
<1>1. Arrived = ArrivedAs(StoredColumns, call) BY DEF Arrived, AsRead, ArrivedAs, Reads
<1>2. ASSUME NEW rows PROVE NotNamed(rows) = Rest(StoredColumns, ArrivedAs(StoredColumns, call), rows)
  BY <1>1 DEF NotNamed, Rest
<1> HIDE DEF ArrivedAs
<1> QED BY <1>1, <1>2, TableRowsAre
    DEF FailureKeepsRows, OverwriteNeverMixes, AppendKeepsEveryRow, MergeStaysInItsPartitions,
        Merging, Keeps, Cat

LEMMA OneFileBoth ==
    RowsOfOneFile <=> OneFile(StoredColumns, leaves, call, before, ended)
<1>1. Arrived = ArrivedAs(StoredColumns, call) BY DEF Arrived, AsRead, ArrivedAs, Reads
<1>2. NotNamed(before) = Rest(StoredColumns, ArrivedAs(StoredColumns, call), before)
  BY <1>1 DEF NotNamed, Rest
<1>3. OneLeafEach <=> OneLeafIn(leaves, StoredColumns) BY DEF OneLeafEach, OneLeafIn
<1>4. Promised = PromisedAs(StoredColumns, call, before)
  BY <1>1, <1>2 DEF Promised, PromisedAs, Merging, KeyedInLeaves, Cat
<1> QED BY <1>3, <1>4, TableRowsAre DEF RowsOfOneFile, OneFile, Merging

\* The invariant says what the properties say.
LEMMA InvKeeps == ASSUME FolderInv PROVE FailureKeepsRows
<1>1. CASE phase = "idle" BY <1>1, KeepsBoth DEF FolderInv, Settled
<1>2. CASE phase # "idle"
  <2>1. PICK layout \in Seq(Schema) : \E done \in Seq(Row) : Working(layout, done)
    BY <1>2 DEF FolderInv, Underway
  <2>2. PICK done \in Seq(Row) : Working(layout, done) BY <2>1
  <2> QED BY <1>2, <2>2, WorkingKeeps, KeepsBoth
<1> QED BY <1>1, <1>2

\* The invariant has the promise of a call that succeeded.
LEMMA InvOneTable == ASSUME FolderInv PROVE FolderIsOneTable
<1>1. RowsOfOneFile
  <2>1. CASE phase = "idle" BY <2>1, OneFileBoth DEF FolderInv, Settled
  <2>2. CASE phase # "idle"
    <3>1. ended = "none" BY <2>2 DEF FolderInv, Typed
    <3> QED BY <3>1 DEF RowsOfOneFile
  <2> QED BY <2>1, <2>2
<1>2. OneLayout
  <2>1. Spells(dirs, StoredColumns) BY TreeSpells DEF FolderInv
  <2> QED BY <2>1 DEF Spells, OneLayout
<1>3. ASSUME NEW leaf \in DOMAIN leaves, NEW row \in Range(leaves[leaf])
      PROVE  Spelled(leaf.dir) \cap DOMAIN row = {}
  <2>1. leaves[leaf] \in Seq(StoredRow(leaf.dir)) BY DEF FolderInv, Tree, GoodLeaves
  <2>2. row \in StoredRow(leaf.dir) BY <2>1, ElementsType
  <2> QED BY <2>2 DEF StoredRow
<1>4. FolderTypeOK BY <1>3 DEF FolderInv, Tree, Typed, FolderTypeOK
<1> QED BY <1>1, <1>2, <1>4 DEF FolderIsOneTable, TreeHolds

-----------------------------------------------------------------------------
(* The invariant holds first and is kept by every step.                    *)

LayoutAs(stored, request) ==
    IF stored = <<>> THEN {request.declared}
    ELSE IF request.declared \in {<<>>, stored} THEN {stored}
    ELSE {}

\* The layout depends on the tree only by the columns it spells.
LEMMA LayoutIs == ASSUME NEW request PROVE Layout(request) = LayoutAs(StoredColumns, request)
BY DEF Layout, LayoutAs

\* A call that is not refused has one layout, the tree's if it has one.
LEMMA LayoutOne ==
    ASSUME NEW stored \in Seq(Schema), NEW request \in Calls, LayoutAs(stored, request) # {}
    PROVE  \E layout \in Seq(Schema) :
               LayoutAs(stored, request) = {layout} /\ stored \in {<<>>, layout}
<1>1. request.declared \in Seq(Schema) BY DEF Calls
<1>2. CASE stored = <<>> BY <1>1, <1>2 DEF LayoutAs
<1>3. CASE stored # <<>> BY <1>3 DEF LayoutAs
<1> QED BY <1>2, <1>3

\* A call that has written nothing has changed nothing.
LEMMA FreshCall ==
    ASSUME NEW layout \in Seq(Schema), NEW request, NEW tree, GoodLeaves(tree)
    PROVE  /\ Appended(layout, request, TableOf(tree), tree, <<>>)
           /\ Replaced(layout, request, TableOf(tree), {}, tree, <<>>)
           /\ Upserted(layout, request, TableOf(tree), tree, <<>>)
           /\ \A rows : Stayed(layout, request, TableOf(tree), tree, rows)
<1> DEFINE T == TableOf(tree)  key == request.by \cup Range(layout)
<1>1. T \in Seq(Row) BY TableType
<1>2. ReadAs(layout, <<>>) = <<>> BY ReadAsNone
<1>3. Same(T, T) BY SameReflexive
<1>4. Cat(T, <<>>) = T
  <2> HIDE DEF T
  <2> QED BY <1>1, CatEmpty
<1>5. Appended(layout, request, T, tree, <<>>) BY <1>2, <1>3, <1>4 DEF Appended
<1>6. Replaced(layout, request, T, {}, tree, <<>>)
  <2>1. Unwritten(layout, {}) = Row BY DEF Unwritten
  <2>2. Only(T, Row) = T
    <3> HIDE DEF T
    <3> QED BY <1>1, ElementsType, OnlyAll
  <2>3. Range(<<>>) = {} BY ElementsEmpty
  <2> QED BY <1>2, <1>3, <1>4, <2>1, <2>2, <2>3 DEF Replaced
<1>7. Same(T, Upsert(T, <<>>, key))
  <2> HIDE DEF T, key
  <2> QED BY <1>1, UpsertNothing
<1>8. Upserted(layout, request, T, tree, <<>>) BY <1>2, <1>7 DEF Upserted
<1>9. \A rows : Stayed(layout, request, T, tree, rows) BY SameReflexive DEF Stayed
<1> QED BY <1>5, <1>6, <1>8, <1>9

\* A call that has done nothing keeps what it must.
LEMMA FreshKeeps ==
    ASSUME NEW stored \in Seq(Schema), NEW request \in Calls, NEW tree, GoodLeaves(tree), NEW end
    PROVE  Keeps(stored, tree, request, {}, TableOf(tree), end)
<1>1. TableOf(tree) \in Seq(Row) BY TableType
<1>2. All(request) \in Seq(Row) BY AllType
<1>3. ReadAs(stored, All(request)) \in Seq(Row) BY <1>2, ReadAsType
<1>4. ReadAs(stored, <<>>) = <<>> BY ReadAsNone
<1>5. Within(<<>>, ReadAs(stored, All(request)))
  <2> DEFINE r == ReadAs(stored, All(request))
  <2>1. ASSUME NEW x PROVE Count(<<>>, x) <= Count(r, x)
    <3> HIDE DEF r
    <3>1. Count(r, x) \in Nat BY <1>3, CountType DEF r
    <3>2. Count(<<>>, x) = 0 BY CountEmpty
    <3> QED BY <3>1, <3>2
  <2> QED BY <2>1 DEF Within
<1>6. <<>> \in Seq(Row) OBVIOUS
<1>7. Appended(stored, request, TableOf(tree), tree, <<>>)
        /\ Stayed(stored, request, TableOf(tree), tree, All(request))
  BY FreshCall
<1> QED BY <1>1, <1>4, <1>5, <1>6, <1>7, CallKeeps

\* The steps of the invariant, one lemma for each action.
LEMMA InitHolds == ASSUME FolderInit PROVE FolderInv
<1>1. PICK tree \in Trees : dirs = tree.dirs /\ leaves = tree.leaves BY DEF FolderInit
<1>2. IsTree(tree) BY FolderAssumption
<1>3. Tree
  <2>1. PICK deepest \in dirs \cup {<<>>} : \A dir \in dirs :
            IsPrefix(ColumnsOf(dir), ColumnsOf(deepest))
    BY <1>1, <1>2 DEF IsTree
  <2>2. dirs \subseteq PartitionDirs BY <1>1, <1>2 DEF IsTree
  <2>3. ColumnsOf(deepest) \in Seq(Schema) BY <2>1, <2>2, ColumnsType
  <2>4. Spells(dirs, ColumnsOf(deepest)) BY <2>1, <2>2 DEF Spells
  <2>5. GoodLeaves(leaves) BY <1>1, <1>2 DEF IsTree, GoodLeaves, LeafNames, StoredRow
  <2>6. \A leaf \in DOMAIN leaves : Chain(leaf.dir) \subseteq dirs BY <1>1, <1>2 DEF IsTree
  <2> QED BY <2>3, <2>4, <2>5, <2>6 DEF Tree
<1>4. GoodLeaves(leaves) BY <1>3 DEF Tree
<1>5. before = TableOf(leaves) BY <1>4, TableRowsAre, RowsOfIs DEF FolderInit
<1>6. before \in Seq(Row) BY <1>4, <1>5, TableType
<1>7. call \in Calls
  <2>1. NoCall \in Calls BY DEF NoCall, Calls
  <2> QED BY <2>1 DEF FolderInit
<1>8. Typed BY <1>6, <1>7, FolderAssumption DEF FolderInit, Typed
<1>9. Settled
  <2>1. StoredColumns \in Seq(Schema) BY <1>3, TreeSpells
  <2>2. Keeps(StoredColumns, leaves, call, {}, TableOf(leaves), ended)
    BY <1>4, <1>7, <2>1, FreshKeeps
  <2>3. written = {} /\ ended # "ok" BY DEF FolderInit
  <2> QED BY <1>5, <2>2, <2>3 DEF Settled, OneFile
<1>10. phase = "idle" BY DEF FolderInit
<1> QED BY <1>3, <1>8, <1>9, <1>10 DEF FolderInv

LEMMA BeginKeeps ==
    ASSUME FolderInv, NEW request \in Requests, Begin(request) PROVE FolderInv'
<1>1. request \in Calls BY CallsAre
<1>2. /\ phase = "idle" /\ calls < MaxCalls /\ calls' = calls + 1 /\ call' = request
      /\ before' = TableRows /\ written' = {} /\ groups' = <<>>
      /\ dirs' = dirs /\ leaves' = leaves /\ faults' = faults
  BY DEF Begin
<1>3. GoodLeaves(leaves) BY DEF FolderInv, Tree
<1>4. before' = TableOf(leaves) BY <1>2, <1>3, TableRowsAre, RowsOfIs
<1>5. before' \in Seq(Row) BY <1>3, <1>4, TableType
<1>6. StoredColumns \in Seq(Schema) BY TreeSpells DEF FolderInv
<1>7. StoredColumns' = StoredColumns BY <1>2 DEF StoredColumns
<1>8. Tree' BY <1>2 DEF FolderInv, Tree
<1>9. calls' \in 0..MaxCalls /\ faults' \in 0..MaxFaults
  BY <1>2, FolderAssumption DEF FolderInv, Typed
<1>10. CASE Layout(request) = {}
  <2>1. ended' = "refused" /\ phase' = "idle" /\ toClear' = toClear /\ batches' = batches
    BY <1>2, <1>10 DEF Begin
  <2>2. Typed' BY <1>1, <1>2, <1>5, <1>9, <2>1 DEF FolderInv, Typed
  <2>3. Keeps(StoredColumns, leaves, request, {}, TableOf(leaves), "refused")
    BY <1>1, <1>3, <1>6, FreshKeeps
  <2>4. Settled' BY <1>2, <1>4, <1>7, <2>1, <2>3 DEF Settled, OneFile
  <2> QED BY <1>8, <2>1, <2>2, <2>4 DEF FolderInv
<1>11. CASE Layout(request) # {}
  <2>1. ended' = "none" /\ phase' = "clearing" /\ toClear' = ToClear(request)
          /\ batches' = request.batches
    BY <1>11 DEF Begin
  <2>2. request.batches \in Seq(Seq(Row)) BY <1>1 DEF Calls
  <2>3. ToClear(request) \subseteq DOMAIN leaves BY DEF ToClear
  <2>4. Typed' BY <1>1, <1>2, <1>5, <1>9, <2>1, <2>2, <2>3 DEF FolderInv, Typed
  <2>5. PICK layout \in Seq(Schema) :
            LayoutAs(StoredColumns, request) = {layout} /\ StoredColumns \in {<<>>, layout}
    BY <1>1, <1>6, <1>11, LayoutIs, LayoutOne
  <2>6. Layout(call)' = {layout}
    <3>1. Layout(call)' = LayoutAs(StoredColumns', call') BY DEF Layout, LayoutAs
    <3> QED BY <1>2, <1>7, <2>5, <3>1
  <2>7. Same(TableOf(leaves'), before') BY <1>2, <1>4, SameReflexive
  <2>8. Laid(layout, <<>>)' BY <1>2, <1>7, <2>5, <2>6, <2>7 DEF Laid
  <2>9. Doing(layout, <<>>)'
    <3>1. Progress(layout, FlattenSeq(request.batches), <<>>, <<>>, request.batches)
      BY <2>2, BeginProgress
    <3>2. ASSUME NEW batch \in Range(request.batches)
          PROVE  Range(batch) \subseteq Range(FlattenSeq(request.batches))
      BY <2>2, FlattenFrom
    <3>3. Range(<<>>) = {} BY ElementsEmpty
    <3> QED BY <1>2, <2>1, <3>1, <3>2, <3>3 DEF Doing, All
  <2>10. Made(layout, <<>>)' BY <1>2, <1>3, <1>4, <2>1, FreshCall DEF Made
  <2>11. Clearing(<<>>)' BY <1>1, <1>2, <2>1 DEF Clearing, ToClear, Sweeping
  <2>12. Working(layout, <<>>)' BY <2>8, <2>9, <2>10, <2>11 DEF Working
  <2>13. <<>> \in Seq(Row) OBVIOUS
  <2>14. Underway' BY <2>12, <2>13 DEF Underway
  <2> QED BY <1>8, <2>1, <2>4, <2>14 DEF FolderInv
<1> QED BY <1>10, <1>11

\* An overwrite's leaf is emptied; nothing has been written yet.
LEMMA ClearLeafKeeps == ASSUME FolderInv, ClearLeaf PROVE FolderInv'
<1>1. PICK leaf \in toClear :
          leaves' = [leaves EXCEPT ![leaf] = <<>>] /\ toClear' = toClear \ {leaf}
  BY DEF ClearLeaf
<1>2. /\ phase = "clearing" /\ phase' = phase /\ dirs' = dirs /\ call' = call /\ batches' = batches
      /\ groups' = groups /\ written' = written /\ before' = before /\ ended' = ended
      /\ calls' = calls /\ faults' = faults
  BY DEF ClearLeaf
<1>3. leaf \in DOMAIN leaves /\ GoodLeaves(leaves) BY DEF FolderInv, Tree, Typed
<1>4. leaves' = PutIn(leaves, leaf, <<>>) BY <1>1, <1>3, EmptiedIs
<1>5. DOMAIN leaves' = DOMAIN leaves BY <1>3, <1>4 DEF PutIn
<1>6. GoodLeaves(leaves')
  <2>1. leaf \in LeafNames BY <1>3 DEF GoodLeaves
  <2>2. <<>> \in Seq(StoredRow(leaf.dir)) OBVIOUS
  <2> QED BY <1>3, <1>4, <2>1, <2>2, PutGood
<1>7. Tree' BY <1>2, <1>5, <1>6 DEF FolderInv, Tree
<1>8. Typed' BY <1>1, <1>2, <1>5 DEF FolderInv, Typed
<1>9. PICK layout \in Seq(Schema) : \E done \in Seq(Row) : Working(layout, done)
  BY <1>2 DEF FolderInv, Underway
<1>10. PICK done \in Seq(Row) : Working(layout, done) BY <1>9
<1>11. Sweeping(call) BY <1>1, <1>10 DEF Working, Clearing
<1>12. StoredColumns' = StoredColumns BY <1>2 DEF StoredColumns
<1>13. Layout(call)' = Layout(call) BY <1>2, <1>12 DEF Layout
<1>14. Laid(layout, done)' BY <1>2, <1>10, <1>11, <1>12, <1>13 DEF Working, Laid
<1>15. Doing(layout, done)' BY <1>2, <1>10 DEF Working, Doing
<1>16. Made(layout, done)'
  BY <1>2, <1>11 DEF Made, Appended, Replaced, Upserted, Stayed, Sweeping, Keyed
<1>17. Clearing(done)' BY <1>1, <1>2, <1>4, <1>5, <1>10, <1>11 DEF Working, Clearing, PutIn
<1>18. Working(layout, done)' BY <1>14, <1>15, <1>16, <1>17 DEF Working
<1>19. Underway' BY <1>18 DEF Underway
<1> QED BY <1>2, <1>7, <1>8, <1>19 DEF FolderInv

\* Every leaf is empty when an overwrite begins to write.
LEMMA ClearedKeeps == ASSUME FolderInv, Cleared PROVE FolderInv'
<1>1. /\ phase = "clearing" /\ toClear = {} /\ phase' = "writing" /\ dirs' = dirs
      /\ leaves' = leaves /\ call' = call /\ toClear' = toClear /\ batches' = batches
      /\ groups' = groups /\ written' = written /\ before' = before /\ ended' = ended
      /\ calls' = calls /\ faults' = faults
  BY DEF Cleared
<1>2. Tree' BY <1>1 DEF FolderInv, Tree
<1>3. Typed' BY <1>1 DEF FolderInv, Typed
<1>4. PICK layout \in Seq(Schema) : \E done \in Seq(Row) : Working(layout, done)
  BY <1>1 DEF FolderInv, Underway
<1>5. PICK done \in Seq(Row) : Working(layout, done) BY <1>4
<1>6. done = <<>> /\ written = {} /\ (Sweeping(call) => \A leaf \in DOMAIN leaves : leaves[leaf] = <<>>)
  BY <1>1, <1>5 DEF Working, Clearing
<1>7. GoodLeaves(leaves) BY DEF FolderInv, Tree
<1>8. Overwritten(layout, call, written, leaves, done)
  <2> SUFFICES ASSUME Sweeping(call)
               PROVE  /\ Same(TableOf(leaves), ReadAs(layout, done))
                      /\ \A leaf \in DOMAIN leaves \ written : leaves[leaf] = <<>>
    BY DEF Overwritten
  <2>1. TableOf(leaves) = <<>> BY <1>6, <1>7, TableEmpty
  <2>2. ReadAs(layout, done) = <<>> BY <1>6, ReadAsNone
  <2> QED BY <1>6, <2>1, <2>2, SameReflexive
<1>9. StoredColumns' = StoredColumns BY <1>1 DEF StoredColumns
<1>10. Layout(call)' = Layout(call) BY <1>1, <1>9 DEF Layout
<1>11. Laid(layout, done)' BY <1>1, <1>5, <1>9, <1>10 DEF Working, Laid
<1>12. Doing(layout, done)' BY <1>1, <1>5 DEF Working, Doing
<1>13. Made(layout, done)' BY <1>1, <1>5, <1>8 DEF Working, Made
<1>14. Clearing(done)' BY <1>1, <1>5 DEF Working, Clearing
<1>15. Working(layout, done)' BY <1>11, <1>12, <1>13, <1>14 DEF Working
<1>16. Underway' BY <1>15 DEF Underway
<1> QED BY <1>1, <1>2, <1>3, <1>16 DEF FolderInv

\* A batch becomes groups: what is pending stays pending.
LEMMA NextBatchKeeps == ASSUME FolderInv, NextBatch PROVE FolderInv'
<1>1. /\ phase = "writing" /\ groups = <<>> /\ batches # <<>>
      /\ groups' = SplitByPartition(Head(batches)) /\ batches' = Tail(batches)
      /\ phase' = phase /\ dirs' = dirs
      /\ leaves' = leaves /\ call' = call /\ toClear' = toClear
      /\ written' = written /\ before' = before /\ ended' = ended
      /\ calls' = calls /\ faults' = faults
  BY DEF NextBatch
<1>2. batches \in Seq(Seq(Row)) /\ call \in Calls BY DEF FolderInv, Typed
<1>3. Head(batches) \in Seq(Row) /\ Tail(batches) \in Seq(Seq(Row))
  BY <1>1, <1>2, HeadTailProperties
<1>4. Tree' BY <1>1 DEF FolderInv, Tree
<1>5. Typed' BY <1>1, <1>3 DEF FolderInv, Typed
<1>6. PICK layout \in Seq(Schema) : \E done \in Seq(Row) : Working(layout, done)
  BY <1>1 DEF FolderInv, Underway
<1>7. PICK done \in Seq(Row) : Working(layout, done) BY <1>6
<1>8. LaidOut = layout
  <2>1. Layout(call) = {layout} BY <1>7 DEF Working, Laid
  <2> QED BY <2>1 DEF LaidOut
<1>9. Range(Head(batches)) \subseteq Range(All(call))
        /\ \A batch \in Range(Tail(batches)) : Range(batch) \subseteq Range(All(call))
  <2>1. \A batch \in Range(batches) : Range(batch) \subseteq Range(All(call))
    BY <1>7 DEF Working, Doing
  <2>2. Head(batches) \in Range(batches) BY <1>1, <1>2, HeadTailProperties, FirstElement
  <2>3. Range(Tail(batches)) \subseteq Range(batches)
    <3>1. \A n \in 1..Len(Tail(batches)) : Tail(batches)[n] = batches[n + 1] /\ n + 1 \in 1..Len(batches)
      BY <1>1, <1>2, HeadTailProperties
    <3>2. DOMAIN Tail(batches) = 1..Len(Tail(batches)) /\ DOMAIN batches = 1..Len(batches)
      BY <1>2, <1>3
    <3> QED BY <3>1, <3>2 DEF Range
  <2> QED BY <2>1, <2>2, <2>3
<1>10. /\ SplitByPartition(Head(batches)) \in Seq(Groups(layout))
       /\ \A group \in Range(SplitByPartition(Head(batches))) :
            group.dir \in Named(layout, Head(batches))
  BY <1>3, <1>8, SplitSorts
<1>11. Named(layout, Head(batches)) \subseteq Named(layout, All(call)) BY <1>9 DEF Named
<1>12. Progress(layout, All(call), done, SplitByPartition(Head(batches)), Tail(batches))
  <2>1. Progress(layout, All(call), done, <<>>, batches) BY <1>1, <1>7 DEF Working, Doing
  <2> QED BY <1>1, <1>2, <1>8, <2>1, BatchProgress
<1>13. StoredColumns' = StoredColumns BY <1>1 DEF StoredColumns
<1>14. Layout(call)' = Layout(call) BY <1>1, <1>13 DEF Layout
<1>15. Laid(layout, done)' BY <1>1, <1>7, <1>13, <1>14 DEF Working, Laid
<1>16. Doing(layout, done)'
  BY <1>1, <1>7, <1>9, <1>10, <1>11, <1>12 DEF Working, Doing
<1>17. Made(layout, done)' BY <1>1, <1>7 DEF Working, Made
<1>18. Clearing(done)' BY <1>1, <1>7 DEF Working, Clearing
<1>19. Working(layout, done)' BY <1>15, <1>16, <1>17, <1>18 DEF Working
<1>20. Underway' BY <1>19 DEF Underway
<1> QED BY <1>1, <1>4, <1>5, <1>20 DEF FolderInv

\* With nothing pending what is done is what arrived, and the promise follows.
LEMMA FinishKeeps == ASSUME FolderInv, Finish PROVE FolderInv'
<1>1. /\ phase = "writing" /\ groups = <<>> /\ batches = <<>> /\ phase' = "idle" /\ ended' = "ok"
      /\ dirs' = dirs /\ leaves' = leaves /\ call' = call /\ toClear' = toClear
      /\ batches' = batches /\ groups' = groups
      /\ written' = written /\ before' = before /\ calls' = calls /\ faults' = faults
  BY DEF Finish
<1>2. Tree' BY <1>1 DEF FolderInv, Tree
<1>3. Typed' BY <1>1 DEF FolderInv, Typed
<1>4. PICK layout \in Seq(Schema) : \E done \in Seq(Row) : Working(layout, done)
  BY <1>1 DEF FolderInv, Underway
<1>5. PICK done \in Seq(Row) : Working(layout, done) BY <1>4
<1>6. Keeps(StoredColumns, leaves, call, written, before, "ok") BY <1>1, <1>5, WorkingKeeps
<1>7. OneFile(StoredColumns, leaves, call, before, "ok")
  <2>1. GoodLeaves(leaves) /\ call \in Calls /\ before \in Seq(Row) BY DEF FolderInv, Tree, Typed
  <2>2. StoredColumns \in Seq(Schema) BY TreeSpells DEF FolderInv
  <2>3. StoredColumns \in {<<>>, layout}
          /\ (StoredColumns # layout =>
                 done = <<>> /\ (Sweeping(call) \/ Same(TableOf(leaves), before)))
    BY <1>5 DEF Working, Laid
  <2>4. Progress(layout, All(call), done, <<>>, <<>>)
          /\ \A leaf \in written : leaf.dir \in Named(layout, All(call))
    BY <1>1, <1>5 DEF Working, Doing
  <2>5. /\ Appended(layout, call, before, leaves, done)
        /\ Replaced(layout, call, before, written, leaves, done)
        /\ Upserted(layout, call, before, leaves, done)
        /\ Overwritten(layout, call, written, leaves, done)
    BY <1>1, <1>5 DEF Working, Made
  <2> QED BY <2>1, <2>2, <2>3, <2>4, <2>5, CallKeepsPromise
<1>8. StoredColumns' = StoredColumns BY <1>1 DEF StoredColumns
<1>9. Settled' BY <1>1, <1>6, <1>7, <1>8 DEF Settled
<1> QED BY <1>1, <1>2, <1>3, <1>9 DEF FolderInv

\* What the head of the groups is written with.
LEMMA HeadWrites ==
    ASSUME FolderInv, NEW layout \in Seq(Schema), NEW done \in Seq(Row), Working(layout, done),
           phase = "writing", groups # <<>>,
           NEW leaf, leaf = LeafFor(Head(groups).dir)
    PROVE  /\ Writes(layout, call, written, leaves, leaf, Head(groups), Contents(Head(groups), leaf))
           /\ leaf \in LeafNames /\ leaf.dir \in Full(layout)
           /\ leaf.dir \in Named(layout, All(call))
           /\ Tail(groups) \in Seq(Groups(layout))
           /\ Range(Tail(groups)) \subseteq Range(groups)
<1>1. groups \in Seq(Groups(layout)) /\ \A group \in Range(groups) : group.dir \in Named(layout, All(call))
  BY DEF Working, Doing
<1>2. Head(groups) \in Groups(layout) /\ Tail(groups) \in Seq(Groups(layout))
  BY <1>1, HeadTailProperties
<1>3. Head(groups) \in Range(groups) BY <1>1, FirstElement
<1>4. Range(Tail(groups)) \subseteq Range(groups)
  <2>1. \A n \in 1..Len(Tail(groups)) : Tail(groups)[n] = groups[n + 1] /\ n + 1 \in 1..Len(groups)
    BY <1>1, HeadTailProperties
  <2>2. DOMAIN Tail(groups) = 1..Len(Tail(groups)) /\ DOMAIN groups = 1..Len(groups)
    BY <1>1, <1>2
  <2> QED BY <2>1, <2>2 DEF Range
<1>5. GoodLeaves(leaves) /\ call \in Calls /\ written \subseteq DOMAIN leaves
  BY DEF FolderInv, Tree, Typed
<1>6. Head(groups).dir \in Full(layout)
        /\ Head(groups).rows \in Seq(At(layout, Head(groups).dir))
  BY <1>2 DEF Groups
<1>7. Head(groups).dir \in PartitionDirs BY <1>6 DEF Full
<1>8. leaf \in LeafNames /\ leaf.dir = Head(groups).dir BY <1>5, <1>7, LeafForIs
<1>9. call.by \in SUBSET Schema BY <1>5 DEF Calls
<1>10. Lays(layout, call, Held(leaves, leaf), leaf \notin written, leaf.dir, Head(groups).rows,
            Contents(Head(groups), leaf))
  BY <1>5, <1>6, <1>8, <1>9, ContentsLays
<1>11. Writes(layout, call, written, leaves, leaf, Head(groups), Contents(Head(groups), leaf))
  BY <1>2, <1>5, <1>8, <1>9, <1>10 DEF Writes
<1> QED BY <1>1, <1>2, <1>3, <1>4, <1>6, <1>8, <1>11

\* A leaf of the layout's gives the tree that layout.
LEMMA PutTree ==
    ASSUME FolderInv, NEW layout \in Seq(Schema), StoredColumns \in {<<>>, layout},
           NEW leaf \in LeafNames, leaf.dir \in Full(layout), NEW c \in Seq(StoredRow(leaf.dir)),
           Put(leaf, c)
    PROVE  /\ Tree' /\ StoredColumns' = layout /\ leaves' = PutIn(leaves, leaf, c)
           /\ DOMAIN leaves' = DOMAIN leaves \cup {leaf}
<1>1. leaves' = PutIn(leaves, leaf, c) /\ dirs' = dirs \cup Chain(leaf.dir) BY DEF Put, PutIn
<1>2. Spells(dirs, StoredColumns) BY TreeSpells DEF FolderInv
<1>3. Spells(dirs', layout) BY <1>1, <1>2, ChainSpells
<1>4. LayoutOf(dirs') = layout BY <1>3, SpellsIs
<1>5. StoredColumns' = layout BY <1>4 DEF StoredColumns, LayoutOf
<1>6. GoodLeaves(leaves) BY DEF FolderInv, Tree
<1>7. GoodLeaves(leaves') BY <1>1, <1>6, PutGood
<1>8. DOMAIN leaves' = DOMAIN leaves \cup {leaf} BY <1>1 DEF PutIn
<1>9. \A other \in DOMAIN leaves' : Chain(other.dir) \subseteq dirs'
  BY <1>1, <1>8 DEF FolderInv, Tree
<1> QED BY <1>1, <1>3, <1>5, <1>7, <1>8, <1>9 DEF Tree

\* One more leaf marked as written.
LEMMA ReplacedNext ==
    ASSUME NEW layout \in Seq(Schema), NEW request, NEW marked, NEW tree, NEW leaf, NEW group, NEW c,
           Writes(layout, request, marked, tree, leaf, group, c),
           NEW past \in Seq(Row), NEW done \in Seq(Row),
           Replaced(layout, request, past, marked, tree, done),
           NEW marks, marks = marked \cup {leaf}, NEW made, made = PutIn(tree, leaf, c),
           NEW next, next = Cat(done, group.rows)
    PROVE  Replaced(layout, request, past, marks, made, next)
<1>1. Replaced(layout, request, past, marked \cup {leaf}, PutIn(tree, leaf, c), Cat(done, group.rows))
  BY ReplacedPut
<1> QED BY <1>1

LEMMA OverwrittenNext ==
    ASSUME NEW layout \in Seq(Schema), NEW request, NEW marked, NEW tree, NEW leaf, NEW group, NEW c,
           Writes(layout, request, marked, tree, leaf, group, c), NEW done \in Seq(Row),
           Overwritten(layout, request, marked, tree, done),
           NEW marks, marks = marked \cup {leaf}, NEW made, made = PutIn(tree, leaf, c),
           NEW next, next = Cat(done, group.rows)
    PROVE  Overwritten(layout, request, marks, made, next)
<1>1. Overwritten(layout, request, marked \cup {leaf}, PutIn(tree, leaf, c), Cat(done, group.rows))
  BY OverwrittenPut
<1> QED BY <1>1

\* The table with one more leaf written.
LEMMA HeadMakes ==
    ASSUME FolderInv, NEW layout \in Seq(Schema), NEW done \in Seq(Row), Working(layout, done),
           phase = "writing", groups # <<>>,
           NEW leaf, leaf = LeafFor(Head(groups).dir),
           NEW tree, tree = PutIn(leaves, leaf, Contents(Head(groups), leaf)),
           NEW next, next = Cat(done, Head(groups).rows)
    PROVE  /\ next \in Seq(Row)
           /\ Progress(layout, All(call), next, Tail(groups), batches)
           /\ Appended(layout, call, before, tree, next)
           /\ Replaced(layout, call, before, written \cup {leaf}, tree, next)
           /\ Upserted(layout, call, before, tree, next)
           /\ Stayed(layout, call, before, tree, All(call))
           /\ Overwritten(layout, call, written \cup {leaf}, tree, next)
<1> DEFINE g == Head(groups)  c == Contents(Head(groups), leaf)
<1>1. /\ Writes(layout, call, written, leaves, leaf, g, c)
      /\ leaf \in LeafNames /\ leaf.dir \in Full(layout) /\ leaf.dir \in Named(layout, All(call))
  BY HeadWrites
<1>2. g.rows \in Seq(Row) /\ c \in Seq(StoredRow(leaf.dir)) BY <1>1, WritesIs
<1>3. before \in Seq(Row) /\ batches \in Seq(Seq(Row)) /\ GoodLeaves(leaves)
  BY DEF FolderInv, Tree, Typed
<1>4. next \in Seq(Row) BY <1>2, CatType
<1>5. Progress(layout, All(call), next, Tail(groups), batches)
  <2>1. groups \in Seq(Groups(layout)) /\ Progress(layout, All(call), done, groups, batches)
    BY DEF Working, Doing
  <2> QED BY <1>3, <2>1, WriteProgress
<1>6. /\ Appended(layout, call, before, leaves, done)
      /\ Replaced(layout, call, before, written, leaves, done)
      /\ Upserted(layout, call, before, leaves, done)
      /\ Stayed(layout, call, before, leaves, All(call))
      /\ Overwritten(layout, call, written, leaves, done)
  BY DEF Working, Made
<1> HIDE DEF g, c
<1>7. tree = PutIn(leaves, leaf, c) /\ next = Cat(done, g.rows) BY DEF g, c
<1>8. Appended(layout, call, before, tree, next) BY <1>1, <1>3, <1>6, <1>7, AppendedPut
<1> DEFINE marks == written \cup {leaf}
<1>13. marks = written \cup {leaf} OBVIOUS
<1> HIDE DEF marks
<1>9. Replaced(layout, call, before, marks, tree, next)
  BY <1>1, <1>3, <1>6, <1>7, <1>13, ReplacedNext
<1>10. Upserted(layout, call, before, tree, next) BY <1>1, <1>3, <1>6, <1>7, UpsertedPut
<1>11. Stayed(layout, call, before, tree, All(call))
  BY <1>1, <1>2, <1>3, <1>6, <1>7, StayedPut
<1>12. Overwritten(layout, call, marks, tree, next)
  BY <1>1, <1>6, <1>7, <1>13, OverwrittenNext
<1> QED BY <1>4, <1>5, <1>8, <1>9, <1>10, <1>11, <1>12 DEF marks

\* One group more is done, in a leaf of its partition.
LEMMA WriteLeafKeeps == ASSUME FolderInv, WriteLeaf PROVE FolderInv'
<1> DEFINE leaf == LeafFor(Head(groups).dir)  c == Contents(Head(groups), leaf)
<1>1. /\ phase = "writing" /\ groups # <<>> /\ groups' = Tail(groups)
      /\ phase' = phase /\ call' = call /\ toClear' = toClear /\ batches' = batches
      /\ before' = before /\ ended' = ended /\ calls' = calls /\ faults' = faults
  BY DEF WriteLeaf
<1>2. Put(leaf, c) /\ written' = written \cup {leaf} BY DEF WriteLeaf
<1>3. PICK layout \in Seq(Schema) : \E done \in Seq(Row) : Working(layout, done)
  BY <1>1 DEF FolderInv, Underway
<1>4. PICK done \in Seq(Row) : Working(layout, done) BY <1>3
<1>5. /\ Writes(layout, call, written, leaves, leaf, Head(groups), c)
      /\ leaf \in LeafNames /\ leaf.dir \in Full(layout) /\ leaf.dir \in Named(layout, All(call))
      /\ Tail(groups) \in Seq(Groups(layout)) /\ Range(Tail(groups)) \subseteq Range(groups)
  BY <1>1, <1>4, HeadWrites
<1>6. c \in Seq(StoredRow(leaf.dir)) BY <1>5, WritesIs
<1>7. StoredColumns \in {<<>>, layout} /\ Layout(call) = {layout} BY <1>4 DEF Working, Laid
<1>18. Cat(done, Head(groups).rows) \in Seq(Row)
  <2>1. Head(groups).rows \in Seq(Row) BY <1>5, WritesIs
  <2> QED BY <2>1, CatType
<1>19. PICK next \in Seq(Row) : next = Cat(done, Head(groups).rows) BY <1>18
<1>8. /\ Progress(layout, All(call), next, Tail(groups), batches)
        /\ Appended(layout, call, before, PutIn(leaves, leaf, c), next)
        /\ Replaced(layout, call, before, written \cup {leaf}, PutIn(leaves, leaf, c), next)
        /\ Upserted(layout, call, before, PutIn(leaves, leaf, c), next)
        /\ Stayed(layout, call, before, PutIn(leaves, leaf, c), All(call))
        /\ Overwritten(layout, call, written \cup {leaf}, PutIn(leaves, leaf, c), next)
  <2>1. leaf = LeafFor(Head(groups).dir) OBVIOUS
  <2>2. PutIn(leaves, leaf, c) = PutIn(leaves, leaf, Contents(Head(groups), leaf)) OBVIOUS
  <2> DEFINE tree == PutIn(leaves, leaf, c)
  <2> HIDE DEF leaf, c
  <2>3. tree = PutIn(leaves, leaf, Contents(Head(groups), leaf)) BY <2>2
  <2> HIDE DEF tree
  <2>4. /\ Progress(layout, All(call), next, Tail(groups), batches)
        /\ Appended(layout, call, before, tree, next)
        /\ Replaced(layout, call, before, written \cup {leaf}, tree, next)
        /\ Upserted(layout, call, before, tree, next)
        /\ Stayed(layout, call, before, tree, All(call))
        /\ Overwritten(layout, call, written \cup {leaf}, tree, next)
    BY <1>1, <1>4, <1>19, <2>1, <2>3, HeadMakes
  <2> QED BY <2>4 DEF tree
<1> HIDE DEF leaf, c
<1>9. Tree' /\ StoredColumns' = layout /\ leaves' = PutIn(leaves, leaf, c)
        /\ DOMAIN leaves' = DOMAIN leaves \cup {leaf}
  BY <1>2, <1>5, <1>6, <1>7, PutTree
<1>10. Typed' BY <1>1, <1>2, <1>9 DEF FolderInv, Typed
<1>11. Layout(call)' = {layout}
  <2>1. Layout(call)' = LayoutAs(StoredColumns', call') BY DEF Layout, LayoutAs
  <2>2. LayoutAs(StoredColumns, call) = {layout} BY <1>7, LayoutIs
  <2> QED BY <1>1, <1>7, <1>9, <2>1, <2>2 DEF LayoutAs
<1>12. Laid(layout, next)' BY <1>9, <1>11 DEF Laid
<1>13. Doing(layout, next)'
  <2>1. /\ \A group \in Range(groups) : group.dir \in Named(layout, All(call))
        /\ \A batch \in Range(batches) : Range(batch) \subseteq Range(All(call))
        /\ \A other \in written : other.dir \in Named(layout, All(call))
    BY <1>4 DEF Working, Doing
  <2> QED BY <1>1, <1>2, <1>5, <1>8, <2>1 DEF Doing
<1>14. Made(layout, next)' BY <1>1, <1>2, <1>8, <1>9 DEF Made
<1>15. Clearing(next)' BY <1>1, <1>4 DEF Working, Clearing
<1>16. Working(layout, next)' BY <1>12, <1>13, <1>14, <1>15 DEF Working
<1>17. Underway' BY <1>8, <1>16 DEF Underway
<1> QED BY <1>1, <1>9, <1>10, <1>17 DEF FolderInv

\* A call that fails where it stands.
LEMMA FailKeeps ==
    ASSUME FolderInv, phase # "idle", Fail("failed"), UNCHANGED <<dirs, leaves>> PROVE FolderInv'
<1>1. /\ phase' = "idle" /\ ended' = "failed" /\ toClear' = {} /\ batches' = <<>>
      /\ faults < MaxFaults /\ faults' = faults + 1
      /\ call' = call /\ written' = written /\ before' = before /\ calls' = calls
      /\ dirs' = dirs /\ leaves' = leaves
  BY DEF Fail
<1>2. Tree' BY <1>1 DEF FolderInv, Tree
<1>3. Typed' BY <1>1, FolderAssumption DEF FolderInv, Typed
<1>4. PICK layout \in Seq(Schema) : \E done \in Seq(Row) : Working(layout, done)
  BY DEF FolderInv, Underway
<1>5. PICK done \in Seq(Row) : Working(layout, done) BY <1>4
<1>6. Keeps(StoredColumns, leaves, call, written, before, "failed") BY <1>5, WorkingKeeps
<1>7. StoredColumns' = StoredColumns BY <1>1 DEF StoredColumns
<1>8. Settled' BY <1>1, <1>6, <1>7 DEF Settled, OneFile
<1> QED BY <1>1, <1>2, <1>3, <1>8 DEF FolderInv

\* A leaf's write fails before it, after the truncation or after the whole of it.
LEMMA LeafFailsKeeps == ASSUME FolderInv, LeafFails PROVE FolderInv'
<1> DEFINE leaf == LeafFor(Head(groups).dir)  c == Contents(Head(groups), leaf)
<1>1. phase = "writing" /\ groups # <<>> BY DEF LeafFails
<1>2. \/ Fail("failed") /\ UNCHANGED <<dirs, leaves>>
      \/ Fail("emptied") /\ Put(leaf, <<>>)
      \/ Fail("failed") /\ Put(leaf, c)
  BY DEF LeafFails
<1>3. PICK layout \in Seq(Schema) : \E done \in Seq(Row) : Working(layout, done)
  BY <1>1 DEF FolderInv, Underway
<1>4. PICK done \in Seq(Row) : Working(layout, done) BY <1>3
<1> DEFINE next == Cat(done, Head(groups).rows)
<1>5. /\ Writes(layout, call, written, leaves, leaf, Head(groups), c)
      /\ leaf \in LeafNames /\ leaf.dir \in Full(layout) /\ leaf.dir \in Named(layout, All(call))
      /\ Tail(groups) \in Seq(Groups(layout))
  BY <1>1, <1>4, HeadWrites
<1>6. c \in Seq(StoredRow(leaf.dir)) BY <1>5, WritesIs
<1>7. StoredColumns \in {<<>>, layout} BY <1>4 DEF Working, Laid
<1>8. next \in Seq(Row)
        /\ Progress(layout, All(call), next, Tail(groups), batches)
        /\ Appended(layout, call, before, PutIn(leaves, leaf, c), next)
        /\ Stayed(layout, call, before, PutIn(leaves, leaf, c), All(call))
        /\ Overwritten(layout, call, written \cup {leaf}, PutIn(leaves, leaf, c), next)
  BY <1>1, <1>4, HeadMakes
<1>9. GoodLeaves(leaves) /\ call \in Calls /\ before \in Seq(Row) /\ batches \in Seq(Seq(Row))
  BY DEF FolderInv, Tree, Typed
<1>10. All(call) \in Seq(Row) /\ ReadAs(layout, All(call)) \in Seq(Row) BY <1>9, AllType, ReadAsType
<1>11. Stayed(layout, call, before, leaves, All(call))
         /\ Overwritten(layout, call, written, leaves, done)
         /\ Progress(layout, All(call), done, groups, batches) /\ groups \in Seq(Groups(layout))
  BY <1>1, <1>4 DEF Working, Made, Doing
<1> HIDE DEF leaf, c, next
<1>12. CASE Fail("failed") /\ UNCHANGED <<dirs, leaves>> BY <1>1, <1>12, FailKeeps
<1>13. ASSUME NEW rows \in Seq(StoredRow(leaf.dir)), Put(leaf, rows), NEW end, Fail(end),
              end \in {"failed", "emptied"},
              Keeps(layout, PutIn(leaves, leaf, rows), call, written, before, end)
       PROVE  FolderInv'
  <2>1. /\ phase' = "idle" /\ ended' = end /\ toClear' = {} /\ batches' = <<>>
        /\ faults < MaxFaults /\ faults' = faults + 1
        /\ call' = call /\ written' = written /\ before' = before /\ calls' = calls
    BY <1>13 DEF Fail
  <2>2. Tree' /\ StoredColumns' = layout /\ leaves' = PutIn(leaves, leaf, rows)
          /\ DOMAIN leaves' = DOMAIN leaves \cup {leaf}
    BY <1>5, <1>7, <1>13, PutTree
  <2>3. Typed' BY <1>13, <2>1, <2>2, FolderAssumption DEF FolderInv, Typed
  <2>4. Settled' BY <1>13, <2>1, <2>2 DEF Settled, OneFile
  <2> QED BY <2>1, <2>2, <2>3, <2>4 DEF FolderInv
<1>14. CASE Fail("failed") /\ Put(leaf, c)
  <2> DEFINE tree == PutIn(leaves, leaf, c)
  <2>1. GoodLeaves(tree) BY <1>5, <1>6, <1>9, PutGood
  <2>2. Within(ReadAs(layout, next), ReadAs(layout, All(call)))
    BY <1>5, <1>8, <1>9, <1>10, DoneWithin
  <2>3. ASSUME Sweeping(call) PROVE Within(TableOf(tree), ReadAs(layout, All(call)))
    <3>1. Same(TableOf(tree), ReadAs(layout, next)) BY <2>3, <1>8 DEF Overwritten
    <3>2. TableOf(tree) \in Seq(Row) /\ ReadAs(layout, next) \in Seq(Row)
      BY <1>8, <2>1, TableType, ReadAsType
    <3> HIDE DEF tree
    <3>3. Within(TableOf(tree), ReadAs(layout, next)) BY <3>1, <3>2, WithinReflexive
    <3> QED BY <3>2, <3>3, <2>2, <1>10, WithinTransitive
  <2>4. Appended(layout, call, before, tree, next) /\ Stayed(layout, call, before, tree, All(call))
    BY <1>8
  <2> HIDE DEF tree
  <2>5. Keeps(layout, tree, call, written, before, "failed")
    BY <1>8, <1>9, <2>1, <2>2, <2>3, <2>4, CallKeeps
  <2> QED BY <1>6, <1>13, <1>14, <2>5 DEF tree
<1>15. CASE Fail("emptied") /\ Put(leaf, <<>>)
  <2> DEFINE tree == PutIn(leaves, leaf, <<>>)  O == Others(leaves, leaf)
             H == Read(leaf.dir, Held(leaves, leaf))  T == TableOf(leaves)  U == TableOf(tree)
  <2>1. <<>> \in Seq(StoredRow(leaf.dir)) OBVIOUS
  <2>2. GoodLeaves(tree) BY <1>5, <1>9, <2>1, PutGood
  <2>3. Stayed(layout, call, before, tree, All(call)) BY <1>5, <1>9, <1>11, <2>1, StayedPut
  <2>4. Within(ReadAs(layout, done), ReadAs(layout, All(call))) BY <1>9, <1>10, <1>11, DoneWithin
  <2>5. ASSUME Sweeping(call) PROVE Within(U, ReadAs(layout, All(call)))
    <3> DEFINE some == ReadAs(layout, done)  all == ReadAs(layout, All(call))
    <3>1. Same(T, some) BY <2>5, <1>11 DEF Overwritten
    <3>2. Same(T, Cat(O, H)) BY <1>9, TableParts
    <3>3. Same(U, Cat(O, Read(leaf.dir, <<>>))) BY <1>5, <1>9, <2>1, TablePut
    <3>4. Read(leaf.dir, <<>>) = <<>> BY ReadEmpty
    <3>5. O \in Seq(Row) /\ T \in Seq(Row) /\ U \in Seq(Row) BY <1>9, <2>2, OthersType, TableType
    <3>6. H \in Seq(Row)
      <4>1. Held(leaves, leaf) \in Seq(StoredRow(leaf.dir)) BY <1>5, <1>9, HeldType
      <4>2. leaf.dir \in PartitionDirs BY <1>5 DEF LeafNames
      <4> QED BY <4>1, <4>2, ReadType
    <3>7. some \in Seq(Row) /\ all \in Seq(Row) BY <1>10, ReadAsType
    <3>8. Within(some, all) BY <2>4
    <3> HIDE DEF O, H, T, U, some, all
    <3>9. Same(U, O) BY <3>3, <3>4, <3>5, CatEmpty
    <3>10. Cat(O, H) \in Seq(Row) BY <3>5, <3>6, CatType
    <3>11. Within(U, O) BY <3>5, <3>9, WithinReflexive
    <3>12. Within(O, Cat(O, H))
      <4>1. Within(H, H) BY <3>6, SameReflexive, WithinReflexive
      <4> QED BY <3>5, <3>6, <4>1, WithinCat
    <3>13. Same(Cat(O, H), some) BY <3>1, <3>2, SameSymmetric, SameTransitive
    <3>14. Within(Cat(O, H), some) BY <3>7, <3>10, <3>13, WithinReflexive
    <3>15. Within(U, Cat(O, H)) BY <3>5, <3>10, <3>11, <3>12, WithinTransitive
    <3>16. Within(U, some) BY <3>5, <3>7, <3>10, <3>14, <3>15, WithinTransitive
    <3>17. Within(U, all) BY <3>5, <3>7, <3>8, <3>16, WithinTransitive
    <3> QED BY <3>17 DEF all
  <2> HIDE DEF tree, O, H, T
  <2>6. Keeps(layout, tree, call, written, before, "emptied")
    BY <1>9, <2>2, <2>3, <2>4, <2>5, CallKeeps DEF U
  <2> QED BY <1>13, <1>15, <2>1, <2>6 DEF tree
<1> QED BY <1>2, <1>12, <1>14, <1>15 DEF leaf, c

\* Every action keeps the invariant.
LEMMA StepHolds == ASSUME FolderInv, FolderNext PROVE FolderInv'
<1>1. CASE \E request \in Requests : Begin(request) BY <1>1, BeginKeeps
<1>2. CASE ClearLeaf BY <1>2, ClearLeafKeeps
<1>3. CASE Cleared BY <1>3, ClearedKeeps
<1>4. CASE NextBatch BY <1>4, NextBatchKeeps
<1>5. CASE WriteLeaf BY <1>5, WriteLeafKeeps
<1>6. CASE Finish BY <1>6, FinishKeeps
<1>7. CASE ClearFails BY <1>7, FailKeeps DEF ClearFails
<1>8. CASE BatchFails BY <1>8, FailKeeps DEF BatchFails
<1>9. CASE LeafFails BY <1>9, LeafFailsKeeps
<1> QED BY <1>1, <1>2, <1>3, <1>4, <1>5, <1>6, <1>7, <1>8, <1>9 DEF FolderNext

\* A stuttering step changes nothing the invariant reads.
LEMMA StutterHolds == ASSUME FolderInv, UNCHANGED folderVars PROVE FolderInv'
<1>1. /\ dirs' = dirs /\ leaves' = leaves /\ call' = call /\ phase' = phase /\ toClear' = toClear
      /\ batches' = batches /\ groups' = groups /\ written' = written /\ before' = before
      /\ ended' = ended /\ calls' = calls /\ faults' = faults
  BY DEF folderVars
<1>2. StoredColumns' = StoredColumns BY <1>1 DEF StoredColumns
<1>3. Tree' BY <1>1 DEF FolderInv, Tree
<1>4. Typed' BY <1>1 DEF FolderInv, Typed
<1>5. phase = "idle" => Settled' BY <1>1, <1>2 DEF FolderInv, Settled
<1>6. ASSUME phase # "idle" PROVE Underway'
  <2>1. PICK layout \in Seq(Schema) : \E done \in Seq(Row) : Working(layout, done)
    BY <1>6 DEF FolderInv, Underway
  <2>2. PICK done \in Seq(Row) : Working(layout, done) BY <2>1
  <2>3. Layout(call)' = Layout(call) BY <1>1, <1>2 DEF Layout
  <2>4. Laid(layout, done)' BY <1>1, <1>2, <2>2, <2>3 DEF Working, Laid
  <2>5. Doing(layout, done)' BY <1>1, <2>2 DEF Working, Doing
  <2>6. Made(layout, done)' BY <1>1, <2>2 DEF Working, Made
  <2>7. Clearing(done)' BY <1>1, <2>2 DEF Working, Clearing
  <2>8. Working(layout, done)' BY <2>4, <2>5, <2>6, <2>7 DEF Working
  <2> QED BY <2>8 DEF Underway
<1> QED BY <1>1, <1>3, <1>4, <1>5, <1>6 DEF FolderInv

\* The inductive invariant holds: what a call under way has done, has grouped and
\* has still to read is what arrived, and the table is what that makes of it.
THEOREM FolderInvariant == FolderSpec => []FolderInv
<1>1. FolderInit => FolderInv BY InitHolds
<1>2. FolderInv /\ [FolderNext]_folderVars => FolderInv' BY StepHolds, StutterHolds
<1> QED BY <1>1, <1>2, PTL DEF FolderSpec

\* The leaves of a folder are one table: its directories keep one layout, and
\* a call that succeeds leaves the rows one file would hold, however they came
\* in batches and partitions.
THEOREM FoldersAreOneTable == FolderSpec => []FolderIsOneTable
<1>1. FolderInv => FolderIsOneTable BY InvOneTable
<1> QED BY <1>1, FolderInvariant, PTL

\* Whichever step of a call fails, and while it is under way: an overwrite has
\* mixed no old row with the new, an append lost none and stored none twice, a
\* merge touched no partition that no arriving row names.
THEOREM FailedCallsKeepRows == FolderSpec => []FailureKeepsRows
<1>1. FolderInv => FailureKeepsRows BY InvKeeps
<1> QED BY <1>1, FolderInvariant, PTL

=============================================================================
