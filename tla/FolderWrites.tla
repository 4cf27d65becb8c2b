---------------------------- MODULE FolderWrites ----------------------------
(***************************************************************************)
(* A folder written and read as one table (rust/src/io/partition.rs).  The *)
(* directories of a leaf spell some columns as column=value, and the leaf  *)
(* stores the rest of its rows.  A write lists the tree, settles the       *)
(* layout, empties every leaf if it is an overwrite, then takes one batch  *)
(* at a time and writes one leaf for each partition the batch names.  Any  *)
(* of these steps may fail, and what was done by then stays.               *)
(*                                                                         *)
(* Leaves of other encodings, which are skipped, and the casts between     *)
(* stored and declared schemas are left out: every leaf holds the declared *)
(* columns.                                                                *)
(***************************************************************************)
EXTENDS RecordMerge, Integers, FiniteSets, TLC

CONSTANTS
    Schema,       \* the columns of a row
    FolderValues, \* what a column may hold
    Missing,      \* the absent value
    NullText,     \* NULL_PARTITION, which is a text value too
    TextColumns,  \* the columns whose type reads NullText as that text
    Trees,        \* the trees a first call may find: [dirs, leaves]
    Requests,     \* what callers ask: [kind, by, declared, batches]
    MaxCalls,     \* bound: calls made
    MaxFaults     \* bound: steps that fail

VARIABLES
    dirs,     \* the directories there are, each a sequence of <<column, text>>
    leaves,   \* the leaves there are: [dir, number] to the rows each stores
    call,     \* the call in progress, or the last one
    phase,    \* "idle", "clearing", "writing"
    toClear,  \* the leaves an overwrite has still to empty
    batches,  \* the batches still to be read
    groups,   \* the partitions of the current batch still to be written
    written,  \* the leaves this call has written
    before,   \* history: the table's rows when the call began
    ended,    \* history: how the last call ended
    calls,
    faults

folderVars == <<dirs, leaves, call, phase, toClear, batches, groups, written,
                before, ended, calls, faults>>

-----------------------------------------------------------------------------
(* Paths.                                                                  *)

\* partition_text: the value's own text, and one spelling for the absent one.
Text(value) == IF value = Missing THEN NullText ELSE value

\* constant_column: the text cast to the column's type.
FromText(column, text) ==
    IF text = NullText /\ column \notin TextColumns THEN Missing ELSE text

DirOf(row, columns) == [n \in DOMAIN columns |-> <<columns[n], Text(row[columns[n]])>>]
ColumnsOf(dir) == [n \in DOMAIN dir |-> dir[n][1]]
Spelled(dir) == Range(ColumnsOf(dir))

\* without_partitions and with_partitions.
Without(row, columns) == [column \in DOMAIN row \ columns |-> row[column]]
With(row, dir) ==
    [column \in DOMAIN row \cup Spelled(dir) |->
        IF column \in DOMAIN row THEN row[column]
        ELSE LET n == CHOOSE n \in DOMAIN dir : dir[n][1] = column
             IN FromText(column, dir[n][2])]

Chain(dir) == Prefixes(dir) \ {<<>>}

\* folder_partition_columns: the deepest chain of directories.
StoredColumns ==
    LET deepest == CHOOSE dir \in dirs \cup {<<>>} :
                       \A other \in dirs : Len(other) <= Len(dir)
    IN ColumnsOf(deepest)

\* leaf_name: the partition's first leaf by name, or part-0.
LeafFor(dir) ==
    LET numbers == {leaf.number : leaf \in {leaf \in DOMAIN leaves : leaf.dir = dir}}
    IN [dir |-> dir,
        number |-> IF numbers = {} THEN 0
                   ELSE CHOOSE n \in numbers : \A m \in numbers : n <= m]

\* A directory spells no column in two ways.
PartitionDirs ==
    {dir \in Seq(Schema \X (FolderValues \ {Missing})) :
        \A m, n \in DOMAIN dir : dir[m][1] = dir[n][1] => dir[m] = dir[n]}

\* Trees this module's writes can have made: one layout, and leaves that hold
\* the columns their directories do not spell.
IsTree(tree) ==
    /\ tree.dirs \subseteq PartitionDirs
    /\ \E deepest \in tree.dirs \cup {<<>>} : \A dir \in tree.dirs :
           IsPrefix(ColumnsOf(dir), ColumnsOf(deepest))
    /\ IsFiniteSet(DOMAIN tree.leaves)
    /\ tree.leaves = [leaf \in DOMAIN tree.leaves |-> tree.leaves[leaf]]
    /\ \A leaf \in DOMAIN tree.leaves :
         /\ leaf \in [dir : PartitionDirs, number : Nat]
         /\ Chain(leaf.dir) \subseteq tree.dirs
         /\ tree.leaves[leaf] \in Seq([Schema \ Spelled(leaf.dir) -> FolderValues])

ASSUME FolderAssumption ==
    /\ {Missing, NullText} \subseteq FolderValues /\ Missing # NullText
    /\ \A tree \in Trees : IsTree(tree)
    /\ Requests \subseteq [kind : {"append", "overwrite"}, by : SUBSET Schema,
                            declared : Seq(Schema),
                            batches : Seq(Seq([Schema -> FolderValues]))]
    /\ MaxCalls \in Nat /\ MaxFaults \in Nat

StoredIn(leaf) == IF leaf \in DOMAIN leaves THEN leaves[leaf] ELSE <<>>

\* folder_reader: every leaf in turn, its partition columns restored.
TableRows ==
    LET order == SetToSeq(DOMAIN leaves) IN
    FlattenSeq([n \in DOMAIN order |->
        [m \in DOMAIN leaves[order[n]] |-> With(leaves[order[n]][m], order[n].dir)]])

-----------------------------------------------------------------------------
NoCall == [kind |-> "append", by |-> {}, declared |-> <<>>, batches |-> <<>>]

FolderInit ==
    /\ \E tree \in Trees : dirs = tree.dirs /\ leaves = tree.leaves
    /\ call = NoCall /\ phase = "idle" /\ toClear = {}
    /\ batches = <<>> /\ groups = <<>> /\ written = {}
    /\ before = TableRows /\ ended = "none" /\ calls = 0 /\ faults = 0

\* write_partition_columns: the stored layout, or the declared one where
\* nothing is stored; none when they disagree.
Layout(request) ==
    IF StoredColumns = <<>> THEN {request.declared}
    ELSE IF request.declared \in {<<>>, StoredColumns} THEN {StoredColumns}
    ELSE {}

\* Mutant: no stale partition is emptied.
ToClearNone(request) == {}

\* An overwrite empties every leaf; a merge and an append none.
ToClear(request) ==
    IF request.kind = "overwrite" /\ request.by = {} THEN DOMAIN leaves ELSE {}

Begin(request) ==
    /\ phase = "idle" /\ calls < MaxCalls
    /\ calls' = calls + 1
    /\ call' = request
    /\ before' = TableRows
    /\ written' = {} /\ groups' = <<>>
    /\ IF Layout(request) = {}
       THEN /\ ended' = "refused"
            /\ UNCHANGED <<phase, toClear, batches>>
       ELSE /\ ended' = "none"
            /\ phase' = "clearing"
            /\ toClear' = ToClear(request)
            /\ batches' = request.batches
    /\ UNCHANGED <<dirs, leaves, faults>>

\* part.clear().  Leaves are emptied in the order of their URLs; the order
\* matters to nothing below and is left open.
ClearLeaf ==
    /\ phase = "clearing"
    /\ \E leaf \in toClear :
         /\ leaves' = [leaves EXCEPT ![leaf] = <<>>]
         /\ toClear' = toClear \ {leaf}
    /\ UNCHANGED <<dirs, call, phase, batches, groups, written, before, ended, calls, faults>>

Cleared ==
    /\ phase = "clearing" /\ toClear = {}
    /\ phase' = "writing"
    /\ UNCHANGED <<dirs, leaves, call, toClear, batches, groups, written,
                   before, ended, calls, faults>>

\* The layout of a call under way: no other writer changes the tree.
LaidOut == CHOOSE columns \in Layout(call) : TRUE

\* split_by_partition: one group per directory, in order of first appearance.
SplitByPartition(batch) ==
    LET places == Firsts([n \in DOMAIN batch |-> DirOf(batch[n], LaidOut)]) IN
    [p \in DOMAIN places |->
        [dir |-> places[p],
         rows |-> Only(batch, {row \in Range(batch) : DirOf(row, LaidOut) = places[p]})]]

NextBatch ==
    /\ phase = "writing" /\ groups = <<>> /\ batches # <<>>
    /\ groups' = SplitByPartition(Head(batches))
    /\ batches' = Tail(batches)
    /\ UNCHANGED <<dirs, leaves, call, phase, toClear, written, before, ended, calls, faults>>

\* leaf_options: the leaf neither stores nor matches the partition columns.
LeafKey(dir) == call.by \ Spelled(dir)

\* Mutant: every batch that reaches a leaf performs the caller's operation.
ContentsEach(group, leaf) ==
    LET rows == [n \in DOMAIN group.rows |-> Without(group.rows[n], Spelled(group.dir))]
        by == LeafKey(group.dir)
    IN IF by # {} THEN FlattenSeq(Merged(<<StoredIn(leaf)>>, <<rows>>, by))
       ELSE IF call.kind = "overwrite" THEN rows
       ELSE StoredIn(leaf) \o rows

\* A key that is left merges into the leaf; without one the first batch of an overwrite to
\* reach the leaf replaces it, and everything else is appended.
Contents(group, leaf) ==
    LET rows == [n \in DOMAIN group.rows |-> Without(group.rows[n], Spelled(group.dir))]
        by == LeafKey(group.dir)
    IN IF by # {} THEN FlattenSeq(Merged(<<StoredIn(leaf)>>, <<rows>>, by))
       ELSE IF call.kind = "overwrite" /\ leaf \notin written THEN rows
       ELSE StoredIn(leaf) \o rows

\* Writing a leaf creates its directories.
Put(leaf, rows) ==
    /\ leaves' = [other \in DOMAIN leaves \cup {leaf} |->
                      IF other = leaf THEN rows ELSE leaves[other]]
    /\ dirs' = dirs \cup Chain(leaf.dir)

WriteLeaf ==
    /\ phase = "writing" /\ groups # <<>>
    /\ LET leaf == LeafFor(Head(groups).dir) IN
         /\ Put(leaf, Contents(Head(groups), leaf))
         /\ written' = written \cup {leaf}
    /\ groups' = Tail(groups)
    /\ UNCHANGED <<call, phase, toClear, batches, before, ended, calls, faults>>

Finish ==
    /\ phase = "writing" /\ groups = <<>> /\ batches = <<>>
    /\ phase' = "idle" /\ ended' = "ok"
    /\ UNCHANGED <<dirs, leaves, call, toClear, batches, groups, written,
                   before, calls, faults>>

-----------------------------------------------------------------------------
(* Failures: the call returns the error where it stands.                   *)

Fail(how) ==
    /\ faults < MaxFaults
    /\ faults' = faults + 1
    /\ phase' = "idle" /\ ended' = how
    /\ toClear' = {} /\ batches' = <<>> /\ groups' = <<>>
    /\ UNCHANGED <<call, written, before, calls>>

ClearFails ==
    /\ phase = "clearing" /\ toClear # {}
    /\ Fail("failed")
    /\ UNCHANGED <<dirs, leaves>>

\* The incoming reader fails, or a column the layout needs is not among its.
BatchFails ==
    /\ phase = "writing" /\ groups = <<>> /\ batches # <<>>
    /\ Fail("failed")
    /\ UNCHANGED <<dirs, leaves>>

\* The rows are encoded before the leaf is touched; then it is truncated and
\* written, so that a failure may leave it as it was, empty, or complete.
LeafFails ==
    /\ phase = "writing" /\ groups # <<>>
    /\ LET leaf == LeafFor(Head(groups).dir) IN
         \/ Fail("failed") /\ UNCHANGED <<dirs, leaves>>
         \/ Fail("emptied") /\ Put(leaf, <<>>)
         \/ Fail("failed") /\ Put(leaf, Contents(Head(groups), leaf))

FolderNext ==
    \/ \E request \in Requests : Begin(request)
    \/ ClearLeaf \/ Cleared \/ NextBatch \/ WriteLeaf \/ Finish
    \/ ClearFails \/ BatchFails \/ LeafFails

FolderSpec == FolderInit /\ [][FolderNext]_folderVars

-----------------------------------------------------------------------------
(* What must hold.                                                         *)

FolderTypeOK ==
    /\ phase \in {"idle", "clearing", "writing"}
    /\ ended \in {"none", "ok", "failed", "emptied", "refused"}
    /\ toClear \subseteq DOMAIN leaves
    /\ \A leaf \in DOMAIN leaves :
         /\ Chain(leaf.dir) \subseteq dirs
         /\ \A row \in Range(leaves[leaf]) : Spelled(leaf.dir) \cap DOMAIN row = {}
    /\ calls \in 0..MaxCalls /\ faults \in 0..MaxFaults

\* The tree never spells two layouts: each directory is a prefix of the
\* deepest one's columns, so a leaf's path says exactly which columns it lacks.
OneLayout ==
    \A dir \in dirs : IsPrefix(ColumnsOf(dir), StoredColumns)

\* Paths, leaves and rows fit together in one layout.
TreeHolds == FolderTypeOK /\ OneLayout

\* What the caller's rows read back as: a path cannot tell the absent value
\* from the text that spells it.
AsRead(row) ==
    [column \in DOMAIN row |->
        IF column \in Range(StoredColumns) THEN FromText(column, Text(row[column]))
        ELSE row[column]]

Arrived ==
    LET rows == FlattenSeq(call.batches) IN [n \in DOMAIN rows |-> AsRead(rows[n])]

\* One leaf in every partition and none above them.
OneLeafEach ==
    \A leaf \in DOMAIN leaves :
        /\ ColumnsOf(leaf.dir) = StoredColumns
        /\ \A other \in DOMAIN leaves : leaf.dir = other.dir => leaf = other

Merging == call.by # {}
KeyedInLeaves == call.by \ Range(StoredColumns) # {}

\* The rows of `rows` in a partition that no arriving row names.
NotNamed(rows) ==
    LET named == {DirOf(row, StoredColumns) : row \in Range(Arrived)}
    IN Only(rows, {row \in Range(rows) : DirOf(row, StoredColumns) \notin named})

\* What one unpartitioned file would hold after the call, matching inside
\* partitions only; a key of partition columns alone replaces the partitions.
Promised ==
    IF ~Merging
    THEN IF call.kind = "append" THEN before \o Arrived ELSE Arrived
    ELSE IF KeyedInLeaves THEN Upsert(before, Arrived, call.by \cup Range(StoredColumns))
    ELSE IF call.kind = "append" THEN before \o Arrived ELSE NotNamed(before) \o Arrived

\* A call that succeeds leaves the rows one file would hold, however the rows
\* were split into batches and partitions: an overwrite has no stale partition
\* and no batch overwritten by the next, a merge over partitions of one leaf is
\* the upsert of the table.
RowsOfOneFile ==
    (ended = "ok" /\ (Merging => OneLeafEach)) => SameRows(TableRows, Promised)

\* The tree keeps its layout and its calls do what one file would.
FolderIsOneTable == TreeHolds /\ RowsOfOneFile

\* An overwrite writes nothing before everything old is gone: at no point,
\* whether it then fails or not, are old and new rows in the tree together.
OverwriteNeverMixes ==
    (call.kind = "overwrite" /\ ~Merging /\ written # {}) =>
        ToBag(TableRows) \sqsubseteq ToBag(Arrived)

\* Whatever step fails, an append loses nothing that was stored and stores no
\* arriving row twice: but of a call that ended between the truncation of a
\* leaf and its write, which leaves that leaf empty, it says nothing.
AppendKeepsEveryRow ==
    (call.kind = "append" /\ ~Merging /\ ended \notin {"emptied", "refused"}) =>
        /\ ToBag(before) \sqsubseteq ToBag(TableRows)
        /\ ToBag(TableRows) \sqsubseteq ToBag(before \o Arrived)

\* A merge, finished, failed or under way, and whatever its key, changes no
\* row of a partition that no arriving row names.
MergeStaysInItsPartitions ==
    Merging => SameRows(NotNamed(TableRows), NotNamed(before))

\* Whatever step fails, or while it is under way, a call has mixed no old rows
\* with the new, lost none it has no business with and stored none twice.
FailureKeepsRows == OverwriteNeverMixes /\ AppendKeepsEveryRow /\ MergeStaysInItsPartitions

=============================================================================
