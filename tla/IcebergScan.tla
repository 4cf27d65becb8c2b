---------------------------- MODULE IcebergScan ----------------------------
(***************************************************************************)
(* What the operations of rust/src/iceberg/table.rs do to the rows of a    *)
(* table: append, filtered overwrite, keyed merge and compaction plan over *)
(* the manifests with ScanPruning, carry over what they exclude, and write *)
(* the rest anew under the default partition spec.  One writer; commits    *)
(* racing each other are IcebergCommit's.                                  *)
(***************************************************************************)
EXTENDS ScanPruning, RecordMerge

CONSTANTS
    Incoming,      \* what a caller may write: sequences of batches of cells
    ReadFilters,   \* the filter sets a scan is asked with
    WriteFilters,  \* the filter sets an overwrite or a merge is asked with
    MatchKeys,     \* the sets of columns a merge matches on
    MaxWrites      \* bound: how many commits are made in all

ASSUME ScanAssumption ==
    /\ Incoming \subseteq Seq(Seq([part : Cells, key : Cells]))
    /\ \A filters \in ReadFilters \cup WriteFilters : filters \subseteq Filter
    /\ MatchKeys \subseteq SUBSET Columns
    /\ MaxWrites \in Nat

VARIABLES
    spec,        \* the default partition spec
    manifests,   \* the current snapshot's manifest list
    writes,      \* commits made
    asked        \* history: the last write and the rows it found

vars == <<spec, manifests, writes, asked>>

FilesIn(list) == FlattenSeq([n \in DOMAIN list |-> list[n].files])
RowsIn(files) == FlattenSeq([n \in DOMAIN files |-> files[n].rows])

\* scan(None): every row, in plan order.
AllRows == RowsIn(FilesIn(manifests))

TypeOK ==
    /\ spec \in {"identity", "none"}
    /\ \A manifest \in Range(manifests) :
         /\ manifest.spec \in {"identity", "none"}
         /\ manifest.files # <<>>
         /\ \A file \in Range(manifest.files) :
              /\ file.spec = manifest.spec
              /\ file.tuple \in Cells
              /\ file.rows # <<>>
              /\ \A row \in Range(file.rows) : row.part \in Cells /\ row.key \in Cells
    /\ writes \in 0..MaxWrites

Init ==
    /\ spec \in {"identity", "none"}
    /\ manifests = <<>>
    /\ writes = 0
    /\ asked = [op |-> "none", batches |-> <<>>, filters |-> {}, by |-> {},
                before |-> <<>>, layouts |-> {}]

-----------------------------------------------------------------------------
(* Planning.                                                               *)

\* Mutant: a manifest that was not opened is not kept either.
SkippedForgotten(filters) == <<>>

\* plan: the manifests the summaries exclude, then the files of the others.
Skipped(filters) ==
    Only(manifests, {m \in Range(manifests) : ~ManifestMatches(m, filters)})
Opened(filters) ==
    FilesIn(Only(manifests, {m \in Range(manifests) : ManifestMatches(m, filters)}))
Tasks(filters) ==
    LET opened == Opened(filters)
    IN Only(opened, {file \in Range(opened) : FileMatches(file, filters)})
Excluded(filters) ==
    LET opened == Opened(filters)
    IN Only(opened, {file \in Range(opened) : ~FileMatches(file, filters)})

PassesAll(row, filters) == \A filter \in filters : Passes(row, filter)

\* apply_filters: what of a sequence of rows every filter accepts.
Accepted(rows, filters) == Only(rows, {row \in Range(rows) : PassesAll(row, filters)})

\* scan_where: the planned files, and of their rows what the residual accepts.
ScanWhere(filters) ==
    LET tasks == Tasks(filters) IN
    FlattenSeq([n \in DOMAIN tasks |->
        Accepted(tasks[n].rows, Residual(tasks[n], filters))])

-----------------------------------------------------------------------------
(* Writing.                                                                *)

\* Mutant: a null is grouped by the text it prints, which is a value's too.
GroupKeyUnmarked(row) ==
    IF spec = "none" THEN Null
    ELSE IF row.part = Null THEN CHOOSE v \in Values : TRUE ELSE row.part

\* row_groups: everything is told apart by its text, and a null by a marker,
\* which is taken to be no value's text.
GroupKey(row) == IF spec = "none" THEN Null ELSE row.part

\* A batch without rows is neither written nor passed on.
WithRows(batches) == Only(batches, Range(batches) \ {<<>>})

\* grouped_batches: one group per key, each a sequence of (partial) batches.
Grouped(batches) ==
    LET keys == Firsts([n \in DOMAIN FlattenSeq(batches) |-> GroupKey(FlattenSeq(batches)[n])])
        taken(n) == [b \in DOMAIN batches |->
                      Only(batches[b], {row \in Range(batches[b]) : GroupKey(row) = keys[n]})]
    IN [n \in DOMAIN keys |-> WithRows(taken(n))]

\* rolled: a file closes at a batch boundary, with a target either every batch
\* reaches or none does.
Rolled(group, target) == IF target = "small" THEN group ELSE <<FlattenSeq(group)>>

\* write_data_file: the tuple is the one of the group's first row.
DataFiles(group, target) ==
    LET chunks == Rolled(group, target) IN
    [n \in DOMAIN chunks |->
        [spec |-> spec,
         tuple |-> IF spec = "identity" THEN group[1][1].part ELSE Null,
         rows |-> chunks[n]]]

ManifestOf(files) ==
    IF files = <<>> THEN <<>> ELSE <<[spec |-> files[1].spec, files |-> files]>>

\* The files of one commit's rows, in one manifest.
Written(batches, target) ==
    LET groups == Grouped(batches) IN
    ManifestOf(FlattenSeq([n \in DOMAIN groups |-> DataFiles(groups[n], target)]))

\* carried_manifests: the kept files, one manifest per spec.
Carried(files) ==
    LET specs == Firsts([n \in DOMAIN files |-> files[n].spec]) IN
    [n \in DOMAIN specs |->
        [spec |-> specs[n],
         files |-> Only(files, {file \in Range(files) : file.spec = specs[n]})]]

\* commit: `kept` untouched, then the new manifest.
Commit(op, kept, batches, incoming, filters, by) ==
    /\ writes < MaxWrites
    /\ writes' = writes + 1
    /\ \E target \in {"small", "large"} :
         manifests' = kept \o Written(WithRows(batches), target)
    /\ asked' = [op |-> op, batches |-> incoming, filters |-> filters, by |-> by,
                 before |-> AllRows,
                 layouts |-> {file.spec : file \in Range(FilesIn(manifests))}]
    /\ UNCHANGED spec

\* The caller's rows, each known by its write and its place.
Arriving(batches) ==
    [b \in DOMAIN batches |-> [n \in DOMAIN batches[b] |->
        [part |-> batches[b][n].part, key |-> batches[b][n].key,
         from |-> <<writes + 1, 10 * b + n>>]]]

-----------------------------------------------------------------------------
(* The operations.                                                         *)

AppendRows ==
    \E batches \in Incoming :
        Commit("append", manifests, Arriving(batches), Arriving(batches), {}, {})

\* overwrite_where: what the filters exclude is kept, the rest is replaced.
OverwriteWhere ==
    \E batches \in Incoming, filters \in WriteFilters :
        Commit("overwrite", Skipped(filters) \o Carried(Excluded(filters)),
               Arriving(batches), Arriving(batches), filters, {})

\* merge_where: of the planned files only those that may hold an arriving key
\* are read, folded and rewritten; they are read whole, without the filters.
MergeWhere ==
    \E batches \in Incoming, filters \in WriteFilters, by \in MatchKeys \ {{}} :
        LET arriving == Arriving(batches)
            rows == Range(FlattenSeq(arriving))
            tasks == Tasks(filters)
            selected == Only(tasks, {f \in Range(tasks) : Mergeable(f, rows, by)})
            unread == Only(tasks, {f \in Range(tasks) : ~Mergeable(f, rows, by)})
            stored == [n \in DOMAIN selected |-> selected[n].rows]
        IN Commit("merge", Skipped(filters) \o Carried(Excluded(filters) \o unread),
                  Merged(stored, arriving, by), arriving, filters, by)

\* compact groups the live files by spec and tuple.
Place(file) == <<file.spec, file.tuple>>

\* compact: groups of two files or more; which of those have an undersized
\* file is for the target size to say, so any of them may be chosen.
Compact ==
    LET files == FilesIn(manifests)
        several == {Place(files[n]) : n \in {n \in DOMAIN files :
                       \E m \in 1..(n - 1) : Place(files[m]) = Place(files[n])}}
    IN \E chosen \in SUBSET several \ {{}} :
         LET selected == Only(files, {f \in Range(files) : Place(f) \in chosen})
             carried == Only(files, {f \in Range(files) : Place(f) \notin chosen})
         IN Commit("replace", Carried(carried),
                   [n \in DOMAIN selected |-> selected[n].rows], <<>>, {}, {})

\* add_spec and set_default_spec, through commit_changes: no file is touched.
SetDefaultSpec ==
    /\ spec' = IF spec = "identity" THEN "none" ELSE "identity"
    /\ UNCHANGED <<manifests, writes, asked>>

Next ==
    AppendRows \/ OverwriteWhere \/ MergeWhere \/ Compact \/ SetDefaultSpec

Spec == Init /\ [][Next]_vars

-----------------------------------------------------------------------------
(* What must hold.                                                         *)

\* Text the column's type reads, and whose value a bound includes.
Readable(filter) == filter.isNull \/ filter.value # Null
Exact(filter) == Readable(filter) /\ filter.value \notin Unbounded

\* A filtered scan is the full scan, filtered: whatever the summaries, the
\* tuples and the statistics let it skip, and whichever specs the files were
\* written under, it returns the same rows in the same order.  A NaN may find
\* fewer rows, and text that cannot be read may find the null partition.
ScanExact ==
    \A filters \in ReadFilters :
        (\A filter \in filters : Exact(filter)) =>
            ScanWhere(filters) = Accepted(AllRows, filters)

\* A data file under an identity spec holds rows of its own partition only.
RowsInTheirPartition ==
    \A file \in Range(FilesIn(manifests)) :
        file.spec = "identity" =>
            \A row \in Range(file.rows) : row.part = file.tuple

\* The manifests are well formed, tuples, bounds and specs included, and no
\* file of an identity spec holds a row of another partition: what pruning by
\* tuple, residual filters and grouped writes all rely on.
TableHolds == TypeOK /\ RowsInTheirPartition

\* A merge is the upsert of the whole table, although it reads only the files
\* whose statistics leave room for an arriving key; a NaN may be told apart
\* from its stored self.
MergeExact ==
    (/\ asked.op = "merge" /\ asked.filters = {}
     /\ \A row \in Range(FlattenSeq(asked.batches)) : \A column \in asked.by :
           row[column] \notin Unbounded) =>
        SameRows(AllRows, Upsert(asked.before, FlattenSeq(asked.batches), asked.by))

\* A merge, filtered or not, changes no row that no arriving key matches.
MergeKeepsTheRest ==
    asked.op = "merge" =>
        LET incoming == FlattenSeq(asked.batches)
            untouched(rows) == {row \in Range(rows) : Matching(incoming, row, asked.by) = {}}
            rows == AllRows
        IN SameRows(Only(rows, untouched(rows)),
                    Only(asked.before, untouched(asked.before)))

\* A merge upserts the table and touches nothing else, whatever files it read.
MergesExact == MergeExact /\ MergeKeepsTheRest

\* An overwrite whose filters the partition settles replaces those rows only,
\* unless the type cannot read a filter's text.
OverwriteExact ==
    (/\ asked.op = "overwrite"
     /\ \A filter \in asked.filters :
           filter.column = "part" /\ Readable(filter) /\ asked.layouts \subseteq {"identity"})
    => SameRows(AllRows,
                Only(asked.before,
                     {row \in Range(asked.before) : ~PassesAll(row, asked.filters)})
                  \o FlattenSeq(asked.batches))

\* A compaction moves rows and loses none; an append adds its own.
RowsKept ==
    /\ asked.op = "replace" => SameRows(AllRows, asked.before)
    /\ asked.op = "append" => SameRows(AllRows, asked.before \o FlattenSeq(asked.batches))

\* Every other write keeps, adds and drops exactly the rows it says, however
\* they are carried, grouped by partition and rolled into files.
WritesExact == OverwriteExact /\ RowsKept

=============================================================================
