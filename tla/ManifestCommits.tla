--------------------------- MODULE ManifestCommits ---------------------------
(***************************************************************************)
(* What one table's commits do with manifests (commit, carried_manifests   *)
(* and write_manifest_file of rust/src/iceberg/table.rs, and what a plan   *)
(* reads of them in scan.rs).                                              *)
(*                                                                         *)
(* An execution is one table's commits in the order they took: each writes *)
(* new files into a manifest, may rewrite the entries it keeps of some     *)
(* others, and writes a list.  Which files a commit keeps is IcebergScan's *)
(* and how commits race IcebergCommit's; here a commit drops any one file. *)
(***************************************************************************)
EXTENDS Manifests

CONSTANTS
    Tables,         \* where an execution starts: a value of `table'
    Schema, Specs,  \* the table's schema, and the specs files are written under
    Contents,       \* what a new file may be: [spec, file], a file without its path
    Paths           \* bound: the paths of new files, in the order they are taken

VARIABLES
    table,          \* [version, sequence, list]: format_version,
                    \* last_sequence_number, and the current manifest list or none
    manifests,      \* the containers lists name, by location
    commits,        \* how many commits there were
    live            \* ghost: of each file of the table, its spec, its tuple and
                    \* the sequence number of the commit that added it

manifestVars == <<table, manifests, commits, live>>

SpecOf(id) == CHOOSE spec \in Specs : spec.id = id
Rows == IF table.list = None THEN <<>> ELSE The(ReadList(The(table.list)))

\* inherit.
Inherit(entry, row) ==
    [entry EXCEPT !.snapshot = Some(OrElse(@, row.snapshot)),
                  !.sequence = Some(OrElse(@, row.sequence)),
                  !.fileSequence = Some(OrElse(@, row.sequence))]

\* plan: the tasks of the k-th of some rows, [row, spec, entry], the entries of its
\* manifest that are left and have rows.
Planned(rows, k) ==
    The(AndThen(ReadManifest(manifests[rows[k].path]), LAMBDA entries :
        Some(FlattenSeq([n \in DOMAIN entries |->
            IF entries[n].status = Deleted \/ entries[n].file.records = 0 THEN <<>>
            ELSE <<[row |-> k, spec |-> rows[k].spec, entry |-> Inherit(entries[n], rows[k])]>>]))))
TasksOf(rows, opened) ==
    FlattenSeq([k \in DOMAIN rows |-> IF k \in opened THEN Planned(rows, k) ELSE <<>>])
DataRows(rows) == {k \in DOMAIN rows : rows[k].content = 0}

\* Mutant: a carried entry leaves its numbers to be inherited again.
CarriedUnnumbered(entry) ==
    [entry EXCEPT !.status = Existing, !.sequence = None, !.fileSequence = None]

\* ManifestEntry::added and existing.
AddedEntry(snapshot, file) ==
    [status |-> Added, snapshot |-> Some(snapshot), sequence |-> None, fileSequence |-> None,
     file |-> file]
Carried(entry) == [entry EXCEPT !.status = Existing]

Total(entries) == FoldLeft(LAMBDA sum, entry : sum + entry.file.records, 0, entries)
Least(numbers, most) ==
    CHOOSE n \in numbers \cup {most} : \A m \in numbers \cup {most} : n <= m

\* write_manifest_file, of entries that are all added or all carried: the row
\* that names it.
RowOf(path, spec, entries, snapshot, next) ==
    LET added == entries # <<>> /\ entries[1].status = Added
        zero == [key \in Range(RowCounts) |-> 0]
    IN [path |-> path, length |-> 1, spec |-> spec.id, content |-> 0, sequence |-> next,
        least |-> Least({The(entries[k].sequence) : k \in
                            {k \in DOMAIN entries : entries[k].sequence # None}}, next),
        snapshot |-> snapshot, partitions |-> <<>>, firstRow |-> None,
        counts |-> IF added THEN [zero EXCEPT !["added_files_count"] = Len(entries),
                                              !["added_rows_count"] = Total(entries)]
                   ELSE [zero EXCEPT !["existing_files_count"] = Len(entries),
                                     !["existing_rows_count"] = Total(entries)]]

\* carried_manifests: one group per spec, in the order they are met.
GroupsOf(entries) ==
    FoldLeft(LAMBDA groups, planned :
        LET at == SelectInSeq(groups, LAMBDA group : group.spec = planned.spec) IN
        IF at = 0 THEN Append(groups, [spec |-> planned.spec, entries |-> <<Carried(planned.entry)>>])
        ELSE [groups EXCEPT ![at].entries = Append(@, Carried(planned.entry))],
        <<>>, entries)

-----------------------------------------------------------------------------
ManifestInit ==
    \E start \in Tables :
        /\ table = start.table
        /\ manifests = start.manifests
        /\ live = start.live
        /\ commits = 0

Location(snapshot, k) == ToString(snapshot) \o "-m" \o ToString(k)

\* What a commit writes: its manifests by location, and its list of the rows
\* kept, the groups carried and the new files.
Outcome(kept, made) ==
    LET snapshot == commits + 1
        places == [k \in DOMAIN made |-> Location(snapshot, k)]
        containers == Every([k \in DOMAIN made |->
                        WriteManifest(table.version, Schema, SpecOf(made[k].spec), made[k].entries)])
        rows == [k \in DOMAIN made |-> RowOf(places[k], SpecOf(made[k].spec), made[k].entries,
                                             snapshot, table.sequence + 1)]
    IN AndThen(containers, LAMBDA written :
       AndThen(WriteList(table.version, kept \o rows), LAMBDA list :
           Some([list |-> list,
                 manifests |-> [path \in ToSet(places) |->
                    written[CHOOSE k \in DOMAIN places : places[k] = path]]])))

\* commit; version 1 has no sequence numbers.
Commit(kept, groups, added) ==
    \E outcome \in {Outcome(kept, groups \o added)} :
        /\ outcome # None
        /\ commits' = commits + 1
        /\ manifests' = The(outcome).manifests @@ manifests
        /\ table' = [table EXCEPT !.list = Some(The(outcome).list),
                                  !.sequence = IF table.version >= 2 THEN @ + 1 ELSE @]

\* A new file of some spec and tuple.
NewFile(content) ==
    <<[spec |-> content.spec,
       entries |-> <<AddedEntry(commits + 1, [content.file EXCEPT !.path = Paths[commits + 1]])>>]>>
Born(content) ==
    Paths[commits + 1] :> [spec |-> content.spec, partition |-> content.file.partition,
                           born |-> IF table.version >= 2 THEN table.sequence + 1 ELSE 0]

\* commit, keeping Retained::All.
AppendFile ==
    /\ commits < Len(Paths)
    /\ \E content \in Contents :
          /\ Commit(Rows, <<>>, NewFile(content))
          /\ live' = Born(content) @@ live

\* commit, keeping Retained::Only: the manifests a plan skips, and what it opens
\* but for the file that is replaced.  Manifests of deletes are neither.
ReplaceFile ==
    /\ commits < Len(Paths)
    /\ \E rows \in {Rows}, dropped \in DOMAIN live :
       \E opened \in SUBSET DataRows(rows) :
       \E tasks \in {TasksOf(rows, opened)} :
       \E kept \in {SelectSeq(tasks, LAMBDA task : task.entry.file.path # dropped)} :
       \E content \in Contents :
          /\ Len(kept) < Len(tasks)
          /\ Commit(FlattenSeq([k \in DOMAIN rows |->
                        IF k \in DataRows(rows) \ opened THEN <<rows[k]>> ELSE <<>>]),
                    GroupsOf(kept), NewFile(content))
          /\ live' = Born(content) @@ Restrict(live, DOMAIN live \ {dropped})

\* upgrade_format_version.
Upgrade ==
    /\ table.version < 3
    /\ table' = [table EXCEPT !.version = @ + 1]
    /\ UNCHANGED <<manifests, commits, live>>

ManifestNext == AppendFile \/ ReplaceFile \/ Upgrade

-----------------------------------------------------------------------------
(* Properties.                                                             *)

\* Whatever commits carried and whatever version wrote them, the list and its
\* manifests read as the table's files, each once, with the tuple and under the
\* spec it was written with, and with the number of the commit that added it
\* (manifest.rs:203-207); a row's floor is under its entries, and its counts are
\* of them.
FilesKeepOrder ==
    \A rows \in {Rows} :
    \A tasks \in {TasksOf(rows, DataRows(rows))} :
        /\ IsInjective([n \in DOMAIN tasks |-> tasks[n].entry.file.path])
        /\ {tasks[n].entry.file.path : n \in DOMAIN tasks} = DOMAIN live
        /\ \A n \in DOMAIN tasks :
              LET entry == tasks[n].entry
                  file == live[entry.file.path]
                  row == rows[tasks[n].row]
              IN /\ row.spec = file.spec /\ entry.file.partition = file.partition
                 /\ entry.sequence = Some(file.born) /\ entry.fileSequence = Some(file.born)
                 /\ row.least <= file.born /\ file.born <= row.sequence
        /\ \A k \in DOMAIN rows :
              /\ rows[k].sequence <= table.sequence
              /\ k \in DataRows(rows) =>
                    ReadManifestSpec(manifests[rows[k].path]) = Some(SpecOf(rows[k].spec))
              /\ rows[k].counts["added_files_count"] + rows[k].counts["existing_files_count"]
                    >= Cardinality({n \in DOMAIN tasks : tasks[n].row = k})

=============================================================================
