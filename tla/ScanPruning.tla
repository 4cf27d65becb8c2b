---------------------------- MODULE ScanPruning ----------------------------
(***************************************************************************)
(* How an Iceberg scan and an Iceberg merge decide which manifests and     *)
(* which data files to open (rust/src/iceberg/scan.rs, statistics.rs and   *)
(* KeyBounds in table.rs): the summaries of a manifest list, the partition *)
(* tuple of a file, and the bounds and null counts of its columns.  None   *)
(* of them may hide a row the caller asked for.                            *)
(*                                                                         *)
(* A row has the column a spec may partition on and one stored column.  A  *)
(* set of bounds is empty when no bound is recorded, which prunes nothing. *)
(***************************************************************************)
EXTENDS Integers, Sequences, Functions

CONSTANTS
    Values,      \* what a column may hold, in the order its type compares
    Null,        \* the absent value
    Portable,    \* the columns whose type carries bounds (is_portable)
    Unbounded    \* values a Parquet footer's minimum and maximum leave out

ASSUME PruningAssumption ==
    /\ Values \subseteq Int
    /\ Null \notin Int
    /\ Unbounded \subseteq Values

Columns == {"part", "key"}
Cells == Values \cup {Null}

\* A row, with where it came from: its write and its place among the
\* incoming rows.
Row == [part : Cells, key : Cells, from : Nat \X Nat]

\* `spec` is the layout the file was written under: "identity" on `part`, or
\* "none"; `tuple` is its partition tuple, Null under "none".
File == [spec : {"identity", "none"}, tuple : Cells, rows : Seq(Row)]

\* A manifest holds files of one spec.
Manifest == [spec : {"identity", "none"}, files : Seq(File)]

\* One (column, text) pair, resolved: text that names no value of the column's
\* type resolves to Null too, but only the text "null" asks for the absence.
Filter == {filter \in [column : Columns, value : Cells, isNull : BOOLEAN] :
              filter.isNull => filter.value = Null}

CellsOf(file, column) == {row[column] : row \in Range(file.rows)}

Least(S) == {v \in S : \A u \in S : v <= u}
Greatest(S) == {v \in S : \A u \in S : u <= v}

\* statistics::data_file: a column's bounds, from the file's footer.
Lower(file, column) ==
    IF column \in Portable THEN Least(CellsOf(file, column) \ ({Null} \cup Unbounded)) ELSE {}
Upper(file, column) ==
    IF column \in Portable THEN Greatest(CellsOf(file, column) \ ({Null} \cup Unbounded)) ELSE {}

\* Mutant: a null value does not reach the summary.
SummaryWithoutNull(files) ==
    LET tuples == {file.tuple : file \in files} \ {Null} IN
    [containsNull |-> FALSE,
     lower |-> IF "part" \in Portable THEN Least(tuples) ELSE {},
     upper |-> IF "part" \in Portable THEN Greatest(tuples) ELSE {}]

\* summaries: what the manifest list says of a manifest's partition values.
Summary(files) ==
    LET tuples == {file.tuple : file \in files} IN
    [containsNull |-> Null \in tuples,
     lower |-> IF "part" \in Portable THEN Least(tuples \ {Null}) ELSE {},
     upper |-> IF "part" \in Portable THEN Greatest(tuples \ {Null}) ELSE {}]

\* partition_index: only an identity transform of the column settles a filter.
Settles(spec, filter) == spec = "identity" /\ filter.column = "part"

\* single_value: the filter's value as bytes a bound compares with, if any.
Encoded(filter) ==
    IF filter.column \in Portable THEN {filter.value} \ {Null} ELSE {}

Within(v, lower, upper) == (\A b \in lower : b <= v) /\ (\A b \in upper : v <= b)

SummaryAllows(summary, filter) ==
    IF filter.isNull THEN summary.containsNull
    ELSE \A v \in Encoded(filter) : Within(v, summary.lower, summary.upper)

ManifestMatches(manifest, filters) ==
    \A filter \in filters :
        Settles(manifest.spec, filter)
            => SummaryAllows(Summary(Range(manifest.files)), filter)

StatisticsAllow(file, filter) ==
    LET cells == CellsOf(file, filter.column) IN
    IF filter.isNull THEN Null \in cells
    ELSE /\ cells # {Null}
         /\ \A v \in Encoded(filter) :
              Within(v, Lower(file, filter.column), Upper(file, filter.column))

FileMatches(file, filters) ==
    \A filter \in filters :
        IF Settles(file.spec, filter) THEN file.tuple = filter.value
        ELSE StatisticsAllow(file, filter)

Residual(file, filters) == {filter \in filters : ~Settles(file.spec, filter)}

\* apply_filters on one row: a null equals no value.
Passes(row, filter) ==
    IF filter.isNull THEN row[filter.column] = Null
    ELSE row[filter.column] # Null /\ row[filter.column] = filter.value

\* KeyBound::may_hold: a merge's incoming keys may match a row of the file.
MayHold(file, column, keys) ==
    \/ column \notin Portable
    \/ Null \in keys /\ Null \in CellsOf(file, column)
    \/ LET held == keys \ {Null} IN
       /\ held # {}
       /\ \A lo \in Lower(file, column) : \A hi \in Upper(file, column) :
            \A least \in Least(held) : \A most \in Greatest(held) :
                lo <= most /\ least <= hi

KeyOf(row, by) == [column \in by |-> row[column]]

\* KeyBounds::may_hold: every match-key column leaves room.
Mergeable(file, rows, by) ==
    \A column \in by : MayHold(file, column, {row[column] : row \in rows})

=============================================================================
