-------------------------- MODULE SchemaEvolution --------------------------
(***************************************************************************)
(* Evolving an Iceberg table's columns while its rows are read and written *)
(* (rust/src/iceberg/evolve.rs, metadata.rs, table.rs, scan.rs and         *)
(* statistics.rs).                                                         *)
(*                                                                         *)
(* A column is named by its id, a batch by its column names: every append  *)
(* and every scan casts by name (ArrayCast), statistics are kept by id,    *)
(* and a file keeps the columns it was written under for ever.             *)
(*                                                                         *)
(* A handle evolves and appends under the document it last saw, and its    *)
(* commit, when beaten, is applied to the winner's; the race itself is in  *)
(* IcebergCommit.  An update is built in one of three ways:                *)
(*   "bound"     from the handle's document, numbered there (Rust, Node),  *)
(*   "replayed"  in the commit, on the document it lands on (Python),      *)
(*   "raw"       by the caller, whose new columns add_schema numbers.      *)
(*                                                                         *)
(* A column is [name, type, nullable, id], its id 0 while unnumbered.      *)
(* `born' is a ghost: which update introduced the column.  Partitioned     *)
(* specs are left to IcebergScan, doc strings and the widths of decimals   *)
(* are left out.                                                           *)
(***************************************************************************)
EXTENDS ArrayCast

CONSTANTS
    Handles,
    FirstColumns,       \* the columns a table is created with, numbered
    Updates,            \* the sequences of operations a caller records
    Batches,            \* what is appended: [source, array]
    MaxEvolutions, MaxFiles     \* bounds

VARIABLES
    table,      \* the newest document
    handles,    \* the document each handle last saw
    overridden  \* ghost: how the updates put on a document they had not seen were built

vars == <<table, handles, overridden>>

-----------------------------------------------------------------------------
(* Columns.                                                                *)

RECURSIVE Unnumbered(_), Numbered(_, _), Ids(_), Stripped(_, _), Plain(_)

Unnumbered(columns) ==
    FoldLeft(LAMBDA n, column : n + (IF column.id = 0 THEN 1 ELSE 0)
                                  + Unnumbered(column.type.fields), 0, columns)

\* assign_parquet_field_ids: depth first, leaving what has a number.
Numbered(columns, next) ==
    [k \in DOMAIN columns |->
        LET start == next + Unnumbered(SubSeq(columns, 1, k - 1))
            own == IF columns[k].id = 0 THEN 1 ELSE 0
        IN [columns[k] EXCEPT !.id = IF @ = 0 THEN start ELSE @,
                              !.type.fields = Numbered(@, start + own)]]

Ids(columns) == UNION {{columns[k].id} \union Ids(columns[k].type.fields) : k \in DOMAIN columns}

\* strip_ids, and the birth of what is added.
Stripped(columns, birth) ==
    [k \in DOMAIN columns |->
        [columns[k] EXCEPT !.id = 0, !.born = Append(birth, k),
                           !.type.fields = Stripped(@, Append(birth, k))]]

\* A column as a batch declares it.
Plain(columns) ==
    [k \in DOMAIN columns |->
        [name |-> columns[k].name, nullable |-> columns[k].nullable,
         type |-> [columns[k].type EXCEPT !.fields = Plain(@)]]]

RootOf(columns) == [name |-> "row", nullable |-> FALSE,
                    type |-> [kind |-> "struct", fields |-> Plain(columns)]]

Named(columns, name) == {k \in DOMAIN columns : columns[k].name = name}

\* edit_children: the columns beside the one a path names, at most one deep.
Reaches(columns, parent) ==
    parent # <<>> => \E k \in Named(columns, parent[1]) : columns[k].type.kind = "struct"
Siblings(columns, parent) ==
    IF parent = <<>> THEN columns
    ELSE columns[CHOOSE k \in Named(columns, parent[1]) : TRUE].type.fields
WithSiblings(columns, parent, edited) ==
    IF parent = <<>> THEN edited
    ELSE [k \in DOMAIN columns |->
             IF k \in Named(columns, parent[1])
             THEN [columns[k] EXCEPT !.type.fields = edited] ELSE columns[k]]

-----------------------------------------------------------------------------
(* SchemaUpdate.                                                           *)

CanPromote(from, to) == from = to \/ (from.kind = "int" /\ to.kind = "long")

\* What apply_add, apply_drop, apply_rename, apply_nullable and apply_type
\* refuse.
Allowed(op, columns) ==
    /\ Reaches(columns, op.parent)
    /\ LET beside == Siblings(columns, op.parent) IN
       CASE op.kind = "add" -> Named(beside, op.column.name) = {}
         [] op.kind = "rename" -> /\ Named(beside, op.name) # {}
                                  /\ op.to # op.name => Named(beside, op.to) = {}
         [] op.kind = "type" -> /\ Named(beside, op.name) # {}
                                /\ \A k \in Named(beside, op.name) :
                                      CanPromote(beside[k].type, op.type)
         [] OTHER -> Named(beside, op.name) # {}

Applied(op, columns, birth) ==
    LET beside == Siblings(columns, op.parent)
        changed(Change(_)) == [k \in DOMAIN beside |->
            IF beside[k].name = op.name THEN Change(beside[k]) ELSE beside[k]]
    IN WithSiblings(columns, op.parent,
        CASE op.kind = "add" -> beside \o Stripped(<<op.column>>, birth)
          [] op.kind = "drop" -> SelectSeq(beside, LAMBDA column : column.name # op.name)
          [] op.kind = "rename" -> changed(LAMBDA column : [column EXCEPT !.name = op.to])
          [] op.kind = "nullable" -> changed(LAMBDA column : [column EXCEPT !.nullable = TRUE])
          [] op.kind = "type" -> changed(LAMBDA column : [column EXCEPT !.type = op.type]))

Current(document) == document.schemas[document.current]

\* Mutant: numbers follow the columns that are left.
NextIdLeft(document) == Max(Ids(Current(document))) + 1

\* SchemaUpdate::for_metadata.
NextId(document) == document.lastId + 1

\* SchemaUpdate::apply; a caller's raw schema is not numbered here.
Played(ops, document, numbering, born) ==
    LET play(state, op) ==
            IF ~state.ok \/ ~Allowed(op, state.columns) THEN [state EXCEPT !.ok = FALSE]
            ELSE LET columns == Applied(op, state.columns, <<born, state.step>>)
                     numbered == op.kind = "add" /\ numbering
                 IN [ok |-> TRUE, step |-> state.step + 1,
                     columns |-> IF numbered THEN Numbered(columns, state.next) ELSE columns,
                     next |-> state.next + IF numbered THEN Unnumbered(columns) ELSE 0]
    IN FoldLeft(play, [ok |-> TRUE, step |-> 1, columns |-> Current(document),
                       next |-> NextId(document)], ops)

\* TableMetadata::add_schema and set_current_schema.
WithSchema(document, columns) ==
    LET numbered == Numbered(columns, document.lastId + 1) IN
    [document EXCEPT
        !.schemas = Append(@, numbered),
        !.current = Len(document.schemas) + 1,
        !.lastId = Max({@} \union Ids(numbered))]

-----------------------------------------------------------------------------
(* Reading.  A file is [columns, batch], its statistics what a footer says *)
(* of each column that is a leaf.                                          *)

\* Refine::batch: by name, refusing what does not convert.
ReadFile(document, file) ==
    CastBatch(RootOf(Current(document)), RootOf(file.columns).type, file.batch, FALSE)

RowsOf(array) == [row \in DOMAIN array.rows |-> ValueAt(array, row)]

\* statistics::data_file, for column j of a file.
CellsIn(file, j) == {file.batch.children[j].rows[row] : row \in DOMAIN file.batch.rows}
Ordered(cells) == SetToSortSeq(cells \ {Null}, LAMBDA x, y : Rank[x] < Rank[y])

\* compare_single decodes a bound as the column's type is now: an int's four
\* bytes are too few for a long and read as zero, and an int takes a long's
\* low half.
Decoded(value, written, now) ==
    CASE written = "int" /\ now = "long" -> Zero["long"]
      [] written = "long" /\ now = "int" /\ value \notin {"i0", "i1"} -> Zero["int"]
      [] OTHER -> value

StatisticsOf(file, column) ==
    {j \in DOMAIN file.columns : /\ file.columns[j].id = column.id
                                 /\ file.columns[j].type.kind \in Leaves}

\* Mutant: a column without statistics holds no null.
StatisticsAllowMissing(file, column, value) ==
    value # Null \/ \E j \in StatisticsOf(file, column) : Null \in CellsIn(file, j)

\* statistics_allow, for an equality or, of Null, for the absence.
StatisticsAllow(file, column, value) ==
    \A j \in StatisticsOf(file, column) :
        LET bounds == Ordered(CellsIn(file, j))
            decoded(bound) == Decoded(bound, file.columns[j].type.kind, column.type.kind)
        IN IF value = Null THEN Null \in CellsIn(file, j)
           ELSE /\ bounds # <<>>
                /\ Rank[decoded(bounds[1])] <= Rank[value]
                /\ Rank[value] <= Rank[decoded(bounds[Len(bounds)])]

\* apply_filters.
Passing(rows, k, value) ==
    SelectSeq(rows, LAMBDA row :
        row[2][k] = IF value = Null THEN NullValue ELSE <<"leaf", value>>)

PassingRead(read, k, value) ==
    IF read = Failed THEN <<Failed>> ELSE Passing(RowsOf(read), k, value)

\* The rows a scan filtered on column k yields from one file, which reads as
\* `read`.
FilteredFile(document, file, read, k, value) ==
    IF ~StatisticsAllow(file, Current(document)[k], value) THEN <<>>
    ELSE PassingRead(read, k, value)

-----------------------------------------------------------------------------
Init ==
    /\ table = [schemas |-> <<FirstColumns>>, current |-> 1,
                lastId |-> Max(Ids(FirstColumns)), files |-> <<>>]
    /\ handles = [h \in Handles |-> table]
    /\ overridden = {}

\* Opening the table again.
Refresh(h) ==
    /\ handles' = [handles EXCEPT ![h] = table]
    /\ UNCHANGED <<table, overridden>>

\* Table::evolve_schema, and the commit of Python's update_schema.
EvolveSchema(h, ops, how) ==
    /\ Len(table.schemas) <= MaxEvolutions
    /\ LET seen == IF how = "replayed" THEN table ELSE handles[h]
           played == Played(ops, seen, how # "raw", Len(table.schemas))
       IN /\ played.ok
          /\ table' = WithSchema(table, played.columns)
          /\ overridden' = IF Current(seen) = Current(table) /\ seen.lastId = table.lastId
                           THEN overridden ELSE overridden \union {how}
    /\ handles' = [handles EXCEPT ![h] = table']

\* write_data_file: the batch under the handle's schema.
Written(seen, batch) ==
    [columns |-> Current(seen),
     batch |-> CastBatch(RootOf(Current(seen)), batch.source, batch.array, FALSE)]

\* Table::append, with grouped_batches: a beaten append lands on the winner.
AppendRows(h) ==
    /\ Len(table.files) < MaxFiles
    /\ \E file \in {Written(handles[h], batch) : batch \in Batches} :
          /\ file.batch # Failed
          /\ table' = [table EXCEPT !.files = Append(@, file)]
    /\ handles' = [handles EXCEPT ![h] = table']
    /\ UNCHANGED overridden

EvolveNext ==
    \E h \in Handles :
        \/ Refresh(h)
        \/ \E ops \in Updates, how \in {"bound", "replayed", "raw"} : EvolveSchema(h, ops, how)
        \/ AppendRows(h)

-----------------------------------------------------------------------------
(* Properties.                                                             *)

RECURSIVE Tree(_), ById(_, _, _), NamesAgree(_, _)

Tree(columns) == UNION {{columns[k]} \union Tree(columns[k].type.fields) : k \in DOMAIN columns}
Everywhere == UNION ({Tree(table.schemas[n]) : n \in DOMAIN table.schemas}
                     \union {Tree(table.files[n].columns) : n \in DOMAIN table.files})

\* An id is never given to a second column, retired or not, and a column
\* keeps its id through every update (evolve.rs:3-6): whatever the updates,
\* unless one numbered on a document was put on another it had not seen.
IdsNameColumns ==
    "bound" \notin overridden =>
        /\ \A x, y \in Everywhere : x.id = y.id <=> x.born = y.born
        /\ \A x \in Everywhere : x.id \in 1 .. table.lastId

\* What a row of a file means under the current columns: each column's cell
\* is the one written under its id; where there is none, null if it may be.
ById(columns, stored, value) ==
    IF value = NullValue THEN NullValue
    ELSE <<"row", [k \in DOMAIN columns |->
        LET from == {j \in DOMAIN stored : stored[j].id = columns[k].id} IN
        IF from = {}
        THEN IF columns[k].nullable THEN NullValue ELSE DefaultValue(Plain(columns)[k].type)
        ELSE LET j == CHOOSE j \in from : TRUE IN
             IF columns[k].type.kind = "struct"
             THEN ById(columns[k].type.fields, stored[j].type.fields, value[2][j])
             ELSE value[2][j]]>>

RowsById(file) ==
    [row \in DOMAIN file.batch.rows |->
        ById(Current(table), file.columns, ValueAt(file.batch, row))]

\* Names and ids pair a file's columns with the current ones alike.
NamesAgree(columns, stored) ==
    /\ ~Ambiguous(columns)
    /\ \A k \in DOMAIN columns, j \in DOMAIN stored :
          /\ Fold(columns[k].name) = Fold(stored[j].name) <=> columns[k].id = stored[j].id
          /\ columns[k].id = stored[j].id =>
                NamesAgree(columns[k].type.fields, stored[j].type.fields)

Followed(file) == overridden = {} /\ NamesAgree(Current(table), file.columns)

\* Every file ever written stays readable, with each column's own cells,
\* a promotion included, and a default for what it predates (evolve_schema,
\* table.rs:988-990): for files whose names still say what their ids do.
ReadFollowsColumns(file, read) == read # Failed /\ RowsOf(read) = RowsById(file)

LeafColumns == {k \in DOMAIN Current(table) : Current(table)[k].type.kind \in Leaves}
FilterValues(kind) == {Null} \union (IF kind = "text" THEN {"t1", "tx"} ELSE {"i0", "i1"})

\* A filtered scan of one file is its rows, filtered: what the statistics
\* kept by id prune is never a row the caller asked for.
FilterIsExact(file, read, k) ==
    \A value \in FilterValues(Current(table)[k].type.kind) :
        FilteredFile(table, file, read, k, value) = Passing(RowsById(file), k, value)

Promoted(file, k) ==
    \E j \in DOMAIN file.columns : /\ file.columns[j].id = Current(table)[k].id
                                   /\ file.columns[j].type # Current(table)[k].type

\* Filters are exact whatever evolution a file predates, for columns whose
\* type is the one their bounds were written in.
FiltersFollowColumns(file, read) ==
    \A k \in LeafColumns : ~Promoted(file, k) => FilterIsExact(file, read, k)

\* A scan, filtered or not, follows the columns through every evolution.
ScansFollowColumns ==
    \A n \in DOMAIN table.files :
        LET file == table.files[n] IN
        Followed(file) =>
            \A read \in {ReadFile(table, file)} :
                ReadFollowsColumns(file, read) /\ FiltersFollowColumns(file, read)

\* The rule without the exception: a filter is applied to the rows the
\* surviving files hold, because statistics bound a file (table.rs:695-698),
\* and a promotion is legal because every stored value reads back as the new
\* type (evolve.rs:64).
PromotedFiltersAreExact ==
    \A n \in DOMAIN table.files, k \in LeafColumns :
        Followed(table.files[n]) =>
            FilterIsExact(table.files[n], ReadFile(table, table.files[n]), k)

=============================================================================
