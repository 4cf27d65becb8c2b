----------------------------- MODULE ArrayCast -----------------------------
(***************************************************************************)
(* Casting an Arrow array to a field: rust/src/field/cast/plan.rs, with    *)
(* the defaults of datatype/default.rs and the readers of arrow/value.rs.  *)
(*                                                                         *)
(* An array is [kind, rows, children], and every layout has slots no row   *)
(* shows: under a null, outside every list's range, behind no dictionary   *)
(* key, in the branches a sparse union does not take, beside a slice.  A   *)
(* row is                                                                  *)
(*   a leaf value, or Null                for a leaf,                      *)
(*   whether it is present                for a struct,                    *)
(*   [valid, from, to] in its child       for a list, a view or a map,     *)
(*   the place of its value, 0 for null   for a dictionary,                *)
(*   the place of its value               for a run-end encoding,          *)
(*   [id, at]: its branch and the place   for a union,                     *)
(* and `shown' is always the set of rows that somebody can see.  A type is *)
(* [kind, fields], a field [name, type, nullable].  A dictionary's values  *)
(* are one nullable field, which is how the code plans them.               *)
(*                                                                         *)
(* Memory budgets, the widths of offsets and dictionary keys, and values   *)
(* nested in a dictionary's own dictionary are left out.                   *)
(***************************************************************************)
EXTENDS SequencesExt

CONSTANT KeyCapacity    \* how many values a dictionary's key type can name

Null == "null"
Failed == [kind |-> "failed"]
Leaves == {"int", "long", "text", "flag"}
Lists == {"list", "view", "fixed", "map"}
Unions == {"sparse", "dense"}

\* eq_ignore_ascii_case, over the names the instances use.
Fold(name) == IF name = "A" THEN "a" ELSE name

\* What Arrow's leaf kernels do: every number prints, some texts parse, "i2"
\* fits only a long, and a flag converts to nothing.  "t1" and "t01" are two
\* spellings of one number.
Prints == [i0 |-> "tz", i1 |-> "t1", i2 |-> "ty"]
Parses == [t1 |-> "i1", t01 |-> "i1", tz |-> "i0", ty |-> "i2"]
Zero == [int |-> "i0", long |-> "i0", text |-> "t", flag |-> "f"]
Rank == [i0 |-> 1, i1 |-> 2, i2 |-> 3, t |-> 1, t01 |-> 2, t1 |-> 3, ty |-> 4, tz |-> 5, tx |-> 6]

Convertible(source, target) == source # target /\ {source, target} \subseteq Leaves \ {"flag"}
Converted(value, target) ==
    LET number == IF value \in DOMAIN Parses THEN Parses[value] ELSE value IN
    CASE target = "text" -> Prints[value]
      [] target # "text" /\ number \in {"i0", "i1"} -> number
      [] target = "long" /\ number = "i2" -> number
      [] OTHER -> Null

-----------------------------------------------------------------------------
\* logical_null_at: a dictionary, a union and a run-end encoding own no
\* validity of their own; their value's place does.
RECURSIVE LogicalNull(_, _)
LogicalNull(array, row) ==
    LET cell == array.rows[row]
        place == IF array.kind \in Unions THEN cell ELSE [id |-> 1, at |-> cell]
    IN CASE array.kind \in Leaves -> cell = Null
         [] array.kind = "struct" -> ~cell
         [] array.kind \in Lists  -> ~cell.valid
         [] OTHER -> \/ array.kind = "dict" /\ cell = 0
                     \/ LogicalNull(array.children[place.id], place.at)

NullRows(array, shown) == {row \in shown : LogicalNull(array, row)}

\* The slots of child k that a row selects.
Selects(array, k, row) ==
    LET cell == array.rows[row] IN
    CASE array.kind = "struct" -> IF cell THEN {row} ELSE {}
      [] array.kind \in Lists  -> IF cell.valid THEN cell.from .. cell.to ELSE {}
      [] array.kind = "dict"   -> {cell} \ {0}
      [] array.kind = "runs"   -> {cell}
      [] array.kind \in Unions -> IF cell.id = k THEN {cell.at} ELSE {}

\* Mutant: every slot of a child counts as seen.
ExposedWhole(array, k, shown) == DOMAIN array.children[k].rows

\* visible_array_exposure, range_exposure, selected_index_exposure and
\* run_value_exposure: the slots of child k that a shown row selects.
Exposed(array, k, shown) == UNION {Selects(array, k, row) : row \in shown}

NullValue == <<"null">>
IsNull(value) == \/ value = NullValue
                 \/ value[1] = "branch" /\ value[3] \in {NullValue}

\* value_from_array: what a row means, whatever the layout.
RECURSIVE ValueAt(_, _)
ValueAt(array, row) ==
    LET cell == array.rows[row]
        held(k, place) == ValueAt(array.children[k], place)
    IN CASE array.kind \in Leaves -> IF cell = Null THEN NullValue ELSE <<"leaf", cell>>
         [] array.kind = "struct" ->
               IF ~cell THEN NullValue
               ELSE <<"row", [k \in DOMAIN array.children |-> held(k, row)]>>
         [] array.kind \in Lists ->
               IF ~cell.valid THEN NullValue
               ELSE <<"list", [n \in 1 .. (cell.to + 1 - cell.from) |-> held(1, cell.from + n - 1)]>>
         [] array.kind = "dict" -> IF cell = 0 THEN NullValue ELSE held(1, cell)
         [] array.kind = "runs" -> held(1, cell)
         [] array.kind \in Unions -> <<"branch", cell.id, held(cell.id, cell.at)>>

-----------------------------------------------------------------------------
(* What Arrow's kernels do to the layout (external): take, concat and, as  *)
(* a take from the two arrays joined, zip.                                 *)

\* Rows that move with their children: a struct's, a sparse union's.
Aligned(array) == array.kind \in {"struct", "sparse"}

RECURSIVE Take(_, _)
Take(array, places) ==
    LET row(n) == array.rows[places[n]] IN
    [array EXCEPT
        !.rows = [n \in DOMAIN places |->
                     IF array.kind = "sparse" THEN [row(n) EXCEPT !.at = n] ELSE row(n)],
        !.children = IF Aligned(array)
                     THEN [k \in DOMAIN @ |-> Take(@[k], places)] ELSE @]

Moved(kind, cell, by) ==
    CASE kind \in Lists -> [cell EXCEPT !.from = @ + by[1], !.to = @ + by[1]]
      [] kind = "dict"  -> IF cell = 0 THEN 0 ELSE cell + by[1]
      [] kind = "runs"  -> cell + by[1]
      [] kind \in Unions -> [cell EXCEPT !.at = @ + by[cell.id]]
      [] OTHER -> cell

RECURSIVE Joined(_, _)
Joined(left, right) ==
    LET shared == left.kind = "dict" /\ left.children = right.children
        by == [k \in DOMAIN left.children |->
                  IF shared THEN 0 ELSE Len(left.children[k].rows)]
    IN [left EXCEPT
        !.rows = @ \o [n \in DOMAIN right.rows |-> Moved(left.kind, right.rows[n], by)],
        !.children = IF shared THEN @
                     ELSE [k \in DOMAIN @ |-> Joined(@[k], right.children[k])]]

\* zip: `other's first row at the chosen places.
Zipped(array, chosen, other) ==
    LET n == Len(array.rows) IN
    Take(Joined(array, other), [row \in 1..n |-> IF row \in chosen THEN n + 1 ELSE row])

\* What StructArray, ListArray, FixedSizeListArray and MapArray::try_new
\* refuse.  A struct and a fixed list mask what is under their own nulls.
Fits(type, array) ==
    \A k \in DOMAIN type.fields : ~type.fields[k].nullable =>
        LET nulls == NullRows(array.children[k], DOMAIN array.children[k].rows) IN
        CASE type.kind \in {"struct", "fixed"} ->
                nulls \cap Exposed(array, k, DOMAIN array.rows) = {}
          [] type.kind \in {"list", "view", "map"} -> nulls = {}
          [] OTHER -> TRUE

-----------------------------------------------------------------------------
\* new_empty_array.
RECURSIVE EmptyOf(_)
EmptyOf(type) ==
    [kind |-> type.kind, rows |-> <<>>,
     children |-> [k \in DOMAIN type.fields |-> EmptyOf(type.fields[k].type)]]

Repeat(array, n) == Take(array, [row \in 1..n |-> 1])

\* A row of a list that selects the whole of its child.
Span(valid, child) == [valid |-> valid, from |-> 1, to |-> Len(child.rows)]

\* new_null_array (external).
RECURSIVE NullRow(_)
NullRow(type) ==
    LET child(k) == NullRow(type.fields[k].type)
    IN CASE type.kind \in Leaves -> [kind |-> type.kind, rows |-> <<Null>>, children |-> <<>>]
         [] type.kind = "struct" ->
              [kind |-> "struct", rows |-> <<FALSE>>,
               children |-> [k \in DOMAIN type.fields |-> child(k)]]
         [] type.kind = "fixed" ->
              LET items == Repeat(child(1), type.size) IN
              [kind |-> "fixed", rows |-> <<Span(FALSE, items)>>, children |-> <<items>>]
         [] type.kind \in Lists \ {"fixed"} ->
              [EmptyOf(type) EXCEPT !.rows = <<Span(FALSE, EmptyOf(type.fields[1].type))>>]
         [] type.kind = "dict" -> [EmptyOf(type) EXCEPT !.rows = <<0>>]
         [] type.kind = "runs" ->
              [kind |-> "runs", rows |-> <<1>>, children |-> <<child(1)>>]
         [] type.kind \in Unions ->
              [kind |-> type.kind, rows |-> <<[id |-> 1, at |-> 1]>>,
               children |-> [k \in DOMAIN type.fields |->
                   IF k = 1 \/ type.kind = "sparse" THEN child(k)
                   ELSE EmptyOf(type.fields[k].type)]]

-----------------------------------------------------------------------------
(* Values and the arrays they make: arrow/value.rs and datatype/default.rs.*)

\* physical_placeholder: what a slot nobody sees is given.
RECURSIVE Placeholder(_)
Placeholder(type) ==
    CASE type.kind \in Unions -> <<"branch", 1, Placeholder(type.fields[1].type)>>
      [] type.kind = "runs" -> Placeholder(type.fields[1].type)
      [] OTHER -> NullValue

\* plan_physical_null: for a union, in the first branch that may be null.
RECURSIVE PlannedNull(_)
PlannedNull(type) ==
    CASE type.kind \in Unions ->
            LET may == {k \in DOMAIN type.fields : type.fields[k].nullable}
                first == CHOOSE k \in may : \A other \in may : k <= other
            IN IF may = {} THEN Placeholder(type)
               ELSE <<"branch", first, PlannedNull(type.fields[first].type)>>
      [] type.kind = "runs" -> PlannedNull(type.fields[1].type)
      [] OTHER -> NullValue

\* plan_data_type, plan_field and materialize: the canonical default.
RECURSIVE DefaultValue(_)
DefaultValue(type) ==
    LET present(k) == DefaultValue(type.fields[k].type)
        held(k) == IF type.fields[k].nullable THEN PlannedNull(type.fields[k].type)
                   ELSE present(k)
    IN CASE type.kind \in Leaves -> <<"leaf", Zero[type.kind]>>
         [] type.kind = "struct" -> <<"row", [k \in DOMAIN type.fields |-> held(k)]>>
         [] type.kind = "fixed" -> <<"list", [n \in 1..type.size |-> held(1)]>>
         [] type.kind \in Lists \ {"fixed"} -> <<"list", <<>>>>
         [] type.kind \in {"dict", "runs"} -> present(1)
         [] type.kind \in Unions -> <<"branch", 1, present(1)>>

\* default_value_for_field.
DefaultOf(field) == IF field.nullable THEN PlannedNull(field.type) ELSE DefaultValue(field.type)

\* A struct's column k, a placeholder under each null row.
ColumnOf(type, values, k) ==
    [n \in DOMAIN values |-> IF values[n] = NullValue THEN Placeholder(type.fields[k].type)
                             ELSE values[n][2][k]]

\* list_parts and fixed_size_list_array: the items a row brings.
ItemsOf(type, value) ==
    CASE value # NullValue -> value[2]
      [] value = NullValue /\ type.kind = "fixed" ->
            [n \in 1..type.size |-> Placeholder(type.fields[1].type)]
      [] OTHER -> <<>>

\* union_array: a sparse branch has a placeholder where it is not taken.
BranchOf(type, values, k) ==
    IF type.kind = "sparse"
    THEN [n \in DOMAIN values |-> IF values[n][2] = k THEN values[n][3]
                                  ELSE Placeholder(type.fields[k].type)]
    ELSE LET taken == SelectSeq(values, LAMBDA value : value[2] = k) IN
         [n \in DOMAIN taken |-> taken[n][3]]

\* run_array: where each run starts.
RunStarts(values) == {n \in DOMAIN values : n = 1 \/ values[n] # values[n - 1]}
Upto(n, places) == Cardinality({p \in places : p <= n})

\* array_from_values, by struct_array, list_array, fixed_size_list_array,
\* map_array, dictionary_array, run_array and union_array.
RECURSIVE ArrayFromValues(_, _)
ArrayFromValues(type, values) ==
    LET items == [n \in DOMAIN values |-> ItemsOf(type, values[n])]
        before(n) == Len(FlattenSeq(SubSeq(items, 1, n - 1)))
        unique == SetToSeq({values[n] : n \in DOMAIN values} \ {NullValue})
        starts == RunStarts(values)
        built(rows, children) ==
            LET array == [kind |-> type.kind, rows |-> rows,
                          children |-> [k \in DOMAIN children |->
                              ArrayFromValues(type.fields[k].type, children[k])]]
            IN IF \E k \in DOMAIN array.children : array.children[k] = Failed THEN Failed
               ELSE IF Fits(type, array) THEN array ELSE Failed
    IN CASE type.kind \in Leaves ->
              built([n \in DOMAIN values |-> IF values[n] = NullValue THEN Null ELSE values[n][2]],
                    <<>>)
         [] type.kind = "struct" ->
              built([n \in DOMAIN values |-> values[n] # NullValue],
                    [k \in DOMAIN type.fields |-> ColumnOf(type, values, k)])
         [] type.kind \in Lists ->
              built([n \in DOMAIN values |->
                        [valid |-> values[n] # NullValue,
                         from |-> before(n) + 1, to |-> before(n) + Len(items[n])]],
                    <<FlattenSeq(items)>>)
         [] type.kind = "dict" ->
              IF Len(unique) > KeyCapacity THEN Failed
              ELSE built([n \in DOMAIN values |->
                             IF values[n] = NullValue THEN 0
                             ELSE CHOOSE p \in DOMAIN unique : unique[p] = values[n]],
                         <<unique>>)
         [] type.kind = "runs" ->
              built([n \in DOMAIN values |-> Upto(n, starts)],
                    <<[r \in 1..Cardinality(starts) |->
                         values[CHOOSE n \in starts : Upto(n, starts) = r]]>>)
         [] type.kind \in Unions ->
              built([n \in DOMAIN values |->
                        [id |-> values[n][2],
                         at |-> IF type.kind = "sparse" THEN n
                                ELSE Upto(n, {m \in DOMAIN values : values[m][2] = values[n][2]})]],
                    [k \in DOMAIN type.fields |-> BranchOf(type, values, k)])

\* default_arrow_scalar of a required field.
DefaultRow(type) == ArrayFromValues(type, <<DefaultValue(type)>>)

-----------------------------------------------------------------------------
(* Dictionaries.  Two arrays are zipped only after their dictionaries are  *)
(* one vocabulary; a vocabulary may hold more values than keys can name.   *)

RECURSIVE HasDictionary(_)
HasDictionary(type) ==
    type.kind = "dict" \/ \E k \in DOMAIN type.fields : HasDictionary(type.fields[k].type)

\* dictionary_live_indices.
Live(array, shown) == {array.rows[row] : row \in shown} \ {0}

\* make_yggdryl_comparator: two places hold one value, whatever holds it.
Same(left, p, right, q) == ValueAt(left, p) = ValueAt(right, q)

\* One place for each value among the given places.
Representatives(words, places) ==
    SetToSortSeq({p \in places : \A q \in places : Same(words, p, words, q) => p <= q}, <)

PlaceOf(words, among, value) == CHOOSE p \in among : ValueAt(words, p) = value
Holds(words, among, value) == \E p \in among : ValueAt(words, p) = value

\* remap_dictionary_to_values: a hidden key is parked on the first value.
Remapped(array, shown, words, among) ==
    [array EXCEPT
        !.rows = [row \in DOMAIN @ |->
            IF @[row] = 0 THEN 0
            ELSE IF row \in shown
                 THEN PlaceOf(words, among, ValueAt(array.children[1], @[row]))
            ELSE IF words.rows = <<>> THEN 0 ELSE 1],
        !.children = <<words>>]

\* align_dictionary_arrays_typed.
AlignedDictionaries(left, right, inLeft, inRight) ==
    LET mine == left.children[1]
        theirs == right.children[1]
        used == Live(left, inLeft)
        usedThere == Live(right, inRight)
        covered == \A p \in usedThere : Holds(mine, used, ValueAt(theirs, p))
        covers == \A p \in used : Holds(theirs, usedThere, ValueAt(mine, p))
        fresh == {p \in usedThere : ~Holds(mine, used, ValueAt(theirs, p))}
        words == Joined(Take(mine, Representatives(mine, used)),
                        Take(theirs, Representatives(theirs, fresh)))
    IN CASE mine = theirs -> <<left, right>>
         [] mine # theirs /\ covered ->
              <<left, Remapped(right, inRight, mine, used)>>
         [] mine # theirs /\ ~covered /\ covers ->
              <<Remapped(left, inLeft, theirs, usedThere), right>>
         [] OTHER ->
              IF Len(words.rows) > KeyCapacity THEN <<Failed, Failed>>
              ELSE <<Remapped(left, inLeft, words, DOMAIN words.rows),
                     Remapped(right, inRight, words, DOMAIN words.rows)>>

\* align_nested_dictionaries.
RECURSIVE AlignedNested(_, _, _, _, _)
AlignedNested(type, left, right, inLeft, inRight) ==
    LET pair == [k \in DOMAIN type.fields |->
                    AlignedNested(type.fields[k].type, left.children[k], right.children[k],
                                  Exposed(left, k, inLeft), Exposed(right, k, inRight))]
    IN CASE ~HasDictionary(type) -> <<left, right>>
         [] type.kind = "dict" -> AlignedDictionaries(left, right, inLeft, inRight)
         [] OTHER ->
              IF \E k \in DOMAIN pair : pair[k][1] = Failed THEN <<Failed, Failed>>
              ELSE <<[left EXCEPT !.children = [k \in DOMAIN pair |-> pair[k][1]]],
                     [right EXCEPT !.children = [k \in DOMAIN pair |-> pair[k][2]]]>>

ZippedAs(type, array, shown, chosen, other) ==
    LET pair == AlignedNested(type, array, other, shown, {1}) IN
    IF pair[1] = Failed THEN Failed ELSE Zipped(pair[1], chosen, pair[2])

\* default_array: a missing column.  What nobody sees is a null of the layout.
DefaultArray(field, n, shown) ==
    IF field.nullable \/ shown = {} THEN Repeat(NullRow(field.type), n)
    ELSE ZippedAs(field.type, Repeat(DefaultRow(field.type), n), 1..n,
                  (1..n) \ shown, NullRow(field.type))

\* fill_dictionary_nulls_typed: the values still named, one of each, and the
\* default beside them unless it is one of them.
FilledDictionary(field, array, shown) ==
    LET nulls == NullRows(array, shown)
        words == array.children[1]
        default == DefaultRow(field.type.fields[1].type)
        kept == Take(words, Representatives(words, Live(array, (DOMAIN array.rows) \ nulls)))
        known == Holds(kept, DOMAIN kept.rows, ValueAt(default, 1))
        held == IF known THEN kept ELSE Joined(kept, default)
        place(value) == PlaceOf(held, DOMAIN held.rows, value)
    IN IF ~known /\ Len(held.rows) > KeyCapacity THEN Failed
       ELSE [array EXCEPT
                !.rows = [row \in DOMAIN @ |->
                    CASE row \in nulls -> place(ValueAt(default, 1))
                      [] row \notin nulls /\ @[row] = 0 -> 0
                      [] OTHER -> place(ValueAt(words, @[row]))],
                !.children = <<held>>]

\* fill_nulls: shown nulls become the default, hidden ones stay.
FillNulls(field, array, shown) ==
    LET nulls == NullRows(array, shown)
        n == Len(array.rows)
    IN CASE nulls = {} -> array
         [] nulls # {} /\ field.type.kind = "dict" -> FilledDictionary(field, array, shown)
         [] nulls # {} /\ field.type.kind # "dict" /\ HasDictionary(field.type) /\ nulls = shown ->
              Repeat(DefaultRow(field.type), n)
         [] OTHER -> ZippedAs(field.type, array, shown \ nulls, nulls, DefaultRow(field.type))

-----------------------------------------------------------------------------
(* The plan.                                                               *)

\* folded_field_index, once the names are known to be unambiguous.
SourceOf(fields, name) == {j \in DOMAIN fields : Fold(fields[j].name) = Fold(name)}

Ambiguous(fields) == \E j, k \in DOMAIN fields :
    j # k /\ Fold(fields[j].name) = Fold(fields[k].name)

\* nested_kind: the layouts that are rebuilt child by child.
Planned(target, source) ==
    /\ target.kind = source.kind
    /\ target.kind \notin Leaves
    /\ target.kind = "fixed" => target.size = source.size

RECURSIVE ContainsStruct(_)
ContainsStruct(type) ==
    \/ type.kind \in {"struct", "map"}
    \/ \E k \in DOMAIN type.fields : ContainsStruct(type.fields[k].type)

\* can_cast_types and generic_kernel_materialization_is_bounded: leaves, and
\* a dictionary printed as text.
Kernel(target, source) ==
    /\ target.kind \in Leaves
    /\ \/ Convertible(source.kind, target.kind)
       \/ /\ source.kind = "dict" /\ target.kind = "text"
          /\ source.fields[1].type.kind \in {"int", "text"}

\* nested_kind: what is refused before a row is looked at.
RECURSIVE Unplannable(_, _, _)
Unplannable(target, source, entries) ==
    LET child(k, j) == Unplannable(target.fields[k].type, source.fields[j].type,
                                   target.kind = "map")
    IN CASE ~Planned(target, source) -> ContainsStruct(target)
         [] target.kind = "struct" ->
              \/ Ambiguous(target.fields) \/ Ambiguous(source.fields)
              \/ \E k \in DOMAIN target.fields :
                    LET from == SourceOf(source.fields, target.fields[k].name) IN
                    IF from = {} THEN entries /\ k = 1 ELSE \E j \in from : child(k, j)
         [] target.kind \in Unions ->
              \/ Len(target.fields) # Len(source.fields)
              \/ \E k \in DOMAIN target.fields : child(k, k)
         [] OTHER -> child(1, 1)

-----------------------------------------------------------------------------
(* The cast.  A policy says what becomes of nulls: "field" obeys the       *)
(* field's own nullability, "bare" is a datatype without a field, and a    *)
(* map's "entries" and its keys ("reject") may hold none.                  *)

\* arrow_cast_exposed: only what somebody sees is converted; the rest is null.
KernelCast(target, array, shown, safe) ==
    LET converted(row) ==
            LET value == ValueAt(array, row) IN
            IF row \notin shown \/ IsNull(value) THEN Null
            ELSE IF target.kind = "text" /\ value[2] \notin DOMAIN Prints THEN value[2]
            ELSE Converted(value[2], target.kind)
        spoilt == {row \in shown : ~LogicalNull(array, row) /\ converted(row) = Null}
    IN IF ~safe /\ spoilt # {} THEN Failed
       ELSE [kind |-> target.kind, rows |-> [row \in DOMAIN array.rows |-> converted(row)],
             children |-> <<>>]

\* validate_map_invariants: keys are present and distinct, and in order when
\* the map declares it.
KeysHold(type, array, shown) ==
    \A row \in shown : array.rows[row].valid =>
        LET places == array.rows[row].from .. array.rows[row].to
            keys == array.children[1].children[1]
            rank(p) == Rank[ValueAt(keys, p)[2]]
        IN /\ \A p \in places : ~LogicalNull(keys, p)
           /\ \A p, q \in places : p # q => ~Same(keys, p, keys, q)
           /\ type.sorted => \A p, q \in places : p < q => rank(p) < rank(q)

RECURSIVE CastExposed(_, _, _, _, _, _)

\* A child k of an array, cast where a shown row selects it.
CastChild(field, policy, source, array, k, shown, safe) ==
    CastExposed(field, policy, source.fields[k].type, array.children[k],
                Exposed(array, k, shown), safe)

\* cast_struct_array: the columns a struct is rebuilt from.
StructColumns(target, source, array, shown, policy, safe) ==
    LET visible == Exposed(array, 1, shown) IN
    [k \in DOMAIN target.fields |->
        LET field == target.fields[k]
            from == SourceOf(source.fields, field.name)
            j == CHOOSE j \in from : TRUE
        IN IF from = {} THEN DefaultArray(field, Len(array.rows), visible)
           ELSE CastChild(field, IF policy = "entries" /\ k = 1 THEN "reject" ELSE "field",
                          source, array, j, shown, safe)]

\* cast_list_array: a required item is present in the slots nobody sees too.
ListChild(target, source, array, shown, safe) ==
    LET item == target.fields[1]
        values == CastChild(item, "field", source, array, 1, shown, safe)
    IN IF values = Failed \/ item.nullable THEN values
       ELSE FillNulls(item, values, DOMAIN values.rows)

\* cast_map_array, cast_dictionary_planned, cast_run_planned and
\* cast_union_planned cast each child where it is seen.
ChildrenOf(target, source, array, shown, policy, safe) ==
    CASE target.kind = "struct" -> StructColumns(target, source, array, shown, policy, safe)
      [] target.kind \in {"list", "view", "fixed"} ->
            <<ListChild(target, source, array, shown, safe)>>
      [] OTHER ->
            [k \in DOMAIN target.fields |->
                CastChild(target.fields[k], IF target.kind = "map" THEN "entries" ELSE "field",
                          source, array, k, shown, safe)]

\* A run-end encoding that is a slice is not rebuilt.
Sliced(array) == "slice" \in DOMAIN array

\* The early returns: nothing to change, or nothing of it is seen.
Unchanged(target, source, array, shown, children) ==
    /\ target = source
    /\ \/ children = array.children
       \/ target.kind = "map" /\ \A row \in shown : ~array.rows[row].valid
       \/ target.kind = "dict" /\ \A row \in shown : array.rows[row] = 0

\* The layout over its cast children.
Rebuilt(target, source, array, shown, children) ==
    LET built == [array EXCEPT !.children = children] IN
    IF target.kind = "map" /\ ~KeysHold(source, array, shown) THEN Failed
    ELSE IF Unchanged(target, source, array, shown, children) THEN array
    ELSE IF \/ \E k \in DOMAIN children : children[k] = Failed
            \/ target.kind = "runs" /\ Sliced(array)
            \/ ~Fits(target, built)
            \/ target.kind = "map" /\ ~KeysHold(target, built, shown)
         THEN Failed
    ELSE built

\* The policy on what is null.
Mended(field, policy, cast, shown) ==
    CASE cast = Failed -> Failed
      [] cast # Failed /\ policy \in {"reject", "entries"} ->
           IF NullRows(cast, shown) = {} THEN cast ELSE Failed
      [] OTHER ->
           IF policy = "bare" \/ (policy = "field" /\ ~field.nullable)
           THEN FillNulls(field, cast, shown) ELSE cast

\* cast_exposed: the kind the plan chose, then the policy.
CastExposed(field, policy, source, array, shown, safe) ==
    LET target == field.type IN
    Mended(field, policy,
        CASE target = source /\ target.kind \in Leaves -> array
          [] Planned(target, source) ->
               Rebuilt(target, source, array, shown,
                       ChildrenOf(target, source, array, shown, policy, safe))
          [] target # source /\ Kernel(target, source) ->
               KernelCast(target, array, shown, safe)
          [] OTHER ->
               IF NullRows(array, shown) # shown THEN Failed
               ELSE DefaultArray(field, Len(array.rows), shown),
        shown)

\* Field::cast_arrow_array, and DataType's, whose policy is "bare".
CastArray(field, policy, source, array, safe) ==
    IF Unplannable(field.type, source, FALSE) THEN Failed
    ELSE CastExposed(field, policy, source, array, DOMAIN array.rows, safe)

\* cast_record_batch: a batch is a struct array nobody may be missing from.
CastBatch(field, source, batch, safe) ==
    IF field.nullable \/ field.type.kind # "struct" THEN Failed
    ELSE CastArray(field, "field", source, batch, safe)

-----------------------------------------------------------------------------
(* What the caller asked for, value by value and with no layout in sight.  *)

Broken == <<"broken">>
Whole(tag, items) == IF \E n \in DOMAIN items : items[n] = Broken THEN Broken
                     ELSE <<tag, items>>

KeysAre(type, items) ==
    /\ \A n \in DOMAIN items : ~IsNull(items[n][2][1])
    /\ \A n, m \in DOMAIN items : n # m => items[n][2][1] # items[m][2][1]
    /\ type.sorted => \A n, m \in DOMAIN items :
                          n < m => Rank[items[n][2][1][2]] < Rank[items[m][2][1][2]]

RECURSIVE ValueOf(_, _, _, _, _)
ValueOf(field, policy, source, value, safe) ==
    LET target == field.type
        of(k, under, j, held) ==
            ValueOf(target.fields[k], under, source.fields[j].type, held, safe)
        row == [k \in DOMAIN target.fields |->
                   LET from == SourceOf(source.fields, target.fields[k].name) IN
                   IF from = {} THEN DefaultOf(target.fields[k])
                   ELSE LET j == CHOOSE j \in from : TRUE IN
                        of(k, IF policy = "entries" /\ k = 1 THEN "reject" ELSE "field",
                           j, value[2][j])]
        list == Whole("list", [n \in DOMAIN value[2] |->
                    of(1, IF target.kind = "map" THEN "entries" ELSE "field", 1, value[2][n])])
        converted == IF target.kind = "text" /\ value[2] \notin DOMAIN Prints THEN value[2]
                     ELSE Converted(value[2], target.kind)
        cast ==
          CASE target = source /\ target.kind \in Leaves -> value
            [] target.kind \in {"dict", "runs"} /\ Planned(target, source) ->
                 of(1, "field", 1, value)
            [] target.kind \in Unions /\ Planned(target, source) ->
                 LET held == of(value[2], "field", value[2], value[3])
                 IN IF held = Broken THEN Broken ELSE <<"branch", value[2], held>>
            [] target.kind \in Lists /\ Planned(target, source) ->
                 IF IsNull(value) THEN NullValue
                 ELSE IF list = Broken THEN Broken
                 ELSE IF target.kind = "map" /\ ~(KeysAre(source, value[2]) /\ KeysAre(target, list[2]))
                 THEN Broken ELSE list
            [] target.kind = "struct" /\ Planned(target, source) ->
                 IF IsNull(value) THEN NullValue ELSE Whole("row", row)
            [] target # source /\ ~Planned(target, source) /\ IsNull(value) -> NullValue
            [] OTHER ->
                 IF Kernel(target, source) /\ (safe \/ converted # Null)
                 THEN IF converted = Null THEN NullValue ELSE <<"leaf", converted>>
                 ELSE Broken
    IN IF cast = Broken \/ ~IsNull(cast) THEN cast
       ELSE IF policy \in {"reject", "entries"} THEN Broken
       ELSE IF policy = "bare" \/ ~field.nullable THEN DefaultValue(target)
       ELSE cast

=============================================================================
