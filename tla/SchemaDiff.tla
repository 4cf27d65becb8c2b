----------------------------- MODULE SchemaDiff -----------------------------
(***************************************************************************)
(* The lazy comparison of two schemas (src/rust/src/field/diff.rs): a      *)
(* stack of work and a queue of lines, advanced one line at a time.        *)
(*                                                                         *)
(* A field is [name, nullable, dictionary, metadata, type], a datatype     *)
(* [kind, params, fields, types, ids, at]: the fields of a nested one, the *)
(* key and value types of a dictionary, the type ids of a union. "at" says *)
(* where nested fields and metadata are stored: two that share storage     *)
(* (the same number, not 0) are one object, and so equal. A line is its    *)
(* sign and its path; the values it prints are left out.                   *)
(***************************************************************************)
EXTENDS Naturals, FiniteSets, Sequences, SequencesExt

CONSTANTS
    Pairs,          \* pairs of fields to compare
    KeyOrder        \* metadata keys, in lexical order

VARIABLES
    left, right,    \* the two fields
    root,           \* "field", or "type" when their datatypes are compared
    withMetadata, returnEqual,
    work,           \* the stack, its top last
    pending,        \* lines found and not yet yielded
    lines,          \* lines yielded
    closed          \* next answered None

vars == <<left, right, root, withMetadata, returnEqual, work, pending, lines, closed>>
inputs == <<left, right, root, withMetadata, returnEqual>>

-----------------------------------------------------------------------------
(* Datatypes.                                                              *)

ParamsOf == [timestamp |-> <<"unit", "timezone">>, fixed |-> <<"length">>,
             union |-> <<"mode">>, map |-> <<"keys_sorted">>]
Params(type) == IF type.kind \in DOMAIN ParamsOf THEN ParamsOf[type.kind] ELSE <<>>

\* The children a path names, in the order they are pushed.
ChildrenOf == [list |-> <<"item">>, fixed |-> <<"item">>, map |-> <<"entries">>,
               ree |-> <<"values", "run_ends">>, dictionary |-> <<"value", "key">>]
Named(type) == IF type.kind \in DOMAIN ChildrenOf THEN ChildrenOf[type.kind] ELSE <<>>

Nested == DOMAIN ChildrenOf \union {"struct", "union"}

Step(name) == <<name, 0>>
IndexStep(i) == <<"fields", i>>

Shared(l, r) == l.at # 0 /\ l.at = r.at

\* data_type_snapshots_identical: nested ones by storage, the others by value.
TypesIdentical(l, r) ==
    /\ l.kind = r.kind /\ l.params = r.params
    /\ l.kind \in Nested => Shared(l, r)

\* field_snapshots_identical.
FieldsIdentical(l, r, metadata) ==
    /\ l.name = r.name /\ l.nullable = r.nullable /\ l.dictionary = r.dictionary
    /\ TypesIdentical(l.type, r.type)
    /\ metadata => Shared(l.metadata, r.metadata)

-----------------------------------------------------------------------------
(* What the engine works on.                                               *)

FieldWork(l, r, path) == [do |-> "field", l |-> l, r |-> r, path |-> path]
TypeWork(l, r, path) == [do |-> "type", l |-> l, r |-> r, path |-> path]
MetadataWork(l, r, after, path) ==
    [do |-> "metadata", l |-> l, r |-> r, after |-> after, path |-> path]
SliceWork(l, r, phase, index, path) ==
    [do |-> "slices", l |-> l, r |-> r, phase |-> phase, index |-> index, path |-> path]

Unless(same, item) == IF same THEN <<>> ELSE <<item>>
Changed(same, path) == IF same THEN <<>> ELSE <<<<"changed", path>>>>

Nothing == [work |-> <<>>, pending |-> <<>>]

\* compare_field. The metadata is pushed first and so comes last.
CompareField(l, r, path) ==
    [pending |->
        Changed(l.name = r.name, path \o <<Step("name")>>)
          \o Changed(l.nullable = r.nullable, path \o <<Step("nullable")>>)
          \o Changed(l.dictionary.id = r.dictionary.id, path \o <<Step("dictionary_id")>>)
          \o Changed(l.dictionary.ordered = r.dictionary.ordered,
                     path \o <<Step("dictionary_is_ordered")>>),
     work |->
        Unless(~withMetadata \/ Shared(l.metadata, r.metadata),
               MetadataWork(l.metadata, r.metadata, <<0, 0>>, path))
          \o Unless(TypesIdentical(l.type, r.type),
                    TypeWork(l.type, r.type, path \o <<Step("data_type")>>))]

\* push_field_property, and push_data_type for a dictionary.
Child(l, r, path, i) ==
    LET name == Named(l)[i]
        at == path \o <<Step(name)>>
        n == Len(Named(l)) - i + 1
    IN IF l.kind = "dictionary"
       THEN Unless(TypesIdentical(l.types[n], r.types[n]), TypeWork(l.types[n], r.types[n], at))
       ELSE Unless(FieldsIdentical(l.fields[n], r.fields[n], withMetadata),
                   FieldWork(l.fields[n], r.fields[n], at))

\* compare_data_type.
CompareType(l, r, path) ==
    LET params == FlattenSeq([i \in DOMAIN Params(l) |->
            Changed(l.params[Params(l)[i]] = r.params[Params(l)[i]], path \o <<Step(Params(l)[i])>>)])
        count == Changed(Len(l.fields) = Len(r.fields), path \o <<Step("field_count")>>)
    IN CASE TypesIdentical(l, r) -> Nothing
         [] ~TypesIdentical(l, r) /\ l.kind # r.kind ->
              [Nothing EXCEPT !.pending = Changed(FALSE, path \o <<Step("kind")>>)]
         [] ~TypesIdentical(l, r) /\ l.kind = r.kind /\ l.kind = "struct" ->
              IF Shared(l, r) THEN Nothing
              ELSE [pending |-> count,
                    work |-> <<SliceWork(l, r, "left", Len(r.fields), path)>>]
         [] ~TypesIdentical(l, r) /\ l.kind = r.kind /\ l.kind = "union" ->
              [pending |-> params \o count, work |-> <<SliceWork(l, r, "ids", 0, path)>>]
         [] ~TypesIdentical(l, r) /\ l.kind = r.kind /\ l.kind \notin {"struct", "union"} ->
              [pending |-> params,
               work |-> FlattenSeq([i \in DOMAIN Named(l) |-> Child(l, r, path, i)])]

-----------------------------------------------------------------------------
(* The two cursors of the metadata.                                        *)

Keys(metadata, after) ==
    {i \in DOMAIN KeyOrder : i > after /\ KeyOrder[i] \in DOMAIN metadata.entries}
First(keys) == CHOOSE i \in keys : \A j \in keys : i <= j

\* compare_metadata: past what both hold alike, to the next difference.
RECURSIVE CompareMetadata(_, _, _, _)
CompareMetadata(l, r, after, path) ==
    LET ls == Keys(l, after[1])
        rs == Keys(r, after[2])
        least == First(ls \union rs)
        inLeft == least \in ls
        inRight == least \in rs
        key == KeyOrder[least]
        next == <<IF inLeft THEN least ELSE after[1], IF inRight THEN least ELSE after[2]>>
        line == <<IF ~inRight THEN "removed" ELSE IF ~inLeft THEN "added" ELSE "changed",
                  path \o <<Step("metadata"), Step(key)>>>>
    IN IF ls \union rs = {} THEN Nothing
       ELSE IF inLeft /\ inRight /\ l.entries[key] = r.entries[key]
       THEN CompareMetadata(l, r, next, path)
       ELSE [work |-> <<MetadataWork(l, r, next, path)>>, pending |-> <<line>>]

-----------------------------------------------------------------------------
(* The cursor of a struct's or a union's fields.                           *)

Common(l, r) == IF Len(l.fields) < Len(r.fields) THEN Len(l.fields) ELSE Len(r.fields)

\* A phase that has nothing left gives way to the next.
AfterIds(item) ==
    LET differing == {i \in item.index..(Common(item.l, item.r) - 1) :
                        item.l.ids[i + 1] # item.r.ids[i + 1]}
    IN IF item.phase # "ids" THEN item
       ELSE IF differing # {} THEN [item EXCEPT !.index = First(differing)]
       ELSE [item EXCEPT !.phase = "left", !.index = Len(item.r.fields)]

\* Mutant: the right's own fields are sought from the first on.
AfterLeftAnew(item) ==
    IF item.phase = "left" /\ item.index >= Len(item.l.fields)
    THEN [item EXCEPT !.phase = "right", !.index = 0] ELSE item

AfterLeft(item) ==
    IF item.phase = "left" /\ item.index >= Len(item.l.fields)
    THEN [item EXCEPT !.phase = "right", !.index = Len(item.l.fields)] ELSE item

AfterRight(item) ==
    IF item.phase = "right" /\ item.index >= Len(item.r.fields)
    THEN [item EXCEPT !.phase = "common", !.index = 0] ELSE item

\* advance_field_slices, advance_union_slices: one line, or one field.
AdvanceSlices(given) ==
    LET item == AfterRight(AfterLeft(AfterIds(given)))
        onward == [item EXCEPT !.index = @ + 1]
        at == item.path \o <<IndexStep(item.index)>>
        differing == {i \in item.index..(Common(item.l, item.r) - 1) :
                        ~FieldsIdentical(item.l.fields[i + 1], item.r.fields[i + 1], withMetadata)}
        i == First(differing)
    IN CASE item.phase = "ids" ->
              [work |-> <<onward>>, pending |-> Changed(FALSE, at \o <<Step("type_id")>>)]
         [] item.phase = "left" -> [work |-> <<onward>>, pending |-> <<<<"removed", at>>>>]
         [] item.phase = "right" -> [work |-> <<onward>>, pending |-> <<<<"added", at>>>>]
         [] item.phase = "common" /\ differing = {} -> Nothing
         [] item.phase = "common" /\ differing # {} ->
              [Nothing EXCEPT !.work =
                  <<[item EXCEPT !.index = i + 1],
                    FieldWork(item.l.fields[i + 1], item.r.fields[i + 1],
                              item.path \o <<IndexStep(i)>>)>>]

-----------------------------------------------------------------------------
\* DiffEngine::from_fields, from_data_types.
Init ==
    /\ \E pair \in Pairs : left = pair[1] /\ right = pair[2]
    /\ root \in {"field", "type"} /\ withMetadata \in BOOLEAN /\ returnEqual \in BOOLEAN
    /\ work = IF root = "field"
              THEN Unless(FieldsIdentical(left, right, withMetadata), FieldWork(left, right, <<>>))
              ELSE Unless(TypesIdentical(left.type, right.type),
                          TypeWork(left.type, right.type, <<>>))
    /\ pending = <<>> /\ lines = <<>> /\ closed = FALSE

Top == work[Len(work)]

\* One turn of DiffEngine::next with no line pending.
Done(result) ==
    /\ work' = Front(work) \o result.work
    /\ pending' = result.pending
    /\ UNCHANGED <<inputs, lines, closed>>

Ready(do) == pending = <<>> /\ work # <<>> /\ Top.do = do

Yield ==
    /\ pending # <<>>
    /\ lines' = Append(lines, Head(pending)) /\ pending' = Tail(pending)
    /\ UNCHANGED <<inputs, work, closed>>

WorkField == Ready("field") /\ Done(CompareField(Top.l, Top.r, Top.path))
WorkType == Ready("type") /\ Done(CompareType(Top.l, Top.r, Top.path))
WorkMetadata == Ready("metadata") /\ Done(CompareMetadata(Top.l, Top.r, Top.after, Top.path))
WorkSlices == Ready("slices") /\ Done(AdvanceSlices(Top))

EqualLine == <<"equal", <<>>>>

\* next_with_equal: the equal line once, and then nothing.
Close ==
    /\ pending = <<>> /\ work = <<>> /\ ~closed
    /\ closed' = TRUE
    /\ lines' = IF returnEqual /\ lines = <<>> THEN <<EqualLine>> ELSE lines
    /\ UNCHANGED <<inputs, work, pending>>

Next == Yield \/ WorkField \/ WorkType \/ WorkMetadata \/ WorkSlices \/ Close

Spec == Init /\ [][Next]_vars

-----------------------------------------------------------------------------
(* What the lines must say.                                                *)

\* PartialEq and fields_equal: where something is stored does not count.
RECURSIVE FieldValue(_, _), TypeValue(_, _)
FieldValue(f, metadata) ==
    [name |-> f.name, nullable |-> f.nullable, dictionary |-> f.dictionary,
     metadata |-> IF metadata THEN f.metadata.entries ELSE <<>>,
     type |-> TypeValue(f.type, metadata)]
TypeValue(type, metadata) ==
    [kind |-> type.kind, params |-> type.params, ids |-> type.ids,
     fields |-> [i \in DOMAIN type.fields |-> FieldValue(type.fields[i], metadata)],
     types |-> [i \in DOMAIN type.types |-> TypeValue(type.types[i], metadata)]]

Equal ==
    IF root = "field" THEN FieldValue(left, withMetadata) = FieldValue(right, withMetadata)
    ELSE TypeValue(left.type, withMetadata) = TypeValue(right.type, withMetadata)

Line(different, path) == IF different THEN {<<"changed", path>>} ELSE {}

KeyLine(l, r, key, path) ==
    LET inLeft == key \in DOMAIN l
        inRight == key \in DOMAIN r
        sign == IF ~inRight THEN "removed" ELSE IF ~inLeft THEN "added" ELSE "changed"
    IN IF inLeft /\ inRight /\ l[key] = r[key] THEN {}
       ELSE {<<sign, path \o <<Step("metadata"), Step(key)>>>>}

\* Every difference there is, each at its path.
RECURSIVE FieldLines(_, _, _), TypeLines(_, _, _)
FieldLines(l, r, path) ==
    Line(l.name # r.name, path \o <<Step("name")>>)
      \union Line(l.nullable # r.nullable, path \o <<Step("nullable")>>)
      \union Line(l.dictionary.id # r.dictionary.id, path \o <<Step("dictionary_id")>>)
      \union Line(l.dictionary.ordered # r.dictionary.ordered,
                  path \o <<Step("dictionary_is_ordered")>>)
      \union (IF withMetadata
              THEN UNION {KeyLine(l.metadata.entries, r.metadata.entries, key, path) :
                            key \in DOMAIN l.metadata.entries \union DOMAIN r.metadata.entries}
              ELSE {})
      \union TypeLines(l.type, r.type, path \o <<Step("data_type")>>)
TypeLines(l, r, path) ==
    IF l.kind # r.kind THEN Line(TRUE, path \o <<Step("kind")>>)
    ELSE
      UNION {Line(l.params[name] # r.params[name], path \o <<Step(name)>>) : name \in ToSet(Params(l))}
      \union UNION {LET n == Len(Named(l)) - i + 1
                        at == path \o <<Step(Named(l)[i])>>
                    IN IF l.kind = "dictionary" THEN TypeLines(l.types[n], r.types[n], at)
                       ELSE FieldLines(l.fields[n], r.fields[n], at) : i \in DOMAIN Named(l)}
      \union (IF l.kind \notin {"struct", "union"} THEN {} ELSE
        Line(Len(l.fields) # Len(r.fields), path \o <<Step("field_count")>>)
        \union {<<"removed", path \o <<IndexStep(i)>>>> : i \in Common(l, r)..(Len(l.fields) - 1)}
        \union {<<"added", path \o <<IndexStep(i)>>>> : i \in Common(l, r)..(Len(r.fields) - 1)}
        \union UNION {Line(l.kind = "union" /\ l.ids[i + 1] # r.ids[i + 1],
                           path \o <<IndexStep(i), Step("type_id")>>)
                      \union FieldLines(l.fields[i + 1], r.fields[i + 1], path \o <<IndexStep(i)>>)
                      : i \in 0..(Common(l, r) - 1)})

Expected ==
    IF root = "field" THEN FieldLines(left, right, <<>>) ELSE TypeLines(left.type, right.type, <<>>)

(***************************************************************************)
(* The comparison is lazy and takes short cuts through shared storage;     *)
(* still, once it ends it has yielded every difference once, and none      *)
(* exactly when the two are equal; before, only differences there are. And *)
(* what it holds meanwhile does not grow with the width of what it         *)
(* compares: two pieces of work a level, the lines of one field.           *)
(***************************************************************************)
DiffsAreExact ==
    LET found == lines \o pending
    IN /\ Cardinality(ToSet(found)) = Len(found)
       /\ ToSet(found) \subseteq Expected \union {EqualLine}
       /\ closed => /\ ToSet(lines) = IF Equal /\ returnEqual THEN {EqualLine} ELSE Expected
                    /\ Equal <=> Expected = {}
       /\ Len(pending) <= 4
       /\ \A i, j \in DOMAIN work : work[i].do = work[j].do /\ work[i].path = work[j].path => i = j

=============================================================================
