---------------------------- MODULE SchemaCompat ----------------------------
(***************************************************************************)
(* The normalization of a schema for an engine                             *)
(* (src/rust/src/datatype/compatibility.rs): one walk for every target,    *)
(* which contributes the scalars it keeps, those it widens and the         *)
(* containers it has.                                                      *)
(*                                                                         *)
(* A field is [name, nullable, metadata, type]; of the metadata it matters *)
(* whether it is "extension" storage. A datatype is [kind, fields, types]: *)
(* the fields of a nested one, the key and value types of a dictionary. A  *)
(* unit, a width's sign and a negative scale are part of the kind. The     *)
(* outcome of a walk is [ok, type, changed].                               *)
(***************************************************************************)
EXTENDS Naturals, Sequences, SequencesExt

CONSTANT Givens     \* the fields a caller asks to have normalized

VARIABLES
    given,          \* the field at first
    current         \* what the targets asked for so far made of it

compatVars == <<given, current>>

-----------------------------------------------------------------------------
(* The scalar matrices.                                                    *)

Common ==
    {"null", "boolean", "int32", "int64", "float32", "float64", "date32", "binary", "utf8",
     "decimal128"}
Small == {"int8", "int16"}
Unsigned == {"uint8", "uint16", "uint32", "uint64"}

\* What each target takes as it is.
Keeps ==
    [spark   |-> Common \union Small
                   \union {"timestamp(us)", "duration(us)", "interval(year_month)"},
     polars  |-> Common \union Small \union Unsigned
                   \union {"timestamp(ms)", "timestamp(us)", "timestamp(ns)", "time64(ns)",
                           "duration(ms)", "duration(us)", "duration(ns)"},
     pandas  |-> Common \union Small \union Unsigned \union {"timestamp(ns)", "duration(ns)"},
     iceberg |-> Common \union {"fixed_binary", "time64(us)", "timestamp(us)", "timestamp(ns)"}]

\* Layouts every target rewrites, and the 128-bit width of decimals.
Rewritten ==
    [large_binary |-> "binary", binary_view |-> "binary",
     large_utf8 |-> "utf8", utf8_view |-> "utf8", float16 |-> "float32",
     decimal32 |-> "decimal128", decimal64 |-> "decimal128"]

Opaque == [fixed_binary |-> "binary"]
Signed == [uint8 |-> "int16", uint16 |-> "int32", uint32 |-> "int64", uint64 |-> "decimal128"]
Widened == [int8 |-> "int32", int16 |-> "int32", uint8 |-> "int32", uint16 |-> "int32",
            uint32 |-> "int64", uint64 |-> "decimal128"]

Both(f, g) == [x \in DOMAIN f \union DOMAIN g |-> IF x \in DOMAIN f THEN f[x] ELSE g[x]]

\* What each target takes as something else.
Turns ==
    [spark   |-> Both(Rewritten, Both(Opaque, Signed)),
     polars  |-> Both(Rewritten, Opaque),
     pandas  |-> Both(Rewritten, Opaque),
     iceberg |-> Both(Rewritten, Widened)]

Engines == DOMAIN Keeps

\* supports_map, supports_fixed_size_list; no target has unions.
HasMaps(target) == target \in {"spark", "iceberg"}
HasFixedLists(target) == target = "polars"

-----------------------------------------------------------------------------
(* The walk.                                                               *)

Containers ==
    {"list", "list_view", "large_list", "large_list_view", "fixed_list", "struct", "union",
     "map", "dictionary", "ree"}

Scalar(kind) == [kind |-> kind, fields |-> <<>>, types |-> <<>>]
ListOf(field) == [kind |-> "list", fields |-> <<field>>, types |-> <<>>]

IsExtension(field) == field.metadata = "extension"

Kept(type) == [ok |-> TRUE, type |-> type, changed |-> FALSE]
Turned(type) == [ok |-> TRUE, type |-> type, changed |-> TRUE]
Incompatible(type) == [ok |-> FALSE, type |-> type, changed |-> FALSE]

NormalizeScalar(target, type) ==
    IF type.kind \in Keeps[target] THEN Kept(type)
    ELSE IF type.kind \in DOMAIN Turns[target] THEN Turned(Scalar(Turns[target][type.kind]))
    ELSE Incompatible(type)

RECURSIVE NormalizeType(_, _)

\* normalize_field: an extension's storage is not relabelled.
NormalizeField(target, field) ==
    LET type == NormalizeType(target, field.type)
    IN [ok |-> type.ok /\ ~(type.changed /\ IsExtension(field)),
        field |-> [field EXCEPT !.type = type.type],
        changed |-> type.changed]

\* The children of a layout the target has, rebuilt when one of them changed.
NormalizeChildren(target, type) ==
    LET children == [i \in DOMAIN type.fields |-> NormalizeField(target, type.fields[i])]
        changed == \E i \in DOMAIN children : children[i].changed
        rebuilt == [type EXCEPT !.fields = [i \in DOMAIN children |-> children[i].field]]
    IN IF \E i \in DOMAIN children : ~children[i].ok THEN Incompatible(type)
       ELSE IF changed THEN Turned(rebuilt) ELSE Kept(type)

\* Mutant: the list is new, what it holds is not looked at.
NormalizeToListOnly(target, type) == Turned(ListOf(type.fields[1]))

\* A list layout the target lacks becomes a list.
NormalizeToList(target, type) ==
    LET item == NormalizeField(target, type.fields[1])
    IN IF item.ok THEN Turned(ListOf(item.field)) ELSE Incompatible(type)

\* A dictionary and a run-end encoding become what they encode.
NormalizeEncoded(target, type, value) ==
    LET result == NormalizeType(target, value)
    IN IF result.ok THEN Turned(result.type) ELSE Incompatible(type)

NormalizeType(target, type) ==
    CASE type.kind \in {"list", "struct"} -> NormalizeChildren(target, type)
      [] type.kind = "fixed_list" ->
           IF HasFixedLists(target) THEN NormalizeChildren(target, type)
           ELSE NormalizeToList(target, type)
      [] type.kind \in {"list_view", "large_list", "large_list_view"} -> NormalizeToList(target, type)
      [] type.kind = "union" -> Incompatible(type)
      [] type.kind = "map" ->
           IF HasMaps(target) THEN NormalizeChildren(target, type) ELSE Incompatible(type)
      [] type.kind = "dictionary" -> NormalizeEncoded(target, type, type.types[2])
      [] type.kind = "ree" ->
           IF IsExtension(type.fields[1]) \/ IsExtension(type.fields[2]) THEN Incompatible(type)
           ELSE NormalizeEncoded(target, type, type.fields[2].type)
      [] type.kind \notin Containers -> NormalizeScalar(target, type)

\* Field::to_scheme_compat: Arrow takes every schema as it is.
Normalized(target, field) ==
    IF target = "arrow" THEN [ok |-> TRUE, field |-> field, changed |-> FALSE]
    ELSE NormalizeField(target, field)

-----------------------------------------------------------------------------
(* A caller normalizes for one target after another.                       *)

CompatInit == given \in Givens /\ current = given

ToSchemeCompat(target) ==
    /\ current' = IF Normalized(target, current).ok THEN Normalized(target, current).field
                  ELSE current
    /\ UNCHANGED given

CompatNext == \E target \in Engines \union {"arrow"} : ToSchemeCompat(target)

CompatSpec == CompatInit /\ [][CompatNext]_compatVars

-----------------------------------------------------------------------------
(* What a normalized schema must be.                                       *)

\* The type whose values a column of this type has.
RECURSIVE Logical(_)
Logical(type) ==
    IF type.kind = "dictionary" THEN Logical(type.types[2])
    ELSE IF type.kind = "ree" THEN Logical(type.fields[2].type)
    ELSE type

Lists == {"list", "list_view", "large_list", "large_list_view", "fixed_list"}

\* How many bits an integer has and whether one is its sign.
Bits == [int8 |-> 8, int16 |-> 16, int32 |-> 32, int64 |-> 64, uint8 |-> 8, uint16 |-> 16,
         uint32 |-> 32, uint64 |-> 64]
Floats == [float16 |-> 16, float32 |-> 32, float64 |-> 64]
Texts == {"utf8", "large_utf8", "utf8_view"}
Bytes == {"binary", "large_binary", "binary_view", "fixed_binary"}
Decimals == [decimal32 |-> 32, decimal64 |-> 64, decimal128 |-> 128]

\* Every value of one scalar is one of the other, and means the same.
Within(from, to) ==
    \/ from = to
    \/ /\ {from, to} \subseteq DOMAIN Bits \ Unsigned /\ Bits[from] <= Bits[to]
    \/ /\ from \in Unsigned /\ to \in DOMAIN Bits \ Unsigned /\ Bits[from] < Bits[to]
    \/ /\ from \in DOMAIN Bits /\ to = "decimal128"
    \/ /\ {from, to} \subseteq DOMAIN Floats /\ Floats[from] <= Floats[to]
    \/ /\ {from, to} \subseteq DOMAIN Decimals /\ Decimals[from] <= Decimals[to]
    \/ {from, to} \subseteq Texts
    \/ {from, to} \subseteq Bytes /\ to = "binary"

\* The same columns, named alike, over values that hold what was held.
RECURSIVE SameColumns(_, _)
SameColumns(from, to) ==
    LET f == Logical(from.type)
        t == Logical(to.type)
    IN /\ [from EXCEPT !.type = to.type] = to
       /\ IsExtension(from) => from.type = to.type
       /\ IF f.kind \notin Containers THEN t.kind \notin Containers /\ Within(f.kind, t.kind)
          ELSE /\ f.kind = t.kind \/ {f.kind, t.kind} \subseteq Lists
               /\ Len(f.fields) = Len(t.fields)
               /\ \A i \in DOMAIN f.fields : SameColumns(f.fields[i], t.fields[i])

\* A schema the target has as it is.
RECURSIVE Native(_, _)
Native(target, field) ==
    LET type == field.type
    IN /\ \/ type.kind \in Keeps[target] \/ type.kind \in {"list", "struct"}
          \/ type.kind = "map" /\ HasMaps(target)
          \/ type.kind = "fixed_list" /\ HasFixedLists(target)
       /\ \A i \in DOMAIN type.fields : Native(target, type.fields[i])

\* The fields and values of a field, at any depth.
RECURSIVE Parts(_)
Parts(field) ==
    LET type == field.type
        within == ToSet(type.fields)
          \union {[field EXCEPT !.type = type.types[2], !.metadata = "plain"] :
                    only \in {1} \intersect DOMAIN type.types}
    IN {field} \union UNION {Parts(part) : part \in within}

\* What no rewriting of layouts makes a schema of the target's.
Unfit(target, field) ==
    \E part \in Parts(field) :
        LET kind == part.type.kind
        IN \/ IsExtension(part) /\ ~Native(target, part)
           \/ kind = "union"
           \/ kind = "map" /\ ~HasMaps(target)
           \/ kind = "ree" /\ \E i \in 1..2 : IsExtension(part.type.fields[i])
           \/ kind \notin Containers \union Keeps[target] \union DOMAIN Turns[target]

(***************************************************************************)
(* "A layout-only difference is rewritten, while a difference that would   *)
(* reinterpret values returns a path-aware error": through any chain of    *)
(* targets the columns stay the ones they were, over values that hold      *)
(* theirs; each answer is a schema its target has as it is, so that asking *)
(* again changes nothing; a schema is refused exactly for a part the       *)
(* target has no layout of; and a rewriting that says it changed nothing   *)
(* did not, which is what keeps a cached projection.                       *)
(***************************************************************************)
CompatIsStable ==
    /\ SameColumns(given, current)
    /\ Normalized("arrow", current).field = current
    /\ \A target \in Engines :
         LET result == Normalized(target, current)
         IN /\ result.ok <=> ~Unfit(target, current)
            /\ result.ok =>
                 /\ Native(target, result.field)
                 /\ result.changed <=> result.field # current
                 /\ Normalized(target, result.field) = [result EXCEPT !.changed = FALSE]

=============================================================================
