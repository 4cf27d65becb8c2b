--------------------------- MODULE FieldMetadata ---------------------------
(***************************************************************************)
(* The metadata of a field (src/rust/src/metadata.rs): a sorted map of     *)
(* text to text, one canonical spelling of each key and of each reserved   *)
(* value, and the views that show one protocol's part of it.               *)
(*                                                                         *)
(* A key is a sequence of tokens, so that one scheme may be a prefix of    *)
(* another key's text: <<"postgres", ":", "a">> beside                     *)
(* <<"postgres", "ql", ":", "a">>. KeyOrder lists the keys and schemes of  *)
(* a model in lexical order. A value is one token. Nothing here is         *)
(* recursive.                                                              *)
(***************************************************************************)
EXTENDS Naturals, FiniteSets, Sequences, SequencesExt

CONSTANTS
    KeyOrder,       \* the canonical keys, in lexical order
    Lowered,        \* name spelled with capitals -> in small letters
    Controls,       \* values and names with control characters
    Schemes         \* canonical schemes, as sequences of tokens

-----------------------------------------------------------------------------
(* Keys.                                                                   *)

Alias == <<"alias">>
Location == <<"location">>
InitKey == <<"field", ":", "init">>
PartitionKey == <<"field", ":", "partition">>
FieldIdKey == <<"PARQUET", ":", "field_id">>
ContentType == <<"http", ":", "content-type">>
ContentEncoding == <<"http", ":", "content-encoding">>
ContentLength == <<"http", ":", "content-length">>

\* split_once(':'): the tokens before the first colon and those after it.
HasColon(key) == ":" \in ToSet(key)
Colon(key) == CHOOSE i \in DOMAIN key : key[i] = ":" /\ \A j \in 1..(i - 1) : key[j] # ":"
SchemeOf(key) == SubSeq(key, 1, Colon(key) - 1)
NameOf(key) == SubSeq(key, Colon(key) + 1, Len(key))

\* http_header_parts: both protocols, in either case.
IsHeader(key) ==
    HasColon(key) /\ SchemeOf(key) \in {<<"http">>, <<"HTTP">>, <<"https">>, <<"HTTPS">>}

Lower(token) == IF token \in DOMAIN Lowered THEN Lowered[token] ELSE token

\* canonical_http_lookup_key, and canonicalize_metadata_key of a valid key.
CanonicalKey(key) ==
    IF IsHeader(key) THEN <<"http", ":">> \o [i \in DOMAIN NameOf(key) |-> Lower(NameOf(key)[i])]
    ELSE key

\* protocol_metadata_prefix, and the key a property is stored under.
Prefix(scheme) == IF scheme = <<"https">> THEN <<"http">> ELSE scheme
PropertyKey(scheme, name) == Prefix(scheme) \o <<":">> \o name

-----------------------------------------------------------------------------
(* Values.                                                                 *)

\* What parses as an integer, what as a length, and what they are stored as.
Numeral == [text \in {"7", "+7", "07"} |-> "7"]
Digits == {"7", "07"}

\* What parses as a URL.
UrlText == [text \in {"file:/a", "FILE:/a"} |-> "file:/a"]

Flags == {"true", "false"}

\* validate_property_part.
PartIsValid(part) == part # "" /\ part \notin Controls

\* The one control an HTTP field value may contain.
Tab == "tab"

\* validate_entry's two errors and the value it keeps, for a canonical key.
ValueIsValid(key, value) ==
    CASE key = Alias -> PartIsValid(value)
      [] key = Location -> value \in DOMAIN UrlText
      [] key \in {InitKey, PartitionKey} -> value \in Flags
      [] key = FieldIdKey -> value \in DOMAIN Numeral
      [] OTHER ->
           /\ IsHeader(key) => value \notin Controls \ {Tab}
           /\ key = ContentLength => value \in Digits
           /\ HasColon(key) /\ SchemeOf(key) \in Schemes =>
                NameOf(key) # <<>> /\ \A i \in DOMAIN NameOf(key) : PartIsValid(NameOf(key)[i])

EntryIsValid(key, value) ==
    /\ key # <<>>
    /\ IsHeader(key) => NameOf(key) # <<>>
    /\ ValueIsValid(CanonicalKey(key), value)

CanonicalValue(key, value) ==
    CASE key \in {FieldIdKey, ContentLength} -> Numeral[value]
      [] key = Location -> UrlText[value]
      [] OTHER -> value

-----------------------------------------------------------------------------
(* Maps. An entry is a pair of a key and a value.                          *)

Empty == [key \in {} |-> ""]

\* Metadata::from_entries: all of them or none, each key once.
Collects(entries) ==
    /\ \A i \in DOMAIN entries : EntryIsValid(entries[i][1], entries[i][2])
    /\ \A i, j \in DOMAIN entries :
         CanonicalKey(entries[i][1]) = CanonicalKey(entries[j][1]) => i = j

Collected(entries) ==
    [key \in {CanonicalKey(entries[i][1]) : i \in DOMAIN entries} |->
        LET i == CHOOSE j \in DOMAIN entries : CanonicalKey(entries[j][1]) = key
        IN CanonicalValue(key, entries[i][2])]

\* Metadata::update, and insert_validated of one canonical entry.
Overlay(metadata, overlay) ==
    [key \in DOMAIN metadata \union DOMAIN overlay |->
        IF key \in DOMAIN overlay THEN overlay[key] ELSE metadata[key]]
Single(key, value) == [k \in {key} |-> value]

\* Metadata::remove, and retain.
Without(metadata, keys) == [key \in DOMAIN metadata \ keys |-> metadata[key]]

\* The map as Arrow's map of entries, in any order.
EntriesOf(metadata) ==
    SetToSeq({<<key, metadata[key]>> : key \in DOMAIN metadata})

-----------------------------------------------------------------------------
(* One protocol's part.                                                    *)

\* property_name: the text after "scheme:".
IsProperty(key, scheme) == IsPrefix(Prefix(scheme) \o <<":">>, key)
Properties(metadata, scheme) == {key \in DOMAIN metadata : IsProperty(key, scheme)}

\* Tokens whose first byte is below the colon's.
BelowColon == {"-legacy", "0"}

\* property_key_position, for a key not below the prefix.
Position(key, prefix) ==
    LET rest == SubSeq(key, Len(prefix) + 1, Len(key))
    IN CASE ~IsPrefix(prefix, key) -> "after"
         [] IsPrefix(prefix, key) /\ rest = <<>> -> "before"
         [] IsPrefix(prefix, key) /\ rest # <<>> ->
              IF rest[1] = ":" THEN "match"
              ELSE IF rest[1] \in BelowColon THEN "before" ELSE "after"

Rank(key) == CHOOSE i \in DOMAIN KeyOrder : KeyOrder[i] = key

\* The keys the tree's range yields: those not below the prefix, or above a key.
Ranged(metadata, first) ==
    SelectSeq(KeyOrder, LAMBDA key : key \in DOMAIN metadata /\ Rank(key) >= Rank(first))

\* PropertyIter::next until it is finished: up to the first key that is after.
Forward(metadata, scheme) ==
    LET keys == Ranged(metadata, Prefix(scheme))
        At(i) == Position(keys[i], Prefix(scheme))
        live == {i \in DOMAIN keys : \A j \in 1..i : At(j) # "after"}
    IN SelectSeq(SubSeq(keys, 1, Cardinality(live)),
                 LAMBDA key : Position(key, Prefix(scheme)) = "match")

\* PropertyIter::next_back until it is finished: down to the first key before.
Backward(metadata, scheme) ==
    LET keys == Ranged(metadata, Prefix(scheme))
        At(i) == Position(keys[i], Prefix(scheme))
        live == {i \in DOMAIN keys : \A j \in i..Len(keys) : At(j) # "before"}
    IN SelectSeq(SubSeq(keys, Len(keys) - Cardinality(live) + 1, Len(keys)),
                 LAMBDA key : Position(key, Prefix(scheme)) = "match")

\* next_property_entry: what follows a property's key, as one or no key.
NextProperty(metadata, scheme, key) ==
    LET keys == SelectSeq(Ranged(metadata, key), LAMBDA k : k # key)
        At(i) == Position(keys[i], Prefix(scheme))
        live == {i \in DOMAIN keys : \A j \in 1..(i - 1) : At(j) = "before"}
        hits == {i \in live : At(i) = "match"}
    IN {keys[i] : i \in hits}

=============================================================================
