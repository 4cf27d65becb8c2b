------------------------------- MODULE Fields -------------------------------
(***************************************************************************)
(* One field (src/rust/src/field/mod.rs), the projection to Arrow it       *)
(* caches and the import that fills the cache (field/arrow.rs,             *)
(* datatype/arrow.rs).                                                     *)
(*                                                                         *)
(* A field's datatype is shared and never changed in place: a child is     *)
(* changed by cloning it, changing the clone and setting a datatype with   *)
(* it. Only the caches of shared children are filled in place. A cache is  *)
(* <<>> or <<the projection>>. What a call refuses leaves the field alone. *)
(***************************************************************************)
EXTENDS FieldMetadata

CONSTANTS
    Names,          \* names a field is given
    RawEntries,     \* entries as callers spell them
    RawLists,       \* lists of such entries
    RawProperties,  \* names and values of a protocol's properties
    Types,          \* datatypes a field is given
    Foreign,        \* Arrow fields made elsewhere
    MediaTypes,     \* media types a field is given
    MaxEntries      \* bound: entries of one field and any one child together

VARIABLE field

Uncached == <<>>
NoDictionary == [id |-> 0, ordered |-> FALSE]

NewField(name, type, nullable, metadata) ==
    [name |-> name, type |-> type, nullable |-> nullable, dictionary |-> NoDictionary,
     metadata |-> metadata, arrow |-> Uncached]

Children(f) == IF f.type.kind = "struct" THEN f.type.children ELSE <<>>
WithChildren(type, children) == [type EXCEPT !.children = children]
StructOf(children) == [kind |-> "struct", children |-> children]

\* PartialEq of Field and DataType: the caches are not compared.
RECURSIVE Plain(_)
Plain(f) ==
    [name |-> f.name, nullable |-> f.nullable, dictionary |-> f.dictionary,
     metadata |-> f.metadata, kind |-> f.type.kind,
     children |-> [i \in DOMAIN Children(f) |-> Plain(Children(f)[i])]]

SameType(left, right) ==
    Plain(NewField("", left, TRUE, Empty)) = Plain(NewField("", right, TRUE, Empty))

-----------------------------------------------------------------------------
(* Setters. Each drops the projection when it changes something.           *)

Invalidated(f) == [f EXCEPT !.arrow = Uncached]

SetName(f, name) == IF f.name = name THEN f ELSE Invalidated([f EXCEPT !.name = name])

SetNullable(f, nullable) ==
    IF f.nullable = nullable THEN f ELSE Invalidated([f EXCEPT !.nullable = nullable])

\* set_data_type: dictionary options are of a dictionary only.
SetDataType(f, type) ==
    IF SameType(f.type, type) THEN f
    ELSE Invalidated([f EXCEPT !.type = type,
             !.dictionary = IF type.kind = "dictionary" THEN f.dictionary ELSE NoDictionary])

SetDictionaryOptions(f, options) ==
    IF f.type.kind # "dictionary" \/ f.dictionary = options THEN f
    ELSE Invalidated([f EXCEPT !.dictionary = options])

\* What every change of the metadata comes to.
HoldingMetadata(f, metadata) ==
    IF f.metadata = metadata THEN f ELSE Invalidated([f EXCEPT !.metadata = metadata])

InsertMetadata(f, key, value) ==
    IF EntryIsValid(key, value)
    THEN HoldingMetadata(f, Overlay(f.metadata, Collected(<<<<key, value>>>>)))
    ELSE f

SetMetadata(f, entries) ==
    IF Collects(entries) THEN HoldingMetadata(f, Collected(entries)) ELSE f

UpdateMetadata(f, entries) ==
    IF Collects(entries) THEN HoldingMetadata(f, Overlay(f.metadata, Collected(entries))) ELSE f

RemoveMetadata(f, key) == HoldingMetadata(f, Without(f.metadata, {CanonicalKey(key)}))

ClearMetadata(f) == HoldingMetadata(f, Empty)

\* Mutant: what validation needs not look at leaves the projection there.
InsertValidatedCached(f, key, value) ==
    [f EXCEPT !.metadata = Overlay(f.metadata, Single(key, value))]

\* insert_validated: of an entry that is canonical already.
InsertValidated(f, key, value) == HoldingMetadata(f, Overlay(f.metadata, Single(key, value)))

\* set_init, set_partition: the default is stored as no entry at all.
SetInit(f, init) ==
    IF init THEN RemoveMetadata(f, InitKey) ELSE InsertValidated(f, InitKey, "false")

SetPartition(f, partition) ==
    IF partition THEN InsertValidated(f, PartitionKey, "true") ELSE RemoveMetadata(f, PartitionKey)

IsPartition(f) == PartitionKey \in DOMAIN f.metadata /\ f.metadata[PartitionKey] = "true"

ClearProperties(f, scheme) ==
    HoldingMetadata(f, Without(f.metadata, Properties(f.metadata, scheme)))

\* ProtocolMetadataMut::set: everything of other protocols, then these.
SetProperties(f, scheme, entries) ==
    SetMetadata(f, EntriesOf(Without(f.metadata, Properties(f.metadata, scheme)))
                     \o [i \in DOMAIN entries |-> <<PropertyKey(scheme, entries[i][1]), entries[i][2]>>])

UpdateProperties(f, scheme, entries) ==
    UpdateMetadata(f, [i \in DOMAIN entries |-> <<PropertyKey(scheme, entries[i][1]), entries[i][2]>>])

-----------------------------------------------------------------------------
(* Media headers.                                                          *)

\* MimeType::content_coding, and the codings a header may name.
HttpCoding == [gzip |-> "gzip", zlib |-> "deflate"]
Codings == {"gzip", "x-gzip", "deflate"}
MimeText == {"text/a", "text/b", "text/a;q"}

SetMediaType(f, media) ==
    LET based == Overlay(f.metadata, Single(ContentType, media.base))
    IN IF media.coding = "none" THEN HoldingMetadata(f, Without(based, {ContentEncoding}))
       ELSE IF media.coding \notin DOMAIN HttpCoding THEN f
       ELSE HoldingMetadata(f, Overlay(based, Single(ContentEncoding, HttpCoding[media.coding])))

\* Metadata::media_type answers: each header that is there parses.
HeadersParse(metadata) ==
    /\ ContentType \in DOMAIN metadata => metadata[ContentType] \in MimeText
    /\ ContentEncoding \in DOMAIN metadata => metadata[ContentEncoding] \in Codings

RemoveMediaType(f) ==
    IF HeadersParse(f.metadata)
    THEN HoldingMetadata(f, Without(f.metadata, {ContentType, ContentEncoding}))
    ELSE f

RemoveMimeType(f) ==
    IF ContentType \in DOMAIN f.metadata /\ f.metadata[ContentType] \in MimeText
    THEN RemoveMetadata(f, ContentType)
    ELSE f

-----------------------------------------------------------------------------
(* Projection and import.                                                  *)

Arrow(name, type, nullable, dictionary, metadata) ==
    [name |-> name, type |-> type, nullable |-> nullable, dictionary |-> dictionary,
     metadata |-> metadata]

\* The projection a field has when nothing is cached.
RECURSIVE Projection(_)
Projection(f) ==
    Arrow(f.name,
          IF f.type.kind = "struct"
          THEN StructOf([i \in DOMAIN f.type.children |-> Projection(f.type.children[i])])
          ELSE f.type,
          f.nullable, f.dictionary, f.metadata)

\* to_arrow_ref: the cached projection, or one of the children's, then cached.
RECURSIVE Projected(_)
Projected(f) ==
    LET children == [i \in DOMAIN Children(f) |-> Projected(Children(f)[i])]
        type == IF f.type.kind = "struct" THEN StructOf(children) ELSE f.type
        arrow == IF f.type.kind = "struct"
                 THEN StructOf([i \in DOMAIN children |-> children[i].arrow[1]]) ELSE f.type
    IN IF f.arrow # Uncached THEN f
       ELSE [f EXCEPT !.type = type,
                      !.arrow = <<Arrow(f.name, arrow, f.nullable, f.dictionary, f.metadata)>>]

ToArrow(f) == Projected(f).arrow[1]

ArrowChildren(a) == IF a.type.kind = "struct" THEN a.type.children ELSE <<>>

RECURSIVE Imports(_)
Imports(a) ==
    /\ Collects(EntriesOf(a.metadata))
    /\ \A i \in DOMAIN ArrowChildren(a) : Imports(ArrowChildren(a)[i])

\* from_arrow: cached when validation changed nothing here or beneath.
RECURSIVE Imported(_)
Imported(a) ==
    LET children == [i \in DOMAIN ArrowChildren(a) |-> Imported(ArrowChildren(a)[i])]
        metadata == Collected(EntriesOf(a.metadata))
        exact == metadata = a.metadata /\ \A i \in DOMAIN children : children[i].arrow # Uncached
    IN [NewField(a.name, IF a.type.kind = "struct" THEN StructOf(children) ELSE a.type,
                 a.nullable, metadata)
          EXCEPT !.dictionary = IF a.type.kind = "dictionary" THEN a.dictionary ELSE NoDictionary,
                 !.arrow = IF exact THEN <<a>> ELSE Uncached]

-----------------------------------------------------------------------------
(* Record schemas.                                                         *)

\* from_parts: a new field, of the children as they are.
Rebuilt(f, children) == NewField(f.name, StructOf(children), f.nullable, f.metadata)

WithoutFields(f, names) == Rebuilt(f, SelectSeq(Children(f), LAMBDA child : child.name \notin names))

OnlyPartitionFields(f) == Rebuilt(f, SelectSeq(Children(f), IsPartition))

WithoutPartitionFields(f) ==
    LET names == {child.name : child \in {c \in ToSet(Children(f)) : IsPartition(c)}}
    IN IF names = {} THEN f ELSE WithoutFields(f, names)

\* with_partition_fields: exactly the named children are marked.
WithPartitionFields(f, names) ==
    LET Marked(child) ==
            IF (child.name \in names) = IsPartition(child) THEN child
            ELSE SetPartition(child, child.name \in names)
    IN IF names \subseteq {Children(f)[i].name : i \in DOMAIN Children(f)}
       THEN Rebuilt(f, [i \in DOMAIN Children(f) |-> Marked(Children(f)[i])])
       ELSE f

-----------------------------------------------------------------------------
Init == \E name \in Names, type \in Types, nullable \in BOOLEAN :
    field = NewField(name, type, nullable, Empty)

Rename == \E name \in Names : field' = SetName(field, name)
ChangeNullability == \E nullable \in BOOLEAN : field' = SetNullable(field, nullable)
Retype == \E type \in Types : field' = SetDataType(field, type)
ChangeOptions == \E id \in {0, 1} : field' = SetDictionaryOptions(field, [id |-> id, ordered |-> TRUE])

InsertEntry == \E entry \in RawEntries : field' = InsertMetadata(field, entry[1], entry[2])
ReplaceEntries == \E entries \in RawLists : field' = SetMetadata(field, entries)
UpdateEntries == \E entries \in RawLists : field' = UpdateMetadata(field, entries)
RemoveEntry == \E entry \in RawEntries : field' = RemoveMetadata(field, entry[1])
ClearEntries == field' = ClearMetadata(field)
Mark == \E flag \in BOOLEAN : field' \in {SetInit(field, flag), SetPartition(field, flag)}
Number == field' \in {InsertValidated(field, FieldIdKey, "7"), InsertValidated(field, ContentLength, "7")}

ClearProtocol == \E scheme \in Schemes : field' = ClearProperties(field, scheme)
SetProtocol == \E scheme \in Schemes, entry \in RawProperties :
    field' = SetProperties(field, scheme, <<entry>>)
UpdateProtocol == \E scheme \in Schemes, entry \in RawProperties :
    field' = UpdateProperties(field, scheme, <<entry>>)

ChangeMedia == \E media \in MediaTypes : field' = SetMediaType(field, media)
RemoveMedia == field' \in {RemoveMediaType(field), RemoveMimeType(field)}

Project == field' = Projected(field)
Reimport == Imports(ToArrow(field)) /\ field' = Imported(ToArrow(field))
Import == \E a \in Foreign : Imports(a) /\ field' = Imported(a)

Narrow ==
    /\ field.type.kind = "struct"
    /\ \/ \E name \in Names : field' = WithoutFields(field, {name})
       \/ field' = OnlyPartitionFields(field)
       \/ field' = WithoutPartitionFields(field)
Partition ==
    /\ field.type.kind = "struct"
    /\ \E names \in SUBSET Names : field' = WithPartitionFields(field, names)

\* A clone of a child is changed, and a datatype with it is set.
ChangeChild ==
    /\ field.type.kind = "struct"
    /\ \E i \in DOMAIN field.type.children :
         LET child == field.type.children[i]
         IN \E changed \in {InsertMetadata(child, entry[1], entry[2]) : entry \in RawEntries}
                             \union {ClearMetadata(child), SetNullable(child, ~child.nullable)} :
              field' = SetDataType(field, WithChildren(field.type, [field.type.children EXCEPT ![i] = changed]))

\* A shared child is projected in place, beneath whatever its parent caches.
ProjectChild ==
    /\ field.type.kind = "struct"
    /\ \E i \in DOMAIN field.type.children :
         field' = [field EXCEPT !.type.children[i] = Projected(@)]

Bounded(f) ==
    /\ Cardinality(DOMAIN f.metadata) <= MaxEntries
    /\ \A i \in DOMAIN Children(f) :
          Cardinality(DOMAIN f.metadata) + Cardinality(DOMAIN Children(f)[i].metadata) <= MaxEntries

Next ==
    /\ \/ Rename \/ ChangeNullability \/ Retype \/ ChangeOptions
       \/ InsertEntry \/ ReplaceEntries \/ UpdateEntries \/ RemoveEntry \/ ClearEntries \/ Mark \/ Number
       \/ ClearProtocol \/ SetProtocol \/ UpdateProtocol
       \/ ChangeMedia \/ RemoveMedia
       \/ Project \/ Reimport \/ Import
       \/ Narrow \/ Partition \/ ChangeChild \/ ProjectChild
    /\ Bounded(field')

Spec == Init /\ [][Next]_field

-----------------------------------------------------------------------------
(* Properties.                                                             *)

RECURSIVE CachesAreCurrent(_)
CachesAreCurrent(f) ==
    /\ f.arrow \in {Uncached, <<Projection(f)>>}
    /\ \A i \in DOMAIN Children(f) : CachesAreCurrent(Children(f)[i])

RECURSIVE OptionsAreOfDictionaries(_)
OptionsAreOfDictionaries(f) ==
    /\ f.dictionary # NoDictionary => f.type.kind = "dictionary"
    /\ \A i \in DOMAIN Children(f) : OptionsAreOfDictionaries(Children(f)[i])

\* A view walks its protocol's properties, whichever way it goes.
ViewsAreWhole(f) ==
    \A scheme \in Schemes :
        LET all == Properties(f.metadata, scheme)
            forward == Forward(f.metadata, scheme)
        IN /\ ToSet(forward) = all /\ Len(forward) = Cardinality(all)
           /\ Backward(f.metadata, scheme) = forward
           /\ \A i \in DOMAIN forward :
                NextProperty(f.metadata, scheme, forward[i]) =
                    IF i < Len(forward) THEN {forward[i + 1]} ELSE {}

(***************************************************************************)
(* However a field came to be - set, marked, imported from spellings that  *)
(* are not canonical, rebuilt from changed children - what it caches of    *)
(* itself and beneath is the projection it has now, dictionary options     *)
(* stay with dictionaries, a view finds its protocol's properties among    *)
(* keys that only begin alike, and importing what it exports gives the     *)
(* same field, wholly cached: nothing it stores is refused or respelled.   *)
(***************************************************************************)
FieldHolds ==
    /\ CachesAreCurrent(field)
    /\ OptionsAreOfDictionaries(field)
    /\ ViewsAreWhole(field)
    /\ Imports(ToArrow(field))
    /\ Plain(Imported(ToArrow(field))) = Plain(field)
    /\ Imported(ToArrow(field)).arrow # Uncached

=============================================================================
