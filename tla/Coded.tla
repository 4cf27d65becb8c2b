------------------------------- MODULE Coded -------------------------------
(***************************************************************************)
(* A handle that compresses on the way out and decompresses on the way in, *)
(* rust/src/io/coding.rs.  The decoded value is materialized on first use, *)
(* changed in memory, and published through the coding when the handle is  *)
(* flushed, closed or consumed.  The wrapped handle may fail.              *)
(*                                                                         *)
(* An encoding is a value marked as encoded: the empty value encodes to    *)
(* bytes, and no bytes at all decode to the empty value.                   *)
(***************************************************************************)
EXTENDS Integers, Sequences

CONSTANTS
    Written,     \* the byte sequences a caller writes
    MaxLen,      \* bound: no operation reaches past this length
    FaultKinds,  \* what may fail: "read", "replace", "flush"
    MaxFaults    \* bound: how often something fails

NoBytes == [kind |-> "none", value |-> <<>>]
Torn == [kind |-> "torn", value |-> <<>>]
Encoding(value) == [kind |-> "encoded", value |-> value]

VARIABLES
    stored,      \* the wrapped handle's bytes
    plain,       \* {the decoded value}, or {} when nothing is materialized
    dirty,       \* whether the wrapped handle has not seen `plain`
    value,       \* history: what the caller has made of the value
    answer,      \* what the last call was told
    read,        \* {what the last call returned of the value}, {} for none
    spoilt,      \* history: whether this handle ever failed to publish
    misled,      \* history: whether this handle ever took a value that it
                 \* could not read for the empty one, and went by that
    faults       \* how often something failed

vars == <<stored, plain, dirty, value, answer, read, spoilt, misled, faults>>

Cut(bytes, n) == [k \in 1..n |-> IF k <= Len(bytes) THEN bytes[k] ELSE 0]

\* decoded and peek: no bytes decode to nothing, a torn encoding to an error.
Held == CHOOSE bytes \in plain : TRUE
Readable == plain # {} \/ stored.kind # "torn"
Decoded == IF plain # {} THEN Held ELSE stored.value

Bytes == INSTANCE ByteStore WITH contents <- Decoded, published <- stored.value

TypeOK ==
    /\ stored.kind \in {"none", "encoded", "torn"}
    /\ plain = {} \/ (plain = {Held} /\ Len(Held) <= MaxLen)
    /\ dirty \in BOOLEAN
    /\ answer \in {"ok", "published", "error"}
    /\ misled \in BOOLEAN /\ faults \in 0..MaxFaults

Init ==
    /\ stored \in {NoBytes, Torn} \cup {Encoding(bytes) : bytes \in Written}
    /\ plain = {} /\ dirty = FALSE
    /\ value = stored.value
    /\ answer = "ok" /\ read = {} /\ spoilt = FALSE /\ misled = FALSE /\ faults = 0

Fault(kind) == kind \in FaultKinds /\ faults < MaxFaults /\ faults' = faults + 1

-----------------------------------------------------------------------------
(* Decoding.  The wrapped handle's read_all may fail, or answer no bytes,   *)
(* which decode to nothing: a handle's size() makes 0 of a failure, and     *)
(* read_all reads that much.  The same is true of this handle's own size(), *)
(* of whatever makes it fail to decode.  A call meets one failure at most.  *)

\* size() fails: what is stored cannot be read, or is no encoding.
SizeFails == plain = {} /\ IF Readable THEN Fault("read") ELSE UNCHANGED faults

\* decoded: `bytes` is what it takes for the value.
Decodes(bytes) ==
    \/ Readable /\ bytes = Decoded /\ UNCHANGED <<misled, faults>>
    \/ /\ plain = {} /\ Fault("read") /\ bytes = <<>>
       /\ misled' = (misled \/ Decoded # <<>>)

\* pread, pwrite, truncate, reserve and open answer that they cannot decode.
Unreadable ==
    /\ SizeFails
    /\ answer' = "error" /\ read' = {}
    /\ UNCHANGED <<stored, plain, dirty, value, spoilt, misled>>

\* read_all and read_range, `bytes` of them: size() says how much to read, and
\* reading none of it cannot fail.
ReadAll ==
    /\ \/ Readable /\ read' = {Decoded} /\ UNCHANGED faults
       \/ SizeFails /\ read' = {<<>>}
    /\ answer' = "ok"
    /\ UNCHANGED <<stored, plain, dirty, value, spoilt, misled>>

-----------------------------------------------------------------------------
(* Materializing and changing the decoded value.                           *)

\* open and reserve: materialize, change nothing.
Materialize ==
    /\ \E bytes \in {Decoded, <<>>} : Decodes(bytes) /\ plain' = {bytes}
    /\ answer' = "ok" /\ read' = {}
    /\ UNCHANGED <<stored, dirty, value, spoilt>>

Change(bytes, wanted) ==
    /\ plain' = {bytes} /\ value' = wanted
    /\ dirty' = TRUE /\ answer' = "ok" /\ read' = {}
    /\ UNCHANGED <<stored, spoilt>>

Overlaid(bytes, offset, new) ==
    LET end == offset + Len(new)
        room == IF Len(bytes) < end THEN Cut(bytes, end) ELSE bytes
    IN [k \in DOMAIN room |-> IF k > offset /\ k <= end THEN new[k - offset] ELSE room[k]]

\* pwrite.
Write ==
    \E new \in Written, offset \in 0..MaxLen, bytes \in {Decoded, <<>>} :
        /\ offset + Len(new) <= MaxLen
        /\ Decodes(bytes)
        /\ Change(Overlaid(bytes, offset, new), Bytes!Overlaid(value, offset, new))

\* append: size() says where the new bytes start, and pwrite decodes again; of
\* no bytes nothing is written.
AppendBytes ==
    \E new \in Written \ {<<>>}, bytes \in {Decoded, <<>>}, offset \in {0, Len(Decoded)} :
        /\ Len(value) + Len(new) <= MaxLen /\ offset + Len(new) <= MaxLen
        /\ \/ Decodes(bytes) /\ offset = Len(Decoded)
           \/ /\ SizeFails /\ Readable /\ offset = 0 /\ bytes = Decoded
              /\ misled' = (misled \/ Decoded # <<>>)
        /\ Change(Overlaid(bytes, offset, new), Bytes!Overlaid(value, Len(value), new))

\* Mutant: what is cut off is not noted as a change.
TruncateClean ==
    \E n \in 0..MaxLen, bytes \in {Decoded, <<>>} :
        /\ Decodes(bytes)
        /\ plain' = {Cut(bytes, n)} /\ value' = Bytes!Resized(value, n)
        /\ answer' = "ok" /\ read' = {}
        /\ UNCHANGED <<stored, dirty, spoilt>>

\* truncate.
Truncate ==
    \E n \in 0..MaxLen, bytes \in {Decoded, <<>>} :
        /\ Decodes(bytes)
        /\ Change(Cut(bytes, n), Bytes!Resized(value, n))

-----------------------------------------------------------------------------
(* Publishing.  `publish` takes the decoded value out of the handle, writes *)
(* its encoding, and puts it back.                                          *)

Taken == IF plain = {} THEN <<>> ELSE Held

Publish == stored' = (IF dirty THEN Encoding(Taken) ELSE stored) /\ dirty' = FALSE

\* flush: publish, then flush the wrapped handle, which may fail.
Flush ==
    /\ Publish
    /\ plain' = IF dirty THEN {Taken} ELSE plain
    /\ \/ answer' = "published" /\ UNCHANGED faults
       \/ answer' = "error" /\ Fault("flush")
    /\ read' = {} /\ UNCHANGED <<value, spoilt, misled>>

\* close: publish, release the value, close the wrapped handle.
Close ==
    /\ Publish
    /\ plain' = {}
    /\ \/ answer' = "published" /\ UNCHANGED faults
       \/ answer' = "error" /\ Fault("flush")
    /\ read' = {} /\ UNCHANGED <<value, spoilt, misled>>

\* publish fails: encoding fails, or the wrapped handle is not emptied, is
\* emptied and not written, or written in part.  The taken value is gone.
PublishFails ==
    /\ dirty
    /\ Fault("replace")
    /\ stored' \in {stored, NoBytes, Torn}
    /\ plain' = {}
    /\ answer' = "error" /\ read' = {} /\ spoilt' = TRUE
    /\ UNCHANGED <<dirty, value, misled>>

\* The handle is dropped; a fresh one finds what was published.
Drop ==
    /\ plain' = {} /\ dirty' = FALSE
    /\ value' = stored.value
    /\ answer' = "ok" /\ read' = {} /\ spoilt' = FALSE /\ misled' = FALSE
    /\ UNCHANGED <<stored, faults>>

Next ==
    \/ Unreadable \/ ReadAll \/ Materialize \/ Write \/ AppendBytes \/ Truncate
    \/ Flush \/ Close \/ PublishFails \/ Drop

Spec == Init /\ [][Next]_vars

-----------------------------------------------------------------------------

\* Whether the handle failed in one of the two ways it does not recover from:
\* a publish that failed lost the value it had taken out, and a call that was
\* misled went by an empty value where there was another.
Failed == spoilt \/ misled

\* The decoded handle is a byte store like any other, and what it has not
\* published is what dropping it loses: always, except from one of the two
\* failures until the handle is dropped.
ImplementsByteStore ==
    Bytes!Init /\ [][Failed \/ Failed' \/ Bytes!Next]_<<Bytes!vars, spoilt, misled>>

\* Until then the handle holds what the caller wrote, an answered flush has
\* stored it, and a read returns it: or nothing, from a handle that was not
\* materialized and could not be.  Neither reads that answered their failure
\* nor failed flushes of the wrapped handle nor what an earlier handle left
\* torn get in between.
WrittenUnlessFailed ==
    ~Failed => /\ Decoded = value
               /\ answer = "published" => stored.value = value
               /\ read \subseteq {value, <<>>} /\ (plain # {} => read \subseteq {value})

\* "Append bytes after the current end" (IOBase::append, io/mod.rs): the value
\* becomes longer by what is appended, whatever failed before or fails now.
AppendsAfterTheEnd == [][AppendBytes /\ ~Failed => Len(Decoded') = Len(value')]_vars

\* The values the run coded_append writes.
UpToTwoBytes == { <<>>, <<1>>, <<1, 2>> }

\* The decoded value is one value, there once, and the written one.
ValueHolds == TypeOK /\ WrittenUnlessFailed

=============================================================================
