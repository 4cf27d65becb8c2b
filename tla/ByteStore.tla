----------------------------- MODULE ByteStore -----------------------------
(***************************************************************************)
(* What every handle promises (trait IOBase, rust/src/io/mod.rs): a value  *)
(* of bytes that a write grows, zero-filling the gap, that a truncation    *)
(* cuts or zero-fills, and that nothing else changes.  A handle may        *)
(* publish at any time what a fresh handle would read, and what it has not *)
(* published is lost when it is dropped.                                   *)
(***************************************************************************)
EXTENDS Integers, Sequences

CONSTANTS
    Written,     \* the byte sequences a caller writes
    MaxLen       \* bound: no operation reaches past this length

VARIABLES
    contents,    \* what the handle reads
    published    \* what a fresh handle would read

vars == <<contents, published>>

\* The value cut, or zero-filled, to n bytes.
Resized(value, n) == [k \in 1..n |-> IF k <= Len(value) THEN value[k] ELSE 0]

\* `bytes` laid over the value at an offset.
Overlaid(value, offset, bytes) ==
    LET end == offset + Len(bytes)
        room == Resized(value, IF end > Len(value) THEN end ELSE Len(value))
    IN [k \in DOMAIN room |-> IF k > offset /\ k <= end THEN bytes[k - offset] ELSE room[k]]

Init ==
    /\ \E n \in 0..MaxLen : contents \in [1..n -> {0} \cup UNION {{b[k] : k \in DOMAIN b} : b \in Written}]
    /\ published = contents

Becomes(value) == contents' = value /\ published' \in {published, value}

Write ==
    \E bytes \in Written, offset \in 0..MaxLen :
        offset + Len(bytes) <= MaxLen /\ Becomes(Overlaid(contents, offset, bytes))

Truncate == \E n \in 0..MaxLen : Becomes(Resized(contents, n))

Publish == published' = contents /\ UNCHANGED contents

Forget == contents' = published /\ UNCHANGED published

Next == Write \/ Truncate \/ Publish \/ Forget

Spec == Init /\ [][Next]_vars

=============================================================================
