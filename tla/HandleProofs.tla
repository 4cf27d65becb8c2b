---------------------------- MODULE HandleProofs ----------------------------
(***************************************************************************)
(* What the handles promise that keep a value of bytes elsewhere: a coded  *)
(* handle over one that fails, a media over a buffer, and MCHandles, whose *)
(* executions are about one of them or about a file.                       *)
(***************************************************************************)
EXTENDS MCHandles, FileProofs, SequenceTheorems,
        FiniteSetTheorems, WellFoundedInduction

-----------------------------------------------------------------------------
(* Coded handles.                                                          *)

Short == {bytes \in Seq(Nat) : Len(bytes) <= MaxLen}

CodedType ==
    /\ stored \in [kind : {"none", "encoded", "torn"}, value : Short]
    /\ stored.kind # "encoded" => stored.value = <<>>
    /\ value \in Short
    /\ plain = {} \/ \E bytes \in Short : plain = {bytes}
    /\ dirty \in BOOLEAN /\ spoilt \in BOOLEAN /\ misled \in BOOLEAN
    /\ answer \in {"ok", "published", "error"}
    /\ faults \in 0..MaxFaults

\* Until it fails, the handle holds what the caller wrote, and it is stored
\* unless the handle knows that it is not; what a call returned is the value,
\* or nothing, from a handle that has not materialized it.
CodedInv ==
    /\ CodedType
    /\ answer = "published" => ~dirty
    /\ ~spoilt /\ ~misled =>
          /\ C!Decoded = value
          /\ dirty => plain # {}
          /\ ~dirty => stored.value = value
          /\ read \subseteq {value, <<>>} /\ (plain # {} => read \subseteq {value})

LEMMA HeldIs == ASSUME NEW bytes, plain = {bytes} PROVE C!Held = bytes
BY DEF C!Held

LEMMA DecodedIs == ASSUME CodedType
                   PROVE  C!Decoded \in Short /\ (plain # {} => plain = {C!Held} /\ C!Held \in Short)
BY HeldIs DEF CodedType, C!Decoded

\* Cutting and overlaying do what the byte store says.
LEMMA CutIs ==
    ASSUME NEW bytes \in Short, NEW n \in 0..MaxLen
    PROVE  C!Cut(bytes, n) = C!Bytes!Resized(bytes, n) /\ C!Cut(bytes, n) \in Short
<1> DEFINE f == C!Cut(bytes, n)
<1>1. f = [k \in 1..n |-> IF k <= Len(bytes) THEN bytes[k] ELSE 0]
  BY DEF C!Cut
<1>2. MaxLen \in Nat /\ n \in Nat /\ bytes \in Seq(Nat) /\ n <= MaxLen
  BY LocalFileAssumption DEF Short
<1> HIDE DEF f
<1>3. f = [k \in 1..n |-> f[k]] /\ \A k \in 1..n : f[k] \in Nat
  BY <1>1, <1>2
<1>4. f \in Seq(Nat) /\ Len(f) = n
  BY <1>2, <1>3, Spelt
<1> QED BY <1>1, <1>2, <1>4 DEF C!Cut, C!Bytes!Resized, Short, f

LEMMA OverlaidIs ==
    ASSUME NEW bytes \in Short, NEW new \in Values, NEW offset \in 0..MaxLen,
           offset + Len(new) <= MaxLen
    PROVE  /\ C!Overlaid(bytes, offset, new) = C!Bytes!Overlaid(bytes, offset, new)
           /\ C!Overlaid(bytes, offset, new) \in Short
<1> DEFINE end == offset + Len(new)
           n == IF end > Len(bytes) THEN end ELSE Len(bytes)
           room == C!Bytes!Resized(bytes, n)
           f == [k \in DOMAIN room |-> IF k > offset /\ k <= end THEN new[k - offset] ELSE room[k]]
<1>1. /\ MaxLen \in Nat /\ offset \in Nat /\ bytes \in Seq(Nat) /\ Len(bytes) <= MaxLen
      /\ new \in Seq(Nat) /\ Len(new) \in Nat /\ end \in Nat
  BY LocalFileAssumption, CodedAssumption DEF Short
<1>2. n \in 0..MaxLen
  BY <1>1
<1>3. /\ room \in Short /\ room \in Seq(Nat) /\ Len(room) = n /\ DOMAIN room = 1..n
      /\ room = IF Len(bytes) < end THEN C!Cut(bytes, end) ELSE bytes
  <2>1. room \in Short
    BY <1>2, CutIs
  <2>2. room = [k \in 1..n |-> IF k <= Len(bytes) THEN bytes[k] ELSE 0]
    BY DEF C!Bytes!Resized
  <2>3. CASE Len(bytes) < end
    <3>1. n = end
      BY <1>1, <2>3
    <3> QED BY <1>2, <2>1, <2>2, <2>3, <3>1 DEF C!Cut, Short
  <2>4. CASE ~(Len(bytes) < end)
    <3>1. n = Len(bytes)
      BY <1>1, <2>4
    <3>2. bytes = [k \in 1..Len(bytes) |-> bytes[k]]
      BY <1>1
    <3>3. room = bytes
      BY <2>2, <3>1, <3>2
    <3> QED BY <1>1, <2>1, <2>4, <3>1, <3>3 DEF Short
  <2> QED BY <2>3, <2>4
<1>4. C!Bytes!Overlaid(bytes, offset, new) = f
  BY DEF C!Bytes!Overlaid
<1>5. C!Overlaid(bytes, offset, new) = f
  BY <1>3 DEF C!Overlaid
<1> HIDE DEF room, n
<1>6. f \in Short
  <2>1. \A k \in 1..n : f[k] \in Nat
    BY SMTT(30), <1>1, <1>3
  <2>2. f = [k \in 1..n |-> f[k]]
    BY <1>3
  <2> HIDE DEF f
  <2>3. f \in Seq(Nat) /\ Len(f) = n
    BY <1>2, <2>1, <2>2, Spelt
  <2> QED BY <1>2, <2>3 DEF Short
<1> QED BY <1>4, <1>5, <1>6

LEMMA CodedInitially == C!Init => CodedInv
<1> SUFFICES ASSUME C!Init PROVE CodedInv
  OBVIOUS
<1>1. <<>> \in Short
  BY LocalFileAssumption DEF Short
<1>2. Values \subseteq Short
  BY CodedAssumption DEF Short
<1>3. /\ stored \in {C!NoBytes, C!Torn} \/ \E bytes \in Values : stored = C!Encoding(bytes)
      /\ plain = {} /\ dirty = FALSE /\ value = stored.value
      /\ answer = "ok" /\ read = {} /\ spoilt = FALSE /\ misled = FALSE /\ faults = 0
  BY DEF C!Init
<1>4. /\ stored \in [kind : {"none", "encoded", "torn"}, value : Short]
      /\ stored.kind # "encoded" => stored.value = <<>>
  BY <1>1, <1>2, <1>3 DEF C!NoBytes, C!Torn, C!Encoding
<1>5. CodedType
  <2>1. stored.value \in Short
    BY <1>4
  <2>2. 0 \in 0..MaxFaults
    BY CodedAssumption
  <2> QED BY <1>3, <1>4, <2>1, <2>2 DEF CodedType
<1> QED BY <1>3, <1>5 DEF CodedInv, C!Decoded

\* What a call takes for the value is the value, unless it is misled.
LEMMA DecodesIs ==
    ASSUME CodedType, NEW bytes, C!Decodes(bytes)
    PROVE  /\ bytes \in Short /\ faults' \in 0..MaxFaults /\ misled' \in BOOLEAN
           /\ ~misled' => ~misled /\ bytes = C!Decoded
<1>1. C!Decoded \in Short /\ <<>> \in Short /\ MaxFaults \in Nat
  BY DecodedIs, LocalFileAssumption, CodedAssumption DEF Short
<1>2. CASE bytes = C!Decoded /\ UNCHANGED <<misled, faults>>
  BY <1>1, <1>2 DEF CodedType
<1>3. CASE C!Fault("read") /\ bytes = <<>> /\ misled' = (misled \/ C!Decoded # <<>>)
  <2>1. misled' \in BOOLEAN /\ (~misled' => ~misled /\ C!Decoded = <<>>)
    BY <1>3, Zenon
  <2>2. faults' \in 0..MaxFaults
    BY <1>1, <1>3 DEF CodedType, C!Fault
  <2> QED BY <1>1, <1>3, <2>1, <2>2
<1> QED BY <1>2, <1>3 DEF C!Decodes

\* A change of the value: both the caller's and the handle's, and alike as long
\* as the two are one.
LEMMA ChangeKeeps ==
    ASSUME CodedInv, NEW bytes \in Short, NEW wanted \in Short, C!Change(bytes, wanted),
           faults' \in 0..MaxFaults, misled' \in BOOLEAN,
           ~spoilt /\ ~misled' => bytes = wanted
    PROVE  CodedInv'
<1>1. /\ plain' = {bytes} /\ value' = wanted /\ dirty' = TRUE /\ answer' = "ok"
      /\ stored' = stored /\ spoilt' = spoilt /\ read' = {}
  BY DEF C!Change
<1>2. CodedType'
  BY <1>1 DEF CodedInv, CodedType
<1>3. C!Decoded' = bytes
  BY <1>1 DEF C!Decoded, C!Held
<1> QED BY <1>1, <1>2, <1>3 DEF CodedInv

\* Appending overlays the value from its end, unless it is misled.
LEMMA AppendingIs ==
    ASSUME CodedInv, C!AppendBytes
    PROVE  \E new \in Values, bytes \in Short, at \in 0..MaxLen :
              /\ at + Len(new) <= MaxLen /\ Len(value) + Len(new) <= MaxLen
              /\ Len(value) \in 0..MaxLen
              /\ C!Change(C!Overlaid(bytes, at, new), C!Bytes!Overlaid(value, Len(value), new))
              /\ faults' \in 0..MaxFaults /\ misled' \in BOOLEAN
              /\ ~misled' => ~misled /\ bytes = C!Decoded
                             /\ (C!Decoded = value => at = Len(value))
<1>1. /\ CodedType /\ C!Decoded \in Short /\ value \in Short /\ <<>> \in Short
      /\ MaxLen \in Nat /\ MaxFaults \in Nat
  BY DecodedIs, LocalFileAssumption, CodedAssumption DEF CodedInv, CodedType, Short
<1>2. PICK new \in Values \ {<<>>}, bytes \in {C!Decoded, <<>>}, at \in {0, Len(C!Decoded)} :
        /\ Len(value) + Len(new) <= MaxLen /\ at + Len(new) <= MaxLen
        /\ \/ C!Decodes(bytes) /\ at = Len(C!Decoded)
           \/ /\ C!SizeFails /\ C!Readable /\ at = 0 /\ bytes = C!Decoded
              /\ misled' = (misled \/ C!Decoded # <<>>)
        /\ C!Change(C!Overlaid(bytes, at, new), C!Bytes!Overlaid(value, Len(value), new))
  BY <1>1 DEF C!AppendBytes
<1>3. bytes \in Short /\ at \in 0..MaxLen /\ Len(value) \in 0..MaxLen
  <2>1. \A b \in Short : Len(b) \in 0..MaxLen
    BY <1>1 DEF Short
  <2>2. 0 \in 0..MaxLen
    BY <1>1
  <2> QED BY <1>1, <2>1, <2>2
<1>4. CASE C!Decodes(bytes) /\ at = Len(C!Decoded)
  <2>1. /\ faults' \in 0..MaxFaults /\ misled' \in BOOLEAN
        /\ ~misled' => ~misled /\ bytes = C!Decoded
    BY <1>1, <1>4, DecodesIs
  <2>2. C!Decoded = value => at = Len(value)
    BY <1>4
  <2> QED BY <1>2, <1>3, <2>1, <2>2
<1>5. CASE /\ C!SizeFails /\ C!Readable /\ at = 0 /\ bytes = C!Decoded
           /\ misled' = (misled \/ C!Decoded # <<>>)
  <2>1. faults' \in 0..MaxFaults /\ misled' \in BOOLEAN
    BY <1>1, <1>5 DEF C!SizeFails, C!Fault, CodedType
  <2>2. ~misled' => ~misled /\ C!Decoded = <<>>
    BY <1>5
  <2>3. C!Decoded = <<>> => Len(C!Decoded) = 0
    OBVIOUS
  <2> QED BY <1>2, <1>3, <1>5, <2>1, <2>2, <2>3
<1> QED BY <1>2, <1>4, <1>5

LEMMA CodedStays == CodedInv /\ [C!Next]_coded => CodedInv'
<1> SUFFICES ASSUME CodedInv, [C!Next]_coded PROVE CodedInv'
  OBVIOUS
<1>1. MaxFaults \in Nat /\ MaxLen \in Nat /\ <<>> \in Short
  BY CodedAssumption, LocalFileAssumption DEF Short
<1>2. /\ CodedType /\ C!Decoded \in Short
      /\ plain # {} => plain = {C!Held} /\ C!Held \in Short /\ C!Decoded = C!Held
      /\ plain = {} => C!Decoded = stored.value
  BY DecodedIs DEF CodedInv, C!Decoded
<1>3. /\ \A kind : C!Fault(kind) => faults' \in 0..MaxFaults
      /\ C!SizeFails => plain = {} /\ faults' \in 0..MaxFaults
  BY <1>1, <1>2 DEF C!Fault, C!SizeFails, CodedType
<1>4. CASE UNCHANGED coded
  BY <1>4 DEF coded, CodedInv, CodedType, C!Decoded, C!Held
<1>5. ASSUME UNCHANGED <<stored, plain, dirty, value, spoilt, misled>>,
             answer' \in {"ok", "error"}, faults' \in 0..MaxFaults,
             read' = {} \/ read' = {C!Decoded} \/ (plain = {} /\ read' = {<<>>})
      PROVE  CodedInv'
  <2>1. CodedType'
    BY <1>2, <1>5 DEF CodedType
  <2>2. C!Decoded' = C!Decoded
    BY <1>5 DEF C!Decoded, C!Held
  <2> QED BY <1>5, <2>1, <2>2 DEF CodedInv
<1>12. CASE C!Unreadable
  BY <1>3, <1>5, <1>12 DEF C!Unreadable
<1>13. CASE C!ReadAll
  <2>1. UNCHANGED faults => faults' \in 0..MaxFaults
    BY <1>2 DEF CodedType
  <2> QED BY <1>3, <1>5, <1>13, <2>1 DEF C!ReadAll
<1>6. CASE C!Materialize
  <2>1. PICK bytes : C!Decodes(bytes) /\ plain' = {bytes}
    BY <1>6 DEF C!Materialize
  <2>2. answer' = "ok" /\ read' = {} /\ UNCHANGED <<stored, dirty, value, spoilt>>
    BY <1>6 DEF C!Materialize
  <2>3. /\ bytes \in Short /\ faults' \in 0..MaxFaults /\ misled' \in BOOLEAN
        /\ ~misled' => ~misled /\ bytes = C!Decoded
    BY <1>2, <2>1, DecodesIs
  <2>4. CodedType'
    BY <1>2, <2>1, <2>2, <2>3 DEF CodedType
  <2>5. C!Decoded' = bytes
    BY <2>1 DEF C!Decoded, C!Held
  <2> QED BY <2>1, <2>2, <2>3, <2>4, <2>5 DEF CodedInv
<1>7. CASE C!Write
  <2>1. PICK new \in Values, offset \in 0..MaxLen, bytes \in {C!Decoded, <<>>} :
          /\ offset + Len(new) <= MaxLen
          /\ C!Decodes(bytes)
          /\ C!Change(C!Overlaid(bytes, offset, new), C!Bytes!Overlaid(value, offset, new))
    BY <1>7 DEF C!Write
  <2>2. /\ bytes \in Short /\ faults' \in 0..MaxFaults /\ misled' \in BOOLEAN
        /\ ~misled' => ~misled /\ bytes = C!Decoded
    BY <1>2, <2>1, DecodesIs
  <2>3. value \in Short
    BY <1>2 DEF CodedType
  <2>4. C!Overlaid(bytes, offset, new) \in Short /\ C!Bytes!Overlaid(value, offset, new) \in Short
    BY <2>1, <2>2, <2>3, OverlaidIs
  <2>5. ~spoilt /\ ~misled' =>
           C!Overlaid(bytes, offset, new) = C!Bytes!Overlaid(value, offset, new)
    BY <2>1, <2>2, <2>3, OverlaidIs DEF CodedInv
  <2> QED BY <2>1, <2>2, <2>4, <2>5, ChangeKeeps
<1>14. CASE C!AppendBytes
  <2>1. PICK new \in Values, bytes \in Short, at \in 0..MaxLen :
          /\ at + Len(new) <= MaxLen /\ Len(value) + Len(new) <= MaxLen
          /\ Len(value) \in 0..MaxLen
          /\ C!Change(C!Overlaid(bytes, at, new), C!Bytes!Overlaid(value, Len(value), new))
          /\ faults' \in 0..MaxFaults /\ misled' \in BOOLEAN
          /\ ~misled' => ~misled /\ bytes = C!Decoded
                         /\ (C!Decoded = value => at = Len(value))
    BY <1>14, AppendingIs
  <2>2. C!Overlaid(bytes, at, new) \in Short /\ C!Bytes!Overlaid(value, Len(value), new) \in Short
    BY <1>2, <2>1, OverlaidIs DEF CodedType
  <2>3. ~spoilt /\ ~misled' =>
           C!Overlaid(bytes, at, new) = C!Bytes!Overlaid(value, Len(value), new)
    BY <2>1, OverlaidIs DEF CodedInv
  <2> QED BY <2>1, <2>2, <2>3, ChangeKeeps
<1>8. CASE C!Truncate
  <2>1. PICK n \in 0..MaxLen, bytes \in {C!Decoded, <<>>} :
          C!Decodes(bytes) /\ C!Change(C!Cut(bytes, n), C!Bytes!Resized(value, n))
    BY <1>8 DEF C!Truncate
  <2>2. /\ bytes \in Short /\ faults' \in 0..MaxFaults /\ misled' \in BOOLEAN
        /\ ~misled' => ~misled /\ bytes = C!Decoded
    BY <1>2, <2>1, DecodesIs
  <2>3. value \in Short
    BY <1>2 DEF CodedType
  <2>4. C!Cut(bytes, n) \in Short /\ C!Bytes!Resized(value, n) \in Short
    BY <2>2, <2>3, CutIs
  <2>5. ~spoilt /\ ~misled' => C!Cut(bytes, n) = C!Bytes!Resized(value, n)
    BY <2>2, <2>3, CutIs DEF CodedInv
  <2> QED BY <2>1, <2>2, <2>4, <2>5, ChangeKeeps
<1>9. CASE C!Flush \/ C!Close
  <2>1. /\ stored' = (IF dirty THEN C!Encoding(C!Taken) ELSE stored) /\ dirty' = FALSE
        /\ value' = value /\ spoilt' = spoilt /\ misled' = misled /\ read' = {}
        /\ plain' = {} \/ plain' = (IF dirty THEN {C!Taken} ELSE plain)
        /\ answer' \in {"published", "error"}
    BY <1>9 DEF C!Flush, C!Close, C!Publish
  <2>2. faults' \in 0..MaxFaults
    BY <1>2, <1>3, <1>9 DEF C!Flush, C!Close, CodedType
  <2>3. C!Taken \in Short /\ (plain # {} => C!Taken = C!Decoded)
    BY <1>1, <1>2 DEF C!Taken
  <2>4. stored' \in [kind : {"none", "encoded", "torn"}, value : Short]
        /\ (stored'.kind # "encoded" => stored'.value = <<>>)
        /\ stored'.value = IF dirty THEN C!Taken ELSE stored.value
    BY <1>2, <2>1, <2>3 DEF C!Encoding, CodedType
  <2>5. CodedType'
    BY <1>2, <2>1, <2>2, <2>3, <2>4 DEF CodedType
  <2>6. ~spoilt /\ ~misled => stored'.value = value
    BY <2>3, <2>4 DEF CodedInv
  <2>7. ~spoilt /\ ~misled => C!Decoded' = value
    <3>1. CASE plain' = {}
      BY <2>6, <3>1 DEF C!Decoded
    <3>2. CASE plain' # {} /\ dirty
      BY <2>1, <2>3, <3>2 DEF C!Decoded, C!Held, CodedInv
    <3>3. CASE plain' # {} /\ ~dirty
      BY <2>1, <3>3 DEF C!Decoded, C!Held, CodedInv
    <3> QED BY <3>1, <3>2, <3>3
  <2> QED BY <2>1, <2>5, <2>6, <2>7 DEF CodedInv
<1>10. CASE C!PublishFails
  <2>1. /\ stored' \in {stored, C!NoBytes, C!Torn} /\ plain' = {} /\ answer' = "error"
        /\ spoilt' = TRUE /\ UNCHANGED <<dirty, value, misled>> /\ faults' \in 0..MaxFaults
    BY <1>3, <1>10 DEF C!PublishFails
  <2>2. CodedType'
    BY <1>1, <1>2, <2>1 DEF CodedType, C!NoBytes, C!Torn
  <2> QED BY <2>1, <2>2 DEF CodedInv
<1>11. CASE C!Drop
  <2>1. /\ plain' = {} /\ dirty' = FALSE /\ value' = stored.value /\ answer' = "ok"
        /\ spoilt' = FALSE /\ misled' = FALSE /\ read' = {} /\ UNCHANGED <<stored, faults>>
    BY <1>11 DEF C!Drop
  <2>2. CodedType'
    BY <1>2, <2>1 DEF CodedType
  <2> QED BY <2>1, <2>2 DEF CodedInv, C!Decoded
<1> QED BY <1>4, <1>6, <1>7, <1>8, <1>9, <1>10, <1>11, <1>12, <1>13, <1>14 DEF C!Next

\* The decoded value is one value, there once; and until the handle fails it
\* is the written one, which an answered flush has stored and a read returns.
LEMMA CodedInvHolds == CodedInv => C!ValueHolds
<1> SUFFICES ASSUME CodedInv PROVE C!ValueHolds
  OBVIOUS
<1>1. C!TypeOK
  BY DecodedIs DEF CodedInv, CodedType, C!TypeOK, Short
<1>2. C!WrittenUnlessFailed
  BY DEF CodedInv, C!WrittenUnlessFailed, C!Failed
<1> QED BY <1>1, <1>2 DEF C!ValueHolds

\* A coded handle holds one decoded value, once: the written one until a
\* publish fails or a call goes by the empty value size() and read_all make of
\* a failure (coding.rs), whatever fails and however often.
THEOREM CodedValuesHold == C!Spec => []C!ValueHolds
BY CodedInitially, CodedStays, CodedInvHolds, PTL DEF C!Spec, C!vars, coded

\* What a step of a coded handle does is a step of a byte store.
LEMMA CodedSteps ==
    ASSUME CodedInv, [C!Next]_coded
    PROVE  [C!Failed \/ C!Failed' \/ C!Bytes!Next]_<<C!Bytes!vars, spoilt, misled>>
<1> SUFFICES ASSUME ~spoilt, ~misled, ~spoilt', ~misled'
             PROVE  C!Bytes!Next \/ UNCHANGED <<C!Bytes!vars, spoilt, misled>>
  BY DEF C!Failed
<1> USE DEF C!Bytes!vars
<1>1. /\ CodedType /\ C!Decoded \in Short /\ C!Decoded = value
      /\ plain # {} => C!Decoded = C!Held
      /\ dirty => plain # {}
      /\ ~dirty => stored.value = value
  BY DecodedIs DEF CodedInv, C!Decoded
<1>0. spoilt' = spoilt /\ misled' = misled
  <2>1. spoilt = FALSE /\ spoilt' = FALSE /\ misled = FALSE /\ misled' = FALSE
    BY CodedStays DEF CodedInv, CodedType
  <2> QED BY <2>1
<1>2. CASE UNCHANGED coded
  BY <1>2 DEF coded, C!Decoded, C!Held
<1>3. CASE C!Unreadable \/ C!ReadAll
  <2>1. stored' = stored /\ plain' = plain
    BY <1>3 DEF C!Unreadable, C!ReadAll
  <2>2. C!Decoded' = C!Decoded
    BY <2>1 DEF C!Decoded, C!Held
  <2> QED BY <1>0, <2>1, <2>2
<1>4. CASE C!Materialize
  <2>1. PICK bytes : C!Decodes(bytes) /\ plain' = {bytes} /\ stored' = stored
    BY <1>4 DEF C!Materialize
  <2>2. bytes = C!Decoded
    BY <1>1, <2>1, DecodesIs
  <2>3. C!Decoded' = C!Decoded
    BY <2>1, <2>2 DEF C!Decoded, C!Held
  <2> QED BY <1>0, <2>1, <2>3
<1>5. ASSUME NEW bytes, NEW wanted, C!Change(bytes, wanted)
      PROVE  C!Decoded' = bytes /\ stored'.value = stored.value
  BY <1>5 DEF C!Change, C!Decoded, C!Held
<1>6. CASE C!Write
  <2>1. PICK new \in Values, offset \in 0..MaxLen, bytes \in {C!Decoded, <<>>} :
          /\ offset + Len(new) <= MaxLen
          /\ C!Decodes(bytes)
          /\ C!Change(C!Overlaid(bytes, offset, new), C!Bytes!Overlaid(value, offset, new))
    BY <1>6 DEF C!Write
  <2>2. bytes = C!Decoded
    BY <1>1, <2>1, DecodesIs
  <2>3. C!Decoded' = C!Overlaid(C!Decoded, offset, new) /\ stored'.value = stored.value
    BY <1>5, <2>1, <2>2
  <2>4. C!Decoded' = C!Bytes!Overlaid(C!Decoded, offset, new)
    BY <1>1, <2>1, <2>3, OverlaidIs
  <2>5. C!Bytes!Write
    BY <2>1, <2>3, <2>4 DEF C!Bytes!Write, C!Bytes!Becomes
  <2> QED BY <2>5 DEF C!Bytes!Next
<1>11. CASE C!AppendBytes
  <2>1. PICK new \in Values, bytes \in Short, at \in 0..MaxLen :
          /\ at + Len(new) <= MaxLen /\ Len(value) + Len(new) <= MaxLen
          /\ Len(value) \in 0..MaxLen
          /\ C!Change(C!Overlaid(bytes, at, new), C!Bytes!Overlaid(value, Len(value), new))
          /\ faults' \in 0..MaxFaults /\ misled' \in BOOLEAN
          /\ ~misled' => ~misled /\ bytes = C!Decoded
                         /\ (C!Decoded = value => at = Len(value))
    BY <1>11, AppendingIs
  <2>2. bytes = C!Decoded /\ at = Len(value)
    BY <1>1, <2>1
  <2>3. C!Decoded' = C!Overlaid(C!Decoded, at, new) /\ stored'.value = stored.value
    BY <1>5, <2>1, <2>2
  <2>4. C!Decoded' = C!Bytes!Overlaid(C!Decoded, at, new)
    BY <1>1, <2>1, <2>3, OverlaidIs
  <2>5. C!Bytes!Write
    BY <2>1, <2>3, <2>4 DEF C!Bytes!Write, C!Bytes!Becomes
  <2> QED BY <2>5 DEF C!Bytes!Next
<1>7. CASE C!Truncate
  <2>1. PICK n \in 0..MaxLen, bytes \in {C!Decoded, <<>>} :
          C!Decodes(bytes) /\ C!Change(C!Cut(bytes, n), C!Bytes!Resized(value, n))
    BY <1>7 DEF C!Truncate
  <2>2. bytes = C!Decoded
    BY <1>1, <2>1, DecodesIs
  <2>3. C!Decoded' = C!Cut(C!Decoded, n) /\ stored'.value = stored.value
    BY <1>5, <2>1, <2>2
  <2>4. C!Decoded' = C!Bytes!Resized(C!Decoded, n)
    BY <1>1, <2>3, CutIs
  <2>5. C!Bytes!Truncate
    BY <2>3, <2>4 DEF C!Bytes!Truncate, C!Bytes!Becomes
  <2> QED BY <2>5 DEF C!Bytes!Next
<1>8. CASE C!Flush \/ C!Close
  <2>1. /\ stored' = (IF dirty THEN C!Encoding(C!Taken) ELSE stored)
        /\ plain' = {} \/ plain' = (IF dirty THEN {C!Taken} ELSE plain)
    BY <1>8 DEF C!Flush, C!Close, C!Publish
  <2>2. dirty => C!Taken = C!Decoded
    BY <1>1 DEF C!Taken
  <2>3. stored'.value = C!Decoded
    BY <1>1, <2>1, <2>2 DEF C!Encoding
  <2>4. C!Decoded' = C!Decoded
    BY <1>1, <2>1, <2>2, <2>3 DEF C!Decoded, C!Held
  <2>5. C!Bytes!Publish
    BY <2>3, <2>4 DEF C!Bytes!Publish
  <2> QED BY <2>5 DEF C!Bytes!Next
<1>9. CASE C!PublishFails
  BY <1>9 DEF C!PublishFails
<1>10. CASE C!Drop
  <2>1. C!Decoded' = stored.value /\ stored' = stored
    BY <1>10 DEF C!Drop, C!Decoded
  <2> QED BY <2>1 DEF C!Bytes!Forget, C!Bytes!Next
<1> QED BY <1>2, <1>3, <1>4, <1>6, <1>7, <1>8, <1>9, <1>10, <1>11 DEF C!Next

\* What is decoded at first is a value somebody wrote.
LEMMA CodedStarts == C!Init => C!Bytes!Init
<1> SUFFICES ASSUME C!Init PROVE C!Bytes!Init
  OBVIOUS
<1>1. C!Decoded = stored.value
  BY DEF C!Init, C!Decoded
<1>2. \/ stored.value = <<>>
      \/ \E bytes \in Values : stored.value = bytes
  BY DEF C!Init, C!NoBytes, C!Torn, C!Encoding
<1>3. CASE stored.value = <<>>
  <2>1. <<>> \in [1..0 -> {0} \cup UNION {{b[k] : k \in DOMAIN b} : b \in Values}] /\ 0 \in 0..MaxLen
    BY LocalFileAssumption
  <2> QED BY <1>1, <1>3, <2>1 DEF C!Bytes!Init
<1>4. CASE \E bytes \in Values : stored.value = bytes
  <2>1. PICK bytes \in Values : stored.value = bytes
    BY <1>4
  <2>2. bytes \in Seq(Nat) /\ Len(bytes) \in 0..MaxLen
    BY CodedAssumption, LocalFileAssumption
  <2>3. bytes \in [1..Len(bytes) -> {0} \cup UNION {{b[k] : k \in DOMAIN b} : b \in Values}]
    <3>1. \A k \in DOMAIN bytes : bytes[k] \in UNION {{b[j] : j \in DOMAIN b} : b \in Values}
      OBVIOUS
    <3> QED BY <2>2, <3>1
  <2> QED BY <1>1, <2>1, <2>2, <2>3 DEF C!Bytes!Init
<1> QED BY <1>2, <1>3, <1>4

\* A coded handle is a byte store like any other: what it has not published is
\* what dropping it loses, except from one of its two failures until the drop.
THEOREM CodedImplementByteStore == C!Spec => C!ImplementsByteStore
BY CodedInitially, CodedStays, CodedStarts, CodedSteps, PTL
   DEF C!Spec, C!vars, coded, C!ImplementsByteStore

-----------------------------------------------------------------------------
(* Sequences, their front and their last element.                          *)

LEMMA FrontIs ==
    ASSUME NEW S, NEW s \in Seq(S), s # <<>>
    PROVE  /\ Last(s) \in S /\ Front(s) \in Seq(S)
           /\ Len(Front(s)) = Len(s) - 1
           /\ \A k \in 1..(Len(s) - 1) : Front(s)[k] = s[k]
<1> DEFINE n == Len(s) - 1
<1>1. Len(s) \in Nat \ {0} /\ \A k \in 1..Len(s) : s[k] \in S
  BY EmptySeq
<1>2. n \in Int /\ n \in Nat /\ 1 \in Int /\ n - 1 + 1 = n /\ \A k \in 1..n : s[k] \in S /\ s[1 + k - 1] = s[k]
  BY <1>1
<1> HIDE DEF n
<1>3. /\ SubSeq(s, 1, n) \in Seq(S)
      /\ Len(SubSeq(s, 1, n)) = IF 1 <= n THEN n - 1 + 1 ELSE 0
      /\ \A k \in 1..(n - 1 + 1) : SubSeq(s, 1, n)[k] = s[1 + k - 1]
  BY <1>2, SubSeqProperties
<1>4. Len(SubSeq(s, 1, n)) = n /\ \A k \in 1..n : SubSeq(s, 1, n)[k] = s[k]
  BY <1>2, <1>3
<1> QED BY <1>1, <1>3, <1>4 DEF Front, Last, n

\* What is appended last is what Front takes off again.
LEMMA AppendedIs ==
    ASSUME NEW S, NEW s \in Seq(S), NEW x \in S
    PROVE  /\ Append(s, x) \in Seq(S) /\ Append(s, x) # <<>>
           /\ Last(Append(s, x)) = x /\ Front(Append(s, x)) = s
<1> DEFINE t == Append(s, x)
<1>1. /\ t \in Seq(S) /\ t # <<>> /\ Len(s) \in Nat /\ Len(t) = Len(s) + 1
      /\ t[Len(t)] = x /\ \A k \in 1..Len(s) : t[k] = s[k]
  BY AppendProperties
<1> HIDE DEF t
<1>4. Len(t) - 1 = Len(s)
  BY <1>1
<1>2. /\ Front(t) \in Seq(S) /\ Len(Front(t)) = Len(s)
      /\ \A k \in 1..Len(s) : Front(t)[k] = t[k]
  BY <1>1, <1>4, FrontIs
<1>3. Front(t) = s
  BY <1>1, <1>2, SeqEqual
<1> QED BY <1>1, <1>3 DEF Last, t

\* A set of numbers has a least one: the intervals from 0 are finite sets,
\* which strict inclusion orders well.
LEMMA LeastOf ==
    ASSUME NEW T \in SUBSET Nat, T # {}
    PROVE  \E x \in T : \A y \in T : x <= y
<1> DEFINE U == {0..n : n \in T}
<1>1. \A n \in Nat : IsFiniteSet(0..n) /\ 0..n \in SUBSET Nat
  BY FS_Interval
<1>2. U \subseteq FiniteSubsetsOf(Nat) /\ U # {}
  BY <1>1 DEF FiniteSubsetsOf
<1>3. IsWellFoundedOn(StrictSubsetOrdering(Nat), FiniteSubsetsOf(Nat))
  BY FS_StrictSubsetOrderingWellFounded
<1>4. PICK s \in U : \A t \in U : <<t, s>> \notin StrictSubsetOrdering(Nat)
  BY <1>2, <1>3, WFMin
<1>5. PICK x \in T : s = 0..x
  BY <1>4
<1>6. ASSUME NEW y \in T, ~(x <= y) PROVE FALSE
  <2>1. 0..y \in U /\ 0..y \subseteq s /\ 0..y # s
    BY <1>5, <1>6
  <2>2. <<0..y, s>> \in StrictSubsetOrdering(Nat)
    BY <1>1, <1>5, <1>6, <2>1 DEF StrictSubsetOrdering
  <2> QED BY <1>4, <2>1, <2>2
<1> QED BY <1>6

-----------------------------------------------------------------------------
(* Bytes, media types and what is inferred.                                *)

Wire == {"gzip", "zstd", "zlib", "deflate"}
Named == {"gzip", "zlib", "zstd"}
IsBytes(bytes) == bytes \in [base : Plain, codings : Seq(Wire)]
IsType(type) == /\ type = MediaType(type.base, type.encodings)
                /\ type.encodings \in Seq(Named)

\* There is an outermost coding that does not peel, or nothing is left.
LEMMA DepthIs ==
    ASSUME NEW bytes, IsBytes(bytes)
    PROVE  /\ Depth(bytes) \in 0..Len(bytes.codings)
           /\ \A k \in 1..Depth(bytes) : Peels(bytes, k)
<1> DEFINE n == Len(bytes.codings)
           T == {d \in Nat : ~Peels(bytes, d + 1)}
<1>1. n \in Nat
  BY DEF IsBytes
<1>2. ~Peels(bytes, n + 1)
  BY <1>1 DEF Peels
<1>3. n \in T /\ T \in SUBSET Nat
  BY <1>1, <1>2
<1> HIDE DEF n
<1>4. PICK d \in T : \A y \in T : d <= y
  <2> HIDE DEF T
  <2> QED BY <1>3, LeastOf
<1>5. d \in 0..n /\ ~Peels(bytes, d + 1)
  BY <1>1, <1>3, <1>4
<1>6. \A k \in 1..d : Peels(bytes, k)
  <2> SUFFICES ASSUME NEW k \in 1..d, ~Peels(bytes, k) PROVE FALSE
    OBVIOUS
  <2>1. k - 1 \in Nat /\ k - 1 + 1 = k /\ ~(d <= k - 1)
    BY <1>4
  <2>2. k - 1 \in T
    BY <2>1
  <2> QED BY <1>4, <2>1, <2>2
<1>7. \E e \in 0..n : (\A k \in 1..e : Peels(bytes, k)) /\ ~Peels(bytes, e + 1)
  BY <1>5, <1>6
<1> QED BY <1>7 DEF Depth, n

LEMMA InferenceIs ==
    ASSUME NEW bytes, IsBytes(bytes)
    PROVE  /\ IsType(Inference(bytes))
           /\ bytes.codings = <<>> => CodecOf(Inference(bytes)) = "identity"
<1> DEFINE depth == Depth(bytes)
           n == Len(bytes.codings)
           peeled == [k \in 1..depth |-> Layer(bytes, k)]
<1>1. depth \in 0..n /\ n \in Nat /\ \A k \in 1..depth : Peels(bytes, k)
  BY DepthIs DEF IsBytes
<1>2. \A k \in 1..depth : Layer(bytes, k) \in Named
  <2> SUFFICES ASSUME NEW k \in 1..depth PROVE Layer(bytes, k) \in Named
    OBVIOUS
  <2>1. n - k + 1 \in 1..n
    BY <1>1
  <2>2. Layer(bytes, k) \in Wire
    BY <2>1 DEF Layer, IsBytes
  <2>3. Layer(bytes, k) # "deflate"
    BY <1>1 DEF Peels, HasSignature
  <2> QED BY <2>2, <2>3 DEF Wire, Named
<1>3. peeled \in Seq(Named) /\ Len(peeled) = depth
  BY <1>1, <1>2, Spelt
<1> HIDE DEF depth, peeled
<1>4. ASSUME NEW type \in FromMagicBytes(bytes)
      PROVE  IsType(type) /\ (depth = 0 => type.encodings = <<>>)
  <2>1. CASE \E mime : type = MediaType(mime, peeled)
    <3>1. type.encodings = peeled /\ type = MediaType(type.base, type.encodings)
      BY <2>1 DEF MediaType
    <3>2. depth = 0 => peeled = <<>>
      BY <1>3, EmptySeq
    <3> QED BY <1>3, <3>1, <3>2 DEF IsType
  <2>2. CASE depth # 0 /\ type = MediaType(Last(peeled), Front(peeled))
    <3>1. peeled # <<>>
      BY <1>3, <2>2, EmptySeq
    <3>2. type.encodings = Front(peeled) /\ type = MediaType(type.base, type.encodings)
      BY <2>2 DEF MediaType
    <3> QED BY <1>3, <2>2, <3>1, <3>2, FrontIs DEF IsType
  <2> QED BY <2>1, <2>2 DEF FromMagicBytes, depth, peeled
<1>5. /\ IsType(OctetStream) /\ OctetStream.encodings = <<>>
  BY EmptySeq DEF IsType, OctetStream, MediaType
<1>6. Inference(bytes) = OctetStream \/ Inference(bytes) \in FromMagicBytes(bytes)
  BY DEF Inference
<1>7. bytes.codings = <<>> => depth = 0
  BY <1>1, EmptySeq
<1> QED BY <1>4, <1>5, <1>6, <1>7 DEF CodecOf

-----------------------------------------------------------------------------
(* Buffers.                                                                *)

\* What a buffer holds: bytes, a declared type if any, and, if one is kept, the
\* inference of those bytes.
IsBuffer(b) ==
    /\ b = [bytes |-> b.bytes, declared |-> b.declared, inferred |-> b.inferred]
    /\ IsBytes(b.bytes)
    /\ b.declared = {} \/ \E type : IsType(type) /\ b.declared = {type}
    /\ b.inferred \in {{}, {Inference(b.bytes)}}

\* Unless it is noted as wrong, a declared type names the codings of the bytes.
Sound(f, wrong) ==
    /\ f = [n \in Names |-> f[n]]
    /\ \A n \in Names :
          /\ IsBuffer(f[n])
          /\ f[n].declared # {} /\ n \notin wrong => Fitting(f[n])

BuffersInv == Sound(buffer, misdeclared)

LEMMA TypeIs ==
    ASSUME NEW b, IsBuffer(b)
    PROVE  /\ IsType(TypeOf(b))
           /\ b.declared = {} => TypeOf(b) = Inference(b.bytes)
<1>1. IsType(Inference(b.bytes))
  BY InferenceIs DEF IsBuffer
<1>2. CASE b.declared = {}
  <2>1. CASE b.inferred = {}
    BY <1>1, <1>2, <2>1 DEF TypeOf
  <2>2. CASE b.inferred # {}
    BY <1>1, <1>2, <2>2 DEF TypeOf, IsBuffer
  <2> QED BY <2>1, <2>2
<1>3. CASE b.declared # {}
  <2>1. PICK type : IsType(type) /\ b.declared = {type}
    BY <1>3 DEF IsBuffer
  <2> QED BY <2>1 DEF TypeOf
<1> QED BY <1>2, <1>3

\* Asking changes neither the bytes nor the answer.
LEMMA AskedIs ==
    ASSUME NEW b, IsBuffer(b)
    PROVE  /\ IsBuffer(Asked(b)) /\ TypeOf(Asked(b)) = TypeOf(b)
           /\ Asked(b).bytes = b.bytes /\ Asked(b).declared = b.declared
<1>1. CASE b.declared # {}
  BY <1>1 DEF Asked
<1>2. CASE b.declared = {}
  <2>1. Asked(b) = [bytes |-> b.bytes, declared |-> {}, inferred |-> {Inference(b.bytes)}]
    BY <1>2, TypeIs DEF Asked, IsBuffer
  <2>2. IsBuffer(Asked(b))
    BY <1>2, <2>1 DEF IsBuffer
  <2>3. TypeOf(Asked(b)) = Inference(b.bytes)
    BY <2>1 DEF TypeOf
  <2> QED BY <1>2, <2>1, <2>2, <2>3, TypeIs
<1> QED BY <1>1, <1>2

LEMMA HoldingIs ==
    ASSUME NEW b, IsBuffer(b), NEW bytes, IsBytes(bytes)
    PROVE  /\ IsBuffer(Holding(b, bytes))
           /\ Holding(b, bytes) = [bytes |-> bytes, declared |-> b.declared, inferred |-> {}]
<1>1. Holding(b, bytes) = [bytes |-> bytes, declared |-> b.declared, inferred |-> {}]
  <2>1. PICK x, d, i : b = [bytes |-> x, declared |-> d, inferred |-> i]
    BY DEF IsBuffer
  <2>3. [b EXCEPT !.bytes = bytes] = [bytes |-> bytes, declared |-> d, inferred |-> i]
    BY <2>1
  <2>4. Holding(b, bytes) = [[b EXCEPT !.bytes = bytes] EXCEPT !.inferred = {}]
    BY DEF Holding
  <2>5. \A c : c = [bytes |-> bytes, declared |-> d, inferred |-> i]
                => [c EXCEPT !.inferred = {}] = [bytes |-> bytes, declared |-> d, inferred |-> {}]
    OBVIOUS
  <2>2. Holding(b, bytes) = [bytes |-> bytes, declared |-> d, inferred |-> {}]
    BY <2>3, <2>4, <2>5
  <2> QED BY <2>1, <2>2
<1> QED BY <1>1 DEF IsBuffer

LEMMA DeclaringIs ==
    ASSUME NEW b, IsBuffer(b), NEW type, IsType(type)
    PROVE  LET d == [b EXCEPT !.declared = {type}] IN
           /\ IsBuffer(d) /\ TypeOf(d) = type
           /\ d.bytes = b.bytes /\ d.declared = {type} /\ d.inferred = b.inferred
<1> DEFINE d == [b EXCEPT !.declared = {type}]
<1>1. d = [bytes |-> b.bytes, declared |-> {type}, inferred |-> b.inferred]
  BY DEF IsBuffer
<1>2. TypeOf(d) = type
  BY <1>1 DEF TypeOf
<1> QED BY <1>1, <1>2 DEF IsBuffer

\* Replacing one buffer keeps all sound.
LEMMA PutKeeps ==
    ASSUME NEW f, NEW wrong, NEW after, Sound(f, wrong),
           NEW n \in Names, NEW b, IsBuffer(b),
           b.declared # {} /\ n \notin after => Fitting(b),
           wrong \ {n} \subseteq after
    PROVE  Sound([f EXCEPT ![n] = b], after)
<1> DEFINE g == [f EXCEPT ![n] = b]
<1>1. g = [k \in Names |-> IF k = n THEN b ELSE f[k]]
  BY DEF Sound
<1>2. ASSUME NEW k \in Names
      PROVE  IsBuffer(g[k]) /\ (g[k].declared # {} /\ k \notin after => Fitting(g[k]))
  <2>1. CASE k = n
    BY <1>1, <2>1
  <2>2. CASE k # n
    <3>1. g[k] = f[k] /\ (k \notin after => k \notin wrong)
      BY <1>1, <2>2
    <3> QED BY <3>1 DEF Sound
  <2> QED BY <2>1, <2>2
<1>3. g = [k \in Names |-> g[k]]
  BY <1>1
<1> QED BY <1>2, <1>3 DEF Sound

\* Asking any buffer keeps all sound.
LEMMA AskKeeps ==
    ASSUME NEW f, NEW wrong, Sound(f, wrong), NEW n \in Names
    PROVE  Sound([f EXCEPT ![n] = Asked(@)], wrong)
<1>1. IsBuffer(f[n]) /\ (f[n].declared # {} /\ n \notin wrong => Fitting(f[n]))
  BY DEF Sound
<1>2. /\ IsBuffer(Asked(f[n])) /\ TypeOf(Asked(f[n])) = TypeOf(f[n])
      /\ Asked(f[n]).bytes = f[n].bytes /\ Asked(f[n]).declared = f[n].declared
  BY <1>1, AskedIs
<1>3. Asked(f[n]).declared # {} /\ n \notin wrong => Fitting(Asked(f[n]))
  BY <1>1, <1>2 DEF Fitting
<1> QED BY <1>2, <1>3, PutKeeps

-----------------------------------------------------------------------------
(* Codecs, and what a transfer leaves in its target.                       *)

LEMMA PlainBytes ==
    ASSUME NEW base \in Plain
    PROVE  IsBytes(Of(base)) /\ Of(base).base = base /\ Of(base).codings = <<>>
BY EmptySeq DEF IsBytes, Of

LEMMA EmptyBytes == IsBytes(Empty) /\ IsEmpty(Empty)
BY EmptySeq, BuffersAssumption DEF IsBytes, Empty, IsEmpty

\* One coding more.
LEMMA DumpIs ==
    ASSUME NEW bytes, IsBytes(bytes), NEW codec \in Wire
    PROVE  /\ IsBytes(Dump(codec, bytes))
           /\ Dump(codec, bytes) = [base |-> bytes.base, codings |-> Append(bytes.codings, codec)]
           /\ ~IsEmpty(Dump(codec, bytes))
<1>1. codec # "identity"
  BY DEF Wire
<1>2. Dump(codec, bytes) = [base |-> bytes.base, codings |-> Append(bytes.codings, codec)]
  BY <1>1 DEF Dump, IsBytes
<1>3. Append(bytes.codings, codec) \in Seq(Wire) /\ Append(bytes.codings, codec) # <<>>
  BY AppendedIs DEF IsBytes
<1> QED BY <1>2, <1>3 DEF IsBytes, IsEmpty, Empty

\* What was coded decodes to what it was.
LEMMA LoadOfDump ==
    ASSUME NEW bytes, IsBytes(bytes), NEW codec \in Wire \cup {"identity"}
    PROVE  Load(codec, Dump(codec, bytes)) = {bytes}
<1>1. CASE codec = "identity"
  BY <1>1 DEF Load, Dump
<1>2. CASE codec \in Wire
  <2> DEFINE c == Dump(codec, bytes)
             s == Append(bytes.codings, codec)
  <2>1. c = [base |-> bytes.base, codings |-> s] /\ ~IsEmpty(c)
    BY <1>2, DumpIs
  <2>2. s # <<>> /\ Last(s) = codec /\ Front(s) = bytes.codings
    BY <1>2, AppendedIs DEF IsBytes
  <2>3. codec # "identity"
    BY <1>2 DEF Wire
  <2> HIDE DEF c, s
  <2>4. c.codings = s
    BY <2>1
  <2>5. Load(codec, c) = {[c EXCEPT !.codings = Front(s)]}
    BY <2>1, <2>2, <2>3, <2>4 DEF Load
  <2>6. [c EXCEPT !.codings = Front(s)] = [base |-> bytes.base, codings |-> bytes.codings]
    BY <2>1, <2>2
  <2>7. bytes = [base |-> bytes.base, codings |-> bytes.codings]
    BY DEF IsBytes
  <2> QED BY <2>5, <2>6, <2>7 DEF c
<1> QED BY <1>1, <1>2

\* What decodes is one coding less, or was not coded, or nothing.
LEMMA LoadIs ==
    ASSUME NEW bytes, IsBytes(bytes), NEW codec, NEW loaded \in Load(codec, bytes)
    PROVE  /\ IsBytes(loaded)
           /\ \/ codec = "identity" /\ loaded = bytes
              \/ codec # "identity" /\ IsEmpty(bytes) /\ IsEmpty(loaded)
              \/ /\ codec # "identity" /\ bytes.codings # <<>> /\ Last(bytes.codings) = codec
                 /\ loaded.codings = Front(bytes.codings) /\ loaded.base = bytes.base
<1>1. CASE codec = "identity"
  BY <1>1 DEF Load
<1>2. CASE codec # "identity" /\ IsEmpty(bytes)
  BY <1>2, EmptyBytes DEF Load
<1>3. CASE codec # "identity" /\ ~IsEmpty(bytes)
  <2>1. /\ bytes.codings # <<>> /\ Last(bytes.codings) = codec
        /\ loaded = [bytes EXCEPT !.codings = Front(bytes.codings)]
    BY <1>3 DEF Load
  <2>2. loaded = [base |-> bytes.base, codings |-> Front(bytes.codings)]
    BY <2>1 DEF IsBytes
  <2>3. Front(bytes.codings) \in Seq(Wire)
    BY <2>1, FrontIs DEF IsBytes
  <2> QED BY <1>3, <2>1, <2>2, <2>3 DEF IsBytes
<1> QED BY <1>1, <1>2, <1>3

\* The type with other codings.
LEMMA RecodedIs ==
    ASSUME NEW type, IsType(type), NEW encodings \in Seq(Named)
    PROVE  /\ [type EXCEPT !.encodings = encodings] = MediaType(type.base, encodings)
           /\ IsType([type EXCEPT !.encodings = encodings])
           /\ [type EXCEPT !.encodings = encodings].encodings = encodings
<1>1. PICK x, y : type = [base |-> x, encodings |-> y]
  BY DEF IsType, MediaType
<1>2. [type EXCEPT !.encodings = encodings] = MediaType(type.base, encodings)
  BY <1>1 DEF MediaType
<1> QED BY <1>2 DEF IsType, MediaType

LEMMA CodecIs ==
    ASSUME NEW type, IsType(type)
    PROVE  /\ CodecOf(type) \in Named \cup {"identity"}
           /\ CodecOf(type) = "identity" <=> type.encodings = <<>>
           /\ CodecOf(type) # "identity" => CodecOf(type) = Last(type.encodings)
<1>1. CASE type.encodings = <<>>
  BY <1>1 DEF CodecOf
<1>2. CASE type.encodings # <<>>
  <2>1. Last(type.encodings) \in Named
    BY <1>2, FrontIs DEF IsType
  <2> QED BY <1>2, <2>1 DEF CodecOf, Named
<1> QED BY <1>1, <1>2

LEMMA MimesAre ==
    ASSUME NEW codec \in Codecs
    PROVE  /\ CodingMimes(codec) \in Seq(Named)
           /\ codec # "identity" => codec \in Wire /\ CodingMimes(codec) = <<CodingMime(codec)>>
           /\ codec = "identity" => CodingMimes(codec) = <<>>
<1>1. codec \in {"identity", "gzip", "zstd", "deflate"}
  BY BuffersAssumption
<1>2. codec # "identity" => CodingMime(codec) \in Named
  BY <1>1 DEF CodingMime, Named
<1>3. CASE codec = "identity"
  BY <1>3, EmptySeq DEF CodingMimes
<1>4. CASE codec # "identity"
  BY <1>1, <1>2, <1>4 DEF CodingMimes, Wire
<1> QED BY <1>3, <1>4

\* The target of compress_into.
LEMMA CompressedIs ==
    ASSUME NEW b, IsBuffer(b), NEW target, IsBuffer(target), NEW codec \in Codecs
    PROVE  LET packed == Compressed(b, target, codec) IN
           /\ IsBuffer(packed)
           /\ packed.bytes = Dump(codec, b.bytes)
           /\ TypeOf(packed) = MediaType(TypeOf(b).base, CodingMimes(codec))
<1> DEFINE bytes == Dump(codec, b.bytes)
           type == [TypeOf(b) EXCEPT !.encodings = CodingMimes(codec)]
<1>1. IsBytes(b.bytes) /\ IsType(TypeOf(b))
  BY TypeIs DEF IsBuffer
<1>2. IsBytes(bytes)
  <2>1. CASE codec = "identity"
    BY <1>1, <2>1 DEF Dump
  <2>2. CASE codec # "identity"
    BY <1>1, <2>2, MimesAre, DumpIs
  <2> QED BY <2>1, <2>2
<1>3. IsType(type) /\ type = MediaType(TypeOf(b).base, CodingMimes(codec))
  BY <1>1, MimesAre, RecodedIs
<1>4. IsBuffer(Holding(target, bytes)) /\ Holding(target, bytes).bytes = bytes
  BY <1>2, HoldingIs
<1>5. Compressed(b, target, codec) = [Holding(target, bytes) EXCEPT !.declared = {type}]
  BY DEF Compressed
<1> HIDE DEF bytes, type
<1>6. LET d == [Holding(target, bytes) EXCEPT !.declared = {type}] IN
      IsBuffer(d) /\ TypeOf(d) = type /\ d.bytes = bytes
  BY <1>3, <1>4, DeclaringIs
<1> QED BY <1>3, <1>5, <1>6 DEF bytes

\* A single coding is named as it was applied.
LEMMA CompressedFits ==
    ASSUME NEW b, IsBuffer(b), NEW target, IsBuffer(target), NEW codec \in Codecs \ {"deflate"},
           b.bytes.codings = <<>>
    PROVE  Fitting(Compressed(b, target, codec))
<1> DEFINE packed == Compressed(b, target, codec)
<1>1. /\ packed.bytes = Dump(codec, b.bytes) /\ TypeOf(packed).encodings = CodingMimes(codec)
      /\ IsBytes(b.bytes)
  BY CompressedIs DEF MediaType, IsBuffer
<1>2. CASE codec = "identity"
  BY <1>1, <1>2, MimesAre DEF Dump, Fitting, Fits
<1>3. CASE codec # "identity"
  <2>1. packed.bytes.codings = <<codec>> /\ CodingMimes(codec) = <<codec>>
    BY <1>1, <1>3, MimesAre, DumpIs DEF CodingMime
  <2>2. <<codec>> = [k \in DOMAIN <<codec>> |-> CodingMime(<<codec>>[k])]
    BY DEF CodingMime
  <2> HIDE DEF packed
  <2>3. Fitting(packed)
    BY <1>1, <2>1, <2>2 DEF Fitting, Fits
  <2> QED BY <2>3 DEF packed
<1> QED BY <1>2, <1>3

\* Without the outermost coding, if there is one.
Fewer(encodings) == IF encodings = <<>> THEN encodings ELSE Front(encodings)

\* The target of decompress_into.
LEMMA DecompressedIs ==
    ASSUME NEW b, IsBuffer(b), NEW target, IsBuffer(target), NEW bytes, IsBytes(bytes)
    PROVE  /\ IsBuffer(Decompressed(b, target, bytes))
           /\ Decompressed(b, target, bytes).bytes = bytes
           /\ TypeOf(Decompressed(b, target, bytes))
                = MediaType(TypeOf(b).base, Fewer(TypeOf(b).encodings))
<1> DEFINE e == TypeOf(b).encodings
           fewer == Fewer(e)
           type == [TypeOf(b) EXCEPT !.encodings = fewer]
<1>1. IsType(TypeOf(b)) /\ e \in Seq(Named)
  BY TypeIs DEF IsType
<1>2. fewer \in Seq(Named)
  BY <1>1, FrontIs DEF Fewer
<1>3. Decompressed(b, target, bytes) = [Holding(target, bytes) EXCEPT !.declared = {type}]
  BY DEF Decompressed, Fewer
<1>4. IsBuffer(Holding(target, bytes)) /\ Holding(target, bytes).bytes = bytes
  BY HoldingIs
<1> HIDE DEF e, fewer
<1>5. IsType(type) /\ type = MediaType(TypeOf(b).base, fewer)
  BY <1>1, <1>2, RecodedIs
<1> HIDE DEF type
<1>6. LET d == [Holding(target, bytes) EXCEPT !.declared = {type}] IN
      IsBuffer(d) /\ TypeOf(d) = type /\ d.bytes = bytes
  BY <1>4, <1>5, DeclaringIs
<1> QED BY <1>3, <1>5, <1>6 DEF fewer, e

\* Undoing the outermost coding leaves a type that names the others.
LEMMA DecompressedFits ==
    ASSUME NEW b, IsBuffer(b), NEW target, IsBuffer(target), Fitting(b),
           NEW bytes \in Load(CodecOf(TypeOf(b)), b.bytes)
    PROVE  Fitting(Decompressed(b, target, bytes))
<1> DEFINE e == TypeOf(b).encodings
           s == b.bytes.codings
           plainer == Decompressed(b, target, bytes)
<1>1. /\ IsType(TypeOf(b)) /\ IsBytes(b.bytes) /\ e \in Seq(Named) /\ s \in Seq(Wire)
  BY TypeIs DEF IsType, IsBuffer, IsBytes
<1>2. /\ IsBytes(bytes)
      /\ \/ CodecOf(TypeOf(b)) = "identity" /\ bytes = b.bytes
         \/ CodecOf(TypeOf(b)) # "identity" /\ IsEmpty(bytes)
         \/ /\ CodecOf(TypeOf(b)) # "identity" /\ s # <<>>
            /\ bytes.codings = Front(s) /\ bytes.base = b.bytes.base
  BY <1>1, LoadIs
<1>3. /\ plainer.bytes = bytes
      /\ TypeOf(plainer).encodings = IF e = <<>> THEN e ELSE Front(e)
  <2>1. /\ plainer.bytes = bytes
        /\ TypeOf(plainer) = MediaType(TypeOf(b).base, Fewer(e))
    BY <1>2, DecompressedIs
  <2>2. \A x, y : MediaType(x, y).encodings = y
    BY DEF MediaType
  <2> HIDE DEF plainer, e
  <2> QED BY <2>1, <2>2 DEF Fewer
<1>4. CodecOf(TypeOf(b)) = "identity" <=> e = <<>>
  BY <1>1, CodecIs
<1>5. IsEmpty(b.bytes) \/ e = [k \in DOMAIN s |-> CodingMime(s[k])]
  BY DEF Fitting, Fits
<1> HIDE DEF e, s, plainer
<1>6. CASE e = <<>>
  <2>1. plainer.bytes = b.bytes /\ TypeOf(plainer).encodings = e
    BY <1>2, <1>3, <1>4, <1>6
  <2> QED BY <1>5, <2>1 DEF Fitting, Fits, s, plainer
<1>7. CASE e # <<>> /\ IsEmpty(bytes)
  BY <1>3, <1>7 DEF Fitting, Fits, plainer
<1>8. CASE e # <<>> /\ ~IsEmpty(bytes)
  <2>1. s # <<>> /\ bytes.codings = Front(s) /\ bytes.base = b.bytes.base
    BY <1>2, <1>4, <1>8
  <2>2. ~IsEmpty(b.bytes)
    BY <2>1 DEF IsEmpty, Empty, s
  <2>3. e = [k \in DOMAIN s |-> CodingMime(s[k])]
    BY <1>5, <2>2
  <2>4. Len(e) = Len(s) /\ \A k \in 1..Len(s) : e[k] = CodingMime(s[k])
    BY <1>1, <2>3
  <2>5. /\ Front(s) \in Seq(Wire) /\ Len(Front(s)) = Len(s) - 1
        /\ \A k \in 1..(Len(s) - 1) : Front(s)[k] = s[k]
    BY <1>1, <2>1, FrontIs
  <2>6. /\ Front(e) \in Seq(Named) /\ Len(Front(e)) = Len(e) - 1
        /\ \A k \in 1..(Len(e) - 1) : Front(e)[k] = e[k]
    BY <1>1, <1>8, FrontIs
  <2>7. Len(s) \in Nat /\ DOMAIN Front(s) = 1..(Len(s) - 1) /\ DOMAIN Front(e) = 1..(Len(s) - 1)
    BY <1>1, <2>4, <2>5, <2>6
  <2>8. \A k \in 1..(Len(s) - 1) : k \in 1..Len(s)
    BY <2>7
  <2>9. \A k \in 1..(Len(s) - 1) : Front(e)[k] = CodingMime(Front(s)[k])
    BY <2>4, <2>5, <2>6, <2>8
  <2>10. Front(e) = [k \in 1..(Len(s) - 1) |-> Front(e)[k]]
    BY <2>6, <2>7
  <2>11. Front(e) = [k \in DOMAIN Front(s) |-> CodingMime(Front(s)[k])]
    BY <2>7, <2>9, <2>10
  <2> QED BY <1>3, <1>8, <2>1, <2>11 DEF Fitting, Fits, plainer
<1> QED BY <1>6, <1>7, <1>8

-----------------------------------------------------------------------------
(* Steps of the buffers.                                                   *)

LEMMA BuffersInitially == BuffersInit => BuffersInv
<1> SUFFICES ASSUME BuffersInit PROVE BuffersInv
  OBVIOUS
<1>1. buffer = [n \in Names |-> NewBuffer]
  BY DEF BuffersInit
<1>2. IsBuffer(NewBuffer) /\ NewBuffer.declared = {}
  BY EmptyBytes DEF NewBuffer, IsBuffer
<1> QED BY <1>1, <1>2 DEF BuffersInv, Sound

\* A buffer replaced by a sound one that is noted if its type is wrong.
LEMMA BecomesKeeps ==
    ASSUME BuffersInv, NEW n \in Names, NEW b, IsBuffer(b), NEW wrong \in BOOLEAN,
           b.declared # {} /\ ~wrong => Fitting(b), Becomes(n, b, wrong)
    PROVE  BuffersInv'
<1>1. /\ buffer' = [buffer EXCEPT ![n] = b]
      /\ misdeclared' = IF wrong THEN misdeclared \cup {n} ELSE misdeclared \ {n}
  BY DEF Becomes
<1>2. misdeclared \ {n} \subseteq misdeclared'
  BY <1>1
<1>3. b.declared # {} /\ n \notin misdeclared' => Fitting(b)
  BY <1>1
<1>4. Sound([buffer EXCEPT ![n] = b], misdeclared')
  BY <1>2, <1>3, PutKeeps DEF BuffersInv
<1>5. Sound(buffer', misdeclared')
  BY <1>1, <1>4
<1> QED BY <1>5 DEF BuffersInv, Sound, IsBuffer, IsBytes, IsType, Fitting, Fits

\* A transfer asks one buffer and replaces another.
LEMMA TransferKeeps ==
    ASSUME BuffersInv, NEW n \in Names, NEW m \in Names, n # m,
           NEW b, IsBuffer(b), NEW wrong \in BOOLEAN,
           b.declared # {} /\ ~wrong => Fitting(b), Transfer(n, m, b, wrong)
    PROVE  BuffersInv'
<1> DEFINE asked == [buffer EXCEPT ![n] = Asked(@)]
<1>1. /\ buffer' = [asked EXCEPT ![m] = b]
      /\ misdeclared' = IF wrong THEN misdeclared \cup {m} ELSE misdeclared \ {m}
  BY DEF Transfer
<1>2. Sound(asked, misdeclared)
  BY AskKeeps DEF BuffersInv
<1> HIDE DEF asked
<1>3. misdeclared \ {m} \subseteq misdeclared'
  BY <1>1
<1>4. b.declared # {} /\ m \notin misdeclared' => Fitting(b)
  BY <1>1
<1>5. Sound([asked EXCEPT ![m] = b], misdeclared')
  BY <1>2, <1>3, <1>4, PutKeeps
<1>6. Sound(buffer', misdeclared')
  BY <1>1, <1>5
<1> QED BY <1>6 DEF BuffersInv

LEMMA ChangeSound == ASSUME BuffersInv, NEW n \in Names, Change(n) PROVE BuffersInv'
<1>1. IsBuffer(buffer[n])
  BY DEF BuffersInv, Sound
<1>2. CASE SetBytes(n)
  <2>1. PICK bytes \in Incoming :
          LET b == Holding(buffer[n], bytes) IN Becomes(n, b, b.declared # {} /\ ~Fitting(b))
    BY <1>2 DEF SetBytes
  <2> DEFINE b == Holding(buffer[n], bytes)
             wrong == b.declared # {} /\ ~Fitting(b)
  <2>2. IsBuffer(b)
    BY <1>1, BuffersAssumption, HoldingIs DEF IsBytes, Wire
  <2>3. wrong \in BOOLEAN /\ (b.declared # {} /\ ~wrong => Fitting(b)) /\ Becomes(n, b, wrong)
    BY <2>1
  <2> HIDE DEF b, wrong
  <2> QED BY <2>2, <2>3, BecomesKeeps
<1>3. CASE AskType(n)
  <2>1. buffer' = [buffer EXCEPT ![n] = Asked(@)] /\ misdeclared' = misdeclared
    BY <1>3 DEF AskType
  <2>2. Sound([buffer EXCEPT ![n] = Asked(@)], misdeclared)
    BY AskKeeps DEF BuffersInv
  <2>3. Sound(buffer', misdeclared')
    BY <2>1, <2>2
  <2> QED BY <2>3 DEF BuffersInv
<1>4. CASE Declare(n)
  <2>1. PICK type \in Declarable :
          LET b == [buffer[n] EXCEPT !.declared = {type}] IN Becomes(n, b, ~Fitting(b))
    BY <1>4 DEF Declare
  <2> DEFINE b == [buffer[n] EXCEPT !.declared = {type}]
             wrong == ~Fitting(b)
  <2>2. IsType(type)
    BY BuffersAssumption DEF IsType, MediaType, Named
  <2>3. IsBuffer(b)
    BY <1>1, <2>2, DeclaringIs
  <2>4. wrong \in BOOLEAN /\ (b.declared # {} /\ ~wrong => Fitting(b)) /\ Becomes(n, b, wrong)
    BY <2>1
  <2> HIDE DEF b, wrong
  <2> QED BY <2>3, <2>4, BecomesKeeps
<1> QED BY <1>2, <1>3, <1>4 DEF Change

LEMMA CloneIs ==
    ASSUME NEW b, IsBuffer(b)
    PROVE  LET c == [b EXCEPT !.inferred = {}] IN
           /\ IsBuffer(c) /\ c.declared = b.declared /\ c.bytes = b.bytes
           /\ b.declared # {} => TypeOf(c) = TypeOf(b)
<1>1. PICK x, d, i : b = [bytes |-> x, declared |-> d, inferred |-> i]
  BY DEF IsBuffer
<1>2. [b EXCEPT !.inferred = {}] = [bytes |-> x, declared |-> d, inferred |-> {}]
  BY <1>1
<1>3. [b EXCEPT !.inferred = {}] = [bytes |-> b.bytes, declared |-> b.declared, inferred |-> {}]
  BY <1>1, <1>2
<1> DEFINE c == [b EXCEPT !.inferred = {}]
<1>4. c = [bytes |-> b.bytes, declared |-> b.declared, inferred |-> {}]
  BY <1>3
<1> HIDE DEF c
<1>5. IsBuffer(c) /\ c.declared = b.declared /\ c.bytes = b.bytes
  BY <1>4 DEF IsBuffer
<1>6. b.declared # {} => TypeOf(c) = TypeOf(b)
  BY <1>5 DEF TypeOf
<1> QED BY <1>5, <1>6 DEF c

LEMMA ExchangeSound ==
    ASSUME BuffersInv, NEW n \in Names, NEW m \in Names \ {n}, Exchange(n, m)
    PROVE  BuffersInv'
<1>1. /\ IsBuffer(buffer[n]) /\ IsBuffer(buffer[m]) /\ m \in Names /\ n # m
      /\ IsBytes(buffer[n].bytes) /\ IsType(TypeOf(buffer[n]))
      /\ buffer[n].declared # {} /\ n \notin misdeclared => Fitting(buffer[n])
  BY TypeIs DEF BuffersInv, Sound, IsBuffer
<1>2. CASE Clone(n, m)
  <2> DEFINE b == [buffer[n] EXCEPT !.inferred = {}]
             wrong == n \in misdeclared
  <2>1. /\ IsBuffer(b) /\ b.declared = buffer[n].declared /\ b.bytes = buffer[n].bytes
        /\ buffer[n].declared # {} => TypeOf(b) = TypeOf(buffer[n])
    BY <1>1, CloneIs
  <2>2. Becomes(m, b, wrong) /\ wrong \in BOOLEAN
    BY <1>2 DEF Clone
  <2>3. b.declared # {} /\ ~wrong => Fitting(b)
    BY <1>1, <2>1 DEF Fitting
  <2> HIDE DEF b, wrong
  <2> QED BY <1>1, <2>1, <2>2, <2>3, BecomesKeeps
<1>3. CASE CompressInto(n, m)
  <2>1. PICK codec \in Codecs :
          Transfer(n, m, Compressed(buffer[n], buffer[m], codec),
                   \/ ~Fitting(buffer[n])
                   \/ buffer[n].bytes.codings # <<>> \/ TypeOf(buffer[n]).encodings # <<>>
                   \/ codec = "deflate")
    BY <1>3 DEF CompressInto
  <2> DEFINE b == Compressed(buffer[n], buffer[m], codec)
             wrong == \/ ~Fitting(buffer[n])
                      \/ buffer[n].bytes.codings # <<>> \/ TypeOf(buffer[n]).encodings # <<>>
                      \/ codec = "deflate"
  <2>2. IsBuffer(b)
    BY <1>1, CompressedIs
  <2>3. ~wrong => Fitting(b)
    BY <1>1, CompressedFits
  <2>4. Transfer(n, m, b, wrong) /\ wrong \in BOOLEAN
    BY <2>1
  <2> HIDE DEF b, wrong
  <2> QED BY <1>1, <2>2, <2>3, <2>4, TransferKeeps
<1>4. CASE DecompressInto(n, m)
  <2> DEFINE own == CodecOf(TypeOf(buffer[n]))
  <2>1. CASE \E codec \in Codecs \cup {own} : \E bytes \in Load(codec, buffer[n].bytes) :
               Transfer(n, m, Decompressed(buffer[n], buffer[m], bytes),
                        ~Fitting(buffer[n]) \/ codec # own)
    <3>1. PICK codec \in Codecs \cup {own} : \E bytes \in Load(codec, buffer[n].bytes) :
               Transfer(n, m, Decompressed(buffer[n], buffer[m], bytes),
                        ~Fitting(buffer[n]) \/ codec # own)
      BY <2>1
    <3>2. PICK bytes \in Load(codec, buffer[n].bytes) :
               Transfer(n, m, Decompressed(buffer[n], buffer[m], bytes),
                        ~Fitting(buffer[n]) \/ codec # own)
      BY <3>1
    <3> DEFINE b == Decompressed(buffer[n], buffer[m], bytes)
               wrong == ~Fitting(buffer[n]) \/ codec # own
    <3>3. IsBuffer(b)
      BY <1>1, LoadIs, DecompressedIs
    <3>4. ~wrong => Fitting(b)
      BY <1>1, DecompressedFits
    <3>5. Transfer(n, m, b, wrong) /\ wrong \in BOOLEAN
      BY <3>2
    <3> HIDE DEF b, wrong
    <3> QED BY <1>1, <3>3, <3>4, <3>5, TransferKeeps
  <2>2. CASE \E source \in {buffer[n], Asked(buffer[n])} :
               /\ buffer' = [buffer EXCEPT ![n] = source, ![m] = Holding(@, Empty)]
               /\ misdeclared' = misdeclared \ {m}
    <3>1. PICK source \in {buffer[n], Asked(buffer[n])} :
               /\ buffer' = [buffer EXCEPT ![n] = source, ![m] = Holding(@, Empty)]
               /\ misdeclared' = misdeclared \ {m}
      BY <2>2
    <3> DEFINE asked == [buffer EXCEPT ![n] = source]
               b == Holding(buffer[m], Empty)
    <3>2. /\ IsBuffer(source) /\ source.declared = buffer[n].declared
          /\ source.bytes = buffer[n].bytes /\ TypeOf(source) = TypeOf(buffer[n])
      BY <1>1, AskedIs
    <3>3. Sound(asked, misdeclared)
      <4>1. source.declared # {} /\ n \notin misdeclared => Fitting(source)
        BY <1>1, <3>2 DEF Fitting
      <4>2. misdeclared \ {n} \subseteq misdeclared
        OBVIOUS
      <4>3. Sound(buffer, misdeclared)
        BY DEF BuffersInv
      <4> HIDE DEF asked
      <4> QED BY <3>2, <4>1, <4>2, <4>3, PutKeeps DEF asked
    <3>4. IsBuffer(b) /\ Fitting(b)
      <4>1. IsBuffer(b) /\ b.bytes = Empty
        BY <1>1, EmptyBytes, HoldingIs
      <4> QED BY <4>1, EmptyBytes DEF Fitting, Fits
    <3>5. asked[m] = buffer[m]
      BY <1>1 DEF BuffersInv, Sound
    <3>6. buffer' = [asked EXCEPT ![m] = b] /\ misdeclared' = misdeclared \ {m}
      BY <1>1, <3>1, <3>5
    <3> HIDE DEF asked, b
    <3>7. misdeclared \ {m} \subseteq misdeclared'
      BY <3>6
    <3>8. Sound([asked EXCEPT ![m] = b], misdeclared')
      BY <1>1, <3>3, <3>4, <3>7, PutKeeps
    <3>9. Sound(buffer', misdeclared')
      BY <3>6, <3>8
    <3> QED BY <3>9 DEF BuffersInv
  <2> QED BY <1>4, <2>1, <2>2 DEF DecompressInto
<1>5. CASE CopyInto(n, m)
  <2> DEFINE type == TypeOf(buffer[n])
             held == Holding(buffer[m], buffer[n].bytes)
             b == [held EXCEPT !.declared = {type}]
             wrong == ~Fitting(buffer[n])
  <2>1. IsBuffer(held) /\ held.bytes = buffer[n].bytes
    BY <1>1, HoldingIs
  <2>2. Transfer(n, m, b, wrong) /\ wrong \in BOOLEAN
    BY <1>5 DEF CopyInto
  <2>3. IsBuffer(b) /\ b.bytes = buffer[n].bytes /\ TypeOf(b) = type
    <3> HIDE DEF held, type
    <3>1. IsType(type)
      BY <1>1 DEF type
    <3>2. LET d == [held EXCEPT !.declared = {type}] IN
          IsBuffer(d) /\ TypeOf(d) = type /\ d.bytes = held.bytes
      BY <2>1, <3>1, DeclaringIs
    <3> QED BY <2>1, <3>2
  <2>4. ~wrong => Fitting(b)
    BY <2>3 DEF Fitting
  <2> HIDE DEF b, wrong
  <2> QED BY <1>1, <2>2, <2>3, <2>4, TransferKeeps
<1> QED BY <1>2, <1>3, <1>4, <1>5 DEF Exchange

LEMMA BuffersStay ==
    ASSUME BuffersInv,
           \E n \in Names : Change(n) \/ \E m \in Names \ {n} : Exchange(n, m)
    PROVE  BuffersInv'
BY ChangeSound, ExchangeSound

\* Compressing and decompressing undo each other.
LEMMA Undone ==
    ASSUME NEW b, IsBuffer(b), NEW target, IsBuffer(target), NEW back, IsBuffer(back),
           NEW codec \in Codecs \ {"deflate"},
           b.bytes.codings = <<>>, TypeOf(b).encodings = <<>>
    PROVE  LET packed == Compressed(b, target, codec) IN
           \A bytes \in Load(CodecOf(TypeOf(packed)), packed.bytes) :
               LET plainer == Decompressed(packed, back, bytes) IN
               plainer.bytes = b.bytes /\ TypeOf(plainer) = TypeOf(b)
<1> DEFINE packed == Compressed(b, target, codec)
           e == CodingMimes(codec)
<1>1. /\ IsBuffer(packed) /\ packed.bytes = Dump(codec, b.bytes)
      /\ TypeOf(packed) = MediaType(TypeOf(b).base, e)
      /\ IsBytes(b.bytes) /\ IsType(TypeOf(b))
  <2>1. codec \in Codecs
    OBVIOUS
  <2>2. /\ IsBuffer(packed) /\ packed.bytes = Dump(codec, b.bytes)
        /\ TypeOf(packed) = MediaType(TypeOf(b).base, e)
    BY <2>1, CompressedIs
  <2> QED BY <2>2, TypeIs DEF IsBuffer
<1> HIDE DEF packed
<1>2. TypeOf(packed).encodings = e /\ TypeOf(packed).base = TypeOf(b).base
  BY <1>1 DEF MediaType
<1>3. TypeOf(b) = MediaType(TypeOf(b).base, <<>>)
  BY <1>1 DEF IsType
<1>4. /\ codec = "identity" => e = <<>>
      /\ codec # "identity" => e = <<codec>> /\ codec \in Wire
  BY MimesAre DEF CodingMime
<1>5. <<codec>> # <<>> /\ Last(<<codec>>) = codec /\ Front(<<codec>>) = <<>>
  <2>1. <<>> \in Seq({codec}) /\ codec \in {codec} /\ <<codec>> = Append(<<>>, codec)
    BY EmptySeq
  <2> QED BY <2>1, AppendedIs
<1>6. CodecOf(TypeOf(packed)) = codec
  BY <1>2, <1>4, <1>5 DEF CodecOf
<1>7. Fewer(e) = <<>>
  BY <1>4, <1>5 DEF Fewer
<1>8. Load(codec, Dump(codec, b.bytes)) = {b.bytes}
  BY <1>1, <1>4, LoadOfDump
<1> HIDE DEF e
<1>9. /\ Decompressed(packed, back, b.bytes).bytes = b.bytes
      /\ TypeOf(Decompressed(packed, back, b.bytes))
           = MediaType(TypeOf(packed).base, Fewer(TypeOf(packed).encodings))
  <2>1. PICK content : content = b.bytes
    OBVIOUS
  <2>2. IsBuffer(packed) /\ IsBuffer(back) /\ IsBytes(content)
    BY <1>1, <2>1
  <2>3. /\ Decompressed(packed, back, content).bytes = content
        /\ TypeOf(Decompressed(packed, back, content))
             = MediaType(TypeOf(packed).base, Fewer(TypeOf(packed).encodings))
    BY <2>2, DecompressedIs
  <2> QED BY <2>1, <2>3
<1>10. \A bytes \in Load(CodecOf(TypeOf(packed)), packed.bytes) : bytes = b.bytes
  BY <1>1, <1>6, <1>8
<1>11. LET plainer == Decompressed(packed, back, b.bytes) IN
       plainer.bytes = b.bytes /\ TypeOf(plainer) = TypeOf(b)
  BY <1>2, <1>3, <1>7, <1>9
<1> QED BY <1>10, <1>11 DEF packed

LEMMA BuffersAreSound == BuffersInv => BuffersHold /\ CodingsHold
<1> SUFFICES ASSUME BuffersInv PROVE BuffersHold /\ CodingsHold
  OBVIOUS
<1>1. \A n \in Names : IsBuffer(buffer[n])
  BY DEF BuffersInv, Sound
<1>2. BuffersTypeOK
  <2> SUFFICES ASSUME NEW n \in Names
               PROVE  /\ buffer[n].bytes.base \in Plain \cup Signed
                      /\ \A type \in buffer[n].declared \cup buffer[n].inferred :
                            \A k \in DOMAIN type.encodings : type.encodings[k] \in {"gzip", "zlib", "zstd"}
    BY DEF BuffersTypeOK
  <2>1. buffer[n].bytes.base \in Plain
    BY <1>1 DEF IsBuffer, IsBytes
  <2>2. IsType(Inference(buffer[n].bytes))
    BY <1>1, InferenceIs DEF IsBuffer
  <2>3. \A type \in buffer[n].declared \cup buffer[n].inferred : IsType(type)
    BY <1>1, <2>2 DEF IsBuffer
  <2>4. \A type : IsType(type) => \A k \in DOMAIN type.encodings : type.encodings[k] \in {"gzip", "zlib", "zstd"}
    BY DEF IsType, Named
  <2> QED BY <2>1, <2>3, <2>4
<1>3. InferenceFollowsBytes
  BY <1>1 DEF InferenceFollowsBytes, IsBuffer
<1>4. TypeTellsCodings
  BY DEF TypeTellsCodings, BuffersInv, Sound
<1>5. CompressionIsUndone
  BY <1>1, Undone DEF CompressionIsUndone
<1> QED BY <1>2, <1>3, <1>4, <1>5 DEF BuffersHold, CodingsHold

-----------------------------------------------------------------------------
(* A media over one of the buffers.                                        *)

\* What is cached is what a fresh media would read, as long as nobody went
\* past the cache.
MediaInv ==
    /\ BuffersInv
    /\ format \in {"ipc", "parquet"} /\ aside \in BOOLEAN
    /\ ~aside /\ cached # {} =>
          /\ format = "ipc" /\ options.schema = {} => cached = ReadField(handle)
          /\ format = "parquet" => cached = Openable(handle)

\* What is read depends on the bytes and what their type says.
LEMMA StoredDepends ==
    ASSUME NEW b, NEW c, b.bytes = c.bytes, TypeOf(b) = TypeOf(c)
    PROVE  /\ StoredColumns(b) = StoredColumns(c) /\ ReadField(b) = ReadField(c)
           /\ Openable(b) = Openable(c)
BY DEF StoredColumns, ReadField, Openable

LEMMA MediaInitially == MediaInit => MediaInv
BY BuffersInitially DEF MediaInit, MediaInv

\* A stream decodes to what was encoded.
LEMMA StoredIs ==
    ASSUME NEW b, IsBuffer(b), NEW columns \in Schemas,
           format = "parquet" => CodecOf(TypeOf(b)) = "identity"
    PROVE  /\ IsBuffer(Stored(b, columns))
           /\ ~CodedByInference(b) => StoredColumns(Stored(b, columns)) = {columns}
<1> DEFINE codec == CodecOf(TypeOf(b))
           bytes == Dump(codec, Of(columns))
           after == Stored(b, columns)
<1>1. /\ IsType(TypeOf(b)) /\ codec \in Wire \cup {"identity"}
      /\ IsBytes(Of(columns)) /\ Of(columns).base = columns /\ Of(columns).codings = <<>>
  BY TypeIs, CodecIs, PlainBytes, MediaAssumption DEF Named, Wire
<1>2. IsBytes(bytes)
  BY <1>1, DumpIs DEF Dump
<1>3. /\ IsBuffer(after) /\ after.bytes = bytes
      /\ after = [bytes |-> bytes, declared |-> b.declared, inferred |-> {}]
  BY <1>2, HoldingIs DEF Stored
<1>4. Load(codec, bytes) = {Of(columns)}
  BY <1>1, LoadOfDump
<1> HIDE DEF after
<1>5. ASSUME ~CodedByInference(b) PROVE CodecOf(TypeOf(after)) = codec
  <2>1. CASE b.declared # {}
    BY <1>3, <2>1 DEF TypeOf
  <2>2. CASE b.declared = {}
    <3>1. codec = "identity" /\ bytes = Of(columns)
      BY <1>5, <2>2 DEF CodedByInference, Dump
    <3>2. TypeOf(after) = Inference(bytes)
      BY <1>3, <2>2, TypeIs
    <3> QED BY <1>1, <3>1, <3>2, InferenceIs
  <2> QED BY <2>1, <2>2
<1>6. ASSUME ~CodedByInference(b) PROVE StoredColumns(after) = {columns}
  <2>1. Load(CodecOf(TypeOf(after)), after.bytes) = {Of(columns)}
    BY <1>3, <1>4, <1>5, <1>6
  <2>2. ~(format = "parquet" /\ CodecOf(TypeOf(after)) # "identity")
    BY <1>5, <1>6
  <2> HIDE DEF codec, bytes
  <2>3. StoredColumns(after)
          = {x.base : x \in {y \in {Of(columns)} : y.base \in Schemas /\ y.codings = <<>>}}
    BY <2>1, <2>2 DEF StoredColumns
  <2>4. {y \in {Of(columns)} : y.base \in Schemas /\ y.codings = <<>>} = {Of(columns)}
    BY <1>1
  <2>5. {x.base : x \in {Of(columns)}} = {columns}
    BY <1>1
  <2> QED BY <2>3, <2>4, <2>5
<1> QED BY <1>3, <1>6 DEF after

\* What the handle says is read alike before and after.
LEMMA ReadAlike ==
    ASSUME format' = format, handle'.bytes = handle.bytes, TypeOf(handle') = TypeOf(handle)
    PROVE  /\ options' = options => ReadField(handle)' = ReadField(handle)
           /\ options' = options \/ format = "parquet" => Openable(handle)' = Openable(handle)
<1>1. StoredColumns(handle)' = StoredColumns(handle)
  BY DEF StoredColumns
<1> QED BY <1>1 DEF ReadField, Openable

\* Using the handle at most asks it its type.
LEMMA UseKeeps ==
    ASSUME BuffersInv, NEW b \in {handle, Asked(handle)}, UseHandle(b)
    PROVE  BuffersInv' /\ handle'.bytes = handle.bytes /\ TypeOf(handle') = TypeOf(handle)
<1>1. /\ buffer' = [buffer EXCEPT ![Handle] = b] /\ misdeclared' = misdeclared
      /\ Handle \in Names /\ IsBuffer(buffer[Handle])
      /\ buffer[Handle].declared # {} /\ Handle \notin misdeclared => Fitting(buffer[Handle])
  BY MediaAssumption DEF UseHandle, BuffersInv, Sound
<1>2. /\ IsBuffer(b) /\ TypeOf(b) = TypeOf(handle) /\ b.bytes = handle.bytes
      /\ b.declared = handle.declared
  BY <1>1, AskedIs DEF handle
<1>3. b.declared # {} /\ Handle \notin misdeclared' => Fitting(b)
  BY <1>1, <1>2 DEF Fitting, handle
<1>4. Sound([buffer EXCEPT ![Handle] = b], misdeclared')
  BY <1>1, <1>2, <1>3, PutKeeps DEF BuffersInv
<1>5. Sound(buffer', misdeclared')
  BY <1>1, <1>4
<1>6. handle' = b
  BY <1>1 DEF handle, BuffersInv, Sound
<1> QED BY <1>2, <1>5, <1>6 DEF BuffersInv

\* A write that is not refused.
LEMMA WriteIs ==
    ASSUME MediaInv, NEW columns \in Schemas, WriteBatches(columns)
    PROVE  /\ BuffersInv' /\ format' = format /\ options' = options
           /\ ~CodedByInference(handle) => StoredColumns(handle)' = {columns}
<1> DEFINE b == Stored(handle, columns)
           wrong == b.declared # {} /\ ~Fitting(b)
<1>1. /\ format = "parquet" => CodecOf(TypeOf(handle)) = "identity"
      /\ Becomes(Handle, b, wrong) /\ wrong \in BOOLEAN /\ (b.declared # {} /\ ~wrong => Fitting(b))
      /\ format' = format /\ options' = options
  BY DEF WriteBatches
<1>2. BuffersInv /\ Handle \in Names /\ IsBuffer(handle) /\ buffer = [n \in Names |-> buffer[n]]
  BY MediaAssumption DEF MediaInv, BuffersInv, Sound, handle
<1>3. IsBuffer(b) /\ (~CodedByInference(handle) => StoredColumns(b) = {columns})
  BY <1>1, <1>2, StoredIs
<1> HIDE DEF b, wrong
<1>4. BuffersInv'
  BY <1>1, <1>2, <1>3, BecomesKeeps
<1>5. handle' = b
  BY <1>1, <1>2 DEF Becomes, handle
<1>6. StoredColumns(handle)' = StoredColumns(b)
  BY <1>1, <1>5 DEF StoredColumns
<1> QED BY <1>1, <1>3, <1>4, <1>6

LEMMA MediaStays == MediaInv /\ [MediaNext]_allMediaVars => MediaInv'
<1> SUFFICES ASSUME MediaInv, [MediaNext]_allMediaVars PROVE MediaInv'
  OBVIOUS
<1>1. /\ BuffersInv /\ Handle \in Names /\ IsBuffer(handle) /\ aside \in BOOLEAN
      /\ format \in {"ipc", "parquet"}
      /\ ~aside /\ cached # {} =>
            /\ format = "ipc" /\ options.schema = {} => cached = ReadField(handle)
            /\ format = "parquet" => cached = Openable(handle)
  BY MediaAssumption DEF MediaInv, BuffersInv, Sound, handle
\* Whatever leaves the bytes, their type and the cache leaves all of it.
<1>2. ASSUME BuffersInv', handle'.bytes = handle.bytes, TypeOf(handle') = TypeOf(handle),
             UNCHANGED <<format, cached, options>>, aside' \in BOOLEAN, ~aside' => ~aside
      PROVE  MediaInv'
  BY <1>1, <1>2, ReadAlike DEF MediaInv
<1>3. ASSUME UNCHANGED bufferVars
      PROVE  BuffersInv' /\ handle'.bytes = handle.bytes /\ TypeOf(handle') = TypeOf(handle)
  <2>1. buffer' = buffer /\ misdeclared' = misdeclared
    BY <1>3 DEF bufferVars
  <2>2. Sound(buffer', misdeclared')
    BY <1>1, <2>1 DEF BuffersInv
  <2>3. handle' = handle
    BY <2>1 DEF handle
  <2> QED BY <2>2, <2>3 DEF BuffersInv
<1>4. CASE UNCHANGED allMediaVars
  BY <1>1, <1>2, <1>3, <1>4 DEF allMediaVars, mediaVars
<1>5. CASE OpenMedia
  <2>1. CASE cached # {} \/ IsEmpty(handle.bytes)
    BY <1>1, <1>2, <1>3, <1>5, <2>1 DEF OpenMedia
  <2>2. CASE ~(cached # {} \/ IsEmpty(handle.bytes))
    <3>1. /\ UseHandle(IF format = "ipc" /\ options.schema # {} THEN handle ELSE Asked(handle))
          /\ cached' = Openable(handle) /\ aside' = FALSE /\ UNCHANGED <<format, options>>
      BY <1>5, <2>2 DEF OpenMedia
    <3>2. PICK b \in {handle, Asked(handle)} : UseHandle(b)
      BY <3>1
    <3>3. BuffersInv' /\ handle'.bytes = handle.bytes /\ TypeOf(handle') = TypeOf(handle)
      BY <1>1, <3>2, UseKeeps
    <3>4. ReadField(handle)' = ReadField(handle) /\ Openable(handle)' = Openable(handle)
      BY <3>1, <3>3, ReadAlike
    <3>5. format = "ipc" => Openable(handle) = ReadField(handle)
      BY DEF Openable
    <3> QED BY <1>1, <3>1, <3>3, <3>4, <3>5 DEF MediaInv
  <2> QED BY <2>1, <2>2
<1>6. CASE Schema
  <2>1. CASE options.schema # {} \/ (format = "ipc" /\ cached # {})
    BY <1>1, <1>2, <1>3, <1>6, <2>1 DEF Schema
  <2>2. CASE ~(options.schema # {} \/ (format = "ipc" /\ cached # {}))
    <3>1. /\ UseHandle(IF IsEmpty(handle.bytes) /\ format = "ipc" THEN handle ELSE Asked(handle))
          /\ IF format = "ipc" THEN cached' = ReadField(handle) /\ aside' = FALSE
             ELSE UNCHANGED <<cached, aside>>
          /\ UNCHANGED <<format, options>>
      BY <1>6, <2>2 DEF Schema
    <3>2. PICK b \in {handle, Asked(handle)} : UseHandle(b)
      BY <3>1
    <3>3. BuffersInv' /\ handle'.bytes = handle.bytes /\ TypeOf(handle') = TypeOf(handle)
      BY <1>1, <3>2, UseKeeps
    <3>4. CASE format = "ipc"
      <4>1. ReadField(handle)' = ReadField(handle)
        BY <3>1, <3>3, ReadAlike
      <4> QED BY <3>1, <3>3, <3>4, <4>1 DEF MediaInv
    <3>5. CASE format # "ipc"
      BY <1>1, <1>2, <3>1, <3>3, <3>5
    <3> QED BY <3>4, <3>5
  <2> QED BY <2>1, <2>2
<1>7. CASE WriteRefused
  <2>1. UseHandle(Asked(handle)) /\ UNCHANGED <<format, cached, options, aside>>
    BY <1>7 DEF WriteRefused, mediaVars
  <2>2. BuffersInv' /\ handle'.bytes = handle.bytes /\ TypeOf(handle') = TypeOf(handle)
    BY <1>1, <2>1, UseKeeps
  <2> QED BY <1>1, <1>2, <2>1, <2>2
<1>8. CASE \E columns \in Schemas : WriteBatches(columns)
  <2>1. PICK columns \in Schemas : WriteBatches(columns)
    BY <1>8
  <2>2. /\ BuffersInv' /\ format' = format /\ options' = options
        /\ ~CodedByInference(handle) => StoredColumns(handle)' = {columns}
    BY <2>1, WriteIs
  <2>3. /\ cached' = IF format = "ipc" THEN {Field(columns, options.root)} ELSE {}
        /\ aside' = (format = "ipc" /\ CodedByInference(handle))
    BY <2>1 DEF WriteBatches, AfterWrite
  <2>4. ASSUME ~aside', format = "ipc", options.schema = {}
        PROVE  ReadField(handle)' = {Field(columns, options.root)}
    <3>1. StoredColumns(handle)' = {columns}
      BY <2>2, <2>3, <2>4
    <3>2. ReadField(handle)' = {Field(c, options.root) : c \in StoredColumns(handle)'}
      BY <2>2, <2>4 DEF ReadField
    <3> QED BY <3>1, <3>2
  <2>5. aside' \in BOOLEAN
    BY <2>3
  <2> QED BY <1>1, <2>2, <2>3, <2>4, <2>5 DEF MediaInv
<1>9. CASE WithOptions
  <2>1. /\ IF format = "ipc" THEN cached' = {} /\ aside' = FALSE ELSE UNCHANGED <<cached, aside>>
        /\ UNCHANGED <<bufferVars, format>>
    BY <1>9 DEF WithOptions
  <2>2. format # "ipc" => Openable(handle)' = Openable(handle)
    BY <1>1, <1>3, <2>1, ReadAlike
  <2> QED BY <1>1, <1>3, <2>1, <2>2 DEF MediaInv
<1>10. CASE OptionsInPlace
  <2>1. /\ aside' = (aside \/ (format = "ipc" /\ cached # {}))
        /\ UNCHANGED <<bufferVars, format, cached>>
    BY <1>10 DEF OptionsInPlace
  <2>2. format # "ipc" => Openable(handle)' = Openable(handle)
    BY <1>1, <1>3, <2>1, ReadAlike
  <2>3. aside' \in BOOLEAN /\ (~aside' => ~aside) /\ (~aside' /\ cached # {} => format # "ipc")
    BY <1>1, <2>1
  <2> QED BY <1>1, <1>3, <2>1, <2>2, <2>3 DEF MediaInv
<1>11. CASE Close
  BY <1>1, <1>3, <1>11 DEF Close, MediaInv
<1>12. CASE PastTheMedia
  <2>1. /\ \E n \in Names : Change(n) \/ \E m \in Names \ {n} : Exchange(n, m)
        /\ aside' = (aside \/ (cached # {} /\ <<handle.bytes, handle.declared>>' # <<handle.bytes, handle.declared>>))
        /\ UNCHANGED <<format, cached, options>>
    BY <1>12 DEF PastTheMedia
  <2>2. BuffersInv'
    BY <1>1, <2>1, BuffersStay
  <2>3. aside' \in BOOLEAN
    BY <1>1, <2>1
  <2>4. CASE aside' \/ cached = {}
    BY <1>1, <2>1, <2>2, <2>3, <2>4 DEF MediaInv
  <2>5. CASE ~aside' /\ cached # {}
    <3>1. ~aside /\ handle'.bytes = handle.bytes /\ handle'.declared = handle.declared
      BY <2>1, <2>5
    <3>2. IsBuffer(handle')
      BY <2>2, MediaAssumption DEF BuffersInv, Sound, handle
    <3>3. TypeOf(handle') = TypeOf(handle)
      <4>1. CASE handle.declared = {}
        BY <1>1, <3>1, <3>2, <4>1, TypeIs
      <4>2. CASE handle.declared # {}
        BY <3>1, <4>2 DEF TypeOf
      <4> QED BY <4>1, <4>2
    <3> QED BY <1>2, <2>1, <2>2, <2>3, <3>1, <3>3
  <2> QED BY <2>4, <2>5
<1> QED BY <1>4, <1>5, <1>6, <1>7, <1>8, <1>9, <1>10, <1>11, <1>12 DEF MediaNext

LEMMA MediaIsFresh == MediaInv => CacheIsFresh
<1> SUFFICES ASSUME MediaInv, ~aside
             PROVE  /\ SchemaAnswer = ReadField(handle)
                    /\ format = "parquet" => FooterAnswer = Openable(handle)
  BY DEF CacheIsFresh
<1> QED BY DEF MediaInv, SchemaAnswer, FooterAnswer, ReadField

\* A media answers what one bound afresh to its handle would, for every set of
\* buffers, codecs and schemas, whatever was declared, inferred, compressed,
\* copied or written in any order, unless its cache was gone past.
THEOREM MediaStayFresh == MediaSpec => [](CacheIsFresh /\ BuffersHold /\ CodingsHold)
<1>1. MediaInv => CacheIsFresh /\ BuffersHold /\ CodingsHold
  BY MediaIsFresh, BuffersAreSound DEF MediaInv
<1> QED BY <1>1, MediaInitially, MediaStays, PTL DEF MediaSpec

-----------------------------------------------------------------------------
(* MCHandles: an execution uses one kind of handle.                        *)

CodedOrUnused == NoCoded \/ CodedInv
MediaOrUnused == BuffersInv /\ (format = "unused" \/ MediaInv)

LEMMA NoFileIsOne == NoFile => PathInit
<1> SUFFICES ASSUME NoFile PROVE PathInit
  OBVIOUS
<1>1. <<>> \in [1..0 -> ByteValues] /\ 0 \in 0..MaxLen
  BY LocalFileAssumption
<1>2. Init
  BY <1>1 DEF NoFile, Init
<1> QED BY <1>2 DEF NoFile, PathInit

LEMMA OneStarts == OneOf => PathInit /\ CodedOrUnused /\ MediaOrUnused
<1>1. NoMedia => MediaOrUnused
  BY BuffersInitially DEF NoMedia, MediaOrUnused
<1>2. MediaInit => MediaOrUnused
  BY MediaInitially DEF MediaOrUnused, MediaInv
<1> QED BY <1>1, <1>2, NoFileIsOne, CodedInitially DEF OneOf, CodedOrUnused

LEMMA OneSteps ==
    [OneStep]_<<allVars, coded, allMediaVars>>
       => /\ [PathNext]_allVars
          /\ [answer # "unused" /\ C!Next]_coded
          /\ [format # "unused" /\ MediaNext]_allMediaVars
<1> SUFFICES ASSUME [OneStep]_<<allVars, coded, allMediaVars>>
             PROVE  /\ [PathNext]_allVars
                    /\ [answer # "unused" /\ C!Next]_coded
                    /\ [format # "unused" /\ MediaNext]_allMediaVars
  OBVIOUS
<1>1. CASE UNCHANGED <<allVars, coded, allMediaVars>>
  BY <1>1, Zenon
<1>2. CASE answer = "unused" /\ format = "unused" /\ PathNext /\ UNCHANGED <<coded, allMediaVars>>
  BY <1>2, Zenon
<1>3. CASE answer # "unused" /\ C!Next /\ UNCHANGED <<allVars, allMediaVars>>
  BY <1>3, Zenon
<1>4. CASE format # "unused" /\ MediaNext /\ UNCHANGED <<allVars, coded>>
  BY <1>4, Zenon
<1> QED BY <1>1, <1>2, <1>3, <1>4, Zenon DEF OneStep

LEMMA CodedOrUnusedStays ==
    CodedOrUnused /\ [answer # "unused" /\ C!Next]_coded => CodedOrUnused' /\ [C!Next]_coded
<1> SUFFICES ASSUME CodedOrUnused, [answer # "unused" /\ C!Next]_coded
             PROVE  CodedOrUnused' /\ [C!Next]_coded
  OBVIOUS
<1>1. [C!Next]_coded
  OBVIOUS
<1>2. CASE NoCoded
  <2>1. UNCHANGED coded
    BY <1>2 DEF NoCoded
  <2> QED BY <1>1, <1>2, <2>1 DEF NoCoded, CodedOrUnused, coded, C!NoBytes
<1>3. CASE CodedInv
  BY <1>1, <1>3, CodedStays DEF CodedOrUnused
<1> QED BY <1>2, <1>3 DEF CodedOrUnused

LEMMA MediaOrUnusedStays ==
    MediaOrUnused /\ [format # "unused" /\ MediaNext]_allMediaVars => MediaOrUnused'
<1> SUFFICES ASSUME MediaOrUnused, [format # "unused" /\ MediaNext]_allMediaVars
             PROVE  MediaOrUnused'
  OBVIOUS
<1>1. CASE format = "unused"
  <2>1. UNCHANGED allMediaVars
    BY <1>1
  <2>2. buffer' = buffer /\ misdeclared' = misdeclared /\ format' = "unused"
    BY <1>1, <2>1 DEF allMediaVars, mediaVars, bufferVars
  <2>3. Sound(buffer', misdeclared')
    BY <2>2 DEF MediaOrUnused, BuffersInv
  <2> QED BY <2>2, <2>3 DEF MediaOrUnused, BuffersInv
<1>2. CASE format # "unused"
  <2>1. MediaInv /\ [MediaNext]_allMediaVars
    BY <1>2 DEF MediaOrUnused
  <2>2. MediaInv'
    BY <2>1, MediaStays
  <2> QED BY <2>2 DEF MediaOrUnused, MediaInv
<1> QED BY <1>1, <1>2

\* Whatever handle an execution is about, its file part is one of a path.
LEMMA HandlesArePaths == EachHandle => PathSpec
BY OneStarts, OneSteps, PTL DEF EachHandle, PathSpec

LEMMA PartsHold == EachHandle => [](CodedOrUnused /\ MediaOrUnused)
<1>1. CodedOrUnused /\ MediaOrUnused /\ [OneStep]_<<allVars, coded, allMediaVars>>
        => CodedOrUnused' /\ MediaOrUnused'
  BY OneSteps, CodedOrUnusedStays, MediaOrUnusedStays
<1> QED BY <1>1, OneStarts, PTL DEF EachHandle

\* Every handle's own view of its bytes is consistent, for every set of
\* handles, buffers, codecs and media types, and all lengths.
THEOREM HandlesAreConsistent == EachHandle => []HandlesHold
<1>1. MediaOrUnused => BuffersHold /\ CodingsHold
  BY BuffersAreSound DEF MediaOrUnused
<1>2. ResolutionHolds /\ MediaOrUnused => HandlesHold
  BY <1>1 DEF HandlesHold
<1> QED BY <1>2, HandlesArePaths, PathsResolve, PartsHold, PTL

\* And a coded one's value is the written one until one of its two failures,
\* for all values and any number of faults.
THEOREM HandlesHoldTheirValues == EachHandle => []CodedHolds
<1>1. CodedOrUnused => CodedHolds
  BY CodedInvHolds DEF CodedOrUnused, NoCoded, CodedHolds
<1> QED BY <1>1, PartsHold, PTL

\* No handle on a shared file panics before somebody writes, and none used
\* alone before it cuts the file.
THEOREM HandlesShareSafely == EachHandle => []SharingIsSafe
BY HandlesArePaths, PathsAreFiles, PTL

\* A media's cached schema and footer are those of its bytes, unless gone past.
THEOREM HandlesStayFresh == EachHandle => []CacheIsFresh
<1>1. MediaOrUnused => CacheIsFresh
  <2>1. format = "unused" => CacheIsFresh
    BY DEF CacheIsFresh, SchemaAnswer, ReadField
  <2> QED BY <2>1, MediaIsFresh DEF MediaOrUnused
<1> QED BY <1>1, PartsHold, PTL

\* A file, by a path or not, is a byte store until a handle cuts it, and so is a
\* coded handle until one of its two failures.
THEOREM HandlesImplementByteStore == EachHandle => AllImplementByteStore
<1>1. CodedOrUnused /\ [OneStep]_<<allVars, coded, allMediaVars>>
        => [C!Failed \/ C!Failed' \/ C!Bytes!Next]_<<C!Bytes!vars, spoilt, misled>>
  <2> SUFFICES ASSUME CodedOrUnused, [OneStep]_<<allVars, coded, allMediaVars>>
               PROVE  [C!Failed \/ C!Failed' \/ C!Bytes!Next]_<<C!Bytes!vars, spoilt, misled>>
    OBVIOUS
  <2>1. [answer # "unused" /\ C!Next]_coded
    BY OneSteps
  <2>2. CASE CodedInv
    BY <2>1, <2>2, CodedSteps
  <2>3. CASE NoCoded
    <3>1. UNCHANGED coded
      BY <2>1, <2>3 DEF NoCoded
    <3> QED BY <3>1 DEF coded, C!Bytes!vars, C!Decoded, C!Held
  <2> QED BY <2>2, <2>3 DEF CodedOrUnused
<1>2. OneOf => C!Bytes!Init
  <2>1. NoCoded => C!Bytes!Init
    <3> SUFFICES ASSUME NoCoded PROVE C!Bytes!Init
      OBVIOUS
    <3>1. C!Decoded = <<>> /\ stored.value = <<>>
      BY DEF NoCoded, C!Decoded, C!NoBytes
    <3>2. <<>> \in [1..0 -> {0} \cup UNION {{b[k] : k \in DOMAIN b} : b \in Values}] /\ 0 \in 0..MaxLen
      BY LocalFileAssumption
    <3> QED BY <3>1, <3>2 DEF C!Bytes!Init
  <2> QED BY <2>1, CodedStarts DEF OneOf
<1>3. EachHandle => ImplementsByteStore
  BY HandlesArePaths, PathsAreFiles, PTL
<1>4. EachHandle => C!ImplementsByteStore
  BY <1>1, <1>2, PartsHold, PTL DEF EachHandle, C!ImplementsByteStore
<1> QED BY <1>3, <1>4 DEF AllImplementByteStore

=============================================================================
