----------------------------- MODULE FileProofs -----------------------------
(***************************************************************************)
(* What holds of handles on a local file for every set of handles, every   *)
(* bytes written and every length: LocalFile's handles share a file safely *)
(* and are, used one at a time, a byte store, and PathHandle's path adds   *)
(* nothing to what its file does.                                          *)
(***************************************************************************)
EXTENDS PathHandle, TLAPS

-----------------------------------------------------------------------------
(* Byte sequences.                                                         *)

\* What a sequence spelt as a function on 1..n is.
LEMMA Spelt ==
    ASSUME NEW S, NEW n \in Nat, NEW f, f = [k \in 1..n |-> f[k]],
           \A k \in 1..n : f[k] \in S
    PROVE  f \in Seq(S) /\ Len(f) = n
<1>1. f \in [1..n -> S]
  OBVIOUS
<1> QED BY <1>1

\* The values of written bytes, and zero, are numbers.
LEMMA BytesAreNumbers == 0 \in ByteValues /\ ByteValues \subseteq Nat
BY LocalFileAssumption DEF ByteValues

\* Cutting and padding gives the length asked for.
LEMMA SetLenIs ==
    ASSUME NEW bytes \in Seq(ByteValues), NEW n \in Nat
    PROVE  /\ SetLen(bytes, n) \in Seq(ByteValues) /\ Len(SetLen(bytes, n)) = n
           /\ \A k \in 1..n : SetLen(bytes, n)[k] = IF k <= Len(bytes) THEN bytes[k] ELSE 0
<1> DEFINE f == SetLen(bytes, n)
<1>1. \A k \in 1..n : f[k] = IF k <= Len(bytes) THEN bytes[k] ELSE 0
  BY DEF SetLen
<1>2. \A k \in 1..n : f[k] \in ByteValues
  BY <1>1, BytesAreNumbers
<1>3. f = [k \in 1..n |-> f[k]]
  BY DEF SetLen
<1> HIDE DEF f
<1>4. f \in Seq(ByteValues) /\ Len(f) = n
  BY <1>2, <1>3, Spelt
<1> QED BY <1>1, <1>4 DEF f

\* Storing keeps the length, whatever is stored.
LEMMA StoreIs ==
    ASSUME NEW bytes \in Seq(ByteValues), NEW offset \in Nat, NEW new \in Seq(ByteValues)
    PROVE  /\ Store(bytes, offset, new) \in Seq(ByteValues)
           /\ Len(Store(bytes, offset, new)) = Len(bytes)
           /\ \A k \in 1..Len(bytes) : Store(bytes, offset, new)[k] =
                 IF k > offset /\ k <= offset + Len(new) THEN new[k - offset] ELSE bytes[k]
<1> DEFINE f == Store(bytes, offset, new)
<1>1. \A k \in 1..Len(bytes) : f[k] =
          IF k > offset /\ k <= offset + Len(new) THEN new[k - offset] ELSE bytes[k]
  BY DEF Store
<1>2. \A k \in 1..Len(bytes) : f[k] \in ByteValues
  <2> TAKE k \in 1..Len(bytes)
  <2>1. CASE k > offset /\ k <= offset + Len(new)
    <3>1. k - offset \in 1..Len(new)
      BY <2>1
    <3> QED BY <2>1, <3>1, <1>1
  <2>2. CASE ~(k > offset /\ k <= offset + Len(new))
    BY <2>2, <1>1
  <2> QED BY <2>1, <2>2
<1>3. f = [k \in 1..Len(bytes) |-> f[k]]
  BY DEF Store
<1> HIDE DEF f
<1>4. f \in Seq(ByteValues) /\ Len(f) = Len(bytes)
  BY <1>2, <1>3, Spelt
<1> QED BY <1>1, <1>4 DEF f

LEMMA ZerosAre ==
    ASSUME NEW n \in Nat
    PROVE  /\ Zeros(n) \in Seq(ByteValues) /\ Len(Zeros(n)) = n
           /\ \A k \in 1..n : Zeros(n)[k] = 0
<1> DEFINE f == Zeros(n)
<1>1. (\A k \in 1..n : f[k] = 0) /\ f = [k \in 1..n |-> f[k]]
  BY DEF Zeros
<1> HIDE DEF f
<1>2. f \in Seq(ByteValues) /\ Len(f) = n
  BY <1>1, Spelt, BytesAreNumbers
<1> QED BY <1>1, <1>2 DEF f

\* A caller writes bytes.
LEMMA WrittenAreBytes ==
    ASSUME NEW bytes \in Written PROVE bytes \in Seq(ByteValues)
<1>1. bytes \in Seq(Nat)
  BY LocalFileAssumption
<1>2. \A k \in 1..Len(bytes) : bytes[k] \in ByteValues
  BY <1>1 DEF ByteValues
<1> QED BY <1>1, <1>2
-----------------------------------------------------------------------------
(* The invariant.                                                          *)

FileType ==
    /\ exists \in BOOLEAN /\ touched \in BOOLEAN /\ shared \in BOOLEAN /\ cut \in BOOLEAN
    /\ disk \in Seq(ByteValues)
    /\ file \in [Handles -> File]
    /\ \A h \in Handles : /\ file[h].state = "live" => exists
                          /\ file[h].state = "lazy" => file[h] = Lazy

\* What has been called unshared has one handle in use.
Alone == ~shared => \A g, h \in InUse : g = h

\* A handle that knows the file: it is as long as the value, at least, and as
\* long as the mapping, if there is one.
MapFits(h) ==
    /\ file[h].state = "live"
    /\ file[h].size <= Len(disk)
    /\ file[h].mapped > 0 => file[h].mapped = Len(disk)

\* Until somebody writes every handle holds the whole file.
Readers == ~touched => \A h \in InUse : MapFits(h) /\ file[h].size = Len(disk)

FileInv == FileType /\ Alone /\ Readers

\* A handle used alone fits its file, until it cuts it.
GrowthInv == ~shared /\ ~cut => \A h \in InUse : MapFits(h)

-----------------------------------------------------------------------------
(* The pieces the actions are made of.                                     *)

LEMMA OpenedIs ==
    ASSUME FileType, NEW h \in Handles, Usable(h)
    PROVE  /\ Opened(h) \in File /\ Opened(h).state = "live"
           /\ file[h].state = "live" => Opened(h) = file[h]
           /\ file[h].state # "live" =>
                 file[h].state = "lazy" /\ Opened(h).size = Len(disk) /\ Opened(h).mapped = 0
<1>1. file[h] \in File /\ Len(disk) \in Nat
  BY DEF FileType
<1>2. CASE file[h].state = "live"
  BY <1>1, <1>2 DEF Opened
<1>3. CASE file[h].state = "lazy"
  <2>1. Opened(h) = [state |-> "live", size |-> Len(disk), mapped |-> 0]
    BY <1>3 DEF Opened, Lazy
  <2> QED BY <1>1, <1>3, <2>1 DEF File
<1> QED BY <1>2, <1>3 DEF Usable

LEMMA RemapIs ==
    ASSUME FileType, NEW f \in File, NEW needed \in Nat
    PROVE  /\ Remap(f, needed).bytes \in Seq(ByteValues)
           /\ Remap(f, needed).mapped \in Nat \ {0}
           /\ Remap(f, needed).mapped >= needed
           /\ \/ f.mapped > 0 /\ Remap(f, needed) = [bytes |-> disk, mapped |-> f.mapped]
              \/ /\ f.mapped = 0 \/ f.mapped < needed
                 /\ Remap(f, needed).mapped = Larger(needed, Larger(2 * f.mapped, Growth))
                 /\ Remap(f, needed).bytes = SetLen(disk, Remap(f, needed).mapped)
                 /\ Len(Remap(f, needed).bytes) = Remap(f, needed).mapped
<1> DEFINE capacity == Larger(needed, Larger(2 * f.mapped, Growth))
<1>1. f.mapped \in Nat
  BY DEF File
<1>2. capacity \in Nat \ {0} /\ capacity >= needed
  BY <1>1, LocalFileAssumption DEF Larger
<1>3. SetLen(disk, capacity) \in Seq(ByteValues) /\ Len(SetLen(disk, capacity)) = capacity
  BY <1>2, SetLenIs DEF FileType
<1>4. CASE f.mapped > 0 /\ f.mapped >= needed
  <2>1. Remap(f, needed) = [bytes |-> disk, mapped |-> f.mapped]
    BY <1>4 DEF Remap
  <2> QED BY <1>1, <1>4, <2>1 DEF FileType
<1>5. CASE ~(f.mapped > 0 /\ f.mapped >= needed)
  <2>1. Remap(f, needed) = [bytes |-> SetLen(disk, capacity), mapped |-> capacity]
    BY <1>5 DEF Remap
  <2> HIDE DEF capacity
  <2>2. Remap(f, needed).bytes = SetLen(disk, capacity) /\ Remap(f, needed).mapped = capacity
    BY <2>1
  <2>3. f.mapped = 0 \/ f.mapped < needed
    BY <1>1, <1>5
  <2> QED BY <1>2, <1>3, <2>2, <2>3 DEF capacity
<1> QED BY <1>4, <1>5

\* An update of one handle leaves the others alone.
LEMMA UpdateIs ==
    ASSUME FileType, NEW h \in Handles, NEW f, NEW bytes, Update(h, f, bytes)
    PROVE  /\ file'[h] = f /\ disk' = bytes
           /\ \A g \in Handles \ {h} : file'[g] = file[g]
           /\ DOMAIN file' = Handles
           /\ shared' = (shared \/ Others(h) # {})
BY DEF FileType, Update

\* What an update needs to leave every value of its type.
LEMMA UpdateTyped ==
    ASSUME FileType, NEW h \in Handles, NEW f \in File, NEW bytes \in Seq(ByteValues),
           Update(h, f, bytes), f.state # "lazy",
           (Untouched /\ exists) \/ Touched, cut' \in BOOLEAN
    PROVE  FileType'
<1>1. exists' = TRUE /\ touched' \in BOOLEAN
  BY DEF Untouched, Touched, FileType
<1>2. file' \in [Handles -> File] /\ file'[h] = f
  BY DEF Update, FileType
<1>3. \A g \in Handles \ {h} : file'[g] = file[g]
  BY UpdateIs
<1>4. shared' \in BOOLEAN /\ disk' \in Seq(ByteValues)
  BY DEF Update, FileType
<1>5. \A g \in Handles : file'[g].state = "lazy" => file'[g] = Lazy
  BY <1>2, <1>3 DEF FileType
<1> QED BY <1>1, <1>2, <1>4, <1>5 DEF FileType

\* Using a handle when no other is in use keeps it the only one.
LEMMA UpdateAlone ==
    ASSUME FileType, Alone, NEW h \in Handles, NEW f, NEW bytes, Update(h, f, bytes)
    PROVE  /\ Alone'
           /\ ~shared' => ~shared /\ InUse' \subseteq {h} /\ InUse \subseteq {h}
<1>1. /\ \A g \in Handles \ {h} : file'[g] = file[g]
      /\ shared' = (shared \/ Others(h) # {})
  BY UpdateIs
<1>2. ASSUME ~shared' PROVE ~shared /\ InUse' \subseteq {h} /\ InUse \subseteq {h}
  BY <1>1, <1>2 DEF Others, InUse
<1> QED BY <1>2 DEF Alone

\* Every step but letting go is an update of the handle that takes it.
UpdatesTo(h, f, bytes) ==
    /\ Update(h, f, bytes) /\ f.state # "lazy"
    /\ (Untouched /\ exists) \/ Touched
    /\ cut' \in BOOLEAN /\ (~cut' => ~cut)

\* Reading cuts nothing.
LEMMA UntouchedCuts == ASSUME FileType, Untouched PROVE cut' \in BOOLEAN /\ (~cut' => ~cut)
BY DEF FileType, Untouched

\* Every step is an update, or letting go.
LEMMA OpenUpdates ==
    ASSUME FileType, NEW h \in Handles, Open(h)
    PROVE  UpdatesTo(h, Opened(h), disk) /\ Opened(h) \in File /\ disk \in Seq(ByteValues)
BY OpenedIs, UntouchedCuts DEF Open, UpdatesTo, FileType

\* What a read does to its handle.
LEMMA ReadUpdates ==
    ASSUME FileType, NEW h \in Handles, Read(h)
    PROVE  \E f \in File : UpdatesTo(h, f, disk) /\ Untouched
                           /\ \/ /\ f.size = Opened(h).size /\ f.state = "live"
                                 /\ f.mapped = IF Opened(h).mapped > 0 \/ f.size = 0
                                               THEN Opened(h).mapped ELSE Len(disk)
                              \/ /\ Opened(h).mapped > 0 => Opened(h).mapped < Opened(h).size
                                 /\ Opened(h).mapped = 0 => Len(disk) < Opened(h).size
                                 /\ f.size = Opened(h).size
                                 /\ f.mapped \in {Opened(h).mapped, Len(disk)}
                              \/ /\ Opened(h).size > Len(disk)
                                 /\ f.size = file[h].size /\ f.mapped = file[h].mapped
<1> DEFINE o == Opened(h)
           m == IF o.mapped > 0 THEN o.mapped ELSE Len(disk)
<1>1. o \in File /\ o.state = "live" /\ Len(disk) \in Nat /\ m \in Nat /\ file[h] \in File
  BY OpenedIs DEF Read, File, FileType
<1>2. exists /\ Untouched /\ cut' \in BOOLEAN /\ (~cut' => ~cut)
  BY UntouchedCuts DEF Read
<1>3. CASE Update(h, o, disk) /\ o.size = 0
  <2>1. UpdatesTo(h, o, disk)
    BY <1>1, <1>2, <1>3 DEF UpdatesTo
  <2> QED BY <1>1, <1>2, <1>3, <2>1 DEF File
<1> HIDE DEF o
<1>4. CASE m < o.size /\ Update(h, [o EXCEPT !.state = "poisoned", !.mapped = m], disk)
  <2> DEFINE f == [o EXCEPT !.state = "poisoned", !.mapped = m]
  <2>1. f \in File /\ f.state = "poisoned" /\ f.mapped = m /\ f.size = o.size
    BY <1>1 DEF File
  <2>2. UpdatesTo(h, f, disk)
    BY <1>2, <1>4, <2>1 DEF UpdatesTo
  <2> HIDE DEF f
  <2> QED BY <1>1, <1>2, <1>4, <2>1, <2>2 DEF File, o
<1>5. CASE o.size # 0 /\ Update(h, [o EXCEPT !.mapped = m], disk)
  <2> DEFINE f == [o EXCEPT !.mapped = m]
  <2>1. f \in File /\ f.state = "live" /\ f.mapped = m /\ f.size = o.size
    BY <1>1 DEF File
  <2>2. UpdatesTo(h, f, disk)
    BY <1>2, <1>5, <2>1 DEF UpdatesTo
  <2> HIDE DEF f
  <2> QED BY <1>1, <1>2, <1>5, <2>1, <2>2 DEF File, o
<1>6. CASE Sigbus(h, o.size, disk)
  <2> DEFINE f == [file[h] EXCEPT !.state = "dead"]
  <2>1. f \in File /\ f.state = "dead" /\ f.mapped = file[h].mapped /\ f.size = file[h].size
    BY <1>1 DEF File
  <2>2. UpdatesTo(h, f, disk) /\ o.size > Len(disk)
    BY <1>2, <1>6, <2>1 DEF UpdatesTo, Sigbus
  <2> HIDE DEF f
  <2> QED BY <1>1, <1>2, <2>1, <2>2 DEF File, o
<1> QED BY <1>3, <1>4, <1>5, <1>6 DEF Read, o
\* What a handle does that maps n bytes to write them: the file is as long as
\* the mapping asked for, unless the file turns out shorter than that; and it is
\* noted when that cuts the file.
Grows(h, n, f, bytes) ==
    /\ UpdatesTo(h, f, bytes) /\ Touched
    /\ ~cut' => ~Cuts(Opened(h), n)
    /\ Len(bytes) = Len(Remap(Opened(h), n).bytes)
    /\ \/ /\ f.state = "live" /\ f.mapped = Remap(Opened(h), n).mapped
          /\ f.size \in {Opened(h).size, Larger(Opened(h).size, n)}
       \/ /\ n > Len(bytes)
          /\ f.size = file[h].size /\ f.mapped = file[h].mapped

LEMMA GrowingCuts ==
    ASSUME FileType, NEW h \in Handles, NEW n, Growing(h, n)
    PROVE  cut' \in BOOLEAN /\ (~cut' => ~cut /\ ~Cuts(Opened(h), n))
BY DEF FileType, Growing, Cuts

LEMMA GrowsLive ==
    ASSUME FileType, NEW h \in Handles, Usable(h), NEW n \in Nat, NEW size \in Nat,
           size \in {Opened(h).size, Larger(Opened(h).size, n)},
           NEW bytes \in Seq(ByteValues), Len(bytes) = Len(Remap(Opened(h), n).bytes),
           Update(h, [Opened(h) EXCEPT !.mapped = Remap(Opened(h), n).mapped, !.size = size], bytes),
           Touched, Growing(h, n)
    PROVE  \E f \in File : Grows(h, n, f, bytes)
<1> DEFINE o == Opened(h)
           r == Remap(o, n)
           f == [o EXCEPT !.mapped = r.mapped, !.size = size]
<1>1. o \in File /\ o.state = "live" /\ r.mapped \in Nat
  BY OpenedIs, RemapIs
<1> HIDE DEF r, o
<1>2. f \in File /\ f.state = "live" /\ f.mapped = r.mapped /\ f.size = size
  BY <1>1 DEF File
<1>3. Update(h, f, bytes)
  BY DEF r, o
<1> HIDE DEF f
<1>4. UpdatesTo(h, f, bytes)
  BY <1>2, <1>3, GrowingCuts DEF UpdatesTo
<1> QED BY <1>2, <1>4, GrowingCuts DEF Grows, r, o

LEMMA GrowsDead ==
    ASSUME FileType, NEW h \in Handles, Usable(h), NEW n \in Nat,
           Sigbus(h, n, Remap(Opened(h), n).bytes), Touched, Growing(h, n)
    PROVE  \E f \in File, bytes \in Seq(ByteValues) : Grows(h, n, f, bytes)
<1> DEFINE r == Remap(Opened(h), n)
           f == [file[h] EXCEPT !.state = "dead"]
<1>1. file[h] \in File /\ r.bytes \in Seq(ByteValues)
  BY OpenedIs, RemapIs DEF FileType
<1>2. Update(h, f, r.bytes) /\ n > Len(r.bytes)
  BY DEF Sigbus
<1>3. f \in File /\ f.state = "dead" /\ f.mapped = file[h].mapped /\ f.size = file[h].size
  BY <1>1 DEF File
<1> HIDE DEF f
<1>4. UpdatesTo(h, f, r.bytes)
  BY <1>2, <1>3, GrowingCuts DEF UpdatesTo
<1>5. Grows(h, n, f, r.bytes)
  BY <1>2, <1>3, <1>4, GrowingCuts DEF Grows
<1> QED BY <1>1, <1>3, <1>5

\* The bytes a write and a growing truncation lay into the mapping.
Cleared(h, offset, grown) ==
    IF offset > Opened(h).size
    THEN Store(grown.bytes, Opened(h).size, Zeros(offset - Opened(h).size))
    ELSE grown.bytes

LEMMA ClearedIs ==
    ASSUME FileType, NEW h \in Handles, Usable(h), NEW n \in Nat, NEW offset \in Nat
    PROVE  /\ Cleared(h, offset, Remap(Opened(h), n)) \in Seq(ByteValues)
           /\ Len(Cleared(h, offset, Remap(Opened(h), n))) = Len(Remap(Opened(h), n).bytes)
<1> DEFINE o == Opened(h)
           r == Remap(o, n)
<1>1. o.size \in Nat /\ r.bytes \in Seq(ByteValues)
  BY OpenedIs, RemapIs DEF File
<1> HIDE DEF r, o
<1>2. CASE offset > o.size
  <2>1. offset - o.size \in Nat
    BY <1>1, <1>2
  <2>2. /\ Store(r.bytes, o.size, Zeros(offset - o.size)) \in Seq(ByteValues)
        /\ Len(Store(r.bytes, o.size, Zeros(offset - o.size))) = Len(r.bytes)
    BY <1>1, <2>1, ZerosAre, StoreIs
  <2> QED BY <1>2, <2>2 DEF Cleared, r, o
<1>3. CASE ~(offset > o.size)
  BY <1>1, <1>3 DEF Cleared, r, o
<1> QED BY <1>2, <1>3

LEMMA WriteGrows ==
    ASSUME FileType, NEW h \in Handles, Write(h)
    PROVE  \E n \in 0..MaxLen, f \in File, bytes \in Seq(ByteValues) : Grows(h, n, f, bytes)
<1>1. Usable(h) /\ Touched
  BY DEF Write
<1> DEFINE o == Opened(h)
<1>2. PICK new \in Written, offset \in 0..MaxLen :
        LET end == offset + Len(new)
            grown == Remap(o, end)
        IN /\ end <= MaxLen /\ Growing(h, end)
           /\ \/ Update(h, [o EXCEPT !.mapped = grown.mapped, !.size = Larger(o.size, end)],
                        Store(Cleared(h, offset, grown), offset, new))
              \/ Sigbus(h, end, grown.bytes)
  BY DEF Write, Cleared
<1> DEFINE end == offset + Len(new)
           grown == Remap(o, end)
<1>3. offset \in Nat /\ end \in 0..MaxLen /\ end \in Nat /\ new \in Seq(ByteValues)
  BY <1>2, WrittenAreBytes, LocalFileAssumption
<1>4. CASE Sigbus(h, end, grown.bytes)
  BY <1>1, <1>2, <1>3, <1>4, GrowsDead
<1>5. CASE Update(h, [o EXCEPT !.mapped = grown.mapped, !.size = Larger(o.size, end)],
                  Store(Cleared(h, offset, grown), offset, new))
  <2> DEFINE bytes == Store(Cleared(h, offset, grown), offset, new)
  <2>1. /\ Cleared(h, offset, grown) \in Seq(ByteValues)
        /\ Len(Cleared(h, offset, grown)) = Len(grown.bytes)
    BY <1>1, <1>3, ClearedIs
  <2>2. bytes \in Seq(ByteValues) /\ Len(bytes) = Len(grown.bytes)
    BY <1>3, <2>1, StoreIs
  <2>3. Larger(o.size, end) \in Nat
    BY <1>1, <1>3, OpenedIs DEF Larger, File
  <2>5. Growing(h, end)
    BY <1>2
  <2> HIDE DEF bytes, end
  <2>4. \E f \in File : Grows(h, end, f, bytes)
    BY <1>1, <1>3, <1>5, <2>2, <2>3, <2>5, GrowsLive DEF bytes
  <2> QED BY <1>3, <2>2, <2>4
<1> QED BY <1>2, <1>4, <1>5

LEMMA TruncateGrows ==
    ASSUME FileType, NEW h \in Handles, Truncate(h)
    PROVE  \/ \E n \in 0..MaxLen, f \in File, bytes \in Seq(ByteValues) : Grows(h, n, f, bytes)
           \/ \E n \in 0..MaxLen : /\ n <= Opened(h).size /\ Touched /\ UNCHANGED cut
                                   /\ Update(h, [Opened(h) EXCEPT !.size = n], disk)
<1>1. Usable(h) /\ Touched /\ UNCHANGED cut
  BY DEF Truncate
<1> DEFINE o == Opened(h)
<1>2. PICK n \in 0..MaxLen :
        LET grown == Remap(o, n) IN
        IF n > o.size
        THEN \/ Update(h, [o EXCEPT !.mapped = grown.mapped, !.size = n],
                       Store(grown.bytes, o.size, Zeros(n - o.size)))
             \/ Sigbus(h, n, grown.bytes)
        ELSE Update(h, [o EXCEPT !.size = n], disk)
  BY DEF Truncate
<1> DEFINE grown == Remap(o, n)
<1>3. n \in Nat /\ o.size \in Nat /\ grown.bytes \in Seq(ByteValues)
  BY <1>1, OpenedIs, RemapIs, LocalFileAssumption DEF File
<1>7. n > o.size => Growing(h, n)
  BY <1>1, <1>3, LocalFileAssumption DEF Growing, Cuts, Larger, FileType
<1>4. CASE ~(n > o.size)
  BY <1>1, <1>2, <1>3, <1>4
<1>5. CASE n > o.size /\ Sigbus(h, n, grown.bytes)
  BY <1>1, <1>3, <1>5, <1>7, GrowsDead
<1>6. CASE n > o.size /\ Update(h, [o EXCEPT !.mapped = grown.mapped, !.size = n],
                                Store(grown.bytes, o.size, Zeros(n - o.size)))
  <2> DEFINE bytes == Store(grown.bytes, o.size, Zeros(n - o.size))
  <2> HIDE DEF grown, o
  <2>1. n - o.size \in Nat
    BY <1>3, <1>6
  <2>2. bytes \in Seq(ByteValues) /\ Len(bytes) = Len(grown.bytes)
    BY <1>3, <2>1, ZerosAre, StoreIs
  <2>3. n = Larger(o.size, n)
    BY <1>6, <1>3 DEF Larger
  <2> HIDE DEF bytes
  <2>4. \E f \in File : Grows(h, n, f, bytes)
    BY <1>1, <1>3, <1>6, <1>7, <2>2, <2>3, GrowsLive DEF bytes, grown, o
  <2> QED BY <2>2, <2>4
<1> QED BY <1>2, <1>4, <1>5, <1>6

LEMMA ReserveGrows ==
    ASSUME FileType, NEW h \in Handles, Reserve(h)
    PROVE  \E n \in 0..MaxLen, f \in File, bytes \in Seq(ByteValues) : Grows(h, n, f, bytes)
<1>1. Usable(h) /\ Touched
  BY DEF Reserve
<1> DEFINE o == Opened(h)
<1>2. PICK n \in 0..MaxLen :
        /\ Growing(h, n)
        /\ Update(h, [o EXCEPT !.mapped = Remap(o, n).mapped], Remap(o, n).bytes)
  BY DEF Reserve
<1>3. n \in Nat /\ o \in File /\ Remap(o, n).bytes \in Seq(ByteValues)
  BY <1>1, OpenedIs, RemapIs, LocalFileAssumption
<1>4. o.size \in Nat /\ [o EXCEPT !.mapped = Remap(o, n).mapped]
            = [o EXCEPT !.mapped = Remap(o, n).mapped, !.size = o.size]
  <2> HIDE DEF o
  <2> QED BY <1>3 DEF File
<1>5. \E f \in File : Grows(h, n, f, Remap(o, n).bytes)
  BY <1>1, <1>2, <1>3, <1>4, GrowsLive
<1> QED BY <1>3, <1>5
-----------------------------------------------------------------------------
(* The invariant is inductive.                                             *)

\* The bytes a file already has are a sequence.
LEMMA FileInitially == Init => FileInv /\ GrowthInv
<1> SUFFICES ASSUME Init PROVE FileInv /\ GrowthInv
  OBVIOUS
<1>1. PICK n \in 0..MaxLen : disk \in [1..n -> ByteValues]
  BY DEF Init
<1>2. n \in Nat /\ n <= MaxLen /\ disk \in Seq(ByteValues) /\ Len(disk) = n
  BY <1>1, LocalFileAssumption
<1>3. Lazy \in File /\ Lazy.state = "lazy" /\ Lazy.size = 0 /\ Lazy.mapped = 0
  BY DEF Lazy, File
<1>4. file \in [Handles -> File] /\ \A h \in Handles : file[h] = Lazy
  BY <1>3 DEF Init
<1>5. InUse = {}
  BY <1>3, <1>4 DEF InUse
<1>6. exists \in BOOLEAN /\ touched \in BOOLEAN /\ shared \in BOOLEAN /\ cut \in BOOLEAN
  BY DEF Init
<1>7. FileType
  BY <1>2, <1>3, <1>4, <1>6 DEF FileType
<1>8. GrowthInv
  BY <1>5 DEF GrowthInv
<1> QED BY <1>5, <1>7, <1>8 DEF FileInv, Alone, Readers

\* What remains when a handle lets go.
LEMMA LetGoIs ==
    ASSUME FileType, NEW h \in Handles, LetGo(h)
    PROVE  /\ FileType'
           /\ InUse' = InUse \ {h}
           /\ \A g \in InUse' : file'[g] = file[g]
           /\ file[h].state = "live" => disk' = SetLen(disk, file[h].size)
           /\ file[h].state # "live" => disk' = disk
           /\ InUse' # {} => (touched' = touched /\ shared' = shared /\ cut' = cut)
<1>1. Lazy \in File /\ Lazy.state = "lazy" /\ Lazy.size = 0 /\ Lazy.mapped = 0
  BY DEF Lazy, File
<1>2. file' = [file EXCEPT ![h] = Lazy] /\ file \in [Handles -> File] /\ exists' = exists
  BY DEF LetGo, FileType
<1>3. file' \in [Handles -> File] /\ file'[h] = Lazy /\ \A g \in Handles \ {h} : file'[g] = file[g]
  BY <1>1, <1>2
<1>4. file[h].size \in Nat
  BY DEF FileType, File
<1>5. disk' \in Seq(ByteValues)
  BY <1>4, SetLenIs DEF LetGo, FileType
<1>6. touched' \in BOOLEAN /\ shared' \in BOOLEAN /\ cut' \in BOOLEAN
  BY DEF LetGo, FileType
<1>7. FileType'
  BY <1>1, <1>2, <1>3, <1>5, <1>6 DEF FileType
<1>8. InUse' = InUse \ {h}
  BY <1>1, <1>3 DEF InUse
<1>9. InUse' = Others(h)
  BY <1>8 DEF InUse, Others
<1>10. InUse' # {} => (touched' = touched /\ shared' = shared /\ cut' = cut)
  BY <1>9 DEF LetGo, FileType
<1> QED BY <1>3, <1>7, <1>8, <1>10 DEF LetGo, InUse

\* Every step keeps the type, and what is unshared alone.
LEMMA StepUpdates ==
    ASSUME FileType, NEW h \in Handles, Step(h), ~LetGo(h)
    PROVE  \E f \in File, bytes \in Seq(ByteValues) : UpdatesTo(h, f, bytes)
<1>1. disk \in Seq(ByteValues)
  BY DEF FileType
<1>2. CASE Open(h)
  BY <1>2, OpenUpdates
<1>3. CASE Read(h)
  BY <1>1, <1>3, ReadUpdates
<1>4. CASE \E n \in 0..MaxLen, f \in File, bytes \in Seq(ByteValues) : Grows(h, n, f, bytes)
  BY <1>4 DEF Grows
<1>5. ASSUME NEW n \in 0..MaxLen, Usable(h), Touched, UNCHANGED cut,
             Update(h, [Opened(h) EXCEPT !.size = n], disk)
      PROVE  \E f \in File, bytes \in Seq(ByteValues) : UpdatesTo(h, f, bytes)
  <2>1. n \in Nat /\ Opened(h) \in File /\ Opened(h).state = "live"
    BY <1>5, OpenedIs, LocalFileAssumption
  <2> DEFINE f == [Opened(h) EXCEPT !.size = n]
  <2>2. f \in File /\ f.state = "live"
    BY <2>1 DEF File
  <2>3. Update(h, f, disk)
    BY <1>5
  <2> HIDE DEF f
  <2>4. UpdatesTo(h, f, disk)
    BY <1>5, <2>2, <2>3 DEF UpdatesTo, FileType
  <2> QED BY <1>1, <2>2, <2>4
<1>6. CASE Flush(h)
  <2> DEFINE f == [file[h] EXCEPT !.mapped = 0]
  <2>1. file[h] \in File /\ file[h].state = "live" /\ exists /\ file[h].size \in Nat
    BY <1>6 DEF Flush, FileType, File
  <2>2. f \in File /\ f.state = "live"
    BY <2>1 DEF File
  <2>3. Update(h, f, SetLen(disk, file[h].size)) /\ Untouched
    BY <1>6 DEF Flush
  <2> HIDE DEF f
  <2>4. UpdatesTo(h, f, SetLen(disk, file[h].size))
    BY <2>1, <2>2, <2>3, UntouchedCuts DEF UpdatesTo
  <2>5. SetLen(disk, file[h].size) \in Seq(ByteValues)
    BY <1>1, <2>1, SetLenIs
  <2> QED BY <2>2, <2>4, <2>5
<1>7. CASE Write(h)
  BY <1>4, <1>7, WriteGrows
<1>8. CASE Reserve(h)
  BY <1>4, <1>8, ReserveGrows
<1>9. CASE Truncate(h)
  <2>1. Usable(h)
    BY <1>9 DEF Truncate
  <2> QED BY <1>4, <1>5, <1>9, <2>1, TruncateGrows
<1> QED BY <1>2, <1>3, <1>6, <1>7, <1>8, <1>9 DEF Step

\* Until somebody wrote, what is not a write leaves every handle the whole file.
LEMMA ReadersStay ==
    ASSUME FileType, FileType', Readers, NEW h \in Handles, Step(h)
    PROVE  Readers'
<1> USE DEF Readers, MapFits
<1>1. CASE LetGo(h)
  <2>1. CASE InUse' = {}
    BY <2>1
  <2>2. CASE InUse' # {} /\ ~touched'
    <3>1. ~touched /\ InUse' = InUse \ {h} /\ \A g \in InUse' : file'[g] = file[g]
      BY <1>1, <2>2, LetGoIs
    <3>2. h \in InUse
      BY <1>1 DEF LetGo, InUse
    <3>3. file[h].state = "live" /\ file[h].size = Len(disk)
      BY <3>1, <3>2
    <3>4. disk' = SetLen(disk, file[h].size)
      BY <1>1, <3>3, LetGoIs
    <3>5. Len(disk') = Len(disk)
      BY <3>3, <3>4, SetLenIs DEF FileType, File
    <3> QED BY <3>1, <3>5
  <2> QED BY <2>1, <2>2
<1>2. ASSUME ~touched', NEW f \in File, Update(h, f, disk'), Untouched,
             f.state = "live", f.size = Len(disk), Len(disk') = Len(disk),
             f.mapped > 0 => f.mapped = Len(disk)
      PROVE  Readers'
  <2>1. ~touched
    BY <1>2 DEF Untouched
  <2>2. file'[h] = f /\ \A g \in Handles \ {h} : file'[g] = file[g]
    BY <1>2, UpdateIs
  <2>3. Len(disk) \in Nat /\ \A g \in InUse' : g = h \/ g \in InUse
    BY <2>2 DEF InUse, FileType
  <2> QED BY <1>2, <2>1, <2>2, <2>3 DEF InUse
<1>3. ASSUME ~touched, Usable(h)
      PROVE  /\ Opened(h).size = Len(disk) /\ Opened(h).state = "live"
             /\ Opened(h) \in File
             /\ Opened(h).mapped > 0 => Opened(h).mapped = Len(disk)
             /\ file[h].state = "live" => file[h].size = Len(disk)
  BY <1>3, OpenedIs DEF InUse, Usable
<1>4. ASSUME Open(h), ~touched' PROVE Readers'
  <2>1. ~touched /\ Usable(h) /\ Untouched /\ Update(h, Opened(h), disk) /\ disk' = disk
    BY <1>4 DEF Open, Untouched, Update
  <2> QED BY <1>2, <1>3, <1>4, <2>1
<1>5. ASSUME Read(h), ~touched' PROVE Readers'
  <2>1. ~touched /\ Usable(h) /\ Untouched
    BY <1>5 DEF Read, Untouched
  <2>2. Len(disk) \in Nat /\ file[h] \in File
    BY DEF FileType
  <2>3. PICK f \in File : UpdatesTo(h, f, disk) /\ Untouched
           /\ \/ /\ f.size = Opened(h).size /\ f.state = "live"
                 /\ f.mapped = IF Opened(h).mapped > 0 \/ f.size = 0
                               THEN Opened(h).mapped ELSE Len(disk)
              \/ /\ Opened(h).mapped > 0 => Opened(h).mapped < Opened(h).size
                 /\ Opened(h).mapped = 0 => Len(disk) < Opened(h).size
                 /\ f.size = Opened(h).size
                 /\ f.mapped \in {Opened(h).mapped, Len(disk)}
              \/ /\ Opened(h).size > Len(disk)
                 /\ f.size = file[h].size /\ f.mapped = file[h].mapped
    BY <1>5, ReadUpdates
  <2>4. Opened(h).mapped \in Nat
    BY <1>3, <2>1 DEF File
  <2>5. /\ f.size = Opened(h).size /\ f.state = "live"
        /\ f.mapped = IF Opened(h).mapped > 0 \/ f.size = 0 THEN Opened(h).mapped ELSE Len(disk)
    BY <1>3, <2>1, <2>2, <2>3, <2>4
  <2>6. disk' = disk /\ Update(h, f, disk)
    BY <2>3 DEF UpdatesTo, Update
  <2> QED BY <1>2, <1>3, <1>5, <2>1, <2>4, <2>5, <2>6
<1>6. ASSUME Flush(h), ~touched' PROVE Readers'
  <2> DEFINE f == [file[h] EXCEPT !.mapped = 0]
  <2>1. ~touched /\ Usable(h) /\ Untouched /\ file[h].state = "live" /\ file[h] \in File
    BY <1>6 DEF Flush, Untouched, FileType
  <2>2. f \in File /\ f.state = "live" /\ f.size = file[h].size /\ f.mapped = 0
    BY <2>1 DEF File
  <2>3. file[h].size = Len(disk) /\ disk' = SetLen(disk, file[h].size) /\ Update(h, f, disk')
    BY <1>3, <1>6, <2>1 DEF Flush, Update
  <2>4. Len(disk') = Len(disk)
    BY <2>1, <2>3, SetLenIs DEF FileType, File
  <2> HIDE DEF f
  <2> QED BY <1>2, <1>6, <2>1, <2>2, <2>3, <2>4
<1>7. ASSUME Write(h) \/ Truncate(h) \/ Reserve(h) PROVE touched'
  BY <1>7 DEF Write, Truncate, Reserve, Touched
<1> QED BY <1>1, <1>4, <1>5, <1>6, <1>7 DEF Step

LEMMA FileStays == FileInv /\ [Next]_vars => FileInv'
<1> SUFFICES ASSUME FileInv, [Next]_vars PROVE FileInv'
  OBVIOUS
<1>1. CASE UNCHANGED vars
  BY <1>1 DEF vars, FileInv, FileType, Alone, Readers, MapFits, InUse
<1>2. ASSUME NEW h \in Handles, Step(h) PROVE FileInv'
  <2> USE DEF FileInv
  <2>1. CASE LetGo(h)
    <3>1. FileType' /\ Readers'
      BY <1>2, <2>1, LetGoIs, ReadersStay
    <3>2. InUse' = InUse \ {h} /\ (InUse' # {} => shared' = shared)
      BY <2>1, LetGoIs
    <3>3. Alone'
      BY <3>2 DEF Alone
    <3> QED BY <3>1, <3>3
  <2>2. CASE ~LetGo(h)
    <3>1. PICK f \in File, bytes \in Seq(ByteValues) : UpdatesTo(h, f, bytes)
      BY <1>2, <2>2, StepUpdates
    <3>2. FileType' /\ Alone'
      BY <3>1, UpdateTyped, UpdateAlone DEF UpdatesTo
    <3>3. Readers'
      BY <1>2, <3>2, ReadersStay
    <3> QED BY <3>2, <3>3
  <2> QED BY <2>1, <2>2
<1> QED BY <1>1, <1>2 DEF Next
-----------------------------------------------------------------------------
(* A handle used alone fits its file until it cuts it.                     *)

\* Mapping n bytes keeps a handle that fits fitting, if it does not cut.
LEMMA RemapFits ==
    ASSUME FileType, NEW f \in File, NEW n \in Nat, ~Cuts(f, n),
           f.size <= Len(disk), f.mapped > 0 => f.mapped = Len(disk)
    PROVE  /\ Remap(f, n).mapped = Len(Remap(f, n).bytes)
           /\ f.size <= Len(Remap(f, n).bytes) /\ n <= Len(Remap(f, n).bytes)
<1> DEFINE r == Remap(f, n)
<1>1. Growth \in Nat \ {0}
  BY LocalFileAssumption
<1>2. /\ r.mapped \in Nat \ {0} /\ r.mapped >= n
      /\ \/ f.mapped > 0 /\ r = [bytes |-> disk, mapped |-> f.mapped]
         \/ /\ f.mapped = 0 \/ f.mapped < n
            /\ r.mapped = Larger(n, Larger(2 * f.mapped, Growth))
            /\ Len(r.bytes) = r.mapped
  BY RemapIs
<1>3. f.mapped \in Nat /\ f.size \in Nat /\ Len(disk) \in Nat
  BY DEF File, FileType
<1> HIDE DEF r
<1>4. CASE f.mapped > 0 /\ r = [bytes |-> disk, mapped |-> f.mapped]
  <2>1. r.bytes = disk /\ r.mapped = f.mapped
    BY <1>4
  <2> QED BY <1>2, <1>3, <1>4, <2>1 DEF r
<1>5. CASE /\ f.mapped = 0 \/ f.mapped < n
           /\ r.mapped = Larger(n, Larger(2 * f.mapped, Growth))
           /\ Len(r.bytes) = r.mapped
  <2>1. CASE f.mapped = 0
    <3>1. f.size <= Larger(n, Growth) /\ Larger(n, Larger(2 * f.mapped, Growth)) >= Larger(n, Growth)
      BY <1>1, <1>3, <2>1 DEF Cuts, Larger
    <3>2. Larger(n, Growth) \in Nat
      BY <1>1 DEF Larger
    <3> QED BY <1>2, <1>3, <1>5, <3>1, <3>2 DEF r
  <2>2. CASE f.mapped > 0
    <3>1. f.mapped < n /\ f.size <= f.mapped
      BY <1>3, <1>5, <2>2
    <3> QED BY <1>2, <1>3, <1>5, <3>1 DEF r
  <2> QED BY <1>3, <2>1, <2>2
<1> QED BY <1>2, <1>4, <1>5

\* An update keeps the invariant when its handle, alone and not cutting, fits.
LEMMA UpdateFits ==
    ASSUME FileType, Alone, NEW h \in Handles, NEW f \in File, NEW bytes \in Seq(ByteValues),
           UpdatesTo(h, f, bytes),
           InUse \subseteq {h} /\ ~shared /\ ~cut /\ ~cut' =>
              f.state = "live" /\ f.size <= Len(bytes) /\ (f.mapped > 0 => f.mapped = Len(bytes))
    PROVE  GrowthInv'
<1>1. Update(h, f, bytes) /\ (~cut' => ~cut)
  BY DEF UpdatesTo
<1>2. /\ file'[h] = f /\ disk' = bytes
      /\ ~shared' => ~shared /\ InUse' \subseteq {h} /\ InUse \subseteq {h}
  BY <1>1, UpdateIs, UpdateAlone
<1> QED BY <1>1, <1>2 DEF GrowthInv, MapFits

\* A handle used alone, opened, fits.
LEMMA OpenedFits ==
    ASSUME FileType, GrowthInv, NEW h \in Handles, Usable(h), ~shared, ~cut
    PROVE  /\ Opened(h).size <= Len(disk)
           /\ Opened(h).mapped > 0 => Opened(h).mapped = Len(disk)
<1>1. CASE file[h].state = "live"
  <2>1. Opened(h) = file[h] /\ h \in InUse
    BY <1>1, OpenedIs DEF InUse
  <2> QED BY <2>1 DEF GrowthInv, MapFits
<1>2. CASE file[h].state # "live"
  BY <1>2, OpenedIs DEF FileType
<1> QED BY <1>1, <1>2

LEMMA GrowsFits ==
    ASSUME FileType, Alone, GrowthInv, NEW h \in Handles, Usable(h),
           NEW n \in Nat, NEW f \in File, NEW bytes \in Seq(ByteValues), Grows(h, n, f, bytes)
    PROVE  GrowthInv'
<1> DEFINE o == Opened(h)
           r == Remap(o, n)
<1>1. o \in File
  BY OpenedIs
<1>2. /\ UpdatesTo(h, f, bytes) /\ Len(bytes) = Len(r.bytes) /\ (~cut' => ~Cuts(o, n))
      /\ \/ f.state = "live" /\ f.mapped = r.mapped /\ f.size \in {o.size, Larger(o.size, n)}
         \/ n > Len(bytes) /\ f.size = file[h].size /\ f.mapped = file[h].mapped
  BY DEF Grows
<1>3. ~shared /\ ~cut /\ ~cut' =>
         r.mapped = Len(r.bytes) /\ o.size <= Len(r.bytes) /\ n <= Len(r.bytes)
  BY <1>1, <1>2, OpenedFits, RemapFits
<1> HIDE DEF r, o
<1>4. o.size \in Nat /\ Len(bytes) \in Nat
  BY <1>1 DEF File
<1>5. ~shared /\ ~cut /\ ~cut' =>
         f.state = "live" /\ f.size <= Len(bytes) /\ f.mapped = Len(bytes)
  BY <1>2, <1>3, <1>4 DEF Larger
<1> QED BY <1>2, <1>5, UpdateFits

LEMMA StepFits ==
    ASSUME FileInv, GrowthInv, NEW h \in Handles, Step(h)
    PROVE  GrowthInv'
<1> USE DEF FileInv
<1>1. Len(disk) \in Nat /\ disk \in Seq(ByteValues) /\ file[h] \in File
  BY DEF FileType
<1>2. CASE Open(h)
  <2>1. Usable(h)
    BY <1>2 DEF Open
  <2> QED BY <1>1, <1>2, <2>1, OpenUpdates, OpenedIs, OpenedFits, UpdateFits
<1>3. CASE Read(h)
  <2>1. Usable(h)
    BY <1>3 DEF Read
  <2>2. PICK f \in File : UpdatesTo(h, f, disk) /\ Untouched
           /\ \/ /\ f.size = Opened(h).size /\ f.state = "live"
                 /\ f.mapped = IF Opened(h).mapped > 0 \/ f.size = 0
                               THEN Opened(h).mapped ELSE Len(disk)
              \/ /\ Opened(h).mapped > 0 => Opened(h).mapped < Opened(h).size
                 /\ Opened(h).mapped = 0 => Len(disk) < Opened(h).size
                 /\ f.size = Opened(h).size
                 /\ f.mapped \in {Opened(h).mapped, Len(disk)}
              \/ /\ Opened(h).size > Len(disk)
                 /\ f.size = file[h].size /\ f.mapped = file[h].mapped
    BY <1>3, ReadUpdates
  <2>3. Opened(h).size \in Nat /\ Opened(h).mapped \in Nat
    BY <2>1, OpenedIs DEF File
  <2>4. ~shared /\ ~cut => /\ Opened(h).size <= Len(disk)
                           /\ Opened(h).mapped > 0 => Opened(h).mapped = Len(disk)
    BY <2>1, OpenedFits
  <2>5. ~shared /\ ~cut =>
          f.state = "live" /\ f.size <= Len(disk) /\ (f.mapped > 0 => f.mapped = Len(disk))
    BY <1>1, <2>2, <2>3, <2>4
  <2> QED BY <1>1, <2>2, <2>5, UpdateFits
<1>4. CASE \E n \in 0..MaxLen, f \in File, bytes \in Seq(ByteValues) : Usable(h) /\ Grows(h, n, f, bytes)
  BY <1>4, GrowsFits, LocalFileAssumption
<1>5. ASSUME NEW n \in 0..MaxLen, n <= Opened(h).size, Usable(h), Touched, UNCHANGED cut,
             Update(h, [Opened(h) EXCEPT !.size = n], disk)
      PROVE  GrowthInv'
  <2> DEFINE o == Opened(h)
             f == [o EXCEPT !.size = n]
  <2>1. n \in Nat /\ o \in File /\ o.state = "live"
    BY <1>5, OpenedIs, LocalFileAssumption
  <2>2. n <= o.size /\ (~shared /\ ~cut =>
            o.size <= Len(disk) /\ (o.mapped > 0 => o.mapped = Len(disk)))
    BY <1>5, OpenedFits
  <2>3. Update(h, f, disk)
    BY <1>5
  <2> HIDE DEF o
  <2>4. f \in File /\ f.state = "live" /\ f.size = n /\ f.mapped = o.mapped /\ o.size \in Nat
    BY <2>1 DEF File
  <2> HIDE DEF f
  <2>5. UpdatesTo(h, f, disk)
    BY <1>5, <2>3, <2>4 DEF UpdatesTo, FileType
  <2> QED BY <1>1, <2>1, <2>2, <2>4, <2>5, UpdateFits
<1>6. CASE Flush(h)
  <2> DEFINE f == [file[h] EXCEPT !.mapped = 0]
             bytes == SetLen(disk, file[h].size)
  <2>1. f \in File /\ f.state = "live" /\ f.size = file[h].size /\ f.mapped = 0 /\ f.size \in Nat
    BY <1>1, <1>6 DEF File, Flush
  <2>2. bytes \in Seq(ByteValues) /\ Len(bytes) = f.size
    BY <1>1, <2>1, SetLenIs
  <2>3. Update(h, f, bytes) /\ Untouched /\ exists
    BY <1>6 DEF Flush, FileType
  <2> HIDE DEF f, bytes
  <2>4. UpdatesTo(h, f, bytes)
    BY <2>1, <2>3, UntouchedCuts DEF UpdatesTo
  <2> QED BY <2>1, <2>2, <2>4, UpdateFits
<1>7. CASE LetGo(h)
  <2>1. InUse' = InUse \ {h} /\ (InUse' # {} => shared' = shared)
    BY <1>7, LetGoIs
  <2>2. ~shared' => InUse' = {}
    BY <1>7, <2>1 DEF Alone, InUse, LetGo
  <2> QED BY <2>2 DEF GrowthInv
<1>8. CASE Write(h)
  BY <1>4, <1>8, WriteGrows DEF Write
<1>9. CASE Reserve(h)
  BY <1>4, <1>9, ReserveGrows DEF Reserve
<1>10. CASE Truncate(h)
  BY <1>4, <1>5, <1>10, TruncateGrows DEF Truncate
<1> QED BY <1>2, <1>3, <1>6, <1>7, <1>8, <1>9, <1>10 DEF Step

LEMMA GrowthStays == FileInv /\ GrowthInv /\ [Next]_vars => GrowthInv'
BY StepFits DEF Next, vars, GrowthInv, MapFits, InUse

-----------------------------------------------------------------------------
(* What holds of every execution of the handles.                           *)

\* The handles' invariant.
THEOREM FilesInvariant == Spec => [](FileInv /\ GrowthInv)
<1>1. FileInv /\ GrowthInv /\ [Next]_vars => FileInv' /\ GrowthInv'
  BY FileStays, GrowthStays
<1> QED BY <1>1, FileInitially, PTL DEF Spec

LEMMA TypesHold == FileType => TypeOK
BY DEF FileType, TypeOK

\* As long as nobody writes, any number of handles hold the whole file, and
\* none panics or dies; and a handle used alone panics only after it cut the
\* file, whatever the lengths and the growth.
THEOREM FilesAreSharedSafely == Spec => []SharingIsSafe
<1>1. FileInv /\ GrowthInv => SharingIsSafe
  <2> SUFFICES ASSUME FileInv, GrowthInv PROVE SharingIsSafe
    OBVIOUS
  <2>1. TypeOK /\ ReadersShareSafely
    BY TypesHold DEF FileInv, Readers, MapFits, ReadersShareSafely
  <2>2. NeverPanics
    BY DEF GrowthInv, MapFits, NeverPanics, InUse
  <2> QED BY <2>1, <2>2 DEF SharingIsSafe
<1> QED BY <1>1, FilesInvariant, PTL

\* The promise of IOBase the run file_growth finds broken holds until a cut:
\* the file of a handle used alone is never shorter than its value.
THEOREM ValuesFitTheFile == Spec => [](~cut => FileHoldsTheValue)
<1>1. GrowthInv => (~cut => FileHoldsTheValue)
  <2> SUFFICES ASSUME GrowthInv, ~cut, ~shared, NEW h \in Handles, file[h].state = "live"
               PROVE  Len(disk) >= file[h].size
    BY DEF FileHoldsTheValue
  <2>1. h \in InUse
    BY DEF InUse
  <2>2. MapFits(h)
    BY <2>1 DEF GrowthInv
  <2>3. Len(disk) >= file[h].size <=> file[h].size <= Len(disk)
    OBVIOUS
  <2> QED BY <2>2, <2>3 DEF MapFits
<1> QED BY <1>1, FilesInvariant, PTL
-----------------------------------------------------------------------------
(* A file used by one handle after the other is a byte store.              *)

LEMMA CurrentIs ==
    ASSUME NEW h \in Handles, InUse \subseteq {h}
    PROVE  Current = IF file[h].state = "lazy" THEN disk ELSE SetLen(disk, file[h].size)
<1>1. CASE h \in InUse
  <2>1. InUse = {h} /\ (CHOOSE g \in InUse : TRUE) = h
    BY <1>1
  <2> QED BY <1>1, <2>1 DEF Current, Contents, InUse
<1>2. CASE h \notin InUse
  BY <1>2 DEF Current, InUse
<1> QED BY <1>1, <1>2

\* What a handle used alone reads, opened or not: its size of the file's bytes.
LEMMA OpenedReads ==
    ASSUME FileInv, NEW h \in Handles, Usable(h), InUse \subseteq {h}
    PROVE  Current = SetLen(disk, Opened(h).size)
<1>1. FileType /\ Len(disk) \in Nat /\ disk \in Seq(ByteValues)
  BY DEF FileInv, FileType
<1>2. CASE file[h].state = "live"
  BY <1>1, <1>2, CurrentIs, OpenedIs
<1>3. CASE file[h].state # "live"
  <2>1. Current = disk /\ Opened(h).size = Len(disk)
    BY <1>1, <1>3, CurrentIs, OpenedIs
  <2>2. disk = SetLen(disk, Len(disk))
    BY <1>1, SetLenIs
  <2> QED BY <2>1, <2>2
<1> QED BY <1>2, <1>3

\* What a handle used alone reads after its step.
LEMMA UpdateReads ==
    ASSUME FileType, Alone, NEW h \in Handles, NEW f, NEW bytes, Update(h, f, bytes),
           f.state # "lazy", ~shared'
    PROVE  /\ ~shared /\ InUse \subseteq {h}
           /\ Current' = SetLen(bytes, f.size)
<1>1. ~shared /\ InUse' \subseteq {h} /\ InUse \subseteq {h}
  BY UpdateAlone
<1>2. file'[h] = f /\ disk' = bytes
  BY UpdateIs
<1>3. h \in InUse' /\ InUse' = {h}
  BY <1>1, <1>2 DEF InUse
<1>4. (CHOOSE g \in InUse' : TRUE) = h
  BY <1>3
<1>5. Current' = Contents(h)'
  BY <1>3, <1>4 DEF Current
<1> QED BY <1>1, <1>2, <1>5 DEF Contents

\* A mapping that cuts nothing begins with what the handle reads.
LEMMA RemapKeeps ==
    ASSUME FileInv, GrowthInv, ~shared, ~cut, NEW h \in Handles, Usable(h),
           NEW n \in Nat, ~Cuts(Opened(h), n)
    PROVE  LET size == Opened(h).size
               grown == Remap(Opened(h), n).bytes
           IN /\ size \in Nat /\ size <= Len(disk) /\ grown \in Seq(ByteValues)
              /\ size <= Len(grown) /\ n <= Len(grown)
              /\ \A k \in 1..size : grown[k] = disk[k]
<1> DEFINE o == Opened(h)
           grown == Remap(o, n).bytes
<1>1. FileType /\ Len(disk) \in Nat /\ disk \in Seq(ByteValues)
  BY DEF FileInv, FileType
<1>2. /\ o \in File
      /\ o.size <= Len(disk) /\ (o.mapped > 0 => o.mapped = Len(disk))
  BY <1>1, OpenedIs, OpenedFits
<1>4. o.size <= Len(grown) /\ n <= Len(grown)
  BY <1>1, <1>2, RemapFits
<1>5. grown \in Seq(ByteValues) /\ Len(grown) \in Nat
  BY <1>1, <1>2, RemapIs
<1>6. o.size \in Nat
  BY <1>2 DEF File
<1>7. grown = disk \/ grown = SetLen(disk, Len(grown))
  <2>1. \/ Remap(o, n) = [bytes |-> disk, mapped |-> o.mapped]
        \/ /\ grown = SetLen(disk, Remap(o, n).mapped)
           /\ Len(grown) = Remap(o, n).mapped
    BY <1>1, <1>2, RemapIs
  <2>2. ASSUME Remap(o, n) = [bytes |-> disk, mapped |-> o.mapped] PROVE grown = disk
    <3> HIDE DEF o
    <3> QED BY <2>2
  <2> QED BY <2>1, <2>2
<1> HIDE DEF grown, o
<1>8. \A k \in 1..o.size : grown[k] = disk[k]
  <2>1. \A k \in 1..Len(grown) : SetLen(disk, Len(grown))[k] = IF k <= Len(disk) THEN disk[k] ELSE 0
    BY <1>1, <1>5, SetLenIs
  <2>2. \A k \in 1..o.size : k \in 1..Len(grown) /\ k <= Len(disk)
    BY <1>1, <1>2, <1>4, <1>5, <1>6
  <2> QED BY <1>7, <2>1, <2>2
<1> QED BY <1>2, <1>4, <1>5, <1>6, <1>8 DEF grown, o

\* A truncation's value is the one before, cut or zero-filled.
LEMMA GrownIsResized ==
    ASSUME NEW bytes \in Seq(ByteValues), NEW grown \in Seq(ByteValues), NEW size \in Nat, NEW n \in Nat,
           size <= Len(bytes), n > size, n <= Len(grown),
           \A k \in 1..size : grown[k] = bytes[k]
    PROVE  SetLen(Store(grown, size, Zeros(n - size)), n) = Bytes!Resized(SetLen(bytes, size), n)
<1> DEFINE stored == Store(grown, size, Zeros(n - size))
           value == SetLen(bytes, size)
<1>1. n - size \in Nat
  OBVIOUS
<1>2. Zeros(n - size) \in Seq(ByteValues) /\ Len(Zeros(n - size)) = n - size
      /\ \A k \in 1..(n - size) : Zeros(n - size)[k] = 0
  BY <1>1, ZerosAre
<1>3. /\ stored \in Seq(ByteValues) /\ Len(stored) = Len(grown)
      /\ \A k \in 1..Len(grown) : stored[k] =
            IF k > size /\ k <= size + (n - size) THEN Zeros(n - size)[k - size] ELSE grown[k]
  BY <1>2, StoreIs
<1>4. value \in Seq(ByteValues) /\ Len(value) = size /\ \A k \in 1..size : value[k] = bytes[k]
  BY SetLenIs
<1> HIDE DEF stored, value
<1>5. ASSUME NEW k \in 1..n
      PROVE  (IF k <= Len(stored) THEN stored[k] ELSE 0) = IF k <= Len(value) THEN value[k] ELSE 0
  <2>1. k <= Len(stored) /\ k \in 1..Len(grown)
    BY <1>3
  <2>2. CASE k <= size
    BY <1>3, <1>4, <2>1, <2>2
  <2>3. CASE k > size
    <3>1. k - size \in 1..(n - size)
      BY <2>3
    <3> QED BY <1>2, <1>3, <1>4, <2>1, <2>3, <3>1
  <2> QED BY <2>2, <2>3
<1> QED BY <1>5 DEF SetLen, Bytes!Resized, stored, value

LEMMA CutIsResized ==
    ASSUME NEW bytes \in Seq(ByteValues), NEW size \in Nat, NEW n \in Nat, n <= size
    PROVE  SetLen(bytes, n) = Bytes!Resized(SetLen(bytes, size), n)
<1> DEFINE value == SetLen(bytes, size)
<1>1. Len(value) = size /\ \A k \in 1..size : value[k] = IF k <= Len(bytes) THEN bytes[k] ELSE 0
  BY SetLenIs
<1> HIDE DEF value
<1>2. \A k \in 1..n : (IF k <= Len(bytes) THEN bytes[k] ELSE 0) = IF k <= Len(value) THEN value[k] ELSE 0
  BY <1>1
<1> QED BY <1>2 DEF SetLen, Bytes!Resized, value

\* A write's value is the one before with the bytes laid over it.
LEMMA StoredIsOverlaid ==
    ASSUME NEW bytes \in Seq(ByteValues), NEW grown \in Seq(ByteValues), NEW size \in Nat,
           NEW offset \in Nat, NEW new \in Seq(ByteValues),
           size <= Len(bytes), size <= Len(grown), offset + Len(new) <= Len(grown),
           \A k \in 1..size : grown[k] = bytes[k]
    PROVE  SetLen(Store(IF offset > size THEN Store(grown, size, Zeros(offset - size)) ELSE grown,
                        offset, new),
                  Larger(size, offset + Len(new)))
             = Bytes!Overlaid(SetLen(bytes, size), offset, new)
<1> DEFINE cleared == IF offset > size THEN Store(grown, size, Zeros(offset - size)) ELSE grown
           stored == Store(cleared, offset, new)
           value == SetLen(bytes, size)
           end == offset + Len(new)
           n == Larger(size, end)
           room == Bytes!Resized(value, IF end > Len(value) THEN end ELSE Len(value))
<1>1. end \in Nat /\ n \in Nat /\ n <= Len(grown) /\ n >= size /\ n >= end /\ (n = size \/ n = end)
  BY DEF Larger
<1>2. value \in Seq(ByteValues) /\ Len(value) = size /\ \A k \in 1..size : value[k] = bytes[k]
  BY SetLenIs
<1>3. /\ cleared \in Seq(ByteValues) /\ Len(cleared) = Len(grown)
      /\ \A k \in 1..Len(grown) : /\ k <= size => cleared[k] = grown[k]
                                  /\ k > size /\ k <= offset => cleared[k] = 0
  <2>1. CASE offset > size
    <3>1. offset - size \in Nat
      BY <2>1
    <3> DEFINE z == Zeros(offset - size)
    <3>2. z \in Seq(ByteValues) /\ Len(z) = offset - size /\ \A k \in 1..(offset - size) : z[k] = 0
      BY <3>1, ZerosAre
    <3>3. cleared = Store(grown, size, z)
      BY <2>1
    <3> HIDE DEF z
    <3>4. /\ cleared \in Seq(ByteValues) /\ Len(cleared) = Len(grown)
          /\ \A k \in 1..Len(grown) : cleared[k] =
                IF k > size /\ k <= size + Len(z) THEN z[k - size] ELSE grown[k]
      BY <3>2, <3>3, StoreIs
    <3> HIDE DEF cleared
    <3>5. \A k \in 1..Len(grown) : k > size /\ k <= offset => k - size \in 1..(offset - size)
      BY <2>1
    <3>6. size + Len(z) = offset
      BY <2>1, <3>2
    <3>7. ASSUME NEW k \in 1..Len(grown)
          PROVE  /\ k <= size => cleared[k] = grown[k]
                 /\ k > size /\ k <= offset => cleared[k] = 0
      <4>1. cleared[k] = IF k > size /\ k <= offset THEN z[k - size] ELSE grown[k]
        BY <3>4, <3>6
      <4>2. k > size /\ k <= offset => z[k - size] = 0
        BY <3>2, <3>5
      <4> QED BY <4>1, <4>2
    <3> QED BY <3>4, <3>7
  <2>2. CASE ~(offset > size)
    <3>1. cleared = grown
      BY <2>2
    <3> QED BY <2>2, <3>1
  <2> QED BY <2>1, <2>2
<1> HIDE DEF cleared
<1>4. /\ stored \in Seq(ByteValues) /\ Len(stored) = Len(grown)
      /\ \A k \in 1..Len(grown) : stored[k] =
            IF k > offset /\ k <= offset + Len(new) THEN new[k - offset] ELSE cleared[k]
  BY <1>3, StoreIs
<1> HIDE DEF stored, value
<1>5. /\ DOMAIN room = 1..n
      /\ \A k \in 1..n : room[k] = IF k <= size THEN value[k] ELSE 0
  <2>1. (IF end > Len(value) THEN end ELSE Len(value)) = n
    BY <1>1, <1>2 DEF Larger
  <2>2. room = [k \in 1..n |-> IF k <= Len(value) THEN value[k] ELSE 0]
    BY <2>1 DEF Bytes!Resized
  <2> HIDE DEF room, n
  <2> QED BY <1>2, <2>2
<1>6. Bytes!Overlaid(value, offset, new)
        = [k \in DOMAIN room |-> IF k > offset /\ k <= end THEN new[k - offset] ELSE room[k]]
  BY DEF Bytes!Overlaid
<1>7. SetLen(stored, n) = [k \in 1..n |-> IF k <= Len(stored) THEN stored[k] ELSE 0]
  BY DEF SetLen
<1> HIDE DEF room, n
<1>8. ASSUME NEW k \in 1..n
      PROVE  (IF k <= Len(stored) THEN stored[k] ELSE 0)
               = IF k > offset /\ k <= end THEN new[k - offset] ELSE room[k]
  <2>1. k \in 1..Len(grown) /\ k <= Len(stored)
    BY <1>1, <1>4
  <2>2. CASE k > offset /\ k <= end
    BY <1>4, <2>1, <2>2
  <2>3. CASE ~(k > offset /\ k <= end)
    <3>1. stored[k] = cleared[k]
      BY <1>4, <2>1, <2>3
    <3>2. CASE k <= size
      BY <1>2, <1>3, <1>5, <2>1, <2>3, <3>1, <3>2
    <3>3. CASE k > size
      <4>1. k <= offset
        BY <1>1, <2>3, <3>3
      <4> QED BY <1>3, <1>5, <2>1, <2>3, <3>1, <3>3, <4>1
    <3> QED BY <3>2, <3>3
  <2> QED BY <2>2, <2>3
<1> HIDE DEF end
<1>9. SetLen(stored, n) = Bytes!Overlaid(value, offset, new)
  BY <1>5, <1>6, <1>7, <1>8
<1> QED BY <1>9 DEF stored, cleared, value, n, end
LEMMA Unchanged ==
    ASSUME NEW bytes \in Seq(ByteValues), NEW n \in Nat, Len(bytes) = n
    PROVE  SetLen(bytes, n) = bytes
<1>1. bytes = SetLen(bytes, Len(bytes))
  BY SetLenIs
<1> QED BY <1>1

LEMMA Regrown ==
    ASSUME NEW bytes \in Seq(ByteValues), NEW grown \in Seq(ByteValues), NEW size \in Nat,
           size <= Len(bytes), size <= Len(grown), \A k \in 1..size : grown[k] = bytes[k]
    PROVE  SetLen(grown, size) = SetLen(bytes, size)
<1>1. \A k \in 1..size : (IF k <= Len(grown) THEN grown[k] ELSE 0) = IF k <= Len(bytes) THEN bytes[k] ELSE 0
  OBVIOUS
<1> QED BY <1>1 DEF SetLen

\* What one handle does, used alone and cutting nothing, is what a byte store
\* does, or nothing.
LEMMA StepIsOfBytes ==
    ASSUME FileInv, GrowthInv, NEW h \in Handles, Step(h), ~shared, ~shared', ~cut, ~cut'
    PROVE  Bytes!Next \/ Current' = Current
<1>1. /\ FileType /\ Alone /\ disk \in Seq(ByteValues) /\ Len(disk) \in Nat /\ file[h] \in File
      /\ MaxLen \in Nat
  BY LocalFileAssumption DEF FileInv, FileType
<1>2. ASSUME Usable(h), InUse \subseteq {h}
      PROVE  /\ Current = SetLen(disk, Opened(h).size)
             /\ Opened(h) \in File /\ Opened(h).state = "live" /\ Opened(h).size \in Nat
             /\ Opened(h).size <= Len(disk)
             /\ Opened(h).mapped > 0 => Opened(h).mapped = Len(disk)
  BY <1>1, <1>2, OpenedReads, OpenedIs, OpenedFits DEF File
<1> DEFINE o == Opened(h)
<1>3. CASE Open(h)
  <2>1. Usable(h) /\ Update(h, o, disk)
    BY <1>3 DEF Open
  <2>2. o.state # "lazy"
    BY <1>1, <2>1, OpenedIs
  <2> HIDE DEF o
  <2>3. InUse \subseteq {h} /\ Current' = SetLen(disk, o.size)
    BY <1>1, <2>1, <2>2, UpdateReads
  <2> QED BY <1>2, <2>1, <2>3 DEF o
<1>4. CASE Read(h)
  <2>1. Usable(h)
    BY <1>4 DEF Read
  <2>2. PICK f \in File : UpdatesTo(h, f, disk) /\ Untouched
           /\ \/ /\ f.size = o.size /\ f.state = "live"
                 /\ f.mapped = IF o.mapped > 0 \/ f.size = 0 THEN o.mapped ELSE Len(disk)
              \/ /\ o.mapped > 0 => o.mapped < o.size
                 /\ o.mapped = 0 => Len(disk) < o.size
                 /\ f.size = o.size
                 /\ f.mapped \in {o.mapped, Len(disk)}
              \/ /\ o.size > Len(disk)
                 /\ f.size = file[h].size /\ f.mapped = file[h].mapped
    BY <1>1, <1>4, ReadUpdates
  <2>3. InUse \subseteq {h} /\ Current' = SetLen(disk, f.size)
    BY <1>1, <2>2, UpdateReads DEF UpdatesTo
  <2>4. o.mapped \in Nat
    BY <1>2, <2>1, <2>3 DEF File
  <2>5. f.size = o.size
    BY <1>1, <1>2, <2>1, <2>2, <2>3, <2>4
  <2> QED BY <1>2, <2>1, <2>3, <2>5
<1>5. CASE Write(h)
  <2>1. Usable(h)
    BY <1>5 DEF Write
  <2>2. PICK new \in Written, offset \in 0..MaxLen :
          LET end == offset + Len(new)
              grown == Remap(o, end)
              cleared == IF offset > o.size
                         THEN Store(grown.bytes, o.size, Zeros(offset - o.size))
                         ELSE grown.bytes
          IN /\ end <= MaxLen /\ Growing(h, end)
             /\ \/ Update(h, [o EXCEPT !.mapped = grown.mapped, !.size = Larger(o.size, end)],
                          Store(cleared, offset, new))
                \/ Sigbus(h, end, grown.bytes)
    BY <1>5 DEF Write
  <2> DEFINE end == offset + Len(new)
             grown == Remap(o, end)
             cleared == IF offset > o.size
                        THEN Store(grown.bytes, o.size, Zeros(offset - o.size))
                        ELSE grown.bytes
             f == [o EXCEPT !.mapped = grown.mapped, !.size = Larger(o.size, end)]
             bytes == Store(cleared, offset, new)
  <2>3. offset \in Nat /\ end \in 0..MaxLen /\ end \in Nat /\ new \in Seq(ByteValues)
    BY <1>1, <2>2, WrittenAreBytes
  <2>14. ~Cuts(o, end)
    BY <1>1, <2>2, GrowingCuts
  <2>4. ~shared' /\ (Update(h, f, bytes) \/ Sigbus(h, end, grown.bytes))
    BY <2>2
  <2>5. InUse \subseteq {h}
    <3>1. ASSUME NEW x, NEW y, Update(h, x, y) PROVE InUse \subseteq {h}
      BY <1>1, <3>1, UpdateAlone
    <3> QED BY <2>4, <3>1 DEF Sigbus
  <2>6. /\ o.size \in Nat /\ o.size <= Len(disk) /\ grown.bytes \in Seq(ByteValues)
        /\ o.size <= Len(grown.bytes) /\ end <= Len(grown.bytes)
        /\ \A k \in 1..o.size : grown.bytes[k] = disk[k]
    BY <2>1, <2>3, <2>14, RemapKeeps
  <2>7. Update(h, f, bytes)
    BY <1>1, <2>3, <2>4, <2>6 DEF Sigbus
  <2>8. SetLen(bytes, Larger(o.size, end)) = Bytes!Overlaid(SetLen(disk, o.size), offset, new)
    <3> DEFINE g == grown.bytes
               size == o.size
    <3>1. /\ size \in Nat /\ size <= Len(disk) /\ g \in Seq(ByteValues)
          /\ size <= Len(g) /\ offset + Len(new) <= Len(g)
          /\ \A k \in 1..size : g[k] = disk[k]
      BY <2>6
    <3>2. bytes = Store(IF offset > size THEN Store(g, size, Zeros(offset - size)) ELSE g, offset, new)
      OBVIOUS
    <3> HIDE DEF g, size, bytes
    <3>3. SetLen(bytes, Larger(size, offset + Len(new))) = Bytes!Overlaid(SetLen(disk, size), offset, new)
      BY <1>1, <2>3, <3>1, <3>2, StoredIsOverlaid
    <3> QED BY <3>3 DEF size
  <2>9. o \in File /\ o.state = "live" /\ Current = SetLen(disk, o.size)
    BY <1>2, <2>1, <2>5
  <2> HIDE DEF o, bytes
  <2>10. f.state = "live" /\ f.size = Larger(o.size, end)
    BY <2>9 DEF File
  <2> HIDE DEF f
  <2>11. Current' = Bytes!Overlaid(Current, offset, new)
    BY <1>1, <2>7, <2>8, <2>9, <2>10, UpdateReads
  <2>12. end <= MaxLen
    BY <1>1, <2>3
  <2>13. Bytes!Write
    BY <2>2, <2>11, <2>12 DEF Bytes!Write, Bytes!Becomes
  <2> QED BY <2>13 DEF Bytes!Next
<1>6. CASE Truncate(h)
  <2>1. Usable(h)
    BY <1>6 DEF Truncate
  <2>2. PICK n \in 0..MaxLen :
          LET grown == Remap(o, n) IN
          IF n > o.size
          THEN \/ Update(h, [o EXCEPT !.mapped = grown.mapped, !.size = n],
                         Store(grown.bytes, o.size, Zeros(n - o.size)))
               \/ Sigbus(h, n, grown.bytes)
          ELSE Update(h, [o EXCEPT !.size = n], disk)
    BY <1>6 DEF Truncate
  <2> DEFINE grown == Remap(o, n)
  <2>3. InUse \subseteq {h}
    <3>1. ASSUME NEW x, NEW y, Update(h, x, y) PROVE InUse \subseteq {h}
      BY <1>1, <3>1, UpdateAlone
    <3> QED BY <2>2, <3>1 DEF Sigbus
  <2>5. /\ o \in File /\ o.state = "live" /\ Current = SetLen(disk, o.size) /\ n \in Nat
        /\ o.size \in Nat /\ o.size <= Len(disk)
    BY <1>1, <1>2, <2>1, <2>3
  <2>9. n > o.size => ~Cuts(o, n)
    BY <1>1, <2>5, LocalFileAssumption DEF Cuts, Larger
  <2>4. n > o.size => /\ grown.bytes \in Seq(ByteValues)
                      /\ o.size <= Len(grown.bytes) /\ n <= Len(grown.bytes)
                      /\ \A k \in 1..o.size : grown.bytes[k] = disk[k]
    BY <2>1, <2>5, <2>9, RemapKeeps
  <2>6. n > o.size => ~(n > Len(grown.bytes))
    BY <2>4, <2>5
  <2>7. Current' = Bytes!Resized(Current, n)
    <3>1. CASE n > o.size
      <4> DEFINE f == [o EXCEPT !.mapped = grown.mapped, !.size = n]
                 bytes == Store(grown.bytes, o.size, Zeros(n - o.size))
      <4>1. Update(h, f, bytes)
        BY <2>2, <2>6, <3>1 DEF Sigbus
      <4>2. SetLen(bytes, n) = Bytes!Resized(SetLen(disk, o.size), n)
        BY <1>1, <2>4, <2>5, <3>1, GrownIsResized
      <4> HIDE DEF bytes, o
      <4>3. f.state = "live" /\ f.size = n
        BY <2>5 DEF File
      <4> HIDE DEF f
      <4> QED BY <1>1, <2>5, <4>1, <4>2, <4>3, UpdateReads
    <3>2. CASE ~(n > o.size)
      <4> DEFINE f == [o EXCEPT !.size = n]
      <4>1. Update(h, f, disk)
        BY <2>2, <3>2
      <4>2. SetLen(disk, n) = Bytes!Resized(SetLen(disk, o.size), n)
        BY <1>1, <2>4, <2>5, <3>2, CutIsResized
      <4> HIDE DEF o
      <4>3. f.state = "live" /\ f.size = n
        BY <2>5 DEF File
      <4> HIDE DEF f
      <4> QED BY <1>1, <2>5, <4>1, <4>2, <4>3, UpdateReads
    <3> QED BY <3>1, <3>2
  <2>8. Bytes!Truncate
    BY <2>7 DEF Bytes!Truncate, Bytes!Becomes
  <2> QED BY <2>8 DEF Bytes!Next
<1>7. CASE Reserve(h)
  <2>1. Usable(h)
    BY <1>7 DEF Reserve
  <2>2. PICK n \in 0..MaxLen :
          /\ Growing(h, n)
          /\ Update(h, [o EXCEPT !.mapped = Remap(o, n).mapped], Remap(o, n).bytes)
    BY <1>7 DEF Reserve
  <2> DEFINE grown == Remap(o, n)
             f == [o EXCEPT !.mapped = grown.mapped]
  <2>3. InUse \subseteq {h}
    BY <1>1, <2>2, UpdateAlone
  <2>4. /\ o.size \in Nat /\ o.size <= Len(disk) /\ grown.bytes \in Seq(ByteValues)
        /\ o.size <= Len(grown.bytes)
        /\ \A k \in 1..o.size : grown.bytes[k] = disk[k]
    BY <1>1, <2>1, <2>2, GrowingCuts, RemapKeeps
  <2>5. SetLen(grown.bytes, o.size) = SetLen(disk, o.size)
    BY <1>1, <2>4, Regrown
  <2>6. o \in File /\ o.state = "live" /\ Current = SetLen(disk, o.size) /\ Update(h, f, grown.bytes)
    BY <1>2, <2>1, <2>2, <2>3
  <2> HIDE DEF o, grown
  <2>7. f.state = "live" /\ f.size = o.size
    BY <2>6 DEF File
  <2> HIDE DEF f
  <2>8. Current' = SetLen(grown.bytes, o.size)
    BY <1>1, <2>6, <2>7, UpdateReads
  <2> QED BY <2>5, <2>6, <2>8
<1>8. CASE Flush(h)
  <2> DEFINE f == [file[h] EXCEPT !.mapped = 0]
             bytes == SetLen(disk, file[h].size)
  <2>1. Usable(h) /\ file[h].state = "live" /\ Update(h, f, bytes)
    BY <1>8 DEF Flush
  <2>2. f.state = "live" /\ f.size = file[h].size /\ f.size \in Nat
    BY <1>1, <2>1 DEF File
  <2>3. bytes \in Seq(ByteValues) /\ Len(bytes) = f.size
    BY <1>1, <2>2, SetLenIs
  <2> HIDE DEF f, bytes
  <2>4. InUse \subseteq {h} /\ Current' = SetLen(bytes, f.size)
    BY <1>1, <2>1, <2>2, UpdateReads
  <2>5. Current = bytes
    BY <2>1, <2>4, CurrentIs DEF bytes
  <2>6. SetLen(bytes, f.size) = bytes
    BY <2>2, <2>3, Unchanged
  <2> QED BY <2>4, <2>5, <2>6
<1>9. CASE LetGo(h)
  <2>1. h \in InUse
    BY <1>9 DEF LetGo, InUse
  <2>2. InUse = {h} /\ file[h].state = "live"
    BY <1>1, <2>1 DEF Alone, GrowthInv, MapFits, InUse
  <2>3. Current = SetLen(disk, file[h].size)
    BY <2>2, CurrentIs
  <2>4. InUse' = {} /\ disk' = SetLen(disk, file[h].size)
    BY <1>1, <1>9, <2>2, LetGoIs
  <2>5. Current' = disk'
    BY <2>4 DEF Current
  <2> QED BY <2>3, <2>4, <2>5
<1> QED BY <1>3, <1>4, <1>5, <1>6, <1>7, <1>8, <1>9 DEF Step

\* A file used by one handle after the other is a byte store until a handle
\* cuts it, for every set of handles, every growth and all lengths: neither
\* mapping and growing, nor shrinking, flushing and letting go changes what is
\* read, and what a write or a truncation does is what the byte store's does.
THEOREM FilesImplementByteStore == Spec => ImplementsByteStore
<1>1. Init => Bytes!Init
  <2> SUFFICES ASSUME Init PROVE Bytes!Init
    OBVIOUS
  <2>1. InUse = {}
    BY DEF Init, InUse, Lazy
  <2>2. Current = disk
    BY <2>1 DEF Current
  <2> QED BY <2>2 DEF Init, Bytes!Init, ByteValues
<1>2. FileInv /\ GrowthInv /\ [Next]_vars
        => [shared \/ shared' \/ cut \/ cut' \/ Bytes!Next]_<<Bytes!vars, shared, cut>>
  <2> SUFFICES ASSUME FileInv, GrowthInv, [Next]_vars, ~shared, ~shared', ~cut, ~cut'
               PROVE  Bytes!Next \/ UNCHANGED <<Bytes!vars, shared, cut>>
    OBVIOUS
  <2>1. FileInv' /\ shared' = shared /\ cut' = cut
    BY FileStays DEF FileInv, FileType
  <2>2. Current' = Current => UNCHANGED <<Bytes!vars, shared, cut>>
    BY <2>1 DEF Bytes!vars
  <2>3. CASE UNCHANGED vars
    BY <2>2, <2>3 DEF vars, Current, InUse, Contents
  <2>4. ASSUME NEW h \in Handles, Step(h) PROVE Bytes!Next \/ Current' = Current
    BY <2>4, StepIsOfBytes
  <2> QED BY <2>2, <2>3, <2>4 DEF Next
<1> QED BY <1>1, <1>2, FilesInvariant, PTL DEF Spec, ImplementsByteStore
-----------------------------------------------------------------------------
(* A path's steps are its file's steps.                                    *)

\* Whatever the path resolves to, all it does to the file are the steps of a
\* handle: what holds of handles on a file holds of a path and other handles.
THEOREM PathsUseFiles == PathSpec => Spec
<1>1. PathInit => Init
  BY DEF PathInit
<1>2. [PathNext]_allVars => [Next]_vars
  <2> SUFFICES ASSUME [PathNext]_allVars PROVE [Next]_vars
    OBVIOUS
  <2>1. CASE UNCHANGED allVars
    BY <2>1 DEF allVars
  <2>2. CASE Look
    BY <2>2 DEF Look
  <2>3. CASE PathRead
    BY <2>3, PathAssumption DEF PathRead, Refused, Next, Step
  <2>4. CASE PathWrite
    BY <2>4, PathAssumption DEF PathWrite, Refused, Next, Step
  <2>5. CASE PathTruncate
    BY <2>5, PathAssumption DEF PathTruncate, Next, Step, allVars
  <2>6. CASE PathHandled
    BY <2>6, PathAssumption DEF PathHandled, Refused, Next, Step
  <2>7. CASE PathDropped
    BY <2>7, PathAssumption DEF PathDropped, Next, Step
  <2>8. CASE Another
    BY <2>8 DEF Another, Next
  <2>9. CASE FolderMade \/ FolderRemoved
    BY <2>9 DEF FolderMade, FolderRemoved
  <2> QED BY <2>1, <2>2, <2>3, <2>4, <2>5, <2>6, <2>7, <2>8, <2>9 DEF PathNext
<1> QED BY <1>1, <1>2, PTL DEF PathSpec, Spec

\* What a path that looked, or wrote, resolved to is still there.
StillThere ==
    settled \notin {"handled", "removed"} =>
        /\ slot = "file" => exists
        /\ slot = "folder" => folder

PathInv == PathTypeOK /\ folder \in BOOLEAN /\ StillThere

\* A file that exists stays, and a step of a handle leaves the others alone.
LEMMA StepKeepsFile ==
    ASSUME FileType, NEW h \in Handles, Step(h)
    PROVE  /\ exists => exists'
           /\ \A g \in Handles \ {h} : file'[g] = file[g]
<1>1. CASE LetGo(h)
  BY <1>1 DEF LetGo, FileType
<1>2. CASE ~LetGo(h)
  <2>1. PICK f \in File, bytes \in Seq(ByteValues) : UpdatesTo(h, f, bytes)
    BY <1>2, StepUpdates
  <2>2. \A g \in Handles \ {h} : file'[g] = file[g]
    BY <2>1, UpdateIs DEF UpdatesTo
  <2> QED BY <2>1, <2>2 DEF UpdatesTo, Untouched, Touched
<1> QED BY <1>1, <1>2

LEMMA PathStays == FileInv /\ PathInv /\ [PathNext]_allVars => PathInv'
<1> SUFFICES ASSUME FileInv, PathInv, [PathNext]_allVars PROVE PathInv'
  OBVIOUS
<1> USE DEF PathInv, PathTypeOK, StillThere
<1>1. FileType /\ exists \in BOOLEAN
  BY DEF FileInv, FileType
<1>2. CASE UNCHANGED allVars
  BY <1>2 DEF allVars, vars, pathVars
<1>3. ASSUME Resolve, UNCHANGED vars PROVE PathInv'
  BY <1>3 DEF Resolve, Settle, Kind, vars
<1>4. CASE PathRead
  <2>1. CASE slot' = "file" /\ ~folder /\ exists /\ Read(Leaf)
    <3>1. exists'
      BY <1>1, <2>1, PathAssumption, StepKeepsFile DEF Step
    <3> QED BY <1>4, <2>1, <3>1 DEF PathRead, Resolve, Settle, Kind
  <2>2. CASE UNCHANGED vars
    BY <1>3, <1>4, <2>2 DEF PathRead
  <2> QED BY <1>4, <2>1, <2>2 DEF PathRead, Refused
<1>5. CASE PathWrite
  <2>1. CASE slot' = "file" /\ ~folder /\ (Write(Leaf) \/ Reserve(Leaf))
    <3>1. exists'
      BY <2>1 DEF Write, Reserve, Touched
    <3> QED BY <1>5, <2>1, <3>1 DEF PathWrite, ResolveMut, Settle, Kind
  <2>2. CASE ~(slot' = "file" /\ ~folder) /\ UNCHANGED vars
    BY <1>5, <2>2 DEF PathWrite, ResolveMut, Settle, Kind, vars
  <2> QED BY <1>5, <2>1, <2>2 DEF PathWrite, Refused
<1>6. CASE PathTruncate
  <2>1. CASE UNCHANGED allVars
    BY <2>1 DEF allVars, vars, pathVars
  <2>2. CASE ~folder /\ ResolveMut("written") /\ slot' = "file" /\ Truncate(Leaf)
    <3>1. exists'
      BY <2>2 DEF Truncate, Touched
    <3> QED BY <2>2, <3>1 DEF ResolveMut, Settle, Kind
  <2>3. CASE slot = "folder" /\ folder' = ~exists /\ UNCHANGED <<vars, slot, settled>> /\ ~folder
    BY <1>1, <2>3 DEF vars
  <2> QED BY <1>6, <2>1, <2>2, <2>3 DEF PathTruncate
<1>7. CASE PathHandled
  <2>1. CASE slot' = "file" /\ ~folder /\ (Open(Leaf) \/ Flush(Leaf) \/ LetGo(Leaf))
    <3>1. exists => exists'
      BY <1>1, <2>1, PathAssumption, StepKeepsFile DEF Step
    <3>2. exists' = exists
      BY <2>1 DEF Open, Flush, LetGo, Untouched
    <3> QED BY <1>7, <2>1, <3>1, <3>2 DEF PathHandled, ResolveMut, Settle, Kind
  <2>2. CASE UNCHANGED vars
    BY <1>7, <2>2 DEF PathHandled, ResolveMut, Settle, Kind, vars
  <2> QED BY <1>7, <2>1, <2>2 DEF PathHandled, Refused
<1>8. CASE PathDropped
  <2>1. file'[Leaf] = Lazy
    BY <1>1, <1>8, PathAssumption DEF PathDropped, LetGo, FileType, vars
  <2>2. exists' = exists
    BY <1>8 DEF PathDropped, LetGo, vars
  <2> QED BY <1>8, <2>1, <2>2 DEF PathDropped
<1>9. CASE Another
  <2>1. PICK h \in Handles \ {Leaf} : Step(h)
    BY <1>9 DEF Another
  <2>2. (exists => exists') /\ file'[Leaf] = file[Leaf]
    BY <1>1, <2>1, PathAssumption, StepKeepsFile
  <2> QED BY <1>9, <2>2 DEF Another, pathVars
<1>10. CASE FolderMade
  BY <1>10 DEF FolderMade, Kind, vars
<1>11. CASE FolderRemoved
  BY <1>11 DEF FolderRemoved, vars
<1> QED BY <1>2, <1>3, <1>4, <1>5, <1>6, <1>7, <1>8, <1>9, <1>10, <1>11 DEF PathNext, Look

\* A path works through what is there, whoever makes it and whenever it looks,
\* unless a call settled it while nothing was or its folder was removed; and
\* it holds a leaf only once it resolved to a file.
THEOREM PathsResolve == PathSpec => []ResolutionHolds
<1>1. PathInit => PathInv
  <2> SUFFICES ASSUME PathInit PROVE PathInv
    OBVIOUS
  <2>1. file[Leaf] = Lazy /\ exists \in BOOLEAN
    BY PathAssumption DEF PathInit, Init
  <2> QED BY <2>1 DEF PathInit, PathInv, PathTypeOK, StillThere
<1>2. PathSpec => []FileInv
  BY PathsUseFiles, FilesInvariant, PTL
<1>3. PathInv => ResolutionHolds
  BY DEF PathInv, PathTypeOK, StillThere, ResolutionHolds, ResolutionFits, Kind
<1> QED BY <1>1, <1>2, <1>3, PathStays, PTL DEF PathSpec

\* So a file stays shared safely, and a byte store, when one of its handles is
\* behind a path.
THEOREM PathsAreFiles ==
    PathSpec => []SharingIsSafe /\ ImplementsByteStore
BY PathsUseFiles, FilesAreSharedSafely, FilesImplementByteStore, PTL

=============================================================================
