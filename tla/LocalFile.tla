----------------------------- MODULE LocalFile -----------------------------
(***************************************************************************)
(* Memory-mapped local files, rust/src/local/file.rs.  A handle opens the  *)
(* file lazily, remembers its logical size, maps it to read or grows it in *)
(* steps to write, and gives it back its logical length when it publishes. *)
(* The mapping is shared: what a handle stores is in the file at once.     *)
(*                                                                         *)
(* Several handles, of one process or of several, may describe one file.   *)
(* A mapping that reaches past the file's end is the hazard the module     *)
(* documents: an access there reads zeros and stores nothing, or is a      *)
(* SIGBUS that ends the process.                                           *)
(***************************************************************************)
EXTENDS Integers, Sequences

CONSTANTS
    Handles,     \* the `File` values describing the file
    Written,     \* the byte sequences a caller writes
    Growth,      \* MINIMUM_GROWTH
    MaxLen       \* bound: no operation reaches past this length

ASSUME LocalFileAssumption ==
    /\ Written \subseteq Seq(Nat)
    /\ Growth \in Nat \ {0}
    /\ MaxLen \in Nat

\* An unmapped handle has `mapped` 0: a mapping is never empty.
File == [state : {"lazy", "live", "poisoned", "dead"}, size : Nat, mapped : Nat]
Lazy == [state |-> "lazy", size |-> 0, mapped |-> 0]

VARIABLES
    exists,      \* whether the path exists
    disk,        \* the file's bytes, padding included
    file,        \* handle -> its state
    touched,     \* history: a handle wrote since all handles were lazy
    shared,      \* history: two were in use at once since all were lazy
    cut          \* history: a handle cut the file below what it had opened,
                 \* since all handles were lazy

vars == <<exists, disk, file, touched, shared, cut>>

Larger(m, n) == IF m > n THEN m ELSE n
SetLen(bytes, n) == [k \in 1..n |-> IF k <= Len(bytes) THEN bytes[k] ELSE 0]

\* Store bytes into the mapping; what lies past the file's end is not stored.
Store(bytes, offset, new) ==
    [k \in DOMAIN bytes |->
        IF k > offset /\ k <= offset + Len(new) THEN new[k - offset] ELSE bytes[k]]
Zeros(n) == [k \in 1..n |-> 0]

ByteValues == {0} \cup UNION {{bytes[k] : k \in DOMAIN bytes} : bytes \in Written}

TypeOK ==
    /\ exists \in BOOLEAN
    /\ \A k \in DOMAIN disk : disk[k] \in ByteValues
    /\ file \in [Handles -> File]
    /\ \A h \in Handles : file[h].state = "live" => exists
    /\ touched \in BOOLEAN /\ shared \in BOOLEAN /\ cut \in BOOLEAN

Init ==
    /\ \E n \in 0..MaxLen : disk \in [1..n -> ByteValues]
    /\ exists \in IF disk = <<>> THEN BOOLEAN ELSE {TRUE}
    /\ file = [h \in Handles |-> Lazy]
    /\ touched = FALSE /\ shared = FALSE /\ cut = FALSE

Usable(h) == file[h].state \in {"lazy", "live"}
Others(h) == {g \in Handles \ {h} : file[g].state # "lazy"}

\* materialize: the handle as it is once the file is open.
Opened(h) ==
    IF file[h].state = "live" THEN file[h]
    ELSE [Lazy EXCEPT !.state = "live", !.size = Len(disk)]

\* remap: the file's bytes and the mapping's length when at least `needed`
\* bytes are mapped.
Remap(f, needed) ==
    IF f.mapped > 0 /\ f.mapped >= needed
    THEN [bytes |-> disk, mapped |-> f.mapped]
    ELSE LET capacity == Larger(needed, Larger(2 * f.mapped, Growth)) IN
         [bytes |-> SetLen(disk, capacity), mapped |-> capacity]

\* With nothing mapped the capacity counts what is needed and a growth step,
\* not the length of the file: a longer file is cut.
Cuts(f, needed) == f.mapped = 0 /\ f.size > Larger(needed, Growth)
Growing(h, needed) == cut' = (cut \/ Cuts(Opened(h), needed))

\* Reading creates nothing; writing creates the file.
Untouched == UNCHANGED <<exists, touched, cut>>
Touched == exists' = TRUE /\ touched' = TRUE

Update(h, f, bytes) ==
    /\ file' = [file EXCEPT ![h] = f] /\ disk' = bytes
    /\ shared' = (shared \/ Others(h) # {})

\* An access up to byte `end` through a mapping longer than the file.
Sigbus(h, end, bytes) ==
    /\ end > Len(bytes)
    /\ Update(h, [file[h] EXCEPT !.state = "dead"], bytes)

-----------------------------------------------------------------------------

Open(h) ==
    /\ Usable(h) /\ exists
    /\ Update(h, Opened(h), disk)
    /\ Untouched

\* pread: map_existing maps the file as long as it is; slicing the mapping up
\* to the remembered size panics when the file is shorter by now, and the
\* panic poisons the handle's lock.
Read(h) ==
    /\ Usable(h) /\ exists
    /\ LET f == Opened(h)
           mapped == IF f.mapped > 0 THEN f.mapped ELSE Len(disk)
       IN IF f.size = 0 THEN Update(h, f, disk)
          ELSE IF mapped < f.size
          THEN Update(h, [f EXCEPT !.state = "poisoned", !.mapped = mapped], disk)
          ELSE \/ Update(h, [f EXCEPT !.mapped = mapped], disk)
               \/ Sigbus(h, f.size, disk)
    /\ Untouched

\* pwrite: the gap an offset past the size leaves is zero-filled.
Write(h) ==
    /\ Usable(h)
    /\ \E bytes \in Written, offset \in 0..MaxLen :
         LET f == Opened(h)
             end == offset + Len(bytes)
             grown == Remap(f, end)
             cleared == IF offset > f.size
                        THEN Store(grown.bytes, f.size, Zeros(offset - f.size))
                        ELSE grown.bytes
         IN /\ end <= MaxLen
            /\ Growing(h, end)
            /\ \/ Update(h, [f EXCEPT !.mapped = grown.mapped,
                                      !.size = Larger(f.size, end)],
                         Store(cleared, offset, bytes))
               \/ Sigbus(h, end, grown.bytes)
    /\ Touched

\* Mutant: the bytes a truncation brings back are not cleared.
TruncateUncleared(h) ==
    /\ Usable(h)
    /\ \E n \in 0..MaxLen :
         LET f == Opened(h)
             grown == Remap(f, n)
         IN IF n > f.size
            THEN \/ Update(h, [f EXCEPT !.mapped = grown.mapped, !.size = n],
                           grown.bytes)
                 \/ Sigbus(h, n, grown.bytes)
            ELSE Update(h, [f EXCEPT !.size = n], disk)
    /\ Touched /\ UNCHANGED cut

\* Mutant: growing only remembers, as shrinking does.
TruncateRemembering(h) ==
    /\ Usable(h)
    /\ \E n \in 0..MaxLen :
         Update(h, [Opened(h) EXCEPT !.size = n], disk)
    /\ Touched /\ UNCHANGED cut

\* truncate: growing zero-fills through the mapping, shrinking only remembers.
Truncate(h) ==
    /\ Usable(h)
    /\ \E n \in 0..MaxLen :
         LET f == Opened(h)
             grown == Remap(f, n)
         IN IF n > f.size
            THEN \/ Update(h, [f EXCEPT !.mapped = grown.mapped, !.size = n],
                           Store(grown.bytes, f.size, Zeros(n - f.size)))
                 \/ Sigbus(h, n, grown.bytes)
            ELSE Update(h, [f EXCEPT !.size = n], disk)
    /\ Touched /\ UNCHANGED cut

Reserve(h) ==
    /\ Usable(h)
    /\ \E n \in 0..MaxLen :
         LET grown == Remap(Opened(h), n) IN
         /\ Growing(h, n)
         /\ Update(h, [Opened(h) EXCEPT !.mapped = grown.mapped], grown.bytes)
    /\ Touched

\* publish: the mapping is released and the file gets its logical length.
Flush(h) ==
    /\ Usable(h) /\ file[h].state = "live"
    /\ Update(h, [file[h] EXCEPT !.mapped = 0], SetLen(disk, file[h].size))
    /\ Untouched

\* close, or Drop; a poisoned handle is dropped without publishing, and so is
\* the one of a process that died.
LetGo(h) ==
    /\ file[h].state # "lazy"
    /\ file' = [file EXCEPT ![h] = Lazy]
    /\ disk' = IF file[h].state = "live" THEN SetLen(disk, file[h].size) ELSE disk
    /\ touched' = (touched /\ Others(h) # {})
    /\ shared' = (shared /\ Others(h) # {})
    /\ cut' = (cut /\ Others(h) # {})
    /\ UNCHANGED exists

Step(h) ==
    \/ Open(h) \/ Read(h) \/ Write(h) \/ Truncate(h) \/ Reserve(h)
    \/ Flush(h) \/ LetGo(h)

Next == \E h \in Handles : Step(h)

Spec == Init /\ [][Next]_vars

-----------------------------------------------------------------------------

\* What a handle reads: its logical size of the file's bytes.
Contents(h) == IF file[h].state = "lazy" THEN disk ELSE SetLen(disk, file[h].size)
InUse == {h \in Handles : file[h].state # "lazy"}
Current == IF InUse = {} THEN disk ELSE Contents(CHOOSE h \in InUse : TRUE)

Bytes == INSTANCE ByteStore WITH contents <- Current, published <- Current

\* Handles used one after the other are one byte store: neither the padding
\* of the file, nor what a shrunk value leaves behind in it, nor giving the
\* file back changes what is read, and none is poisoned by its own reads.  All
\* of it ends with a cut: what the run file_growth reports.
ImplementsByteStore ==
    Bytes!Init /\ [][shared \/ shared' \/ cut \/ cut' \/ Bytes!Next]_<<Bytes!vars, shared, cut>>
NeverPanics ==
    ~shared /\ ~cut => \A h \in Handles : file[h].state \in {"lazy", "live"}

\* Until somebody writes, any number of handles share the file: none panics
\* or dies, and each holds the whole of it.
ReadersShareSafely ==
    ~touched => \A h \in InUse : file[h].state = "live" /\ file[h].size = Len(disk)

\* Handles on one file share it without a panic as long as nobody writes, and
\* one used alone never panics until, with nothing mapped, it grows a file that
\* is longer than a growth step to fewer bytes than it holds: that cuts the
\* file, and the next read slices past the mapping.
SharingIsSafe == TypeOK /\ NeverPanics /\ ReadersShareSafely

\* pwrite and truncate "grow" the value and reserve "never shrinks" it
\* (IOBase): the file never becomes shorter than the value a handle used
\* alone holds.
FileHoldsTheValue ==
    ~shared => \A h \in Handles : file[h].state = "live" => Len(disk) >= file[h].size

\* The values MCHandles and the run file_growth write.
OneOrTwoBytes == { <<>>, <<1>>, <<1, 1>> }
OneByte == { <<1>> }

=============================================================================
