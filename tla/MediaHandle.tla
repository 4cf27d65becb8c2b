---------------------------- MODULE MediaHandle ----------------------------
(***************************************************************************)
(* An Arrow IPC stream or a Parquet file bound to one handle,              *)
(* rust/src/ipc/mod.rs and rust/src/parquet/mod.rs: it owns the handle and *)
(* the options and caches what the bytes declare, the schema or the        *)
(* footer.  It mirrors the bytes of the handle, so a caller may also write *)
(* them directly, or change the options in place.                          *)
(*                                                                         *)
(* The encoding itself, what a stream of a schema decodes to, is that of   *)
(* the Arrow and Parquet crates.                                           *)
(***************************************************************************)
EXTENDS Buffers

CONSTANTS
    Handle,       \* the buffer the media owns
    Schemas,      \* the columns batches arrive with; also the streams' values
    Options       \* the options a caller chooses, the default ones among them

ASSUME MediaAssumption ==
    /\ Handle \in Names
    /\ Schemas \subseteq Plain

VARIABLES
    format,       \* "ipc" or "parquet", fixed
    cached,       \* {what open or a write cached}, or {}
    options,      \* the declared schema, if any, and the root name
    aside         \* history: bytes, type or options changed past the cache

mediaVars == <<format, cached, options, aside>>
allMediaVars == <<bufferVars, mediaVars>>

handle == buffer[Handle]
Field(columns, name) == [columns |-> columns, root |-> name]
NewOptions == [schema |-> {}, root |-> "row"]

MediaInit ==
    /\ BuffersInit
    /\ format \in {"ipc", "parquet"}
    /\ cached = {} /\ options = NewOptions /\ aside = FALSE

\* decoded_bytes and open_builder: the columns the stored bytes declare, {} if
\* they cannot be read.  Parquet refuses a handle that declares a coding.
StoredColumns(b) ==
    IF format = "parquet" /\ CodecOf(TypeOf(b)) # "identity" THEN {}
    ELSE {bytes.base : bytes \in {plain \in Load(CodecOf(TypeOf(b)), b.bytes) :
                                     plain.base \in Schemas /\ plain.codings = <<>>}}

\* read_field, {} when it fails; the declared schema is taken as it stands.
ReadField(b) ==
    IF options.schema # {} THEN options.schema
    ELSE {Field(columns, options.root) : columns \in StoredColumns(b)}

\* What open reads into the cache: the schema, or the footer.
Openable(b) == IF format = "ipc" THEN ReadField(b)
               ELSE {Field(columns, "") : columns \in StoredColumns(b)}

UseHandle(b) == buffer' = [buffer EXCEPT ![Handle] = b] /\ UNCHANGED misdeclared

\* open: a non-empty handle is decoded once, and not again while the cache
\* holds something.
OpenMedia ==
    /\ IF cached # {} \/ IsEmpty(handle.bytes)
       THEN UNCHANGED <<bufferVars, cached, aside>>
       ELSE /\ UseHandle(IF format = "ipc" /\ options.schema # {} THEN handle ELSE Asked(handle))
            /\ cached' = Openable(handle)
            /\ aside' = FALSE
    /\ UNCHANGED <<format, options>>

\* schema: IPC keeps what it reads; Parquet reads the footer each time.
Schema ==
    /\ IF options.schema # {} \/ (format = "ipc" /\ cached # {})
       THEN UNCHANGED <<bufferVars, cached, aside>>
       ELSE /\ UseHandle(IF IsEmpty(handle.bytes) /\ format = "ipc" THEN handle ELSE Asked(handle))
            /\ IF format = "ipc" THEN cached' = ReadField(handle) /\ aside' = FALSE
               ELSE UNCHANGED <<cached, aside>>
    /\ UNCHANGED <<format, options>>

\* Whether the type that says how the bytes are coded was read off the bytes:
\* what it says of them need not be said of the stream that replaces them,
\* which has no signature.
CodedByInference(b) == b.declared = {} /\ CodecOf(TypeOf(b)) # "identity"

\* write_batch_reader refreshes the schema cache and drops the footer.
AfterWrite(columns) ==
    /\ cached' = IF format = "ipc" THEN {Field(columns, options.root)} ELSE {}
    /\ aside' = (format = "ipc" /\ CodedByInference(handle))

\* store: the batches are encoded whole, with the coding the media type names
\* before the write, and then replace the bytes.
Stored(b, columns) == Holding(b, Dump(CodecOf(TypeOf(b)), Of(columns)))

WriteBatches(columns) ==
    /\ format = "parquet" => CodecOf(TypeOf(handle)) = "identity"
    /\ LET b == Stored(handle, columns) IN
       Becomes(Handle, b, b.declared # {} /\ ~Fitting(b))
    /\ AfterWrite(columns)
    /\ UNCHANGED <<format, options>>

\* Parquet refuses a coded handle; a failing reader leaves everything alone.
WriteRefused ==
    /\ format = "parquet" /\ CodecOf(TypeOf(handle)) # "identity"
    /\ UseHandle(Asked(handle))
    /\ UNCHANGED mediaVars

\* Mutant: a cached schema survives under the old root name.
WithOptionsKeeping == options' \in Options /\ UNCHANGED <<bufferVars, format, cached, aside>>

\* with_options, with_schema and with_root_name drop a cached schema; a footer
\* does not depend on them.
WithOptions ==
    /\ options' \in Options
    /\ IF format = "ipc" THEN cached' = {} /\ aside' = FALSE ELSE UNCHANGED <<cached, aside>>
    /\ UNCHANGED <<bufferVars, format>>

\* options_mut changes them in place.
OptionsInPlace ==
    /\ options' \in Options
    /\ aside' = (aside \/ (format = "ipc" /\ cached # {}))
    /\ UNCHANGED <<bufferVars, format, cached>>

Close == cached' = {} /\ aside' = FALSE /\ UNCHANGED <<bufferVars, format, options>>

\* The mirrored byte methods and handle_mut reach the handle itself.
PastTheMedia ==
    /\ \E n \in Names : Change(n) \/ \E m \in Names \ {n} : Exchange(n, m)
    /\ aside' = (aside \/ (cached # {} /\ <<handle.bytes, handle.declared>>' # <<handle.bytes, handle.declared>>))
    /\ UNCHANGED <<format, cached, options>>

MediaNext ==
    \/ OpenMedia \/ Schema \/ WriteRefused
    \/ \E columns \in Schemas : WriteBatches(columns)
    \/ WithOptions \/ OptionsInPlace \/ Close \/ PastTheMedia

MediaSpec == MediaInit /\ [][MediaNext]_allMediaVars

-----------------------------------------------------------------------------

\* What schema() answers now, and what a media bound afresh to the same handle
\* with the same options would; the same of read_statistics and the footer.
SchemaAnswer ==
    IF options.schema # {} THEN options.schema
    ELSE IF format = "ipc" /\ cached # {} THEN cached ELSE ReadField(handle)
FooterAnswer == IF cached # {} THEN cached ELSE Openable(handle)

\* As long as neither the bytes, nor their inferred type, nor the options were
\* changed past the cache, the media answers what a fresh one would: opening, closing, reading, writing and
\* renaming in any order leave no stale schema and no stale footer behind.
CacheIsFresh ==
    ~aside => /\ SchemaAnswer = ReadField(handle)
              /\ format = "parquet" => FooterAnswer = Openable(handle)

=============================================================================
