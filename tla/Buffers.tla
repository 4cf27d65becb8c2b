------------------------------ MODULE Buffers ------------------------------
(***************************************************************************)
(* In-memory handles, rust/src/io/buffer.rs, and the transfers between two *)
(* handles of IOBase: compress_into, decompress_into, copy_into.  A buffer *)
(* infers its media type from its leading bytes when it is first asked     *)
(* (enums/magic.rs) and keeps the answer until the bytes change, unless    *)
(* one was declared.  The media type names the content codings, and it is  *)
(* all a transfer or a record reader has to tell how the bytes are coded.  *)
(*                                                                         *)
(* Bytes are a plain value under a sequence of codings, the last outermost.*)
(***************************************************************************)
EXTENDS Integers, Sequences, SequencesExt

CONSTANTS
    Names,        \* the buffers
    Plain,        \* the plain values
    Incoming,     \* the bytes a caller writes, plain or coded
    Signed,       \* the plain values whose leading bytes name their type
    Codecs,       \* codings applied: "identity", "gzip", "zstd", "deflate"
    Declarable,   \* media types a caller declares
    MaxNested,    \* MAX_NESTED_CODINGS
    MaxCodings    \* bound: no value is coded more often

ASSUME BuffersAssumption ==
    /\ Codecs \subseteq {"identity", "gzip", "zstd", "deflate"}
    /\ MaxNested \in Nat \ {0} /\ MaxCodings \in Nat
    /\ "empty" \in Plain
    /\ Incoming \subseteq [base : Plain, codings : Seq({"gzip", "zstd", "zlib", "deflate"})]
    /\ \A type \in Declarable :
          /\ type = [base |-> type.base, encodings |-> type.encodings]
          /\ type.encodings \in Seq({"gzip", "zlib", "zstd"})

VARIABLES
    buffer,       \* buffer -> its bytes, declared type and cached inference
    misdeclared   \* history: buffers whose type was never meant for the bytes

bufferVars == <<buffer, misdeclared>>

Empty == [base |-> "empty", codings |-> <<>>]
Of(value) == [base |-> value, codings |-> <<>>]
IsEmpty(bytes) == bytes = Empty

MediaType(base, encodings) == [base |-> base, encodings |-> encodings]
OctetStream == MediaType("octet", <<>>)

\* Codec::dump and Codec::load: what is not coded so fails to decode, and
\* whether no bytes at all decode is up to the library.
Dump(codec, bytes) ==
    IF codec = "identity" THEN bytes
    ELSE [bytes EXCEPT !.codings = Append(@, codec)]
Load(codec, bytes) ==
    IF codec = "identity" THEN {bytes}
    ELSE IF IsEmpty(bytes) THEN {Empty}
    ELSE IF bytes.codings # <<>> /\ Last(bytes.codings) = codec
         THEN {[bytes EXCEPT !.codings = Front(@)]}
    ELSE {}
LoadFails(codec, bytes) ==
    Load(codec, bytes) = {} \/ (codec # "identity" /\ IsEmpty(bytes))

\* coding_mime, and Codec::from_media_type: the last encoding.
CodingMime(codec) == IF codec = "deflate" THEN "zlib" ELSE codec
CodingMimes(codec) == IF codec = "identity" THEN <<>> ELSE <<CodingMime(codec)>>
CodecOf(type) == IF type.encodings = <<>> THEN "identity" ELSE Last(type.encodings)

-----------------------------------------------------------------------------
(* MediaType::from_magic_bytes: peel the codings from the outside as long as *)
(* they have a signature and something is inside.                            *)

Layer(bytes, depth) == bytes.codings[Len(bytes.codings) - depth + 1]
HasSignature(codec) == codec # "deflate"

Peels(bytes, depth) ==
    /\ depth <= MaxNested /\ depth <= Len(bytes.codings)
    /\ HasSignature(Layer(bytes, depth))
    /\ depth < Len(bytes.codings) \/ bytes.base # "empty"

Depth(bytes) ==
    CHOOSE d \in 0..Len(bytes.codings) :
        /\ \A k \in 1..d : Peels(bytes, k)
        /\ ~Peels(bytes, d + 1)

\* MimeType::from_bytes of what is left when `depth` codings are peeled.
Sniffed(bytes, depth) ==
    IF depth < Len(bytes.codings)
    THEN {codec \in {Layer(bytes, depth + 1)} : HasSignature(codec)}
    ELSE {bytes.base} \cap Signed

\* The codings are listed in the order they are peeled.
FromMagicBytes(bytes) ==
    LET depth == Depth(bytes)
        peeled == [k \in 1..depth |-> Layer(bytes, k)]
    IN IF Sniffed(bytes, depth) # {}
       THEN {MediaType(mime, peeled) : mime \in Sniffed(bytes, depth)}
       ELSE IF depth = 0 THEN {}
       ELSE {MediaType(Last(peeled), Front(peeled))}

Inference(bytes) ==
    IF FromMagicBytes(bytes) = {} THEN OctetStream
    ELSE CHOOSE type \in FromMagicBytes(bytes) : TRUE

-----------------------------------------------------------------------------

\* media_type: the declared type, or the inference, cached from then on.
TypeOf(b) ==
    IF b.declared # {} THEN CHOOSE type \in b.declared : TRUE
    ELSE IF b.inferred # {} THEN CHOOSE type \in b.inferred : TRUE
    ELSE Inference(b.bytes)
Asked(b) == IF b.declared # {} THEN b ELSE [b EXCEPT !.inferred = {TypeOf(b)}]

\* Mutant: the inference outlives the bytes.
HoldingStill(b, bytes) == [b EXCEPT !.bytes = bytes]

\* pwrite, truncate and as_mut_slice: the inference is discarded.
Holding(b, bytes) == [b EXCEPT !.bytes = bytes, !.inferred = {}]

\* Whether a type names exactly the codings of the bytes; no bytes fit any.
Fits(type, bytes) ==
    \/ IsEmpty(bytes)
    \/ type.encodings = [k \in DOMAIN bytes.codings |-> CodingMime(bytes.codings[k])]
Fitting(b) == Fits(TypeOf(b), b.bytes)

NewBuffer == [bytes |-> Empty, declared |-> {}, inferred |-> {}]

BuffersInit == buffer = [n \in Names |-> NewBuffer] /\ misdeclared = {}

Becomes(n, b, wrong) ==
    /\ buffer' = [buffer EXCEPT ![n] = b]
    /\ misdeclared' = IF wrong THEN misdeclared \cup {n} ELSE misdeclared \ {n}

\* pwrite, truncate or as_mut_slice by a caller: any bytes may result, coded
\* ones among them.
SetBytes(n) ==
    \E bytes \in Incoming :
        LET b == Holding(buffer[n], bytes) IN
        Becomes(n, b, b.declared # {} /\ ~Fitting(b))

AskType(n) == buffer' = [buffer EXCEPT ![n] = Asked(@)] /\ UNCHANGED misdeclared

\* set_media_type and with_media_type.
Declare(n) ==
    \E type \in Declarable :
        LET b == [buffer[n] EXCEPT !.declared = {type}] IN Becomes(n, b, ~Fitting(b))

\* Clone: the caches start afresh.
Clone(n, m) ==
    Becomes(m, [buffer[n] EXCEPT !.inferred = {}], n \in misdeclared)

\* A transfer: the source is asked its type, the target declared another.
Transfer(n, m, b, wrong) ==
    /\ buffer' = [buffer EXCEPT ![n] = Asked(@), ![m] = b]
    /\ misdeclared' = IF wrong THEN misdeclared \cup {m} ELSE misdeclared \ {m}

Compressed(b, target, codec) ==
    [Holding(target, Dump(codec, b.bytes)) EXCEPT
        !.declared = {[TypeOf(b) EXCEPT !.encodings = CodingMimes(codec)]}]

\* compress_into.  What it records is wrong of a source that is itself coded,
\* and of raw DEFLATE, which it calls zlib.
CompressInto(n, m) ==
    \E codec \in Codecs :
        /\ Len(buffer[n].bytes.codings) < MaxCodings
        /\ Transfer(n, m, Compressed(buffer[n], buffer[m], codec),
                    \/ ~Fitting(buffer[n])
                    \/ buffer[n].bytes.codings # <<>> \/ TypeOf(buffer[n]).encodings # <<>>
                    \/ codec = "deflate")

Decompressed(b, target, bytes) ==
    [Holding(target, bytes) EXCEPT
        !.declared = {[TypeOf(b) EXCEPT !.encodings = IF @ = <<>> THEN @ ELSE Front(@)]}]

\* decompress_into, by the type's codec, or decompress_into_with another; the
\* target is emptied before anything is decoded.
DecompressInto(n, m) ==
    LET b == buffer[n]
        own == CodecOf(TypeOf(b))
    IN \E codec \in Codecs \cup {own} :
        \/ \E bytes \in Load(codec, b.bytes) :
              Transfer(n, m, Decompressed(b, buffer[m], bytes), ~Fitting(b) \/ codec # own)
        \/ /\ LoadFails(codec, b.bytes)
           /\ \E source \in {b} \cup {s \in {Asked(b)} : codec = own} :
                 buffer' = [buffer EXCEPT ![n] = source, ![m] = Holding(@, Empty)]
           /\ misdeclared' = misdeclared \ {m}

CopyInto(n, m) ==
    Transfer(n, m, [Holding(buffer[m], buffer[n].bytes) EXCEPT !.declared = {TypeOf(buffer[n])}],
             ~Fitting(buffer[n]))

\* What anyone who holds buffer n may do to it; transfers need two buffers.
Change(n) == SetBytes(n) \/ AskType(n) \/ Declare(n)
Exchange(n, m) == Clone(n, m) \/ CompressInto(n, m) \/ DecompressInto(n, m) \/ CopyInto(n, m)

-----------------------------------------------------------------------------

BuffersTypeOK ==
    \A n \in Names :
        /\ buffer[n].bytes.base \in Plain \cup Signed
        /\ \A type \in buffer[n].declared \cup buffer[n].inferred :
              \A k \in DOMAIN type.encodings : type.encodings[k] \in {"gzip", "zlib", "zstd"}

\* "re-inferred after the bytes change": whatever was written, copied or
\* decoded into a buffer, an inference it holds is that of its bytes.
InferenceFollowsBytes ==
    \A n \in Names : buffer[n].inferred \subseteq {Inference(buffer[n].bytes)}

\* What a buffer says of its bytes is a media type, and if inferred, theirs.
BuffersHold == BuffersTypeOK /\ InferenceFollowsBytes

\* A declared type names the codings of the bytes through any chain of
\* transfers, unless a caller declared or wrote something else, a coded value
\* was coded once more, raw DEFLATE was used, or an override did not undo the
\* type's coding.
TypeTellsCodings ==
    \A n \in Names : buffer[n].declared # {} /\ n \notin misdeclared => Fitting(buffer[n])

\* compress_into and decompress_into undo each other, type included, for every
\* value that is not coded and every codec with a signature.
CompressionIsUndone ==
    \A n, m \in Names, codec \in Codecs \ {"deflate"} :
        LET b == buffer[n]
            coded == Compressed(b, buffer[m], codec)
        IN b.bytes.codings = <<>> /\ TypeOf(b).encodings = <<>> =>
              \A bytes \in Load(CodecOf(TypeOf(coded)), coded.bytes) :
                  LET plain == Decompressed(coded, buffer[n], bytes) IN
                  plain.bytes = b.bytes /\ TypeOf(plain) = TypeOf(b)

\* Codings are declared as they are applied and undone as they are declared.
CodingsHold == TypeTellsCodings /\ CompressionIsUndone

=============================================================================
