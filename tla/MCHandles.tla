----------------------------- MODULE MCHandles -----------------------------
(* Small instances, for TLC, of the handles that keep a value of bytes      *)
(* somewhere else than in it: an execution uses a file, by a path and by    *)
(* another handle; a coded handle over one that fails; or a media over one  *)
(* of two buffers.                                                          *)
EXTENDS PathHandle, MediaHandle

CONSTANTS
    Values,       \* the values a caller writes through a coding
    FaultKinds, MaxFaults

ASSUME CodedAssumption ==
    /\ \A bytes \in Values : bytes \in Seq(Nat) /\ Len(bytes) <= MaxLen
    /\ MaxFaults \in Nat

VARIABLES stored, plain, dirty, value, answer, read, spoilt, misled, faults
coded == <<stored, plain, dirty, value, answer, read, spoilt, misled, faults>>

C == INSTANCE Coded WITH Written <- Values
SomeValues == { <<>>, <<1>>, <<1, 2>> }

PlainOrGzip == {Of(base) : base \in Plain} \cup { [base |-> "json", codings |-> <<"gzip">>] }
GzipStreams == { MediaType("stream", <<"gzip">>) }
OptionChoices == {
    NewOptions,
    [schema |-> {Field("s1", "trade")}, root |-> "trade"] }

NoFile ==
    /\ exists = FALSE /\ disk = <<>> /\ file = [h \in Handles |-> Lazy]
    /\ touched = FALSE /\ shared = FALSE /\ cut = FALSE
    /\ folder = FALSE /\ slot = "none" /\ settled = "unsettled"
NoCoded ==
    /\ stored = C!NoBytes /\ plain = {} /\ dirty = FALSE /\ value = <<>>
    /\ answer = "unused" /\ read = {} /\ spoilt = FALSE /\ misled = FALSE /\ faults = 0
NoMedia ==
    /\ BuffersInit
    /\ format = "unused" /\ cached = {} /\ options = NewOptions /\ aside = FALSE

OneOf ==
    \/ PathInit /\ NoCoded /\ NoMedia
    \/ C!Init /\ NoFile /\ NoMedia
    \/ MediaInit /\ NoFile /\ NoCoded
OneStep ==
    \/ answer = "unused" /\ format = "unused" /\ PathNext /\ UNCHANGED <<coded, allMediaVars>>
    \/ answer # "unused" /\ C!Next /\ UNCHANGED <<allVars, allMediaVars>>
    \/ format # "unused" /\ MediaNext /\ UNCHANGED <<allVars, coded>>
EachHandle == OneOf /\ [][OneStep]_<<allVars, coded, allMediaVars>>

\* Each handle's own view of its bytes is consistent: a path works through what
\* is there (ResolutionHolds); an inferred media type is that of the bytes
\* (BuffersHold), and a declared one names their codings (CodingsHold).
HandlesHold == ResolutionHolds /\ BuffersHold /\ CodingsHold

\* A coded handle holds the value its caller wrote, stores it when it answers
\* that it did and reads it back (coding.rs), until it fails one of two ways.
CodedHolds == answer # "unused" => C!ValueHolds

\* A file, by a path or not, implements ByteStore, and so does a coded handle.
AllImplementByteStore == ImplementsByteStore /\ C!ImplementsByteStore

=============================================================================
