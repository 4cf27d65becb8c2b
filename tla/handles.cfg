\* A file that may be longer than MINIMUM_GROWTH used by two handles, one after the other or
\* both, one of them behind a path whose location may be a folder; a coded
\* handle over one that fails to be read, to be replaced, in the middle of it
\* included, or to be flushed; and a media over one buffer, the other to
\* exchange bytes with.
CONSTANTS
    h1 = h1
    h2 = h2
    Handles = {h1, h2}
    Leaf = h1
    Written <- OneOrTwoBytes
    Growth = 2
    MaxLen = 3
    Values <- SomeValues
    FaultKinds = {"read", "replace", "flush"}
    MaxFaults = 2
    Names = {"held", "other"}
    Handle = "held"
    Plain = {"empty", "json", "s1", "s2"}
    Incoming <- PlainOrGzip
    Signed = {"json"}
    Codecs = {"gzip"}
    Declarable <- GzipStreams
    MaxNested = 2
    MaxCodings = 2
    Schemas = {"s1", "s2"}
    Options <- OptionChoices
SPECIFICATION EachHandle
INVARIANTS
    HandlesHold
    SharingIsSafe
    CacheIsFresh
    CodedHolds
PROPERTIES
    AllImplementByteStore
