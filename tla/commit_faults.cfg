\* A race with a storage call that fails or a writer that dies, on a table that
\* is yet to be created; every call returns.
CONSTANTS
    Writers = {w1, w2}
    Ops = {"overwrite", "tag"}
    Opens = {"open_or_create", "open"}
    Retries = 1
    Serialized = FALSE
    Initially = {"none"}
    MaxCommits = 2
    FaultKinds = {"read", "document", "hint", "crash"}
    MaxFaults = 1
SPECIFICATION FairSpec
CHECK_DEADLOCK FALSE
INVARIANTS
    FailedNeverPublished
    CommitInv
PROPERTIES
    CallsReturn
