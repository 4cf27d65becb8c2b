\* Two writers racing on plain storage, nothing failing: four commits are what
\* it takes to tag a snapshot that is no longer current and to expire; or two
\* commits write manifests and read them again; or a document is edited twice
\* (MCCommitHistory).
CONSTANTS
    Writers = {w1, w2}
    Ops = {"append", "replace", "tag", "untag", "expire"}
    Opens = {"open"}
    Retries = 1
    Serialized = FALSE
    Initially = {"hinted"}
    MaxCommits = 4
    FaultKinds = {}
    MaxFaults = 0
SPECIFICATION HistorySpec
SYMMETRY WriterSymmetry
CHECK_DEADLOCK FALSE
INVARIANTS
    SnapshotFollowsParent
    RowsOnce
    NamedIsRetained
    ManifestsKeepOrder
    DocumentsReadBack
    EditsKeepNumbers
