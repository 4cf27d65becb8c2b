\* One writer at a time, with one storage failure or one dying writer.
CONSTANTS
    Writers = {w1, w2}
    Ops = {"append", "overwrite", "replace", "tag", "untag", "expire"}
    Opens = {"open"}
    Retries = 1
    Serialized = TRUE
    Initially = {"hinted"}
    MaxCommits = 3
    FaultKinds = {"document", "hint", "crash"}
    MaxFaults = 1
SPECIFICATION Spec
SYMMETRY WriterSymmetry
CHECK_DEADLOCK FALSE
PROPERTIES
    ImplementsSerialTable
    VersionsNeverMoveBack
