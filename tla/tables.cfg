\* Every write of an Iceberg table under both specs and every scan of it, 3
\* standing for a NaN; every kind of write of a folder, twice, on every tree,
\* with one failure anywhere; every location, changed twice.
CONSTANTS
    Values = {1, 2, 3}
    Null = Null
    Portable = {"part", "key"}
    Unbounded = {3}
    Incoming <- AnyIncoming
    ReadFilters <- AnyReadFilters
    WriteFilters <- AnyWriteFilters
    MatchKeys <- AnyKeys
    MaxWrites = 3
    TextColumns = {"part"}
    Schema = {"part", "key", "val"}
    FolderValues = {Null, "null", "p", "q", "1", "2", "x", "y", "z"}
    Missing = Null
    NullText = "null"
    Trees <- AnyFolder
    Requests <- AnyRequest
    MaxCalls = 2
    MaxFaults = 1
    Texts <- AnyText
    Paths <- AnyPath
    Names <- AnyName
    Medias <- AnyMedia
    Joins <- AnyJoin
    Partitions <- AnyPartition
    Subtrees <- AnySubtree
    SegmentTexts <- AnySegmentText
    SegmentPatterns <- AnySegmentPattern
    MaxPath = 9
    MaxChanges = 2
SPECIFICATION EachSubject
INVARIANTS
    TableHolds
    ScanExact
    WritesExact
    MergesExact
    FolderIsOneTable
    FailureKeepsRows
    LocationsReadBack
    LocationsKeepNames
    LocationsSelect
CHECK_DEADLOCK FALSE
