\* The same executions, against what Url::join_path says of absolute paths.
CONSTANTS
    Values = {1, 2, 3}
    Null = Null
    Portable = {"part", "key"}
    Unbounded = {3}
    Incoming <- AnyIncoming
    ReadFilters <- AnyReadFilters
    WriteFilters <- AnyWriteFilters
    MatchKeys <- AnyKeys
    MaxWrites = 3
    TextColumns = {"part"}
    Schema = {"part", "key", "val"}
    FolderValues = {Null, "null", "p", "q", "1", "2", "x", "y", "z"}
    Missing = Null
    NullText = "null"
    Trees <- AnyFolder
    Requests <- AnyRequest
    MaxCalls = 2
    MaxFaults = 1
    Texts <- AnyText
    Paths <- AnyPath
    Names <- AnyName
    Medias <- AnyMedia
    Joins <- AnyJoin
    Partitions <- AnyPartition
    Subtrees <- AnySubtree
    SegmentTexts <- AnySegmentText
    SegmentPatterns <- AnySegmentPattern
    MaxPath = 9
    MaxChanges = 2
SPECIFICATION EachSubject
INVARIANTS LocationsJoinPaths
CHECK_DEADLOCK FALSE
