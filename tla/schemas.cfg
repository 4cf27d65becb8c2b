\* A field of every kind with one child, two entries between them, or a pair of
\* schemas two levels deep, or a schema of as many to be normalized; or two
\* handles that evolve a table of two levels, twice in all, appending to it
\* meanwhile.
SYMMETRY Alike
CONSTANTS
    KeyOrder <- Order
    Lowered <- Small
    Controls = {"tab", "nul"}
    Schemes <- SomeSchemes
    Names = {"a"}
    RawEntries <- Entries
    RawLists <- SomeLists
    RawProperties <- SomeProperties
    Types <- SomeTypes
    Foreign <- SomeForeign
    MediaTypes <- SomeMedia
    MaxEntries = 2
    KeyCapacity = 2
    Handles = {h1, h2}
    FirstColumns <- TwoLevels
    Updates <- SomeUpdates
    Batches <- SomeBatches
    MaxEvolutions = 2
    MaxFiles = 1
SPECIFICATION Schemas
CHECK_DEADLOCK FALSE
INVARIANTS
    FieldHolds
    DiffsAreExact
    CompatIsStable
    CastsHold
    IdsNameColumns
    ScansFollowColumns
