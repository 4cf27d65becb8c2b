\* Filters over columns whose type was promoted after the file was written.
CONSTANTS
    KeyCapacity = 2
    Handles = {h1, h2}
    FirstColumns <- TwoLevels
    Updates <- SomeUpdates
    Batches <- SomeBatches
    MaxEvolutions = 1
    MaxFiles = 1
SPECIFICATION Spec
CHECK_DEADLOCK FALSE
INVARIANTS
    PromotedFiltersAreExact
