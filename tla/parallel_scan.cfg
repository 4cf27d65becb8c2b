\* Three files, two workers at a time, every way a file may decode.
CONSTANTS
    Count = 3
    Window = 2
    Scripts <- SomeScripts
SPECIFICATION FairSpec
CHECK_DEADLOCK FALSE
INVARIANTS
    WithinWindow
    SomeoneWillAnswer
    StopsAfterDrop
PROPERTIES
    ImplementsOrderedScan
    EveryoneFinishes
