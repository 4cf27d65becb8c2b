\* One handle and a file one byte longer than MINIMUM_GROWTH.
CONSTANTS
    Handles = {h1}
    Written <- OneByte
    Growth = 2
    MaxLen = 3
SPECIFICATION Spec
INVARIANTS
    FileHoldsTheValue
