\* Commits by clocks that may lag, one reference beside main, every expiry.
CONSTANTS
    Names = {"dev"}
    Keeps = {2}
    Ages = {0}
    MaxSnapshots = 3
    MaxTime = 1
SPECIFICATION Spec
INVARIANTS
    DocumentHolds
    ExpiryIsComplete
PROPERTIES
    FastForwardKeepsHistory
    ExpiryKeepsWhatRefsName
