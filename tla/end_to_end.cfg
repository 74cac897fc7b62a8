CONSTANTS
    MaxRepeats = 3
    MaxErrAfter = 4
    Requests <- SmallRequests
SPECIFICATION FairCallSpec
INVARIANTS HooksInOrder CallInv
PROPERTIES CallEnds KeepsPromise
