CONSTANTS
    MaxMessages = 2
    Heads = {2, 3}
    Payloads = {0, 2}
    Bodies <- SmallBodies
SPECIFICATION FairSpec
INVARIANTS IInv
PROPERTIES SettlesUnlessTruncated KeepsPromise
