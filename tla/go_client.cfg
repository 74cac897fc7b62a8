CONSTANTS
    MaxMessages = 3
    Heads = {2, 3}
    Payloads = {2}
    MaxCancel = 1
    Bodies <- SmallBodies
    CancelAfters <- SmallCancelAfters
SPECIFICATION FairSpec
INVARIANTS AtMostOneAhead
PROPERTIES StreamEnds KeepsPromise
