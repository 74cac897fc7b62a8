CONSTANTS
    MaxMessages = 2
    Heads = {2, 3}
    Payloads = {0, 2}
    Bodies <- SmallBodies
SPECIFICATION FairCallSpec
INVARIANTS CallTypeOK BreakIsTold
PROPERTIES NothingAfterTheEnd LetsGo SendReturns KeepsPromise
