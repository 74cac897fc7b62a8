CONSTANTS
    MaxMessages = 1
    Heads = {2, 3}
    Payloads = {1}
    Bodies <- SmallBodies
SPECIFICATION Spec
INVARIANT SplitNeverFails
