CONSTANTS
    Callers = {c1, c2}
    NoCaller = none
    MaxRevision = 3
    MaxCalls = 3
SPECIFICATION Spec
SYMMETRY Symmetric
INVARIANTS GatewayInv ListedIsReadable
PROPERTIES ListStays
