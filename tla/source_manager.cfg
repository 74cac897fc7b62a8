CONSTANTS
    Callers = {c1, c2}
    CallInfos <- SmallInfos
    Outside <- NoInfo
    Paths <- SmallPaths
    Vanity <- SmallVanity
    Malformed = {"h/"}
    RootOf <- SmallRoot
    Above <- SmallAbove
    SourcesOf <- SmallSources
    URLs = {"https://h/U", "https://h/u", "ssh://h/U", "ssh://h/u"}
    Fold <- SmallFold
    MaxCalls = 2
SPECIFICATION FairSpec
INVARIANTS CoordInv
PROPERTIES OneGateway CallsReturn
