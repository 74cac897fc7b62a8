CONSTANTS
    Names <- SmallNames
    OptionObjects <- SmallOptions
    WithHeaders <- SmallWithHeaders
    MaxClients = 2
    MaxCalls = 2
SPECIFICATION RegistrySpec
INVARIANTS HeadersGoOnce RegistryInv
PROPERTIES NamesKeepGenerators
CHECK_DEADLOCK FALSE
