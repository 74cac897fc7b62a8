CONSTANTS
    Names <- Three
    External <- ThreeOutside
    Hidden = {"A/_c"}
    Inputs <- SmallInputs
SPECIFICATION ReachSpec
INVARIANTS FromErrExists
