SPECIFICATION ExSpec
CONSTANTS
    None = None
    a = a
    Handle = {h1, h2}
    Caller = {reader}
    Key = {k1, k2}
    Code = {a}
    Emittable = {a}
    Macro = {"tap"}
    MacroOf <- MCMacroOf
    Actions <- MCActions
    HasGap <- MCHasGap
    Iterations = {1}
    MaxFaults = 0
INVARIANTS OneRunPerKey AlwaysStoppable StopAllStopsAll RegistryHoldsUnfinished
PROPERTIES ImplementsRunControl RunningStaysRegistered RefinesPlayback
CHECK_DEADLOCK FALSE
