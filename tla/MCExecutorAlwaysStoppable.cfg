SPECIFICATION ExSafety
CONSTANTS
    None = None
    a = a
    Handle = {h1, h2}
    Caller = {reader, client}
    Key = {k1}
    Code = {a}
    Emittable = {a}
    Macro = {"tap"}
    MacroOf <- MCMacroOf
    Actions <- MCActions
    HasGap <- MCHasGap
    Iterations <- MCIterations
    MaxFaults = 0
INVARIANT AlwaysStoppable
CHECK_DEADLOCK FALSE
