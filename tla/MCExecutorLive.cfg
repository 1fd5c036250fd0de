SPECIFICATION ExSpec
CONSTANTS
    None = None
    a = a
    Handle = {h1}
    Caller = {reader, client}
    Key = {k1}
    Code = {a}
    Emittable = {a}
    Macro = {"tap"}
    MacroOf <- MCMacroOf
    Actions <- MCActions
    HasGap <- MCHasGap
    Iterations <- MCIterations
    MaxFaults = 0
PROPERTIES StoppedRunEnds BoundedRunEnds StopAllEndsRuns StopAllReturns
CHECK_DEADLOCK FALSE
