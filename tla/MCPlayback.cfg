SPECIFICATION Spec
CONSTANTS
    Handle = {h1, h2}
    a = a
    b = b
    unknown = unknown
    Code <- MCCode
    Emittable <- MCEmittable
    Macro = {"drag", "chord", "aim"}
    Actions <- MCActions
    HasGap <- MCHasGap
    Iterations <- MCIterations
    MaxFaults = 1
INVARIANTS NothingStaysHeld EndsForAReason BalancedActions
SYMMETRY Symmetry
CHECK_DEADLOCK FALSE
