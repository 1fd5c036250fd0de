SPECIFICATION Spec
CONSTANTS
    e = e
    k = k
    r = r
    x = x
    y = y
    hold = hold
    map = map
    tog = tog
    click = click
    d1 = d1
    None = None
    Device = {d1}
    Input <- MCInput
    Output <- MCOutput
    BindingId <- MCBindingId
    MacroId = {click}
    Configs <- MCOthers
    MaxUnplug = 0
    MaxFaults = 1
    MaxUnlaunched = 0
INVARIANTS WhileHeldStops RemapHeldByInput NoFalseEmergency
PROPERTIES EmergencyEndsRuns ReleasedHoldEnds
