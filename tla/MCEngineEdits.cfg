SPECIFICATION Safety
CONSTANTS
    e = e
    k = k
    r = r
    x = x
    y = y
    hold = hold
    map = map
    tog = tog
    click = click
    d1 = d1
    None = None
    Device = {d1}
    Input <- MCInput
    Output <- MCOutput
    BindingId <- MCBindingId
    MacroId = {click}
    Configs <- MCEdits
    MaxUnplug = 1
    MaxFaults = 1
    MaxUnlaunched = 1
INVARIANT EmergencyHonoured
