SPECIFICATION Safety
CONSTANTS
    m1 = m1
    m2 = m2
    b1 = b1
    b2 = b2
    a1 = a1
    example = example
    None = None
    Garbled = Garbled
    MacroId <- MCMacroId
    BindingId <- MCBindingId
    Example <- MCExample
    DefaultSettings <- MCSettings
    InitialDisks <- MCFirstStart
    Step = {a1}
    MaxSteps = 2
    MaxCommands = 5
INVARIANT PresetsStayDeleted
CHECK_DEADLOCK FALSE
