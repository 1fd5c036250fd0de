SPECIFICATION Spec
CONSTANTS
    c1 = c1
    c2 = c2
    m1 = m1
    i1 = i1
    i2 = i2
    d1 = d1
    s1 = s1
    s2 = s2
    Main = Main
    None = None
    Conn <- MCConn
    MacroId <- MCMacroId
    Binding <- MCBinding
    InitialFiles <- MCFiles
    Size = {s1, s2}
    MaxSaves = 2
    MaxTimeouts = 1
    MaxCrashes = 1
INVARIANTS AcknowledgedIsInstalled ScreenAgrees
PROPERTIES SavedTakesEffect
CHECK_DEADLOCK FALSE
