SPECIFICATION Spec
CONSTANTS
    Proc = {d1, d2}
    None = None
    MaxSignals = 1
    MaxCrashes = 1
    MaxFaults = 1
INVARIANTS EndsWhenAsked DevicesClosed
PROPERTY StopsWhileListening
CHECK_DEADLOCK FALSE
