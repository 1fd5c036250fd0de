SPECIFICATION MCSpec
CONSTANTS
    kbd = kbd
    a = a
    b = b
    c = c
    Dev = {kbd}
    Code = {a, b, c}
    AnyDevice = AnyDevice
    None = None
    Produces <- MCProduces
    Maps <- MCMaps
    MaxChanges = 3
    MaxSets = 1
    MaxFaults = 1
INVARIANTS SessionSees EngineSees
PROPERTIES MapTakesHold GoneIsDropped GivenBack
CHECK_DEADLOCK FALSE
