SPECIFICATION Safety
CONSTANTS
    None = None
    Known = {"KEY_E", "KEY_C", "KEY_LEFTCTRL", "BTN_LEFT"}
    Buttons = {"BTN_LEFT"}
    MaxRepeat = 2
    MaxGap = 1
    App = {"files"}
    MaxActions = 4
    MaxKeys = 3
    MaxEdits = 2
    Key = {"KEY_E", "KEY_UNNAMED"}
    Mouse = {"BTN_LEFT"}
    MinDelay = 2
    MaxClock = 3
    MaxRecorded = 3
    InitialFiles <- MCFiles
INVARIANTS RecordingIsFaithful BannerWarns LoadsAsSaved
CHECK_DEADLOCK FALSE
