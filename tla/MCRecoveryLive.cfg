SPECIFICATION LiveSpec
CONSTANTS
    FileLen = 3
    InFlight = 1
    AutoResumeMax = 1
    SdBusy = {}
    Faults = {"off", "slow move", "restart"}
    UserGcode = {"home"}
    MaxCrashes = 2
    MaxOutages = 1
PROPERTIES HotendNotLeftOn
CHECK_DEADLOCK FALSE
