SPECIFICATION Spec
CONSTANTS
    FileLen = 3
    InFlight = 1
    AutoResumeMax = 1
    SdBusy = {"print", "periodic", "last"}
    Faults = {"off", "silent", "slow move", "restart"}
    UserGcode = {"home", "heat"}
    MaxCrashes = 2
    MaxOutages = 1
INVARIANT RefusedNotRevived
CHECK_DEADLOCK FALSE
