SPECIFICATION Spec
CONSTANTS
    FileLen = 3
    InFlight = 1
    AutoResumeMax = 1
    SdBusy = {"print", "periodic", "last"}
    Faults = {"off", "silent"}
    UserGcode = {"heat"}
    MaxCrashes = 2
    MaxOutages = 1
INVARIANTS TypeOK NothingSkipped NeverForgotten EndedNotRevived AutoBounded
PROPERTIES AutoAfterLongBoot
CHECK_DEADLOCK FALSE
