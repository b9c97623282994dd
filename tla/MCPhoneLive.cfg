SPECIFICATION LiveSpec
CONSTANTS
    AUTO_CONNECT_MAX_FAILS = 0
    HasPlug = FALSE
    EndsInText = FALSE
    Others = {"start"}
    Users = {"stop", "connect", "pause"}
    Faults = {"stop", "time", "knock"}
    MaxRehearsals = 1
    MaxPrints = 1
    MaxBoots = 1
    MaxPollers = 1
    MaxPlug = 0
PROPERTIES EndNoticed PrintFollowed
CHECK_DEADLOCK FALSE
