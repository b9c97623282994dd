SPECIFICATION Spec
CONSTANTS
    AUTO_CONNECT_MAX_FAILS = 1
    HasPlug = TRUE
    EndsInText = TRUE
    Others = {"stop"}
    Users = {"select", "start", "recover", "plug"}
    Faults = {"time", "plug", "recover", "start"}
    MaxRehearsals = 0
    MaxPrints = 2
    MaxBoots = 2
    MaxPollers = 1
    MaxPlug = 1
INVARIANTS TypeOK SuccessHasItsEnd
CHECK_DEADLOCK FALSE
PROPERTIES CutsHaveTheirEnd
