CONSTANTS
    MaxPlugs = 1
    MaxFaults = 1
    Races = FALSE
    MaxRequests = 0
SPECIFICATION Spec
PROPERTY ReceptionContinues
CHECK_DEADLOCK FALSE
