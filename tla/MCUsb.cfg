CONSTANTS
    MaxPlugs = 2
    MaxFaults = 1
    Races = FALSE
    MaxRequests = 1
SPECIFICATION Spec
INVARIANTS TypeOK NoPanic
PROPERTY LinkFollowsCable
CHECK_DEADLOCK FALSE
