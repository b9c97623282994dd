SPECIFICATION LiveSpec
CONSTANTS
    MaxJobs = 3
    MaxTime = 4
    MaxRestarts = 1
    Late = FALSE
INVARIANTS TypeOK StartsOnce
PROPERTIES StartsWhatWasAsked JobDecided
CHECK_DEADLOCK FALSE
