SPECIFICATION LiveSpec
CONSTANTS
    Names = {a}
    None = none
    QueueLen = 1
    Cells = 1
    LineEnds = {1}
    BufCells = 2
    Types = {"START", "STOP", "GCODE"}
    Impatient = {"GCODE"}
    Faults = {"close", "exists", "open", "journal", "line start"}
    MaxPosts = 3
    MaxUploads = 0
    MaxCrashes = 0
INVARIANTS TypeOK NoUseAfterFree OnlyTheEdgeLeaks JobHasItsCommand
PROPERTIES ClientsAnswered JobEnds
CHECK_DEADLOCK FALSE
