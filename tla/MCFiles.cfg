SPECIFICATION Spec
CONSTANTS
    Names = {a, b}
    None = none
    QueueLen = 1
    Cells = 2
    LineEnds = {2}
    BufCells = 1
    Types = {"CONNECT", "SELECT", "START", "RECOVER", "PAUSE", "RESUME", "DISCARD"}
    Impatient = {"START"}
    Faults = {"upload", "close", "exists", "open", "journal", "line start", "rename"}
    MaxPosts = 1
    MaxUploads = 1
    MaxCrashes = 2
SYMMETRY Symmetry
INVARIANTS PrintedFileIntact InterruptedFileKept UploadAllOrNothing LinesWhole
PROPERTIES LockGivenByHolder
CHECK_DEADLOCK FALSE
