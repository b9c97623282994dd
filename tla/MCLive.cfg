SPECIFICATION LiveSpec
CONSTANTS
    FileLen = 3
    HeatLines = {2}
    TempLines = {2}
    Manual = {"babystep"}
    Repeatable = {}
    LastN0 = {0}
    Starts = {0, 1}
    Windows = {1, 3}
    Hist = 3
    MaxW = 7
    Throttle = 2
    MaxInflight = 4
    Short = 1
    Long = 3
    LineBytes <- MCLineBytes
    LongLines = {1}
    MaxDamaged = 1
    MaxLost = 1
    Losable = {"ok", "ok T"}
    Failures = {"hang", "kill", "unplug", "write"}
    SlowTypes = {}
PROPERTIES PrintEnds DeadPrinterNoticed
CHECK_DEADLOCK FALSE
