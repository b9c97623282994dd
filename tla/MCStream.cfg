SPECIFICATION Spec
CONSTANTS
    FileLen = 5
    HeatLines = {1}
    TempLines = {1}
    Manual = {"babystep", "fan"}
    Repeatable = {"fan"}
    LastN0 = {0}
    Starts = {0}
    Windows = {3}
    Hist = 3
    MaxW = 7
    Throttle = 2
    MaxInflight = 4
    Short = 1
    Long = 3
    LineBytes <- MCLineBytes
    LongLines = {}
    MaxDamaged = 2
    MaxLost = 1
    Losable = {"ok", "ok T"}
    Failures = {"restart"}
    SlowTypes = {}
INVARIANTS TypeOK InOrder AckedWasExecuted ResendAvailable OneShotAtMostOnce OkMeansExecuted EndsCold
PROPERTY KeepsPromise
CHECK_DEADLOCK FALSE
