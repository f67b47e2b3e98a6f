SPECIFICATION ProgramsSpec
CHECK_DEADLOCK FALSE
CONSTANTS
    Programs = {"relayer"}
    d1 = d1
    d2 = d2
    Deposits = {d1}
    DEPTH = 0
    WALL = 0
    FALLBACK_DEPTH = 1
    FALLBACK_WALL = 0
    OUTAGE_HALT = 1
    MAX_ATTEMPTS = 1
    LOG_RANGE = 2
    Verdicts = {"FINAL", "VETOED"}
    REORG_DEPTH = 0
    LAYER_LAG = 0
    LAG = 0
    MaxHead = 2
    MaxEpoch = 3
    MaxFaults = 0
    MaxExits = 1
    \* the sdk rests
    SdkProcesses = {s1}
    LastExit = 0
    MaxBreaks = 0
INVARIANTS
    RejectedEpochsAreReportedAgain
