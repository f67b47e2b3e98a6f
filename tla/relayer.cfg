SPECIFICATION ProgramsSpec
CHECK_DEADLOCK FALSE
CONSTANTS
    Programs = {"relayer", "sdk"}
    \* relayer
    d1 = d1
    d2 = d2
    Deposits = {d1}
    DEPTH = 1
    WALL = 0
    FALLBACK_DEPTH = 2
    FALLBACK_WALL = 0
    OUTAGE_HALT = 1
    MAX_ATTEMPTS = 1
    LOG_RANGE = 2
    Verdicts = {"FINAL", "VETOED"}
    REORG_DEPTH = 1
    LAYER_LAG = 0
    LAG = 0
    MaxHead = 2
    MaxEpoch = 2
    MaxFaults = 2
    MaxExits = 1
    \* exits of the sdk
    SdkProcesses = {s1, s2}
    LastExit = 2
    MaxBreaks = 1
INVARIANTS
    CreditsHaveTheirDeposit
    ConfirmedIsDone
    CursorLeavesNothingBehind
    AnchorsCoverTheirEpoch
    NoExitIsLost
