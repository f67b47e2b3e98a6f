SPECIFICATION LiveSpec
CHECK_DEADLOCK FALSE
CONSTANTS
    w1 = w1
    w2 = w2
    a1 = a1
    a2 = a2
    Wallets = {w1, w2}
    Agents = {a1}
    Exits <- TwoExits
    RELEASE_RESCALE = 10
    EPOCH = 1
    EPOCHS_PER_DAY = 1
    BPS = 4
    ACC = 100
    BpsTiers = {2}
    MAX_EXIT_SHARE_BPS = 4
    MAX_CATCHUP_EPOCHS = 2
    SETTLE_GRACE = 3
    NO_ATTEST_WINDOW = 2
    NO_ATTEST_WINDOW_BPS = 2
    OWED_MATURITY = 1
    PAUSE_LEN = 1
    MAX_PAUSE_TOTAL = 1
    ESCAPE_ARM_DELAY = 1
    BUYBACK_MIN_INTERVAL = 100
    BUYBACK_DAILY_BPS = 1
    MIN_BUYBACK_BNB = 1
    MAX_BUYBACK_BNB = 2
    HaltReasons = {0}
    AnchorOutcomes <- FinalWitnessed
    Keys = {"watchdog", "vetoKey"}
    LockAmounts = {6}
    BacAmounts = {11}
    BnbAmounts = {}
    BuyOutputs = {}
    WithdrawAmounts = {}
    StartTime = 1
    MaxTime = 5
    MaxEpoch = 2
    MaxDeposits = 1
    MaxInflows = 1
    MaxWithdrawals = 0
INVARIANTS
    ReservedMatchesClaims
    PauseOverrunIsBounded
PROPERTIES
    EscapeEnds
