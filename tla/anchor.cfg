SPECIFICATION LiveSpec
CHECK_DEADLOCK FALSE
CONSTANTS
    r1 = r1
    r2 = r2
    EPOCH = 1
    EPOCHS_PER_DAY = 2
    ANCHOR_WAIT = 1
    HALT_TIMEOUT = 4
    ADMIN_TIMELOCK = 2
    STREAK_WINDOW_DAYS = 2
    VETO_LIMIT_PER_WINDOW = 2
    DISPUTE_LIMIT_PER_WINDOW = 1
    LANE_MAX = 1
    QUORUM = 2
    BPS = 3
    DISPUTE_MIN_BPS = 1
    Relayers = {r1, r2}
    Reports <- FewReports
    Votes <- Disputes
    Admins = {"admin", "vetoKey"}
    Deposits = {1}
    StartTime = 1
    MaxTime = 5
    MaxEpoch = 4
    MaxIssued = 2
INVARIANTS
    CreditsAreBacked
    OneAnchorWaits
    RecordsTellTheHistory
PROPERTIES
    ThePastStands
    KeepsThePromise
    PostedIsResolved
    RotationIsAnnounced
