SPECIFICATION MCLiveSpec
CHECK_DEADLOCK FALSE
CONSTANTS
    v1 = v1
    v2 = v2
    Validators = {v1, v2}
    Supply = 3
    MIN_STAKE = 1
    MAX_NODES = 2
    UNSTAKE_COOLDOWN = 3
    ADMIN_TIMELOCK = 1
    BPS = 4
    MAX_VALIDATOR_SHARE_BPS = 2
    REWARD_RELEASE_BPS = 2
    REWARD_CLAIM_WINDOW = 2
    ACC_PRECISION = 10
    EPOCH = 1
    EPOCHS_PER_DAY = 2
    COMMIT_WINDOW = 0
    ANCHOR_WAIT = 1
    ATTEST_WINDOW = 2
    Amounts = {1, 2}
    Fundings = {8}
    Removable = {v2}
    StartTime = 2
    MaxTime = 8
    MaxEpoch = 4
    MaxFunded = 8
    MaxPostDelay = 1
    Focuses = {"stakes", "rewards"}
    StakesUntil = 6
INVARIANTS
    StakeIsSound
    WitnessesCountOnce
    RewardBooksBalance
PROPERTIES
    CommitmentsAreBlind
    ExpiredPotsReturn
