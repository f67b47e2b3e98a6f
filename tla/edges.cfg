SPECIFICATION EdgesSpec
CONSTANTS
    \* router and node fund
    Owners = {o1, o2}
    NoOwner = none
    FundWithdrawals = {0, 1}
    Gifts = {1}
    MaxGifts = 1
    ROUTER_BPS = 2
    BRIDGE_BPS = 1
    Payments = {1, 2}
    MaxPaid = 4
    \* watchdog
    LastWatched = 2
    HasVetoKey = TRUE
    ResumeAfterTrip = FALSE
    MaxReorg = 1
    WatchFaults = 2
    \* node registry
    Operators = {v1, v2}
    NodeIds = {n1, n2, n3}
    MAX_NODES = 3
    MAX_STRIKES = 2
    \* layer contracts
    w1 = w1
    w2 = w2
    r1 = r1
    r2 = r2
    Wallets = {w1, w2}
    NoWallet = nw
    Agents = {1, 2}
    RelayerKeys = {r1, r2}
    GenesisRelayer = r1
    Locks <- MCLocks
    SyncRows <- MCSyncRows
    Signed <- MCSigned
    Reserve = 3
    LayerAmounts = {1, 2}
    PUBLISH_FEE = 1
    MAX_PER_EPOCH = 2
    LastDay = 1
    \* wrapped BAC
    Accounts = {h1, h2}
    Coins = 2
    Wads = {1, 2}
    Infinite = 9
    \* indexer
    Deposits = {1}
    Exits = {1, 2}
    LastIndexedEpoch = 1
    Histories <- MCHistories
    MaxIndexerCuts = 1
    \* indexer, what agents build
    A = A
    B = B
    P = P
    u = u
    v = v
    zero = zero
    Addresses = {A, B, P}
    Holders = {u, v}
    Nowhere = zero
    Erc20 = {A, B, P}
    SidesOf <- MCSidesOf
    LayerBlocks <- MCLayerBlocks
    MaxDown = 2
    MaxBuiltCuts = 2
    \* attester
    a1 = a1
    a2 = a2
    ha = ha
    hb = hb
    Processes = {a1, a2}
    Homes = {ha, hb}
    HomeOf <- MCHomeOf
    CommitStages = {"running", "ended"}
    MaxSalts = 2
    MaxSends = 3
    MaxKills = 1
    \* blocks of an epoch
    EPOCH = 2
    LastTick = 4
    MaxBehind = 1
    \* exit tree
    l1 = l1
    l2 = l2
    l3 = l3
    l4 = l4
    l5 = l5
    ExitIds = {1, 2, 3, 4, 5}
    leafHash <- MCLeafHash
    \* reconciliation
    BridgeDeposits = {1}
    BurntExits = {1}
    CREDIT_WAIT = 2
    CLAIM_WAIT = 2
    SLOW_DEPTH = 1
    INFLIGHT_BLOCKS = 3
    SKEW_BLOCKS = 0
    READ_TIME = 1
    LastBscBlock = 4
    MaxSideFlows = 2
    \* slow loop of the watchdog
    RELEASE_PART = 4
    EPOCHS_PER_DAY = 2
    Lot = 32
    LastEpoch = 3
    MaxMoves = 3
    MaxFailures = 1
INVARIANTS
    TaxBooksBalance
    FindingsAreTrue
    RegistersAreIndexed
    LayerBooksHold
    IndexIsTrue
    CommitmentsCanBeOpened
    ProgramsAgree
    VerdictsHaveAReason
PROPERTIES
    EverythingIsDelivered
    ConfirmedIsBraked
    CoveredIsMarked
    SlowLoopCanBeTrusted
    NothingIsTakenBack
CHECK_DEADLOCK FALSE
