SPECIFICATION AttesterSpec
CONSTANTS
    a1 = a1
    ha = ha
    Processes = {a1}
    Homes = {ha}
    HomeOf <- MCHomeOf
    CommitStages = {"running"}
    MaxSalts = 1
    MaxSends = 2
    MaxKills = 1
INVARIANTS
    CommitsInTheWindowAreTaken
CHECK_DEADLOCK FALSE
