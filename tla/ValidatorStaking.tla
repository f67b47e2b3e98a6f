-------------------------- MODULE ValidatorStaking --------------------------
(***************************************************************************)
(* contracts/src/ValidatorStaking.sol: BAC staked behind validator nodes,  *)
(* witness votes on anchors (commit / reveal, and the open dispute), one   *)
(* day credit per address, and the rewards, settled day by day, claimed,   *)
(* and swept back once they expire.                                        *)
(*                                                                         *)
(* A validator's nodes are counted here; their lists, strikes and flags    *)
(* are the subject of NodeRegistry.  What a vote says is abstracted to the *)
(* side it takes, what a day's head says to whether it is the anchor's.    *)
(* The anchor contract is external: it posts epochs in order, one waiting  *)
(* at a time (ChainAnchor!OneAnchorWaits).                                 *)
(***************************************************************************)
EXTENDS Integers, FiniteSets, Functions

CONSTANTS
    Validators, Supply,                       \* addresses, the BAC that may be staked
    MIN_STAKE, MAX_NODES, UNSTAKE_COOLDOWN, ADMIN_TIMELOCK,
    BPS, MAX_VALIDATOR_SHARE_BPS, REWARD_RELEASE_BPS, REWARD_CLAIM_WINDOW, ACC_PRECISION,
    EPOCH, EPOCHS_PER_DAY, COMMIT_WINDOW, ANCHOR_WAIT, ATTEST_WINDOW,
    Amounts, Fundings,                        \* BAC per staking call, BNB per funding
    Removable,                                \* the validators the admin moves against
    \* bounds of the model, not of the code
    StartTime, MaxTime, MaxEpoch, MaxFunded,
    MaxPostDelay                              \* how long after an epoch its anchor may come

Epochs == 0..MaxEpoch
DAY == EPOCH * EPOCHS_PER_DAY
Days == 0..MaxEpoch \div EPOCHS_PER_DAY
firstEpoch == StartTime \div EPOCH
Sides == {"none", "agree", "dispute"}
NoVote == [side |-> "none", weight |-> 0]
NoReward == [settled |-> FALSE, settledAt |-> 0, pot |-> 0, weight |-> 0, rate |-> 0,
             escrowed |-> 0, claimed |-> 0, swept |-> FALSE]

ASSUME StakingSizes ==
    /\ {EPOCH, EPOCHS_PER_DAY, BPS, ACC_PRECISION, MIN_STAKE} \subseteq Nat \ {0}
    /\ {Supply, MAX_NODES, UNSTAKE_COOLDOWN, ADMIN_TIMELOCK, REWARD_CLAIM_WINDOW, COMMIT_WINDOW,
        ANCHOR_WAIT, ATTEST_WINDOW, StartTime, MaxTime, MaxEpoch, MaxFunded, MaxPostDelay} \subseteq Nat
    /\ {MAX_VALIDATOR_SHARE_BPS, REWARD_RELEASE_BPS} \subseteq 0..BPS
    /\ DAY <= StartTime /\ StartTime <= MaxTime
    /\ Amounts \subseteq Nat \ {0} /\ Fundings \subseteq Nat \ {0}
    /\ IsFiniteSet(Validators) /\ Removable \subseteq Validators

VARIABLES
    now,
    lastPosted, postedAt, waiting,            \* external: the last anchor, whether it is POSTED
    wallet,                                   \* external: BAC nobody has staked
    staked, pendingUnstake, unlockAt, nodes,  \* per validator
    commitments,                              \* the <<epoch, validator>> with a commitmentOf
    hasRevealed, reveals, revealers,          \* revealers[e][v]: how often v is on the list
    dayHeadSubmitted, dayWeightOf, dayList,   \* dayList[d][v]: how often v is on the list
    rewardBalance, lifetimeFunded, lifetimePaid, lastRewardDay, dayRewards, rewardClaimed,
    removed, removalEta

anchorVars == <<lastPosted, postedAt, waiting>>
stakeVars == <<wallet, staked, pendingUnstake, unlockAt>>
voteVars == <<commitments, hasRevealed, reveals, revealers>>
rollVars == <<dayHeadSubmitted, dayWeightOf, dayList>>
rewardVars == <<rewardBalance, lifetimeFunded, lifetimePaid, lastRewardDay, dayRewards, rewardClaimed>>
adminVars == <<removed, removalEta>>
vars == <<now, anchorVars, stakeVars, nodes, voteVars, rollVars, rewardVars, adminVars>>

-----------------------------------------------------------------------------
Least(a, b) == IF a <= b THEN a ELSE b
Greatest(a, b) == IF a >= b THEN a ELSE b

\* Only the last anchor can be POSTED, and it takes votes for ANCHOR_WAIT.
TakesVotes(e) == waiting /\ e = lastPosted /\ now < postedAt + ANCHOR_WAIT

\* The stake that must stay behind the nodes of a validator.
backing(v) == MIN_STAKE * nodes[v]

\* attestationResult: every entry of the list counts, agreeing or disputing.
WeightOf(e, side) ==
    LET of(v) == IF reveals[e][v].side = side THEN revealers[e][v] * reveals[e][v].weight ELSE 0
    IN  SumFunction([v \in Validators |-> of(v)])
CountOf(e, side) ==
    LET of(v) == IF reveals[e][v].side = side THEN revealers[e][v] ELSE 0
    IN  SumFunction([v \in Validators |-> of(v)])

\* witnessRoster: the largest of the last three day rolls.
dayAttesters(d) == IF d \in Days THEN SumFunction(dayList[d]) ELSE 0
witnessRoster ==
    LET d == now \div DAY IN Greatest(dayAttesters(d), Greatest(dayAttesters(d - 1), dayAttesters(d - 2)))

\* settleDayRewards sums the weights on the list of those who are not removed.
rollWeight(d) ==
    LET of(v) == IF v \in removed THEN 0 ELSE dayList[d][v] * dayWeightOf[d][v]
    IN  SumFunction([v \in Validators |-> of(v)])

\* One address's part of a pot, linear in its weight and capped; and what settling reserves.
Part(weight, rate, pot) ==
    Least((weight * rate) \div ACC_PRECISION, (pot * MAX_VALIDATOR_SHARE_BPS) \div BPS)
PartsOf(d, rate, pot) ==
    LET of(v) == IF v \in removed THEN 0 ELSE dayList[d][v] * Part(dayWeightOf[d][v], rate, pot)
    IN  SumFunction([v \in Validators |-> of(v)])

rewardOf(d, v) ==
    IF ~dayRewards[d].settled \/ dayRewards[d].swept \/ v \in removed \/ <<d, v>> \in rewardClaimed
    THEN 0
    ELSE Part(dayWeightOf[d][v], dayRewards[d].rate, dayRewards[d].pot)

-----------------------------------------------------------------------------
Init ==
    /\ now = StartTime
    /\ lastPosted = firstEpoch - 1 /\ postedAt = 0 /\ waiting = FALSE
    /\ wallet = Supply
    /\ staked = [v \in Validators |-> 0]
    /\ pendingUnstake = [v \in Validators |-> 0]
    /\ unlockAt = [v \in Validators |-> 0]
    /\ nodes = [v \in Validators |-> 0]
    /\ commitments = {} /\ hasRevealed = {}
    /\ reveals = [e \in Epochs |-> [v \in Validators |-> NoVote]]
    /\ revealers = [e \in Epochs |-> [v \in Validators |-> 0]]
    /\ dayHeadSubmitted = {}
    /\ dayWeightOf = [d \in Days |-> [v \in Validators |-> 0]]
    /\ dayList = [d \in Days |-> [v \in Validators |-> 0]]
    /\ rewardBalance = 0 /\ lifetimeFunded = 0 /\ lifetimePaid = 0
    /\ lastRewardDay = firstEpoch \div EPOCHS_PER_DAY - 1
    /\ dayRewards = [d \in Days |-> NoReward]
    /\ rewardClaimed = {}
    /\ removed = {} /\ removalEta = [v \in Validators |-> 0]

Tick ==
    /\ now < MaxTime
    /\ now' = now + 1
    /\ UNCHANGED <<anchorVars, stakeVars, nodes, voteVars, rollVars, rewardVars, adminVars>>

-----------------------------------------------------------------------------
(* ChainAnchor, as far as the staking contract reads it.                   *)
PostAnchor ==
    LET e == lastPosted + 1
        due == (e + 1) * EPOCH + COMMIT_WINDOW IN
    /\ ~waiting /\ e \in Epochs
    /\ now \in due..due + MaxPostDelay
    /\ lastPosted' = e /\ postedAt' = now /\ waiting' = TRUE
    /\ UNCHANGED <<now, stakeVars, nodes, voteVars, rollVars, rewardVars, adminVars>>

\* Finalized, disputed or vetoed.
ResolveAnchor ==
    /\ waiting
    /\ waiting' = FALSE
    /\ UNCHANGED <<now, lastPosted, postedAt, stakeVars, nodes, voteVars, rollVars, rewardVars,
                   adminVars>>

-----------------------------------------------------------------------------
(* Staking and nodes.                                                      *)
Stake(v, amount) ==
    /\ amount <= wallet
    /\ wallet' = wallet - amount
    /\ staked' = [staked EXCEPT ![v] = @ + amount]
    /\ UNCHANGED <<now, anchorVars, pendingUnstake, unlockAt, nodes, voteVars, rollVars, rewardVars,
                   adminVars>>

UnstakableUnbacked(v, amount) == amount <= staked[v]
Unstakable(v, amount) == amount <= staked[v] /\ staked[v] - amount >= backing(v)

RequestUnstake(v, amount) ==
    /\ Unstakable(v, amount)
    /\ staked' = [staked EXCEPT ![v] = @ - amount]
    /\ pendingUnstake' = [pendingUnstake EXCEPT ![v] = @ + amount]
    /\ unlockAt' = [unlockAt EXCEPT ![v] = now + UNSTAKE_COOLDOWN]
    /\ UNCHANGED <<now, anchorVars, wallet, nodes, voteVars, rollVars, rewardVars, adminVars>>

UnlockedAtOnce(v) == TRUE
Unlocked(v) == now >= unlockAt[v]

WithdrawUnstaked(v) ==
    /\ pendingUnstake[v] # 0 /\ Unlocked(v)
    /\ wallet' = wallet + pendingUnstake[v]
    /\ pendingUnstake' = [pendingUnstake EXCEPT ![v] = 0]
    /\ unlockAt' = [unlockAt EXCEPT ![v] = 0]
    /\ UNCHANGED <<now, anchorVars, staked, nodes, voteVars, rollVars, rewardVars, adminVars>>

RegisterNode(v) ==
    /\ SumFunction(nodes) < MAX_NODES
    /\ staked[v] >= backing(v) + MIN_STAKE
    /\ nodes' = [nodes EXCEPT ![v] = @ + 1]
    /\ UNCHANGED <<now, anchorVars, stakeVars, voteVars, rollVars, rewardVars, adminVars>>

RetireNode(v) ==
    /\ nodes[v] # 0
    /\ nodes' = [nodes EXCEPT ![v] = @ - 1]
    /\ UNCHANGED <<now, anchorVars, stakeVars, voteVars, rollVars, rewardVars, adminVars>>

-----------------------------------------------------------------------------
(* Witnessing.                                                             *)
Creditable(d, v) == v \notin removed /\ dayWeightOf[d][v] = 0

\* _creditDay: one credit per address and day, whichever path comes first.
CreditDay(d, v, weight) ==
    IF Creditable(d, v)
    THEN /\ dayWeightOf' = [dayWeightOf EXCEPT ![d][v] = weight]
         /\ dayList' = [dayList EXCEPT ![d][v] = @ + 1]
    ELSE UNCHANGED <<dayWeightOf, dayList>>

AttestDay(v, d, right) ==
    /\ nodes[v] # 0 /\ <<d, v>> \notin dayHeadSubmitted
    /\ now \in (d + 1) * DAY..(d + 1) * DAY + ATTEST_WINDOW - 1
    /\ lastPosted > (d + 1) * EPOCHS_PER_DAY - 1
    /\ dayHeadSubmitted' = dayHeadSubmitted \cup {<<d, v>>}
    /\ IF right
       THEN staked[v] # 0 /\ CreditDay(d, v, staked[v])
       ELSE UNCHANGED <<dayWeightOf, dayList>>
    /\ UNCHANGED <<now, anchorVars, stakeVars, nodes, voteVars, rewardVars, adminVars>>

CommittableLate(e) == now <= (e + 1) * EPOCH + COMMIT_WINDOW
Committable(e) == now < (e + 1) * EPOCH + COMMIT_WINDOW

CommitAttestation(v, e) ==
    /\ nodes[v] # 0 /\ <<e, v>> \notin commitments
    /\ Committable(e)
    /\ commitments' = commitments \cup {<<e, v>>}
    /\ UNCHANGED <<now, anchorVars, stakeVars, nodes, hasRevealed, reveals, revealers, rollVars,
                   rewardVars, adminVars>>

\* The vote is filed with the stake of this moment.
File(v, e, side) ==
    /\ staked[v] # 0
    /\ reveals' = [reveals EXCEPT ![e][v] = [side |-> side, weight |-> staked[v]]]
    /\ revealers' = [revealers EXCEPT ![e][v] = @ + 1]

\* An opening that does not match the commitment is void (and strikes the nodes).
RevealVoid(v, e) ==
    /\ TakesVotes(e) /\ <<e, v>> \in commitments \ hasRevealed
    /\ hasRevealed' = hasRevealed \cup {<<e, v>>}
    /\ UNCHANGED <<now, anchorVars, stakeVars, nodes, commitments, reveals, revealers, rollVars,
                   rewardVars, adminVars>>

RevealAttestation(v, e, side) ==
    /\ TakesVotes(e) /\ <<e, v>> \in commitments \ hasRevealed
    /\ hasRevealed' = hasRevealed \cup {<<e, v>>}
    /\ File(v, e, side)
    /\ IF side = "agree"
       THEN CreditDay(e \div EPOCHS_PER_DAY, v, staked[v])
       ELSE UNCHANGED <<dayWeightOf, dayList>>
    /\ UNCHANGED <<now, anchorVars, stakeVars, nodes, commitments, dayHeadSubmitted, rewardVars,
                   adminVars>>

MayDispute(v, e) == nodes[v] # 0 /\ <<e, v>> \notin hasRevealed

DisputeAnchor(v, e) ==
    /\ TakesVotes(e) /\ MayDispute(v, e)
    /\ hasRevealed' = hasRevealed \cup {<<e, v>>}
    /\ File(v, e, "dispute")
    /\ UNCHANGED <<now, anchorVars, stakeVars, nodes, commitments, rollVars, rewardVars, adminVars>>

-----------------------------------------------------------------------------
(* Rewards.                                                                *)
FundRewards(amount) ==
    /\ lifetimeFunded + amount <= MaxFunded
    /\ rewardBalance' = rewardBalance + amount
    /\ lifetimeFunded' = lifetimeFunded + amount
    /\ UNCHANGED <<now, anchorVars, stakeVars, nodes, voteVars, rollVars, lifetimePaid,
                   lastRewardDay, dayRewards, rewardClaimed, adminVars>>

\* The time from which a day may be settled: its batch window is over.
SettleableAtDayEnd(d) == now >= (d + 1) * DAY
Settleable(d) == now >= (d + 1) * DAY + ATTEST_WINDOW

SettleDayRewards(d) ==
    LET pot == (rewardBalance * REWARD_RELEASE_BPS) \div BPS
        weight == rollWeight(d)
        rate == (pot * ACC_PRECISION) \div weight
        escrowed == PartsOf(d, rate, pot) IN
    /\ d = lastRewardDay + 1 /\ Settleable(d)
    /\ lastRewardDay' = d
    /\ IF pot = 0 \/ weight = 0
       THEN /\ dayRewards' = [dayRewards EXCEPT ![d] = [@ EXCEPT !.settled = TRUE, !.settledAt = now]]
            /\ UNCHANGED rewardBalance
       ELSE /\ dayRewards' = [dayRewards EXCEPT ![d] =
                  [settled |-> TRUE, settledAt |-> now, pot |-> pot, weight |-> weight,
                   rate |-> rate, escrowed |-> escrowed, claimed |-> 0, swept |-> FALSE]]
            /\ rewardBalance' = rewardBalance - escrowed
    /\ UNCHANGED <<now, anchorVars, stakeVars, nodes, voteVars, rollVars, lifetimeFunded,
                   lifetimePaid, rewardClaimed, adminVars>>

ClaimReward(d, v) ==
    /\ dayRewards[d].settled /\ ~dayRewards[d].swept
    /\ now < dayRewards[d].settledAt + REWARD_CLAIM_WINDOW
    /\ rewardOf(d, v) # 0
    /\ lifetimePaid + rewardOf(d, v) <= lifetimeFunded       \* the contract has the BNB
    /\ rewardClaimed' = rewardClaimed \cup {<<d, v>>}
    /\ dayRewards' = [dayRewards EXCEPT ![d].claimed = @ + rewardOf(d, v)]
    /\ lifetimePaid' = lifetimePaid + rewardOf(d, v)
    /\ UNCHANGED <<now, anchorVars, stakeVars, nodes, voteVars, rollVars, rewardBalance,
                   lifetimeFunded, lastRewardDay, adminVars>>

ReturnedAll(d) == dayRewards[d].escrowed
Returned(d) == dayRewards[d].escrowed - dayRewards[d].claimed

\* The subtraction is checked: a pot that paid more than it escrowed cannot be swept.
SweepExpired(d) ==
    /\ dayRewards[d].settled /\ ~dayRewards[d].swept
    /\ now >= dayRewards[d].settledAt + REWARD_CLAIM_WINDOW
    /\ Returned(d) >= 0
    /\ dayRewards' = [dayRewards EXCEPT ![d].swept = TRUE]
    /\ rewardBalance' = rewardBalance + Returned(d)
    /\ UNCHANGED <<now, anchorVars, stakeVars, nodes, voteVars, rollVars, lifetimeFunded,
                   lifetimePaid, lastRewardDay, rewardClaimed, adminVars>>

-----------------------------------------------------------------------------
(* The admin can only take away the eligibility for rewards.               *)
ProposeRemoveValidator(v) ==
    /\ removalEta' = [removalEta EXCEPT ![v] = now + ADMIN_TIMELOCK]
    /\ UNCHANGED <<now, anchorVars, stakeVars, nodes, voteVars, rollVars, rewardVars, removed>>

ExecuteRemoveValidator(v) ==
    /\ removalEta[v] # 0 /\ now >= removalEta[v]
    /\ removalEta' = [removalEta EXCEPT ![v] = 0]
    /\ removed' = removed \cup {v}
    /\ UNCHANGED <<now, anchorVars, stakeVars, nodes, voteVars, rollVars, rewardVars>>

CancelRemoveValidator(v) ==
    /\ removalEta[v] # 0
    /\ removalEta' = [removalEta EXCEPT ![v] = 0]
    /\ UNCHANGED <<now, anchorVars, stakeVars, nodes, voteVars, rollVars, rewardVars, removed>>

-----------------------------------------------------------------------------
ValidatorStep(v) ==
    \/ \E amount \in Amounts : Stake(v, amount) \/ RequestUnstake(v, amount)
    \/ WithdrawUnstaked(v) \/ RegisterNode(v) \/ RetireNode(v)
    \/ \E d \in Days, right \in BOOLEAN : AttestDay(v, d, right)
    \/ \E e \in Epochs : CommitAttestation(v, e) \/ RevealVoid(v, e) \/ DisputeAnchor(v, e)
    \/ \E e \in Epochs, side \in {"agree", "dispute"} : RevealAttestation(v, e, side)

RewardStep ==
    \/ \E amount \in Fundings : FundRewards(amount)
    \/ \E d \in Days : SettleDayRewards(d) \/ SweepExpired(d)
    \/ \E d \in Days, v \in Validators : ClaimReward(d, v)

AdminStep == \E v \in Removable :
    ProposeRemoveValidator(v) \/ ExecuteRemoveValidator(v) \/ CancelRemoveValidator(v)

Next ==
    \/ Tick \/ PostAnchor \/ ResolveAnchor
    \/ \E v \in Validators : ValidatorStep(v)
    \/ RewardStep \/ AdminStep

Spec == Init /\ [][Next]_vars
LiveSpec == Spec /\ WF_vars(Tick) /\ \A d \in Days : WF_vars(SweepExpired(d))

-----------------------------------------------------------------------------
TypeOK ==
    /\ now \in Nat /\ postedAt \in Nat /\ lastPosted \in Int /\ waiting \in BOOLEAN
    /\ wallet \in Nat /\ nodes \in [Validators -> Nat]
    /\ staked \in [Validators -> Nat] /\ pendingUnstake \in [Validators -> Nat]
    /\ unlockAt \in [Validators -> Nat] /\ removalEta \in [Validators -> Nat]
    /\ commitments \subseteq Epochs \X Validators /\ hasRevealed \subseteq Epochs \X Validators
    /\ reveals \in [Epochs -> [Validators -> [side : Sides, weight : Nat]]]
    /\ revealers \in [Epochs -> [Validators -> Nat]]
    /\ dayHeadSubmitted \subseteq Days \X Validators
    /\ dayWeightOf \in [Days -> [Validators -> Nat]] /\ dayList \in [Days -> [Validators -> Nat]]
    /\ rewardBalance \in Nat /\ lifetimeFunded \in Nat /\ lifetimePaid \in Nat
    /\ lastRewardDay \in Int
    /\ dayRewards \in [Days -> [settled : BOOLEAN, settledAt : Nat, pot : Nat, weight : Nat,
                                rate : Nat, escrowed : Nat, claimed : Nat, swept : BOOLEAN]]
    /\ rewardClaimed \subseteq Days \X Validators /\ removed \subseteq Validators

\* Every node is backed by a full stake of its own, whatever was staked, registered, retired and
\* requested back in between (S4 of the contract's spec).
NodesAreBacked == \A v \in Validators : staked[v] >= MIN_STAKE * nodes[v]

\* No BAC votes twice on one anchor: the weights on the list of an epoch never exceed the BAC there
\* is, although stake may leave and come back under another address (S5, and the cooldown).
VotesAreDistinctStake ==
    \A e \in Epochs : WeightOf(e, "agree") + WeightOf(e, "dispute") <= Supply

\* An address is on the roll of a day at most once, by batch or by reveal.
OneCreditPerDay == \A d \in Days, v \in Validators : dayList[d][v] <= 1

\* The reward books balance: what was funded was paid out, is in the reward balance, or is what is
\* left of a settled pot (S2 of the contract's spec).
RewardBooksBalance ==
    LET left(d) == IF dayRewards[d].settled /\ ~dayRewards[d].swept
                   THEN Greatest(dayRewards[d].escrowed - dayRewards[d].claimed, 0) ELSE 0
    IN  lifetimeFunded = lifetimePaid + rewardBalance + SumFunction([d \in Days |-> left(d)])

\* A commitment is blind: it is filed before the anchor of its epoch can exist (the first epoch that
\* is anchored is firstEpoch).
CommitmentsAreBlind ==
    [][\A e \in Epochs, v \in Validators :
          <<e, v>> \in commitments' \ commitments => e \notin firstEpoch..lastPosted]_vars

\* A pot that was settled is swept back once its claims expire: the sweep never underflows.
ExpiredPotsReturn ==
    \A d \in Days : dayRewards[d].settled ~>
        (dayRewards[d].swept \/ dayRewards[d].settledAt + REWARD_CLAIM_WINDOW > MaxTime)

\* Stake keeps its type and backs every node, however it is moved.
StakeIsSound == TypeOK /\ NodesAreBacked

\* A witness counts once: its stake on an epoch's list, its address on a day's roll.
WitnessesCountOnce == VotesAreDistinctStake /\ OneCreditPerDay
=============================================================================
