----------------------- MODULE ValidatorStakingProofs -----------------------
(***************************************************************************)
(* Theorems about ValidatorStaking: stake keeps its type and backs every   *)
(* node, no BAC votes twice on one anchor, a day is credited once, a       *)
(* commitment is blind, and the reward books balance.                      *)
(*                                                                         *)
(* Two of them need what the constants of the contract and the relayer's   *)
(* promptness provide, and say so: a vote closes before stake can be taken *)
(* out again, and an anchor is voted on before its day is settled.         *)
(***************************************************************************)
EXTENDS ValidatorStaking, Numbers

\* The cooldown outlasts a vote (7 days against ANCHOR_WAIT seconds).
CooldownOutlastsVote == ANCHOR_WAIT <= UNSTAKE_COOLDOWN

\* Votes on the last epoch of a day close before the day may be settled: true while anchors are posted
\* no later than MaxPostDelay after their epoch.  A later one is the subject of staking_late_credit.
VotesCloseBeforeSettling == COMMIT_WINDOW + MaxPostDelay + ANCHOR_WAIT <= ATTEST_WINDOW

-----------------------------------------------------------------------------
(* The inductive invariant, in parts *)

\* The posted anchors lie behind the clock, the waiting one not too far.
AnchorsAreTimed ==
    /\ lastPosted >= firstEpoch - 1
    /\ lastPosted >= firstEpoch =>
          lastPosted \in Epochs /\ now >= (lastPosted + 1) * EPOCH + COMMIT_WINDOW
    /\ postedAt <= now
    /\ waiting => /\ lastPosted >= firstEpoch
                  /\ postedAt <= (lastPosted + 1) * EPOCH + COMMIT_WINDOW + MaxPostDelay

\* What an address put on the list of an epoch.
Cast(e, v) == revealers[e][v] * reveals[e][v].weight

\* An address is on the list of an epoch once, and on none of an epoch that is not posted.
ListedOnce ==
    \A e \in Epochs, v \in Validators :
        /\ revealers[e][v] <= 1
        /\ <<e, v>> \notin hasRevealed => revealers[e][v] = 0
        /\ e > lastPosted => revealers[e][v] = 0

\* The BAC there is: nobody's, staked, or on its way out.
StakeIsKept == wallet + SumFunction(staked) + SumFunction(pendingUnstake) = Supply

\* While votes are taken, what was cast is still staked, or cannot leave before they close.
CastIsStillThere ==
    \A e \in Epochs, v \in Validators :
        TakesVotes(e) =>
            \/ Cast(e, v) <= staked[v]
            \/ /\ Cast(e, v) <= staked[v] + pendingUnstake[v]
               /\ unlockAt[v] >= postedAt + UNSTAKE_COOLDOWN

\* No more than all the BAC is cast on an epoch.
CastFits == \A e \in Epochs : SumFunction([v \in Validators |-> Cast(e, v)]) <= Supply

\* The roll of a day lists exactly those with a weight.
RollIsExact ==
    \A d \in Days, v \in Validators : dayList[d][v] = IF dayWeightOf[d][v] = 0 THEN 0 ELSE 1

\* A settled day lies behind the last reward day and its credits are over; any other has no pot.
SettledIsOver ==
    \A d \in Days :
        IF dayRewards[d].settled
        THEN d <= lastRewardDay /\ now >= (d + 1) * DAY + ATTEST_WINDOW
        ELSE dayRewards[d] = NoReward

\* What the addresses may still claim from a pot, and that the pot has it.
Owing(d) == SumFunction([v \in Validators |-> rewardOf(d, v)])
PotsCoverClaims ==
    \A d \in Days :
        dayRewards[d].settled /\ ~dayRewards[d].swept =>
            dayRewards[d].claimed + Owing(d) <= dayRewards[d].escrowed

\* What is left of a settled pot.
Left(d) ==
    IF dayRewards[d].settled /\ ~dayRewards[d].swept
    THEN Greatest(dayRewards[d].escrowed - dayRewards[d].claimed, 0) ELSE 0

StakeInv == TypeOK /\ NodesAreBacked /\ RollIsExact
VoteInv == ListedOnce /\ StakeIsKept /\ CastIsStillThere /\ CastFits
RewardInv == SettledIsOver /\ PotsCoverClaims /\ RewardBooksBalance

-----------------------------------------------------------------------------
(* Sizes, days and shares *)

LEMMA StakingTypes ==
    /\ EPOCH \in Nat \ {0} /\ EPOCHS_PER_DAY \in Nat \ {0} /\ DAY \in Nat \ {0}
    /\ BPS \in Nat \ {0} /\ ACC_PRECISION \in Nat \ {0} /\ MIN_STAKE \in Nat \ {0}
    /\ Supply \in Nat /\ UNSTAKE_COOLDOWN \in Nat /\ ADMIN_TIMELOCK \in Nat /\ MAX_NODES \in Nat
    /\ REWARD_CLAIM_WINDOW \in Nat /\ COMMIT_WINDOW \in Nat /\ ANCHOR_WAIT \in Nat
    /\ ATTEST_WINDOW \in Nat /\ MaxPostDelay \in Nat /\ StartTime \in Nat /\ MaxEpoch \in Nat
    /\ MAX_VALIDATOR_SHARE_BPS \in 0..BPS /\ REWARD_RELEASE_BPS \in 0..BPS
    /\ Amounts \subseteq Nat \ {0} /\ Fundings \subseteq Nat \ {0}
    /\ IsFiniteSet(Validators) /\ Removable \subseteq Validators
    /\ Epochs \subseteq Nat /\ Days \subseteq Nat /\ IsFiniteSet(Days)
    /\ firstEpoch \in Nat /\ firstEpoch * EPOCH <= StartTime
<1>1. MaxEpoch \div EPOCHS_PER_DAY \in Nat
  BY StakingSizes, DivBounds
<1>2. IsFiniteSet(Days)
  BY <1>1, FS_Interval DEF Days
<1>3. firstEpoch \in Nat /\ firstEpoch * EPOCH <= StartTime
  BY StakingSizes, DivBounds DEF firstEpoch
<1>4. DAY \in Nat \ {0}
  BY StakingSizes DEF DAY
<1>5. Epochs \subseteq Nat /\ Days \subseteq Nat
  BY <1>1, StakingSizes DEF Epochs, Days
<1>6. /\ EPOCH \in Nat \ {0} /\ EPOCHS_PER_DAY \in Nat \ {0} /\ BPS \in Nat \ {0}
      /\ ACC_PRECISION \in Nat \ {0} /\ MIN_STAKE \in Nat \ {0}
  BY StakingSizes
<1>7. /\ Supply \in Nat /\ UNSTAKE_COOLDOWN \in Nat /\ ADMIN_TIMELOCK \in Nat /\ MAX_NODES \in Nat
      /\ REWARD_CLAIM_WINDOW \in Nat /\ COMMIT_WINDOW \in Nat /\ ANCHOR_WAIT \in Nat
      /\ ATTEST_WINDOW \in Nat /\ MaxPostDelay \in Nat /\ StartTime \in Nat /\ MaxEpoch \in Nat
  BY StakingSizes
<1>8. /\ MAX_VALIDATOR_SHARE_BPS \in 0..BPS /\ REWARD_RELEASE_BPS \in 0..BPS
      /\ Amounts \subseteq Nat \ {0} /\ Fundings \subseteq Nat \ {0}
      /\ IsFiniteSet(Validators) /\ Removable \subseteq Validators
  BY StakingSizes
<1> QED BY <1>2, <1>3, <1>4, <1>5, <1>6, <1>7, <1>8

\* An epoch ends within its day, and its day is one of the model's.
LEMMA DayOfEpoch ==
    ASSUME NEW e \in Epochs
    PROVE  e \div EPOCHS_PER_DAY \in Days /\ (e + 1) * EPOCH <= (e \div EPOCHS_PER_DAY + 1) * DAY
<1> DEFINE d == e \div EPOCHS_PER_DAY
<1>1. e \in Nat /\ e <= MaxEpoch /\ MaxEpoch \in Nat
  BY StakingTypes DEF Epochs
<1>2. d \in Nat /\ e < d * EPOCHS_PER_DAY + EPOCHS_PER_DAY /\ d <= MaxEpoch \div EPOCHS_PER_DAY
  BY <1>1, StakingTypes, DivBounds, DivMonotone
<1>3. MaxEpoch \div EPOCHS_PER_DAY \in Nat
  BY <1>1, StakingTypes, DivBounds
<1> HIDE DEF d
<1>4. d \in Days
  BY <1>2, <1>3 DEF Days, d
<1>5. e + 1 <= (d + 1) * EPOCHS_PER_DAY
  BY <1>1, <1>2, StakingTypes
<1>6. (e + 1) * EPOCH <= ((d + 1) * EPOCHS_PER_DAY) * EPOCH
  BY <1>1, <1>2, <1>5, StakingTypes
<1>7. ((d + 1) * EPOCHS_PER_DAY) * EPOCH = (d + 1) * DAY
  BY <1>2, StakingTypes DEF DAY
<1> QED BY <1>4, <1>6, <1>7 DEF d

\* A part of a pot is a number, and nobody's without weight or without a pot.
LEMMA PartType ==
    ASSUME NEW weight \in Nat, NEW rate \in Nat, NEW pot \in Nat
    PROVE  /\ Part(weight, rate, pot) \in Nat
           /\ Part(weight, rate, pot) <= (weight * rate) \div ACC_PRECISION
           /\ (weight = 0 \/ pot = 0) => Part(weight, rate, pot) = 0
<1>1. weight * rate \in Nat /\ pot * MAX_VALIDATOR_SHARE_BPS \in Nat
  BY StakingTypes
<1>2. /\ (weight * rate) \div ACC_PRECISION \in Nat
      /\ (pot * MAX_VALIDATOR_SHARE_BPS) \div BPS \in Nat
  BY <1>1, StakingTypes, DivBounds
<1>3. weight = 0 => (weight * rate) \div ACC_PRECISION = 0
  <2>1. 0 \div ACC_PRECISION = 0
    BY StakingTypes, SMT
  <2> QED BY <2>1
<1>4. pot = 0 => (pot * MAX_VALIDATOR_SHARE_BPS) \div BPS = 0
  <2>1. 0 \div BPS = 0
    BY StakingTypes, SMT
  <2>2. pot = 0 => pot * MAX_VALIDATOR_SHARE_BPS = 0
    BY StakingTypes
  <2> QED BY <2>1, <2>2
<1> QED BY <1>2, <1>3, <1>4 DEF Part, Least

\* What a day's settlement reserves is what its addresses may claim, and no more than the pot.
LEMMA EscrowFits ==
    ASSUME StakeInv, NEW d \in Days, NEW pot \in Nat, rollWeight(d) # 0
    PROVE  LET rate == (pot * ACC_PRECISION) \div rollWeight(d)
           IN  rate \in Nat /\ rollWeight(d) \in Nat /\ PartsOf(d, rate, pot) \in 0..pot
<1> DEFINE w == [v \in Validators |-> IF v \in removed THEN 0 ELSE dayList[d][v] * dayWeightOf[d][v]]
           weight == SumFunctionOnSet(w, Validators)
           rate == (pot * ACC_PRECISION) \div weight
           p == [v \in Validators |->
                    IF v \in removed THEN 0 ELSE dayList[d][v] * Part(dayWeightOf[d][v], rate, pot)]
<1>1. rollWeight(d) = weight /\ PartsOf(d, rate, pot) = SumFunctionOnSet(p, Validators)
  BY DEF rollWeight, PartsOf, SumFunction
<1>2. ASSUME NEW v \in Validators
      PROVE  /\ dayWeightOf[d][v] \in Nat
             /\ dayList[d][v] = IF dayWeightOf[d][v] = 0 THEN 0 ELSE 1
  BY DEF StakeInv, TypeOK, RollIsExact
<1>3. \A v \in Validators : w[v] = (IF v \in removed THEN 0 ELSE dayWeightOf[d][v]) /\ w[v] \in Nat
  BY <1>2
<1>4. weight \in Nat \ {0}
  BY <1>1, <1>3, StakingTypes, SumNat
<1>5. pot * ACC_PRECISION \in Nat
  BY StakingTypes
<1> HIDE DEF weight
<1>6. rate \in Nat /\ rate * weight <= pot * ACC_PRECISION
  BY <1>4, <1>5, DivBounds
<1> HIDE DEF rate
<1>7. ASSUME NEW v \in Validators
      PROVE  p[v] \in Nat /\ p[v] <= (w[v] * rate) \div ACC_PRECISION
  <2> DEFINE part == Part(dayWeightOf[d][v], rate, pot)
  <2>1. /\ part \in Nat /\ part <= (dayWeightOf[d][v] * rate) \div ACC_PRECISION
        /\ (dayWeightOf[d][v] = 0 => part = 0)
    BY <1>2, <1>6, PartType
  <2>2. p[v] = IF v \in removed THEN 0 ELSE part
    BY <1>2, <2>1
  <2>3. 0 <= (0 * rate) \div ACC_PRECISION
    BY <1>6, StakingTypes, DivBounds
  <2> HIDE DEF part, p, w
  <2> QED BY <1>3, <2>1, <2>2, <2>3
<1>8. SumFunctionOnSet(p, Validators) \in Nat
  BY <1>7, StakingTypes, SumNat
<1>9. SumFunctionOnSet(p, Validators) <= (weight * rate) \div ACC_PRECISION
  <2> HIDE DEF p, w
  <2>1. \A v \in Validators : w[v] \in Nat
    BY <1>3
  <2>2. \A v \in Validators : p[v] \in Int
    BY <1>7
  <2>3. \A v \in Validators : p[v] <= (w[v] * rate) \div ACC_PRECISION
    BY <1>7
  <2> QED BY <1>6, <2>1, <2>2, <2>3, StakingTypes, SumOfShares DEF weight
<1>10. weight * rate \in Nat /\ weight * rate <= pot * ACC_PRECISION
  BY <1>4, <1>6
<1>11. (weight * rate) \div ACC_PRECISION <= pot
  BY <1>10, StakingTypes, DivAtMost
<1>12. (weight * rate) \div ACC_PRECISION \in Nat
  BY <1>10, StakingTypes, DivBounds
<1>13. PartsOf(d, rate, pot) \in 0..pot
  BY <1>1, <1>8, <1>9, <1>11, <1>12
<1> QED BY <1>1, <1>4, <1>6, <1>13 DEF rate

-----------------------------------------------------------------------------
(* Types and backing *)

LEMMA StakeInvInit == Init => StakeInv
<1> SUFFICES ASSUME Init PROVE StakeInv
  OBVIOUS
<1>1. TypeOK
  <2>1. firstEpoch - 1 \in Int /\ firstEpoch \div EPOCHS_PER_DAY - 1 \in Int
    BY StakingTypes, DivBounds
  <2>2. [e \in Epochs |-> [v \in Validators |-> NoVote]] \in [Epochs -> [Validators -> [side : Sides, weight : Nat]]]
    BY DEF NoVote, Sides
  <2>3. /\ now \in Nat /\ postedAt \in Nat /\ lastPosted \in Int /\ waiting \in BOOLEAN
        /\ wallet \in Nat /\ nodes \in [Validators -> Nat]
        /\ staked \in [Validators -> Nat] /\ pendingUnstake \in [Validators -> Nat]
        /\ unlockAt \in [Validators -> Nat] /\ removalEta \in [Validators -> Nat]
    BY <2>1, StakingTypes DEF Init
  <2>4. dayRewards \in [Days -> [settled : BOOLEAN, settledAt : Nat, pot : Nat, weight : Nat,
                                 rate : Nat, escrowed : Nat, claimed : Nat, swept : BOOLEAN]]
    BY DEF Init, NoReward
  <2>5. /\ commitments \subseteq Epochs \X Validators /\ hasRevealed \subseteq Epochs \X Validators
        /\ reveals \in [Epochs -> [Validators -> [side : Sides, weight : Nat]]]
        /\ revealers \in [Epochs -> [Validators -> Nat]]
        /\ dayHeadSubmitted \subseteq Days \X Validators
        /\ dayWeightOf \in [Days -> [Validators -> Nat]] /\ dayList \in [Days -> [Validators -> Nat]]
    BY <2>2 DEF Init
  <2>6. /\ rewardBalance \in Nat /\ lifetimeFunded \in Nat /\ lifetimePaid \in Nat
        /\ lastRewardDay \in Int /\ rewardClaimed \subseteq Days \X Validators /\ removed \subseteq Validators
    BY <2>1 DEF Init
  <2> QED BY <2>3, <2>4, <2>5, <2>6 DEF TypeOK
<1>2. NodesAreBacked
  BY StakingTypes DEF Init, NodesAreBacked
<1>3. RollIsExact
  BY DEF Init, RollIsExact
<1> QED BY <1>1, <1>2, <1>3 DEF StakeInv

\* A credit gives a day one more entry and its weight, or nothing.
LEMMA CreditKeepsRoll ==
    ASSUME StakeInv, NEW d \in Days, NEW v \in Validators, NEW weight \in Nat \ {0},
           CreditDay(d, v, weight)
    PROVE  /\ dayWeightOf' \in [Days -> [Validators -> Nat]] /\ dayList' \in [Days -> [Validators -> Nat]]
           /\ RollIsExact'
<1>1. /\ dayWeightOf \in [Days -> [Validators -> Nat]] /\ dayList \in [Days -> [Validators -> Nat]]
      /\ RollIsExact
  BY DEF StakeInv, TypeOK
<1>2. CASE Creditable(d, v)
  <2>1. /\ dayWeightOf' = [dayWeightOf EXCEPT ![d][v] = weight]
        /\ dayList' = [dayList EXCEPT ![d][v] = @ + 1] /\ dayWeightOf[d][v] = 0
    BY <1>2 DEF CreditDay, Creditable
  <2>2. dayList[d][v] = 0
    BY <1>1, <2>1 DEF RollIsExact
  <2> QED BY <1>1, <2>1, <2>2 DEF RollIsExact
<1>3. CASE ~Creditable(d, v)
  BY <1>1, <1>3 DEF CreditDay, RollIsExact
<1> QED BY <1>2, <1>3

\* What an agreeing reveal and a right day head credit.
LEMMA AttestCredits ==
    ASSUME StakeInv, NEW v \in Validators, NEW d \in Days, NEW right \in BOOLEAN, AttestDay(v, d, right)
    PROVE  \/ staked[v] \in Nat \ {0} /\ CreditDay(d, v, staked[v])
           \/ UNCHANGED <<dayWeightOf, dayList>>
BY DEF AttestDay, StakeInv, TypeOK

LEMMA RevealCredits ==
    ASSUME StakeInv, NEW v \in Validators, NEW e \in Epochs, NEW side \in {"agree", "dispute"},
           RevealAttestation(v, e, side)
    PROVE  /\ staked[v] \in Nat \ {0}
           /\ \/ CreditDay(e \div EPOCHS_PER_DAY, v, staked[v])
              \/ UNCHANGED <<dayWeightOf, dayList>>
BY DEF RevealAttestation, File, StakeInv, TypeOK

\* The books of one day change to another record.
RewardRecord == [settled : BOOLEAN, settledAt : Nat, pot : Nat, weight : Nat, rate : Nat,
                 escrowed : Nat, claimed : Nat, swept : BOOLEAN]

LEMMA BooksOfDayType ==
    ASSUME NEW books \in [Days -> RewardRecord], NEW d \in Days, NEW t \in Nat
    PROVE  /\ [books EXCEPT ![d] = [@ EXCEPT !.settled = TRUE, !.settledAt = t]] \in [Days -> RewardRecord]
           /\ [books EXCEPT ![d].claimed = @ + t] \in [Days -> RewardRecord]
           /\ [books EXCEPT ![d].swept = TRUE] \in [Days -> RewardRecord]
<1> DEFINE r == books[d]
<1>1. r \in RewardRecord
  OBVIOUS
<1>2. /\ [r EXCEPT !.settled = TRUE, !.settledAt = t] \in RewardRecord
      /\ [r EXCEPT !.claimed = @ + t] \in RewardRecord
      /\ [r EXCEPT !.swept = TRUE] \in RewardRecord
  <2> HIDE DEF r
  <2>1. [r EXCEPT !.settled = TRUE, !.settledAt = t] \in RewardRecord
    BY <1>1 DEF RewardRecord
  <2>2. [r EXCEPT !.claimed = @ + t] \in RewardRecord
    <3>1. r.claimed + t \in Nat
      BY <1>1 DEF RewardRecord
    <3> DEFINE c == r.claimed + t
    <3>2. [r EXCEPT !.claimed = @ + t] = [r EXCEPT !.claimed = c]
      OBVIOUS
    <3> HIDE DEF c
    <3>3. [r EXCEPT !.claimed = c] \in RewardRecord
      BY <1>1, <3>1 DEF RewardRecord, c
    <3> QED BY <3>2, <3>3
  <2>3. [r EXCEPT !.swept = TRUE] \in RewardRecord
    BY <1>1 DEF RewardRecord
  <2> QED BY <2>1, <2>2, <2>3
<1>3. [books EXCEPT ![d] = [@ EXCEPT !.settled = TRUE, !.settledAt = t]]
        = [books EXCEPT ![d] = [r EXCEPT !.settled = TRUE, !.settledAt = t]]
  OBVIOUS
<1>4. [books EXCEPT ![d].claimed = @ + t] = [books EXCEPT ![d] = [r EXCEPT !.claimed = @ + t]]
  OBVIOUS
<1>5. [books EXCEPT ![d].swept = TRUE] = [books EXCEPT ![d] = [r EXCEPT !.swept = TRUE]]
  OBVIOUS
<1> HIDE DEF r
<1> QED BY <1>2, <1>3, <1>4, <1>5

LEMMA TypeStep == StakeInv /\ [Next]_vars => TypeOK'
<1> SUFFICES ASSUME StakeInv, [Next]_vars PROVE TypeOK'
  OBVIOUS
<1> USE StakingTypes
<1>0. TypeOK
  BY DEF StakeInv
<1>1. CASE Tick
  BY <1>0, <1>1 DEF TypeOK, Tick, anchorVars, stakeVars, voteVars, rollVars, rewardVars, adminVars
<1>2. CASE PostAnchor
  BY <1>0, <1>2 DEF TypeOK, PostAnchor, stakeVars, voteVars, rollVars, rewardVars, adminVars
<1>3. CASE ResolveAnchor
  BY <1>0, <1>3 DEF TypeOK, ResolveAnchor, stakeVars, voteVars, rollVars, rewardVars, adminVars
<1>4. ASSUME NEW v \in Validators, NEW amount \in Amounts, Stake(v, amount) PROVE TypeOK'
  BY <1>0, <1>4 DEF TypeOK, Stake, anchorVars, voteVars, rollVars, rewardVars, adminVars
<1>5. ASSUME NEW v \in Validators, NEW amount \in Amounts, RequestUnstake(v, amount) PROVE TypeOK'
  BY <1>0, <1>5 DEF TypeOK, RequestUnstake, Unstakable, anchorVars, voteVars, rollVars, rewardVars, adminVars
<1>6. ASSUME NEW v \in Validators, WithdrawUnstaked(v) PROVE TypeOK'
  BY <1>0, <1>6 DEF TypeOK, WithdrawUnstaked, anchorVars, voteVars, rollVars, rewardVars, adminVars
<1>7. ASSUME NEW v \in Validators, RegisterNode(v) PROVE TypeOK'
  BY <1>0, <1>7 DEF TypeOK, RegisterNode, anchorVars, stakeVars, voteVars, rollVars, rewardVars, adminVars
<1>8. ASSUME NEW v \in Validators, RetireNode(v) PROVE TypeOK'
  BY <1>0, <1>8 DEF TypeOK, RetireNode, anchorVars, stakeVars, voteVars, rollVars, rewardVars, adminVars
<1>9. ASSUME NEW v \in Validators, NEW d \in Days, NEW right \in BOOLEAN, AttestDay(v, d, right) PROVE TypeOK'
  <2>1. dayWeightOf' \in [Days -> [Validators -> Nat]] /\ dayList' \in [Days -> [Validators -> Nat]]
    BY <1>0, <1>9, AttestCredits, CreditKeepsRoll DEF TypeOK
  <2> QED BY <1>0, <1>9, <2>1 DEF TypeOK, AttestDay, anchorVars, stakeVars, voteVars, rewardVars, adminVars
<1>10. ASSUME NEW v \in Validators, NEW e \in Epochs, CommitAttestation(v, e) PROVE TypeOK'
  BY <1>0, <1>10 DEF TypeOK, CommitAttestation, anchorVars, stakeVars, rollVars, rewardVars, adminVars
<1>11. ASSUME NEW v \in Validators, NEW e \in Epochs, RevealVoid(v, e) PROVE TypeOK'
  BY <1>0, <1>11 DEF TypeOK, RevealVoid, anchorVars, stakeVars, rollVars, rewardVars, adminVars
<1>12. ASSUME NEW v \in Validators, NEW e \in Epochs, NEW side \in {"agree", "dispute"}, File(v, e, side)
       PROVE  /\ reveals' \in [Epochs -> [Validators -> [side : Sides, weight : Nat]]]
              /\ revealers' \in [Epochs -> [Validators -> Nat]]
  <2> DEFINE Vote == [side : Sides, weight : Nat]
             vote == [side |-> side, weight |-> staked[v]]
  <2>1. vote \in Vote
    BY <1>0 DEF TypeOK, Sides
  <2>2. reveals \in [Epochs -> [Validators -> Vote]] /\ reveals' = [reveals EXCEPT ![e][v] = vote]
    BY <1>0, <1>12 DEF TypeOK, File
  <2>3. revealers' \in [Epochs -> [Validators -> Nat]]
    BY <1>0, <1>12 DEF TypeOK, File
  <2> HIDE DEF vote, Vote
  <2>4. reveals' \in [Epochs -> [Validators -> Vote]]
    BY <2>1, <2>2
  <2> QED BY <2>3, <2>4 DEF Vote
<1>13. ASSUME NEW v \in Validators, NEW e \in Epochs, DisputeAnchor(v, e) PROVE TypeOK'
  <2>1. /\ reveals' \in [Epochs -> [Validators -> [side : Sides, weight : Nat]]]
        /\ revealers' \in [Epochs -> [Validators -> Nat]]
    BY <1>12, <1>13 DEF DisputeAnchor
  <2> QED BY <1>0, <1>13, <2>1 DEF TypeOK, DisputeAnchor, anchorVars, stakeVars, rollVars, rewardVars, adminVars
<1>14. ASSUME NEW v \in Validators, NEW e \in Epochs, NEW side \in {"agree", "dispute"},
              RevealAttestation(v, e, side)
       PROVE  TypeOK'
  <2>1. /\ reveals' \in [Epochs -> [Validators -> [side : Sides, weight : Nat]]]
        /\ revealers' \in [Epochs -> [Validators -> Nat]]
    BY <1>12, <1>14 DEF RevealAttestation
  <2>2. dayWeightOf' \in [Days -> [Validators -> Nat]] /\ dayList' \in [Days -> [Validators -> Nat]]
    BY SMTT(30), <1>0, <1>14, DayOfEpoch, RevealCredits, CreditKeepsRoll DEF TypeOK
  <2> QED BY <1>0, <1>14, <2>1, <2>2 DEF TypeOK, RevealAttestation, anchorVars, stakeVars, rewardVars, adminVars
<1>15. ASSUME NEW amount \in Fundings, FundRewards(amount) PROVE TypeOK'
  BY <1>0, <1>15 DEF TypeOK, FundRewards, anchorVars, stakeVars, voteVars, rollVars, adminVars
<1>16. ASSUME NEW d \in Days, SettleDayRewards(d) PROVE TypeOK'
  <2> DEFINE pot == (rewardBalance * REWARD_RELEASE_BPS) \div BPS
             rate == (pot * ACC_PRECISION) \div rollWeight(d)
             escrowed == PartsOf(d, rate, pot)
  <2>1. pot \in Nat /\ pot <= rewardBalance
    <3>1. REWARD_RELEASE_BPS * rewardBalance = rewardBalance * REWARD_RELEASE_BPS
      BY <1>0 DEF TypeOK
    <3>2. (REWARD_RELEASE_BPS * rewardBalance) \div BPS \in 0..rewardBalance
      BY <1>0, ShareAtMost DEF TypeOK
    <3> QED BY <1>0, <3>1, <3>2 DEF TypeOK
  <2> HIDE DEF pot
  <2>2. rollWeight(d) # 0 => rate \in Nat /\ rollWeight(d) \in Nat /\ escrowed \in 0..pot
    BY <2>1, EscrowFits
  <2> HIDE DEF rate, escrowed
  <2>3. /\ rewardBalance' \in Nat
        /\ dayRewards' \in [Days -> [settled : BOOLEAN, settledAt : Nat, pot : Nat, weight : Nat,
                                     rate : Nat, escrowed : Nat, claimed : Nat, swept : BOOLEAN]]
    <3>1. CASE pot = 0 \/ rollWeight(d) = 0
      <4>1. /\ rewardBalance' = rewardBalance
            /\ dayRewards' = [dayRewards EXCEPT ![d] = [@ EXCEPT !.settled = TRUE, !.settledAt = now]]
        BY <1>16, <3>1 DEF SettleDayRewards, pot
      <4>2. dayRewards' \in [Days -> RewardRecord]
        BY <1>0, <4>1, BooksOfDayType DEF TypeOK, RewardRecord
      <4> QED BY <1>0, <4>1, <4>2 DEF TypeOK, RewardRecord
    <3>2. CASE ~(pot = 0 \/ rollWeight(d) = 0)
      <4>1. /\ rewardBalance' = rewardBalance - escrowed
            /\ dayRewards' = [dayRewards EXCEPT ![d] =
                  [settled |-> TRUE, settledAt |-> now, pot |-> pot, weight |-> rollWeight(d),
                   rate |-> rate, escrowed |-> escrowed, claimed |-> 0, swept |-> FALSE]]
        BY <1>16, <3>2 DEF SettleDayRewards, pot, rate, escrowed
      <4> QED BY <1>0, <2>1, <2>2, <3>2, <4>1 DEF TypeOK
    <3> QED BY <3>1, <3>2
  <2> QED BY <1>0, <1>16, <2>3 DEF TypeOK, SettleDayRewards, anchorVars, stakeVars, voteVars, rollVars, adminVars
<1>17. ASSUME NEW d \in Days, SweepExpired(d) PROVE TypeOK'
  <2>1. Returned(d) \in Nat
    BY <1>0, <1>17 DEF TypeOK, SweepExpired, Returned
  <2>2. dayRewards' \in [Days -> RewardRecord]
    BY <1>0, <1>17, BooksOfDayType DEF TypeOK, SweepExpired, RewardRecord
  <2> QED BY <1>0, <1>17, <2>1, <2>2 DEF TypeOK, RewardRecord, SweepExpired, anchorVars, stakeVars, voteVars, rollVars, adminVars
<1>18. ASSUME NEW d \in Days, NEW v \in Validators, ClaimReward(d, v) PROVE TypeOK'
  <2>1. rewardOf(d, v) \in Nat
    <3>1. dayWeightOf[d][v] \in Nat /\ dayRewards[d].rate \in Nat /\ dayRewards[d].pot \in Nat
      BY <1>0 DEF TypeOK
    <3> QED BY <3>1, PartType DEF rewardOf
  <2> DEFINE r == rewardOf(d, v)
  <2>2. /\ dayRewards' = [dayRewards EXCEPT ![d].claimed = @ + r] /\ lifetimePaid' = lifetimePaid + r
        /\ rewardClaimed' = rewardClaimed \cup {<<d, v>>}
    BY <1>18 DEF ClaimReward
  <2> HIDE DEF r
  <2>3. dayRewards' \in [Days -> RewardRecord]
    BY <1>0, <2>1, <2>2, BooksOfDayType DEF TypeOK, r, RewardRecord
  <2>4. lifetimePaid' \in Nat /\ rewardClaimed' \subseteq Days \X Validators
    BY <1>0, <2>1, <2>2 DEF TypeOK, r
  <2> QED BY <1>0, <1>18, <2>3, <2>4 DEF TypeOK, RewardRecord, ClaimReward, anchorVars, stakeVars, voteVars, rollVars, adminVars
<1>19. ASSUME NEW v \in Removable, ProposeRemoveValidator(v) \/ ExecuteRemoveValidator(v) \/ CancelRemoveValidator(v)
       PROVE  TypeOK'
  BY <1>0, <1>19 DEF TypeOK, ProposeRemoveValidator, ExecuteRemoveValidator, CancelRemoveValidator,
       anchorVars, stakeVars, voteVars, rollVars, rewardVars
<1>20. CASE UNCHANGED vars
  BY <1>0, <1>20 DEF TypeOK, vars, anchorVars, stakeVars, voteVars, rollVars, rewardVars, adminVars
<1> QED BY <1>1, <1>2, <1>3, <1>4, <1>5, <1>6, <1>7, <1>8, <1>9, <1>10, <1>11, <1>13, <1>14, <1>15,
           <1>16, <1>17, <1>18, <1>19, <1>20 DEF Next, ValidatorStep, RewardStep, AdminStep

\* Which steps move stake and nodes, vote, credit a day, and touch the reward books.
LEMMA WhoMovesStake ==
    ASSUME [Next]_vars
    PROVE  \/ UNCHANGED <<stakeVars, nodes>>
           \/ \E v \in Validators :
                 \/ \E amount \in Amounts : Stake(v, amount) \/ RequestUnstake(v, amount)
                 \/ WithdrawUnstaked(v) \/ RegisterNode(v) \/ RetireNode(v)
<1>1. CASE Tick \/ PostAnchor \/ ResolveAnchor \/ UNCHANGED vars
  BY <1>1 DEF Tick, PostAnchor, ResolveAnchor, vars
<1>2. CASE \E v \in Validators : ValidatorStep(v)
  BY <1>2 DEF ValidatorStep, AttestDay, CommitAttestation, RevealVoid, DisputeAnchor, RevealAttestation
<1>3. CASE RewardStep
  BY <1>3 DEF RewardStep, FundRewards, SettleDayRewards, SweepExpired, ClaimReward
<1>4. CASE AdminStep
  BY <1>4 DEF AdminStep, ProposeRemoveValidator, ExecuteRemoveValidator, CancelRemoveValidator
<1> QED BY <1>1, <1>2, <1>3, <1>4 DEF Next

LEMMA WhoVotes ==
    ASSUME [Next]_vars
    PROVE  \/ UNCHANGED voteVars
           \/ \E v \in Validators, e \in Epochs :
                 \/ CommitAttestation(v, e) \/ RevealVoid(v, e) \/ DisputeAnchor(v, e)
                 \/ \E side \in {"agree", "dispute"} : RevealAttestation(v, e, side)
<1>1. CASE Tick \/ PostAnchor \/ ResolveAnchor \/ UNCHANGED vars
  BY <1>1 DEF Tick, PostAnchor, ResolveAnchor, vars
<1>2. CASE \E v \in Validators : ValidatorStep(v)
  BY <1>2 DEF ValidatorStep, Stake, RequestUnstake, WithdrawUnstaked, RegisterNode, RetireNode, AttestDay
<1>3. CASE RewardStep
  BY <1>3 DEF RewardStep, FundRewards, SettleDayRewards, SweepExpired, ClaimReward
<1>4. CASE AdminStep
  BY <1>4 DEF AdminStep, ProposeRemoveValidator, ExecuteRemoveValidator, CancelRemoveValidator
<1> QED BY <1>1, <1>2, <1>3, <1>4 DEF Next

LEMMA WhoCredits ==
    ASSUME StakeInv, [Next]_vars
    PROVE  \/ UNCHANGED <<dayWeightOf, dayList>>
           \/ \E v \in Validators, d \in Days :
                 /\ staked[v] \in Nat \ {0} /\ CreditDay(d, v, staked[v])
                 /\ \/ \E right \in BOOLEAN : AttestDay(v, d, right)
                    \/ \E e \in Epochs, side \in {"agree", "dispute"} :
                          d = e \div EPOCHS_PER_DAY /\ RevealAttestation(v, e, side)
<1>1. CASE Tick \/ PostAnchor \/ ResolveAnchor \/ UNCHANGED vars
  BY <1>1 DEF Tick, PostAnchor, ResolveAnchor, vars, rollVars
<1>2. ASSUME NEW v \in Validators, ValidatorStep(v)
      PROVE  \/ UNCHANGED rollVars
             \/ \E d \in Days, right \in BOOLEAN : AttestDay(v, d, right)
             \/ \E e \in Epochs, side \in {"agree", "dispute"} : RevealAttestation(v, e, side)
  BY <1>2 DEF ValidatorStep, Stake, RequestUnstake, WithdrawUnstaked, RegisterNode, RetireNode,
       CommitAttestation, RevealVoid, DisputeAnchor
<1>3. CASE RewardStep
  BY <1>3 DEF RewardStep, FundRewards, SettleDayRewards, SweepExpired, ClaimReward, rollVars
<1>4. CASE AdminStep
  BY <1>4 DEF AdminStep, ProposeRemoveValidator, ExecuteRemoveValidator, CancelRemoveValidator, rollVars
<1>5. CASE \E v \in Validators : ValidatorStep(v)
  <2> PICK v \in Validators : ValidatorStep(v)
    BY <1>5
  <2>1. CASE UNCHANGED rollVars
    BY <2>1 DEF rollVars
  <2>2. ASSUME NEW d \in Days, NEW right \in BOOLEAN, AttestDay(v, d, right)
        PROVE  \/ UNCHANGED <<dayWeightOf, dayList>>
               \/ staked[v] \in Nat \ {0} /\ CreditDay(d, v, staked[v])
    BY <2>2, AttestCredits
  <2>3. ASSUME NEW e \in Epochs, NEW side \in {"agree", "dispute"}, RevealAttestation(v, e, side)
        PROVE  /\ e \div EPOCHS_PER_DAY \in Days /\ staked[v] \in Nat \ {0}
               /\ \/ UNCHANGED <<dayWeightOf, dayList>>
                  \/ CreditDay(e \div EPOCHS_PER_DAY, v, staked[v])
    BY <2>3, RevealCredits, DayOfEpoch
  <2> QED BY <1>2, <2>1, <2>2, <2>3
<1> QED BY <1>1, <1>3, <1>4, <1>5 DEF Next

LEMMA WhoMovesRewards ==
    ASSUME [Next]_vars
    PROVE  \/ UNCHANGED <<rewardVars, removed>>
           \/ UNCHANGED rewardVars /\ AdminStep
           \/ RewardStep
<1>1. CASE Tick \/ PostAnchor \/ ResolveAnchor \/ UNCHANGED vars
  BY <1>1 DEF Tick, PostAnchor, ResolveAnchor, vars, adminVars
<1>2. CASE \E v \in Validators : ValidatorStep(v)
  BY ZenonT(60), <1>2 DEF ValidatorStep, Stake, RequestUnstake, WithdrawUnstaked, RegisterNode, RetireNode,
       AttestDay, CommitAttestation, RevealVoid, DisputeAnchor, RevealAttestation, adminVars
<1>3. CASE AdminStep
  BY <1>3 DEF AdminStep, ProposeRemoveValidator, ExecuteRemoveValidator, CancelRemoveValidator
<1> QED BY <1>1, <1>2, <1>3 DEF Next

LEMMA StakeInvStep == StakeInv /\ [Next]_vars => StakeInv'
<1> SUFFICES ASSUME StakeInv, [Next]_vars PROVE StakeInv'
  OBVIOUS
<1>1. TypeOK'
  BY TypeStep
<1>2. RollIsExact'
  <2>1. CASE UNCHANGED <<dayWeightOf, dayList>>
    BY <2>1 DEF StakeInv, RollIsExact
  <2>2. ASSUME NEW v \in Validators, NEW d \in Days, staked[v] \in Nat \ {0}, CreditDay(d, v, staked[v])
        PROVE  RollIsExact'
    BY <2>2, CreditKeepsRoll
  <2> QED BY <2>1, <2>2, WhoCredits
<1>3. NodesAreBacked'
  <2>0. /\ staked \in [Validators -> Nat] /\ nodes \in [Validators -> Nat] /\ MIN_STAKE \in Nat
        /\ NodesAreBacked /\ Amounts \subseteq Nat
    BY StakingTypes DEF StakeInv, TypeOK
  <2>1. CASE UNCHANGED <<stakeVars, nodes>>
    BY <2>0, <2>1 DEF NodesAreBacked, stakeVars
  <2>2. ASSUME NEW v \in Validators, NEW amount \in Amounts, Stake(v, amount) PROVE NodesAreBacked'
    BY <2>0, <2>2 DEF NodesAreBacked, Stake
  <2>3. ASSUME NEW v \in Validators, NEW amount \in Amounts, RequestUnstake(v, amount) PROVE NodesAreBacked'
    BY <2>0, <2>3 DEF NodesAreBacked, RequestUnstake, Unstakable, backing
  <2>4. ASSUME NEW v \in Validators, WithdrawUnstaked(v) PROVE NodesAreBacked'
    BY <2>0, <2>4 DEF NodesAreBacked, WithdrawUnstaked
  <2>5. ASSUME NEW v \in Validators, RegisterNode(v) PROVE NodesAreBacked'
    <3>1. MIN_STAKE * (nodes[v] + 1) = MIN_STAKE * nodes[v] + MIN_STAKE
      BY <2>0
    <3> QED BY <2>0, <2>5, <3>1 DEF NodesAreBacked, RegisterNode, backing, stakeVars
  <2>6. ASSUME NEW v \in Validators, RetireNode(v) PROVE NodesAreBacked'
    <3>1. MIN_STAKE * (nodes[v] - 1) <= MIN_STAKE * nodes[v]
      BY <2>0
    <3> QED BY <2>0, <2>6, <3>1 DEF NodesAreBacked, RetireNode, stakeVars
  <2> QED BY <2>1, <2>2, <2>3, <2>4, <2>5, <2>6, WhoMovesStake
<1> QED BY <1>1, <1>2, <1>3 DEF StakeInv

LEMMA StakeInvHolds == Spec => []StakeInv
<1>1. Init => StakeInv
  BY StakeInvInit
<1>2. StakeInv /\ [Next]_vars => StakeInv'
  BY StakeInvStep
<1> QED BY <1>1, <1>2, PTL DEF Spec

\* However stake is staked, requested back and withdrawn and nodes are registered and retired, the
\* state keeps its type and every node has a full MIN_STAKE of its own behind it
\* (registerNode, requestUnstake).
THEOREM StakeSound == Spec => []StakeIsSound
<1>1. StakeInv => StakeIsSound
  BY DEF StakeInv, StakeIsSound
<1> QED BY <1>1, StakeInvHolds, PTL

-----------------------------------------------------------------------------
(* Anchors, commitments and votes *)

LEMMA WhoAnchors ==
    ASSUME [Next]_vars
    PROVE  \/ UNCHANGED <<now, anchorVars>>
           \/ now' = now + 1 /\ UNCHANGED <<anchorVars, stakeVars, voteVars>>
           \/ PostAnchor \/ ResolveAnchor
<1>1. CASE Tick
  BY <1>1 DEF Tick
<1>2. CASE \E v \in Validators : ValidatorStep(v)
  BY ZenonT(60), <1>2 DEF ValidatorStep, Stake, RequestUnstake, WithdrawUnstaked, RegisterNode, RetireNode,
       AttestDay, CommitAttestation, RevealVoid, DisputeAnchor, RevealAttestation
<1>3. CASE RewardStep
  BY <1>3 DEF RewardStep, FundRewards, SettleDayRewards, SweepExpired, ClaimReward
<1>4. CASE AdminStep
  BY <1>4 DEF AdminStep, ProposeRemoveValidator, ExecuteRemoveValidator, CancelRemoveValidator
<1>5. CASE UNCHANGED vars
  BY <1>5 DEF vars
<1> QED BY <1>1, <1>2, <1>3, <1>4, <1>5 DEF Next

LEMMA AnchorsAreTimedHolds == Spec => []AnchorsAreTimed
<1> USE StakingTypes
<1>1. Init => AnchorsAreTimed
  BY DEF Init, AnchorsAreTimed
<1>2. StakeInv /\ AnchorsAreTimed /\ [Next]_vars => AnchorsAreTimed'
  <2> SUFFICES ASSUME StakeInv, AnchorsAreTimed, [Next]_vars PROVE AnchorsAreTimed'
    OBVIOUS
  <2>1. now \in Nat /\ postedAt \in Nat /\ lastPosted \in Int /\ waiting \in BOOLEAN
    BY DEF StakeInv, TypeOK
  <2>2. CASE UNCHANGED <<now, anchorVars>>
    BY <2>2 DEF AnchorsAreTimed, anchorVars
  <2>3. CASE now' = now + 1 /\ UNCHANGED <<anchorVars, stakeVars, voteVars>>
    BY <2>1, <2>3 DEF AnchorsAreTimed, anchorVars
  <2>4. CASE PostAnchor
    <3> DEFINE e == lastPosted + 1
               due == (e + 1) * EPOCH + COMMIT_WINDOW
    <3>1. e \in Epochs /\ e \in Nat /\ now \in due..due + MaxPostDelay
          /\ lastPosted' = e /\ postedAt' = now /\ waiting' = TRUE /\ now' = now /\ e >= firstEpoch
      BY <2>1, <2>4 DEF PostAnchor, AnchorsAreTimed
    <3>2. due \in Nat
      BY <3>1
    <3> HIDE DEF due
    <3>3. now >= due /\ now <= due + MaxPostDelay
      BY <2>1, <3>1, <3>2
    <3> QED BY <2>1, <3>1, <3>3 DEF AnchorsAreTimed, due
  <2>5. CASE ResolveAnchor
    BY <2>1, <2>5 DEF AnchorsAreTimed, ResolveAnchor
  <2> QED BY <2>2, <2>3, <2>4, <2>5, WhoAnchors
<1> QED BY <1>1, <1>2, StakeInvHolds, PTL DEF Spec

\* No commitment is filed once the anchor of its epoch exists: the deadline of a commitment is the
\* time from which that anchor may come (commitAttestation against ChainAnchor.postAnchor's check 4).
THEOREM CommitmentsBlind == Spec => CommitmentsAreBlind
<1>1. StakeInv /\ AnchorsAreTimed /\ [Next]_vars =>
        [\A e \in Epochs, v \in Validators :
            <<e, v>> \in commitments' \ commitments => e \notin firstEpoch..lastPosted]_vars
  <2> SUFFICES ASSUME StakeInv, AnchorsAreTimed, [Next]_vars,
                      NEW e \in Epochs, NEW v \in Validators, <<e, v>> \in commitments' \ commitments,
                      e \in firstEpoch..lastPosted
               PROVE  FALSE
    OBVIOUS
  <2>1. CommitAttestation(v, e)
    <3>1. ~UNCHANGED voteVars
      BY DEF voteVars
    <3>2. PICK w \in Validators, x \in Epochs :
             \/ CommitAttestation(w, x) \/ RevealVoid(w, x) \/ DisputeAnchor(w, x)
             \/ \E side \in {"agree", "dispute"} : RevealAttestation(w, x, side)
      BY <3>1, WhoVotes
    <3>3. CommitAttestation(w, x)
      BY <3>2 DEF RevealVoid, DisputeAnchor, RevealAttestation
    <3>4. <<e, v>> = <<x, w>>
      BY <3>3 DEF CommitAttestation
    <3> QED BY <3>3, <3>4
  <2>2. e \in Nat /\ lastPosted \in Nat /\ e <= lastPosted /\ lastPosted >= firstEpoch /\ now \in Nat
    BY StakingTypes DEF StakeInv, TypeOK
  <2>3. now < (e + 1) * EPOCH + COMMIT_WINDOW
    BY <2>1 DEF CommitAttestation, Committable
  <2>4. now >= (lastPosted + 1) * EPOCH + COMMIT_WINDOW
    BY <2>2 DEF AnchorsAreTimed
  <2>5. (e + 1) * EPOCH <= (lastPosted + 1) * EPOCH
    BY <2>2, StakingTypes
  <2>6. (e + 1) * EPOCH \in Nat /\ (lastPosted + 1) * EPOCH \in Nat
    BY <2>2, StakingTypes
  <2> QED BY <2>2, <2>3, <2>4, <2>5, <2>6, StakingTypes
<1> QED BY <1>1, StakeInvHolds, AnchorsAreTimedHolds, PTL DEF Spec, CommitmentsAreBlind

\* A vote that is filed puts its stake on the list of its epoch, where it was not.
LEMMA FiledVotes ==
    ASSUME StakeInv, ListedOnce, NEW v \in Validators, NEW e \in Epochs,
           \/ DisputeAnchor(v, e)
           \/ \E side \in {"agree", "dispute"} : RevealAttestation(v, e, side)
    PROVE  /\ TakesVotes(e) /\ hasRevealed' = hasRevealed \cup {<<e, v>>}
           /\ UNCHANGED <<now, anchorVars, stakeVars>>
           /\ revealers' = [revealers EXCEPT ![e][v] = 1]
           /\ Cast(e, v)' = staked[v]
           /\ \A x \in Epochs, w \in Validators : <<x, w>> # <<e, v>> => Cast(x, w)' = Cast(x, w)
<1>1. PICK side \in {"agree", "dispute"} : File(v, e, side)
  BY DEF DisputeAnchor, RevealAttestation
<1>2. TakesVotes(e) /\ <<e, v>> \notin hasRevealed /\ hasRevealed' = hasRevealed \cup {<<e, v>>}
      /\ UNCHANGED <<now, anchorVars, stakeVars>>
  BY DEF DisputeAnchor, RevealAttestation, MayDispute
<1>3. revealers \in [Epochs -> [Validators -> Nat]] /\ revealers[e][v] = 0 /\ staked[v] \in Nat
      /\ reveals \in [Epochs -> [Validators -> [side : Sides, weight : Nat]]]
  BY <1>2 DEF ListedOnce, StakeInv, TypeOK
<1>4. revealers' = [revealers EXCEPT ![e][v] = 1]
  BY <1>1, <1>3 DEF File
<1> DEFINE vote == [side |-> side, weight |-> staked[v]]
<1>5. reveals' = [reveals EXCEPT ![e][v] = vote]
  BY <1>1 DEF File
<1>6. vote.weight = staked[v]
  OBVIOUS
<1> HIDE DEF vote
<1>7. reveals'[e][v] = vote /\ revealers'[e][v] = 1
  BY <1>3, <1>4, <1>5
<1>8. \A x \in Epochs, w \in Validators :
        <<x, w>> # <<e, v>> => reveals'[x][w] = reveals[x][w] /\ revealers'[x][w] = revealers[x][w]
  BY <1>3, <1>4, <1>5
<1>9. Cast(e, v)' = staked[v]
  BY <1>3, <1>6, <1>7 DEF Cast
<1> QED BY <1>2, <1>4, <1>8, <1>9 DEF Cast

LEMMA CastType ==
    ASSUME StakeInv, NEW e \in Epochs, NEW v \in Validators
    PROVE  Cast(e, v) \in Nat
<1>1. revealers[e][v] \in Nat /\ reveals[e][v].weight \in Nat
  BY DEF StakeInv, TypeOK
<1> QED BY <1>1, ProductType DEF Cast

\* Without a filed vote nobody's cast changes.
LEMMA NothingFiled ==
    ASSUME [Next]_vars
    PROVE  \/ UNCHANGED <<reveals, revealers>> /\ hasRevealed \subseteq hasRevealed'
           \/ \E v \in Validators, e \in Epochs :
                 \/ DisputeAnchor(v, e)
                 \/ \E side \in {"agree", "dispute"} : RevealAttestation(v, e, side)
<1>1. CASE UNCHANGED voteVars
  BY <1>1 DEF voteVars
<1>2. ASSUME NEW v \in Validators, NEW e \in Epochs, CommitAttestation(v, e) \/ RevealVoid(v, e)
      PROVE  UNCHANGED <<reveals, revealers>> /\ hasRevealed \subseteq hasRevealed'
  BY <1>2 DEF CommitAttestation, RevealVoid
<1> QED BY <1>1, <1>2, WhoVotes

LEMMA ListedOnceStep == StakeInv /\ ListedOnce /\ [Next]_vars => ListedOnce'
<1> SUFFICES ASSUME StakeInv, ListedOnce, [Next]_vars PROVE ListedOnce'
  OBVIOUS
<1>1. lastPosted \in Int /\ lastPosted' \in Int /\ lastPosted <= lastPosted'
      /\ revealers \in [Epochs -> [Validators -> Nat]] /\ Epochs \subseteq Nat
  <2>1. lastPosted \in Int
    BY DEF StakeInv, TypeOK
  <2>2. lastPosted' = lastPosted \/ lastPosted' = lastPosted + 1
    BY WhoAnchors DEF anchorVars, PostAnchor, ResolveAnchor
  <2> QED BY <2>1, <2>2, StakingTypes DEF StakeInv, TypeOK
<1>2. CASE UNCHANGED <<reveals, revealers>> /\ hasRevealed \subseteq hasRevealed'
  <2> SUFFICES ASSUME NEW e \in Epochs, NEW v \in Validators
               PROVE  /\ revealers[e][v] <= 1
                      /\ <<e, v>> \notin hasRevealed' => revealers[e][v] = 0
                      /\ e > lastPosted' => revealers[e][v] = 0
    BY <1>2 DEF ListedOnce
  <2> QED BY <1>1, <1>2 DEF ListedOnce
<1>3. ASSUME NEW w \in Validators, NEW x \in Epochs,
             \/ DisputeAnchor(w, x)
             \/ \E side \in {"agree", "dispute"} : RevealAttestation(w, x, side)
      PROVE  ListedOnce'
  <2>1. /\ x = lastPosted /\ lastPosted' = lastPosted /\ hasRevealed' = hasRevealed \cup {<<x, w>>}
        /\ revealers' = [revealers EXCEPT ![x][w] = 1]
    BY <1>3, FiledVotes DEF TakesVotes, anchorVars
  <2> SUFFICES ASSUME NEW e \in Epochs, NEW v \in Validators
               PROVE  /\ revealers'[e][v] <= 1
                      /\ <<e, v>> \notin hasRevealed' => revealers'[e][v] = 0
                      /\ e > lastPosted' => revealers'[e][v] = 0
    BY DEF ListedOnce
  <2>2. CASE e = x /\ v = w
    BY <1>1, <2>1, <2>2
  <2>3. CASE ~(e = x /\ v = w)
    <3>1. revealers'[e][v] = revealers[e][v]
      BY <1>1, <2>1, <2>3
    <3> QED BY <1>1, <2>1, <3>1 DEF ListedOnce
  <2> QED BY <2>2, <2>3
<1> QED BY <1>2, <1>3, NothingFiled

\* Stake moves between nobody's, staked and on its way out.
LEMMA StakeIsKeptInit == Init => StakeIsKept
<1> SUFFICES ASSUME Init PROVE StakeIsKept
  OBVIOUS
<1>1. (\A v \in Validators : staked[v] = 0) /\ (\A v \in Validators : pendingUnstake[v] = 0)
      /\ wallet = Supply /\ DOMAIN staked = Validators /\ DOMAIN pendingUnstake = Validators
  BY DEF Init
<1>2. SumFunctionOnSet(staked, Validators) = 0
  BY <1>1, StakingTypes, SumZero
<1>3. SumFunctionOnSet(pendingUnstake, Validators) = 0
  BY <1>1, StakingTypes, SumZero
<1> QED BY <1>1, <1>2, <1>3, StakingTypes DEF StakeIsKept, SumFunction

LEMMA StakeSums ==
    ASSUME StakeInv
    PROVE  /\ SumFunction(staked) = SumFunctionOnSet(staked, Validators)
           /\ SumFunction(pendingUnstake) = SumFunctionOnSet(pendingUnstake, Validators)
           /\ SumFunction(staked) \in Nat /\ SumFunction(pendingUnstake) \in Nat
<1>1. staked \in [Validators -> Nat] /\ pendingUnstake \in [Validators -> Nat]
  BY DEF StakeInv, TypeOK
<1>2. /\ SumFunction(staked) = SumFunctionOnSet(staked, Validators)
      /\ SumFunction(pendingUnstake) = SumFunctionOnSet(pendingUnstake, Validators)
  BY <1>1 DEF SumFunction
<1>3. SumFunctionOnSet(staked, Validators) \in Nat
  BY <1>1, StakingTypes, SumNat
<1>4. SumFunctionOnSet(pendingUnstake, Validators) \in Nat
  BY <1>1, StakingTypes, SumNat
<1> QED BY <1>2, <1>3, <1>4

\* The sum of one address's figure changes by as much as the figure.
LEMMA OneFigure ==
    ASSUME NEW f \in [Validators -> Nat], NEW v \in Validators, NEW n \in Nat
    PROVE  SumFunction([f EXCEPT ![v] = n]) = SumFunction(f) - f[v] + n
<1> DEFINE g == [f EXCEPT ![v] = n]
<1>1. /\ \A y \in Validators : f[y] \in Int /\ g[y] \in Int
      /\ \A y \in Validators \ {v} : g[y] = f[y]
      /\ g[v] = n /\ DOMAIN g = Validators /\ DOMAIN f = Validators
  OBVIOUS
<1> HIDE DEF g
<1>2. SumFunctionOnSet(g, Validators) = SumFunctionOnSet(f, Validators) - f[v] + g[v]
  BY <1>1, StakingTypes, SumDiffersAt
<1> QED BY <1>1, <1>2 DEF SumFunction, g

LEMMA StakeIsKeptStep == StakeInv /\ StakeIsKept /\ [Next]_vars => StakeIsKept'
<1> SUFFICES ASSUME StakeInv, StakeIsKept, [Next]_vars PROVE StakeIsKept'
  OBVIOUS
<1>0. /\ staked \in [Validators -> Nat] /\ pendingUnstake \in [Validators -> Nat] /\ wallet \in Nat
      /\ SumFunction(staked) \in Nat /\ SumFunction(pendingUnstake) \in Nat /\ Supply \in Nat
      /\ Amounts \subseteq Nat
  BY StakeSums, StakingTypes DEF StakeInv, TypeOK
<1>1. CASE UNCHANGED stakeVars
  BY <1>1 DEF StakeIsKept, stakeVars
<1>2. ASSUME NEW v \in Validators, NEW amount \in Amounts, Stake(v, amount) PROVE StakeIsKept'
  <2>1. staked' = [staked EXCEPT ![v] = staked[v] + amount] /\ staked[v] + amount \in Nat
        /\ wallet' = wallet - amount /\ pendingUnstake' = pendingUnstake
    BY <1>0, <1>2 DEF Stake
  <2>2. SumFunction(staked') = SumFunction(staked) - staked[v] + (staked[v] + amount)
    BY <1>0, <2>1, OneFigure
  <2> QED BY <1>0, <2>1, <2>2 DEF StakeIsKept
<1>3. ASSUME NEW v \in Validators, NEW amount \in Amounts, RequestUnstake(v, amount) PROVE StakeIsKept'
  <2>1. /\ staked' = [staked EXCEPT ![v] = staked[v] - amount] /\ staked[v] - amount \in Nat
        /\ pendingUnstake' = [pendingUnstake EXCEPT ![v] = pendingUnstake[v] + amount]
        /\ pendingUnstake[v] + amount \in Nat /\ wallet' = wallet
    BY <1>0, <1>3 DEF RequestUnstake, Unstakable
  <2>2. SumFunction(staked') = SumFunction(staked) - staked[v] + (staked[v] - amount)
    BY <1>0, <2>1, OneFigure
  <2>3. SumFunction(pendingUnstake')
          = SumFunction(pendingUnstake) - pendingUnstake[v] + (pendingUnstake[v] + amount)
    BY <1>0, <2>1, OneFigure
  <2> QED BY <1>0, <2>1, <2>2, <2>3 DEF StakeIsKept
<1>4. ASSUME NEW v \in Validators, WithdrawUnstaked(v) PROVE StakeIsKept'
  <2>1. /\ pendingUnstake' = [pendingUnstake EXCEPT ![v] = 0] /\ staked' = staked
        /\ wallet' = wallet + pendingUnstake[v]
    BY <1>4 DEF WithdrawUnstaked
  <2>2. SumFunction(pendingUnstake') = SumFunction(pendingUnstake) - pendingUnstake[v] + 0
    BY <1>0, <2>1, OneFigure
  <2> QED BY <1>0, <2>1, <2>2 DEF StakeIsKept
<1>5. ASSUME NEW v \in Validators, RegisterNode(v) \/ RetireNode(v) PROVE StakeIsKept'
  BY <1>5 DEF StakeIsKept, RegisterNode, RetireNode, stakeVars
<1> QED BY <1>1, <1>2, <1>3, <1>4, <1>5, WhoMovesStake

LEMMA CastIsStillThereStep ==
    CooldownOutlastsVote /\ StakeInv /\ AnchorsAreTimed /\ ListedOnce /\ CastIsStillThere /\ [Next]_vars
        => CastIsStillThere'
<1> SUFFICES ASSUME CooldownOutlastsVote, StakeInv, AnchorsAreTimed, ListedOnce, CastIsStillThere,
                    [Next]_vars,
                    NEW e \in Epochs, NEW v \in Validators, TakesVotes(e)'
             PROVE  \/ Cast(e, v)' <= staked'[v]
                    \/ /\ Cast(e, v)' <= staked'[v] + pendingUnstake'[v]
                       /\ unlockAt'[v] >= postedAt' + UNSTAKE_COOLDOWN
  BY DEF CastIsStillThere
<1>0. /\ staked \in [Validators -> Nat] /\ pendingUnstake \in [Validators -> Nat]
      /\ unlockAt \in [Validators -> Nat] /\ Cast(e, v) \in Nat
      /\ now \in Nat /\ postedAt \in Nat /\ lastPosted \in Int /\ postedAt <= now
      /\ UNSTAKE_COOLDOWN \in Nat /\ ANCHOR_WAIT \in Nat /\ Amounts \subseteq Nat
      /\ ANCHOR_WAIT <= UNSTAKE_COOLDOWN /\ e \in Nat
  BY StakingTypes, CastType DEF StakeInv, TypeOK, AnchorsAreTimed, CooldownOutlastsVote
<1> DEFINE Kept == \/ Cast(e, v) <= staked[v]
                   \/ /\ Cast(e, v) <= staked[v] + pendingUnstake[v]
                      /\ unlockAt[v] >= postedAt + UNSTAKE_COOLDOWN
<1>1. CASE PostAnchor
  <2>1. e = lastPosted + 1 /\ staked' = staked /\ revealers' = revealers /\ reveals' = reveals
    BY <1>1 DEF PostAnchor, TakesVotes, stakeVars, voteVars
  <2>2. revealers[e][v] = 0
    <3>1. e > lastPosted
      BY <1>0, <2>1
    <3> QED BY <3>1 DEF ListedOnce
  <2>3. reveals[e][v].weight \in Nat
    BY DEF StakeInv, TypeOK
  <2>4. Cast(e, v)' = 0
    BY <2>1, <2>2, <2>3 DEF Cast
  <2> QED BY <1>0, <2>1, <2>4
<1>2. CASE ResolveAnchor
  BY <1>2 DEF ResolveAnchor, TakesVotes
<1>3. CASE UNCHANGED anchorVars /\ now' >= now
  <2>1. TakesVotes(e) /\ now < postedAt + ANCHOR_WAIT /\ postedAt' = postedAt
    <3>1. now' \in Nat
      BY TypeStep DEF TypeOK
    <3> QED BY <1>0, <1>3, <3>1 DEF TakesVotes, anchorVars
  <2>2. Kept
    BY <2>1 DEF CastIsStillThere
  <2>3. ASSUME NEW w \in Validators, NEW x \in Epochs,
               \/ DisputeAnchor(w, x)
               \/ \E side \in {"agree", "dispute"} : RevealAttestation(w, x, side)
        PROVE  \/ Cast(e, v)' <= staked'[v]
               \/ /\ Cast(e, v)' <= staked'[v] + pendingUnstake'[v]
                  /\ unlockAt'[v] >= postedAt' + UNSTAKE_COOLDOWN
    <3>1. /\ UNCHANGED stakeVars /\ Cast(x, w)' = staked[w]
          /\ (<<e, v>> # <<x, w>> => Cast(e, v)' = Cast(e, v))
      BY <2>3, FiledVotes
    <3>2. CASE e = x /\ v = w
      BY <1>0, <3>1, <3>2 DEF stakeVars
    <3>3. CASE ~(e = x /\ v = w)
      BY <2>1, <2>2, <3>1, <3>3 DEF stakeVars
    <3> QED BY <3>2, <3>3
  <2>4. CASE UNCHANGED <<reveals, revealers>> /\ hasRevealed \subseteq hasRevealed'
    <3>0. Cast(e, v)' = Cast(e, v)
      BY <2>4 DEF Cast
    <3>1. CASE UNCHANGED stakeVars
      BY <2>1, <2>2, <3>0, <3>1 DEF stakeVars
    <3>2. ASSUME NEW w \in Validators, RegisterNode(w) \/ RetireNode(w) PROVE UNCHANGED stakeVars
      BY <3>2 DEF RegisterNode, RetireNode
    <3>3. ASSUME NEW w \in Validators, NEW amount \in Amounts, Stake(w, amount)
          PROVE  UNCHANGED <<pendingUnstake, unlockAt>> /\ staked'[v] >= staked[v] /\ staked'[v] \in Nat
      BY <1>0, <3>3 DEF Stake
    <3>4. ASSUME NEW w \in Validators, NEW amount \in Amounts, RequestUnstake(w, amount)
          PROVE  \/ staked'[v] = staked[v] /\ pendingUnstake'[v] = pendingUnstake[v] /\ unlockAt'[v] = unlockAt[v]
                 \/ /\ staked'[v] + pendingUnstake'[v] = staked[v] + pendingUnstake[v]
                    /\ unlockAt'[v] >= postedAt + UNSTAKE_COOLDOWN
      BY <1>0, <3>4 DEF RequestUnstake, Unstakable
    <3>5. ASSUME NEW w \in Validators, WithdrawUnstaked(w)
          PROVE  /\ staked'[v] = staked[v]
                 /\ \/ Cast(e, v) <= staked[v]
                    \/ pendingUnstake'[v] = pendingUnstake[v] /\ unlockAt'[v] = unlockAt[v]
      <4>1. CASE w = v
        <5>1. now >= unlockAt[v]
          BY <3>5, <4>1 DEF WithdrawUnstaked, Unlocked
        <5>2. ~(unlockAt[v] >= postedAt + UNSTAKE_COOLDOWN)
          BY <1>0, <2>1, <5>1
        <5> QED BY <2>2, <3>5, <5>2 DEF WithdrawUnstaked
      <4>2. CASE w # v
        BY <1>0, <3>5, <4>2 DEF WithdrawUnstaked
      <4> QED BY <4>1, <4>2
    <3>6. CASE \E w \in Validators, amount \in Amounts : Stake(w, amount)
      BY <1>0, <2>1, <2>2, <3>0, <3>3, <3>6
    <3>7. CASE \E w \in Validators, amount \in Amounts : RequestUnstake(w, amount)
      BY <1>0, <2>1, <2>2, <3>0, <3>4, <3>7
    <3>8. CASE \E w \in Validators : WithdrawUnstaked(w)
      BY <1>0, <2>1, <2>2, <3>0, <3>5, <3>8
    <3> QED BY <3>1, <3>2, <3>6, <3>7, <3>8, WhoMovesStake
  <2> QED BY <2>3, <2>4, NothingFiled
<1>4. (UNCHANGED anchorVars /\ now' >= now) \/ PostAnchor \/ ResolveAnchor
  BY <1>0, WhoAnchors
<1> QED BY <1>1, <1>2, <1>3, <1>4

\* No more BAC is cast on an epoch than there is: on the epoch that takes votes, what is cast is still
\* staked or on its way out.
LEMMA CastFitsStep ==
    StakeInv /\ StakeInv' /\ ListedOnce /\ StakeIsKept' /\ CastIsStillThere' /\ CastFits /\ [Next]_vars
        => CastFits'
<1> SUFFICES ASSUME StakeInv, StakeInv', ListedOnce, StakeIsKept', CastIsStillThere', CastFits, [Next]_vars
             PROVE  CastFits'
  OBVIOUS
<1>1. CASE UNCHANGED <<reveals, revealers>> /\ hasRevealed \subseteq hasRevealed'
  BY <1>1 DEF CastFits, Cast
<1>2. ASSUME NEW v \in Validators, NEW x \in Epochs,
             \/ DisputeAnchor(v, x)
             \/ \E side \in {"agree", "dispute"} : RevealAttestation(v, x, side)
      PROVE  CastFits'
  <2>1. /\ TakesVotes(x)'
        /\ \A y \in Epochs, w \in Validators : <<y, w>> # <<x, v>> => Cast(y, w)' = Cast(y, w)
    BY <1>2, FiledVotes DEF TakesVotes, anchorVars
  <2> SUFFICES ASSUME NEW e \in Epochs
               PROVE  SumFunction([w \in Validators |-> Cast(e, w)']) <= Supply
    BY DEF CastFits
  <2>2. CASE e # x
    <3>1. \A w \in Validators : Cast(e, w)' = Cast(e, w)
      BY <2>1, <2>2
    <3>2. [w \in Validators |-> Cast(e, w)'] = [w \in Validators |-> Cast(e, w)]
      BY <3>1
    <3> QED BY <3>2 DEF CastFits
  <2>3. CASE e = x
    <3> DEFINE c == [w \in Validators |-> Cast(e, w)']
               b == [w \in Validators |-> staked'[w] + pendingUnstake'[w]]
    <3>0. /\ staked' \in [Validators -> Nat] /\ pendingUnstake' \in [Validators -> Nat]
          /\ wallet' \in Nat /\ Supply \in Nat
      BY StakingTypes DEF StakeInv, TypeOK
    <3>1. ASSUME NEW w \in Validators PROVE c[w] \in Int /\ b[w] \in Int /\ c[w] <= b[w]
      <4>1. revealers'[e][w] \in Nat /\ reveals'[e][w].weight \in Nat
        BY DEF StakeInv, TypeOK
      <4>2. Cast(e, w)' \in Nat
        BY <4>1, ProductType DEF Cast
      <4>3. Cast(e, w)' <= staked'[w] \/ Cast(e, w)' <= staked'[w] + pendingUnstake'[w]
        BY <2>1, <2>3 DEF CastIsStillThere
      <4>4. Cast(e, w)' <= staked'[w] + pendingUnstake'[w]
        BY <3>0, <4>2, <4>3
      <4> QED BY <3>0, <4>2, <4>4
    <3>2. \A w \in Validators : staked'[w] \in Int /\ pendingUnstake'[w] \in Int
                                /\ b[w] = staked'[w] + pendingUnstake'[w]
      BY <3>0
    <3>3. SumFunction(c) = SumFunctionOnSet(c, Validators)
      BY DEF SumFunction
    <3> HIDE DEF c, b
    <3>4. SumFunctionOnSet(c, Validators) <= SumFunctionOnSet(b, Validators)
      BY <3>1, StakingTypes, SumMonotone
    <3>5. SumFunctionOnSet(b, Validators)
            = SumFunctionOnSet(staked', Validators) + SumFunctionOnSet(pendingUnstake', Validators)
      BY <3>2, StakingTypes, SumPlus
    <3>6. wallet' + SumFunctionOnSet(staked', Validators) + SumFunctionOnSet(pendingUnstake', Validators)
            = Supply
      BY <3>0 DEF StakeIsKept, SumFunction
    <3>7. SumFunctionOnSet(c, Validators) \in Int
      BY <3>1, StakingTypes, SumInt
    <3>8. SumFunctionOnSet(staked', Validators) \in Int
      BY <3>2, StakingTypes, SumInt
    <3>9. SumFunctionOnSet(pendingUnstake', Validators) \in Int
      BY <3>2, StakingTypes, SumInt
    <3>10. SumFunctionOnSet(c, Validators) <= Supply
      BY ONLY <3>0, <3>4, <3>5, <3>6, <3>7, <3>8, <3>9
    <3> QED BY <3>3, <3>10 DEF c
  <2> QED BY <2>2, <2>3
<1> QED BY <1>1, <1>2, NothingFiled

LEMMA VoteInvInit == Init => VoteInv
<1> SUFFICES ASSUME Init PROVE VoteInv
  OBVIOUS
<1>1. ListedOnce
  BY DEF Init, ListedOnce
<1>2. \A e \in Epochs, v \in Validators : Cast(e, v) = 0
  BY DEF Init, Cast, NoVote
<1>3. CastIsStillThere
  BY <1>2 DEF Init, CastIsStillThere
<1>4. CastFits
  <2> SUFFICES ASSUME NEW e \in Epochs
               PROVE  SumFunction([v \in Validators |-> Cast(e, v)]) <= Supply
    BY DEF CastFits
  <2> DEFINE c == [v \in Validators |-> Cast(e, v)]
  <2>1. (\A v \in Validators : c[v] = 0) /\ DOMAIN c = Validators
    BY <1>2
  <2> HIDE DEF c
  <2>2. SumFunctionOnSet(c, Validators) = 0
    BY <2>1, StakingTypes, SumZero
  <2> QED BY <2>1, <2>2, StakingTypes DEF SumFunction, c
<1> QED BY <1>1, <1>3, <1>4, StakeIsKeptInit DEF VoteInv

LEMMA VoteInvHolds ==
    ASSUME CooldownOutlastsVote
    PROVE  Spec => []VoteInv
<1>1. Init => VoteInv
  BY VoteInvInit
<1>2. CooldownOutlastsVote /\ StakeInv /\ StakeInv' /\ AnchorsAreTimed /\ VoteInv /\ [Next]_vars => VoteInv'
  <2> SUFFICES ASSUME CooldownOutlastsVote, StakeInv, StakeInv', AnchorsAreTimed, VoteInv, [Next]_vars
               PROVE  VoteInv'
    OBVIOUS
  <2>1. ListedOnce /\ StakeIsKept /\ CastIsStillThere /\ CastFits
    BY DEF VoteInv
  <2>2. ListedOnce' /\ StakeIsKept' /\ CastIsStillThere'
    BY <2>1, ListedOnceStep, StakeIsKeptStep, CastIsStillThereStep
  <2>3. CastFits'
    BY <2>1, <2>2, CastFitsStep
  <2> QED BY <2>2, <2>3 DEF VoteInv
<1>3. StakeInv /\ StakeInv' /\ AnchorsAreTimed /\ VoteInv /\ [Next]_vars => VoteInv'
  BY <1>2
<1> QED BY <1>1, <1>3, StakeInvHolds, AnchorsAreTimedHolds, PTL DEF Spec

\* The weights that agree and those that dispute are parts of what was cast.
LEMMA SidesFit ==
    ASSUME StakeInv, CastFits, NEW e \in Epochs
    PROVE  WeightOf(e, "agree") + WeightOf(e, "dispute") <= Supply
<1> DEFINE a == [v \in Validators |->
                    IF reveals[e][v].side = "agree" THEN revealers[e][v] * reveals[e][v].weight ELSE 0]
           d == [v \in Validators |->
                    IF reveals[e][v].side = "dispute" THEN revealers[e][v] * reveals[e][v].weight ELSE 0]
           c == [v \in Validators |-> Cast(e, v)]
           b == [v \in Validators |-> a[v] + d[v]]
<1>1. WeightOf(e, "agree") = SumFunctionOnSet(a, Validators)
  BY DEF WeightOf, SumFunction
<1>2. WeightOf(e, "dispute") = SumFunctionOnSet(d, Validators)
  BY DEF WeightOf, SumFunction
<1>3. SumFunctionOnSet(c, Validators) <= Supply
  BY DEF CastFits, SumFunction
<1>4. ASSUME NEW v \in Validators
      PROVE  a[v] \in Int /\ d[v] \in Int /\ b[v] = a[v] + d[v] /\ c[v] \in Int /\ b[v] <= c[v]
  <2>1. Cast(e, v) \in Nat
    BY CastType
  <2>2. a[v] = IF reveals[e][v].side = "agree" THEN Cast(e, v) ELSE 0
    BY DEF Cast
  <2>3. d[v] = IF reveals[e][v].side = "dispute" THEN Cast(e, v) ELSE 0
    BY DEF Cast
  <2>4. b[v] = a[v] + d[v] /\ c[v] = Cast(e, v)
    OBVIOUS
  <2> HIDE DEF a, b, c, d
  <2>5. CASE reveals[e][v].side = "agree"
    BY <2>1, <2>2, <2>3, <2>4, <2>5
  <2>6. CASE reveals[e][v].side # "agree"
    BY <2>1, <2>2, <2>3, <2>4, <2>6
  <2> QED BY <2>5, <2>6
<1> HIDE DEF a, b, c, d
<1>5. SumFunctionOnSet(b, Validators) = SumFunctionOnSet(a, Validators) + SumFunctionOnSet(d, Validators)
  BY <1>4, StakingTypes, SumPlus
<1>6. SumFunctionOnSet(b, Validators) <= SumFunctionOnSet(c, Validators)
  <2>1. \A v \in Validators : b[v] \in Int /\ c[v] \in Int /\ b[v] <= c[v]
    BY <1>4
  <2> QED BY <2>1, StakingTypes, SumMonotone
<1>7. SumFunctionOnSet(a, Validators) \in Int
  BY <1>4, StakingTypes, SumInt
<1>8. SumFunctionOnSet(d, Validators) \in Int
  BY <1>4, StakingTypes, SumInt
<1>9. SumFunctionOnSet(c, Validators) \in Int
  BY <1>4, StakingTypes, SumInt
<1>10. Supply \in Nat
  BY StakingTypes
<1> QED BY ONLY <1>1, <1>2, <1>3, <1>5, <1>6, <1>7, <1>8, <1>9, <1>10

\* As long as the cooldown of a withdrawal outlasts a vote, the weight on both sides of an anchor is
\* never more than the BAC there is, however stake wanders between addresses, and no address is on the
\* roll of a day twice (disputeAnchor, revealAttestation, _creditDay, withdrawUnstaked).
THEOREM WitnessesCounted ==
    ASSUME CooldownOutlastsVote
    PROVE  Spec => []WitnessesCountOnce
<1>1. StakeInv /\ VoteInv => WitnessesCountOnce
  <2> SUFFICES ASSUME StakeInv, VoteInv PROVE WitnessesCountOnce
    OBVIOUS
  <2>1. VotesAreDistinctStake
    BY SidesFit DEF VoteInv, VotesAreDistinctStake
  <2>2. OneCreditPerDay
    BY DEF StakeInv, RollIsExact, OneCreditPerDay
  <2> QED BY <2>1, <2>2 DEF WitnessesCountOnce
<1> QED BY <1>1, StakeInvHolds, VoteInvHolds, PTL

-----------------------------------------------------------------------------
(* Rewards *)

\* While no anchor comes too late, the credits of a day are over when it is settled.
LEMMA SettledDayIsClosed ==
    ASSUME VotesCloseBeforeSettling, StakeInv, AnchorsAreTimed, SettledIsOver, [Next]_vars,
           NEW d \in Days, dayRewards[d].settled
    PROVE  dayWeightOf'[d] = dayWeightOf[d]
<1>0. now \in Nat /\ postedAt \in Nat /\ lastPosted \in Int /\ d \in Nat
      /\ dayWeightOf \in [Days -> [Validators -> Nat]] /\ now >= (d + 1) * DAY + ATTEST_WINDOW
  BY StakingTypes DEF StakeInv, TypeOK, SettledIsOver
<1>1. CASE UNCHANGED <<dayWeightOf, dayList>>
  BY <1>1
<1>2. ASSUME NEW v \in Validators, NEW x \in Days, CreditDay(x, v, staked[v]), x # d
      PROVE  dayWeightOf'[d] = dayWeightOf[d]
  BY <1>0, <1>2 DEF CreditDay
<1>3. ASSUME NEW v \in Validators, NEW right \in BOOLEAN, AttestDay(v, d, right) PROVE FALSE
  <2>1. now < (d + 1) * DAY + ATTEST_WINDOW
    <3>1. (d + 1) * DAY \in Nat /\ ATTEST_WINDOW \in Nat
      BY <1>0, StakingTypes
    <3>2. now \in (d + 1) * DAY..(d + 1) * DAY + ATTEST_WINDOW - 1
      BY <1>3 DEF AttestDay
    <3> QED BY <1>0, <3>1, <3>2
  <2>2. (d + 1) * DAY + ATTEST_WINDOW \in Nat
    BY <1>0, StakingTypes
  <2> QED BY <1>0, <2>1, <2>2
<1>4. ASSUME NEW v \in Validators, NEW e \in Epochs, NEW side \in {"agree", "dispute"},
             d = e \div EPOCHS_PER_DAY, RevealAttestation(v, e, side)
      PROVE  FALSE
  <2> DEFINE due == (e + 1) * EPOCH
             over == (d + 1) * DAY
  <2>1. /\ now < postedAt + ANCHOR_WAIT
        /\ postedAt <= due + COMMIT_WINDOW + MaxPostDelay
    BY <1>4 DEF RevealAttestation, TakesVotes, AnchorsAreTimed
  <2>2. due <= over
    BY <1>4, DayOfEpoch
  <2>3. due \in Nat /\ over \in Nat
    BY <1>0, StakingTypes
  <2>4. COMMIT_WINDOW + MaxPostDelay + ANCHOR_WAIT <= ATTEST_WINDOW
    BY DEF VotesCloseBeforeSettling
  <2>5. now >= over + ATTEST_WINDOW
    BY <1>0
  <2> HIDE DEF due, over
  <2> QED BY <1>0, <2>1, <2>2, <2>3, <2>4, <2>5, StakingTypes
<1> QED BY <1>1, <1>2, <1>3, <1>4, WhoCredits

\* A step of another kind leaves the reward books, and takes no claim up.
LEMMA ClaimsOfADay ==
    ASSUME VotesCloseBeforeSettling, StakeInv, AnchorsAreTimed, SettledIsOver, [Next]_vars,
           NEW d \in Days, dayRewards[d].settled, NEW v \in Validators,
           dayRewards'[d] = dayRewards[d], rewardClaimed' = rewardClaimed, removed \subseteq removed'
    PROVE  rewardOf(d, v)' \in Nat /\ rewardOf(d, v) \in Nat /\ rewardOf(d, v)' <= rewardOf(d, v)
<1>1. dayWeightOf'[d] = dayWeightOf[d]
  BY SettledDayIsClosed
<1>2. dayWeightOf[d][v] \in Nat /\ dayRewards[d].rate \in Nat /\ dayRewards[d].pot \in Nat
  BY DEF StakeInv, TypeOK
<1> DEFINE part == Part(dayWeightOf[d][v], dayRewards[d].rate, dayRewards[d].pot)
<1>3. part \in Nat
  BY <1>2, PartType
<1>4. Part(dayWeightOf'[d][v], dayRewards'[d].rate, dayRewards'[d].pot) = part
  BY <1>1
<1>5. /\ rewardOf(d, v) = IF ~dayRewards[d].settled \/ dayRewards[d].swept \/ v \in removed
                                \/ <<d, v>> \in rewardClaimed THEN 0 ELSE part
      /\ rewardOf(d, v)' = IF ~dayRewards[d].settled \/ dayRewards[d].swept \/ v \in removed'
                                \/ <<d, v>> \in rewardClaimed THEN 0 ELSE part
  BY <1>4 DEF rewardOf
<1> HIDE DEF part
<1> QED BY <1>3, <1>5

LEMMA RewardOfType ==
    ASSUME StakeInv, NEW d \in Days, NEW v \in Validators
    PROVE  rewardOf(d, v) \in Nat
<1>1. dayWeightOf[d][v] \in Nat /\ dayRewards[d].rate \in Nat /\ dayRewards[d].pot \in Nat
  BY DEF StakeInv, TypeOK
<1> QED BY <1>1, PartType DEF rewardOf

LEMMA OwingType ==
    ASSUME StakeInv, NEW d \in Days
    PROVE  Owing(d) \in Nat /\ \A v \in Validators : rewardOf(d, v) <= Owing(d)
<1> DEFINE o == [v \in Validators |-> rewardOf(d, v)]
<1>1. \A v \in Validators : o[v] \in Nat
  BY RewardOfType
<1>2. Owing(d) = SumFunctionOnSet(o, Validators) /\ \A v \in Validators : o[v] = rewardOf(d, v)
  BY DEF Owing, SumFunction
<1> HIDE DEF o
<1>3. SumFunctionOnSet(o, Validators) \in Nat /\ \A v \in Validators : o[v] <= SumFunctionOnSet(o, Validators)
  BY <1>1, StakingTypes, SumNat
<1> QED BY <1>2, <1>3

\* What is owed shrinks with what each address may claim.
LEMMA OwingShrinks ==
    ASSUME StakeInv, NEW d \in Days,
           \A v \in Validators : rewardOf(d, v)' \in Nat /\ rewardOf(d, v)' <= rewardOf(d, v)
    PROVE  Owing(d)' \in Nat /\ Owing(d)' <= Owing(d)
<1> DEFINE o == [v \in Validators |-> rewardOf(d, v)]
           q == [v \in Validators |-> rewardOf(d, v)']
<1>1. \A v \in Validators : o[v] \in Int /\ q[v] \in Int /\ q[v] <= o[v]
  BY RewardOfType
<1>2. \A v \in Validators : q[v] \in Nat
  OBVIOUS
<1>3. Owing(d) = SumFunctionOnSet(o, Validators) /\ Owing(d)' = SumFunctionOnSet(q, Validators)
  BY DEF Owing, SumFunction
<1> HIDE DEF o, q
<1>4. SumFunctionOnSet(q, Validators) <= SumFunctionOnSet(o, Validators)
  BY <1>1, StakingTypes, SumMonotone
<1>5. SumFunctionOnSet(q, Validators) \in Nat
  BY <1>2, StakingTypes, SumNat
<1> QED BY <1>3, <1>4, <1>5

\* Only reward steps move the books; they move neither the clock nor the rolls.
LEMMA RewardFrame ==
    ASSUME StakeInv, [Next]_vars
    PROVE  /\ now \in Nat /\ now' \in Nat /\ now' >= now /\ removed \subseteq removed'
           /\ \/ UNCHANGED rewardVars
              \/ RewardStep /\ UNCHANGED <<now, removed, dayWeightOf, dayList>>
<1>1. now \in Nat /\ now' \in Nat
  BY TypeStep DEF StakeInv, TypeOK
<1>2. now' >= now
  <2>1. now' = now \/ now' = now + 1
    BY WhoAnchors DEF PostAnchor, ResolveAnchor
  <2> QED BY ONLY <1>1, <2>1
<1>3. AdminStep => removed \subseteq removed'
  BY DEF AdminStep, ProposeRemoveValidator, ExecuteRemoveValidator, CancelRemoveValidator
<1>4. RewardStep => UNCHANGED <<now, removed, dayWeightOf, dayList>>
  BY DEF RewardStep, FundRewards, SettleDayRewards, SweepExpired, ClaimReward, adminVars, rollVars
<1> QED BY <1>1, <1>2, <1>3, <1>4, WhoMovesRewards

LEMMA SettledIsOverStep == StakeInv /\ SettledIsOver /\ [Next]_vars => SettledIsOver'
<1> SUFFICES ASSUME StakeInv, SettledIsOver, [Next]_vars, NEW d \in Days
             PROVE  IF dayRewards'[d].settled
                    THEN d <= lastRewardDay' /\ now' >= (d + 1) * DAY + ATTEST_WINDOW
                    ELSE dayRewards'[d] = NoReward
  BY DEF SettledIsOver
<1>0. /\ now \in Nat /\ now' \in Nat /\ now' >= now /\ lastRewardDay \in Int /\ d \in Nat
      /\ (d + 1) * DAY + ATTEST_WINDOW \in Nat /\ dayRewards \in [Days -> RewardRecord]
  <2>1. now \in Nat /\ now' \in Nat /\ now' >= now
    BY RewardFrame
  <2>2. lastRewardDay \in Int /\ dayRewards \in [Days -> RewardRecord]
    BY DEF StakeInv, TypeOK, RewardRecord
  <2>3. d \in Nat /\ (d + 1) * DAY + ATTEST_WINDOW \in Nat
    BY StakingTypes
  <2> QED BY <2>1, <2>2, <2>3
<1>1. CASE UNCHANGED rewardVars
  BY <1>0, <1>1 DEF SettledIsOver, rewardVars
<1>2. ASSUME NEW amount \in Fundings, FundRewards(amount), now' = now
      PROVE  UNCHANGED <<dayRewards, lastRewardDay>>
  BY <1>2 DEF FundRewards
<1>3. ASSUME NEW x \in Days, SettleDayRewards(x), now' = now
      PROVE  IF dayRewards'[d].settled
             THEN d <= lastRewardDay' /\ now' >= (d + 1) * DAY + ATTEST_WINDOW
             ELSE dayRewards'[d] = NoReward
  <2>1. x = lastRewardDay + 1 /\ lastRewardDay' = x /\ now >= (x + 1) * DAY + ATTEST_WINDOW
        /\ (d # x => dayRewards'[d] = dayRewards[d]) /\ (d = x => dayRewards'[d].settled)
    <3> DEFINE book == dayRewards'[x]
    <3>1. x = lastRewardDay + 1 /\ lastRewardDay' = x /\ now >= (x + 1) * DAY + ATTEST_WINDOW
      BY <1>3 DEF SettleDayRewards, Settleable
    <3>2. dayRewards' = [dayRewards EXCEPT ![x] = book] /\ book.settled
      <4>1. CASE dayRewards' = [dayRewards EXCEPT ![x] = [@ EXCEPT !.settled = TRUE, !.settledAt = now]]
        <5>1. book = [dayRewards[x] EXCEPT !.settled = TRUE, !.settledAt = now]
          BY <1>0, <4>1
        <5>2. dayRewards[x] \in RewardRecord
          BY <1>0
        <5> QED BY <4>1, <5>1, <5>2 DEF RewardRecord
      <4>2. ASSUME NEW pot, NEW weight, NEW rate, NEW escrowed,
                   dayRewards' = [dayRewards EXCEPT ![x] =
                        [settled |-> TRUE, settledAt |-> now, pot |-> pot, weight |-> weight,
                         rate |-> rate, escrowed |-> escrowed, claimed |-> 0, swept |-> FALSE]]
            PROVE  dayRewards' = [dayRewards EXCEPT ![x] = book] /\ book.settled
        BY <1>0, <4>2
      <4> QED BY <1>3, <4>1, <4>2 DEF SettleDayRewards
    <3> HIDE DEF book
    <3> QED BY <1>0, <3>1, <3>2
  <2> QED BY <1>0, <1>3, <2>1 DEF SettledIsOver
<1>4. ASSUME NEW x \in Days, SweepExpired(x)
      PROVE  /\ lastRewardDay' = lastRewardDay
             /\ (d # x => dayRewards'[d] = dayRewards[d])
             /\ (d = x => dayRewards[d].settled /\ dayRewards'[d].settled)
  BY <1>0, <1>4 DEF SweepExpired, RewardRecord
<1>5. ASSUME NEW x \in Days, NEW v \in Validators, ClaimReward(x, v)
      PROVE  /\ lastRewardDay' = lastRewardDay
             /\ (d # x => dayRewards'[d] = dayRewards[d])
             /\ (d = x => dayRewards[d].settled /\ dayRewards'[d].settled)
  BY <1>0, <1>5 DEF ClaimReward, RewardRecord
<1>6. CASE RewardStep /\ now' = now
  BY <1>0, <1>2, <1>3, <1>4, <1>5, <1>6 DEF RewardStep, SettledIsOver
<1> QED BY <1>1, <1>6, RewardFrame

\* Settling a day reserves for it what its addresses may claim.
LEMMA SettlingReserves ==
    ASSUME StakeInv, StakeInv', SettledIsOver, NEW d \in Days, SettleDayRewards(d)
    PROVE  /\ ~dayRewards[d].settled
           /\ dayRewards'[d].settled /\ ~dayRewards'[d].swept /\ dayRewards'[d].claimed = 0
           /\ rewardBalance' = rewardBalance - dayRewards'[d].escrowed
           /\ Owing(d)' <= dayRewards'[d].escrowed
           /\ \A x \in Days \ {d} : dayRewards'[x] = dayRewards[x]
<1> DEFINE pot == (rewardBalance * REWARD_RELEASE_BPS) \div BPS
           weight == rollWeight(d)
           rate == (pot * ACC_PRECISION) \div weight
           escrowed == PartsOf(d, rate, pot)
<1>0. /\ dayRewards \in [Days -> RewardRecord] /\ dayRewards' \in [Days -> RewardRecord]
      /\ rewardBalance \in Nat /\ lastRewardDay \in Int /\ d \in Nat
  BY StakingTypes DEF StakeInv, TypeOK, RewardRecord
<1>1. d = lastRewardDay + 1 /\ UNCHANGED <<removed, dayWeightOf, dayList>>
  BY DEF SettleDayRewards, adminVars, rollVars
<1>2. dayRewards[d] = NoReward
  BY <1>0, <1>1 DEF SettledIsOver
<1>3. CASE pot = 0 \/ weight = 0
  <2>1. /\ rewardBalance' = rewardBalance
        /\ dayRewards' = [dayRewards EXCEPT ![d] = [@ EXCEPT !.settled = TRUE, !.settledAt = now]]
    BY <1>3 DEF SettleDayRewards
  <2>2. /\ dayRewards'[d].settled /\ ~dayRewards'[d].swept /\ dayRewards'[d].claimed = 0
        /\ dayRewards'[d].escrowed = 0 /\ dayRewards'[d].pot = 0 /\ ~dayRewards[d].settled
    BY <1>0, <1>2, <2>1 DEF NoReward
  <2>3. \A x \in Days \ {d} : dayRewards'[x] = dayRewards[x]
    BY <1>0, <2>1
  <2>4. Owing(d)' = 0
    <3> DEFINE q == [v \in Validators |-> rewardOf(d, v)']
    <3>1. ASSUME NEW v \in Validators PROVE rewardOf(d, v)' = 0
      <4>1. dayWeightOf'[d][v] \in Nat /\ dayRewards'[d].rate \in Nat
        BY DEF StakeInv, TypeOK
      <4>2. Part(dayWeightOf'[d][v], dayRewards'[d].rate, dayRewards'[d].pot) = 0
        BY <2>2, <4>1, PartType
      <4> QED BY <4>2 DEF rewardOf
    <3>2. \A v \in Validators : q[v] = 0
      BY <3>1
    <3>3. Owing(d)' = SumFunctionOnSet(q, Validators)
      BY DEF Owing, SumFunction
    <3> HIDE DEF q
    <3> QED BY <3>2, <3>3, StakingTypes, SumZero
  <2> QED BY <1>0, <2>1, <2>2, <2>3, <2>4
<1>4. CASE ~(pot = 0 \/ weight = 0)
  <2>1. /\ rewardBalance' = rewardBalance - escrowed
        /\ dayRewards' = [dayRewards EXCEPT ![d] =
              [settled |-> TRUE, settledAt |-> now, pot |-> pot, weight |-> weight,
               rate |-> rate, escrowed |-> escrowed, claimed |-> 0, swept |-> FALSE]]
    BY <1>4 DEF SettleDayRewards
  <2>2. pot \in Nat
    BY <1>0, StakingTypes, DivBounds
  <2> HIDE DEF pot
  <2>3. rate \in Nat
    BY <1>4, <2>2, EscrowFits
  <2> HIDE DEF weight, rate
  <2>4. /\ dayRewards'[d].settled /\ ~dayRewards'[d].swept /\ dayRewards'[d].claimed = 0
        /\ dayRewards'[d].escrowed = escrowed /\ dayRewards'[d].pot = pot /\ dayRewards'[d].rate = rate
        /\ ~dayRewards[d].settled
    BY <1>0, <1>2, <2>1 DEF NoReward
  <2>5. \A x \in Days \ {d} : dayRewards'[x] = dayRewards[x]
    BY <1>0, <2>1
  <2>6. Owing(d)' <= escrowed
    <3> DEFINE q == [v \in Validators |-> rewardOf(d, v)']
               p == [v \in Validators |->
                       IF v \in removed THEN 0 ELSE dayList[d][v] * Part(dayWeightOf[d][v], rate, pot)]
    <3>1. ASSUME NEW v \in Validators PROVE q[v] \in Int /\ p[v] \in Int /\ q[v] <= p[v]
      <4> DEFINE part == Part(dayWeightOf[d][v], rate, pot)
      <4>1. dayWeightOf[d][v] \in Nat /\ dayList[d][v] = IF dayWeightOf[d][v] = 0 THEN 0 ELSE 1
        BY DEF StakeInv, TypeOK, RollIsExact
      <4>2. part \in Nat /\ (dayWeightOf[d][v] = 0 => part = 0)
        BY <2>2, <2>3, <4>1, PartType
      <4>3. p[v] = IF v \in removed THEN 0 ELSE part
        BY <4>1, <4>2
      <4>4. Part(dayWeightOf'[d][v], dayRewards'[d].rate, dayRewards'[d].pot) = part
        BY <1>1, <2>4
      <4>5. q[v] = IF v \in removed \/ <<d, v>> \in rewardClaimed' THEN 0 ELSE part
        BY <1>1, <2>4, <4>4 DEF rewardOf
      <4> HIDE DEF part, p, q
      <4> QED BY <4>2, <4>3, <4>5
    <3>2. Owing(d)' = SumFunctionOnSet(q, Validators) /\ escrowed = SumFunctionOnSet(p, Validators)
      BY DEF Owing, SumFunction, PartsOf
    <3> HIDE DEF q, p
    <3>3. SumFunctionOnSet(q, Validators) <= SumFunctionOnSet(p, Validators)
      BY <3>1, StakingTypes, SumMonotone
    <3> QED BY <3>2, <3>3
  <2> QED BY <2>1, <2>4, <2>5, <2>6
<1> QED BY <1>3, <1>4

\* A claim takes the address's part off what is owed.
LEMMA ClaimingTakesOff ==
    ASSUME StakeInv, StakeInv', NEW d \in Days, NEW v \in Validators, ClaimReward(d, v)
    PROVE  /\ dayRewards[d].settled /\ ~dayRewards[d].swept /\ rewardOf(d, v) \in Nat
           /\ dayRewards'[d].settled /\ ~dayRewards'[d].swept
           /\ dayRewards'[d].escrowed = dayRewards[d].escrowed
           /\ dayRewards'[d].claimed = dayRewards[d].claimed + rewardOf(d, v)
           /\ Owing(d)' = Owing(d) - rewardOf(d, v)
           /\ \A x \in Days \ {d} : dayRewards'[x] = dayRewards[x] /\ Owing(x)' = Owing(x)
<1> DEFINE r == rewardOf(d, v)
<1>0. dayRewards \in [Days -> RewardRecord] /\ r \in Nat
  BY RewardOfType DEF StakeInv, TypeOK, RewardRecord
<1>1. /\ dayRewards' = [dayRewards EXCEPT ![d].claimed = @ + r] /\ UNCHANGED <<removed, dayWeightOf>>
      /\ rewardClaimed' = rewardClaimed \cup {<<d, v>>} /\ dayRewards[d].settled /\ ~dayRewards[d].swept
  BY DEF ClaimReward, adminVars, rollVars
<1> HIDE DEF r
<1>2. /\ dayRewards'[d].settled = dayRewards[d].settled /\ dayRewards'[d].swept = dayRewards[d].swept
      /\ dayRewards'[d].escrowed = dayRewards[d].escrowed /\ dayRewards'[d].pot = dayRewards[d].pot
      /\ dayRewards'[d].rate = dayRewards[d].rate
      /\ dayRewards'[d].claimed = dayRewards[d].claimed + r
  BY <1>0, <1>1 DEF RewardRecord
<1>3. \A x \in Days \ {d} : dayRewards'[x] = dayRewards[x]
  BY <1>0, <1>1
<1>4. ASSUME NEW x \in Days, NEW w \in Validators, <<x, w>> # <<d, v>>
      PROVE  rewardOf(x, w)' = rewardOf(x, w)
  <2>1. /\ dayRewards'[x].settled = dayRewards[x].settled /\ dayRewards'[x].swept = dayRewards[x].swept
        /\ dayRewards'[x].pot = dayRewards[x].pot /\ dayRewards'[x].rate = dayRewards[x].rate
    BY <1>2, <1>3
  <2>2. <<x, w>> \in rewardClaimed' <=> <<x, w>> \in rewardClaimed
    BY <1>1, <1>4
  <2> QED BY <1>1, <2>1, <2>2 DEF rewardOf
<1>5. rewardOf(d, v)' = 0
  BY <1>1 DEF rewardOf
<1>6. ASSUME NEW x \in Days \ {d} PROVE Owing(x)' = Owing(x)
  <2>1. \A w \in Validators : rewardOf(x, w)' = rewardOf(x, w)
    BY <1>4
  <2> QED BY <2>1 DEF Owing
<1>7. Owing(d)' = Owing(d) - r
  <2> DEFINE o == [w \in Validators |-> rewardOf(d, w)]
             q == [w \in Validators |-> rewardOf(d, w)']
  <2>1. \A w \in Validators : o[w] \in Int
    BY RewardOfType
  <2>2. \A w \in Validators : q[w] \in Int
    BY RewardOfType, <1>4, <1>5
  <2>3. \A w \in Validators \ {v} : q[w] = o[w]
    BY <1>4
  <2>4. Owing(d) = SumFunctionOnSet(o, Validators) /\ Owing(d)' = SumFunctionOnSet(q, Validators)
    BY DEF Owing, SumFunction
  <2>5. o[v] = r /\ q[v] = 0
    BY <1>5 DEF r
  <2> HIDE DEF o, q
  <2>6. SumFunctionOnSet(q, Validators) = SumFunctionOnSet(o, Validators) - o[v] + q[v]
    BY <2>1, <2>2, <2>3, StakingTypes, SumDiffersAt
  <2>7. SumFunctionOnSet(o, Validators) \in Int
    BY <2>1, StakingTypes, SumInt
  <2> QED BY <1>0, <2>4, <2>5, <2>6, <2>7
<1> QED BY <1>0, <1>1, <1>2, <1>3, <1>6, <1>7 DEF r

LEMMA OwingNextType ==
    ASSUME StakeInv', NEW d \in Days
    PROVE  Owing(d)' \in Nat
<1> DEFINE q == [v \in Validators |-> rewardOf(d, v)']
<1>1. ASSUME NEW v \in Validators PROVE rewardOf(d, v)' \in Nat
  <2>1. dayWeightOf'[d][v] \in Nat /\ dayRewards'[d].rate \in Nat /\ dayRewards'[d].pot \in Nat
    BY DEF StakeInv, TypeOK
  <2> QED BY <2>1, PartType DEF rewardOf
<1>2. (\A v \in Validators : q[v] \in Nat) /\ Owing(d)' = SumFunctionOnSet(q, Validators)
  BY <1>1 DEF Owing, SumFunction
<1> HIDE DEF q
<1> QED BY <1>2, StakingTypes, SumNat

LEMMA PotsCoverClaimsStep ==
    ASSUME VotesCloseBeforeSettling, StakeInv, StakeInv', AnchorsAreTimed, SettledIsOver,
           PotsCoverClaims, [Next]_vars
    PROVE  PotsCoverClaims'
<1> SUFFICES ASSUME NEW d \in Days, dayRewards'[d].settled, ~dayRewards'[d].swept
             PROVE  dayRewards'[d].claimed + Owing(d)' <= dayRewards'[d].escrowed
  BY DEF PotsCoverClaims
<1>0. /\ dayRewards \in [Days -> RewardRecord] /\ dayRewards' \in [Days -> RewardRecord]
      /\ Owing(d) \in Nat
  BY OwingType DEF StakeInv, TypeOK, RewardRecord
<1>1. /\ dayRewards[d].claimed \in Nat /\ dayRewards[d].escrowed \in Nat
      /\ dayRewards'[d].claimed \in Nat /\ dayRewards'[d].escrowed \in Nat
  BY <1>0 DEF RewardRecord
<1>2. ASSUME dayRewards'[d] = dayRewards[d], rewardClaimed' = rewardClaimed
      PROVE  dayRewards'[d].claimed + Owing(d)' <= dayRewards'[d].escrowed
  <2>1. dayRewards[d].settled /\ ~dayRewards[d].swept
    BY <1>2
  <2>2. dayRewards[d].claimed + Owing(d) <= dayRewards[d].escrowed
    BY <2>1 DEF PotsCoverClaims
  <2>3. removed \subseteq removed'
    BY RewardFrame
  <2>4. \A v \in Validators : rewardOf(d, v)' \in Nat /\ rewardOf(d, v)' <= rewardOf(d, v)
    BY <1>2, <2>1, <2>3, ClaimsOfADay
  <2>5. Owing(d)' \in Nat /\ Owing(d)' <= Owing(d)
    BY <2>4, OwingShrinks
  <2> QED BY <1>0, <1>1, <1>2, <2>2, <2>5
<1>3. CASE UNCHANGED rewardVars
  BY <1>2, <1>3 DEF rewardVars
<1>4. ASSUME NEW amount \in Fundings, FundRewards(amount)
      PROVE  dayRewards'[d] = dayRewards[d] /\ rewardClaimed' = rewardClaimed
  BY <1>4 DEF FundRewards
<1>5. ASSUME NEW x \in Days, SettleDayRewards(x)
      PROVE  dayRewards'[d].claimed + Owing(d)' <= dayRewards'[d].escrowed
  <2>1. rewardClaimed' = rewardClaimed
    BY <1>5 DEF SettleDayRewards
  <2>2. CASE x = d
    <3>1. dayRewards'[d].claimed = 0 /\ Owing(d)' <= dayRewards'[d].escrowed
      BY <1>5, <2>2, SettlingReserves
    <3>2. Owing(d)' \in Nat
      BY OwingNextType
    <3> QED BY <1>1, <3>1, <3>2
  <2>3. CASE x # d
    <3>1. dayRewards'[d] = dayRewards[d]
      BY <1>5, <2>3, SettlingReserves
    <3> QED BY <1>2, <2>1, <3>1
  <2> QED BY <2>2, <2>3
<1>6. ASSUME NEW x \in Days, SweepExpired(x)
      PROVE  dayRewards'[d] = dayRewards[d] /\ rewardClaimed' = rewardClaimed
  <2>1. x # d
    BY <1>0, <1>6 DEF SweepExpired, RewardRecord
  <2> QED BY <1>0, <1>6, <2>1 DEF SweepExpired
<1>7. ASSUME NEW x \in Days, NEW v \in Validators, ClaimReward(x, v)
      PROVE  dayRewards'[d].claimed + Owing(d)' <= dayRewards'[d].escrowed
  <2>1. CASE x = d
    <3>1. /\ dayRewards[d].settled /\ ~dayRewards[d].swept /\ rewardOf(d, v) \in Nat
          /\ dayRewards'[d].escrowed = dayRewards[d].escrowed
          /\ dayRewards'[d].claimed = dayRewards[d].claimed + rewardOf(d, v)
          /\ Owing(d)' = Owing(d) - rewardOf(d, v)
      BY <1>7, <2>1, ClaimingTakesOff
    <3>2. dayRewards[d].claimed + Owing(d) <= dayRewards[d].escrowed
      BY <3>1 DEF PotsCoverClaims
    <3> QED BY <1>0, <1>1, <3>1, <3>2
  <2>2. CASE x # d
    <3>1. dayRewards'[d] = dayRewards[d] /\ Owing(d)' = Owing(d)
      BY <1>7, <2>2, ClaimingTakesOff
    <3>2. dayRewards[d].claimed + Owing(d) <= dayRewards[d].escrowed
      BY <3>1 DEF PotsCoverClaims
    <3> QED BY <3>1, <3>2
  <2> QED BY <2>1, <2>2
<1>8. CASE RewardStep
  BY <1>2, <1>4, <1>5, <1>6, <1>7, <1>8 DEF RewardStep
<1> QED BY <1>3, <1>8, RewardFrame

\* What is left of the pots, together.
LeftOfPots == SumFunction([d \in Days |-> Left(d)])

LEMMA BooksAsLeft ==
    RewardBooksBalance <=> lifetimeFunded = lifetimePaid + rewardBalance + LeftOfPots
BY DEF RewardBooksBalance, LeftOfPots, Left

LEMMA LeftType ==
    ASSUME StakeInv
    PROVE  (\A d \in Days : Left(d) \in Nat) /\ LeftOfPots \in Nat
<1> DEFINE f == [d \in Days |-> Left(d)]
<1>1. ASSUME NEW d \in Days PROVE Left(d) \in Nat
  <2>1. dayRewards[d].escrowed \in Nat /\ dayRewards[d].claimed \in Nat
    BY DEF StakeInv, TypeOK
  <2> QED BY <2>1 DEF Left, Greatest
<1>2. (\A d \in Days : f[d] \in Nat) /\ LeftOfPots = SumFunctionOnSet(f, Days)
  BY <1>1 DEF LeftOfPots, SumFunction
<1> HIDE DEF f
<1> QED BY <1>1, <1>2, StakingTypes, SumNat

\* The books of one day change by what is left of its pot.
LEMMA OneDayMoves ==
    ASSUME StakeInv, NEW d \in Days, NEW left \in Nat, Left(d)' = left,
           \A x \in Days \ {d} : dayRewards'[x] = dayRewards[x]
    PROVE  LeftOfPots' = LeftOfPots - Left(d) + left
<1> DEFINE f == [x \in Days |-> Left(x)]
           g == [x \in Days |-> Left(x)']
<1>1. \A x \in Days : f[x] \in Int
  BY LeftType
<1>2. \A x \in Days \ {d} : g[x] = f[x]
  BY DEF Left
<1>3. g[d] = left /\ f[d] = Left(d)
  OBVIOUS
<1>4. LeftOfPots = SumFunctionOnSet(f, Days) /\ LeftOfPots' = SumFunctionOnSet(g, Days)
  BY DEF LeftOfPots, SumFunction
<1> HIDE DEF f, g
<1>5. \A x \in Days : f[x] \in Int /\ g[x] \in Int
  BY <1>1, <1>2, <1>3
<1>6. IsFiniteSet(Days) /\ d \in Days
  BY StakingTypes
<1>7. SumFunctionOnSet(g, Days) = SumFunctionOnSet(f, Days) - f[d] + g[d]
  BY ONLY <1>2, <1>5, <1>6, SumDiffersAt
<1> QED BY <1>3, <1>4, <1>7

LEMMA RewardBooksStep ==
    ASSUME StakeInv, StakeInv', SettledIsOver, PotsCoverClaims, RewardBooksBalance, [Next]_vars
    PROVE  RewardBooksBalance'
<1>0. /\ lifetimeFunded \in Nat /\ lifetimePaid \in Nat /\ rewardBalance \in Nat /\ LeftOfPots \in Nat
      /\ lifetimeFunded = lifetimePaid + rewardBalance + LeftOfPots
  BY LeftType, BooksAsLeft DEF StakeInv, TypeOK
<1>1. dayRewards \in [Days -> RewardRecord] /\ dayRewards' \in [Days -> RewardRecord]
  BY DEF StakeInv, TypeOK, RewardRecord
<1>2. SUFFICES lifetimeFunded' = lifetimePaid' + rewardBalance' + LeftOfPots'
  BY DEF RewardBooksBalance, LeftOfPots, Left
<1>3. CASE UNCHANGED rewardVars
  BY <1>0, <1>3 DEF rewardVars, LeftOfPots, Left
<1>4. ASSUME NEW amount \in Fundings, FundRewards(amount)
      PROVE  lifetimeFunded' = lifetimePaid' + rewardBalance' + LeftOfPots'
  <2>1. LeftOfPots' = LeftOfPots
    BY <1>4 DEF FundRewards, LeftOfPots, Left
  <2>2. amount \in Nat
    BY StakingTypes
  <2> QED BY <1>0, <1>4, <2>1, <2>2 DEF FundRewards
<1>5. ASSUME NEW d \in Days, SettleDayRewards(d)
      PROVE  lifetimeFunded' = lifetimePaid' + rewardBalance' + LeftOfPots'
  <2> DEFINE e == dayRewards'[d].escrowed
  <2>1. /\ ~dayRewards[d].settled /\ dayRewards'[d].settled /\ ~dayRewards'[d].swept
        /\ dayRewards'[d].claimed = 0 /\ rewardBalance' = rewardBalance - e
        /\ \A x \in Days \ {d} : dayRewards'[x] = dayRewards[x]
    BY <1>5, SettlingReserves
  <2>2. e \in Nat /\ lifetimeFunded' = lifetimeFunded /\ lifetimePaid' = lifetimePaid
    BY <1>1, <1>5 DEF SettleDayRewards, RewardRecord
  <2>3. Left(d) = 0 /\ Left(d)' = e
    BY <2>1, <2>2 DEF Left, Greatest
  <2> HIDE DEF e
  <2>4. LeftOfPots' = LeftOfPots - Left(d) + e
    BY <2>1, <2>2, <2>3, OneDayMoves
  <2> QED BY <1>0, <2>1, <2>2, <2>3, <2>4
<1>6. ASSUME NEW d \in Days, SweepExpired(d)
      PROVE  lifetimeFunded' = lifetimePaid' + rewardBalance' + LeftOfPots'
  <2> DEFINE back == dayRewards[d].escrowed - dayRewards[d].claimed
  <2>1. /\ dayRewards[d].settled /\ ~dayRewards[d].swept /\ back >= 0
        /\ dayRewards' = [dayRewards EXCEPT ![d].swept = TRUE] /\ rewardBalance' = rewardBalance + back
        /\ lifetimeFunded' = lifetimeFunded /\ lifetimePaid' = lifetimePaid
    BY <1>6 DEF SweepExpired, Returned
  <2>2. dayRewards[d].escrowed \in Nat /\ dayRewards[d].claimed \in Nat
    BY <1>1 DEF RewardRecord
  <2>3. dayRewards'[d].swept /\ \A x \in Days \ {d} : dayRewards'[x] = dayRewards[x]
    BY <1>1, <2>1 DEF RewardRecord
  <2>4. Left(d) = back /\ Left(d)' = 0
    BY <2>1, <2>2, <2>3 DEF Left, Greatest
  <2>5. LeftOfPots' = LeftOfPots - Left(d) + 0
    BY <2>3, <2>4, OneDayMoves
  <2> QED BY <1>0, <2>1, <2>2, <2>4, <2>5
<1>7. ASSUME NEW d \in Days, NEW v \in Validators, ClaimReward(d, v)
      PROVE  lifetimeFunded' = lifetimePaid' + rewardBalance' + LeftOfPots'
  <2> DEFINE r == rewardOf(d, v)
             left == dayRewards[d].escrowed - dayRewards[d].claimed
  <2>1. /\ dayRewards[d].settled /\ ~dayRewards[d].swept /\ r \in Nat
        /\ dayRewards'[d].settled /\ ~dayRewards'[d].swept
        /\ dayRewards'[d].escrowed = dayRewards[d].escrowed
        /\ dayRewards'[d].claimed = dayRewards[d].claimed + r
        /\ \A x \in Days \ {d} : dayRewards'[x] = dayRewards[x]
    BY <1>7, ClaimingTakesOff
  <2>2. dayRewards[d].escrowed \in Nat /\ dayRewards[d].claimed \in Nat
    BY <1>1 DEF RewardRecord
  <2>3. r <= Owing(d) /\ Owing(d) \in Nat
    BY OwingType
  <2>4. dayRewards[d].claimed + Owing(d) <= dayRewards[d].escrowed
    BY <2>1 DEF PotsCoverClaims
  <2>5. /\ lifetimeFunded' = lifetimeFunded /\ lifetimePaid' = lifetimePaid + r
        /\ rewardBalance' = rewardBalance
    BY <1>7 DEF ClaimReward
  <2> HIDE DEF r
  <2>6. left \in Nat /\ left - r \in Nat
    BY <2>1, <2>2, <2>3, <2>4
  <2>7. Left(d) = left
    BY <2>1, <2>6 DEF Left, Greatest
  <2>8. Left(d)' = left - r
    <3>1. dayRewards'[d].escrowed - dayRewards'[d].claimed = left - r
      BY <2>1, <2>2
    <3> HIDE DEF left
    <3> QED BY <2>1, <2>6, <3>1 DEF Left, Greatest
  <2>9. LeftOfPots' = LeftOfPots - Left(d) + (left - r)
    BY <2>1, <2>6, <2>8, OneDayMoves
  <2> QED BY <1>0, <2>1, <2>5, <2>6, <2>7, <2>9
<1>8. CASE RewardStep
  BY <1>4, <1>5, <1>6, <1>7, <1>8 DEF RewardStep
<1> QED BY <1>3, <1>8, RewardFrame

LEMMA RewardInvInit == Init => RewardInv
<1> SUFFICES ASSUME Init PROVE RewardInv
  OBVIOUS
<1>1. \A d \in Days : dayRewards[d] = NoReward
  BY DEF Init
<1>2. SettledIsOver /\ PotsCoverClaims
  BY <1>1 DEF SettledIsOver, PotsCoverClaims, NoReward
<1>3. LeftOfPots = 0
  <2> DEFINE f == [d \in Days |-> Left(d)]
  <2>1. (\A d \in Days : f[d] = 0) /\ LeftOfPots = SumFunctionOnSet(f, Days)
    BY <1>1 DEF Left, NoReward, LeftOfPots, SumFunction
  <2> HIDE DEF f
  <2> QED BY <2>1, StakingTypes, SumZero
<1>4. RewardBooksBalance
  BY <1>3, BooksAsLeft DEF Init
<1> QED BY <1>2, <1>4 DEF RewardInv

\* As long as no anchor comes so late that its votes outlast the batch window of its day, the reward
\* books balance: what was funded was paid, may be settled, or is left in a pot, and a pot never pays
\* more than it reserved (fundRewards, settleDayRewards, claimReward, sweepExpired).
THEOREM RewardBooksHold ==
    ASSUME VotesCloseBeforeSettling
    PROVE  Spec => []RewardBooksBalance
<1>1. Init => RewardInv
  BY RewardInvInit
<1>2. StakeInv /\ StakeInv' /\ AnchorsAreTimed /\ RewardInv /\ [Next]_vars => RewardInv'
  <2> SUFFICES ASSUME StakeInv, StakeInv', AnchorsAreTimed, RewardInv, [Next]_vars PROVE RewardInv'
    OBVIOUS
  <2>1. SettledIsOver /\ PotsCoverClaims /\ RewardBooksBalance
    BY DEF RewardInv
  <2>2. SettledIsOver'
    BY <2>1, SettledIsOverStep
  <2>3. PotsCoverClaims'
    BY <2>1, PotsCoverClaimsStep
  <2>4. RewardBooksBalance'
    BY <2>1, RewardBooksStep
  <2> QED BY <2>2, <2>3, <2>4 DEF RewardInv
<1>3. RewardInv => RewardBooksBalance
  BY DEF RewardInv
<1> QED BY <1>1, <1>2, <1>3, StakeInvHolds, AnchorsAreTimedHolds, PTL DEF Spec
=============================================================================
