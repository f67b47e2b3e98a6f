----------------------------- MODULE BacBridge -----------------------------
(***************************************************************************)
(* The BSC side of the chain: contracts/src/BacBridge.sol (the bridge and  *)
(* its extension, one storage).  BAC is locked against layer credits; exits *)
(* proven by a FINAL anchor lock a share of the BAC the bridge bought back  *)
(* (`owed`), which daily pots release and `collect` pays; a watchdog may    *)
(* pause and revoke; a halt turns what is left into senior and junior       *)
(* claims.  Two books (BAC and BNB) are kept next to the physical balances. *)
(*                                                                         *)
(* Time is counted in ticks, EPOCH ticks to an epoch.  Amounts are small    *)
(* naturals; basis points have BPS as their unit (10000 in the code), the   *)
(* junior accumulators ACC (1e18 in the code).  The anchor contract, the    *)
(* token and the market are external: what they may answer is enumerated.   *)
(***************************************************************************)
EXTENDS ReleaseIndex, FiniteSets, Functions

CONSTANTS
    Wallets, Agents,        \* addresses that own debt, ERC-8004 agent ids
    Exits,                  \* the layer's exits: [id, epoch, agent, to, credits]
    EPOCH, EPOCHS_PER_DAY, BPS, ACC, BpsTiers,
    MAX_EXIT_SHARE_BPS, MAX_CATCHUP_EPOCHS, SETTLE_GRACE,
    NO_ATTEST_WINDOW, NO_ATTEST_WINDOW_BPS,
    OWED_MATURITY, PAUSE_LEN, MAX_PAUSE_TOTAL, ESCAPE_ARM_DELAY,
    BUYBACK_MIN_INTERVAL, BUYBACK_DAILY_BPS, MIN_BUYBACK_BNB, MAX_BUYBACK_BNB,
    HaltReasons,            \* what ChainAnchor.haltReason() may answer
    AnchorOutcomes,         \* how it may resolve an epoch: <<state, somebody attested>>
    Keys,                   \* the keys in use: "watchdog", "vetoKey", "owner"
    LockAmounts, BacAmounts, BnbAmounts, BuyOutputs, WithdrawAmounts,
    \* bounds of the model, not of the code
    StartTime, MaxTime, MaxEpoch, MaxDeposits, MaxInflows, MaxWithdrawals

Times == 0..MaxTime
Epochs == 0..MaxEpoch
ExitIds == {x.id : x \in Exits}
Causes == 0..5
NoSwap == -1

ASSUME SizesAssumption ==
    /\ {StartTime, MaxTime, MaxEpoch, MaxDeposits, MaxInflows, MaxWithdrawals} \subseteq Nat
    /\ StartTime <= MaxTime
    /\ IsFiniteSet(Wallets) /\ IsFiniteSet(Agents)

ASSUME UnitsAssumption ==
    /\ {EPOCH, EPOCHS_PER_DAY, BPS, ACC, NO_ATTEST_WINDOW} \subseteq Nat \ {0}
    /\ {MAX_EXIT_SHARE_BPS, MAX_CATCHUP_EPOCHS, SETTLE_GRACE, NO_ATTEST_WINDOW_BPS,
        OWED_MATURITY, PAUSE_LEN, MAX_PAUSE_TOTAL, ESCAPE_ARM_DELAY, BUYBACK_MIN_INTERVAL,
        BUYBACK_DAILY_BPS, MIN_BUYBACK_BNB, MAX_BUYBACK_BNB} \subseteq Nat
    /\ MAX_PAUSE_TOTAL > 0

ASSUME InputsAssumption ==
    /\ BpsTiers \subseteq 1..BPS
    /\ HaltReasons \subseteq 0..3 /\ 0 \in HaltReasons
    /\ AnchorOutcomes \subseteq {<<"FINAL", TRUE>>, <<"FINAL", FALSE>>, <<"VETOED", FALSE>>,
                                <<"DISPUTED", FALSE>>}
    /\ Keys \subseteq {"watchdog", "vetoKey", "owner"}
    /\ Exits \subseteq [id : Nat, epoch : Epochs, agent : Agents, to : Wallets, credits : Nat]
    /\ LockAmounts \cup BacAmounts \cup BnbAmounts \cup BuyOutputs \cup WithdrawAmounts
         \subseteq Nat \ {0}

VARIABLES
    now,
    \* ChainAnchor, external here
    anchorState, anchorWitnessed, haltReason,
    \* entry side
    lockedBac, totalBurned, depositId, totalCreditsIssued, totalCreditsExited,
    credited, exitedCredits, unattributedExited,
    \* the BAC bucket and the debt against it
    buybackBac, owedTotal, reservedTotal, releaseIndex,
    owed, unclaimed, releaseSnap, lastCollectEpoch, exitClaimed, epochOwed,
    claimHistory, owedPaid,
    \* settlement
    lastSettledEpoch, lastPotBps, releasedInWindow, potRing,
    \* brake, halt, escape
    pauseStartedAt, pausedUntil, pausedCumulative,
    halted, haltCause, haltedAt, escapeArmedAt, armedCause,
    escapeTotalWeight, accPerWeightBac, accPerWeightBnb, escapeDebtBac, escapeDebtBnb,
    \* the BNB bucket; swapBefore is the BAC balance read before a buyback's external call
    bnbBalance, buybackBudget, lastBuybackEpoch, swapBefore,
    \* physical balances
    bacHeld, bnbHeld, emergencyCount,
    inflows,    \* counts transfers from outside, for their bound
    harvests    \* history: how often a debt was re-based, each time losing less than a wei

anchorVars == <<anchorState, anchorWitnessed, haltReason>>
entryVars == <<lockedBac, totalBurned, depositId, totalCreditsIssued, credited>>
exitedVars == <<totalCreditsExited, exitedCredits, unattributedExited, exitClaimed>>
indexVars == <<releaseIndex, lastSettledEpoch, lastPotBps, releasedInWindow, potRing>>
claimVars == <<owed, owedTotal, epochOwed, claimHistory>>
releasedVars == <<reservedTotal, unclaimed, releaseSnap, harvests>>
collectVars == <<lastCollectEpoch, owedPaid>>
pauseVars == <<pauseStartedAt, pausedUntil, pausedCumulative>>
armVars == <<escapeArmedAt, armedCause>>
haltVars == <<halted, haltCause, haltedAt, escapeTotalWeight>>
accVars == <<accPerWeightBac, accPerWeightBnb>>
escapeVars == <<escapeDebtBac, escapeDebtBnb>>
bnbVars == <<bnbBalance, buybackBudget, lastBuybackEpoch, swapBefore>>
heldVars == <<bacHeld, bnbHeld, emergencyCount, inflows>>

externalVars == <<now, anchorVars>>
creditVars == <<entryVars, exitedVars>>
debtVars == <<claimVars, releasedVars>>
modeVars == <<pauseVars, armVars, haltVars>>
juniorVars == <<accVars, escapeVars>>

vars == <<externalVars, creditVars, buybackBac, indexVars, debtVars, collectVars,
          modeVars, juniorVars, bnbVars, heldVars>>

-----------------------------------------------------------------------------
Least(a, b) == IF a <= b THEN a ELSE b
Greatest(a, b) == IF a >= b THEN a ELSE b

epochNow == now \div EPOCH
notEnteredDropped == TRUE
notEntered == swapBefore = NoSwap       \* the `nonReentrant` modifier

bacAccounted == lockedBac - totalBurned + buybackBac
isPaused == pausedUntil > now
creditsOutstanding == totalCreditsIssued - totalCreditsExited

\* _pauseUsed(): time of the current, or last unsettled, pause that is not yet counted.
pauseUsed ==
    IF pausedUntil = 0 THEN 0 ELSE Greatest(Least(now, pausedUntil) - pauseStartedAt, 0)

\* _pendingCause()
pendingCauseWithoutRunningPause ==
    IF haltReason # 0 THEN haltReason ELSE IF pausedCumulative >= MAX_PAUSE_TOTAL THEN 5 ELSE 0
pendingCause ==
    IF haltReason # 0 THEN haltReason
    ELSE IF pausedCumulative + pauseUsed >= MAX_PAUSE_TOTAL THEN 5 ELSE 0

\* _unreleased(who): the part of the debt no pot has reached yet.
Unreleased(w) == StillUnreleased(owed[w] - unclaimed[w], releaseSnap[w], releaseIndex)

\* `unclaimed[who]` after _harvest(who).
Harvested(w) == owed[w] - Unreleased(w)

\* _noteClaim: claimHistory[w][t] is what was ever claimed for w at or before time t.
NoteClaimV1(w, amount) ==
    [claimHistory EXCEPT ![w] = [t \in Times |-> IF t >= now THEN @[t] + amount ELSE 0]]
NoteClaim(w, amount) ==
    [claimHistory EXCEPT ![w] = [t \in Times |-> IF t >= now THEN @[t] + amount ELSE @[t]]]

MaturityCutoff(t) == Greatest(t - OWED_MATURITY, 0)

\* _maturedOwed(who, cutoff): payments count against the oldest debt first.
MaturedOwed(w, cutoff) ==
    Least(owed[w], Greatest(claimHistory[w][cutoff] - owedPaid[w], 0))

\* maturedOwed(who), the public view
maturedOwed(w) == MaturedOwed(w, MaturityCutoff(IF halted THEN haltedAt ELSE now))

\* What an inflow adds to a junior accumulator (_accept, _acceptBac).
JuniorShare(amount) ==
    IF halted /\ escapeTotalWeight > 0 THEN (amount * ACC) \div escapeTotalWeight ELSE 0

\* _payExitBac: what stays behind must still cover the unburned deposits.
ExitBacPresentInBucketOnly(amount) == bacHeld >= amount
ExitBacPresent(amount) == bacHeld >= lockedBac - totalBurned + amount

-----------------------------------------------------------------------------
(* A fresh deployment: `initialize` at StartTime.  A snapshot that was never *)
(* taken is all zero in the code and never read (nothing is owed yet).       *)
Init ==
    /\ now = StartTime
    /\ anchorState = [e \in Epochs |-> "OPEN"]
    /\ anchorWitnessed = [e \in Epochs |-> FALSE]
    /\ haltReason = 0
    /\ lockedBac = 0 /\ totalBurned = 0 /\ depositId = 0
    /\ totalCreditsIssued = 0 /\ totalCreditsExited = 0
    /\ credited = [a \in Agents |-> 0] /\ exitedCredits = [a \in Agents |-> 0]
    /\ unattributedExited = 0
    /\ buybackBac = 0 /\ owedTotal = 0 /\ reservedTotal = 0
    /\ releaseIndex = InitialPoint
    /\ owed = [w \in Wallets |-> 0] /\ unclaimed = [w \in Wallets |-> 0]
    /\ releaseSnap = [w \in Wallets |-> InitialPoint]
    /\ lastCollectEpoch = [w \in Wallets |-> 0]
    /\ exitClaimed = {}
    /\ epochOwed = [e \in Epochs |-> [w \in Wallets |-> 0]]
    /\ claimHistory = [w \in Wallets |-> [t \in Times |-> 0]]
    /\ owedPaid = [w \in Wallets |-> 0]
    /\ lastSettledEpoch = epochNow /\ lastPotBps = 0
    /\ releasedInWindow = 0
    /\ potRing = [i \in 0..NO_ATTEST_WINDOW - 1 |-> [amount |-> 0, day |-> 0]]
    /\ pauseStartedAt = 0 /\ pausedUntil = 0 /\ pausedCumulative = 0
    /\ halted = FALSE /\ haltCause = 0 /\ haltedAt = 0
    /\ escapeArmedAt = 0 /\ armedCause = 0
    /\ escapeTotalWeight = 0 /\ accPerWeightBac = 0 /\ accPerWeightBnb = 0
    /\ escapeDebtBac = [a \in Agents |-> 0] /\ escapeDebtBnb = [a \in Agents |-> 0]
    /\ bnbBalance = 0 /\ buybackBudget = 0 /\ lastBuybackEpoch = epochNow
    /\ swapBefore = NoSwap
    /\ bacHeld = 0 /\ bnbHeld = 0 /\ emergencyCount = 0 /\ inflows = 0 /\ harvests = 0

-----------------------------------------------------------------------------
(* The environment: block time, the anchor contract's answers, plain token   *)
(* transfers and forced BNB.                                                 *)

Tick ==
    /\ now < MaxTime
    /\ now' = now + 1
    /\ UNCHANGED <<anchorVars, creditVars, buybackBac, indexVars, debtVars,
                    collectVars, modeVars, juniorVars, bnbVars, heldVars>>

\* The anchor contract may take any step AnchorPromise allows; ChainAnchor keeps that promise.
Anchor == INSTANCE AnchorPromise WITH state <- anchorState

AnchorResolves(e, outcome, witnessed) ==
    /\ Anchor!Resolve(e, outcome)
    /\ anchorWitnessed' = [anchorWitnessed EXCEPT ![e] = witnessed]
    /\ UNCHANGED <<haltReason, creditVars, buybackBac, indexVars, debtVars,
                    collectVars, modeVars, juniorVars, bnbVars, heldVars>>

HaltReasonBecomes(r) ==
    /\ r # haltReason
    /\ haltReason' = r
    /\ UNCHANGED <<now, anchorState, anchorWitnessed, creditVars, buybackBac,
                    indexVars, debtVars, collectVars, modeVars, juniorVars, bnbVars,
                    heldVars>>

\* A donation, or the owner putting BAC back: a plain transfer no book knows of.
TransferBac(amount) ==
    /\ inflows < MaxInflows /\ inflows' = inflows + 1
    /\ bacHeld' = bacHeld + amount
    /\ UNCHANGED <<externalVars, creditVars, buybackBac, indexVars, debtVars,
                    collectVars, modeVars, juniorVars, bnbVars, bnbHeld,
                    emergencyCount>>

ForceBnb(amount) ==
    /\ inflows < MaxInflows /\ inflows' = inflows + 1
    /\ bnbHeld' = bnbHeld + amount
    /\ UNCHANGED <<externalVars, creditVars, buybackBac, indexVars, debtVars,
                    collectVars, modeVars, juniorVars, bnbVars, bacHeld,
                    emergencyCount>>

-----------------------------------------------------------------------------
(* In *)

\* lock(agentId, amount); the identity gate and the controller are not modelled here.
Lock(a, amount) ==
    /\ notEntered /\ ~halted
    /\ depositId < MaxDeposits
    /\ depositId' = depositId + 1
    /\ bacHeld' = bacHeld + amount
    /\ lockedBac' = lockedBac + amount
    /\ totalCreditsIssued' = totalCreditsIssued + amount
    /\ credited' = [credited EXCEPT ![a] = @ + amount]
    /\ UNCHANGED <<externalVars, totalBurned, exitedVars, buybackBac, indexVars,
                    debtVars, collectVars, modeVars, juniorVars, bnbVars, bnbHeld,
                    emergencyCount, inflows>>

\* acceptRelease(): not `nonReentrant`, so it may land inside a buyback's swap.
AcceptRelease(amount) ==
    /\ inflows < MaxInflows /\ inflows' = inflows + 1
    /\ bnbHeld' = bnbHeld + amount
    /\ bnbBalance' = bnbBalance + amount
    /\ accPerWeightBnb' = accPerWeightBnb + JuniorShare(amount)
    /\ UNCHANGED <<externalVars, creditVars, buybackBac, indexVars, debtVars,
                    collectVars, modeVars, accPerWeightBac, escapeVars, buybackBudget,
                    lastBuybackEpoch, swapBefore, bacHeld, emergencyCount>>

SweepUntracked ==
    LET swept == bnbHeld - bnbBalance
    IN  /\ notEntered
        /\ swept > 0
        /\ bnbBalance' = bnbBalance + swept
        /\ accPerWeightBnb' = accPerWeightBnb + JuniorShare(swept)
        /\ UNCHANGED <<externalVars, creditVars, buybackBac, indexVars, debtVars,
                        collectVars, modeVars, accPerWeightBac, escapeVars,
                        buybackBudget, lastBuybackEpoch, swapBefore, heldVars>>

SweepUntrackedBac ==
    LET swept == bacHeld - bacAccounted
    IN  /\ notEntered
        /\ swept > 0
        /\ buybackBac' = buybackBac + swept
        /\ accPerWeightBac' = accPerWeightBac + JuniorShare(swept)
        /\ UNCHANGED <<externalVars, creditVars, indexVars, debtVars, collectVars,
                        modeVars, accPerWeightBnb, escapeVars, bnbVars, heldVars>>

-----------------------------------------------------------------------------
(* Buyback: the BNB leaves the book before the external call, and whatever    *)
(* is not `nonReentrant` may run before the bought BAC is filed.              *)

buybackElapsed == Least(Greatest(epochNow - lastBuybackEpoch, 0), EPOCHS_PER_DAY)

accruedBudget ==
    Least(bnbBalance,
          buybackBudget + (bnbBalance * BUYBACK_DAILY_BPS * buybackElapsed)
                             \div (BPS * EPOCHS_PER_DAY))

BuybackDue ==
    /\ notEntered /\ ~halted
    /\ epochNow >= lastBuybackEpoch
    /\ epochNow - lastBuybackEpoch >= BUYBACK_MIN_INTERVAL
    /\ lastBuybackEpoch' = epochNow

\* Skips 3 to 6: too little to spend, too little held, no venue, or the venue call failed
\* (the book is put back).  Only the accrual stays.
BuybackSkipped ==
    /\ BuybackDue
    /\ buybackBudget' = accruedBudget
    /\ UNCHANGED <<externalVars, creditVars, buybackBac, indexVars, debtVars,
                    collectVars, modeVars, juniorVars, bnbBalance, swapBefore,
                    heldVars>>

\* The caller's maxSpend may lower the spend to anything from the minimum up.
BuybackBegin(spend) ==
    /\ BuybackDue
    /\ MIN_BUYBACK_BNB <= spend /\ spend <= MAX_BUYBACK_BNB
    /\ spend <= accruedBudget /\ spend <= bnbHeld
    /\ bnbBalance' = bnbBalance - spend
    /\ bnbHeld' = bnbHeld - spend
    /\ buybackBudget' = accruedBudget - spend
    /\ swapBefore' = bacHeld
    /\ UNCHANGED <<externalVars, creditVars, buybackBac, indexVars, debtVars,
                    collectVars, modeVars, juniorVars, bacHeld, emergencyCount, inflows>>

\* The measured delta is what is filed.  A revert below the floor undoes the whole call.
BuybackEnd(output) ==
    LET bought == bacHeld + output - swapBefore
    IN  /\ swapBefore # NoSwap
        /\ bacHeld' = bacHeld + output
        /\ buybackBac' = buybackBac + bought
        /\ swapBefore' = NoSwap
        /\ UNCHANGED <<externalVars, creditVars, indexVars, debtVars, collectVars,
                        modeVars, juniorVars, bnbBalance, buybackBudget,
                        lastBuybackEpoch, bnbHeld, emergencyCount, inflows>>

-----------------------------------------------------------------------------
(* Out, normal mode *)

\* `owed[who] -= amount; owedTotal -= amount`
DebtLess(w, amount) ==
    /\ owed' = [owed EXCEPT ![w] = @ - amount]
    /\ owedTotal' = owedTotal - amount

\* The BAC an exit of this many credits locks: a share of the bucket's free part.
ExitShareOfWholeBucket(credits) == (credits * buybackBac) \div creditsOutstanding
ExitShare(credits) == (credits * (buybackBac - owedTotal)) \div creditsOutstanding

\* Attribution is truncated at what the agent put in and has not exited yet.
Attributed(x) == Least(x.credits, credited[x.agent] - exitedCredits[x.agent])

ClaimExit(x) ==
    LET amount == ExitShare(x.credits)
    IN  /\ ~halted
        /\ anchorState[x.epoch] = "FINAL"
        /\ x.id \notin exitClaimed
        /\ creditsOutstanding >= x.credits /\ x.credits > 0
        /\ amount > 0
        /\ unclaimed' = [unclaimed EXCEPT ![x.to] = Harvested(x.to)]
        /\ releaseSnap' = [releaseSnap EXCEPT ![x.to] = releaseIndex]
        /\ harvests' = harvests + 1
        /\ claimHistory' = NoteClaim(x.to, amount)
        /\ owed' = [owed EXCEPT ![x.to] = @ + amount]
        /\ owedTotal' = owedTotal + amount
        /\ epochOwed' = [epochOwed EXCEPT ![x.epoch][x.to] = @ + amount]
        /\ exitClaimed' = exitClaimed \cup {x.id}
        /\ exitedCredits' = [exitedCredits EXCEPT ![x.agent] = @ + Attributed(x)]
        /\ unattributedExited' = unattributedExited + x.credits - Attributed(x)
        /\ totalCreditsExited' = totalCreditsExited + x.credits
        /\ UNCHANGED <<externalVars, entryVars, buybackBac, indexVars, reservedTotal,
                        collectVars, modeVars, juniorVars, bnbVars, heldVars>>

collectCap(span) ==
    (buybackBac * lastPotBps * MAX_EXIT_SHARE_BPS * span) \div (BPS * BPS * EPOCHS_PER_DAY)

\* What is released to w, up to its speed limit and, for dust, up to the reservation.
Collectable(w) ==
    Least(Least(Harvested(w), reservedTotal),
          collectCap(Least(epochNow - lastCollectEpoch[w], MAX_CATCHUP_EPOCHS)))

Collect(w) ==
    LET paid == Collectable(w)
    IN  /\ notEntered /\ ~isPaused /\ ~halted
        /\ lastCollectEpoch[w] < epochNow
        /\ paid > 0
        /\ ExitBacPresent(paid)
        /\ lastCollectEpoch' = [lastCollectEpoch EXCEPT ![w] = epochNow]
        /\ unclaimed' = [unclaimed EXCEPT ![w] = Harvested(w) - paid]
        /\ releaseSnap' = [releaseSnap EXCEPT ![w] = releaseIndex]
        /\ harvests' = harvests + 1
        /\ DebtLess(w, paid)
        /\ owedPaid' = [owedPaid EXCEPT ![w] = @ + paid]
        /\ reservedTotal' = reservedTotal - paid
        /\ buybackBac' = buybackBac - paid
        /\ bacHeld' = bacHeld - paid
        /\ UNCHANGED <<externalVars, creditVars, indexVars, epochOwed, claimHistory,
                        modeVars, juniorVars, bnbVars, bnbHeld, emergencyCount, inflows>>

BurnLocked ==
    LET burned == lockedBac - totalBurned
    IN  /\ notEntered
        /\ burned > 0 /\ bacHeld >= burned
        /\ totalBurned' = lockedBac
        /\ bacHeld' = bacHeld - burned
        /\ UNCHANGED <<externalVars, lockedBac, depositId, totalCreditsIssued,
                        credited, exitedVars, buybackBac, indexVars, debtVars,
                        collectVars, modeVars, juniorVars, bnbVars, bnbHeld,
                        emergencyCount, inflows>>

-----------------------------------------------------------------------------
(* Settlement: strictly sequential, permissionless. *)

SettleInOrder(e) ==
    /\ ~halted
    /\ e = lastSettledEpoch + 1 /\ e \in Epochs
    /\ lastSettledEpoch' = e

\* A vetoed or disputed epoch, or one nobody resolved within the grace period: no pot.
SettleSkipped(e) ==
    /\ SettleInOrder(e)
    /\ \/ anchorState[e] \in {"VETOED", "DISPUTED"}
       \/ anchorState[e] = "OPEN" /\ now >= (e + 1) * EPOCH + SETTLE_GRACE
    /\ UNCHANGED <<externalVars, creditVars, buybackBac, releaseIndex, lastPotBps,
                    releasedInWindow, potRing, debtVars, collectVars, modeVars,
                    juniorVars, bnbVars, heldVars>>

SettleWithoutDebt(e) ==
    /\ SettleInOrder(e)
    /\ anchorState[e] = "FINAL" /\ owedTotal = 0
    /\ reservedTotal' = 0
    /\ UNCHANGED <<externalVars, creditVars, buybackBac, releaseIndex, lastPotBps,
                    releasedInWindow, potRing, claimVars, unclaimed, releaseSnap, harvests,
                    collectVars, modeVars, juniorVars, bnbVars, heldVars>>

headroomOfAllDebt == owedTotal
headroom == owedTotal - reservedTotal

\* The window once the day's slot of the ring is the day's own.
DaySlot(day) == day % NO_ATTEST_WINDOW
WindowAt(day) ==
    IF potRing[DaySlot(day)].day = day THEN releasedInWindow
    ELSE releasedInWindow - potRing[DaySlot(day)].amount
SlotAmountAt(day) ==
    IF potRing[DaySlot(day)].day = day THEN potRing[DaySlot(day)].amount ELSE 0

\* The zero-witness ceiling: what an unwatched window may still release.
UnwitnessedRoomPerPot(day) == (buybackBac * NO_ATTEST_WINDOW_BPS) \div BPS
UnwitnessedRoom(day) ==
    Greatest((buybackBac * NO_ATTEST_WINDOW_BPS) \div BPS - WindowAt(day), 0)

Pot(e, bps) ==
    LET share == ((buybackBac - reservedTotal) * bps) \div (BPS * EPOCHS_PER_DAY)
        capped == Least(share, headroom)
    IN  IF anchorWitnessed[e] THEN capped
        ELSE Least(capped, UnwitnessedRoom(e \div EPOCHS_PER_DAY))

SettleFinal(e, bps) ==
    LET day == e \div EPOCHS_PER_DAY
        pot == Pot(e, bps)
    IN  /\ SettleInOrder(e)
        /\ anchorState[e] = "FINAL" /\ owedTotal # 0
        /\ potRing' = [potRing EXCEPT ![DaySlot(day)] =
                          [amount |-> SlotAmountAt(day) + pot, day |-> day]]
        /\ releasedInWindow' = WindowAt(day) + pot
        /\ releaseIndex' = IF pot = 0 THEN releaseIndex
                           ELSE AdvanceRelease(releaseIndex, pot, headroom)
        /\ reservedTotal' = reservedTotal + pot
        /\ lastPotBps' = bps
        /\ UNCHANGED <<externalVars, creditVars, buybackBac, claimVars, unclaimed,
                        releaseSnap, harvests, collectVars, modeVars, juniorVars, bnbVars,
                        heldVars>>

-----------------------------------------------------------------------------
(* Watchdog *)

\* What revokeEpochOwed takes from one holder: the epoch's debt, up to all it is owed.
RevokedFrom(e, w) == Least(epochOwed[e][w], owed[w])

\* The released part that no longer has a debt behind it.
DroppedByNobody(e, w) == 0
DroppedBy(e, w) ==
    IF RevokedFrom(e, w) = 0 THEN 0
    ELSE Greatest(Harvested(w) - (owed[w] - RevokedFrom(e, w)), 0)

RevokeEpochOwed(e, holders) ==
    LET hit == {w \in holders : RevokedFrom(e, w) > 0}
    IN  /\ "watchdog" \in Keys
        /\ ~halted /\ isPaused
        /\ hit # {}
        /\ \E revoked \in 0..owedTotal, dropped \in 0..owedTotal :
              /\ revoked = SumFunctionOnSet([w \in Wallets |-> RevokedFrom(e, w)], holders)
              /\ dropped = SumFunctionOnSet([w \in Wallets |-> DroppedBy(e, w)], holders)
              /\ owedTotal' = owedTotal - revoked
              /\ reservedTotal' = Least(Greatest(reservedTotal - dropped, 0),
                                        owedTotal - revoked)
        /\ owed' = [w \in Wallets |-> IF w \in hit THEN owed[w] - RevokedFrom(e, w) ELSE owed[w]]
        /\ epochOwed' = [epochOwed EXCEPT ![e] =
                            [w \in Wallets |-> IF w \in hit THEN 0 ELSE @[w]]]
        /\ unclaimed' = [w \in Wallets |->
                            IF w \in hit THEN Least(Harvested(w), owed[w] - RevokedFrom(e, w))
                            ELSE unclaimed[w]]
        /\ releaseSnap' = [w \in Wallets |-> IF w \in hit THEN releaseIndex ELSE releaseSnap[w]]
        /\ harvests' = harvests + Cardinality(hit)
        /\ UNCHANGED <<externalVars, creditVars, buybackBac, indexVars, claimHistory,
                        collectVars, modeVars, juniorVars, bnbVars, heldVars>>

Pause ==
    /\ "watchdog" \in Keys
    /\ pausedCumulative + pauseUsed < MAX_PAUSE_TOTAL
    /\ pausedCumulative' = pausedCumulative + pauseUsed
    /\ pauseStartedAt' = now
    /\ pausedUntil' = now + PAUSE_LEN
    /\ UNCHANGED <<externalVars, creditVars, buybackBac, indexVars, debtVars,
                    collectVars, armVars, haltVars, juniorVars, bnbVars, heldVars>>

Unpause ==
    /\ "watchdog" \in Keys
    /\ pausedUntil # 0
    /\ pausedCumulative' = pausedCumulative + pauseUsed
    /\ pausedUntil' = 0 /\ pauseStartedAt' = 0
    /\ UNCHANGED <<externalVars, creditVars, buybackBac, indexVars, debtVars,
                    collectVars, armVars, haltVars, juniorVars, bnbVars,
                    heldVars>>

-----------------------------------------------------------------------------
(* Out, escape mode *)

ArmWith(cause) ==
    /\ escapeArmedAt' = now /\ armedCause' = cause
    /\ UNCHANGED <<externalVars, creditVars, buybackBac, indexVars, debtVars,
                    collectVars, pauseVars, haltVars, juniorVars, bnbVars, heldVars>>

\* armEscape(), watchdog only
ArmEscape ==
    /\ "watchdog" \in Keys
    /\ ~halted /\ escapeArmedAt = 0
    /\ ArmWith(4)

\* cancelEscapeArm(), veto key only, and only once the trigger is gone
armCancellableAtWill == TRUE
armCancellable == armedCause = 4 \/ pendingCause = 0

CancelEscapeArm ==
    /\ "vetoKey" \in Keys
    /\ ~halted /\ escapeArmedAt # 0
    /\ armCancellable
    /\ escapeArmedAt' = 0 /\ armedCause' = 0
    /\ UNCHANGED <<externalVars, creditVars, buybackBac, indexVars, debtVars,
                    collectVars, pauseVars, haltVars, juniorVars, bnbVars, heldVars>>

\* checkHalt() the first time
CheckHaltArms ==
    /\ ~halted /\ escapeArmedAt = 0
    /\ pendingCause # 0
    /\ ArmWith(pendingCause)

haltDue ==
    /\ ~halted /\ escapeArmedAt # 0
    /\ now >= escapeArmedAt + ESCAPE_ARM_DELAY
    /\ armedCause = 4 \/ pendingCause # 0

\* The junior denominator is the sum of all escape weights.
weightAtHaltPerSpec == creditsOutstanding
weightAtHalt == creditsOutstanding + unattributedExited

\* checkHalt() once the arming delay is over, with _halt: senior debt is carved out first.
CheckHaltHalts ==
    LET weight == weightAtHalt
    IN  /\ haltDue
        /\ reservedTotal' = 0 /\ buybackBudget' = 0
        /\ escapeTotalWeight' = weight
        /\ accPerWeightBac' =
              IF weight = 0 THEN 0 ELSE ((buybackBac - owedTotal) * ACC) \div weight
        /\ accPerWeightBnb' = IF weight = 0 THEN 0 ELSE (bnbBalance * ACC) \div weight
        /\ halted' = TRUE /\ haltedAt' = now /\ haltCause' = armedCause
        /\ UNCHANGED <<externalVars, creditVars, buybackBac, indexVars, claimVars,
                        unclaimed, releaseSnap, harvests, collectVars, pauseVars, armVars,
                        escapeVars, bnbBalance, lastBuybackEpoch, swapBefore,
                        heldVars>>

ClaimOwedAfterHalt(w) ==
    LET paid == IF haltCause \notin {2, 3} /\ now >= haltedAt + OWED_MATURITY THEN owed[w]
                ELSE MaturedOwed(w, MaturityCutoff(haltedAt))
    IN  /\ notEntered /\ halted
        /\ paid > 0 /\ paid <= owedTotal /\ paid <= buybackBac    \* checked subtractions
        /\ ExitBacPresent(paid)
        /\ DebtLess(w, paid)
        /\ owedPaid' = [owedPaid EXCEPT ![w] = @ + paid]
        /\ unclaimed' = [unclaimed EXCEPT ![w] = Least(@, owed[w] - paid)]
        /\ buybackBac' = buybackBac - paid
        /\ bacHeld' = bacHeld - paid
        /\ UNCHANGED <<externalVars, creditVars, indexVars, epochOwed, claimHistory,
                        reservedTotal, releaseSnap, harvests, lastCollectEpoch, modeVars,
                        juniorVars, bnbVars, bnbHeld, emergencyCount, inflows>>

SweepImmatureOwed(w) ==
    LET amount == owed[w] - MaturedOwed(w, MaturityCutoff(haltedAt))
    IN  /\ halted /\ haltCause \in {2, 3}
        /\ now >= haltedAt + OWED_MATURITY
        /\ amount > 0 /\ amount <= owedTotal                       \* checked subtraction
        /\ DebtLess(w, amount)
        /\ unclaimed' = [unclaimed EXCEPT ![w] = Least(@, owed[w] - amount)]
        /\ accPerWeightBac' = accPerWeightBac + JuniorShare(amount)
        /\ UNCHANGED <<externalVars, creditVars, buybackBac, indexVars, epochOwed,
                        claimHistory, reservedTotal, releaseSnap, harvests, collectVars,
                        modeVars, accPerWeightBnb, escapeVars, bnbVars, heldVars>>

JuniorWeight(a) == credited[a] - exitedCredits[a]
JuniorBacDue(a) == (JuniorWeight(a) * accPerWeightBac) \div ACC - escapeDebtBac[a]
JuniorBnbDue(a) == (JuniorWeight(a) * accPerWeightBnb) \div ACC - escapeDebtBnb[a]

\* escapeCollect(agentId): each leg is settled only if its asset is physically here.
EscapeCollect(a) ==
    LET bacPaid == IF ExitBacPresent(JuniorBacDue(a)) THEN JuniorBacDue(a) ELSE 0
        bnbPaid == IF bnbHeld >= JuniorBnbDue(a) THEN JuniorBnbDue(a) ELSE 0
    IN  /\ notEntered /\ halted
        /\ JuniorBacDue(a) >= 0 /\ JuniorBnbDue(a) >= 0            \* checked subtractions
        /\ bacPaid > 0 \/ bnbPaid > 0
        /\ bacPaid <= buybackBac /\ bnbPaid <= bnbBalance          \* checked subtractions
        /\ escapeDebtBac' = [escapeDebtBac EXCEPT ![a] = @ + bacPaid]
        /\ escapeDebtBnb' = [escapeDebtBnb EXCEPT ![a] = @ + bnbPaid]
        /\ buybackBac' = buybackBac - bacPaid
        /\ bnbBalance' = bnbBalance - bnbPaid
        /\ bacHeld' = bacHeld - bacPaid
        /\ bnbHeld' = bnbHeld - bnbPaid
        /\ UNCHANGED <<externalVars, creditVars, indexVars, debtVars, collectVars,
                        modeVars, accVars, buybackBudget, lastBuybackEpoch,
                        swapBefore, emergencyCount, inflows>>

-----------------------------------------------------------------------------
(* Owner powers: the physical balances move, the books do not. *)

EmergencyWithdrawBac(amount) ==
    /\ "owner" \in Keys
    /\ notEntered /\ emergencyCount < MaxWithdrawals
    /\ amount <= bacHeld
    /\ bacHeld' = bacHeld - amount
    /\ emergencyCount' = emergencyCount + 1
    /\ UNCHANGED <<externalVars, creditVars, buybackBac, indexVars, debtVars,
                    collectVars, modeVars, juniorVars, bnbVars, bnbHeld, inflows>>

EmergencyWithdrawBnb(amount) ==
    /\ "owner" \in Keys
    /\ notEntered /\ emergencyCount < MaxWithdrawals
    /\ amount <= bnbHeld
    /\ bnbHeld' = bnbHeld - amount
    /\ emergencyCount' = emergencyCount + 1
    /\ UNCHANGED <<externalVars, creditVars, buybackBac, indexVars, debtVars,
                    collectVars, modeVars, juniorVars, bnbVars, bacHeld, inflows>>

-----------------------------------------------------------------------------
Environment ==
    \/ Tick
    \/ \E e \in Epochs, outcome \in AnchorOutcomes : AnchorResolves(e, outcome[1], outcome[2])
    \/ \E r \in HaltReasons : HaltReasonBecomes(r)
    \/ \E amount \in BacAmounts : TransferBac(amount)
    \/ \E amount \in BnbAmounts : ForceBnb(amount)

Inflow ==
    \/ \E a \in Agents, amount \in LockAmounts : Lock(a, amount)
    \/ \E amount \in BnbAmounts : AcceptRelease(amount)
    \/ SweepUntracked
    \/ SweepUntrackedBac
    \/ BuybackSkipped
    \/ \E spend \in 1..MAX_BUYBACK_BNB : BuybackBegin(spend)
    \/ \E output \in BuyOutputs : BuybackEnd(output)

Payout ==
    \/ \E x \in Exits : ClaimExit(x)
    \/ \E w \in Wallets : Collect(w)
    \/ BurnLocked

Settle ==
    \E e \in Epochs :
       \/ SettleSkipped(e)
       \/ SettleWithoutDebt(e)
       \/ \E bps \in BpsTiers : SettleFinal(e, bps)

Brake ==
    \/ \E e \in Epochs, holders \in SUBSET Wallets : RevokeEpochOwed(e, holders)
    \/ Pause
    \/ Unpause

Escape ==
    \/ ArmEscape
    \/ CancelEscapeArm
    \/ CheckHaltArms
    \/ CheckHaltHalts
    \/ \E w \in Wallets : ClaimOwedAfterHalt(w) \/ SweepImmatureOwed(w)
    \/ \E a \in Agents : EscapeCollect(a)

Owner ==
    \E amount \in WithdrawAmounts : EmergencyWithdrawBac(amount) \/ EmergencyWithdrawBnb(amount)

Next == Environment \/ Inflow \/ Payout \/ Settle \/ Brake \/ Escape \/ Owner

Spec == Init /\ [][Next]_vars

\* Time passes, anybody may call checkHalt once it is due, and a creditor claims what is payable.
LiveSpec ==
    /\ Spec
    /\ WF_vars(Tick)
    /\ WF_vars(CheckHaltHalts)
    /\ \A w \in Wallets : WF_vars(ClaimOwedAfterHalt(w))

-----------------------------------------------------------------------------
(* Properties *)

\* Every variable keeps its type: in particular no book, debt or weight goes below zero.  The sum of
\* the ring of pots is the only one whose sign hangs on a sum.
BooksTypeOK ==
    /\ now \in Times
    /\ anchorState \in [Epochs -> {"OPEN", "FINAL", "VETOED", "DISPUTED"}]
    /\ anchorWitnessed \in [Epochs -> BOOLEAN] /\ haltReason \in 0..3
    /\ {lockedBac, totalBurned, depositId, totalCreditsIssued, totalCreditsExited,
        unattributedExited, buybackBac, owedTotal, reservedTotal, lastSettledEpoch, lastPotBps,
        pauseStartedAt, pausedUntil, pausedCumulative,
        escapeArmedAt, escapeTotalWeight, accPerWeightBac, accPerWeightBnb, bnbBalance,
        buybackBudget, lastBuybackEpoch, bacHeld, bnbHeld, emergencyCount, inflows, harvests} \subseteq Nat
    /\ haltCause \in Causes /\ armedCause \in Causes /\ halted \in BOOLEAN /\ haltedAt \in Times
    /\ {credited, exitedCredits, escapeDebtBac, escapeDebtBnb} \subseteq [Agents -> Nat]
    /\ {owed, unclaimed, lastCollectEpoch, owedPaid} \subseteq [Wallets -> Nat]
    /\ releaseIndex \in ReleasePoint /\ releaseSnap \in [Wallets -> ReleasePoint]
    /\ exitClaimed \subseteq ExitIds
    /\ epochOwed \in [Epochs -> [Wallets -> Nat]]
    /\ claimHistory \in [Wallets -> [Times -> Nat]]
    /\ releasedInWindow \in Int
    /\ potRing \in [0..NO_ATTEST_WINDOW - 1 -> [amount : Nat, day : Nat]]
    /\ swapBefore \in Nat \cup {NoSwap}
TypeOK == BooksTypeOK /\ releasedInWindow \in Nat

\* The debt is always backed (B1, B14): what exits locked never exceeds the bought-back BAC,
\* what pots reserved never exceeds the debt, and nobody was released more than it is owed.
DebtIsBacked ==
    /\ owedTotal <= buybackBac
    /\ reservedTotal <= owedTotal
    /\ \A w \in Wallets : unclaimed[w] <= owed[w]

\* The total the code carries is the sum of the debts, through claim, payment, revocation and
\* demotion; a total that drifts bricks the last payment on a checked subtraction.
OwedTotalIsTheSum == owedTotal = SumFunction(owed)

\* B3: what is reserved can be collected, to the wei, and what addresses may collect is reserved
\* up to the wei each harvest and each address pending one may round in its favour.  A shortfall
\* starves the last claimant, a surplus withholds BAC from every later exit.
ClaimsReleased == SumFunction([w \in Wallets |-> Harvested(w)])
ReservedMatchesClaims ==
    ~halted => /\ reservedTotal <= ClaimsReleased
               /\ ClaimsReleased <= reservedTotal + harvests + Cardinality(Wallets)

\* B4, B11: every credit that left is attributed once, and no agent's escape weight underflows.
CreditsAddUp ==
    /\ totalCreditsExited <= totalCreditsIssued
    /\ SumFunction(credited) = totalCreditsIssued
    /\ SumFunction(exitedCredits) + unattributedExited = totalCreditsExited
    /\ \A a \in Agents : exitedCredits[a] <= credited[a]

\* B2, B6: while the owner has taken nothing, both books are physically covered, also in the
\* middle of a buyback's swap; a wei booked twice by two sweeps would break it.
BooksAreHeld ==
    emergencyCount = 0 => /\ bacHeld >= bacAccounted
                          /\ bnbHeld >= bnbBalance

\* B12: after a halt the senior debt and every junior share still due are covered by the bucket,
\* whatever exits were truncated, debts demoted and inflows accepted in between.
JuniorIsBacked ==
    halted => /\ owedTotal + SumFunction([a \in Agents |-> JuniorBacDue(a)]) <= buybackBac
              /\ SumFunction([a \in Agents |-> JuniorBnbDue(a)]) <= bnbBalance
              /\ \A a \in Agents : JuniorBacDue(a) >= 0 /\ JuniorBnbDue(a) >= 0

\* The accrued budget never promises more BNB than the book has (a halt during a swap included).
BudgetIsBounded == buybackBudget <= bnbBalance

\* An overrun pause budget is a halt condition for good, and one pause overruns it by less than
\* its own length.
PauseOverrunIsBounded ==
    /\ pausedCumulative + pauseUsed < MAX_PAUSE_TOTAL + PAUSE_LEN
    /\ pausedCumulative + pauseUsed >= MAX_PAUSE_TOTAL => pendingCause # 0

\* Decision 24a: whoever is paid BAC as an exiter, the unburned deposits are still here
\* afterwards, even when the owner took out part of the bucket first.
DepositsNeverPayExits ==
    [][buybackBac' < buybackBac => bacHeld' >= lockedBac' - totalBurned']_vars

\* B10: a claim never lowers the rate (free BAC per outstanding credit) of those who claim later.
RateSurvivesClaims ==
    [][totalCreditsExited' # totalCreditsExited =>
          (buybackBac' - owedTotal') * creditsOutstanding
             >= (buybackBac - owedTotal) * creditsOutstanding']_vars

\* v1.1: an address's matured debt shrinks only by what it is paid. Neither somebody else's exit
\* to the same address, nor a halt, nor a demotion takes it back.
MaturedOwedNeverTakenBack ==
    [][\A w \in Wallets :
          maturedOwed(w)' >= maturedOwed(w) - (owedPaid'[w] - owedPaid[w])]_vars

\* The zero-witness ceiling: a pot of an epoch nobody attested leaves the pots of the last
\* NO_ATTEST_WINDOW days, this one included, within their share of the bucket.
PotsOfWindow(ring, day) ==
    SumFunction([i \in DOMAIN ring |->
        IF ring[i].day + NO_ATTEST_WINDOW > day THEN ring[i].amount ELSE 0])
UnwitnessedPotsAreCapped ==
    [][reservedTotal' > reservedTotal /\ ~anchorWitnessed[lastSettledEpoch'] =>
          PotsOfWindow(potRing', lastSettledEpoch' \div EPOCHS_PER_DAY)
             <= (buybackBac * NO_ATTEST_WINDOW_BPS) \div BPS]_vars

\* Once the pause budget is used up and the bridge armed for it, nobody (watchdog and veto key
\* included) can keep the escape shut: the halt comes.
ExhaustedPauseBudgetHalts ==
    (pausedCumulative >= MAX_PAUSE_TOTAL /\ armedCause = 5
        /\ escapeArmedAt + ESCAPE_ARM_DELAY <= MaxTime) ~> halted

\* After a halt no signal of forgery stands behind (any cause but 2 and 3), every debt is paid in
\* full, the immature part OWED_MATURITY later; no other claim, burn or inflow can stand in the way.
SeniorDebtIsPaid ==
    \A w \in Wallets :
       (halted /\ haltCause \notin {2, 3} /\ haltedAt + OWED_MATURITY <= MaxTime) ~> owed[w] = 0

\* docs/00-DESIGN-SPEC.md 4.5: a trigger only ever arms.  The step that makes a trigger true
\* never makes a halt due (the watchdog's own arming, cause 4, needs no trigger).
NoTriggerHaltsOnTheSpot ==
    [][pendingCause = 0 /\ pendingCause' # 0 /\ armedCause' # 4 => ~haltDue']_vars

\* No book leaves its type, both vaults hold what the books say, and the budget of the next buyback
\* is within its book.
BooksAreSound == TypeOK /\ BooksAreHeld /\ BudgetIsBounded

\* Every debt and every credit is counted once, so after a halt the debts and the shares that are
\* left to the agents are covered.
ClaimsAddUp == OwedTotalIsTheSum /\ CreditsAddUp /\ JuniorIsBacked

\* A bridge that is paused too long halts, and a halted one pays everybody it owes.
EscapeEnds == ExhaustedPauseBudgetHalts /\ SeniorDebtIsPaid
=============================================================================
