-------------------------- MODULE BacBridgeProofs --------------------------
(***************************************************************************)
(* What BacBridge guarantees for every set of wallets, agents and exits,   *)
(* every amount and every waiting time.  The inductive invariant IndInv    *)
(* has one part per book: each is a typing of a few variables and the      *)
(* inequality that keeps the checked subtractions of the code from         *)
(* failing.  The totals (of debts, credits, pots, and of the junior shares  *)
(* after a halt) are a second invariant on top of it, and what is reserved  *)
(* against what the index has released is a third.                         *)
(***************************************************************************)
EXTENDS BacBridge, ReleaseIndexProofs, Numbers

-----------------------------------------------------------------------------
(* The parts of the inductive invariant *)

ClockOK ==
    /\ now \in Times
    /\ anchorState \in [Epochs -> {"OPEN", "FINAL", "VETOED", "DISPUTED"}]
    /\ anchorWitnessed \in [Epochs -> BOOLEAN]
    /\ haltReason \in 0..3

\* What was burned was deposited, what has left was issued.
DepositsOK ==
    /\ lockedBac \in Nat /\ totalBurned \in Nat /\ depositId \in Nat
    /\ totalBurned <= lockedBac

CreditsOK ==
    /\ totalCreditsIssued \in Nat /\ totalCreditsExited \in Nat /\ unattributedExited \in Nat
    /\ totalCreditsExited <= totalCreditsIssued
    /\ exitClaimed \subseteq ExitIds

AttributionOK ==
    /\ credited \in [Agents -> Nat] /\ exitedCredits \in [Agents -> Nat]
    /\ \A a \in Agents : exitedCredits[a] <= credited[a]

\* Nobody was released more than it is owed.
DebtsOK ==
    /\ owed \in [Wallets -> Nat] /\ unclaimed \in [Wallets -> Nat]
    /\ \A w \in Wallets : unclaimed[w] <= owed[w]

HistoryOK ==
    /\ epochOwed \in [Epochs -> [Wallets -> Nat]]
    /\ claimHistory \in [Wallets -> [Times -> Nat]]
    /\ harvests \in Nat

\* Every snapshot lies behind the index.
IndexOK ==
    /\ InRange(releaseIndex)
    /\ releaseSnap \in [Wallets -> ReleasePoint]
    /\ \A w \in Wallets : InRange(releaseSnap[w]) /\ NotAfter(releaseSnap[w], releaseIndex)

SettlementOK ==
    /\ lastSettledEpoch \in Nat /\ lastPotBps \in Nat /\ releasedInWindow \in Int
    /\ potRing \in [0..NO_ATTEST_WINDOW - 1 -> [amount : Nat, day : Nat]]

CollectOK == lastCollectEpoch \in [Wallets -> Nat] /\ owedPaid \in [Wallets -> Nat]

\* One pause runs over the budget by less than its length.
PauseOK ==
    /\ pauseStartedAt \in Nat /\ pausedUntil \in Nat /\ pausedCumulative \in Nat
    /\ pausedCumulative < MAX_PAUSE_TOTAL + PAUSE_LEN
    /\ pausedUntil # 0 => /\ pausedUntil = pauseStartedAt + PAUSE_LEN
                          /\ pausedCumulative < MAX_PAUSE_TOTAL

ModeOK ==
    /\ escapeArmedAt \in Nat /\ armedCause \in Causes
    /\ halted \in BOOLEAN /\ haltCause \in Causes /\ haltedAt \in Times
    /\ escapeTotalWeight \in Nat

JuniorOK ==
    /\ accPerWeightBac \in Nat /\ accPerWeightBnb \in Nat
    /\ escapeDebtBac \in [Agents -> Nat] /\ escapeDebtBnb \in [Agents -> Nat]

\* The budget is part of the BNB book, and a halt takes it back.
BudgetOK ==
    /\ bnbBalance \in Nat /\ buybackBudget \in Nat /\ lastBuybackEpoch \in Nat
    /\ buybackBudget <= bnbBalance
    /\ halted => buybackBudget = 0

\* What pots reserved is part of the debt, and the debt part of the bucket until a halt, which
\* gives the reservation up.
BackingOK ==
    /\ buybackBac \in Nat /\ owedTotal \in Nat /\ reservedTotal \in Nat
    /\ reservedTotal <= owedTotal
    /\ ~halted => owedTotal <= buybackBac
    /\ halted => reservedTotal = 0

\* Both books are held, and a swap that has begun filed nothing it did not start from.
HeldOK ==
    /\ bacHeld \in Nat /\ bnbHeld \in Nat /\ emergencyCount \in Nat /\ inflows \in Nat
    /\ swapBefore \in Nat \cup {NoSwap}
    /\ emergencyCount = 0 => bacAccounted <= bacHeld /\ bnbBalance <= bnbHeld
    /\ swapBefore # NoSwap => /\ swapBefore <= bacHeld
                              /\ emergencyCount = 0 => bacAccounted <= swapBefore

IndInv ==
    /\ ClockOK /\ DepositsOK /\ CreditsOK /\ AttributionOK
    /\ DebtsOK /\ HistoryOK /\ IndexOK
    /\ SettlementOK /\ CollectOK /\ PauseOK /\ ModeOK /\ JuniorOK
    /\ BudgetOK /\ BackingOK /\ HeldOK

-----------------------------------------------------------------------------
(* A part whose variables do not change is kept. *)

LEMMA ClockKept ==
    ASSUME ClockOK, UNCHANGED <<now, anchorState, anchorWitnessed, haltReason>>
    PROVE  ClockOK'
BY DEF ClockOK

LEMMA DepositsKept ==
    ASSUME DepositsOK, UNCHANGED <<lockedBac, totalBurned, depositId>>
    PROVE  DepositsOK'
BY DEF DepositsOK

LEMMA CreditsKept ==
    ASSUME CreditsOK,
           UNCHANGED <<totalCreditsIssued, totalCreditsExited, unattributedExited, exitClaimed>>
    PROVE  CreditsOK'
BY DEF CreditsOK

LEMMA AttributionKept ==
    ASSUME AttributionOK, UNCHANGED <<credited, exitedCredits>>
    PROVE  AttributionOK'
BY DEF AttributionOK

LEMMA DebtsKept ==
    ASSUME DebtsOK, UNCHANGED <<owed, unclaimed>>
    PROVE  DebtsOK'
BY DEF DebtsOK

LEMMA HistoryKept ==
    ASSUME HistoryOK, UNCHANGED <<epochOwed, claimHistory, harvests>>
    PROVE  HistoryOK'
BY DEF HistoryOK

LEMMA IndexKept ==
    ASSUME IndexOK, UNCHANGED <<releaseIndex, releaseSnap>>
    PROVE  IndexOK'
BY DEF IndexOK

LEMMA SettlementKept ==
    ASSUME SettlementOK,
           UNCHANGED <<lastSettledEpoch, lastPotBps, releasedInWindow, potRing>>
    PROVE  SettlementOK'
BY DEF SettlementOK

LEMMA CollectKept ==
    ASSUME CollectOK, UNCHANGED <<lastCollectEpoch, owedPaid>>
    PROVE  CollectOK'
BY DEF CollectOK

LEMMA PauseKept ==
    ASSUME PauseOK, UNCHANGED <<pauseStartedAt, pausedUntil, pausedCumulative>>
    PROVE  PauseOK'
BY DEF PauseOK

LEMMA ModeKept ==
    ASSUME ModeOK, UNCHANGED <<escapeArmedAt, armedCause, halted, haltCause, haltedAt,
                                escapeTotalWeight>>
    PROVE  ModeOK'
BY DEF ModeOK

LEMMA JuniorKept ==
    ASSUME JuniorOK,
           UNCHANGED <<accPerWeightBac, accPerWeightBnb, escapeDebtBac, escapeDebtBnb>>
    PROVE  JuniorOK'
BY DEF JuniorOK

LEMMA BudgetKept ==
    ASSUME BudgetOK, UNCHANGED <<bnbBalance, buybackBudget, lastBuybackEpoch, halted>>
    PROVE  BudgetOK'
BY DEF BudgetOK

LEMMA BackingKept ==
    ASSUME BackingOK, UNCHANGED <<buybackBac, owedTotal, reservedTotal, halted>>
    PROVE  BackingOK'
BY DEF BackingOK

LEMMA HeldKept ==
    ASSUME HeldOK,
           UNCHANGED <<bacHeld, bnbHeld, emergencyCount, inflows, swapBefore, lockedBac,
                       totalBurned, buybackBac, bnbBalance>>
    PROVE  HeldOK'
BY DEF HeldOK, bacAccounted

-----------------------------------------------------------------------------
(* The operators *)

LEMMA LeastBounds ==
    ASSUME NEW a \in Int, NEW b \in Int
    PROVE  /\ Least(a, b) \in Int /\ Least(a, b) <= a /\ Least(a, b) <= b
           /\ Least(a, b) = a \/ Least(a, b) = b
BY DEF Least

LEMMA GreatestBounds ==
    ASSUME NEW a \in Int, NEW b \in Int
    PROVE  /\ Greatest(a, b) \in Int /\ a <= Greatest(a, b) /\ b <= Greatest(a, b)
           /\ Greatest(a, b) = a \/ Greatest(a, b) = b
BY DEF Greatest

\* The clock in epochs.
LEMMA EpochNowType ==
    ASSUME ClockOK
    PROVE  epochNow \in Nat
<1>1. now \in Nat /\ EPOCH \in Nat \ {0}
  BY SizesAssumption, UnitsAssumption DEF ClockOK, Times
<1> QED BY <1>1, DivBounds DEF epochNow

\* Harvesting releases no less than before and no more than the debt.
LEMMA HarvestBounds ==
    ASSUME DebtsOK, IndexOK, NEW w \in Wallets
    PROVE  Harvested(w) \in Nat /\ unclaimed[w] <= Harvested(w) /\ Harvested(w) <= owed[w]
<1>1. /\ owed[w] \in Nat /\ unclaimed[w] \in Nat /\ owed[w] - unclaimed[w] \in Nat
  BY DEF DebtsOK
<1>2. Unreleased(w) \in 0..(owed[w] - unclaimed[w])
  BY <1>1, UnreleasedIsAPart DEF IndexOK, Unreleased
<1> QED BY <1>1, <1>2 DEF Harvested

\* Cut-off times are times of the model.
LEMMA CutoffType ==
    ASSUME NEW t \in Times
    PROVE  MaturityCutoff(t) \in Times
BY SizesAssumption, UnitsAssumption DEF MaturityCutoff, Greatest, Times

\* Matured debt is part of the debt.
LEMMA MaturedBounds ==
    ASSUME DebtsOK, HistoryOK, CollectOK, NEW w \in Wallets, NEW t \in Times
    PROVE  MaturedOwed(w, t) \in 0..owed[w]
<1>1. owed[w] \in Nat /\ claimHistory[w][t] \in Nat /\ owedPaid[w] \in Nat
  BY DEF DebtsOK, HistoryOK, CollectOK
<1> QED BY <1>1 DEF MaturedOwed, Least, Greatest

\* A junior share is a natural number.
LEMMA JuniorShareType ==
    ASSUME ModeOK, NEW amount \in Nat
    PROVE  JuniorShare(amount) \in Nat
<1>1. amount * ACC \in Nat
  BY UnitsAssumption, ProductType
<1>2. CASE halted /\ escapeTotalWeight > 0
  <2>1. escapeTotalWeight \in Nat \ {0}
    BY <1>2 DEF ModeOK
  <2>2. (amount * ACC) \div escapeTotalWeight \in Nat
    BY <1>1, <2>1, DivBounds
  <2> QED BY <1>2, <2>2 DEF JuniorShare
<1>3. CASE ~(halted /\ escapeTotalWeight > 0)
  BY <1>3 DEF JuniorShare
<1> QED BY <1>2, <1>3

\* The accrued budget is part of the BNB book.
LEMMA BudgetBounds ==
    ASSUME ClockOK, BudgetOK
    PROVE  accruedBudget \in Nat /\ accruedBudget <= bnbBalance
<1> DEFINE rate == bnbBalance * BUYBACK_DAILY_BPS * buybackElapsed
           unit == BPS * EPOCHS_PER_DAY
<1>1. /\ bnbBalance \in Nat /\ buybackBudget \in Nat /\ lastBuybackEpoch \in Nat
      /\ epochNow \in Nat /\ EPOCHS_PER_DAY \in Nat \ {0} /\ BPS \in Nat \ {0}
      /\ BUYBACK_DAILY_BPS \in Nat
  BY EpochNowType, UnitsAssumption DEF BudgetOK
<1>2. buybackElapsed \in Nat
  BY <1>1 DEF buybackElapsed, Least, Greatest
<1>3. rate \in Nat
  BY <1>1, <1>2, ProductType
<1>4. unit \in Nat \ {0}
  BY <1>1
<1>5. rate \div unit \in Nat
  <2> HIDE DEF rate, unit
  <2> QED BY <1>3, <1>4, DivBounds
<1>6. accruedBudget = Least(bnbBalance, buybackBudget + rate \div unit)
  BY DEF accruedBudget
<1> HIDE DEF rate, unit
<1>7. Least(bnbBalance, buybackBudget + rate \div unit) \in 0..bnbBalance
  BY <1>1, <1>5 DEF Least
<1> QED BY <1>1, <1>6, <1>7

-----------------------------------------------------------------------------
(* The environment *)

LEMMA TimeIsNat == Times \subseteq Nat
BY SizesAssumption DEF Times

LEMMA EnvironmentKeeps ==
    ASSUME IndInv, Environment
    PROVE  IndInv'
<1> USE DEF externalVars, anchorVars, creditVars, entryVars, exitedVars, indexVars, debtVars,
            claimVars, releasedVars, collectVars, modeVars, pauseVars, armVars, haltVars,
            juniorVars, accVars, escapeVars, bnbVars, heldVars
<1>1. ASSUME Tick PROVE IndInv'
  <2>1. ClockOK'
    BY <1>1, SizesAssumption DEF Tick, IndInv, ClockOK, Times
  <2> QED
    BY <1>1, <2>1, DepositsKept, CreditsKept, AttributionKept, DebtsKept, HistoryKept, IndexKept,
       SettlementKept, CollectKept, PauseKept, ModeKept, JuniorKept, BudgetKept, BackingKept,
       HeldKept DEF Tick, IndInv
<1>2. ASSUME NEW e \in Epochs, NEW outcome \in AnchorOutcomes,
             AnchorResolves(e, outcome[1], outcome[2])
      PROVE  IndInv'
  <2>1. outcome[1] \in {"OPEN", "FINAL", "VETOED", "DISPUTED"} /\ outcome[2] \in BOOLEAN
    <3>1. \/ outcome = <<"FINAL", TRUE>> \/ outcome = <<"FINAL", FALSE>>
          \/ outcome = <<"VETOED", FALSE>> \/ outcome = <<"DISPUTED", FALSE>>
      BY InputsAssumption
    <3>2. /\ <<"FINAL", TRUE>>[1] = "FINAL" /\ <<"FINAL", FALSE>>[1] = "FINAL"
          /\ <<"VETOED", FALSE>>[1] = "VETOED" /\ <<"DISPUTED", FALSE>>[1] = "DISPUTED"
      OBVIOUS
    <3>3. /\ <<"FINAL", TRUE>>[2] = TRUE /\ <<"FINAL", FALSE>>[2] = FALSE
          /\ <<"VETOED", FALSE>>[2] = FALSE /\ <<"DISPUTED", FALSE>>[2] = FALSE
      OBVIOUS
    <3>4. outcome[1] \in {"OPEN", "FINAL", "VETOED", "DISPUTED"}
      BY <3>1, <3>2, Zenon
    <3>5. outcome[2] = TRUE \/ outcome[2] = FALSE
      BY <3>1, <3>3, Zenon
    <3> QED BY <3>4, <3>5, Zenon
  <2>2. ClockOK'
    BY <1>2, <2>1 DEF AnchorResolves, Anchor!Resolve, IndInv, ClockOK
  <2> QED
    BY <1>2, <2>2, DepositsKept, CreditsKept, AttributionKept, DebtsKept, HistoryKept, IndexKept,
       SettlementKept, CollectKept, PauseKept, ModeKept, JuniorKept, BudgetKept, BackingKept,
       HeldKept DEF AnchorResolves, IndInv
<1>3. ASSUME NEW r \in HaltReasons, HaltReasonBecomes(r) PROVE IndInv'
  <2>1. ClockOK'
    BY <1>3, InputsAssumption DEF HaltReasonBecomes, IndInv, ClockOK
  <2> QED
    BY <1>3, <2>1, DepositsKept, CreditsKept, AttributionKept, DebtsKept, HistoryKept, IndexKept,
       SettlementKept, CollectKept, PauseKept, ModeKept, JuniorKept, BudgetKept, BackingKept,
       HeldKept DEF HaltReasonBecomes, IndInv
<1>4. ASSUME NEW amount \in BacAmounts, TransferBac(amount) PROVE IndInv'
  <2>1. amount \in Nat
    BY InputsAssumption
  <2>2. HeldOK'
    BY <1>4, <2>1 DEF TransferBac, IndInv, HeldOK, BackingOK, DepositsOK, bacAccounted
  <2> QED
    BY <1>4, <2>2, ClockKept, DepositsKept, CreditsKept, AttributionKept, DebtsKept, HistoryKept,
       IndexKept, SettlementKept, CollectKept, PauseKept, ModeKept, JuniorKept, BudgetKept,
       BackingKept DEF TransferBac, IndInv
<1>5. ASSUME NEW amount \in BnbAmounts, ForceBnb(amount) PROVE IndInv'
  <2>1. amount \in Nat
    BY InputsAssumption
  <2>2. HeldOK'
    BY <1>5, <2>1 DEF ForceBnb, IndInv, HeldOK, BudgetOK, bacAccounted
  <2> QED
    BY <1>5, <2>2, ClockKept, DepositsKept, CreditsKept, AttributionKept, DebtsKept, HistoryKept,
       IndexKept, SettlementKept, CollectKept, PauseKept, ModeKept, JuniorKept, BudgetKept,
       BackingKept DEF ForceBnb, IndInv
<1> QED BY <1>1, <1>2, <1>3, <1>4, <1>5 DEF Environment

-----------------------------------------------------------------------------
(* In *)

LEMMA InflowKeeps ==
    ASSUME IndInv, Inflow
    PROVE  IndInv'
<1> USE DEF externalVars, anchorVars, creditVars, entryVars, exitedVars, indexVars, debtVars,
            claimVars, releasedVars, collectVars, modeVars, pauseVars, armVars, haltVars,
            juniorVars, accVars, escapeVars, bnbVars, heldVars
<1>1. ASSUME NEW a \in Agents, NEW amount \in LockAmounts, Lock(a, amount) PROVE IndInv'
  <2>1. amount \in Nat
    BY InputsAssumption
  <2>2. DepositsOK'
    BY <1>1, <2>1 DEF Lock, IndInv, DepositsOK
  <2>3. CreditsOK'
    BY <1>1, <2>1 DEF Lock, IndInv, CreditsOK
  <2>4. AttributionOK'
    BY <1>1, <2>1 DEF Lock, IndInv, AttributionOK
  <2>5. HeldOK'
    BY <1>1, <2>1 DEF Lock, notEntered, IndInv, HeldOK, BackingOK, DepositsOK, bacAccounted
  <2> QED
    BY <1>1, <2>2, <2>3, <2>4, <2>5, ClockKept, DebtsKept, HistoryKept, IndexKept, SettlementKept,
       CollectKept, PauseKept, ModeKept, JuniorKept, BudgetKept, BackingKept DEF Lock, IndInv
<1>2. ASSUME NEW amount \in BnbAmounts, AcceptRelease(amount) PROVE IndInv'
  <2>1. amount \in Nat
    BY InputsAssumption
  <2>2. JuniorShare(amount) \in Nat
    BY <2>1, JuniorShareType DEF IndInv
  <2>3. JuniorOK'
    BY <1>2, <2>2 DEF AcceptRelease, IndInv, JuniorOK
  <2>4. BudgetOK'
    BY <1>2, <2>1 DEF AcceptRelease, IndInv, BudgetOK
  <2>5. HeldOK'
    BY <1>2, <2>1 DEF AcceptRelease, IndInv, HeldOK, BudgetOK, bacAccounted
  <2> QED
    BY <1>2, <2>3, <2>4, <2>5, ClockKept, DepositsKept, CreditsKept, AttributionKept, DebtsKept,
       HistoryKept, IndexKept, SettlementKept, CollectKept, PauseKept, ModeKept, BackingKept
       DEF AcceptRelease, IndInv
<1>3. ASSUME SweepUntracked PROVE IndInv'
  <2> DEFINE swept == bnbHeld - bnbBalance
  <2>1. swept \in Nat /\ bnbBalance' = bnbHeld
    BY <1>3 DEF SweepUntracked, IndInv, HeldOK, BudgetOK
  <2>2. JuniorShare(swept) \in Nat
    BY <2>1, JuniorShareType DEF IndInv
  <2>3. JuniorOK'
    BY <1>3, <2>2 DEF SweepUntracked, IndInv, JuniorOK
  <2>4. BudgetOK'
    BY <1>3, <2>1 DEF SweepUntracked, IndInv, BudgetOK, HeldOK
  <2>5. HeldOK'
    BY <1>3, <2>1 DEF SweepUntracked, IndInv, HeldOK, BudgetOK, bacAccounted
  <2> QED
    BY <1>3, <2>3, <2>4, <2>5, ClockKept, DepositsKept, CreditsKept, AttributionKept, DebtsKept,
       HistoryKept, IndexKept, SettlementKept, CollectKept, PauseKept, ModeKept, BackingKept
       DEF SweepUntracked, IndInv
<1>4. ASSUME SweepUntrackedBac PROVE IndInv'
  <2> DEFINE swept == bacHeld - bacAccounted
  <2>1. swept \in Nat /\ buybackBac' = buybackBac + swept
    BY <1>4 DEF SweepUntrackedBac, IndInv, HeldOK, BackingOK, DepositsOK, bacAccounted
  <2>2. JuniorShare(swept) \in Nat
    BY <2>1, JuniorShareType DEF IndInv
  <2>3. JuniorOK'
    BY <1>4, <2>2 DEF SweepUntrackedBac, IndInv, JuniorOK
  <2>4. BackingOK'
    BY <1>4, <2>1 DEF SweepUntrackedBac, IndInv, BackingOK
  <2>5. HeldOK'
    BY <1>4, <2>1 DEF SweepUntrackedBac, notEntered, IndInv, HeldOK, DepositsOK, BackingOK,
                      bacAccounted
  <2> QED
    BY <1>4, <2>3, <2>4, <2>5, ClockKept, DepositsKept, CreditsKept, AttributionKept, DebtsKept,
       HistoryKept, IndexKept, SettlementKept, CollectKept, PauseKept, ModeKept, BudgetKept
       DEF SweepUntrackedBac, IndInv
<1>5. ASSUME BuybackSkipped PROVE IndInv'
  <2>1. BudgetOK'
    <3>1. accruedBudget \in Nat /\ accruedBudget <= bnbBalance /\ epochNow \in Nat
      BY BudgetBounds, EpochNowType DEF IndInv
    <3> QED BY <1>5, <3>1 DEF BuybackSkipped, BuybackDue, IndInv, BudgetOK
  <2> QED
    BY <1>5, <2>1, ClockKept, DepositsKept, CreditsKept, AttributionKept, DebtsKept, HistoryKept,
       IndexKept, SettlementKept, CollectKept, PauseKept, ModeKept, JuniorKept, BackingKept,
       HeldKept DEF BuybackSkipped, IndInv
<1>6. ASSUME NEW spend \in 1..MAX_BUYBACK_BNB, BuybackBegin(spend) PROVE IndInv'
  <2>1. /\ accruedBudget \in Nat /\ accruedBudget <= bnbBalance /\ epochNow \in Nat
        /\ spend \in Nat /\ spend <= accruedBudget /\ spend <= bnbHeld
    BY <1>6, BudgetBounds, EpochNowType, UnitsAssumption DEF BuybackBegin, IndInv
  <2>2. BudgetOK'
    BY <1>6, <2>1 DEF BuybackBegin, BuybackDue, IndInv, BudgetOK
  <2>3. HeldOK'
    BY <1>6, <2>1 DEF BuybackBegin, IndInv, HeldOK, BudgetOK, bacAccounted
  <2> QED
    BY <1>6, <2>2, <2>3, ClockKept, DepositsKept, CreditsKept, AttributionKept, DebtsKept,
       HistoryKept, IndexKept, SettlementKept, CollectKept, PauseKept, ModeKept, JuniorKept,
       BackingKept DEF BuybackBegin, BuybackDue, IndInv
<1>7. ASSUME NEW output \in BuyOutputs, BuybackEnd(output) PROVE IndInv'
  <2>1. output \in Nat
    BY InputsAssumption
  <2>2. BackingOK'
    BY <1>7, <2>1 DEF BuybackEnd, IndInv, BackingOK, HeldOK
  <2>3. HeldOK'
    BY <1>7, <2>1 DEF BuybackEnd, IndInv, HeldOK, DepositsOK, BackingOK, BudgetOK, NoSwap,
                      bacAccounted
  <2> QED
    BY <1>7, <2>2, <2>3, ClockKept, DepositsKept, CreditsKept, AttributionKept, DebtsKept,
       HistoryKept, IndexKept, SettlementKept, CollectKept, PauseKept, ModeKept, JuniorKept,
       BudgetKept DEF BuybackEnd, IndInv
<1> QED BY <1>1, <1>2, <1>3, <1>4, <1>5, <1>6, <1>7 DEF Inflow

-----------------------------------------------------------------------------
(* Out, normal mode *)

\* An exit locks a part of what no debt stands on, and credits that are there to leave.
LEMMA ExitShareBounds ==
    ASSUME IndInv, ~halted, NEW credits \in Nat \ {0}, credits <= creditsOutstanding
    PROVE  /\ ExitShare(credits) \in Nat
           /\ owedTotal + ExitShare(credits) <= buybackBac
<1>1. /\ buybackBac - owedTotal \in Nat
      /\ creditsOutstanding \in Nat \ {0} /\ credits \in 0..creditsOutstanding
  BY DEF IndInv, BackingOK, CreditsOK, creditsOutstanding
<1>2. ExitShare(credits) \in 0..(buybackBac - owedTotal)
  BY <1>1, ShareAtMost DEF ExitShare
<1> QED BY <1>1, <1>2 DEF IndInv, BackingOK

\* What is collectable is released, reserved and owed.
LEMMA CollectableBounds ==
    ASSUME IndInv, NEW w \in Wallets, lastCollectEpoch[w] < epochNow
    PROVE  /\ Collectable(w) \in Nat
           /\ Collectable(w) <= Harvested(w) /\ Collectable(w) <= reservedTotal
<1> DEFINE span == Least(epochNow - lastCollectEpoch[w], MAX_CATCHUP_EPOCHS)
           unit == BPS * BPS * EPOCHS_PER_DAY
           amount == buybackBac * lastPotBps * MAX_EXIT_SHARE_BPS * span
<1>1. /\ epochNow \in Nat /\ lastCollectEpoch[w] \in Nat /\ MAX_CATCHUP_EPOCHS \in Nat
      /\ buybackBac \in Nat /\ lastPotBps \in Nat /\ MAX_EXIT_SHARE_BPS \in Nat
      /\ BPS \in Nat \ {0} /\ EPOCHS_PER_DAY \in Nat \ {0} /\ reservedTotal \in Nat
  BY EpochNowType, UnitsAssumption DEF IndInv, CollectOK, BackingOK, SettlementOK
<1>2. span \in Nat
  BY <1>1 DEF Least
<1>3. amount \in Nat
  <2> HIDE DEF span
  <2> QED BY <1>1, <1>2, ProductType
<1>4. unit \in Nat \ {0}
  BY <1>1
<1>5. collectCap(span) = amount \div unit
  BY DEF collectCap
<1>6. collectCap(span) \in Nat
  <2> HIDE DEF amount, unit
  <2> QED BY <1>3, <1>4, <1>5, DivBounds
<1>7. Harvested(w) \in Nat
  BY HarvestBounds DEF IndInv
<1> DEFINE cap == collectCap(span)
<1>8. Collectable(w) = Least(Least(Harvested(w), reservedTotal), cap)
  BY DEF Collectable
<1> HIDE DEF cap, span
<1> QED BY <1>1, <1>6, <1>7, <1>8 DEF Least, cap

LEMMA ClaimExitKeeps ==
    ASSUME IndInv, NEW x \in Exits, ClaimExit(x)
    PROVE  IndInv'
<1> USE DEF externalVars, anchorVars, creditVars, entryVars, exitedVars, indexVars, debtVars,
            claimVars, releasedVars, collectVars, modeVars, pauseVars, armVars, haltVars,
            juniorVars, accVars, escapeVars, bnbVars, heldVars
<1> DEFINE amount == ExitShare(x.credits)
<1>1. /\ x.epoch \in Epochs /\ x.agent \in Agents /\ x.to \in Wallets
      /\ x.credits \in Nat \ {0} /\ x.credits <= creditsOutstanding /\ ~halted
  <2>1. x \in [id : Nat, epoch : Epochs, agent : Agents, to : Wallets, credits : Nat]
    BY InputsAssumption
  <2>2. x.credits > 0 /\ creditsOutstanding >= x.credits /\ ~halted
    BY DEF ClaimExit
  <2>3. creditsOutstanding \in Int
    BY DEF IndInv, CreditsOK, creditsOutstanding
  <2> QED BY <2>1, <2>2, <2>3
<1>2. amount \in Nat /\ owedTotal + amount <= buybackBac
  BY <1>1, ExitShareBounds
<1>3. /\ Harvested(x.to) \in Nat /\ Harvested(x.to) <= owed[x.to]
  BY <1>1, HarvestBounds DEF IndInv
<1>4. Attributed(x) \in 0..x.credits /\ Attributed(x) <= credited[x.agent] - exitedCredits[x.agent]
  BY <1>1 DEF IndInv, AttributionOK, Attributed, Least
<1> HIDE DEF amount
<1>5. CreditsOK'
  <2>1. x.id \in ExitIds
    BY DEF ExitIds
  <2>2. /\ totalCreditsExited' = totalCreditsExited + x.credits
        /\ totalCreditsIssued' = totalCreditsIssued
        /\ unattributedExited' = unattributedExited + x.credits - Attributed(x)
        /\ exitClaimed' = exitClaimed \cup {x.id}
    BY DEF ClaimExit
  <2> QED BY <1>1, <1>4, <2>1, <2>2 DEF IndInv, CreditsOK, creditsOutstanding
<1>6. AttributionOK'
  <2>1. /\ credited' = credited
        /\ exitedCredits' = [exitedCredits EXCEPT ![x.agent] = @ + Attributed(x)]
    BY DEF ClaimExit
  <2> QED BY <1>1, <1>4, <2>1 DEF IndInv, AttributionOK
<1>7. DebtsOK'
  <2>1. /\ unclaimed' = [unclaimed EXCEPT ![x.to] = Harvested(x.to)]
        /\ owed' = [owed EXCEPT ![x.to] = @ + amount]
    BY DEF ClaimExit, amount
  <2> QED BY <1>1, <1>2, <1>3, <2>1 DEF IndInv, DebtsOK
<1>8. HistoryOK'
  <2>1. /\ harvests' = harvests + 1
        /\ claimHistory' = NoteClaim(x.to, amount)
        /\ epochOwed' = [epochOwed EXCEPT ![x.epoch][x.to] = @ + amount]
    BY DEF ClaimExit, amount
  <2>2. epochOwed' \in [Epochs -> [Wallets -> Nat]]
    BY <1>1, <1>2, <2>1 DEF IndInv, HistoryOK
  <2>3. claimHistory' \in [Wallets -> [Times -> Nat]]
    BY <1>1, <1>2, <2>1 DEF IndInv, HistoryOK, NoteClaim
  <2> QED BY <2>1, <2>2, <2>3 DEF IndInv, HistoryOK
<1>9. IndexOK'
  <2>1. releaseIndex' = releaseIndex /\ releaseSnap' = [releaseSnap EXCEPT ![x.to] = releaseIndex]
    BY DEF ClaimExit
  <2>2. releaseIndex \in ReleasePoint /\ NotAfter(releaseIndex, releaseIndex)
    BY NotAfterItself DEF IndInv, IndexOK, InRange
  <2> QED BY <1>1, <2>1, <2>2 DEF IndInv, IndexOK
<1>10. BackingOK'
  BY <1>1, <1>2 DEF ClaimExit, amount, IndInv, BackingOK
<1> QED
  BY <1>5, <1>6, <1>7, <1>8, <1>9, <1>10, ClockKept, DepositsKept, SettlementKept, CollectKept,
     PauseKept, ModeKept, JuniorKept, BudgetKept, HeldKept DEF ClaimExit, IndInv

LEMMA CollectKeeps ==
    ASSUME IndInv, NEW w \in Wallets, Collect(w)
    PROVE  IndInv'
<1> USE DEF externalVars, anchorVars, creditVars, entryVars, exitedVars, indexVars, debtVars,
            claimVars, releasedVars, collectVars, modeVars, pauseVars, armVars, haltVars,
            juniorVars, accVars, escapeVars, bnbVars, heldVars
<1> DEFINE paid == Collectable(w)
<1>1. ~halted /\ notEntered /\ epochNow \in Nat /\ lastCollectEpoch[w] < epochNow
  BY EpochNowType DEF Collect, IndInv
<1>2. /\ Harvested(w) \in Nat /\ Harvested(w) <= owed[w] /\ owed[w] \in Nat
  BY HarvestBounds DEF IndInv, DebtsOK
<1>3. paid \in Nat /\ paid <= Harvested(w) /\ paid <= reservedTotal
  BY <1>1, CollectableBounds
<1>4. bacHeld >= lockedBac - totalBurned + paid
  BY DEF Collect, ExitBacPresent
<1> HIDE DEF paid
<1>5. DebtsOK'
  <2>1. /\ unclaimed' = [unclaimed EXCEPT ![w] = Harvested(w) - paid]
        /\ owed' = [owed EXCEPT ![w] = @ - paid]
    BY DEF Collect, DebtLess, paid
  <2> QED BY <1>2, <1>3, <2>1 DEF IndInv, DebtsOK
<1>6. HistoryOK'
  BY DEF Collect, IndInv, HistoryOK
<1>7. IndexOK'
  <2>1. releaseIndex' = releaseIndex /\ releaseSnap' = [releaseSnap EXCEPT ![w] = releaseIndex]
    BY DEF Collect
  <2>2. releaseIndex \in ReleasePoint /\ NotAfter(releaseIndex, releaseIndex)
    BY NotAfterItself DEF IndInv, IndexOK, InRange
  <2> QED BY <2>1, <2>2 DEF IndInv, IndexOK
<1>8. CollectOK'
  BY <1>1, <1>3 DEF Collect, paid, IndInv, CollectOK
<1>9. BackingOK'
  BY <1>1, <1>3 DEF Collect, DebtLess, paid, IndInv, BackingOK
<1>10. HeldOK'
  BY <1>1, <1>3, <1>4 DEF Collect, paid, notEntered, IndInv, HeldOK, DepositsOK, BackingOK,
                          bacAccounted
<1> QED
  BY <1>5, <1>6, <1>7, <1>8, <1>9, <1>10, ClockKept, DepositsKept, CreditsKept, AttributionKept,
     SettlementKept, PauseKept, ModeKept, JuniorKept, BudgetKept DEF Collect, IndInv

LEMMA BurnLockedKeeps ==
    ASSUME IndInv, BurnLocked
    PROVE  IndInv'
<1> USE DEF externalVars, anchorVars, creditVars, entryVars, exitedVars, indexVars, debtVars,
            claimVars, releasedVars, collectVars, modeVars, pauseVars, armVars, haltVars,
            juniorVars, accVars, escapeVars, bnbVars, heldVars
<1>1. DepositsOK'
  BY DEF BurnLocked, IndInv, DepositsOK
<1>2. HeldOK'
  BY DEF BurnLocked, notEntered, IndInv, HeldOK, DepositsOK, BackingOK, bacAccounted
<1> QED
  BY <1>1, <1>2, ClockKept, CreditsKept, AttributionKept, DebtsKept, HistoryKept, IndexKept,
     SettlementKept, CollectKept, PauseKept, ModeKept, JuniorKept, BudgetKept, BackingKept
     DEF BurnLocked, IndInv

-----------------------------------------------------------------------------
(* Settlement *)

\* A pot is no more than the debt that no pot has reached.
LEMMA PotBounds ==
    ASSUME IndInv, ~halted, NEW e \in Epochs, NEW bps \in BpsTiers
    PROVE  Pot(e, bps) \in 0..headroom
<1> DEFINE share == ((buybackBac - reservedTotal) * bps) \div (BPS * EPOCHS_PER_DAY)
           day == e \div EPOCHS_PER_DAY
           room == (buybackBac * NO_ATTEST_WINDOW_BPS) \div BPS
<1>1. /\ buybackBac - reservedTotal \in Nat /\ headroom \in Nat /\ buybackBac \in Nat
      /\ bps \in Nat /\ BPS \in Nat \ {0} /\ EPOCHS_PER_DAY \in Nat \ {0}
      /\ BPS * EPOCHS_PER_DAY \in Nat \ {0} /\ NO_ATTEST_WINDOW_BPS \in Nat
  BY InputsAssumption, UnitsAssumption DEF IndInv, BackingOK, headroom
<1>2. share \in Nat
  <2>1. (buybackBac - reservedTotal) * bps \in Nat
    BY <1>1, ProductType
  <2> QED BY <1>1, <2>1, DivBounds
<1>3. room \in Nat
  <2>1. buybackBac * NO_ATTEST_WINDOW_BPS \in Nat
    BY <1>1, ProductType
  <2> QED BY <1>1, <2>1, DivBounds
<1>4. WindowAt(day) \in Int
  <2>1. day \in Nat /\ NO_ATTEST_WINDOW \in Nat \ {0}
    BY <1>1, UnitsAssumption, SizesAssumption, DivBounds DEF Epochs
  <2>2. DaySlot(day) \in 0..NO_ATTEST_WINDOW - 1
    <3> HIDE DEF day
    <3> QED BY <2>1 DEF DaySlot
  <2>3. potRing[DaySlot(day)].amount \in Nat
    BY <2>2 DEF IndInv, SettlementOK
  <2> QED BY <2>3 DEF WindowAt, IndInv, SettlementOK
<1>5. UnwitnessedRoom(day) \in Nat
  <2>1. UnwitnessedRoom(day) = Greatest(room - WindowAt(day), 0)
    BY DEF UnwitnessedRoom
  <2> HIDE DEF room
  <2> QED BY <1>3, <1>4, <2>1 DEF Greatest
<1>6. Least(share, headroom) \in 0..headroom
  <2> HIDE DEF share
  <2> QED BY <1>1, <1>2 DEF Least
<1>7. Pot(e, bps) = IF anchorWitnessed[e] THEN Least(share, headroom)
                    ELSE Least(Least(share, headroom), UnwitnessedRoom(day))
  BY DEF Pot
<1> DEFINE capped == Least(share, headroom)
           roomLeft == UnwitnessedRoom(day)
<1>8. capped \in 0..headroom /\ roomLeft \in Nat
  BY <1>5, <1>6
<1>9. Pot(e, bps) = capped \/ Pot(e, bps) = Least(capped, roomLeft)
  BY <1>7
<1> HIDE DEF capped, roomLeft
<1> QED BY <1>1, <1>8, <1>9 DEF Least

LEMMA SettleKeeps ==
    ASSUME IndInv, Settle
    PROVE  IndInv'
<1> USE DEF externalVars, anchorVars, creditVars, entryVars, exitedVars, indexVars, debtVars,
            claimVars, releasedVars, collectVars, modeVars, pauseVars, armVars, haltVars,
            juniorVars, accVars, escapeVars, bnbVars, heldVars
<1>1. Epochs \subseteq Nat
  BY SizesAssumption DEF Epochs
<1>2. ASSUME NEW e \in Epochs, SettleSkipped(e) PROVE IndInv'
  <2>1. SettlementOK'
    BY <1>1, <1>2 DEF SettleSkipped, SettleInOrder, IndInv, SettlementOK
  <2> QED
    BY <1>2, <2>1, ClockKept, DepositsKept, CreditsKept, AttributionKept, DebtsKept, HistoryKept,
       IndexKept, CollectKept, PauseKept, ModeKept, JuniorKept, BudgetKept, BackingKept, HeldKept
       DEF SettleSkipped, IndInv
<1>3. ASSUME NEW e \in Epochs, SettleWithoutDebt(e) PROVE IndInv'
  <2>1. SettlementOK'
    BY <1>1, <1>3 DEF SettleWithoutDebt, SettleInOrder, IndInv, SettlementOK
  <2>2. BackingOK'
    BY <1>3 DEF SettleWithoutDebt, IndInv, BackingOK
  <2> QED
    BY <1>3, <2>1, <2>2, ClockKept, DepositsKept, CreditsKept, AttributionKept, DebtsKept,
       HistoryKept, IndexKept, CollectKept, PauseKept, ModeKept, JuniorKept, BudgetKept, HeldKept
       DEF SettleWithoutDebt, IndInv
<1>4. ASSUME NEW e \in Epochs, NEW bps \in BpsTiers, SettleFinal(e, bps) PROVE IndInv'
  <2> DEFINE day == e \div EPOCHS_PER_DAY
             pot == Pot(e, bps)
  <2>1. ~halted /\ lastSettledEpoch' = e
    BY <1>4 DEF SettleFinal, SettleInOrder
  <2>2. pot \in 0..headroom /\ headroom \in Nat
    BY <2>1, PotBounds DEF IndInv, BackingOK, headroom
  <2>3. day \in Nat /\ NO_ATTEST_WINDOW \in Nat \ {0}
    BY <1>1, UnitsAssumption, DivBounds
  <2>4. DaySlot(day) \in 0..NO_ATTEST_WINDOW - 1
    <3> HIDE DEF day
    <3> QED BY <2>3 DEF DaySlot
  <2>5. potRing[DaySlot(day)] \in [amount : Nat, day : Nat]
    BY <2>4 DEF IndInv, SettlementOK
  <2>6. SlotAmountAt(day) \in Nat /\ WindowAt(day) \in Int
    BY <2>5 DEF SlotAmountAt, WindowAt, IndInv, SettlementOK
  <2>7. /\ potRing' = [potRing EXCEPT ![DaySlot(day)] =
                          [amount |-> SlotAmountAt(day) + pot, day |-> day]]
        /\ releasedInWindow' = WindowAt(day) + pot
        /\ releaseIndex' = IF pot = 0 THEN releaseIndex
                           ELSE AdvanceRelease(releaseIndex, pot, headroom)
        /\ reservedTotal' = reservedTotal + pot
        /\ lastPotBps' = bps
    BY <1>4 DEF SettleFinal
  <2> HIDE DEF day, pot
  <2>8. SettlementOK'
    <3>1. bps \in Nat
      BY InputsAssumption, UnitsAssumption
    <3>2. [amount |-> SlotAmountAt(day) + pot, day |-> day] \in [amount : Nat, day : Nat]
      BY <2>2, <2>3, <2>6
    <3>3. potRing' \in [0..NO_ATTEST_WINDOW - 1 -> [amount : Nat, day : Nat]]
      BY <2>7, <3>2, Zenon DEF IndInv, SettlementOK
    <3> QED BY <1>1, <2>1, <2>2, <2>6, <2>7, <3>1, <3>3 DEF IndInv, SettlementOK
  <2>9. IndexOK'
    <3>1. releaseSnap' = releaseSnap
      BY <1>4 DEF SettleFinal
    <3>2. InRange(releaseIndex') /\ NotAfter(releaseIndex, releaseIndex')
      <4>1. CASE pot = 0
        <5>1. InRange(releaseIndex) /\ releaseIndex \in ReleasePoint
          BY DEF IndInv, IndexOK, InRange
        <5> QED BY <2>7, <4>1, <5>1, NotAfterItself
      <4>2. CASE pot # 0
        <5>1. InRange(releaseIndex) /\ headroom \in Nat \ {0} /\ pot \in 1..headroom
          BY <2>2, <4>2 DEF IndInv, IndexOK
        <5> QED BY <2>7, <4>2, <5>1, AdvanceKeepsOrder
      <4> QED BY <4>1, <4>2
    <3>3. ASSUME NEW w \in Wallets PROVE NotAfter(releaseSnap[w], releaseIndex')
      <4>1. /\ releaseSnap[w] \in ReleasePoint /\ NotAfter(releaseSnap[w], releaseIndex)
            /\ releaseIndex \in ReleasePoint /\ releaseIndex' \in ReleasePoint
        BY <3>2 DEF IndInv, IndexOK, InRange
      <4> QED BY <3>2, <4>1, NotAfterTransitive
    <3> QED BY <3>1, <3>2, <3>3 DEF IndInv, IndexOK
  <2>10. BackingOK'
    BY <1>4, <2>1, <2>2, <2>7 DEF SettleFinal, headroom, IndInv, BackingOK
  <2> QED
    BY <1>4, <2>8, <2>9, <2>10, ClockKept, DepositsKept, CreditsKept, AttributionKept, DebtsKept,
       HistoryKept, CollectKept, PauseKept, ModeKept, JuniorKept, BudgetKept, HeldKept
       DEF SettleFinal, IndInv
<1> QED BY <1>2, <1>3, <1>4 DEF Settle

-----------------------------------------------------------------------------
(* Watchdog *)

LEMMA RevokedBounds ==
    ASSUME DebtsOK, HistoryOK, NEW e \in Epochs, NEW w \in Wallets
    PROVE  RevokedFrom(e, w) \in 0..owed[w]
<1>1. epochOwed[e][w] \in Nat /\ owed[w] \in Nat
  BY DEF DebtsOK, HistoryOK
<1> QED BY <1>1 DEF RevokedFrom, Least

LEMMA RevokeKeeps ==
    ASSUME IndInv, NEW e \in Epochs, NEW holders \in SUBSET Wallets, RevokeEpochOwed(e, holders)
    PROVE  IndInv'
<1> USE DEF externalVars, anchorVars, creditVars, entryVars, exitedVars, indexVars, debtVars,
            claimVars, releasedVars, collectVars, modeVars, pauseVars, armVars, haltVars,
            juniorVars, accVars, escapeVars, bnbVars, heldVars
<1> DEFINE hit == {w \in holders : RevokedFrom(e, w) > 0}
<1>1. \A w \in Wallets : /\ owed[w] \in Nat /\ RevokedFrom(e, w) \in 0..owed[w]
                         /\ Harvested(w) \in Nat
  BY RevokedBounds, HarvestBounds DEF IndInv, DebtsOK
<1>2. hit \in SUBSET Wallets /\ IsFiniteSet(hit) /\ Cardinality(hit) \in Nat
  <2>1. IsFiniteSet(Wallets) /\ hit \in SUBSET Wallets
    BY SizesAssumption
  <2> HIDE DEF hit
  <2> QED BY <2>1, FS_Subset, FS_CardinalityType
<1>3. /\ owed' = [w \in Wallets |-> IF w \in hit THEN owed[w] - RevokedFrom(e, w) ELSE owed[w]]
      /\ unclaimed' = [w \in Wallets |->
                          IF w \in hit THEN Least(Harvested(w), owed[w] - RevokedFrom(e, w))
                          ELSE unclaimed[w]]
      /\ releaseSnap' = [w \in Wallets |-> IF w \in hit THEN releaseIndex ELSE releaseSnap[w]]
      /\ epochOwed' = [epochOwed EXCEPT ![e] = [w \in Wallets |-> IF w \in hit THEN 0 ELSE @[w]]]
      /\ harvests' = harvests + Cardinality(hit)
      /\ claimHistory' = claimHistory /\ releaseIndex' = releaseIndex
  BY DEF RevokeEpochOwed
<1>4. PICK revoked \in 0..owedTotal, dropped \in 0..owedTotal :
         /\ owedTotal' = owedTotal - revoked
         /\ reservedTotal' = Least(Greatest(reservedTotal - dropped, 0), owedTotal - revoked)
  BY DEF RevokeEpochOwed
<1> HIDE DEF hit
<1>5. DebtsOK'
  <2>1. ASSUME NEW w \in Wallets
        PROVE  owed'[w] \in Nat /\ unclaimed'[w] \in Nat /\ unclaimed'[w] <= owed'[w]
    <3>1. CASE w \in hit
      <4>1. /\ owed'[w] = owed[w] - RevokedFrom(e, w)
            /\ unclaimed'[w] = Least(Harvested(w), owed[w] - RevokedFrom(e, w))
        BY <1>3, <3>1
      <4> QED BY <1>1, <4>1 DEF Least
    <3>2. CASE w \notin hit
      BY <1>3, <3>2 DEF IndInv, DebtsOK
    <3> QED BY <3>1, <3>2
  <2>2. /\ owed' = [w \in Wallets |-> owed'[w]] /\ unclaimed' = [w \in Wallets |-> unclaimed'[w]]
    BY <1>3
  <2> QED BY <2>1, <2>2 DEF DebtsOK
<1>6. HistoryOK'
  <2>1. epochOwed' \in [Epochs -> [Wallets -> Nat]]
    BY <1>3 DEF IndInv, HistoryOK
  <2> QED BY <1>2, <1>3, <2>1 DEF IndInv, HistoryOK
<1>7. IndexOK'
  <2>1. releaseIndex \in ReleasePoint /\ NotAfter(releaseIndex, releaseIndex)
    BY NotAfterItself DEF IndInv, IndexOK, InRange
  <2> QED BY <1>3, <2>1 DEF IndInv, IndexOK
<1>8. BackingOK'
  <2>1. buybackBac' = buybackBac /\ halted' = halted /\ ~halted
    BY DEF RevokeEpochOwed
  <2> QED BY <1>4, <2>1 DEF IndInv, BackingOK, Least, Greatest
<1> QED
  BY <1>5, <1>6, <1>7, <1>8, ClockKept, DepositsKept, CreditsKept, AttributionKept, SettlementKept,
     CollectKept, PauseKept, ModeKept, JuniorKept, BudgetKept, HeldKept DEF RevokeEpochOwed, IndInv

\* The part of the budget a running pause has used, and what is left of it.
LEMMA PauseUsedBounds ==
    ASSUME ClockOK, PauseOK
    PROVE  /\ pauseUsed \in Nat
           /\ pausedCumulative + pauseUsed < MAX_PAUSE_TOTAL + PAUSE_LEN
<1>1. now \in Nat /\ PAUSE_LEN \in Nat /\ MAX_PAUSE_TOTAL \in Nat
  BY TimeIsNat, UnitsAssumption DEF ClockOK
<1> QED BY <1>1 DEF PauseOK, pauseUsed, Least, Greatest

LEMMA BrakeKeeps ==
    ASSUME IndInv, Brake
    PROVE  IndInv'
<1> USE DEF externalVars, anchorVars, creditVars, entryVars, exitedVars, indexVars, debtVars,
            claimVars, releasedVars, collectVars, modeVars, pauseVars, armVars, haltVars,
            juniorVars, accVars, escapeVars, bnbVars, heldVars
<1>1. now \in Nat /\ PAUSE_LEN \in Nat /\ MAX_PAUSE_TOTAL \in Nat /\ pauseUsed \in Nat
      /\ pausedCumulative + pauseUsed < MAX_PAUSE_TOTAL + PAUSE_LEN
  BY TimeIsNat, UnitsAssumption, PauseUsedBounds DEF IndInv, ClockOK
<1>2. ASSUME Pause PROVE IndInv'
  <2>1. PauseOK'
    BY <1>1, <1>2 DEF Pause, IndInv, PauseOK
  <2> QED
    BY <1>2, <2>1, ClockKept, DepositsKept, CreditsKept, AttributionKept, DebtsKept, HistoryKept,
       IndexKept, SettlementKept, CollectKept, ModeKept, JuniorKept, BudgetKept, BackingKept,
       HeldKept DEF Pause, IndInv
<1>3. ASSUME Unpause PROVE IndInv'
  <2>1. PauseOK'
    BY <1>1, <1>3 DEF Unpause, IndInv, PauseOK
  <2> QED
    BY <1>3, <2>1, ClockKept, DepositsKept, CreditsKept, AttributionKept, DebtsKept, HistoryKept,
       IndexKept, SettlementKept, CollectKept, ModeKept, JuniorKept, BudgetKept, BackingKept,
       HeldKept DEF Unpause, IndInv
<1> QED BY <1>2, <1>3, RevokeKeeps DEF Brake

-----------------------------------------------------------------------------
(* Out, escape mode *)

LEMMA PendingCauseType ==
    ASSUME ClockOK
    PROVE  pendingCause \in Causes
BY DEF ClockOK, pendingCause, Causes

LEMMA ArmingKeeps ==
    ASSUME IndInv, ArmEscape \/ CancelEscapeArm \/ CheckHaltArms
    PROVE  IndInv'
<1> USE DEF externalVars, anchorVars, creditVars, entryVars, exitedVars, indexVars, debtVars,
            claimVars, releasedVars, collectVars, modeVars, pauseVars, armVars, haltVars,
            juniorVars, accVars, escapeVars, bnbVars, heldVars
<1>1. now \in Nat /\ pendingCause \in Causes
  BY TimeIsNat, PendingCauseType DEF IndInv, ClockOK
<1>2. ModeOK'
  BY <1>1 DEF ArmEscape, CancelEscapeArm, CheckHaltArms, ArmWith, IndInv, ModeOK, Causes
<1> QED
  BY <1>2, ClockKept, DepositsKept, CreditsKept, AttributionKept, DebtsKept, HistoryKept,
     IndexKept, SettlementKept, CollectKept, PauseKept, JuniorKept, BudgetKept, BackingKept,
     HeldKept DEF ArmEscape, CancelEscapeArm, CheckHaltArms, ArmWith, IndInv

LEMMA HaltKeeps ==
    ASSUME IndInv, CheckHaltHalts
    PROVE  IndInv'
<1> USE DEF externalVars, anchorVars, creditVars, entryVars, exitedVars, indexVars, debtVars,
            claimVars, releasedVars, collectVars, modeVars, pauseVars, armVars, haltVars,
            juniorVars, accVars, escapeVars, bnbVars, heldVars
<1> DEFINE weight == weightAtHalt
<1>1. weight \in Nat
  BY DEF weightAtHalt, creditsOutstanding, IndInv, CreditsOK
<1>2. buybackBac - owedTotal \in Nat /\ bnbBalance \in Nat /\ ACC \in Nat
  BY UnitsAssumption DEF CheckHaltHalts, haltDue, IndInv, BackingOK, BudgetOK
<1>3. /\ (buybackBac - owedTotal) * ACC \in Nat /\ bnbBalance * ACC \in Nat
  BY <1>2, ProductType
<1>4. /\ accPerWeightBac' =
            IF weight = 0 THEN 0 ELSE ((buybackBac - owedTotal) * ACC) \div weight
      /\ accPerWeightBnb' = IF weight = 0 THEN 0 ELSE (bnbBalance * ACC) \div weight
      /\ escapeDebtBac' = escapeDebtBac /\ escapeDebtBnb' = escapeDebtBnb
      /\ escapeTotalWeight' = weight /\ halted' = TRUE /\ haltedAt' = now
      /\ haltCause' = armedCause /\ escapeArmedAt' = escapeArmedAt /\ armedCause' = armedCause
  BY DEF CheckHaltHalts
<1> HIDE DEF weight
<1>5. JuniorOK'
  <2>1. weight # 0 => /\ ((buybackBac - owedTotal) * ACC) \div weight \in Nat
                      /\ (bnbBalance * ACC) \div weight \in Nat
    BY <1>1, <1>3, DivBounds
  <2>2. accPerWeightBac' \in Nat /\ accPerWeightBnb' \in Nat
    BY <1>4, <2>1
  <2> QED BY <1>4, <2>2 DEF IndInv, JuniorOK
<1>6. ModeOK'
  BY <1>1, <1>4 DEF IndInv, ModeOK, ClockOK
<1>7. BudgetOK'
  BY DEF CheckHaltHalts, IndInv, BudgetOK
<1>8. BackingOK'
  BY DEF CheckHaltHalts, IndInv, BackingOK
<1> QED
  BY <1>5, <1>6, <1>7, <1>8, ClockKept, DepositsKept, CreditsKept, AttributionKept, DebtsKept,
     HistoryKept, IndexKept, SettlementKept, CollectKept, PauseKept, HeldKept
     DEF CheckHaltHalts, IndInv

LEMMA ClaimOwedAfterHaltKeeps ==
    ASSUME IndInv, NEW w \in Wallets, ClaimOwedAfterHalt(w)
    PROVE  IndInv'
<1> USE DEF externalVars, anchorVars, creditVars, entryVars, exitedVars, indexVars, debtVars,
            claimVars, releasedVars, collectVars, modeVars, pauseVars, armVars, haltVars,
            juniorVars, accVars, escapeVars, bnbVars, heldVars
<1> DEFINE paid == IF haltCause \notin {2, 3} /\ now >= haltedAt + OWED_MATURITY THEN owed[w]
                   ELSE MaturedOwed(w, MaturityCutoff(haltedAt))
<1>1. paid \in 0..owed[w] /\ owed[w] \in Nat
  <2>1. MaturityCutoff(haltedAt) \in Times
    BY CutoffType DEF IndInv, ModeOK
  <2>2. MaturedOwed(w, MaturityCutoff(haltedAt)) \in 0..owed[w] /\ owed[w] \in Nat
    BY <2>1, MaturedBounds DEF IndInv, DebtsOK
  <2> QED BY <2>2
<1>2. /\ halted /\ notEntered /\ paid <= owedTotal /\ paid <= buybackBac
      /\ bacHeld >= lockedBac - totalBurned + paid
      /\ owed' = [owed EXCEPT ![w] = @ - paid] /\ owedTotal' = owedTotal - paid
      /\ owedPaid' = [owedPaid EXCEPT ![w] = @ + paid]
      /\ unclaimed' = [unclaimed EXCEPT ![w] = Least(@, owed[w] - paid)]
      /\ buybackBac' = buybackBac - paid /\ bacHeld' = bacHeld - paid
      /\ reservedTotal' = reservedTotal /\ halted' = halted
      /\ lastCollectEpoch' = lastCollectEpoch
      /\ UNCHANGED <<lockedBac, totalBurned, bnbBalance, bnbHeld, emergencyCount, inflows, swapBefore>>
  BY DEF ClaimOwedAfterHalt, DebtLess, ExitBacPresent
<1> HIDE DEF paid
<1>3. DebtsOK'
  BY <1>1, <1>2 DEF IndInv, DebtsOK, Least
<1>4. CollectOK'
  BY <1>1, <1>2 DEF IndInv, CollectOK
<1>5. BackingOK'
  BY <1>1, <1>2 DEF IndInv, BackingOK
<1>6. HeldOK'
  BY <1>1, <1>2 DEF notEntered, IndInv, HeldOK, DepositsOK, BackingOK, bacAccounted
<1> QED
  BY <1>3, <1>4, <1>5, <1>6, ClockKept, DepositsKept, CreditsKept, AttributionKept, HistoryKept,
     IndexKept, SettlementKept, PauseKept, ModeKept, JuniorKept, BudgetKept
     DEF ClaimOwedAfterHalt, IndInv

LEMMA SweepImmatureOwedKeeps ==
    ASSUME IndInv, NEW w \in Wallets, SweepImmatureOwed(w)
    PROVE  IndInv'
<1> USE DEF externalVars, anchorVars, creditVars, entryVars, exitedVars, indexVars, debtVars,
            claimVars, releasedVars, collectVars, modeVars, pauseVars, armVars, haltVars,
            juniorVars, accVars, escapeVars, bnbVars, heldVars
<1> DEFINE amount == owed[w] - MaturedOwed(w, MaturityCutoff(haltedAt))
<1>1. amount \in 0..owed[w] /\ owed[w] \in Nat
  <2>1. MaturityCutoff(haltedAt) \in Times
    BY CutoffType DEF IndInv, ModeOK
  <2>2. MaturedOwed(w, MaturityCutoff(haltedAt)) \in 0..owed[w] /\ owed[w] \in Nat
    BY <2>1, MaturedBounds DEF IndInv, DebtsOK
  <2> QED BY <2>2
<1>2. /\ halted /\ amount <= owedTotal
      /\ owed' = [owed EXCEPT ![w] = @ - amount] /\ owedTotal' = owedTotal - amount
      /\ unclaimed' = [unclaimed EXCEPT ![w] = Least(@, owed[w] - amount)]
      /\ accPerWeightBac' = accPerWeightBac + JuniorShare(amount)
      /\ accPerWeightBnb' = accPerWeightBnb
      /\ UNCHANGED <<reservedTotal, halted, buybackBac, escapeDebtBac, escapeDebtBnb>>
  BY DEF SweepImmatureOwed, DebtLess
<1>3. JuniorShare(amount) \in Nat
  BY <1>1, JuniorShareType DEF IndInv
<1> HIDE DEF amount
<1>4. DebtsOK'
  BY <1>1, <1>2 DEF IndInv, DebtsOK, Least
<1>5. JuniorOK'
  BY <1>2, <1>3 DEF IndInv, JuniorOK
<1>6. BackingOK'
  BY <1>1, <1>2 DEF IndInv, BackingOK
<1> QED
  BY <1>4, <1>5, <1>6, ClockKept, DepositsKept, CreditsKept, AttributionKept, HistoryKept,
     IndexKept, SettlementKept, CollectKept, PauseKept, ModeKept, BudgetKept, HeldKept
     DEF SweepImmatureOwed, IndInv

\* A due share is an integer; whether it is payable is checked by the code.
LEMMA JuniorDueType ==
    ASSUME JuniorOK, AttributionOK, NEW a \in Agents
    PROVE  JuniorBacDue(a) \in Int /\ JuniorBnbDue(a) \in Int
<1>1. /\ JuniorWeight(a) \in Nat /\ accPerWeightBac \in Nat /\ accPerWeightBnb \in Nat
      /\ ACC \in Nat \ {0} /\ escapeDebtBac[a] \in Nat /\ escapeDebtBnb[a] \in Nat
  BY UnitsAssumption DEF JuniorOK, AttributionOK, JuniorWeight
<1>2. JuniorWeight(a) * accPerWeightBac \in Nat /\ JuniorWeight(a) * accPerWeightBnb \in Nat
  BY <1>1, ProductType
<1>3. /\ (JuniorWeight(a) * accPerWeightBac) \div ACC \in Nat
      /\ (JuniorWeight(a) * accPerWeightBnb) \div ACC \in Nat
  BY <1>1, <1>2, DivBounds
<1> QED BY <1>1, <1>3 DEF JuniorBacDue, JuniorBnbDue

LEMMA EscapeCollectKeeps ==
    ASSUME IndInv, NEW a \in Agents, EscapeCollect(a)
    PROVE  IndInv'
<1> USE DEF externalVars, anchorVars, creditVars, entryVars, exitedVars, indexVars, debtVars,
            claimVars, releasedVars, collectVars, modeVars, pauseVars, armVars, haltVars,
            juniorVars, accVars, escapeVars, bnbVars, heldVars
<1> DEFINE bacPaid == IF ExitBacPresent(JuniorBacDue(a)) THEN JuniorBacDue(a) ELSE 0
           bnbPaid == IF bnbHeld >= JuniorBnbDue(a) THEN JuniorBnbDue(a) ELSE 0
<1>1. JuniorBacDue(a) \in Nat /\ JuniorBnbDue(a) \in Nat
  BY JuniorDueType DEF IndInv, EscapeCollect
<1>2. /\ bacPaid \in Nat /\ bnbPaid \in Nat
      /\ bacPaid = 0 \/ bacHeld >= lockedBac - totalBurned + bacPaid
      /\ bnbPaid = 0 \/ bnbPaid <= bnbHeld
  BY <1>1 DEF ExitBacPresent
<1>3. /\ notEntered /\ halted /\ bacPaid <= buybackBac /\ bnbPaid <= bnbBalance
      /\ escapeDebtBac' = [escapeDebtBac EXCEPT ![a] = @ + bacPaid]
      /\ escapeDebtBnb' = [escapeDebtBnb EXCEPT ![a] = @ + bnbPaid]
      /\ buybackBac' = buybackBac - bacPaid /\ bnbBalance' = bnbBalance - bnbPaid
      /\ bacHeld' = bacHeld - bacPaid /\ bnbHeld' = bnbHeld - bnbPaid
      /\ UNCHANGED <<accPerWeightBac, accPerWeightBnb, halted, owedTotal, reservedTotal,
                     buybackBudget, lastBuybackEpoch, swapBefore, emergencyCount, inflows,
                     lockedBac, totalBurned>>
  BY DEF EscapeCollect
<1> HIDE DEF bacPaid, bnbPaid
<1>4. JuniorOK'
  BY <1>2, <1>3 DEF IndInv, JuniorOK
<1>5. BudgetOK'
  BY <1>2, <1>3 DEF IndInv, BudgetOK
<1>6. BackingOK'
  BY <1>2, <1>3 DEF IndInv, BackingOK
<1>7. bacPaid <= bacHeld
  BY <1>2, <1>3 DEF IndInv, HeldOK, DepositsOK
<1>8. HeldOK'
  BY <1>2, <1>3, <1>7 DEF notEntered, IndInv, HeldOK, DepositsOK, BackingOK, BudgetOK, bacAccounted
<1> QED
  BY <1>4, <1>5, <1>6, <1>8, ClockKept, DepositsKept, CreditsKept, AttributionKept, DebtsKept,
     HistoryKept, IndexKept, SettlementKept, CollectKept, PauseKept, ModeKept
     DEF EscapeCollect, IndInv

-----------------------------------------------------------------------------
(* Owner powers *)

LEMMA OwnerKeeps ==
    ASSUME IndInv, Owner
    PROVE  IndInv'
<1> USE DEF externalVars, anchorVars, creditVars, entryVars, exitedVars, indexVars, debtVars,
            claimVars, releasedVars, collectVars, modeVars, pauseVars, armVars, haltVars,
            juniorVars, accVars, escapeVars, bnbVars, heldVars
<1>1. PICK amount \in WithdrawAmounts : EmergencyWithdrawBac(amount) \/ EmergencyWithdrawBnb(amount)
  BY DEF Owner
<1>2. amount \in Nat
  BY InputsAssumption
<1>3. HeldOK'
  BY <1>1, <1>2 DEF EmergencyWithdrawBac, EmergencyWithdrawBnb, notEntered, IndInv, HeldOK,
                    BudgetOK, bacAccounted
<1> QED
  BY <1>1, <1>3, ClockKept, DepositsKept, CreditsKept, AttributionKept, DebtsKept, HistoryKept,
     IndexKept, SettlementKept, CollectKept, PauseKept, ModeKept, JuniorKept, BudgetKept,
     BackingKept DEF EmergencyWithdrawBac, EmergencyWithdrawBnb, IndInv

-----------------------------------------------------------------------------
(* The invariant *)

LEMMA InitEstablishes ==
    ASSUME Init
    PROVE  IndInv
<1>1. StartTime \in Times /\ StartTime \in Nat /\ 0 \in Times
  BY SizesAssumption DEF Times
<1>2. epochNow \in Nat
  BY <1>1, UnitsAssumption, DivBounds DEF Init, epochNow
<1>3. InRange(InitialPoint) /\ InitialPoint \in ReleasePoint /\ NotAfter(InitialPoint, InitialPoint)
  BY InitialInRange, NotAfterItself DEF InRange
<1>4. ClockOK
  BY <1>1 DEF Init, ClockOK
<1>5. DepositsOK /\ CreditsOK /\ AttributionOK /\ DebtsOK /\ HistoryOK
  BY DEF Init, DepositsOK, CreditsOK, AttributionOK, DebtsOK, HistoryOK
<1>6. IndexOK
  BY <1>3 DEF Init, IndexOK
<1>7. SettlementOK /\ CollectOK
  BY <1>2 DEF Init, SettlementOK, CollectOK
<1>8. PauseOK
  <2>1. pauseStartedAt = 0 /\ pausedUntil = 0 /\ pausedCumulative = 0
    BY DEF Init
  <2>2. 0 < MAX_PAUSE_TOTAL + PAUSE_LEN
    BY UnitsAssumption
  <2> QED BY <2>1, <2>2 DEF PauseOK
<1>9. ModeOK /\ JuniorOK
  <2>1. ModeOK
    <3>1. halted \in BOOLEAN
      BY Zenon DEF Init
    <3>2. escapeArmedAt = 0 /\ armedCause = 0 /\ haltCause = 0 /\ haltedAt = 0 /\ escapeTotalWeight = 0
      BY DEF Init
    <3> QED BY <1>1, <3>1, <3>2 DEF ModeOK, Causes
  <2>2. JuniorOK
    BY DEF Init, JuniorOK
  <2> QED BY <2>1, <2>2
<1>10. BudgetOK /\ BackingOK
  BY <1>2 DEF Init, BudgetOK, BackingOK
<1>11. HeldOK
  BY DEF Init, HeldOK, NoSwap, bacAccounted
<1> QED BY <1>4, <1>5, <1>6, <1>7, <1>8, <1>9, <1>10, <1>11 DEF IndInv

LEMMA StepKeeps ==
    ASSUME IndInv, [Next]_vars
    PROVE  IndInv'
<1>1. CASE UNCHANGED vars
  BY <1>1, ClockKept, DepositsKept, CreditsKept, AttributionKept, DebtsKept, HistoryKept,
     IndexKept, SettlementKept, CollectKept, PauseKept, ModeKept, JuniorKept, BudgetKept,
     BackingKept, HeldKept
     DEF IndInv, vars, externalVars, anchorVars, creditVars, entryVars, exitedVars, indexVars,
         debtVars, claimVars, releasedVars, collectVars, modeVars, pauseVars, armVars, haltVars,
         juniorVars, accVars, escapeVars, bnbVars, heldVars
<1>2. CASE Payout
  BY <1>2, ClaimExitKeeps, CollectKeeps, BurnLockedKeeps DEF Payout
<1>3. CASE Escape
  BY <1>3, ArmingKeeps, HaltKeeps, ClaimOwedAfterHaltKeeps, SweepImmatureOwedKeeps,
     EscapeCollectKeeps DEF Escape
<1> QED
  BY <1>1, <1>2, <1>3, EnvironmentKeeps, InflowKeeps, SettleKeeps, BrakeKeeps, OwnerKeeps DEF Next

\* The inductive invariant holds in every reachable state.
THEOREM Invariance == Spec => []IndInv
<1>1. Init => IndInv
  BY InitEstablishes
<1>2. IndInv /\ [Next]_vars => IndInv'
  BY StepKeeps
<1> QED BY <1>1, <1>2, PTL DEF Spec

-----------------------------------------------------------------------------
(* The theorems *)

\* Every variable keeps its type in every mode: no checked subtraction of the code's books, debts
\* or weights is ever taken below zero.
THEOREM TypeCorrect == Spec => []BooksTypeOK
<1>1. IndInv => BooksTypeOK
  <2> SUFFICES ASSUME IndInv PROVE BooksTypeOK
    OBVIOUS
  <2>1. releaseIndex \in ReleasePoint
    BY DEF IndInv, IndexOK, InRange
  <2> QED
    BY <2>1 DEF BooksTypeOK, IndInv, ClockOK, DepositsOK, CreditsOK, AttributionOK, DebtsOK,
       HistoryOK, IndexOK, SettlementOK, CollectOK, PauseOK, ModeOK, JuniorOK, BudgetOK,
       BackingOK, HeldOK
<1> QED BY <1>1, Invariance, PTL

\* The buyback never promises more BNB than the book has, a halt during its swap included.
THEOREM BudgetBounded == Spec => []BudgetIsBounded
<1>1. IndInv => BudgetIsBounded
  BY DEF IndInv, BudgetOK, BudgetIsBounded
<1> QED BY <1>1, Invariance, PTL

\* Both books are physically held until the owner withdraws, in the middle of a swap as well.
THEOREM BooksHeld == Spec => []BooksAreHeld
<1>1. IndInv => BooksAreHeld
  BY DEF IndInv, HeldOK, DepositsOK, BackingOK, BudgetOK, bacAccounted, BooksAreHeld
<1> QED BY <1>1, Invariance, PTL

\* Rolling pauses overrun the budget by less than one pause, and an overrun is a halt condition.
THEOREM PauseOverrunBounded == Spec => []PauseOverrunIsBounded
<1>1. IndInv => PauseOverrunIsBounded
  <2> SUFFICES ASSUME IndInv PROVE PauseOverrunIsBounded
    OBVIOUS
  <2>1. pausedCumulative + pauseUsed < MAX_PAUSE_TOTAL + PAUSE_LEN
    BY PauseUsedBounds DEF IndInv
  <2> QED BY <2>1 DEF PauseOverrunIsBounded, pendingCause, IndInv, ClockOK
<1> QED BY <1>1, Invariance, PTL

\* An exit locks its share of the free BAC rounded down, so the rate of the credits that stay
\* never falls.
THEOREM RateSurvives == Spec => RateSurvivesClaims
<1> DEFINE free == buybackBac - owedTotal
           Step == totalCreditsExited' # totalCreditsExited =>
                      (buybackBac' - owedTotal') * creditsOutstanding
                         >= (buybackBac - owedTotal) * creditsOutstanding'
<1>1. ASSUME IndInv, NEW x \in Exits, ClaimExit(x) PROVE Step
  <2> DEFINE c == creditsOutstanding
             share == ExitShare(x.credits)
  <2>1. /\ x.credits \in Nat \ {0} /\ c \in Nat \ {0} /\ x.credits <= c /\ free \in Nat
    <3>1. x \in [id : Nat, epoch : Epochs, agent : Agents, to : Wallets, credits : Nat]
      BY InputsAssumption
    <3>2. x.credits > 0 /\ c >= x.credits /\ ~halted
      BY <1>1 DEF ClaimExit
    <3> QED BY <1>1, <3>1, <3>2 DEF IndInv, BackingOK, CreditsOK, creditsOutstanding
  <2>2. share = (x.credits * free) \div c
    BY DEF ExitShare
  <2>3. /\ owedTotal' = owedTotal + share /\ buybackBac' = buybackBac
        /\ creditsOutstanding' = c - x.credits
    BY <1>1, <2>1 DEF ClaimExit, creditVars, entryVars, creditsOutstanding, IndInv, CreditsOK
  <2> HIDE DEF c
  <2>4. share \in Nat /\ share * c <= x.credits * free
    <3>1. x.credits * free \in Nat
      BY <2>1, ProductType
    <3> QED BY <2>1, <2>2, <3>1, DivBounds
  <2>5. free' = free - share
    BY <1>1, <2>3, <2>4 DEF IndInv, BackingOK
  <2>11. buybackBac' - owedTotal' = free' /\ buybackBac - owedTotal = free
    OBVIOUS
  <2> HIDE DEF free, share
  <2>6. (free - share) * c = free * c - share * c
    BY <2>1, <2>4
  <2>7. free * (c - x.credits) = free * c - x.credits * free
    BY <2>1
  <2>8. free * c \in Nat /\ share * c \in Nat /\ x.credits * free \in Nat
    BY <2>1, <2>4, ProductType
  <2>9. free * c - share * c >= free * c - x.credits * free
    BY <2>4, <2>8
  <2>10. free' * c >= free * creditsOutstanding'
    BY <2>3, <2>5, <2>6, <2>7, <2>9
  <2> QED BY <2>10, <2>11 DEF c
<1>2. IndInv /\ [Next]_vars => [Step]_vars
  <2> SUFFICES ASSUME IndInv, Next PROVE Step
    OBVIOUS
  <2>1. CASE \E x \in Exits : ClaimExit(x)
    BY <1>1, <2>1
  <2>2. CASE ~\E x \in Exits : ClaimExit(x)
    <3>1. totalCreditsExited' = totalCreditsExited
      BY <2>2 DEF Next, Environment, Inflow, Payout, Settle, Brake, Escape, Owner,
         Tick, AnchorResolves, HaltReasonBecomes, TransferBac, ForceBnb, Lock, AcceptRelease,
         SweepUntracked, SweepUntrackedBac, BuybackSkipped, BuybackBegin, BuybackEnd, Collect,
         BurnLocked, SettleSkipped, SettleWithoutDebt, SettleFinal, RevokeEpochOwed, Pause,
         Unpause, ArmEscape, ArmWith, CancelEscapeArm, CheckHaltArms, CheckHaltHalts,
         ClaimOwedAfterHalt, SweepImmatureOwed, EscapeCollect, EmergencyWithdrawBac,
         EmergencyWithdrawBnb, creditVars, exitedVars
    <3> QED BY <3>1
  <2> QED BY <2>1, <2>2
<1> QED BY <1>2, Invariance, PTL DEF Spec, RateSurvivesClaims

\* Whenever an exiter, a creditor or an agent is paid BAC, the unburned deposits are all still
\* here afterwards, also when the owner took out part of the bucket before.
THEOREM DepositsSafe == Spec => DepositsNeverPayExits
<1> DEFINE Step == buybackBac' < buybackBac => bacHeld' >= lockedBac' - totalBurned'
<1>1. ASSUME IndInv, NEW w \in Wallets, Collect(w) PROVE Step
  <2>1. Collectable(w) \in Nat
    <3>1. lastCollectEpoch[w] < epochNow
      BY <1>1 DEF Collect
    <3> QED BY <1>1, <3>1, CollectableBounds
  <2>2. /\ bacHeld >= lockedBac - totalBurned + Collectable(w)
        /\ bacHeld' = bacHeld - Collectable(w)
        /\ lockedBac' = lockedBac /\ totalBurned' = totalBurned
    BY <1>1 DEF Collect, ExitBacPresent, creditVars, entryVars
  <2> QED BY <1>1, <2>1, <2>2 DEF IndInv, DepositsOK, HeldOK
<1>2. ASSUME IndInv, NEW w \in Wallets, ClaimOwedAfterHalt(w) PROVE Step
  <2> DEFINE paid == IF haltCause \notin {2, 3} /\ now >= haltedAt + OWED_MATURITY THEN owed[w]
                     ELSE MaturedOwed(w, MaturityCutoff(haltedAt))
  <2>1. paid \in Nat
    <3>1. MaturityCutoff(haltedAt) \in Times
      BY <1>2, CutoffType DEF IndInv, ModeOK
    <3>2. MaturedOwed(w, MaturityCutoff(haltedAt)) \in 0..owed[w] /\ owed[w] \in Nat
      BY <1>2, <3>1, MaturedBounds DEF IndInv, DebtsOK
    <3> QED BY <3>2
  <2>2. /\ bacHeld >= lockedBac - totalBurned + paid
        /\ bacHeld' = bacHeld - paid
        /\ lockedBac' = lockedBac /\ totalBurned' = totalBurned
    BY <1>2 DEF ClaimOwedAfterHalt, ExitBacPresent, creditVars, entryVars
  <2> HIDE DEF paid
  <2> QED BY <1>2, <2>1, <2>2 DEF IndInv, DepositsOK, HeldOK
<1>3. ASSUME IndInv, NEW a \in Agents, EscapeCollect(a) PROVE Step
  <2> DEFINE paid == IF ExitBacPresent(JuniorBacDue(a)) THEN JuniorBacDue(a) ELSE 0
  <2>1. JuniorBacDue(a) \in Nat
    BY <1>3, JuniorDueType DEF IndInv, EscapeCollect
  <2>2. paid \in Nat /\ (paid = 0 \/ bacHeld >= lockedBac - totalBurned + paid)
    BY <2>1 DEF ExitBacPresent
  <2>3. /\ bacHeld' = bacHeld - paid /\ buybackBac' = buybackBac - paid
        /\ lockedBac' = lockedBac /\ totalBurned' = totalBurned
    BY <1>3 DEF EscapeCollect, creditVars, entryVars
  <2> HIDE DEF paid
  <2> QED BY <1>3, <2>2, <2>3 DEF IndInv, DepositsOK, HeldOK, BackingOK
<1>4. ASSUME IndInv, NEW output \in BuyOutputs, BuybackEnd(output) PROVE Step
  <2>1. output \in Nat
    BY InputsAssumption
  <2> QED BY <1>4, <2>1 DEF BuybackEnd, IndInv, HeldOK, BackingOK
<1>5. ASSUME IndInv, SweepUntrackedBac PROVE Step
  BY <1>5 DEF SweepUntrackedBac, IndInv, BackingOK, HeldOK, DepositsOK, bacAccounted
<1>6. IndInv /\ [Next]_vars => [Step]_vars
  <2> SUFFICES ASSUME IndInv, Next PROVE Step
    OBVIOUS
  <2> DEFINE Moves == \/ \E w \in Wallets : Collect(w) \/ ClaimOwedAfterHalt(w)
                      \/ \E a \in Agents : EscapeCollect(a)
                      \/ \E output \in BuyOutputs : BuybackEnd(output)
                      \/ SweepUntrackedBac
  <2>1. CASE Moves
    BY <1>1, <1>2, <1>3, <1>4, <1>5, <2>1
  <2>2. CASE ~Moves
    <3>1. buybackBac' = buybackBac
      BY <2>2 DEF Next, Environment, Inflow, Payout, Settle, Brake, Escape, Owner,
         Tick, AnchorResolves, HaltReasonBecomes, TransferBac, ForceBnb, Lock, AcceptRelease,
         SweepUntracked, BuybackSkipped, BuybackBegin, ClaimExit,
         BurnLocked, SettleSkipped, SettleWithoutDebt, SettleFinal, RevokeEpochOwed, Pause,
         Unpause, ArmEscape, ArmWith, CancelEscapeArm, CheckHaltArms, CheckHaltHalts,
         SweepImmatureOwed, EmergencyWithdrawBac, EmergencyWithdrawBnb
    <3>2. buybackBac \in Nat
      BY DEF IndInv, BackingOK
    <3> QED BY <3>1, <3>2
  <2> QED BY <2>1, <2>2
<1> QED BY <1>6, Invariance, PTL DEF Spec, DepositsNeverPayExits

-----------------------------------------------------------------------------
(* The totals.  Which steps move them: *)

LEMMA WhoMovesDebt ==
    ASSUME Next
    PROVE  \/ UNCHANGED <<owed, owedTotal>>
           \/ \E x \in Exits : ClaimExit(x)
           \/ \E w \in Wallets : Collect(w) \/ ClaimOwedAfterHalt(w) \/ SweepImmatureOwed(w)
           \/ \E e \in Epochs, holders \in SUBSET Wallets : RevokeEpochOwed(e, holders)
<1> USE DEF debtVars, claimVars
<1>1. CASE Environment
  BY <1>1 DEF Environment, Tick, AnchorResolves, HaltReasonBecomes, TransferBac, ForceBnb
<1>2. CASE Inflow
  BY <1>2 DEF Inflow, Lock, AcceptRelease, SweepUntracked, SweepUntrackedBac, BuybackSkipped,
       BuybackBegin, BuybackEnd
<1>3. CASE Payout
  BY <1>3 DEF Payout, BurnLocked
<1>4. CASE Settle
  BY <1>4 DEF Settle, SettleSkipped, SettleWithoutDebt, SettleFinal
<1>5. CASE Brake
  BY <1>5 DEF Brake, Pause, Unpause
<1>6. CASE Escape
  BY <1>6 DEF Escape, ArmEscape, CancelEscapeArm, CheckHaltArms, ArmWith, CheckHaltHalts, EscapeCollect
<1>7. CASE Owner
  BY <1>7 DEF Owner, EmergencyWithdrawBac, EmergencyWithdrawBnb
<1> QED BY <1>1, <1>2, <1>3, <1>4, <1>5, <1>6, <1>7 DEF Next

LEMMA WhoMovesCredits ==
    ASSUME Next
    PROVE  \/ UNCHANGED <<totalCreditsIssued, totalCreditsExited, credited, exitedCredits, unattributedExited>>
           \/ \E a \in Agents, amount \in LockAmounts : Lock(a, amount)
           \/ \E x \in Exits : ClaimExit(x)
<1> USE DEF creditVars, entryVars, exitedVars
<1>1. CASE Environment
  BY <1>1 DEF Environment, Tick, AnchorResolves, HaltReasonBecomes, TransferBac, ForceBnb
<1>2. CASE Inflow
  BY <1>2 DEF Inflow, AcceptRelease, SweepUntracked, SweepUntrackedBac, BuybackSkipped,
       BuybackBegin, BuybackEnd
<1>3. CASE Payout
  BY <1>3 DEF Payout, Collect, BurnLocked
<1>4. CASE Settle
  BY <1>4 DEF Settle, SettleSkipped, SettleWithoutDebt, SettleFinal
<1>5. CASE Brake
  BY <1>5 DEF Brake, RevokeEpochOwed, Pause, Unpause
<1>6. CASE Escape
  BY <1>6 DEF Escape, ArmEscape, CancelEscapeArm, CheckHaltArms, ArmWith, CheckHaltHalts,
       ClaimOwedAfterHalt, SweepImmatureOwed, EscapeCollect
<1>7. CASE Owner
  BY <1>7 DEF Owner, EmergencyWithdrawBac, EmergencyWithdrawBnb
<1> QED BY <1>1, <1>2, <1>3, <1>4, <1>5, <1>6, <1>7 DEF Next

LEMMA WhoMovesPots ==
    ASSUME Next
    PROVE  \/ UNCHANGED <<releasedInWindow, potRing>>
           \/ \E e \in Epochs, bps \in BpsTiers : SettleFinal(e, bps)
<1> USE DEF indexVars
<1>1. CASE Environment
  BY <1>1 DEF Environment, Tick, AnchorResolves, HaltReasonBecomes, TransferBac, ForceBnb
<1>2. CASE Inflow
  BY <1>2 DEF Inflow, Lock, AcceptRelease, SweepUntracked, SweepUntrackedBac, BuybackSkipped,
       BuybackBegin, BuybackEnd
<1>3. CASE Payout
  BY <1>3 DEF Payout, ClaimExit, Collect, BurnLocked
<1>4. CASE Settle
  BY <1>4 DEF Settle, SettleSkipped, SettleWithoutDebt
<1>5. CASE Brake
  BY <1>5 DEF Brake, RevokeEpochOwed, Pause, Unpause
<1>6. CASE Escape
  BY <1>6 DEF Escape, ArmEscape, CancelEscapeArm, CheckHaltArms, ArmWith, CheckHaltHalts,
       ClaimOwedAfterHalt, SweepImmatureOwed, EscapeCollect
<1>7. CASE Owner
  BY <1>7 DEF Owner, EmergencyWithdrawBac, EmergencyWithdrawBnb
<1> QED BY <1>1, <1>2, <1>3, <1>4, <1>5, <1>6, <1>7 DEF Next

\* The total debt is the sum of the debts.
LEMMA OwedTotalStep ==
    ASSUME IndInv, OwedTotalIsTheSum, [Next]_vars
    PROVE  OwedTotalIsTheSum'
<1>0. owed \in [Wallets -> Nat] /\ owedTotal \in Nat /\ IsFiniteSet(Wallets)
      /\ owedTotal = SumFunction(owed)
  BY SizesAssumption DEF IndInv, DebtsOK, BackingOK, OwedTotalIsTheSum
<1>1. ASSUME NEW w \in Wallets, NEW n \in Nat, owed' = [owed EXCEPT ![w] = n],
             owedTotal' = owedTotal - owed[w] + n
      PROVE  OwedTotalIsTheSum'
  <2>1. SumFunction([owed EXCEPT ![w] = n]) = SumFunction(owed) - owed[w] + n
    BY <1>0, SumMoves
  <2> QED BY <1>0, <1>1, <2>1 DEF OwedTotalIsTheSum
<1>2. ASSUME NEW x \in Exits, ClaimExit(x) PROVE OwedTotalIsTheSum'
  <2> DEFINE amount == ExitShare(x.credits)
  <2>1. x \in [id : Nat, epoch : Epochs, agent : Agents, to : Wallets, credits : Nat]
    BY InputsAssumption
  <2>2. /\ owed' = [owed EXCEPT ![x.to] = @ + amount] /\ owedTotal' = owedTotal + amount
        /\ ~halted /\ x.credits > 0 /\ creditsOutstanding >= x.credits
    BY <1>2 DEF ClaimExit
  <2>3. creditsOutstanding \in Int
    BY DEF IndInv, CreditsOK, creditsOutstanding
  <2>4. amount \in Nat
    BY <2>1, <2>2, <2>3, ExitShareBounds
  <2> HIDE DEF amount
  <2>5. owed[x.to] \in Nat /\ owed[x.to] + amount \in Nat /\ x.to \in Wallets
    BY <1>0, <2>1, <2>4
  <2>6. /\ owed' = [owed EXCEPT ![x.to] = owed[x.to] + amount]
        /\ owedTotal' = owedTotal - owed[x.to] + (owed[x.to] + amount)
    BY <1>0, <2>2, <2>4, <2>5
  <2> QED BY <1>1, <2>5, <2>6
<1>3. ASSUME NEW w \in Wallets, NEW amount \in 0..owed[w], DebtLess(w, amount) PROVE OwedTotalIsTheSum'
  <2>1. /\ owed' = [owed EXCEPT ![w] = owed[w] - amount] /\ owed[w] - amount \in Nat
        /\ owedTotal' = owedTotal - owed[w] + (owed[w] - amount)
    BY <1>0, <1>3 DEF DebtLess
  <2> QED BY <1>1, <2>1
<1>4. ASSUME NEW w \in Wallets, Collect(w) PROVE OwedTotalIsTheSum'
  <2>1. lastCollectEpoch[w] < epochNow /\ DebtLess(w, Collectable(w))
    BY <1>4 DEF Collect
  <2>2. Collectable(w) \in 0..owed[w]
    BY <1>0, <2>1, CollectableBounds, HarvestBounds DEF IndInv
  <2> QED BY <1>3, <2>1, <2>2
<1>5. ASSUME NEW w \in Wallets PROVE MaturedOwed(w, MaturityCutoff(haltedAt)) \in 0..owed[w]
  <2>1. MaturityCutoff(haltedAt) \in Times
    BY CutoffType DEF IndInv, ModeOK
  <2> QED BY <2>1, MaturedBounds DEF IndInv
<1>6. ASSUME NEW w \in Wallets, ClaimOwedAfterHalt(w) PROVE OwedTotalIsTheSum'
  <2> DEFINE paid == IF haltCause \notin {2, 3} /\ now >= haltedAt + OWED_MATURITY THEN owed[w]
                     ELSE MaturedOwed(w, MaturityCutoff(haltedAt))
  <2>1. paid \in 0..owed[w]
    BY <1>0, <1>5
  <2>2. DebtLess(w, paid)
    BY <1>6 DEF ClaimOwedAfterHalt
  <2> QED BY <1>3, <2>1, <2>2
<1>7. ASSUME NEW w \in Wallets, SweepImmatureOwed(w) PROVE OwedTotalIsTheSum'
  <2> DEFINE amount == owed[w] - MaturedOwed(w, MaturityCutoff(haltedAt))
  <2>1. amount \in 0..owed[w]
    BY <1>0, <1>5
  <2>2. DebtLess(w, amount)
    BY <1>7 DEF SweepImmatureOwed
  <2> QED BY <1>3, <2>1, <2>2
<1>8. ASSUME NEW e \in Epochs, NEW holders \in SUBSET Wallets, RevokeEpochOwed(e, holders)
      PROVE  OwedTotalIsTheSum'
  <2> DEFINE hit == {w \in holders : RevokedFrom(e, w) > 0}
             r == [w \in Wallets |-> RevokedFrom(e, w)]
             t == [w \in Wallets |-> IF w \in holders THEN r[w] ELSE 0]
  <2>1. /\ owed' = [w \in Wallets |-> IF w \in hit THEN owed[w] - RevokedFrom(e, w) ELSE owed[w]]
        /\ owedTotal' = owedTotal - SumFunctionOnSet(r, holders)
    BY <1>8 DEF RevokeEpochOwed
  <2>2. \A w \in Wallets : r[w] = RevokedFrom(e, w) /\ r[w] \in 0..owed[w] /\ r[w] \in Int
    BY <1>0, RevokedBounds DEF IndInv
  <2>3. SumFunctionOnSet(r, holders) = SumFunctionOnSet(t, Wallets)
    <3> HIDE DEF r
    <3>1. \A w \in Wallets : r[w] \in Int
      BY <2>2
    <3> QED BY <1>0, <3>1, SumOfPart
  <2>4. \A w \in Wallets : owed'[w] \in Int /\ t[w] \in Int /\ owed[w] = owed'[w] + t[w]
    <3> SUFFICES ASSUME NEW w \in Wallets
                 PROVE  owed'[w] \in Int /\ t[w] \in Int /\ owed[w] = owed'[w] + t[w]
      OBVIOUS
    <3>1. r[w] = RevokedFrom(e, w) /\ r[w] \in 0..owed[w] /\ owed[w] \in Nat
      BY <1>0, <2>2
    <3>2. owed'[w] = IF w \in hit THEN owed[w] - RevokedFrom(e, w) ELSE owed[w]
      BY <2>1
    <3>3. t[w] = IF w \in holders THEN r[w] ELSE 0
      OBVIOUS
    <3>4. w \in hit <=> w \in holders /\ RevokedFrom(e, w) > 0
      OBVIOUS
    <3> HIDE DEF hit, r, t
    <3> QED BY <3>1, <3>2, <3>3, <3>4
  <2>5. DOMAIN owed = Wallets /\ DOMAIN owed' = Wallets
    BY <1>0, <2>1
  <2> HIDE DEF hit, r, t
  <2>6. SumFunctionOnSet(owed, Wallets) = SumFunctionOnSet(owed', Wallets) + SumFunctionOnSet(t, Wallets)
    BY <1>0, <2>4, SumPlus
  <2>7. SumFunctionOnSet(t, Wallets) \in Int
    BY <1>0, <2>4, SumInt
  <2>8. SumFunctionOnSet(owed', Wallets) \in Int
    BY <1>0, <2>4, SumInt
  <2>9. owedTotal' = SumFunctionOnSet(owed', Wallets)
    BY <1>0, <2>1, <2>3, <2>5, <2>6, <2>7, <2>8 DEF SumFunction
  <2> QED BY <2>5, <2>9 DEF OwedTotalIsTheSum, SumFunction
<1>9. CASE UNCHANGED <<owed, owedTotal>>
  BY <1>9 DEF OwedTotalIsTheSum
<1>10. CASE UNCHANGED vars
  BY <1>9, <1>10 DEF vars, debtVars, claimVars
<1> QED BY <1>2, <1>4, <1>6, <1>7, <1>8, <1>9, <1>10, WhoMovesDebt

-----------------------------------------------------------------------------
(* The window of the zero-witness ceiling *)

\* The running sum of the window is the sum of the ring of the days' pots.
PotAmounts(ring) == [i \in 0..NO_ATTEST_WINDOW - 1 |-> ring[i].amount]
WindowIsTheRing == releasedInWindow = SumFunction(PotAmounts(potRing))

LEMMA RingIsFinite ==
    /\ IsFiniteSet(0..NO_ATTEST_WINDOW - 1)
    /\ IndInv => PotAmounts(potRing) \in [0..NO_ATTEST_WINDOW - 1 -> Nat]
<1>1. NO_ATTEST_WINDOW - 1 \in Int /\ 0 \in Int
  BY UnitsAssumption
<1>2. IsFiniteSet(0..NO_ATTEST_WINDOW - 1)
  BY <1>1, FS_Interval
<1> QED BY <1>2 DEF PotAmounts, IndInv, SettlementOK

\* What a settlement does to the ring.
LEMMA SettledRing ==
    ASSUME IndInv, NEW e \in Epochs, NEW bps \in BpsTiers, SettleFinal(e, bps),
           NEW day, day = e \div EPOCHS_PER_DAY
    PROVE  /\ day \in Nat /\ DaySlot(day) \in 0..NO_ATTEST_WINDOW - 1
           /\ Pot(e, bps) \in Nat /\ SlotAmountAt(day) \in Nat /\ WindowAt(day) \in Int
           /\ PotAmounts(potRing') =
                [PotAmounts(potRing) EXCEPT ![DaySlot(day)] = SlotAmountAt(day) + Pot(e, bps)]
           /\ releasedInWindow' = WindowAt(day) + Pot(e, bps)
<1> DEFINE pot == Pot(e, bps)
           ring == potRing
<1>1. ~halted /\ e \in Nat /\ EPOCHS_PER_DAY \in Nat \ {0} /\ NO_ATTEST_WINDOW \in Nat \ {0}
  BY SizesAssumption, UnitsAssumption DEF SettleFinal, SettleInOrder, Epochs
<1>2. day \in Nat
  BY <1>1, DivBounds
<1>3. DaySlot(day) \in 0..NO_ATTEST_WINDOW - 1
  BY <1>1, <1>2 DEF DaySlot
<1>4. pot \in Nat
  <2>1. headroom \in Nat
    BY DEF IndInv, BackingOK, headroom
  <2> QED BY <1>1, <2>1, PotBounds
<1>5. ring \in [0..NO_ATTEST_WINDOW - 1 -> [amount : Nat, day : Nat]] /\ releasedInWindow \in Int
  BY DEF IndInv, SettlementOK
<1>6. ring[DaySlot(day)] \in [amount : Nat, day : Nat]
  BY <1>3, <1>5
<1>7. SlotAmountAt(day) \in Nat /\ WindowAt(day) \in Int
  BY <1>5, <1>6 DEF SlotAmountAt, WindowAt
<1>8. /\ potRing' = [potRing EXCEPT ![DaySlot(day)] = [amount |-> SlotAmountAt(day) + pot, day |-> day]]
      /\ releasedInWindow' = WindowAt(day) + pot
  BY DEF SettleFinal
<1> HIDE DEF pot
<1>9. PotAmounts(potRing') = [PotAmounts(potRing) EXCEPT ![DaySlot(day)] = SlotAmountAt(day) + pot]
  BY <1>3, <1>5, <1>8 DEF PotAmounts
<1> QED BY <1>2, <1>3, <1>4, <1>7, <1>8, <1>9 DEF pot

LEMMA WindowStep ==
    ASSUME IndInv, WindowIsTheRing, [Next]_vars
    PROVE  WindowIsTheRing'
<1>1. ASSUME NEW e \in Epochs, NEW bps \in BpsTiers, SettleFinal(e, bps) PROVE WindowIsTheRing'
  <2> DEFINE day == e \div EPOCHS_PER_DAY
             slot == DaySlot(day)
             f == PotAmounts(potRing)
             n == SlotAmountAt(day) + Pot(e, bps)
  <2>1. /\ slot \in 0..NO_ATTEST_WINDOW - 1 /\ n \in Nat /\ Pot(e, bps) \in Nat
        /\ PotAmounts(potRing') = [f EXCEPT ![slot] = n]
        /\ releasedInWindow' = WindowAt(day) + Pot(e, bps)
    BY <1>1, SettledRing
  <2>2. f \in [0..NO_ATTEST_WINDOW - 1 -> Nat] /\ IsFiniteSet(0..NO_ATTEST_WINDOW - 1)
    BY RingIsFinite
  <2>3. f[slot] = potRing[slot].amount /\ f[slot] \in Nat
    BY <2>1, <2>2 DEF PotAmounts
  <2>4. \/ WindowAt(day) = releasedInWindow /\ SlotAmountAt(day) = f[slot]
        \/ WindowAt(day) = releasedInWindow - f[slot] /\ SlotAmountAt(day) = 0
    BY <2>3 DEF WindowAt, SlotAmountAt
  <2>5. n = SlotAmountAt(day) + Pot(e, bps)
    OBVIOUS
  <2>6. SumFunction(f) = releasedInWindow
    BY DEF WindowIsTheRing
  <2> DEFINE S == 0..NO_ATTEST_WINDOW - 1
  <2> HIDE DEF f, n, slot, day
  <2>7. SumFunction(f) \in Nat /\ SumFunction([f EXCEPT ![slot] = n]) = SumFunction(f) - f[slot] + n
    <3>1. IsFiniteSet(S) /\ f \in [S -> Nat] /\ slot \in S /\ n \in Nat
      BY <2>1, <2>2
    <3> HIDE DEF S
    <3> QED BY ONLY <3>1, SumMoves
  <2>8. releasedInWindow' = SumFunction([f EXCEPT ![slot] = n])
    BY <2>1, <2>3, <2>4, <2>5, <2>6, <2>7
  <2> QED BY <2>1, <2>8 DEF WindowIsTheRing
<1>2. CASE UNCHANGED <<releasedInWindow, potRing>>
  BY <1>2 DEF WindowIsTheRing
<1>3. CASE UNCHANGED vars
  BY <1>2, <1>3 DEF vars, indexVars
<1> QED BY <1>1, <1>2, <1>3, WhoMovesPots

LEMMA WindowHolds == Spec => []WindowIsTheRing
<1>1. Init => WindowIsTheRing
  <2> SUFFICES ASSUME Init PROVE WindowIsTheRing
    OBVIOUS
  <2>1. \A i \in 0..NO_ATTEST_WINDOW - 1 : PotAmounts(potRing)[i] = 0
    BY DEF Init, PotAmounts
  <2>2. DOMAIN PotAmounts(potRing) = 0..NO_ATTEST_WINDOW - 1
    BY DEF PotAmounts
  <2>3. SumFunction(PotAmounts(potRing)) = 0
    BY <2>1, <2>2, RingIsFinite, SumOfNone
  <2> QED BY <2>3 DEF Init, WindowIsTheRing
<1>2. IndInv /\ WindowIsTheRing /\ [Next]_vars => WindowIsTheRing'
  BY WindowStep
<1> QED BY <1>1, <1>2, Invariance, PTL DEF Spec

\* The sum of the window's pots is a number of wei too: no variable ever leaves its type.
THEOREM TypesHold == Spec => []TypeOK
<1>1. IndInv /\ WindowIsTheRing => releasedInWindow \in Nat
  <2> SUFFICES ASSUME IndInv, WindowIsTheRing PROVE releasedInWindow \in Nat
    OBVIOUS
  <2> DEFINE f == PotAmounts(potRing)
  <2>1. f \in [0..NO_ATTEST_WINDOW - 1 -> Nat] /\ IsFiniteSet(0..NO_ATTEST_WINDOW - 1)
    BY RingIsFinite
  <2> HIDE DEF f
  <2>2. DOMAIN f = 0..NO_ATTEST_WINDOW - 1 /\ \A i \in 0..NO_ATTEST_WINDOW - 1 : f[i] \in Nat
    BY <2>1
  <2>3. SumFunction(f) \in Nat
    BY <2>1, <2>2, SumNat DEF SumFunction
  <2> QED BY <2>3 DEF WindowIsTheRing, f
<1>2. BooksTypeOK /\ IndInv /\ WindowIsTheRing => TypeOK
  BY <1>1 DEF TypeOK
<1> QED BY <1>2, TypeCorrect, Invariance, WindowHolds, PTL

\* No variable leaves its type, both books are held, and the budget is within its own.
THEOREM BooksSound == Spec => []BooksAreSound
<1>1. TypeOK /\ BooksAreHeld /\ BudgetIsBounded => BooksAreSound
  BY DEF BooksAreSound
<1> QED BY <1>1, TypesHold, BooksHeld, BudgetBounded, PTL

LEMMA WhoReserves ==
    ASSUME IndInv, Next
    PROVE  \/ reservedTotal' <= reservedTotal
           \/ \E e \in Epochs, bps \in BpsTiers : SettleFinal(e, bps)
<1> USE DEF debtVars, releasedVars
<1>0. reservedTotal \in Nat /\ owedTotal \in Nat
  BY DEF IndInv, BackingOK
<1>1. CASE Environment
  BY <1>0, <1>1 DEF Environment, Tick, AnchorResolves, HaltReasonBecomes, TransferBac, ForceBnb
<1>2. CASE Inflow
  BY <1>0, <1>2 DEF Inflow, Lock, AcceptRelease, SweepUntracked, SweepUntrackedBac, BuybackSkipped,
       BuybackBegin, BuybackEnd
<1>3. CASE Payout
  <2>1. ASSUME NEW w \in Wallets, Collect(w) PROVE reservedTotal' <= reservedTotal
    <3>1. lastCollectEpoch[w] < epochNow /\ reservedTotal' = reservedTotal - Collectable(w)
      BY <2>1 DEF Collect
    <3>2. Collectable(w) \in Nat
      BY <3>1, CollectableBounds
    <3> QED BY <1>0, <3>1, <3>2
  <2>2. ASSUME NEW x \in Exits, ClaimExit(x) PROVE reservedTotal' <= reservedTotal
    <3>1. reservedTotal' = reservedTotal
      BY <2>2 DEF ClaimExit
    <3> QED BY <1>0, <3>1
  <2>3. ASSUME BurnLocked PROVE reservedTotal' <= reservedTotal
    BY <1>0, <2>3 DEF BurnLocked
  <2> QED BY <1>3, <2>1, <2>2, <2>3, Zenon DEF Payout
<1>4. CASE Settle
  <2>1. ASSUME NEW e \in Epochs, SettleSkipped(e) \/ SettleWithoutDebt(e) PROVE reservedTotal' <= reservedTotal
    BY <1>0, <2>1 DEF SettleSkipped, SettleWithoutDebt
  <2>2. PICK e \in Epochs : \/ SettleSkipped(e) \/ SettleWithoutDebt(e)
                            \/ \E bps \in BpsTiers : SettleFinal(e, bps)
    BY <1>4, Zenon DEF Settle
  <2> QED BY <2>1, <2>2, Zenon
<1>5. CASE Brake
  <2>1. ASSUME NEW e \in Epochs, NEW holders \in SUBSET Wallets, RevokeEpochOwed(e, holders)
        PROVE  reservedTotal' <= reservedTotal
    <3>1. PICK revoked \in 0..owedTotal, dropped \in 0..owedTotal :
             reservedTotal' = Least(Greatest(reservedTotal - dropped, 0), owedTotal - revoked)
      BY <2>1 DEF RevokeEpochOwed
    <3> QED BY <1>0, <3>1 DEF Least, Greatest
  <2> QED BY <1>0, <1>5, <2>1 DEF Brake, Pause, Unpause
<1>6. CASE Escape
  BY <1>0, <1>6 DEF Escape, ArmEscape, CancelEscapeArm, CheckHaltArms, ArmWith, CheckHaltHalts,
       ClaimOwedAfterHalt, SweepImmatureOwed, EscapeCollect
<1>7. CASE Owner
  BY <1>0, <1>7 DEF Owner, EmergencyWithdrawBac, EmergencyWithdrawBnb
<1> QED BY <1>1, <1>2, <1>3, <1>4, <1>5, <1>6, <1>7 DEF Next

\* A pot of an epoch nobody attested leaves all the pots of the window, itself included, within
\* their share of the bucket: nothing the running sum forgets is still in the window.
THEOREM UnwitnessedPotsCapped == Spec => UnwitnessedPotsAreCapped
<1> DEFINE Capped == PotsOfWindow(potRing', lastSettledEpoch' \div EPOCHS_PER_DAY)
                        <= (buybackBac * NO_ATTEST_WINDOW_BPS) \div BPS
           Step == reservedTotal' > reservedTotal /\ ~anchorWitnessed[lastSettledEpoch'] => Capped
<1>1. ASSUME IndInv, WindowIsTheRing', NEW e \in Epochs, NEW bps \in BpsTiers, SettleFinal(e, bps) PROVE Step
  <2> SUFFICES ASSUME reservedTotal' > reservedTotal, ~anchorWitnessed[lastSettledEpoch'] PROVE Capped
    OBVIOUS
  <2> DEFINE day == e \div EPOCHS_PER_DAY
             pot == Pot(e, bps)
             room == (buybackBac * NO_ATTEST_WINDOW_BPS) \div BPS
             f == PotAmounts(potRing')
             g == [i \in DOMAIN potRing' |->
                      IF potRing'[i].day + NO_ATTEST_WINDOW > day THEN potRing'[i].amount ELSE 0]
  <2>1. lastSettledEpoch' = e /\ reservedTotal' = reservedTotal + pot /\ ~anchorWitnessed[e]
    BY <1>1 DEF SettleFinal, SettleInOrder
  <2>2. pot \in Nat /\ WindowAt(day) \in Int /\ releasedInWindow' = WindowAt(day) + pot
    BY <1>1, SettledRing
  <2>3. pot > 0
    <3> HIDE DEF pot
    <3> QED BY <1>1, <2>1, <2>2 DEF IndInv, BackingOK
  <2>4. releasedInWindow' <= room
    <3>1. buybackBac \in Nat /\ NO_ATTEST_WINDOW_BPS \in Nat /\ BPS \in Nat \ {0}
      BY <1>1, UnitsAssumption DEF IndInv, BackingOK
    <3>2. buybackBac * NO_ATTEST_WINDOW_BPS \in Nat
      BY <3>1, ProductType
    <3>3. room \in Nat
      BY <3>1, <3>2, DivBounds
    <3>4. \E capped \in Int : pot = Least(capped, Greatest(room - WindowAt(day), 0))
      <4> DEFINE share == ((buybackBac - reservedTotal) * bps) \div (BPS * EPOCHS_PER_DAY)
      <4>1. pot = Least(Least(share, headroom), UnwitnessedRoom(day))
        BY <2>1 DEF Pot
      <4>2. Least(share, headroom) \in Int
        <5>1. bps \in Nat /\ EPOCHS_PER_DAY \in Nat \ {0} /\ BPS * EPOCHS_PER_DAY \in Nat \ {0}
          BY InputsAssumption, UnitsAssumption
        <5>2. buybackBac - reservedTotal \in Nat /\ headroom \in Int
          BY <1>1 DEF IndInv, BackingOK, headroom, SettleFinal, SettleInOrder
        <5>3. (buybackBac - reservedTotal) * bps \in Nat
          BY <5>1, <5>2, ProductType
        <5>4. share \in Nat
          BY <5>1, <5>3, DivBounds
        <5> HIDE DEF share
        <5> QED BY <5>2, <5>4 DEF Least
      <4> QED BY <4>1, <4>2 DEF UnwitnessedRoom
    <3> HIDE DEF pot, room, day
    <3> QED BY <2>2, <2>3, <3>3, <3>4 DEF Least, Greatest
  <2>5. potRing' \in [0..NO_ATTEST_WINDOW - 1 -> [amount : Nat, day : Nat]]
    <3>1. IndInv'
      BY <1>1, SettleKeeps DEF Settle
    <3> QED BY <3>1 DEF IndInv, SettlementOK
  <2>6. /\ DOMAIN potRing' = 0..NO_ATTEST_WINDOW - 1
        /\ \A i \in 0..NO_ATTEST_WINDOW - 1 : potRing'[i].amount \in Nat
        /\ DOMAIN f = 0..NO_ATTEST_WINDOW - 1
    BY <2>5 DEF PotAmounts
  <2>7. \A i \in 0..NO_ATTEST_WINDOW - 1 : f[i] = potRing'[i].amount
    BY DEF PotAmounts
  <2>8. \A i \in 0..NO_ATTEST_WINDOW - 1 : g[i] \in Int /\ f[i] \in Int /\ g[i] <= f[i]
    <3> HIDE DEF f, day
    <3> QED BY <2>6, <2>7
  <2>9. PotsOfWindow(potRing', day) = SumFunctionOnSet(g, 0..NO_ATTEST_WINDOW - 1)
    <3>1. DOMAIN g = 0..NO_ATTEST_WINDOW - 1
      BY <2>6
    <3>2. PotsOfWindow(potRing', day) = SumFunctionOnSet(g, DOMAIN g)
      BY Zenon DEF PotsOfWindow, SumFunction
    <3> QED BY <3>1, <3>2, Zenon
  <2>10. releasedInWindow' = SumFunctionOnSet(f, 0..NO_ATTEST_WINDOW - 1)
    BY <1>1, <2>6, Zenon DEF WindowIsTheRing, SumFunction
  <2> DEFINE all == SumFunctionOnSet(f, 0..NO_ATTEST_WINDOW - 1)
             within == SumFunctionOnSet(g, 0..NO_ATTEST_WINDOW - 1)
  <2> HIDE DEF f, g
  <2>11. within <= all
    BY <2>8, RingIsFinite, SumMonotone
  <2>12. within \in Int /\ all \in Int
    BY <2>8, RingIsFinite, SumInt
  <2>13. room \in Int
    BY <1>1, UnitsAssumption DEF IndInv, BackingOK
  <2> HIDE DEF all, within, room
  <2>14. within <= room
    BY <2>4, <2>10, <2>11, <2>12, <2>13 DEF all
  <2> QED BY <2>1, <2>9, <2>14 DEF within, room
<1>2. IndInv /\ WindowIsTheRing' /\ [Next]_vars => [Step]_vars
  <2> SUFFICES ASSUME IndInv, WindowIsTheRing', Next PROVE Step
    OBVIOUS
  <2>1. CASE \E e \in Epochs, bps \in BpsTiers : SettleFinal(e, bps)
    BY <1>1, <2>1
  <2>2. CASE reservedTotal' <= reservedTotal
    <3>1. reservedTotal \in Nat /\ reservedTotal' \in Nat
      <4>1. IndInv'
        BY StepKeeps
      <4> QED BY <4>1 DEF IndInv, BackingOK
    <3> QED BY <2>2, <3>1
  <2> QED BY <2>1, <2>2, WhoReserves
<1> QED BY <1>2, Invariance, WindowHolds, PTL DEF Spec, UnwitnessedPotsAreCapped

-----------------------------------------------------------------------------
(* The totals of debts and credits *)

\* The total debt is the sum of the debts, whoever claims, is paid, revoked or demoted.
THEOREM DebtsAddUp == Spec => []OwedTotalIsTheSum
<1>1. Init => OwedTotalIsTheSum
  <2> SUFFICES ASSUME Init PROVE OwedTotalIsTheSum
    OBVIOUS
  <2>1. owed = [w \in Wallets |-> 0] /\ owedTotal = 0
    BY DEF Init
  <2>2. SumFunction(owed) = 0
    <3>1. DOMAIN owed = Wallets /\ \A w \in Wallets : owed[w] = 0
      BY <2>1
    <3>2. IsFiniteSet(Wallets)
      BY SizesAssumption
    <3> QED BY <3>1, <3>2, SumOfNone
  <2> QED BY <2>1, <2>2 DEF OwedTotalIsTheSum
<1>2. IndInv /\ OwedTotalIsTheSum /\ [Next]_vars => OwedTotalIsTheSum'
  BY OwedTotalStep
<1> QED BY <1>1, <1>2, Invariance, PTL DEF Spec

LEMMA CreditsStep ==
    ASSUME IndInv, CreditsAddUp, [Next]_vars
    PROVE  CreditsAddUp'
<1>0. /\ credited \in [Agents -> Nat] /\ exitedCredits \in [Agents -> Nat]
      /\ totalCreditsIssued \in Nat /\ totalCreditsExited \in Nat /\ unattributedExited \in Nat
      /\ SumFunction(credited) = totalCreditsIssued
      /\ SumFunction(exitedCredits) + unattributedExited = totalCreditsExited
  BY DEF IndInv, AttributionOK, CreditsOK, CreditsAddUp
<1>1. IsFiniteSet(Agents)
  BY SizesAssumption
<1>2. CreditsOK' /\ AttributionOK'
  BY StepKeeps DEF IndInv
<1>3. ASSUME NEW a \in Agents, NEW amount \in LockAmounts, Lock(a, amount) PROVE CreditsAddUp'
  <2>1. amount \in Nat
    BY InputsAssumption
  <2>2. /\ credited' = [credited EXCEPT ![a] = credited[a] + amount]
        /\ totalCreditsIssued' = totalCreditsIssued + amount
        /\ UNCHANGED <<exitedCredits, unattributedExited, totalCreditsExited>>
    BY <1>3 DEF Lock, exitedVars
  <2>3. credited[a] + amount \in Nat /\ credited[a] \in Nat
    BY <1>0, <2>1
  <2>4. SumFunction(credited') = SumFunction(credited) - credited[a] + (credited[a] + amount)
    BY <1>0, <1>1, <2>2, <2>3, SumMoves
  <2>5. SumFunction(credited') = totalCreditsIssued'
    BY <1>0, <2>1, <2>2, <2>3, <2>4
  <2>6. SumFunction(exitedCredits') + unattributedExited' = totalCreditsExited'
    BY <1>0, <2>2
  <2> QED BY <1>2, <2>5, <2>6 DEF CreditsAddUp, CreditsOK, AttributionOK
<1>4. ASSUME NEW x \in Exits, ClaimExit(x) PROVE CreditsAddUp'
  <2> DEFINE part == Attributed(x)
             a == x.agent
  <2>1. a \in Agents /\ x.credits \in Nat
    BY InputsAssumption
  <2>2. part \in Nat
    BY <1>0, <2>1 DEF Attributed, Least, IndInv, AttributionOK
  <2>3. /\ exitedCredits' = [exitedCredits EXCEPT ![a] = exitedCredits[a] + part]
        /\ unattributedExited' = unattributedExited + x.credits - part
        /\ totalCreditsExited' = totalCreditsExited + x.credits
        /\ UNCHANGED <<credited, totalCreditsIssued>>
    BY <1>4 DEF ClaimExit, entryVars
  <2> HIDE DEF part, a
  <2>4. exitedCredits[a] + part \in Nat /\ exitedCredits[a] \in Nat
    BY <1>0, <2>1, <2>2
  <2>5. /\ SumFunction(exitedCredits') = SumFunction(exitedCredits) - exitedCredits[a] + (exitedCredits[a] + part)
        /\ SumFunction(exitedCredits) \in Nat
    BY <1>0, <1>1, <2>1, <2>3, <2>4, SumMoves
  <2>6. SumFunction(exitedCredits') + unattributedExited' = totalCreditsExited'
    BY <1>0, <2>1, <2>2, <2>3, <2>4, <2>5
  <2>7. SumFunction(credited') = totalCreditsIssued'
    BY <1>0, <2>3
  <2> QED BY <1>2, <2>6, <2>7 DEF CreditsAddUp, CreditsOK, AttributionOK
<1>5. CASE UNCHANGED <<totalCreditsIssued, totalCreditsExited, credited, exitedCredits, unattributedExited>>
  BY <1>5 DEF CreditsAddUp
<1>6. CASE UNCHANGED vars
  BY <1>5, <1>6 DEF vars, creditVars, entryVars, exitedVars
<1> QED BY <1>3, <1>4, <1>5, <1>6, WhoMovesCredits

\* Every credit issued belongs to an agent and every credit that left is attributed once, to its
\* agent or to nobody, and no agent exits more than it put in.
THEOREM CreditsAdd == Spec => []CreditsAddUp
<1>1. Init => CreditsAddUp
  <2> SUFFICES ASSUME Init PROVE CreditsAddUp
    OBVIOUS
  <2>1. /\ credited = [a \in Agents |-> 0] /\ exitedCredits = [a \in Agents |-> 0]
        /\ totalCreditsIssued = 0 /\ totalCreditsExited = 0 /\ unattributedExited = 0
    BY DEF Init
  <2>2. SumFunction(credited) = 0 /\ SumFunction(exitedCredits) = 0
    <3>1. /\ DOMAIN credited = Agents /\ \A a \in Agents : credited[a] = 0
          /\ DOMAIN exitedCredits = Agents /\ \A a \in Agents : exitedCredits[a] = 0
      BY <2>1
    <3>2. IsFiniteSet(Agents)
      BY SizesAssumption
    <3> QED BY <3>1, <3>2, SumOfNone
  <2> QED BY <2>1, <2>2 DEF CreditsAddUp
<1>2. IndInv /\ CreditsAddUp /\ [Next]_vars => CreditsAddUp'
  BY CreditsStep
<1> QED BY <1>1, <1>2, Invariance, PTL DEF Spec

-----------------------------------------------------------------------------
(* The junior shares.  An accumulator promises acc / ACC to every unit of weight; what it has     *)
(* promised to all of them is in the book or was paid already, and nobody was paid more than its  *)
(* own part.                                                                                      *)

SharesCovered(weight, acc, debt, free) ==
    /\ acc * SumFunction(weight) <= ACC * (free + SumFunction(debt))
    /\ \A a \in Agents : debt[a] <= (weight[a] * acc) \div ACC

EscapeWeights == [a \in Agents |-> JuniorWeight(a)]

JuniorInv ==
    /\ ~halted => \A a \in Agents : escapeDebtBac[a] = 0 /\ escapeDebtBnb[a] = 0
    /\ halted => /\ SumFunction(EscapeWeights) = escapeTotalWeight
                 /\ SharesCovered(EscapeWeights, accPerWeightBac, escapeDebtBac, buybackBac - owedTotal)
                 /\ SharesCovered(EscapeWeights, accPerWeightBnb, escapeDebtBnb, bnbBalance)

\* Covered shares are payable: what is still due to all agents is in the book.
LEMMA CoveredIsPayable ==
    ASSUME NEW weight \in [Agents -> Nat], NEW acc \in Nat, NEW debt \in [Agents -> Nat], NEW free \in Int,
           SharesCovered(weight, acc, debt, free),
           NEW due, due = [a \in Agents |-> (weight[a] * acc) \div ACC - debt[a]]
    PROVE  /\ SumFunction(due) \in Nat /\ SumFunction(due) <= free
           /\ \A a \in Agents : due[a] \in Nat
<1> DEFINE share == [a \in Agents |-> (weight[a] * acc) \div ACC]
           total == SumFunctionOnSet(weight, Agents)
<1>1. ACC \in Nat \ {0} /\ IsFiniteSet(Agents)
  BY UnitsAssumption, SizesAssumption
<1>2. \A a \in Agents : weight[a] \in Nat /\ debt[a] \in Nat
  OBVIOUS
<1>3. \A a \in Agents : share[a] \in Nat
  <2> SUFFICES ASSUME NEW a \in Agents PROVE (weight[a] * acc) \div ACC \in Nat
    OBVIOUS
  <2>1. weight[a] * acc \in Nat
    BY <1>2, ProductType
  <2> QED BY <1>1, <2>1, DivBounds
<1>4. \A a \in Agents : debt[a] <= share[a]
  BY DEF SharesCovered
<1>5. \A a \in Agents : share[a] = due[a] + debt[a] /\ due[a] \in Nat
  <2> SUFFICES ASSUME NEW a \in Agents PROVE share[a] = due[a] + debt[a] /\ due[a] \in Nat
    OBVIOUS
  <2>1. due[a] = share[a] - debt[a]
    OBVIOUS
  <2> HIDE DEF share
  <2> QED BY <1>2, <1>3, <1>4, <2>1
<1>6. /\ SumFunction(due) = SumFunctionOnSet(due, Agents) /\ SumFunction(debt) = SumFunctionOnSet(debt, Agents)
      /\ SumFunction(weight) = total
  BY DEF SumFunction
<1>7. \A a \in Agents : share[a] = (weight[a] * acc) \div ACC
  OBVIOUS
<1> HIDE DEF share, total
<1>8. total \in Nat
  BY <1>1, <1>2, SumNat DEF total
<1>9. SumFunctionOnSet(share, Agents) <= (total * acc) \div ACC
  <2>1. /\ \A a \in Agents : weight[a] \in Nat
        /\ \A a \in Agents : share[a] \in Int
        /\ \A a \in Agents : share[a] <= (weight[a] * acc) \div ACC
    <3>1. \A a \in Agents : share[a] \in Int
      BY <1>3
    <3>2. ASSUME NEW a \in Agents PROVE share[a] <= (weight[a] * acc) \div ACC
      <4>1. share[a] = (weight[a] * acc) \div ACC /\ share[a] \in Int
        BY <1>7, <3>1
      <4> QED BY ONLY <4>1
    <3> QED BY <1>2, <3>1, <3>2
  <2> QED BY ONLY <1>1, <2>1, acc \in Nat, SumOfShares DEF total
<1>10. /\ SumFunctionOnSet(due, Agents) \in Nat /\ SumFunctionOnSet(debt, Agents) \in Nat
       /\ SumFunctionOnSet(share, Agents) \in Nat
  <2>1. \A a \in Agents : due[a] \in Nat
    BY <1>5
  <2>2. \A a \in Agents : debt[a] \in Nat
    BY <1>2
  <2> QED BY <1>1, <1>3, <2>1, <2>2, SumNat
<1>11. SumFunctionOnSet(share, Agents) = SumFunctionOnSet(due, Agents) + SumFunctionOnSet(debt, Agents)
  <2>1. \A a \in Agents : due[a] \in Int /\ debt[a] \in Int /\ share[a] = due[a] + debt[a]
    BY <1>2, <1>5
  <2> QED BY <1>1, <2>1, SumPlus
<1>12. (total * acc) \div ACC <= free + SumFunctionOnSet(debt, Agents)
  <2> DEFINE held == free + SumFunctionOnSet(debt, Agents)
  <2>1. acc * total <= ACC * held
    BY <1>6 DEF SharesCovered
  <2>2. held \in Int /\ total * acc \in Nat
    BY <1>8, <1>10, ProductType
  <2> HIDE DEF held
  <2>3. held \in Nat
    <3>1. 0 <= ACC * held
      <4>1. acc * total \in Nat /\ ACC * held \in Int
        BY <1>1, <1>8, <2>2, ProductType
      <4> QED BY <2>1, <4>1
    <3>2. held < 0 => ACC * held < 0
      BY <1>1, <2>2
    <3> QED BY <1>1, <2>2, <3>1, <3>2
  <2>4. total * acc <= held * ACC
    BY <1>1, <1>8, <2>1, <2>3
  <2>5. (total * acc) \div ACC <= held
    BY ONLY <1>1, <2>2, <2>3, <2>4, DivAtMost
  <2> QED BY <2>5 DEF held
<1>13. (total * acc) \div ACC \in Nat
  BY <1>1, <1>8, ProductType, DivBounds
<1>14. SumFunctionOnSet(due, Agents) <= free
  BY <1>9, <1>10, <1>11, <1>12, <1>13
<1> QED BY <1>5, <1>6, <1>10, <1>14

\* An inflow into the book, of which every unit of weight gets its share rounded down.
LEMMA CoveredAfterInflow ==
    ASSUME NEW weight \in [Agents -> Nat], NEW acc \in Nat, NEW debt \in [Agents -> Nat], NEW free \in Int,
           SharesCovered(weight, acc, debt, free),
           NEW amount \in Nat, NEW more \in Nat,
           more * SumFunction(weight) <= amount * ACC
    PROVE  SharesCovered(weight, acc + more, debt, free + amount)
<1> DEFINE total == SumFunction(weight)
           paid == SumFunction(debt)
<1>1. ACC \in Nat \ {0} /\ total \in Nat /\ paid \in Nat
  <2>1. IsFiniteSet(Agents) /\ DOMAIN weight = Agents /\ DOMAIN debt = Agents
    BY SizesAssumption
  <2>2. \A a \in Agents : weight[a] \in Nat
    OBVIOUS
  <2>3. \A a \in Agents : debt[a] \in Nat
    OBVIOUS
  <2> QED BY UnitsAssumption, <2>1, <2>2, <2>3, SumNat DEF SumFunction
<1>2. acc * total <= ACC * (free + paid) /\ more * total <= amount * ACC
  BY DEF SharesCovered
<1>3. ASSUME NEW a \in Agents PROVE debt[a] <= (weight[a] * (acc + more)) \div ACC
  <2> DEFINE low == weight[a] * acc
             high == weight[a] * (acc + more)
  <2>1. debt[a] <= low \div ACC /\ debt[a] \in Nat
    BY DEF SharesCovered
  <2>2. low \in Nat /\ high \in Nat /\ low <= high
    <3>1. weight[a] \in Nat /\ acc + more \in Nat
      OBVIOUS
    <3>2. weight[a] * (acc + more) = weight[a] * acc + weight[a] * more
      BY <3>1
    <3>3. weight[a] * acc \in Nat /\ weight[a] * more \in Nat
      BY <3>1, ProductType
    <3> QED BY <3>2, <3>3
  <2> HIDE DEF low, high
  <2>3. low \div ACC <= high \div ACC
    BY <1>1, <2>2, DivMonotone
  <2>4. low \div ACC \in Nat /\ high \div ACC \in Nat
    BY <1>1, <2>2, DivBounds
  <2> QED BY <2>1, <2>3, <2>4 DEF high
<1> HIDE DEF total, paid
<1>4. (acc + more) * total <= ACC * (free + amount + paid)
  <2>1. (acc + more) * total = acc * total + more * total
    BY <1>1
  <2>2. ACC * (free + amount + paid) = ACC * (free + paid) + amount * ACC
    BY <1>1
  <2>3. /\ acc * total \in Nat /\ more * total \in Nat /\ amount * ACC \in Nat
        /\ ACC * (free + paid) \in Int
    BY <1>1, ProductType
  <2> QED BY <1>2, <2>1, <2>2, <2>3
<1> QED BY <1>3, <1>4 DEF SharesCovered, total, paid

\* A payment to one agent, of no more than what is due to it.
LEMMA CoveredAfterPayment ==
    ASSUME NEW weight \in [Agents -> Nat], NEW acc \in Nat, NEW debt \in [Agents -> Nat], NEW free \in Int,
           SharesCovered(weight, acc, debt, free), NEW a \in Agents,
           NEW amount \in Nat, amount <= (weight[a] * acc) \div ACC - debt[a]
    PROVE  SharesCovered(weight, acc, [debt EXCEPT ![a] = @ + amount], free - amount)
<1> DEFINE after == [debt EXCEPT ![a] = debt[a] + amount]
           paid == SumFunction(debt)
<1>1. debt[a] \in Nat /\ debt[a] + amount \in Nat /\ IsFiniteSet(Agents)
  BY SizesAssumption
<1>2. paid \in Nat /\ SumFunction(after) = paid - debt[a] + (debt[a] + amount)
  BY <1>1, SumMoves
<1>3. free - amount + SumFunction(after) = free + paid
  <2> HIDE DEF after, paid
  <2> QED BY <1>1, <1>2
<1>4. ASSUME NEW b \in Agents PROVE after[b] <= (weight[b] * acc) \div ACC
  <2>1. debt[b] <= (weight[b] * acc) \div ACC
    BY DEF SharesCovered
  <2>2. CASE b # a
    BY <2>1, <2>2
  <2>3. CASE b = a
    <3>1. weight[a] * acc \in Nat /\ ACC \in Nat \ {0}
      BY UnitsAssumption, ProductType
    <3>2. (weight[a] * acc) \div ACC \in Nat
      BY <3>1, DivBounds
    <3>3. after[b] = debt[a] + amount
      BY <2>3
    <3> HIDE DEF after
    <3> QED BY <1>1, <2>3, <3>2, <3>3
  <2> QED BY <2>2, <2>3
<1>5. acc * SumFunction(weight) <= ACC * (free - amount + SumFunction(after))
  BY <1>3 DEF SharesCovered
<1> HIDE DEF paid
<1> QED BY <1>4, <1>5 DEF SharesCovered

\* More in the book than before, and the shares as they were.
LEMMA CoveredByMore ==
    ASSUME NEW weight \in [Agents -> Nat], NEW acc \in Nat, NEW debt \in [Agents -> Nat], NEW free \in Int,
           SharesCovered(weight, acc, debt, free), NEW amount \in Nat
    PROVE  SharesCovered(weight, acc, debt, free + amount)
<1>1. SumFunction(weight) \in Nat
  <2>1. IsFiniteSet(Agents) /\ DOMAIN weight = Agents /\ \A a \in Agents : weight[a] \in Nat
    BY SizesAssumption
  <2> QED BY <2>1, SumNat DEF SumFunction
<1>2. 0 * SumFunction(weight) <= amount * ACC
  <2>1. amount * ACC \in Nat
    BY UnitsAssumption, ProductType
  <2> QED BY <1>1, <2>1
<1>3. SharesCovered(weight, acc + 0, debt, free + amount)
  BY <1>2, CoveredAfterInflow
<1>4. acc + 0 = acc
  OBVIOUS
<1> QED BY <1>3, <1>4

\* What an inflow adds to an accumulator is at most its share per unit of weight.
LEMMA JuniorShareBounds ==
    ASSUME ModeOK, halted, NEW amount \in Nat
    PROVE  JuniorShare(amount) \in Nat /\ JuniorShare(amount) * escapeTotalWeight <= amount * ACC
<1>1. JuniorShare(amount) \in Nat
  BY JuniorShareType
<1>2. amount * ACC \in Nat /\ escapeTotalWeight \in Nat
  BY UnitsAssumption, ProductType DEF ModeOK
<1>3. CASE escapeTotalWeight > 0
  <2>1. JuniorShare(amount) = (amount * ACC) \div escapeTotalWeight
    BY <1>3 DEF JuniorShare
  <2>2. ((amount * ACC) \div escapeTotalWeight) * escapeTotalWeight <= amount * ACC
    <3>1. escapeTotalWeight \in Nat \ {0}
      BY <1>2, <1>3
    <3> QED BY <1>2, <3>1, DivBounds
  <2> QED BY <1>1, <2>1, <2>2
<1>4. CASE escapeTotalWeight = 0
  <2>1. JuniorShare(amount) * escapeTotalWeight = 0
    BY <1>1, <1>4
  <2> QED BY <1>1, <1>2, <2>1
<1> QED BY <1>2, <1>3, <1>4

\* After a halt nothing else moves the books the shares are paid from.
LEMMA WhoMovesShares ==
    ASSUME halted, Next
    PROVE  /\ UNCHANGED <<halted, escapeTotalWeight, credited, exitedCredits>>
           /\ \/ UNCHANGED <<accPerWeightBac, accPerWeightBnb, escapeDebtBac, escapeDebtBnb,
                             buybackBac, owedTotal, bnbBalance>>
              \/ \E amount \in BnbAmounts : AcceptRelease(amount)
              \/ SweepUntracked \/ SweepUntrackedBac
              \/ \E output \in BuyOutputs : BuybackEnd(output)
              \/ \E w \in Wallets : ClaimOwedAfterHalt(w) \/ SweepImmatureOwed(w)
              \/ \E a \in Agents : EscapeCollect(a)
<1> USE DEF creditVars, entryVars, exitedVars, debtVars, claimVars, modeVars, haltVars, juniorVars,
            accVars, escapeVars, bnbVars
<1>1. CASE Environment
  BY <1>1 DEF Environment, Tick, AnchorResolves, HaltReasonBecomes, TransferBac, ForceBnb
<1>2. CASE Inflow
  <2>1. ~\E a \in Agents, amount \in LockAmounts : Lock(a, amount)
    BY DEF Lock
  <2>2. ~BuybackSkipped /\ ~\E spend \in 1..MAX_BUYBACK_BNB : BuybackBegin(spend)
    BY DEF BuybackSkipped, BuybackBegin, BuybackDue
  <2>3. UNCHANGED <<halted, escapeTotalWeight, credited, exitedCredits>>
    BY <1>2, <2>1, <2>2 DEF Inflow, AcceptRelease, SweepUntracked, SweepUntrackedBac, BuybackEnd
  <2> QED BY <1>2, <2>1, <2>2, <2>3, Zenon DEF Inflow
<1>3. CASE Payout
  BY <1>3 DEF Payout, ClaimExit, Collect, BurnLocked
<1>4. CASE Settle
  BY <1>4 DEF Settle, SettleSkipped, SettleWithoutDebt, SettleFinal, SettleInOrder
<1>5. CASE Brake
  BY <1>5 DEF Brake, RevokeEpochOwed, Pause, Unpause
<1>6. CASE Escape
  <2>1. ~CheckHaltHalts
    BY DEF CheckHaltHalts, haltDue
  <2>2. CASE ArmEscape \/ CancelEscapeArm \/ CheckHaltArms
    BY <2>2 DEF ArmEscape, CancelEscapeArm, CheckHaltArms, ArmWith
  <2>3. ASSUME NEW w \in Wallets, ClaimOwedAfterHalt(w) \/ SweepImmatureOwed(w)
        PROVE  UNCHANGED <<halted, escapeTotalWeight, credited, exitedCredits>>
    BY <2>3 DEF ClaimOwedAfterHalt, SweepImmatureOwed
  <2>4. ASSUME NEW a \in Agents, EscapeCollect(a)
        PROVE  UNCHANGED <<halted, escapeTotalWeight, credited, exitedCredits>>
    BY <2>4 DEF EscapeCollect
  <2> QED BY <1>6, <2>1, <2>2, <2>3, <2>4, Zenon DEF Escape
<1>7. CASE Owner
  BY <1>7 DEF Owner, EmergencyWithdrawBac, EmergencyWithdrawBnb
<1> QED BY <1>1, <1>2, <1>3, <1>4, <1>5, <1>6, <1>7 DEF Next

\* Until a halt no agent is paid a junior share, and only checkHalt halts.
LEMMA WhoHalts ==
    ASSUME ~halted, Next
    PROVE  UNCHANGED <<halted, escapeDebtBac, escapeDebtBnb>> \/ CheckHaltHalts
<1> USE DEF modeVars, haltVars, juniorVars, escapeVars
<1>1. CASE Environment
  BY <1>1 DEF Environment, Tick, AnchorResolves, HaltReasonBecomes, TransferBac, ForceBnb
<1>2. CASE Inflow
  BY <1>2 DEF Inflow, Lock, AcceptRelease, SweepUntracked, SweepUntrackedBac, BuybackSkipped,
       BuybackBegin, BuybackEnd
<1>3. CASE Payout
  BY <1>3 DEF Payout, ClaimExit, Collect, BurnLocked
<1>4. CASE Settle
  BY <1>4 DEF Settle, SettleSkipped, SettleWithoutDebt, SettleFinal
<1>5. CASE Brake
  BY <1>5 DEF Brake, RevokeEpochOwed, Pause, Unpause
<1>6. CASE Escape
  BY <1>6 DEF Escape, ArmEscape, CancelEscapeArm, CheckHaltArms, ArmWith, ClaimOwedAfterHalt,
       SweepImmatureOwed, EscapeCollect
<1>7. CASE Owner
  BY <1>7 DEF Owner, EmergencyWithdrawBac, EmergencyWithdrawBnb
<1> QED BY <1>1, <1>2, <1>3, <1>4, <1>5, <1>6, <1>7 DEF Next

LEMMA WeightsType ==
    ASSUME AttributionOK
    PROVE  EscapeWeights \in [Agents -> Nat] /\ \A a \in Agents : EscapeWeights[a] = JuniorWeight(a)
<1>1. ASSUME NEW a \in Agents PROVE JuniorWeight(a) \in Nat
  BY DEF AttributionOK, JuniorWeight
<1> QED BY <1>1 DEF EscapeWeights

\* The weights of the agents make up the weight at a halt, exits attributed to nobody included.
LEMMA WeightsAddUp ==
    ASSUME AttributionOK, CreditsOK, CreditsAddUp
    PROVE  SumFunction(EscapeWeights) = weightAtHalt
<1>1. /\ credited \in [Agents -> Nat] /\ exitedCredits \in [Agents -> Nat] /\ IsFiniteSet(Agents)
      /\ EscapeWeights \in [Agents -> Nat] /\ \A a \in Agents : EscapeWeights[a] = credited[a] - exitedCredits[a]
  BY WeightsType, SizesAssumption DEF AttributionOK, JuniorWeight
<1> DEFINE w == EscapeWeights
<1> HIDE DEF w
<1>2. \A a \in Agents : w[a] \in Int /\ exitedCredits[a] \in Int /\ credited[a] = w[a] + exitedCredits[a]
  BY <1>1 DEF w
<1>3. SumFunctionOnSet(credited, Agents) = SumFunctionOnSet(w, Agents) + SumFunctionOnSet(exitedCredits, Agents)
  BY <1>1, <1>2, SumPlus
<1>4. SumFunctionOnSet(w, Agents) \in Int
  <2>1. \A a \in Agents : w[a] \in Int
    BY <1>2
  <2> QED BY <1>1, <2>1, SumInt
<1>5. SumFunctionOnSet(exitedCredits, Agents) \in Int
  <2>1. \A a \in Agents : exitedCredits[a] \in Int
    BY <1>2
  <2> QED BY <1>1, <2>1, SumInt
<1>6. /\ SumFunctionOnSet(credited, Agents) = totalCreditsIssued
      /\ SumFunctionOnSet(exitedCredits, Agents) + unattributedExited = totalCreditsExited
  <2>1. DOMAIN credited = Agents /\ DOMAIN exitedCredits = Agents
    BY <1>1
  <2> QED BY <2>1, Zenon DEF CreditsAddUp, SumFunction
<1>7. SumFunctionOnSet(w, Agents) = totalCreditsIssued - totalCreditsExited + unattributedExited
  BY <1>3, <1>4, <1>5, <1>6 DEF CreditsOK
<1>8. SumFunction(w) = SumFunctionOnSet(w, Agents)
  BY <1>1 DEF SumFunction, w
<1> QED BY <1>7, <1>8 DEF w, weightAtHalt, creditsOutstanding

\* What the halt promises: everything that is not owed, in equal parts per unit of weight.
LEMMA HaltCovers ==
    ASSUME NEW weight \in [Agents -> Nat], NEW free \in Nat, NEW debt \in [Agents -> Nat],
           \A a \in Agents : debt[a] = 0,
           NEW acc, acc = IF SumFunction(weight) = 0 THEN 0 ELSE (free * ACC) \div SumFunction(weight)
    PROVE  SharesCovered(weight, acc, debt, free)
<1> DEFINE total == SumFunction(weight)
<1>1. total \in Nat
  <2>1. IsFiniteSet(Agents) /\ DOMAIN weight = Agents /\ \A a \in Agents : weight[a] \in Nat
    BY SizesAssumption
  <2> QED BY <2>1, SumNat DEF SumFunction
<1>2. SumFunction(debt) = 0
  <2>1. IsFiniteSet(Agents) /\ DOMAIN debt = Agents
    BY SizesAssumption
  <2> QED BY <2>1, SumOfNone
<1>3. free * ACC \in Nat /\ ACC \in Nat \ {0}
  BY UnitsAssumption, ProductType
<1>4. acc = IF total = 0 THEN 0 ELSE (free * ACC) \div total
  OBVIOUS
<1> HIDE DEF total
<1>5. acc \in Nat /\ acc * total <= free * ACC
  <2>1. CASE total = 0
    BY <1>3, <1>4, <2>1
  <2>2. CASE total # 0
    <3>1. /\ (free * ACC) \div total \in Nat
          /\ ((free * ACC) \div total) * total <= free * ACC
      BY <1>1, <1>3, <2>2, DivBounds
    <3>2. acc = (free * ACC) \div total
      BY <1>4, <2>2
    <3> QED BY <3>1, <3>2
  <2> QED BY <2>1, <2>2
<1>6. acc * total <= ACC * (free + 0)
  BY <1>3, <1>5
<1>7. ASSUME NEW a \in Agents PROVE debt[a] <= (weight[a] * acc) \div ACC
  <2>1. weight[a] * acc \in Nat
    BY <1>5, ProductType
  <2>2. (weight[a] * acc) \div ACC \in Nat
    BY <1>3, <2>1, DivBounds
  <2>3. debt[a] = 0
    OBVIOUS
  <2> QED BY <2>2, <2>3
<1> QED BY <1>2, <1>6, <1>7 DEF SharesCovered, total

LEMMA HaltEstablishesShares ==
    ASSUME IndInv, CreditsAddUp, JuniorInv, CheckHaltHalts
    PROVE  JuniorInv'
<1> DEFINE free == buybackBac - owedTotal
           weight == EscapeWeights
<1>1. ~halted /\ free \in Nat /\ bnbBalance \in Nat
  BY DEF CheckHaltHalts, haltDue, IndInv, BackingOK, BudgetOK
<1>2. /\ escapeDebtBac \in [Agents -> Nat] /\ escapeDebtBnb \in [Agents -> Nat]
      /\ \A a \in Agents : escapeDebtBac[a] = 0
      /\ \A a \in Agents : escapeDebtBnb[a] = 0
      /\ weight \in [Agents -> Nat]
  BY <1>1, WeightsType DEF JuniorInv, IndInv, JuniorOK
<1>3. SumFunction(weight) = weightAtHalt
  BY WeightsAddUp DEF IndInv
<1>4. /\ halted' /\ escapeTotalWeight' = weightAtHalt
      /\ accPerWeightBac' = IF weightAtHalt = 0 THEN 0 ELSE (free * ACC) \div weightAtHalt
      /\ accPerWeightBnb' = IF weightAtHalt = 0 THEN 0 ELSE (bnbBalance * ACC) \div weightAtHalt
      /\ UNCHANGED <<credited, exitedCredits, escapeDebtBac, escapeDebtBnb, bnbBalance>>
      /\ buybackBac' - owedTotal' = free
  BY DEF CheckHaltHalts, creditVars, entryVars, exitedVars, claimVars, escapeVars
<1>5. weight' = weight
  BY <1>4 DEF EscapeWeights, JuniorWeight
<1> HIDE DEF free, weight
<1>6. SharesCovered(weight, accPerWeightBac', escapeDebtBac, free)
  BY <1>1, <1>2, <1>3, <1>4, HaltCovers
<1>7. SharesCovered(weight, accPerWeightBnb', escapeDebtBnb, bnbBalance)
  BY <1>1, <1>2, <1>3, <1>4, HaltCovers
<1>8. /\ SharesCovered(EscapeWeights', accPerWeightBac', escapeDebtBac', buybackBac' - owedTotal')
      /\ SharesCovered(EscapeWeights', accPerWeightBnb', escapeDebtBnb', bnbBalance')
  BY <1>4, <1>5, <1>6, <1>7, Zenon DEF weight
<1>9. SumFunction(EscapeWeights') = escapeTotalWeight'
  BY <1>3, <1>4, <1>5, Zenon DEF weight
<1> QED BY <1>4, <1>8, <1>9 DEF JuniorInv, SharesCovered

LEMMA SharesKept ==
    ASSUME JuniorInv, halted, UNCHANGED <<halted, escapeTotalWeight, credited, exitedCredits>>,
           SharesCovered(EscapeWeights, accPerWeightBac', escapeDebtBac', buybackBac' - owedTotal'),
           SharesCovered(EscapeWeights, accPerWeightBnb', escapeDebtBnb', bnbBalance')
    PROVE  JuniorInv'
<1>1. EscapeWeights' = EscapeWeights
  BY DEF EscapeWeights, JuniorWeight
<1>2. /\ SharesCovered(EscapeWeights', accPerWeightBac', escapeDebtBac', buybackBac' - owedTotal')
      /\ SharesCovered(EscapeWeights', accPerWeightBnb', escapeDebtBnb', bnbBalance')
  BY <1>1, Zenon
<1>3. SumFunction(EscapeWeights') = escapeTotalWeight' /\ halted'
  BY <1>1, Zenon DEF JuniorInv
<1> QED BY <1>2, <1>3 DEF JuniorInv, SharesCovered

LEMMA SharesStep ==
    ASSUME IndInv, JuniorInv, halted, Next
    PROVE  JuniorInv'
<1> DEFINE weight == EscapeWeights
           free == buybackBac - owedTotal
           BacKept == UNCHANGED <<accPerWeightBac, escapeDebtBac, buybackBac, owedTotal>>
           BnbKept == UNCHANGED <<accPerWeightBnb, escapeDebtBnb, bnbBalance>>
           BacCovered == SharesCovered(weight, accPerWeightBac', escapeDebtBac', buybackBac' - owedTotal')
           BnbCovered == SharesCovered(weight, accPerWeightBnb', escapeDebtBnb', bnbBalance')
<1> USE DEF debtVars, claimVars, juniorVars, accVars, escapeVars, bnbVars
<1>1. /\ SharesCovered(weight, accPerWeightBac, escapeDebtBac, free)
      /\ SharesCovered(weight, accPerWeightBnb, escapeDebtBnb, bnbBalance)
      /\ SumFunction(weight) = escapeTotalWeight
  BY DEF JuniorInv
<1>2. /\ weight \in [Agents -> Nat] /\ \A a \in Agents : weight[a] = JuniorWeight(a)
      /\ accPerWeightBac \in Nat /\ accPerWeightBnb \in Nat
      /\ escapeDebtBac \in [Agents -> Nat] /\ escapeDebtBnb \in [Agents -> Nat]
      /\ buybackBac \in Nat /\ owedTotal \in Nat /\ free \in Int /\ bnbBalance \in Nat
      /\ bacHeld \in Nat /\ bnbHeld \in Nat
      /\ DepositsOK /\ ModeOK
  BY WeightsType DEF IndInv, JuniorOK, BackingOK, BudgetOK, HeldOK
<1>3. UNCHANGED <<halted, escapeTotalWeight, credited, exitedCredits>>
  BY WhoMovesShares
<1>4. SUFFICES BacCovered /\ BnbCovered
  BY <1>3, SharesKept
<1>5. BacKept => BacCovered
  <2> SUFFICES ASSUME BacKept PROVE BacCovered
    OBVIOUS
  <2> QED BY <1>1, Zenon
<1>6. BnbKept => BnbCovered
  <2> SUFFICES ASSUME BnbKept PROVE BnbCovered
    OBVIOUS
  <2> QED BY <1>1, Zenon
<1> HIDE DEF weight, free
\* An inflow into one of the two books, or a debt that is given up.
<1>7. ASSUME NEW amount \in Nat, escapeDebtBac' = escapeDebtBac,
             accPerWeightBac' = accPerWeightBac + JuniorShare(amount),
             buybackBac' - owedTotal' = free + amount
      PROVE  BacCovered
  <2>1. JuniorShare(amount) \in Nat /\ JuniorShare(amount) * SumFunction(weight) <= amount * ACC
    BY <1>1, <1>2, JuniorShareBounds
  <2>2. SharesCovered(weight, accPerWeightBac + JuniorShare(amount), escapeDebtBac, free + amount)
    BY <1>1, <1>2, <2>1, CoveredAfterInflow
  <2> QED BY <1>7, <2>2, Zenon
<1>8. ASSUME NEW amount \in Nat, escapeDebtBnb' = escapeDebtBnb,
             accPerWeightBnb' = accPerWeightBnb + JuniorShare(amount), bnbBalance' = bnbBalance + amount
      PROVE  BnbCovered
  <2>1. JuniorShare(amount) \in Nat /\ JuniorShare(amount) * SumFunction(weight) <= amount * ACC
    BY <1>1, <1>2, JuniorShareBounds
  <2>2. SharesCovered(weight, accPerWeightBnb + JuniorShare(amount), escapeDebtBnb, bnbBalance + amount)
    BY <1>1, <1>2, <2>1, CoveredAfterInflow
  <2> QED BY <1>8, <2>2, Zenon
<1>9. ASSUME NEW amount \in BnbAmounts, AcceptRelease(amount) PROVE BacCovered /\ BnbCovered
  <2>1. amount \in Nat
    BY InputsAssumption
  <2>2. /\ BacKept /\ escapeDebtBnb' = escapeDebtBnb /\ bnbBalance' = bnbBalance + amount
        /\ accPerWeightBnb' = accPerWeightBnb + JuniorShare(amount)
    BY <1>9 DEF AcceptRelease
  <2> QED BY <1>5, <1>8, <2>1, <2>2
<1>10. ASSUME SweepUntracked PROVE BacCovered /\ BnbCovered
  <2> DEFINE swept == bnbHeld - bnbBalance
  <2>1. swept \in Nat
    BY <1>2, <1>10 DEF SweepUntracked
  <2>2. /\ BacKept /\ escapeDebtBnb' = escapeDebtBnb /\ bnbBalance' = bnbBalance + swept
        /\ accPerWeightBnb' = accPerWeightBnb + JuniorShare(swept)
    BY <1>10 DEF SweepUntracked
  <2> HIDE DEF swept
  <2> QED BY <1>5, <1>8, <2>1, <2>2
<1>11. ASSUME SweepUntrackedBac PROVE BacCovered /\ BnbCovered
  <2> DEFINE swept == bacHeld - bacAccounted
  <2>1. swept \in Nat
    BY <1>2, <1>11 DEF SweepUntrackedBac, bacAccounted, DepositsOK
  <2>2. /\ BnbKept /\ escapeDebtBac' = escapeDebtBac /\ buybackBac' = buybackBac + swept
        /\ owedTotal' = owedTotal /\ accPerWeightBac' = accPerWeightBac + JuniorShare(swept)
    BY <1>11 DEF SweepUntrackedBac
  <2> HIDE DEF swept
  <2>3. buybackBac' - owedTotal' = free + swept
    BY <1>2, <2>1, <2>2 DEF free
  <2> QED BY <1>6, <1>7, <2>1, <2>2, <2>3
<1>12. ASSUME NEW output \in BuyOutputs, BuybackEnd(output) PROVE BacCovered /\ BnbCovered
  <2> DEFINE bought == bacHeld + output - swapBefore
  <2>1. bought \in Nat
    <3>1. output \in Nat
      BY InputsAssumption
    <3>2. swapBefore \in Nat /\ swapBefore <= bacHeld
      BY <1>12 DEF BuybackEnd, IndInv, HeldOK
    <3> QED BY <1>2, <3>1, <3>2
  <2>2. /\ BnbKept /\ UNCHANGED <<accPerWeightBac, escapeDebtBac, owedTotal>>
        /\ buybackBac' = buybackBac + bought
    BY <1>12 DEF BuybackEnd
  <2> HIDE DEF bought
  <2>3. buybackBac' - owedTotal' = free + bought
    BY <1>2, <2>1, <2>2 DEF free
  <2>4. SharesCovered(weight, accPerWeightBac, escapeDebtBac, free + bought)
    BY <1>1, <1>2, <2>1, CoveredByMore
  <2>5. BacCovered
    BY <2>2, <2>3, <2>4, Zenon
  <2> QED BY <1>6, <2>2, <2>5
<1>13. ASSUME NEW w \in Wallets PROVE MaturedOwed(w, MaturityCutoff(haltedAt)) \in 0..owed[w]
  <2>1. MaturityCutoff(haltedAt) \in Times
    BY CutoffType DEF IndInv, ModeOK
  <2> QED BY <2>1, MaturedBounds DEF IndInv
<1>14. ASSUME NEW w \in Wallets, ClaimOwedAfterHalt(w) PROVE BacCovered /\ BnbCovered
  <2> DEFINE paid == IF haltCause \notin {2, 3} /\ now >= haltedAt + OWED_MATURITY THEN owed[w]
                     ELSE MaturedOwed(w, MaturityCutoff(haltedAt))
  <2>1. owed[w] \in Nat
    BY DEF IndInv, DebtsOK
  <2>2. paid \in Nat
    BY <1>13, <2>1
  <2>3. /\ BnbKept /\ UNCHANGED <<accPerWeightBac, escapeDebtBac>>
        /\ buybackBac' = buybackBac - paid /\ owedTotal' = owedTotal - paid
    BY <1>14 DEF ClaimOwedAfterHalt, DebtLess
  <2> HIDE DEF paid
  <2>4. buybackBac' - owedTotal' = free
    BY <1>2, <2>2, <2>3 DEF free
  <2>5. BacCovered
    BY <1>1, <2>3, <2>4, Zenon
  <2> QED BY <1>6, <2>3, <2>5
<1>15. ASSUME NEW w \in Wallets, SweepImmatureOwed(w) PROVE BacCovered /\ BnbCovered
  <2> DEFINE amount == owed[w] - MaturedOwed(w, MaturityCutoff(haltedAt))
  <2>1. amount \in Nat
    <3>1. owed[w] \in Nat
      BY DEF IndInv, DebtsOK
    <3> QED BY <1>13, <3>1
  <2>2. /\ BnbKept /\ escapeDebtBac' = escapeDebtBac /\ buybackBac' = buybackBac
        /\ owedTotal' = owedTotal - amount /\ accPerWeightBac' = accPerWeightBac + JuniorShare(amount)
    BY <1>15 DEF SweepImmatureOwed, DebtLess
  <2> HIDE DEF amount
  <2>3. buybackBac' - owedTotal' = free + amount
    BY <1>2, <2>1, <2>2 DEF free
  <2> QED BY <1>6, <1>7, <2>1, <2>2, <2>3
<1>16. ASSUME NEW a \in Agents, EscapeCollect(a) PROVE BacCovered /\ BnbCovered
  <2> DEFINE bacPaid == IF ExitBacPresent(JuniorBacDue(a)) THEN JuniorBacDue(a) ELSE 0
             bnbPaid == IF bnbHeld >= JuniorBnbDue(a) THEN JuniorBnbDue(a) ELSE 0
  <2>1. JuniorBacDue(a) \in Nat /\ JuniorBnbDue(a) \in Nat
    BY <1>16, JuniorDueType DEF IndInv, EscapeCollect
  <2>2. /\ bacPaid \in Nat /\ bacPaid <= JuniorBacDue(a)
        /\ bnbPaid \in Nat /\ bnbPaid <= JuniorBnbDue(a)
    BY <2>1
  <2>3. /\ escapeDebtBac' = [escapeDebtBac EXCEPT ![a] = @ + bacPaid]
        /\ escapeDebtBnb' = [escapeDebtBnb EXCEPT ![a] = @ + bnbPaid]
        /\ buybackBac' = buybackBac - bacPaid /\ bnbBalance' = bnbBalance - bnbPaid
        /\ UNCHANGED <<owedTotal, accPerWeightBac, accPerWeightBnb>>
    BY <1>16 DEF EscapeCollect
  <2>4. /\ bacPaid <= (weight[a] * accPerWeightBac) \div ACC - escapeDebtBac[a]
        /\ bnbPaid <= (weight[a] * accPerWeightBnb) \div ACC - escapeDebtBnb[a]
    <3>1. weight[a] = JuniorWeight(a)
      BY <1>2
    <3> HIDE DEF bacPaid, bnbPaid
    <3> QED BY <2>2, <3>1 DEF JuniorBacDue, JuniorBnbDue
  <2> HIDE DEF bacPaid, bnbPaid
  <2>5. SharesCovered(weight, accPerWeightBac, [escapeDebtBac EXCEPT ![a] = @ + bacPaid], free - bacPaid)
    BY <1>1, <1>2, <2>2, <2>4, CoveredAfterPayment
  <2>6. SharesCovered(weight, accPerWeightBnb, [escapeDebtBnb EXCEPT ![a] = @ + bnbPaid], bnbBalance - bnbPaid)
    <3>1. /\ weight \in [Agents -> Nat] /\ accPerWeightBnb \in Nat /\ escapeDebtBnb \in [Agents -> Nat]
          /\ bnbBalance \in Int /\ a \in Agents /\ bnbPaid \in Nat
          /\ SharesCovered(weight, accPerWeightBnb, escapeDebtBnb, bnbBalance)
          /\ bnbPaid <= (weight[a] * accPerWeightBnb) \div ACC - escapeDebtBnb[a]
      BY <1>1, <1>2, <2>2, <2>4
    <3> QED BY ONLY <3>1, CoveredAfterPayment
  <2>7. buybackBac' - owedTotal' = free - bacPaid
    BY <1>2, <2>2, <2>3 DEF free
  <2> QED BY <2>3, <2>5, <2>6, <2>7, Zenon
<1>17. ASSUME BacKept, BnbKept PROVE BacCovered /\ BnbCovered
  BY <1>5, <1>6, <1>17
<1> HIDE DEF BacCovered, BnbCovered
<1> QED BY <1>9, <1>10, <1>11, <1>12, <1>14, <1>15, <1>16, <1>17, WhoMovesShares

LEMMA JuniorStep ==
    ASSUME IndInv, CreditsAddUp, JuniorInv, [Next]_vars
    PROVE  JuniorInv'
<1>1. CASE Next /\ halted
  BY <1>1, SharesStep
<1>2. CASE Next /\ ~halted
  <2>1. CASE CheckHaltHalts
    BY <2>1, HaltEstablishesShares
  <2>2. CASE UNCHANGED <<halted, escapeDebtBac, escapeDebtBnb>>
    BY <1>2, <2>2 DEF JuniorInv
  <2> QED BY <1>2, <2>1, <2>2, WhoHalts
<1>3. CASE UNCHANGED vars
  <2>1. UNCHANGED <<halted, escapeTotalWeight, credited, exitedCredits, accPerWeightBac, accPerWeightBnb,
                    escapeDebtBac, escapeDebtBnb, buybackBac, owedTotal, bnbBalance>>
    BY <1>3 DEF vars, creditVars, entryVars, exitedVars, debtVars, claimVars, modeVars, haltVars,
                juniorVars, accVars, escapeVars, bnbVars
  <2>2. CASE halted
    <3>1. /\ SharesCovered(EscapeWeights, accPerWeightBac', escapeDebtBac', buybackBac' - owedTotal')
          /\ SharesCovered(EscapeWeights, accPerWeightBnb', escapeDebtBnb', bnbBalance')
      BY <2>1, <2>2, Zenon DEF JuniorInv
    <3> QED BY <2>1, <2>2, <3>1, SharesKept
  <2>3. CASE ~halted
    BY <2>1, <2>3 DEF JuniorInv
  <2> QED BY <2>2, <2>3
<1> QED BY <1>1, <1>2, <1>3

LEMMA JuniorHolds == Spec => []JuniorInv
<1>1. Init => JuniorInv
  BY DEF Init, JuniorInv
<1>2. IndInv /\ CreditsAddUp /\ JuniorInv /\ [Next]_vars => JuniorInv'
  BY JuniorStep
<1> QED BY <1>1, <1>2, Invariance, CreditsAdd, PTL DEF Spec

\* After a halt every senior debt and every junior share still due is covered by the bucket, exits
\* truncated, debts demoted, inflows and a swap that ends late included, and no share is negative.
THEOREM JuniorBacked == Spec => []JuniorIsBacked
<1>1. IndInv /\ JuniorInv => JuniorIsBacked
  <2> SUFFICES ASSUME IndInv, JuniorInv, halted
               PROVE  /\ owedTotal + SumFunction([a \in Agents |-> JuniorBacDue(a)]) <= buybackBac
                      /\ SumFunction([a \in Agents |-> JuniorBnbDue(a)]) <= bnbBalance
                      /\ \A a \in Agents : JuniorBacDue(a) >= 0 /\ JuniorBnbDue(a) >= 0
    BY DEF JuniorIsBacked
  <2> DEFINE bac == [a \in Agents |-> JuniorBacDue(a)]
             bnb == [a \in Agents |-> JuniorBnbDue(a)]
             weight == EscapeWeights
             free == buybackBac - owedTotal
  <2>1. /\ weight \in [Agents -> Nat] /\ \A a \in Agents : weight[a] = JuniorWeight(a)
        /\ accPerWeightBac \in Nat /\ accPerWeightBnb \in Nat
        /\ escapeDebtBac \in [Agents -> Nat] /\ escapeDebtBnb \in [Agents -> Nat]
        /\ buybackBac \in Nat /\ owedTotal \in Nat /\ free \in Int /\ bnbBalance \in Int
    BY WeightsType DEF IndInv, JuniorOK, BackingOK, BudgetOK
  <2>2. /\ SharesCovered(weight, accPerWeightBac, escapeDebtBac, free)
        /\ SharesCovered(weight, accPerWeightBnb, escapeDebtBnb, bnbBalance)
    BY DEF JuniorInv
  <2>3. bac = [a \in Agents |-> (weight[a] * accPerWeightBac) \div ACC - escapeDebtBac[a]]
    BY <2>1 DEF JuniorBacDue
  <2>4. bnb = [a \in Agents |-> (weight[a] * accPerWeightBnb) \div ACC - escapeDebtBnb[a]]
    BY <2>1 DEF JuniorBnbDue
  <2>5. \A a \in Agents : bac[a] = JuniorBacDue(a) /\ bnb[a] = JuniorBnbDue(a)
    OBVIOUS
  <2> HIDE DEF bac, bnb, weight, free
  <2>6. SumFunction(bac) \in Nat /\ SumFunction(bac) <= free /\ \A a \in Agents : bac[a] \in Nat
    BY <2>1, <2>2, <2>3, CoveredIsPayable
  <2>7. SumFunction(bnb) \in Nat /\ SumFunction(bnb) <= bnbBalance /\ \A a \in Agents : bnb[a] \in Nat
    BY <2>1, <2>2, <2>4, CoveredIsPayable
  <2>8. \A a \in Agents : JuniorBacDue(a) >= 0 /\ JuniorBnbDue(a) >= 0
    BY <2>5, <2>6, <2>7
  <2>9. owedTotal + SumFunction(bac) <= buybackBac
    BY <2>1, <2>6 DEF free
  <2> QED BY <2>7, <2>8, <2>9 DEF bac, bnb
<1> QED BY <1>1, Invariance, JuniorHolds, PTL

\* Every debt and every credit is counted once, and after a halt what is left of both is covered.
THEOREM ClaimsAdd == Spec => []ClaimsAddUp
<1>1. OwedTotalIsTheSum /\ CreditsAddUp /\ JuniorIsBacked => ClaimsAddUp
  BY DEF ClaimsAddUp
<1> QED BY <1>1, DebtsAddUp, CreditsAdd, JuniorBacked, PTL

\* The debt is backed by bought-back BAC and the reservation by debt in every mode, so no checked
\* subtraction of the two ever stops a payment.
THEOREM DebtBacked == Spec => []DebtIsBacked
<1>1. IndInv /\ JuniorIsBacked => DebtIsBacked
  <2> SUFFICES ASSUME IndInv, JuniorIsBacked PROVE DebtIsBacked
    OBVIOUS
  <2>1. owedTotal <= buybackBac
    <3>1. CASE ~halted
      BY <3>1 DEF IndInv, BackingOK
    <3>2. CASE halted
      <4> DEFINE bac == [a \in Agents |-> JuniorBacDue(a)]
      <4>1. owedTotal + SumFunction(bac) <= buybackBac /\ \A a \in Agents : JuniorBacDue(a) >= 0
        BY <3>2 DEF JuniorIsBacked
      <4>2. \A a \in Agents : bac[a] \in Nat
        BY <4>1, JuniorDueType DEF IndInv
      <4>3. DOMAIN bac = Agents /\ IsFiniteSet(Agents)
        BY SizesAssumption
      <4> HIDE DEF bac
      <4>4. SumFunction(bac) \in Nat
        BY <4>2, <4>3, SumNat DEF SumFunction
      <4> QED BY <4>1, <4>4 DEF IndInv, BackingOK
    <3> QED BY <3>1, <3>2
  <2> QED BY <2>1 DEF IndInv, BackingOK, DebtsOK, DebtIsBacked
<1> QED BY <1>1, Invariance, JuniorBacked, PTL

-----------------------------------------------------------------------------
(* Matured debt *)

\* What was ever claimed up to a time is no less than what was claimed up to an earlier one.
HistoryGrows ==
    \A w \in Wallets : \A s, t \in Times : s <= t => claimHistory[w][s] <= claimHistory[w][t]

\* The time a debt's age is measured at.
MaturityClock == IF halted THEN haltedAt ELSE now

Revocation == \E e \in Epochs, holders \in SUBSET Wallets : RevokeEpochOwed(e, holders)

LEMMA WhoMovesMatured ==
    ASSUME IndInv, Next
    PROVE  \/ UNCHANGED <<owed, owedPaid, claimHistory>> /\ MaturityClock' >= MaturityClock
           \/ /\ UNCHANGED <<now, halted, haltedAt>>
              /\ \/ \E x \in Exits : ClaimExit(x)
                 \/ \E w \in Wallets : Collect(w) \/ ClaimOwedAfterHalt(w) \/ SweepImmatureOwed(w)
           \/ Revocation
<1> DEFINE Still == UNCHANGED <<now, halted, haltedAt>>
           Kept == UNCHANGED <<owed, owedPaid, claimHistory>> /\ MaturityClock' >= MaturityClock
<1> USE DEF externalVars, debtVars, claimVars, collectVars, modeVars, haltVars
<1>0. now \in Nat /\ haltedAt \in Nat /\ halted \in BOOLEAN
  BY TimeIsNat DEF IndInv, ClockOK, ModeOK
<1>1. ASSUME UNCHANGED <<now, halted, haltedAt, owed, owedPaid, claimHistory>> PROVE Kept
  BY <1>0, <1>1 DEF MaturityClock
<1> HIDE DEF Kept
<1>2. CASE Environment
  <2>1. CASE Tick
    BY <1>0, <2>1 DEF Tick, MaturityClock, Kept
  <2>2. CASE ~Tick
    <3>1. UNCHANGED <<now, halted, haltedAt, owed, owedPaid, claimHistory>>
      BY <1>2, <2>2 DEF Environment, AnchorResolves, Anchor!Resolve, HaltReasonBecomes, TransferBac, ForceBnb
    <3> QED BY <1>1, <3>1 DEF Kept
  <2> QED BY <2>1, <2>2
<1>3. CASE Inflow
  <2>1. UNCHANGED <<now, halted, haltedAt, owed, owedPaid, claimHistory>>
    BY <1>3 DEF Inflow, Lock, AcceptRelease, SweepUntracked, SweepUntrackedBac, BuybackSkipped,
         BuybackBegin, BuybackEnd
  <2> QED BY <1>1, <2>1 DEF Kept
<1>4. CASE Payout
  <2>1. UNCHANGED <<now, halted, haltedAt>>
    BY <1>4 DEF Payout, ClaimExit, Collect, BurnLocked
  <2>2. CASE BurnLocked
    <3>1. UNCHANGED <<now, halted, haltedAt, owed, owedPaid, claimHistory>>
      BY <2>2 DEF BurnLocked
    <3> QED BY <1>1, <3>1 DEF Kept
  <2> QED BY <1>4, <2>1, <2>2, Zenon DEF Payout
<1>5. CASE Settle
  <2>1. UNCHANGED <<now, halted, haltedAt, owed, owedPaid, claimHistory>>
    BY <1>5 DEF Settle, SettleSkipped, SettleWithoutDebt, SettleFinal
  <2> QED BY <1>1, <2>1 DEF Kept
<1>6. CASE Brake
  <2>1. CASE Pause \/ Unpause
    <3>1. UNCHANGED <<now, halted, haltedAt, owed, owedPaid, claimHistory>>
      BY <2>1 DEF Pause, Unpause
    <3> QED BY <1>1, <3>1 DEF Kept
  <2> QED BY <1>6, <2>1, Zenon DEF Brake, Revocation
<1>7. CASE Escape
  <2>1. CASE ArmEscape \/ CancelEscapeArm \/ CheckHaltArms
    <3>1. UNCHANGED <<now, halted, haltedAt, owed, owedPaid, claimHistory>>
      BY <2>1 DEF ArmEscape, CancelEscapeArm, CheckHaltArms, ArmWith
    <3> QED BY <1>1, <3>1 DEF Kept
  <2>2. CASE CheckHaltHalts
    BY <1>0, <2>2 DEF CheckHaltHalts, haltDue, MaturityClock, Kept
  <2>3. ASSUME NEW a \in Agents, EscapeCollect(a) PROVE Kept
    <3>1. UNCHANGED <<now, halted, haltedAt, owed, owedPaid, claimHistory>>
      BY <2>3 DEF EscapeCollect
    <3> QED BY <1>1, <3>1 DEF Kept
  <2>4. ASSUME NEW w \in Wallets, ClaimOwedAfterHalt(w) \/ SweepImmatureOwed(w)
        PROVE  UNCHANGED <<now, halted, haltedAt>>
    BY <2>4 DEF ClaimOwedAfterHalt, SweepImmatureOwed
  <2> QED BY <1>7, <2>1, <2>2, <2>3, <2>4, Zenon DEF Escape, Kept
<1>8. CASE Owner
  <2>1. UNCHANGED <<now, halted, haltedAt, owed, owedPaid, claimHistory>>
    BY <1>8 DEF Owner, EmergencyWithdrawBac, EmergencyWithdrawBnb
  <2> QED BY <1>1, <2>1 DEF Kept
<1> QED BY <1>2, <1>3, <1>4, <1>5, <1>6, <1>7, <1>8, Zenon DEF Next, Kept

\* What a claim adds to the history.
LEMMA NotedHistory ==
    ASSUME IndInv, NEW x \in Exits, ClaimExit(x)
    PROVE  /\ x.to \in Wallets /\ ExitShare(x.credits) \in Nat
           /\ \A w \in Wallets, t \in Times :
                 claimHistory'[w][t] = claimHistory[w][t]
                    + (IF w = x.to /\ t >= now THEN ExitShare(x.credits) ELSE 0)
<1> DEFINE amount == ExitShare(x.credits)
<1>1. x \in [id : Nat, epoch : Epochs, agent : Agents, to : Wallets, credits : Nat]
  BY InputsAssumption
<1>2. amount \in Nat
  <2>1. ~halted /\ x.credits > 0 /\ creditsOutstanding >= x.credits
    BY DEF ClaimExit
  <2>2. creditsOutstanding \in Int
    BY DEF IndInv, CreditsOK, creditsOutstanding
  <2> QED BY <1>1, <2>1, <2>2, ExitShareBounds
<1>3. claimHistory' = NoteClaim(x.to, amount) /\ claimHistory \in [Wallets -> [Times -> Nat]]
  BY DEF ClaimExit, IndInv, HistoryOK
<1> HIDE DEF amount
<1>4. ASSUME NEW w \in Wallets, NEW t \in Times
      PROVE  claimHistory'[w][t] = claimHistory[w][t] + (IF w = x.to /\ t >= now THEN amount ELSE 0)
  <2>1. claimHistory[w][t] \in Nat
    BY <1>3
  <2>2. claimHistory'[w] = IF w = x.to THEN [s \in Times |-> IF s >= now THEN claimHistory[w][s] + amount
                                                             ELSE claimHistory[w][s]]
                           ELSE claimHistory[w]
    BY <1>1, <1>3 DEF NoteClaim
  <2> QED BY <1>2, <2>1, <2>2
<1> QED BY <1>1, <1>2, <1>4 DEF amount

LEMMA HistoryStep ==
    ASSUME IndInv, HistoryGrows, [Next]_vars
    PROVE  HistoryGrows'
<1>1. CASE UNCHANGED claimHistory
  BY <1>1 DEF HistoryGrows
<1>2. ASSUME NEW x \in Exits, ClaimExit(x) PROVE HistoryGrows'
  <2> SUFFICES ASSUME NEW w \in Wallets, NEW s \in Times, NEW t \in Times, s <= t
               PROVE  claimHistory'[w][s] <= claimHistory'[w][t]
    BY DEF HistoryGrows
  <2> DEFINE plus(r) == IF w = x.to /\ r >= now THEN ExitShare(x.credits) ELSE 0
  <2>1. /\ claimHistory'[w][s] = claimHistory[w][s] + plus(s)
        /\ claimHistory'[w][t] = claimHistory[w][t] + plus(t)
        /\ ExitShare(x.credits) \in Nat
    BY <1>2, NotedHistory
  <2>2. claimHistory[w][s] <= claimHistory[w][t]
    BY DEF HistoryGrows
  <2>3. claimHistory[w][s] \in Nat /\ claimHistory[w][t] \in Nat /\ now \in Nat /\ s \in Nat /\ t \in Nat
    BY TimeIsNat DEF IndInv, HistoryOK, ClockOK
  <2>4. plus(s) \in Nat /\ plus(t) \in Nat /\ plus(s) <= plus(t)
    BY <2>1, <2>3
  <2> HIDE DEF plus
  <2> QED BY <2>1, <2>2, <2>3, <2>4
<1>3. ASSUME NEW w \in Wallets, Collect(w) \/ ClaimOwedAfterHalt(w) \/ SweepImmatureOwed(w)
      PROVE  UNCHANGED claimHistory
  BY <1>3 DEF Collect, ClaimOwedAfterHalt, SweepImmatureOwed
<1>4. CASE Revocation
  BY <1>1, <1>4 DEF Revocation, RevokeEpochOwed
<1>5. CASE UNCHANGED vars
  BY <1>1, <1>5 DEF vars, debtVars, claimVars
<1> QED BY <1>1, <1>2, <1>3, <1>4, <1>5, WhoMovesMatured

LEMMA HistoryHolds == Spec => []HistoryGrows
<1>1. Init => HistoryGrows
  <2> SUFFICES ASSUME Init, NEW w \in Wallets, NEW s \in Times, NEW t \in Times
               PROVE  claimHistory[w][s] <= claimHistory[w][t]
    BY DEF HistoryGrows
  <2>1. claimHistory[w][s] = 0 /\ claimHistory[w][t] = 0
    BY DEF Init
  <2> QED BY <2>1
<1>2. IndInv /\ HistoryGrows /\ [Next]_vars => HistoryGrows'
  BY HistoryStep
<1> QED BY <1>1, <1>2, Invariance, PTL DEF Spec

\* Payments count against the oldest debt, so a payment takes no more from the matured part.
LEMMA MaturedAfter ==
    ASSUME NEW o \in Nat, NEW h \in Nat, NEW p \in Nat, NEW o2 \in Nat, NEW h2 \in Nat, NEW p2 \in Nat,
           p <= p2, h <= h2, o - (p2 - p) <= o2
    PROVE  Least(o2, Greatest(h2 - p2, 0)) >= Least(o, Greatest(h - p, 0)) - (p2 - p)
BY DEF Least, Greatest

MaturedStep ==
    \A w \in Wallets : maturedOwed(w)' >= maturedOwed(w) - (owedPaid'[w] - owedPaid[w])

LEMMA MaturedKeeps ==
    ASSUME IndInv, IndInv', HistoryGrows, Next, ~Revocation
    PROVE  MaturedStep
<1> SUFFICES ASSUME NEW w \in Wallets
             PROVE  maturedOwed(w)' >= maturedOwed(w) - (owedPaid'[w] - owedPaid[w])
  BY DEF MaturedStep
<1> DEFINE c == MaturityCutoff(MaturityClock)
           d == MaturityCutoff(MaturityClock')
           o == owed[w]
           h == claimHistory[w][c]
           p == owedPaid[w]
           o2 == owed'[w]
           h2 == claimHistory'[w][d]
           p2 == owedPaid'[w]
<1>1. /\ maturedOwed(w) = Least(o, Greatest(h - p, 0))
      /\ maturedOwed(w)' = Least(o2, Greatest(h2 - p2, 0))
  BY DEF maturedOwed, MaturedOwed, MaturityCutoff, MaturityClock
<1>2. MaturityClock \in Times /\ MaturityClock' \in Times
  BY DEF IndInv, ClockOK, ModeOK, MaturityClock
<1>3. c \in Times /\ d \in Times /\ (MaturityClock' >= MaturityClock => c <= d)
  <2>1. c \in Times /\ d \in Times
    BY <1>2, CutoffType
  <2>2. ASSUME NEW s \in Nat, NEW t \in Nat, s <= t PROVE MaturityCutoff(s) <= MaturityCutoff(t)
    <3>1. OWED_MATURITY \in Nat
      BY UnitsAssumption
    <3> QED BY <2>2, <3>1 DEF MaturityCutoff, Greatest
  <2>3. MaturityClock \in Nat /\ MaturityClock' \in Nat
    BY <1>2, TimeIsNat
  <2> QED BY <2>1, <2>2, <2>3
<1>4. o \in Nat /\ h \in Nat /\ p \in Nat /\ o2 \in Nat /\ h2 \in Nat /\ p2 \in Nat
  BY <1>3 DEF IndInv, DebtsOK, HistoryOK, CollectOK
<1>5. ASSUME p <= p2, h <= h2, o - (p2 - p) <= o2 PROVE maturedOwed(w)' >= maturedOwed(w) - (p2 - p)
  <2> HIDE DEF o, h, p, o2, h2, p2
  <2>1. Least(o2, Greatest(h2 - p2, 0)) >= Least(o, Greatest(h - p, 0)) - (p2 - p)
    BY ONLY <1>4, <1>5, MaturedAfter
  <2> QED BY <1>1, <2>1
<1>6. c <= d => h <= claimHistory[w][d]
  BY <1>3 DEF HistoryGrows
<1>7. CASE UNCHANGED <<owed, owedPaid, claimHistory>> /\ MaturityClock' >= MaturityClock
  <2>1. o2 = o /\ p2 = p /\ h <= h2
    BY <1>3, <1>6, <1>7
  <2> QED BY <1>4, <1>5, <2>1
<1>8. CASE UNCHANGED <<now, halted, haltedAt>>
  <2>1. d = c
    BY <1>8 DEF MaturityClock
  <2> HIDE DEF c, d
  <2>2. ASSUME NEW x \in Exits, ClaimExit(x) PROVE maturedOwed(w)' >= maturedOwed(w) - (p2 - p)
    <3>1. /\ owed' = [owed EXCEPT ![x.to] = @ + ExitShare(x.credits)]
          /\ owedPaid' = owedPaid /\ ExitShare(x.credits) \in Nat
      BY <2>2, NotedHistory DEF ClaimExit, collectVars
    <3>2. h <= h2
      <4>1. h2 = h + (IF w = x.to /\ c >= now THEN ExitShare(x.credits) ELSE 0)
        BY <1>3, <2>1, <2>2, NotedHistory
      <4> QED BY <1>4, <3>1, <4>1
    <3>3. o <= o2 /\ p2 = p
      BY <1>4, <3>1 DEF IndInv, DebtsOK
    <3> QED BY <1>4, <1>5, <3>2, <3>3
  <2>3. ASSUME NEW v \in Wallets, NEW paid \in 0..owed[v], DebtLess(v, paid), UNCHANGED claimHistory,
               owedPaid' = [owedPaid EXCEPT ![v] = @ + paid]
        PROVE  maturedOwed(w)' >= maturedOwed(w) - (p2 - p)
    <3>1. h2 = h
      BY <2>1, <2>3
    <3>2. p <= p2 /\ o - (p2 - p) <= o2
      <4>1. CASE v = w
        <5>1. o2 = o - paid /\ p2 = p + paid
          BY <2>3, <4>1 DEF DebtLess, IndInv, DebtsOK, CollectOK
        <5> QED BY <1>4, <2>3, <5>1
      <4>2. CASE v # w
        <5>1. o2 = o /\ p2 = p
          BY <2>3, <4>2 DEF DebtLess, IndInv, DebtsOK, CollectOK
        <5> QED BY <1>4, <5>1
      <4> QED BY <4>1, <4>2
    <3> QED BY <1>4, <1>5, <3>1, <3>2
  <2>4. ASSUME NEW v \in Wallets PROVE MaturedOwed(v, MaturityCutoff(haltedAt)) \in 0..owed[v]
    <3>1. MaturityCutoff(haltedAt) \in Times
      BY CutoffType DEF IndInv, ModeOK
    <3> QED BY <3>1, MaturedBounds DEF IndInv
  <2>5. ASSUME NEW v \in Wallets, Collect(v) PROVE maturedOwed(w)' >= maturedOwed(w) - (p2 - p)
    <3>1. Collectable(v) \in 0..owed[v]
      <4>1. lastCollectEpoch[v] < epochNow /\ owed[v] \in Nat
        BY <2>5 DEF Collect, IndInv, DebtsOK
      <4>2. /\ Collectable(v) \in Nat /\ Collectable(v) <= Harvested(v)
            /\ Harvested(v) \in Nat /\ Harvested(v) <= owed[v]
        BY <4>1, CollectableBounds, HarvestBounds DEF IndInv
      <4> QED BY <4>1, <4>2
    <3>2. /\ DebtLess(v, Collectable(v)) /\ UNCHANGED claimHistory
          /\ owedPaid' = [owedPaid EXCEPT ![v] = @ + Collectable(v)]
      BY <2>5 DEF Collect
    <3> QED BY <2>3, <3>1, <3>2
  <2>6. ASSUME NEW v \in Wallets, ClaimOwedAfterHalt(v) PROVE maturedOwed(w)' >= maturedOwed(w) - (p2 - p)
    <3> DEFINE paid == IF haltCause \notin {2, 3} /\ now >= haltedAt + OWED_MATURITY THEN owed[v]
                       ELSE MaturedOwed(v, MaturityCutoff(haltedAt))
    <3>1. paid \in 0..owed[v]
      <4>1. owed[v] \in Nat
        BY DEF IndInv, DebtsOK
      <4> QED BY <2>4, <4>1
    <3>2. /\ DebtLess(v, paid) /\ UNCHANGED claimHistory
          /\ owedPaid' = [owedPaid EXCEPT ![v] = @ + paid]
      BY <2>6 DEF ClaimOwedAfterHalt
    <3> HIDE DEF paid
    <3> QED BY <2>3, <3>1, <3>2
  <2>7. ASSUME NEW v \in Wallets, SweepImmatureOwed(v) PROVE maturedOwed(w)' >= maturedOwed(w) - (p2 - p)
    <3> DEFINE left == MaturedOwed(v, MaturityCutoff(haltedAt))
    <3>1. left \in 0..owed[v] /\ owed[v] \in Nat
      BY <2>4 DEF IndInv, DebtsOK
    <3>2. /\ owed' = [owed EXCEPT ![v] = @ - (owed[v] - left)] /\ owedPaid' = owedPaid
          /\ claimHistory' = claimHistory /\ halted
      BY <2>7 DEF SweepImmatureOwed, DebtLess, collectVars
    <3>3. h2 = h /\ p2 = p
      BY <2>1, <3>2
    <3>4. CASE v = w
      <4>1. left = maturedOwed(w)
        BY <3>2, <3>4 DEF maturedOwed
      <4> HIDE DEF left
      <4>2. o2 = left
        BY <3>1, <3>2, <3>4 DEF IndInv, DebtsOK
      <4> HIDE DEF o, h, p, o2, h2, p2
      <4> QED BY <1>1, <1>4, <3>3, <4>1, <4>2 DEF Least, Greatest
    <3>5. CASE v # w
      <4> HIDE DEF left
      <4>1. o2 = o
        BY <3>2, <3>5 DEF IndInv, DebtsOK
      <4> QED BY <1>4, <1>5, <3>3, <4>1
    <3> QED BY <3>4, <3>5
  <2> QED BY <1>7, <1>8, <2>2, <2>5, <2>6, <2>7, WhoMovesMatured
<1> QED BY <1>7, <1>8, WhoMovesMatured

\* Debt that has matured shrinks only by what is paid, in every step but one that revokes: no exit
\* to the same address, no payment, no halt and no demotion takes it back.
THEOREM MaturedKeptUnlessRevoked == Spec => [][MaturedStep \/ Revocation]_vars
<1>1. IndInv /\ IndInv' /\ HistoryGrows /\ [Next]_vars => [MaturedStep \/ Revocation]_vars
  BY MaturedKeeps
<1> QED BY <1>1, Invariance, HistoryHolds, PTL DEF Spec

\* So when the watchdog does not act, nothing takes matured debt back.
THEOREM MaturedKept ==
    ASSUME "watchdog" \notin Keys
    PROVE  Spec => MaturedOwedNeverTakenBack
<1>1. IndInv /\ IndInv' /\ HistoryGrows /\ [Next]_vars => [MaturedStep]_vars
  BY MaturedKeeps DEF Revocation, RevokeEpochOwed
<1>2. IndInv /\ IndInv' /\ HistoryGrows /\ [Next]_vars
        => [\A w \in Wallets :
               maturedOwed(w)' >= maturedOwed(w) - (owedPaid'[w] - owedPaid[w])]_vars
  BY <1>1 DEF MaturedStep
<1> QED BY <1>2, Invariance, HistoryHolds, PTL DEF Spec, MaturedOwedNeverTakenBack

-----------------------------------------------------------------------------
(* What the pots reserved and what the addresses may collect (B3).  A debt weighs what is left of it at *)
(* the release index; together the weights follow the headroom, the debt no pot has reserved.            *)

Uncollected == [w \in Wallets |-> owed[w] - unclaimed[w]]

HeadroomTracked ==
    ~halted => Tracked(Wallets, Uncollected, releaseSnap, releaseIndex, headroom, harvests, lastSettledEpoch)

\* The range the index was built for: BAC's supply is fixed at RESCALE^3 wei (1e9 tokens of 18 decimals),
\* and RESCALE epochs of ten minutes are 19 000 years.
WithinTheIndex == buybackBac <= Rescales[3] /\ lastSettledEpoch <= RELEASE_RESCALE

LEMMA UncollectedBounds ==
    ASSUME IndInv
    PROVE  /\ Uncollected \in [Wallets -> Nat]
           /\ \A w \in Wallets : /\ Uncollected[w] = owed[w] - unclaimed[w]
                                 /\ InRange(releaseSnap[w]) /\ NotAfter(releaseSnap[w], releaseIndex)
                                 /\ Unreleased(w) = StillUnreleased(Uncollected[w], releaseSnap[w], releaseIndex)
                                 /\ Unreleased(w) \in 0..Uncollected[w]
                                 /\ Harvested(w) = owed[w] - Unreleased(w)
<1>1. ASSUME NEW w \in Wallets
      PROVE  /\ owed[w] - unclaimed[w] \in Nat
             /\ InRange(releaseSnap[w]) /\ NotAfter(releaseSnap[w], releaseIndex)
  BY DEF IndInv, DebtsOK, IndexOK
<1>2. Uncollected \in [Wallets -> Nat]
  BY <1>1 DEF Uncollected
<1>3. ASSUME NEW w \in Wallets PROVE Uncollected[w] = owed[w] - unclaimed[w]
  BY DEF Uncollected
<1>4. ASSUME NEW w \in Wallets
      PROVE  /\ Unreleased(w) = StillUnreleased(Uncollected[w], releaseSnap[w], releaseIndex)
             /\ Unreleased(w) \in 0..Uncollected[w]
             /\ Harvested(w) = owed[w] - Unreleased(w)
  <2>1. Unreleased(w) = StillUnreleased(Uncollected[w], releaseSnap[w], releaseIndex)
    BY <1>3 DEF Unreleased
  <2>2. Uncollected[w] \in Nat /\ InRange(releaseSnap[w]) /\ InRange(releaseIndex)
        /\ NotAfter(releaseSnap[w], releaseIndex)
    BY <1>1, <1>2 DEF IndInv, IndexOK
  <2>3. StillUnreleased(Uncollected[w], releaseSnap[w], releaseIndex) \in 0..Uncollected[w]
    BY ONLY <2>2, UnreleasedIsAPart
  <2> QED BY <2>1, <2>3 DEF Harvested
<1> QED BY <1>1, <1>2, <1>3, <1>4

\* One debt re-based: its snapshot is taken anew and it now has n unreleased.
LEMMA OneAnew ==
    ASSUME IndInv, ~halted, HeadroomTracked, NEW w \in Wallets, NEW n \in Nat, NEW u2, NEW s2,
           u2 = [Uncollected EXCEPT ![w] = n], s2 = [releaseSnap EXCEPT ![w] = releaseIndex],
           NEW H2 \in Nat, H2 = headroom + n - Unreleased(w)
    PROVE  Tracked(Wallets, u2, s2, releaseIndex, H2, harvests + 1, lastSettledEpoch)
<1> PICK W, u, s, g, H, k, l : W = Wallets /\ u = Uncollected /\ s = releaseSnap /\ g = releaseIndex
                               /\ H = headroom /\ k = harvests /\ l = lastSettledEpoch
  OBVIOUS
<1> DEFINE m == StillUnreleased(u[w], s[w], g)
           before == [v \in W |-> IF v = w THEN m ELSE 0]
           after == [v \in W |-> IF v = w THEN n ELSE 0]
<1>1. /\ IsFiniteSet(W) /\ u \in [W -> Nat] /\ InRange(g) /\ w \in W
      /\ \A v \in W : InRange(s[v]) /\ NotAfter(s[v], g)
      /\ H \in Nat /\ k \in Nat /\ l \in Nat /\ m = Unreleased(w) /\ m \in Nat
  BY UncollectedBounds, SizesAssumption
     DEF IndInv, IndexOK, BackingOK, HistoryOK, SettlementOK, headroom
<1>2. Tracked(W, u, s, g, H, k, l)
  BY DEF HeadroomTracked
<1>3. u2 \in [W -> Nat] /\ \A v \in W : IF v \in {w} THEN s2[v] = g ELSE s2[v] = s[v] /\ u2[v] = u[v]
  <2>1. releaseSnap \in [W -> ReleasePoint]
    BY DEF IndInv, IndexOK
  <2> QED BY <1>1, <2>1
<1>4. u2[w] = n /\ H2 = H + n - m
  BY <1>1
<1>5. TakenAnew(W, {w}, u, s, g, u2, s2, before, after)
  <2>1. \A v \in W : /\ before[v] = IF v \in {w} THEN StillUnreleased(u[v], s[v], g) ELSE 0
                    /\ after[v] = IF v \in {w} THEN u2[v] ELSE 0
    BY <1>4
  <2> HIDE DEF before, after, m
  <2> QED BY <1>3, <2>1 DEF TakenAnew
<1>6. SumFunctionOnSet(before, W) = m /\ SumFunctionOnSet(after, W) = n
  <2>1. \A v \in W : before[v] = (IF v = w THEN m ELSE 0) /\ after[v] = IF v = w THEN n ELSE 0
    OBVIOUS
  <2>2. m \in Int /\ n \in Int
    BY <1>1
  <2> HIDE DEF before, after, m
  <2>3. SumFunctionOnSet(before, W) = m
    BY ONLY <1>1, <2>1, <2>2, SumOfOne
  <2>4. SumFunctionOnSet(after, W) = n
    BY ONLY <1>1, <2>1, <2>2, SumOfOne
  <2> QED BY <2>3, <2>4
<1> HIDE DEF before, after, m
<1>7. /\ H2 # 0 => H2 + SumFunctionOnSet(before, W) <= H + SumFunctionOnSet(after, W)
      /\ H + SumFunctionOnSet(after, W) <= H2 + SumFunctionOnSet(before, W)
  BY <1>1, <1>4, <1>6
<1>8. Cardinality({w}) = 1 /\ {w} \in SUBSET W
  BY <1>1, FS_Singleton
<1>9. Tracked(W, u2, s2, g, H2, k + Cardinality({w}), l)
  <2>1. \/ H + SumFunctionOnSet(after, W) <= H2 + SumFunctionOnSet(before, W)
        \/ SumFunctionOnSet(u2, W) <= H2
    BY <1>7
  <2>2. u2 \in [W -> Nat] /\ H2 \in Nat
    BY <1>3
  <2> QED BY ONLY <1>1, <1>2, <1>5, <1>7, <1>8, <2>1, <2>2, TrackedAnew
<1> QED BY <1>8, <1>9

LEMMA WhoMovesReservation ==
    ASSUME Next
    PROVE  \/ UNCHANGED <<owed, owedTotal, unclaimed, releaseSnap, releaseIndex, reservedTotal, harvests,
                          lastSettledEpoch, halted>>
           \/ \E x \in Exits : ClaimExit(x)
           \/ \E w \in Wallets : Collect(w)
           \/ Settle
           \/ \E e \in Epochs, holders \in SUBSET Wallets : RevokeEpochOwed(e, holders)
           \/ halted'
<1> USE DEF debtVars, claimVars, releasedVars, indexVars, modeVars, haltVars
<1>1. CASE Environment
  BY <1>1 DEF Environment, Tick, AnchorResolves, HaltReasonBecomes, TransferBac, ForceBnb
<1>2. CASE Inflow
  BY <1>2 DEF Inflow, Lock, AcceptRelease, SweepUntracked, SweepUntrackedBac, BuybackSkipped,
       BuybackBegin, BuybackEnd
<1>3. CASE Payout
  BY <1>3 DEF Payout, BurnLocked
<1>4. CASE Brake
  BY <1>4 DEF Brake, Pause, Unpause
<1>5. CASE Escape
  BY <1>5 DEF Escape, ArmEscape, CancelEscapeArm, CheckHaltArms, ArmWith, CheckHaltHalts,
       ClaimOwedAfterHalt, SweepImmatureOwed, EscapeCollect
<1>6. CASE Owner
  BY <1>6 DEF Owner, EmergencyWithdrawBac, EmergencyWithdrawBnb
<1> QED BY <1>1, <1>2, <1>3, <1>4, <1>5, <1>6 DEF Next

\* An exit adds its share to the debt and to the headroom.
LEMMA ClaimExitTracked ==
    ASSUME IndInv, HeadroomTracked, NEW x \in Exits, ClaimExit(x)
    PROVE  HeadroomTracked'
<1> PICK w, amount : w = x.to /\ amount = ExitShare(x.credits)
  OBVIOUS
<1>1. w \in Wallets /\ x.credits \in Nat
  BY InputsAssumption
<1>2. /\ ~halted /\ x.credits > 0 /\ creditsOutstanding >= x.credits
      /\ unclaimed' = [unclaimed EXCEPT ![w] = Harvested(w)]
      /\ releaseSnap' = [releaseSnap EXCEPT ![w] = releaseIndex]
      /\ harvests' = harvests + 1
      /\ owed' = [owed EXCEPT ![w] = @ + amount]
      /\ owedTotal' = owedTotal + amount
      /\ UNCHANGED <<reservedTotal, releaseIndex, lastSettledEpoch, halted>>
  BY DEF ClaimExit, indexVars, modeVars, haltVars
<1>3. amount \in Nat
  <2>1. creditsOutstanding \in Int
    BY DEF IndInv, CreditsOK, creditsOutstanding
  <2> QED BY <1>1, <1>2, <2>1, ExitShareBounds
<1>4. /\ owed \in [Wallets -> Nat] /\ unclaimed \in [Wallets -> Nat]
      /\ Unreleased(w) \in Nat /\ Harvested(w) = owed[w] - Unreleased(w)
  BY <1>1, UncollectedBounds DEF IndInv, DebtsOK
<1> PICK n : n = Unreleased(w) + amount
  OBVIOUS
<1>5. n \in Nat
  BY <1>3, <1>4
<1>6. Uncollected' = [Uncollected EXCEPT ![w] = n]
  <2>1. Uncollected' = [v \in Wallets |-> owed'[v] - unclaimed'[v]]
    BY DEF Uncollected
  <2>2. ASSUME NEW v \in Wallets PROVE owed'[v] - unclaimed'[v] = [Uncollected EXCEPT ![w] = n][v]
    <3>1. CASE v = w
      <4>1. owed'[v] = owed[w] + amount /\ unclaimed'[v] = Harvested(w) /\ [Uncollected EXCEPT ![w] = n][v] = n
        BY <1>1, <1>2, <1>4, <3>1 DEF Uncollected
      <4>2. owed[w] \in Nat
        BY <1>1, <1>4
      <4> QED BY <1>3, <1>4, <4>1, <4>2
    <3>2. CASE v # w
      BY <1>2, <1>4, <3>2 DEF Uncollected
    <3> QED BY <3>1, <3>2
  <2>3. [Uncollected EXCEPT ![w] = n] = [v \in Wallets |-> [Uncollected EXCEPT ![w] = n][v]]
    BY DEF Uncollected
  <2> QED BY <2>1, <2>2, <2>3
<1> PICK u2, s2, H2 : u2 = Uncollected' /\ s2 = releaseSnap' /\ H2 = headroom'
  OBVIOUS
<1>7. H2 \in Nat /\ H2 = headroom + n - Unreleased(w)
  <2>1. owedTotal \in Nat /\ reservedTotal \in Nat /\ reservedTotal <= owedTotal
    BY DEF IndInv, BackingOK
  <2>2. H2 = (owedTotal + amount) - reservedTotal
    BY <1>2 DEF headroom
  <2> QED BY <1>3, <1>4, <2>1, <2>2 DEF headroom
<1>8. Tracked(Wallets, u2, s2, releaseIndex, H2, harvests + 1, lastSettledEpoch)
  BY <1>1, <1>2, <1>5, <1>6, <1>7, OneAnew
<1> QED BY <1>2, <1>8 DEF HeadroomTracked

\* A payment takes what was reserved from the debt: the headroom stays, and so does what is unreleased.
LEMMA CollectTracked ==
    ASSUME IndInv, HeadroomTracked, NEW w \in Wallets, Collect(w)
    PROVE  HeadroomTracked'
<1> PICK paid : paid = Collectable(w)
  OBVIOUS
<1>1. /\ ~halted /\ lastCollectEpoch[w] < epochNow
      /\ unclaimed' = [unclaimed EXCEPT ![w] = Harvested(w) - paid]
      /\ releaseSnap' = [releaseSnap EXCEPT ![w] = releaseIndex]
      /\ harvests' = harvests + 1
      /\ owed' = [owed EXCEPT ![w] = @ - paid]
      /\ owedTotal' = owedTotal - paid
      /\ reservedTotal' = reservedTotal - paid
      /\ UNCHANGED <<releaseIndex, lastSettledEpoch, halted>>
  BY DEF Collect, DebtLess, indexVars, modeVars, haltVars
<1>2. paid \in Nat
  BY <1>1, CollectableBounds
<1>3. /\ owed \in [Wallets -> Nat] /\ unclaimed \in [Wallets -> Nat]
      /\ Unreleased(w) \in Nat /\ Harvested(w) = owed[w] - Unreleased(w)
  BY UncollectedBounds DEF IndInv, DebtsOK
<1> PICK n : n = Unreleased(w)
  OBVIOUS
<1>4. Uncollected' = [Uncollected EXCEPT ![w] = n]
  <2>1. Uncollected' = [v \in Wallets |-> owed'[v] - unclaimed'[v]]
    BY DEF Uncollected
  <2>2. ASSUME NEW v \in Wallets PROVE owed'[v] - unclaimed'[v] = [Uncollected EXCEPT ![w] = n][v]
    <3>1. CASE v = w
      <4>1. owed'[v] = owed[w] - paid /\ unclaimed'[v] = Harvested(w) - paid /\ [Uncollected EXCEPT ![w] = n][v] = n
        BY <1>1, <1>3, <3>1 DEF Uncollected
      <4>2. owed[w] \in Nat
        BY <1>3
      <4> QED BY <1>2, <1>3, <4>1, <4>2
    <3>2. CASE v # w
      BY <1>1, <1>3, <3>2 DEF Uncollected
    <3> QED BY <3>1, <3>2
  <2>3. [Uncollected EXCEPT ![w] = n] = [v \in Wallets |-> [Uncollected EXCEPT ![w] = n][v]]
    BY DEF Uncollected
  <2> QED BY <2>1, <2>2, <2>3
<1> PICK u2, s2, H2 : u2 = Uncollected' /\ s2 = releaseSnap' /\ H2 = headroom'
  OBVIOUS
<1>5. H2 \in Nat /\ H2 = headroom + n - Unreleased(w)
  <2>1. owedTotal \in Nat /\ reservedTotal \in Nat /\ reservedTotal <= owedTotal
    BY DEF IndInv, BackingOK
  <2>2. H2 = (owedTotal - paid) - (reservedTotal - paid)
    BY <1>1 DEF headroom
  <2> QED BY <1>2, <1>3, <2>1, <2>2 DEF headroom
<1>6. Tracked(Wallets, u2, s2, releaseIndex, H2, harvests + 1, lastSettledEpoch)
  <2>1. n \in Nat
    BY <1>3
  <2> QED BY <1>1, <1>4, <1>5, <2>1, OneAnew
<1> QED BY <1>1, <1>6 DEF HeadroomTracked

\* A pot moves the index and the headroom together; an epoch without one leaves both.
LEMMA SettleTracked ==
    ASSUME IndInv, OwedTotalIsTheSum, WithinTheIndex, HeadroomTracked, Settle
    PROVE  HeadroomTracked'
<1> PICK W, u, s, g, H, k, l : W = Wallets /\ u = Uncollected /\ s = releaseSnap /\ g = releaseIndex
                               /\ H = headroom /\ k = harvests /\ l = lastSettledEpoch
  OBVIOUS
<1>1. PICK e \in Epochs : \/ SettleSkipped(e) \/ SettleWithoutDebt(e)
                          \/ \E bps \in BpsTiers : SettleFinal(e, bps)
  BY DEF Settle
<1>2. /\ ~halted /\ lastSettledEpoch' = l + 1
      /\ UNCHANGED <<owed, owedTotal, unclaimed, releaseSnap, harvests, halted>>
  BY <1>1 DEF SettleSkipped, SettleWithoutDebt, SettleFinal, SettleInOrder, debtVars, claimVars,
              releasedVars, modeVars, haltVars
<1>3. /\ IsFiniteSet(W) /\ InRange(g) /\ H \in Nat /\ k \in Nat /\ l \in Nat
      /\ owedTotal \in Nat /\ reservedTotal \in Nat /\ reservedTotal <= owedTotal
  BY SizesAssumption DEF IndInv, IndexOK, BackingOK, HistoryOK, SettlementOK, headroom
<1>4. Tracked(W, u, s, g, H, k, l)
  BY <1>2 DEF HeadroomTracked
<1>5. Uncollected' = u
  BY <1>2 DEF Uncollected
<1>6. CASE SettleSkipped(e) \/ SettleWithoutDebt(e)
  <2>1. releaseIndex' = g
    BY <1>6 DEF SettleSkipped, SettleWithoutDebt
  <2>2. headroom' = H
    BY <1>2, <1>3, <1>6 DEF SettleSkipped, SettleWithoutDebt, debtVars, releasedVars, headroom
  <2>3. Tracked(W, u, s, g, H, k, l + 1)
    BY <1>3, <1>4, TrackedLonger
  <2> QED BY <1>2, <1>5, <2>1, <2>2, <2>3 DEF HeadroomTracked
<1>7. ASSUME NEW bps \in BpsTiers, SettleFinal(e, bps) PROVE HeadroomTracked'
  <2> PICK pot : pot = Pot(e, bps)
    OBVIOUS
  <2>1. pot \in 0..H
    BY <1>2, PotBounds
  <2>2. /\ releaseIndex' = IF pot = 0 THEN g ELSE AdvanceRelease(g, pot, H)
        /\ reservedTotal' = reservedTotal + pot
    BY <1>7 DEF SettleFinal
  <2>3. headroom' = H - pot
    BY <1>2, <1>3, <2>1, <2>2 DEF headroom
  <2>4. CASE pot = 0
    <3>1. Tracked(W, u, s, g, H, k, l + 1)
      BY <1>3, <1>4, TrackedLonger
    <3>2. releaseIndex' = g /\ headroom' = H
      BY <1>3, <2>2, <2>3, <2>4
    <3> QED BY <1>2, <1>5, <3>1, <3>2 DEF HeadroomTracked
  <2>5. CASE pot # 0
    <3>1. H \in Nat \ {0} /\ pot \in 1..H
      BY <1>3, <2>1, <2>5
    <3>2. Rescales[3] \in Nat /\ owedTotal <= Rescales[3]
      <4>1. Rescales[3] \in Nat /\ owedTotal <= buybackBac /\ buybackBac \in Nat
        BY <1>2, RescalesPowers DEF IndInv, BackingOK
      <4> QED BY <1>3, <4>1 DEF WithinTheIndex
    <3>3. H <= Rescales[3]
      BY <1>3, <3>2 DEF headroom
    <3>4. ASSUME NEW w \in W
          PROVE  u[w] \in Nat /\ u[w] <= Rescales[3] /\ InRange(s[w]) /\ NotAfter(s[w], g)
      <4>1. u[w] \in Nat /\ u[w] = owed[w] - unclaimed[w] /\ InRange(s[w]) /\ NotAfter(s[w], g)
        BY UncollectedBounds
      <4>2. owed[w] \in Nat /\ unclaimed[w] \in Nat
        BY DEF IndInv, DebtsOK
      <4>3. owed[w] <= owedTotal
        <5>1. owed \in [Wallets -> Nat]
          BY DEF IndInv, DebtsOK
        <5>2. owed[w] <= SumFunction(owed)
          BY <1>3, <5>1, SumMoves
        <5> QED BY <5>2 DEF OwedTotalIsTheSum
      <4> QED BY <1>3, <3>2, <4>1, <4>2, <4>3
    <3>5. Tracked(W, u, s, AdvanceRelease(g, pot, H), H - pot, k, l + 1)
      BY <1>3, <1>4, <3>1, <3>3, <3>4, TrackedPot
    <3>6. releaseIndex' = AdvanceRelease(g, pot, H)
      BY <2>2, <2>5
    <3> QED BY <1>2, <1>5, <2>3, <3>5, <3>6 DEF HeadroomTracked
  <2> QED BY <2>4, <2>5
<1> QED BY <1>1, <1>6, <1>7

\* A revocation takes unreleased debt first: what it takes of it leaves the headroom, and what it takes of
\* released debt leaves the reservation, as far as there is one.
LEMMA RevokeTracked ==
    ASSUME IndInv, IndInv', OwedTotalIsTheSum', HeadroomTracked,
           NEW e \in Epochs, NEW holders \in SUBSET Wallets, RevokeEpochOwed(e, holders)
    PROVE  HeadroomTracked'
<1> PICK W, u, s, g, H, k, l : W = Wallets /\ u = Uncollected /\ s = releaseSnap /\ g = releaseIndex
                               /\ H = headroom /\ k = harvests /\ l = lastSettledEpoch
  OBVIOUS
<1> DEFINE r == [w \in Wallets |-> RevokedFrom(e, w)]
           d == [w \in Wallets |-> DroppedBy(e, w)]
<1> PICK hit : hit = {w \in holders : RevokedFrom(e, w) > 0}
  OBVIOUS
<1>1. /\ ~halted
      /\ owed' = [w \in Wallets |-> IF w \in hit THEN owed[w] - RevokedFrom(e, w) ELSE owed[w]]
      /\ unclaimed' = [w \in Wallets |->
                          IF w \in hit THEN Least(Harvested(w), owed[w] - RevokedFrom(e, w))
                          ELSE unclaimed[w]]
      /\ releaseSnap' = [w \in Wallets |-> IF w \in hit THEN releaseIndex ELSE releaseSnap[w]]
      /\ harvests' = harvests + Cardinality(hit)
      /\ UNCHANGED <<releaseIndex, lastSettledEpoch, halted>>
  BY DEF RevokeEpochOwed, indexVars, modeVars, haltVars
<1>2. PICK revoked \in 0..owedTotal, dropped \in 0..owedTotal :
         /\ revoked = SumFunctionOnSet(r, holders)
         /\ dropped = SumFunctionOnSet(d, holders)
         /\ owedTotal' = owedTotal - revoked
         /\ reservedTotal' = Least(Greatest(reservedTotal - dropped, 0), owedTotal - revoked)
  BY DEF RevokeEpochOwed
<1>3. /\ IsFiniteSet(W) /\ InRange(g) /\ H \in Nat /\ k \in Nat /\ l \in Nat /\ u \in [W -> Nat]
      /\ \A w \in W : InRange(s[w]) /\ NotAfter(s[w], g)
      /\ owedTotal \in Nat /\ reservedTotal \in Nat /\ reservedTotal <= owedTotal
      /\ hit \in SUBSET W /\ holders \in SUBSET W
  BY SizesAssumption, UncollectedBounds
     DEF IndInv, IndexOK, BackingOK, HistoryOK, SettlementOK, headroom
<1>4. Tracked(W, u, s, g, H, k, l)
  BY <1>1 DEF HeadroomTracked
<1> PICK u2, s2, H2 : u2 = Uncollected' /\ s2 = releaseSnap' /\ H2 = headroom'
  OBVIOUS
<1> DEFINE before == [w \in W |-> IF w \in hit THEN StillUnreleased(u[w], s[w], g) ELSE 0]
           after == [w \in W |-> IF w \in hit THEN u2[w] ELSE 0]
           tr == [w \in W |-> IF w \in holders THEN r[w] ELSE 0]
           td == [w \in W |-> IF w \in holders THEN d[w] ELSE 0]
           S(f) == SumFunctionOnSet(f, W)
<1>5. ASSUME NEW w \in W
      PROVE  /\ owed[w] \in Nat /\ unclaimed[w] \in Nat /\ RevokedFrom(e, w) \in 0..owed[w]
             /\ Harvested(w) \in 0..owed[w] /\ u[w] = owed[w] - unclaimed[w]
             /\ StillUnreleased(u[w], s[w], g) = owed[w] - Harvested(w)
             /\ DroppedBy(e, w) \in Nat
  <2>1. owed[w] \in Nat /\ unclaimed[w] \in Nat /\ RevokedFrom(e, w) \in 0..owed[w]
    BY RevokedBounds DEF IndInv, DebtsOK
  <2>2. Harvested(w) \in 0..owed[w]
    BY <2>1, HarvestBounds DEF IndInv
  <2>3. /\ u[w] = owed[w] - unclaimed[w] /\ Harvested(w) = owed[w] - Unreleased(w)
        /\ Unreleased(w) = StillUnreleased(u[w], s[w], g) /\ Unreleased(w) \in Int
    BY UncollectedBounds
  <2>4. DroppedBy(e, w) \in Nat
    BY <2>1, <2>2 DEF DroppedBy, Greatest
  <2> QED BY <2>1, <2>2, <2>3, <2>4
<1>6. u2 \in [W -> Nat] /\ H2 \in Nat
      /\ \A w \in W : u2[w] = owed'[w] - unclaimed'[w] /\ owed'[w] \in Nat /\ unclaimed'[w] \in Nat
  <2>1. u2 = [w \in W |-> owed'[w] - unclaimed'[w]]
    BY DEF Uncollected
  <2>2. /\ owed' \in [W -> Nat] /\ unclaimed' \in [W -> Nat]
        /\ \A w \in W : unclaimed'[w] <= owed'[w]
        /\ owedTotal' \in Nat /\ reservedTotal' \in Nat /\ reservedTotal' <= owedTotal'
    BY DEF IndInv, DebtsOK, BackingOK
  <2>3. ASSUME NEW w \in W PROVE owed'[w] - unclaimed'[w] \in Nat
    BY <2>2
  <2>4. H2 \in Nat
    <3> PICK a, b : a = owedTotal' /\ b = reservedTotal'
      OBVIOUS
    <3>1. H2 = a - b
      BY DEF headroom
    <3>2. a \in Nat /\ b \in Nat /\ b <= a
      BY <2>2
    <3> QED BY ONLY <3>1, <3>2
  <2> QED BY <2>1, <2>2, <2>3, <2>4
<1>7. ASSUME NEW w \in W
      PROVE  /\ before[w] \in Nat /\ after[w] \in Nat /\ tr[w] \in Nat /\ td[w] \in Nat
             /\ before[w] + td[w] = after[w] + tr[w]
  <2>1. /\ before[w] = IF w \in hit THEN StillUnreleased(u[w], s[w], g) ELSE 0
        /\ after[w] = IF w \in hit THEN u2[w] ELSE 0
        /\ tr[w] = IF w \in holders THEN RevokedFrom(e, w) ELSE 0
        /\ td[w] = IF w \in holders THEN DroppedBy(e, w) ELSE 0
    OBVIOUS
  <2>2. w \in hit <=> w \in holders /\ RevokedFrom(e, w) > 0
    OBVIOUS
  <2> HIDE DEF before, after, tr, td, r, d
  <2>3. CASE w \in hit
    <3> DEFINE rv == RevokedFrom(e, w)
               hv == Harvested(w)
    <3>1. before[w] = owed[w] - hv /\ tr[w] = rv /\ td[w] = DroppedBy(e, w)
      BY <1>5, <2>1, <2>2, <2>3
    <3>2. DroppedBy(e, w) = Greatest(hv - (owed[w] - rv), 0)
      <4>1. rv # 0
        BY <1>5, <2>2, <2>3
      <4> QED BY <4>1 DEF DroppedBy
    <3>3. after[w] = u2[w] /\ u2[w] = (owed[w] - rv) - Least(hv, owed[w] - rv)
      BY <1>1, <1>6, <2>1, <2>3
    <3>4. owed[w] \in Nat /\ rv \in 0..owed[w] /\ hv \in 0..owed[w]
      BY <1>5
    <3> HIDE DEF rv, hv
    <3> QED BY <3>1, <3>2, <3>3, <3>4 DEF Least, Greatest
  <2>4. CASE w \notin hit
    <3>1. before[w] = 0 /\ after[w] = 0
      BY <2>1, <2>4
    <3>2. tr[w] = 0 /\ td[w] = 0
      <4>1. CASE w \in holders
        <5>1. RevokedFrom(e, w) = 0
          BY <1>5, <2>2, <2>4, <4>1
        <5>2. DroppedBy(e, w) = 0
          BY <5>1 DEF DroppedBy
        <5> QED BY <2>1, <5>1, <5>2
      <4>2. CASE w \notin holders
        BY <2>1, <4>2
      <4> QED BY <4>1, <4>2
    <3> QED BY <3>1, <3>2
  <2> QED BY <2>3, <2>4
<1>8. revoked = S(tr) /\ dropped = S(td)
  <2>1. \A w \in W : r[w] \in Int /\ d[w] \in Int
    BY <1>5
  <2> HIDE DEF r, d
  <2>2. SumFunctionOnSet(r, holders) = S(tr)
    BY <1>3, <2>1, SumOfPart
  <2>3. SumFunctionOnSet(d, holders) = S(td)
    BY <1>3, <2>1, SumOfPart
  <2> QED BY <1>2, <2>2, <2>3
<1>9. TakenAnew(W, hit, u, s, g, u2, s2, before, after)
  <2>1. ASSUME NEW w \in W, w \notin hit PROVE s2[w] = s[w] /\ u2[w] = u[w]
    BY <1>1, <1>5, <1>6, <2>1
  <2>2. ASSUME NEW w \in W, w \in hit PROVE s2[w] = g
    BY <1>1, <2>2
  <2>3. \A w \in W : /\ before[w] = IF w \in hit THEN StillUnreleased(u[w], s[w], g) ELSE 0
                     /\ after[w] = IF w \in hit THEN u2[w] ELSE 0
    OBVIOUS
  <2> HIDE DEF before, after
  <2> QED BY <2>1, <2>2, <2>3 DEF TakenAnew
<1> HIDE DEF before, after, tr, td, r, d
<1>10. S(before) + dropped = S(after) + revoked /\ S(before) \in Nat /\ S(after) \in Nat
  <2> DEFINE both == [w \in W |-> before[w] + td[w]]
  <2>1. \A w \in W : /\ before[w] \in Int /\ after[w] \in Int /\ tr[w] \in Int /\ td[w] \in Int
                     /\ both[w] = before[w] + td[w] /\ both[w] = after[w] + tr[w]
    BY <1>7
  <2> HIDE DEF both
  <2>2. S(both) = S(before) + S(td)
    BY ONLY <1>3, <2>1, SumPlus
  <2>3. S(both) = S(after) + S(tr)
    BY ONLY <1>3, <2>1, SumPlus
  <2>4. S(before) \in Nat /\ S(after) \in Nat
    BY ONLY <1>3, <1>7, SumNat
  <2> QED BY <1>8, <2>2, <2>3, <2>4
<1>11. H2 = (owedTotal - revoked) - Least(Greatest(reservedTotal - dropped, 0), owedTotal - revoked)
       /\ H = owedTotal - reservedTotal
  BY <1>2 DEF headroom
<1>12. S(u2) <= owedTotal - revoked
  <2>1. \A w \in W : u2[w] \in Int /\ owed'[w] \in Int /\ u2[w] <= owed'[w]
    BY <1>6
  <2>2. S(u2) <= SumFunctionOnSet(owed', W)
    BY ONLY <1>3, <2>1, SumMonotone
  <2>3. DOMAIN owed' = W
    BY <1>1
  <2>4. owedTotal' = SumFunctionOnSet(owed', W)
    BY <2>3 DEF OwedTotalIsTheSum, SumFunction
  <2> QED BY <1>2, <2>2, <2>4
<1>13. /\ H + S(after) <= H2 + S(before) \/ S(u2) <= H2
       /\ H2 # 0 => H2 + S(before) <= H + S(after)
  <2> PICK B, N, U : B = S(before) /\ N = S(after) /\ U = S(u2)
    OBVIOUS
  <2>1. B + dropped = N + revoked /\ B \in Nat /\ N \in Nat /\ U <= owedTotal - revoked
    BY <1>10, <1>12
  <2>2. CASE reservedTotal < dropped
    <3>1. H2 = owedTotal - revoked
      BY <1>2, <1>3, <1>11, <2>2 DEF Least, Greatest
    <3> QED BY <1>2, <1>3, <1>11, <2>1, <2>2, <3>1
  <2>3. CASE dropped <= reservedTotal /\ reservedTotal - dropped <= owedTotal - revoked
    <3>1. H2 = (owedTotal - revoked) - (reservedTotal - dropped)
      BY <1>2, <1>3, <1>11, <2>3 DEF Least, Greatest
    <3> QED BY <1>2, <1>3, <1>11, <2>1, <3>1
  <2>4. CASE dropped <= reservedTotal /\ reservedTotal - dropped > owedTotal - revoked
    <3>1. H2 = 0
      BY <1>2, <1>3, <1>11, <2>4 DEF Least, Greatest
    <3> QED BY <1>2, <1>3, <1>11, <2>1, <2>4, <3>1
  <2> QED BY <1>2, <1>3, <2>2, <2>3, <2>4
<1> PICK k2 : k2 = harvests'
  OBVIOUS
<1>14. k2 = k + Cardinality(hit)
  BY <1>1
<1>15. Tracked(W, u2, s2, g, H2, k2, l)
  BY ONLY <1>3, <1>4, <1>6, <1>9, <1>13, <1>14, TrackedAnew
<1> QED BY <1>1, <1>15 DEF HeadroomTracked

LEMMA HeadroomStep ==
    ASSUME IndInv, IndInv', OwedTotalIsTheSum, OwedTotalIsTheSum', WithinTheIndex, HeadroomTracked, [Next]_vars
    PROVE  HeadroomTracked'
<1>1. CASE UNCHANGED <<owed, owedTotal, unclaimed, releaseSnap, releaseIndex, reservedTotal, harvests,
                       lastSettledEpoch, halted>>
  <2>1. Uncollected' = Uncollected /\ headroom' = headroom
    BY <1>1 DEF Uncollected, headroom
  <2> QED BY <1>1, <2>1 DEF HeadroomTracked
<1>2. CASE halted'
  BY <1>2 DEF HeadroomTracked
<1>3. CASE UNCHANGED vars
  BY <1>1, <1>3 DEF vars, debtVars, claimVars, releasedVars, indexVars, modeVars, haltVars
<1> QED BY <1>1, <1>2, <1>3, WhoMovesReservation, ClaimExitTracked, CollectTracked, SettleTracked, RevokeTracked

\* What the pots reserved is what the addresses may collect.
LEMMA TrackedMatches ==
    ASSUME IndInv, OwedTotalIsTheSum, WithinTheIndex, HeadroomTracked
    PROVE  ReservedMatchesClaims
<1> SUFFICES ASSUME ~halted
             PROVE  /\ reservedTotal <= ClaimsReleased
                    /\ ClaimsReleased <= reservedTotal + harvests + Cardinality(Wallets)
  BY DEF ReservedMatchesClaims
<1> PICK W, u, s, g, H, k, l : W = Wallets /\ u = Uncollected /\ s = releaseSnap /\ g = releaseIndex
                               /\ H = headroom /\ k = harvests /\ l = lastSettledEpoch
  OBVIOUS
<1> DEFINE n == [w \in W |-> StillUnreleased(u[w], s[w], g)]
           harvested == [w \in Wallets |-> Harvested(w)]
           S(f) == SumFunctionOnSet(f, W)
<1>1. /\ IsFiniteSet(W) /\ InRange(g) /\ H \in Nat /\ k \in Nat /\ l \in 0..RELEASE_RESCALE
      /\ owedTotal \in Nat /\ reservedTotal \in Nat /\ H = owedTotal - reservedTotal
  BY SizesAssumption, RescaleAssumption
     DEF IndInv, IndexOK, BackingOK, HistoryOK, SettlementOK, headroom, WithinTheIndex
<1>2. \A w \in W : u[w] \in Nat /\ InRange(s[w]) /\ NotAfter(s[w], g)
  BY UncollectedBounds
<1>3. Tracked(W, u, s, g, H, k, l)
  BY DEF HeadroomTracked
<1>4. \A w \in W : n[w] = StillUnreleased(u[w], s[w], g)
  OBVIOUS
<1>5. \A w \in W : /\ n[w] \in Int /\ owed[w] \in Int /\ harvested[w] \in Int
                   /\ owed[w] = n[w] + harvested[w]
  <2> SUFFICES ASSUME NEW w \in W
               PROVE  /\ n[w] \in Int /\ owed[w] \in Int /\ harvested[w] \in Int
                      /\ owed[w] = n[w] + harvested[w]
    OBVIOUS
  <2>1. owed[w] \in Nat
    BY DEF IndInv, DebtsOK
  <2>2. n[w] = Unreleased(w) /\ Unreleased(w) \in Int /\ harvested[w] = owed[w] - Unreleased(w)
    BY UncollectedBounds
  <2> QED BY <2>1, <2>2
<1>6. S(n) <= H /\ (W # {} => H <= S(n) + k + Cardinality(W))
  <2> HIDE DEF n
  <2> QED BY ONLY <1>1, <1>2, <1>3, <1>4, TrackedUnreleased
<1>7. ClaimsReleased = S(harvested) /\ owedTotal = S(owed)
  <2>1. DOMAIN owed = W
    BY DEF IndInv, DebtsOK
  <2> QED BY <2>1 DEF ClaimsReleased, OwedTotalIsTheSum, SumFunction
<1> HIDE DEF n, harvested
<1>8. S(owed) = S(n) + S(harvested)
  BY ONLY <1>1, <1>5, SumPlus
<1>9. S(n) \in Int
  BY ONLY <1>1, <1>5, SumInt
<1>10. S(harvested) \in Int
  BY ONLY <1>1, <1>5, SumInt
<1>11. Cardinality(W) \in Nat
  BY <1>1, FS_CardinalityType
<1>12. reservedTotal <= S(harvested)
  BY <1>1, <1>6, <1>7, <1>8, <1>9, <1>10
<1>13. S(harvested) <= reservedTotal + k + Cardinality(W)
  <2>1. CASE W # {}
    BY <1>1, <1>6, <1>7, <1>8, <1>9, <1>10, <1>11, <2>1
  <2>2. CASE W = {}
    <3>1. S(harvested) = 0
      BY <2>2, SumEmpty
    <3> QED BY <1>1, <1>11, <3>1
  <2> QED BY <2>1, <2>2
<1> QED BY <1>7, <1>12, <1>13

\* B3, for every history of claims, payments, pots and revocations: nothing stays reserved that nobody may
\* collect, and nobody may collect more than is reserved but for the wei each harvest and each address may
\* round.  The hypothesis is the range of the index.
THEOREM ReservedMatched == Spec /\ []WithinTheIndex => []ReservedMatchesClaims
<1>1. Init => HeadroomTracked
  <2> SUFFICES ASSUME Init PROVE HeadroomTracked
    OBVIOUS
  <2>1. IndInv
    BY InitEstablishes
  <2>2. /\ owedTotal = 0 /\ reservedTotal = 0
        /\ \A w \in Wallets : owed[w] = 0 /\ unclaimed[w] = 0
    BY DEF Init
  <2>3. /\ IsFiniteSet(Wallets) /\ InRange(releaseIndex) /\ harvests \in Nat /\ lastSettledEpoch \in Nat
        /\ headroom = 0
    BY <2>1, <2>2, SizesAssumption DEF IndInv, IndexOK, HistoryOK, SettlementOK, headroom
  <2>4. \A w \in Wallets : /\ Uncollected[w] \in Nat /\ InRange(releaseSnap[w]) /\ NotAfter(releaseSnap[w], releaseIndex)
                           /\ Uncollected[w] = 0
    BY <2>1, <2>2, UncollectedBounds
  <2>5. Tracked(Wallets, Uncollected, releaseSnap, releaseIndex, 0, harvests, lastSettledEpoch)
    BY <2>3, <2>4, TrackedNothing
  <2> QED BY <2>3, <2>5 DEF HeadroomTracked
<1>2. Spec => []OwedTotalIsTheSum
  BY DebtsAddUp
<1>3. /\ IndInv /\ IndInv' /\ OwedTotalIsTheSum /\ OwedTotalIsTheSum' /\ WithinTheIndex /\ [Next]_vars
      => (HeadroomTracked => HeadroomTracked')
  BY HeadroomStep
<1>4. IndInv /\ OwedTotalIsTheSum /\ WithinTheIndex /\ HeadroomTracked => ReservedMatchesClaims
  BY TrackedMatches
<1> QED BY <1>1, <1>2, <1>3, <1>4, Invariance, PTL DEF Spec
=============================================================================
