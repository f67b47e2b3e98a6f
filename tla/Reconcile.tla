------------------------------ MODULE Reconcile ------------------------------
(***************************************************************************)
(* The books of the two chains compared: the watchdog's rule RECONCILE     *)
(* (evaluateReconcile, checkReconcile) and the indexer's block of the same *)
(* name (refreshSnapshot, computeReconcile).  Both read two chains that    *)
(* move on between the reads; the watchdog reads BSC SLOW_DEPTH blocks     *)
(* back, the indexer at its latest block.  BSC and the layer are external  *)
(* here, with what each lets the other do: a credit waits for its deposit  *)
(* to settle, a claim for the anchor of its exit.                          *)
(***************************************************************************)
EXTENDS Integers, FiniteSets, FiniteSetsExt

CONSTANTS
    BridgeDeposits, BurntExits,    \* each of one credit
    CREDIT_WAIT,                   \* the relayer's gates, in blocks of BSC
    CLAIM_WAIT,                    \* from an exit to the end of its anchor's wait
    SLOW_DEPTH, INFLIGHT_BLOCKS, SKEW_BLOCKS,
    READ_TIME,                     \* bound: blocks mined while a round of reads is under way
    LastBscBlock, MaxSideFlows     \* bounds; side flows: fees, donations, floats burned, forgeries

ASSUME ReconcileSizes ==
    /\ {CREDIT_WAIT, CLAIM_WAIT, SLOW_DEPTH, INFLIGHT_BLOCKS, SKEW_BLOCKS, READ_TIME, LastBscBlock,
       MaxSideFlows} \subseteq Nat
    /\ IsFiniteSet(BridgeDeposits) /\ IsFiniteSet(BurntExits)

NotYet == -1
\* The rule treats the signer's balance as the sink's: out of what circulates, and in again.
FeeTakers == {"sink", "splitter", "producers"}

\* The layer at a block: what L2Bridge holds beyond its genesis balance, its counters, and who has the rest.
NoBooks == [bridge |-> 0, credited |-> {}, forged |-> 0, creditable |-> 0, exited |-> {}, burned |-> 0,
            donated |-> 0, users |-> 0, fees |-> [f \in FeeTakers |-> 0]]
NoReading == [by |-> "nobody", at |-> 0, balancesRead |-> FALSE, books |-> NoBooks, verdict |-> {}]

VARIABLES
    bscBlock, lockedIn, claimedIn,  \* BSC: its head; the block of each Locked and ExitClaimed
    layer, exitedIn,                \* L2Bridge and the balances; (history) when an exit was burned
    reading                         \* the round of a reader: the head of BSC when it began, the layer's
                                    \* balances once read, what it concludes

bscBooks == <<bscBlock, lockedIn, claimedIn>>
layerBooks == <<layer, exitedIn>>
reconcileVars == <<bscBooks, layerBooks, reading>>

ReconcileInit ==
    /\ bscBlock = 0
    /\ lockedIn = [d \in BridgeDeposits |-> NotYet]
    /\ claimedIn = [x \in BurntExits |-> NotYet]
    /\ layer = NoBooks
    /\ exitedIn = [x \in BurntExits |-> NotYet]
    /\ reading = NoReading

-----------------------------------------------------------------------------
(* The chains. *)
By(when, n) == {z \in DOMAIN when : when[z] \in 0..n}
totalCreditsIssued(n) == Cardinality(By(lockedIn, n))
totalCreditsExited(n) == Cardinality(By(claimedIn, n))

feesOf(books) == MapThenSumSet(LAMBDA f : books.fees[f], FeeTakers)
sideFlows == layer.forged + layer.burned + layer.donated + feesOf(layer)

NextBscBlock ==
    /\ bscBlock < LastBscBlock
    /\ reading.by = "nobody" \/ bscBlock < reading.at + READ_TIME
    /\ bscBlock' = bscBlock + 1
    /\ UNCHANGED <<lockedIn, claimedIn, layerBooks, reading>>

LockOnBsc(d) ==
    /\ lockedIn[d] = NotYet
    /\ lockedIn' = [lockedIn EXCEPT ![d] = bscBlock]
    /\ UNCHANGED <<bscBlock, claimedIn, layerBooks, reading>>

\* The gates of a credit: final, deep enough, and seen long enough.
GatesPassed(d) == lockedIn[d] # NotYet /\ lockedIn[d] + CREDIT_WAIT <= bscBlock

CreditOnLayer(d) ==
    /\ d \notin layer.credited /\ GatesPassed(d)
    /\ layer' = [layer EXCEPT !.credited = @ \cup {d}, !.creditable = @ + 1]
    /\ UNCHANGED <<bscBooks, exitedIn, reading>>

\* A relayer key in other hands: a credit whose deposit was never made.
ForgedCredit ==
    /\ sideFlows < MaxSideFlows
    /\ layer' = [layer EXCEPT !.forged = @ + 1, !.creditable = @ + 1]
    /\ UNCHANGED <<bscBooks, exitedIn, reading>>

WithdrawOnLayer ==
    /\ layer.creditable > 0
    /\ layer' = [layer EXCEPT !.bridge = @ - layer.creditable, !.users = @ + layer.creditable,
                              !.creditable = 0]
    /\ UNCHANGED <<bscBooks, exitedIn, reading>>

ExitOnLayer(x) ==
    /\ layer.users > 0 /\ exitedIn[x] = NotYet
    /\ exitedIn' = [exitedIn EXCEPT ![x] = bscBlock]
    /\ layer' = [layer EXCEPT !.bridge = @ + 1, !.users = @ - 1, !.exited = @ \cup {x}]
    /\ UNCHANGED <<bscBooks, reading>>

\* burnFloat, and a plain transfer to the bridge.
BurnOrDonate(field) ==
    /\ layer.users > 0 /\ sideFlows < MaxSideFlows
    /\ layer' = [layer EXCEPT !.bridge = @ + 1, !.users = @ - 1, ![field] = @ + 1]
    /\ UNCHANGED <<bscBooks, exitedIn, reading>>

\* A publishing fee to the sink, or gas: to the signer (as the sink), other producers, or their splitter.
PayFee(f) ==
    /\ layer.users > 0 /\ sideFlows < MaxSideFlows
    /\ layer' = [layer EXCEPT !.users = @ - 1, !.fees[f] = @ + 1]
    /\ UNCHANGED <<bscBooks, exitedIn, reading>>

ClaimOnBsc(x) ==
    /\ exitedIn[x] # NotYet /\ exitedIn[x] + CLAIM_WAIT <= bscBlock
    /\ claimedIn[x] = NotYet
    /\ claimedIn' = [claimedIn EXCEPT ![x] = bscBlock]
    /\ UNCHANGED <<bscBlock, lockedIn, layerBooks, reading>>

-----------------------------------------------------------------------------
(* The watchdog.  Balances are pinned to one block of the layer; `seen` and totalExited, read after   *)
(* them, are not.                                                                                     *)

\* checkReconcile's diff, with LAYER_TOTAL_SUPPLY less the bridge's balance as what is in circulation.
\* The list of validators in the configuration holds the signer alone, unless told otherwise.
reconcileDiff(n, books) ==
    LET layerCirculating == -books.bridge - books.fees["sink"] IN
    (totalCreditsIssued(n) - totalCreditsExited(n))
        - (layerCirculating + books.fees["sink"] + books.fees["splitter"])

inflightCredits(n) ==
    Cardinality({d \in By(lockedIn, n) : lockedIn[d] >= n - INFLIGHT_BLOCKS /\ d \notin layer.credited})
inflightExits(n) == Max({0, Cardinality(layer.exited) - totalCreditsExited(n)})

Verdict(n, books) ==
    LET diff == reconcileDiff(n, books)
        skewExits == totalCreditsExited(n) - totalCreditsExited(n - SKEW_BLOCKS - 1)
    IN  CASE diff < 0 /\ -diff > skewExits -> "critical"
          [] diff > inflightCredits(n) + inflightExits(n) -> "warn"
          [] OTHER -> "ok"
CompareBooks(n, books) == Verdict(n, books)

Judged == reading.verdict # {}
\* A round keeps nothing for the next one, so one round, begun at any time, stands for all.
Begins(who) ==
    /\ reading.by = "nobody"
    /\ reading' = [NoReading EXCEPT !.by = who, !.at = bscBlock]
    /\ UNCHANGED <<bscBooks, layerBooks>>

ReadBalances(who) ==
    /\ reading.by = who /\ ~reading.balancesRead
    /\ reading' = [reading EXCEPT !.balancesRead = TRUE, !.books = layer]
    /\ UNCHANGED <<bscBooks, layerBooks>>

Concludes(who, verdict) ==
    /\ reading.by = who /\ reading.balancesRead /\ ~Judged
    /\ reading' = [reading EXCEPT !.verdict = verdict]
    /\ UNCHANGED <<bscBooks, layerBooks>>

EvaluateReconcile == bscBlock >= SLOW_DEPTH /\ Begins("watchdog")

CheckReconcile == Concludes("watchdog", {CompareBooks(reading.at - SLOW_DEPTH, reading.books)})

-----------------------------------------------------------------------------
(* The indexer.  Balances and counters of L2Bridge are pinned to one block; BSC is read after them.    *)
SnapshotBooks(books) == books

\* computeReconcile's terms, and those of them that are negative.
reconcileTerms(books) ==
    LET credited == Cardinality(books.credited) + books.forged
        l2Exited == Cardinality(books.exited) IN
    [creditsPendingRelay |-> totalCreditsIssued(bscBlock) - credited,
     exitsPendingClaim |-> l2Exited - totalCreditsExited(bscBlock),
     burnedFloat |-> books.burned,
     creditableAndDonations |-> books.bridge - (l2Exited + books.burned - credited)]
NegativeTerms(books) == {t \in DOMAIN reconcileTerms(books) : reconcileTerms(books)[t] < 0}
NegativeSum(books) ==
    LET sum == MapThenSumSet(LAMBDA t : reconcileTerms(books)[t], DOMAIN reconcileTerms(books))
    IN  IF sum < 0 THEN {"creditsPendingRelay"} ELSE {}
Alarms(books) == NegativeTerms(books)

RefreshSnapshot == Begins("indexer")

ComputeReconcile == Concludes("indexer", {"read"} \cup Alarms(SnapshotBooks(reading.books)))

\* The chains run on until the round has its verdict.
ChainStep ==
    /\ ~Judged
    /\ \/ NextBscBlock \/ \E d \in BridgeDeposits : LockOnBsc(d) \/ CreditOnLayer(d)
       \/ ForgedCredit \/ WithdrawOnLayer
       \/ \E x \in BurntExits : ExitOnLayer(x) \/ ClaimOnBsc(x)
       \/ \E field \in {"burned", "donated"} : BurnOrDonate(field)
       \/ \E f \in FeeTakers : PayFee(f)

ReconcileNext ==
    \/ ChainStep
    \/ EvaluateReconcile \/ RefreshSnapshot
    \/ \E who \in {"watchdog", "indexer"} : ReadBalances(who)
    \/ CheckReconcile \/ ComputeReconcile

ReconcileSpec == ReconcileInit /\ [][ReconcileNext]_reconcileVars

-----------------------------------------------------------------------------
ByWatchdog == reading.by = "watchdog" /\ Judged
ByIndexer == reading.by = "indexer" /\ Judged

(* A CRITICAL verdict, which pauses the bridge, means that credits were made without a deposit, as     *)
(* rules/reconcile.mjs:9 says; or that gas money lies with the splitter: the rule adds the splitter's  *)
(* balance to what is in circulation without having taken it out.                                      *)
NobodyCriesWolf ==
    ByWatchdog /\ "critical" \in reading.verdict =>
        reading.books.forged > 0 \/ reading.books.fees["splitter"] > 0

(* The watchdog misses a forgery only behind as much money that came back to the bridge, or never left *)
(* it, and that BSC has not taken off its own count: deposits on their way, exits not claimed,         *)
(* undelivered credits, burned floats, donations, tips of producers it does not list, late claims.     *)
SilenceHasAReason ==
    LET books == reading.books
        n == reading.at - SLOW_DEPTH
        onTheWay == totalCreditsIssued(n) - Cardinality({d \in By(lockedIn, n) : d \in books.credited})
        unclaimed == Cardinality(books.exited) - totalCreditsExited(n - SKEW_BLOCKS - 1)
    IN  ByWatchdog /\ "critical" \notin reading.verdict =>
            books.forged <= onTheWay + unclaimed + books.creditable + books.burned + books.donated
                                + books.fees["producers"]

(* The indexer's alarms are true: only a forgery raises one, though the two chains are read one after  *)
(* the other and both have moved.                                                                      *)
IndexerAlarmsAreTrue ==
    ByIndexer /\ reading.verdict # {"read"} =>
        reading.verdict = {"read", "creditsPendingRelay"} /\ reading.books.forged > 0

(* No other money hides a forgery from the indexer: it sees one that exceeds the deposits on their way. *)
OvermintIsSeen ==
    LET onTheWay == totalCreditsIssued(reading.at) - Cardinality(reading.books.credited)
    IN  ByIndexer /\ bscBlock = reading.at /\ reading.books.forged > onTheWay =>
            "creditsPendingRelay" \in reading.verdict

(* Of the two programs that compare the books of the two chains, either raises an alarm for a reason    *)
(* and is silent for one, however far apart it reads the chains.                                       *)
VerdictsHaveAReason == NobodyCriesWolf /\ SilenceHasAReason /\ IndexerAlarmsAreTrue /\ OvermintIsSeen
==============================================================================
