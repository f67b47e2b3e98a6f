------------------------------ MODULE SlowLoop ------------------------------
(***************************************************************************)
(* The watchdog's slow loop (tickSlow in watchdog/src/engine.mjs) over the *)
(* bridge's BAC: the rules BUCKETS and RELEASE_CAP compare the books with  *)
(* the events since the last tick and with a shadow ledger in SQLite.  The *)
(* rule RECONCILE is in module Reconcile; the price of a buyback and the   *)
(* cadence of anchors, which never or seldom stop the bridge, are left out,*)
(* and so are halts, after which no epoch is settled.  The owner's         *)
(* emergency withdrawals are in: their event is none the loop reads.       *)
(*                                                                         *)
(* The books are read at one pinned block, so a tick sees one state; but   *)
(* it may die between its writes.  All pots are at the highest daily rate. *)
(***************************************************************************)
EXTENDS Integers, Sequences, SequencesExt, FiniteSetsExt

CONSTANTS
    RELEASE_PART,                  \* a pot is at most this part of the free bucket
    EPOCHS_PER_DAY,                \* and the rolling window, in epochs
    Lot,                           \* BAC moved at a time
    LastEpoch, MaxMoves, MaxFailures \* bounds

ASSUME SlowSizes ==
    /\ {RELEASE_PART, EPOCHS_PER_DAY} \subseteq Nat \ {0}
    /\ Lot \in Nat /\ Lot > 1     \* a wei more than allowed is within the rule's rounding
    /\ {LastEpoch, MaxMoves, MaxFailures} \subseteq Nat

SettledEpochs == 1..LastEpoch

VARIABLES
    vault,                         \* BacBridge's books, and the BAC it holds
    settledEpoch, wallEpoch,       \* lastSettledEpoch; the epochs that are over
    stretch,                       \* what happened after the block of the cursor; the loop does not see a leak,
                                   \* a withdrawal or a gift in it, nor the bucket something happened to
    shadow,                        \* the watchdog's tables: snapshot, release_log, roll_base
    alarm,                         \* the rule that stopped the bridge
    moves, failures                \* (bounds)

slowVars == <<vault, settledEpoch, wallEpoch, stretch, shadow, alarm, moves, failures>>

\* release_log: the pot of an epoch and when it was recorded.  What the watchdog cannot know: whether it was
\* a leak, and whether it came from a bucket that had shrunk again at the block of the tick.
Row(pot, at, leak, shrunk) == [pot |-> pot, at |-> at, leak |-> leak, shrunk |-> shrunk]

\* None or one epoch is settled, and a tick has run: the shadow ledger has something to compare with.
SlowInit ==
    /\ settledEpoch \in {0, 1} /\ wallEpoch = 1
    /\ LET pot == (settledEpoch * 2 * Lot) \div RELEASE_PART IN
       /\ vault = [lockedBac |-> Lot, totalBurned |-> 0, buybackBac |-> 2 * Lot, owedTotal |-> 2 * Lot,
                   reservedTotal |-> pot, tokenBalance |-> 3 * Lot]
       /\ shadow = [snapshot |-> vault, atCursor |-> TRUE, roll_base |-> 2 * Lot, roll_base_at |-> 0,
                    release_log |-> [e \in SettledEpochs |-> Row(IF e = 1 THEN pot ELSE 0, settledEpoch, FALSE, FALSE)]]
    /\ stretch = <<>>
    /\ alarm = "none"
    /\ moves = 0 /\ failures = 0

-----------------------------------------------------------------------------
(* The bridge. *)
Accounted(books) == books.lockedBac - books.totalBurned + books.buybackBac
bacAccounted == Accounted(vault)
Plus(books, field, n) == [books EXCEPT ![field] = @ + n]
In(field, n) == Plus(Plus(vault, field, n), "tokenBalance", n)

Happens(kind, amount, leak, books) ==
    /\ alarm = "none" /\ moves < MaxMoves
    /\ moves' = moves + 1
    /\ vault' = books
    /\ stretch' = Append(stretch, [kind |-> kind, amount |-> amount, leak |-> leak,
                                   epoch |-> settledEpoch', bucket |-> vault.buybackBac])
    /\ UNCHANGED <<wallEpoch, shadow, alarm, failures>>
Shown(kind, amount, books) == UNCHANGED settledEpoch /\ Happens(kind, amount, FALSE, books)

LockBac == Shown("locked", Lot, In("lockedBac", Lot))
Buyback == Shown("bought", Lot, In("buybackBac", Lot))
\* A plain transfer to the bridge, which fills what is short before anything can be swept.
BacArrives == Shown("given", Lot, Plus(vault, "tokenBalance", Lot))
SweepUntrackedBac ==
    LET swept == vault.tokenBalance - bacAccounted
    IN  swept > 0 /\ Shown("swept", swept, Plus(vault, "buybackBac", swept))
\* The owner takes BAC and leaves the books as they are.
EmergencyWithdrawToken ==
    vault.tokenBalance >= Lot /\ Shown("withdrawn", Lot, Plus(vault, "tokenBalance", -Lot))
BurnLocked ==
    LET burned == vault.lockedBac - vault.totalBurned
    IN  /\ burned > 0 /\ vault.tokenBalance >= burned
        /\ Shown("burned", burned, Plus(Plus(vault, "totalBurned", burned), "tokenBalance", -burned))
ClaimExit ==
    /\ vault.owedTotal + Lot <= vault.buybackBac
    /\ Shown("exit", Lot, Plus(vault, "owedTotal", Lot))
Collect ==
    LET paid == vault.reservedTotal IN
    /\ paid > 0 /\ vault.tokenBalance >= vault.lockedBac - vault.totalBurned + paid
    /\ Shown("collected", paid, [vault EXCEPT !.owedTotal = @ - paid, !.reservedTotal = 0,
                                              !.buybackBac = @ - paid, !.tokenBalance = @ - paid])
\* All of the debt is young, and of one epoch.
RevokeEpochOwed ==
    /\ vault.owedTotal > 0
    /\ Shown("revoked", vault.owedTotal, [vault EXCEPT !.owedTotal = 0, !.reservedTotal = 0])

potAllowed(free) == Max({0, free}) \div RELEASE_PART
Settles(leak, extra) ==
    LET pot == Min({potAllowed(vault.buybackBac - vault.reservedTotal) + extra,
                    vault.owedTotal - vault.reservedTotal}) IN
    /\ settledEpoch < wallEpoch
    /\ settledEpoch' = settledEpoch + 1
    /\ Happens("settled", pot, leak, IF vault.owedTotal = 0 THEN [vault EXCEPT !.reservedTotal = 0]
                                     ELSE Plus(vault, "reservedTotal", pot))
SettleEpoch == Settles(FALSE, 0)

\* What the rules are there for: code that is not this bridge's moves its books or its BAC.
Leaked == \E i \in DOMAIN stretch : stretch[i].leak
Leaks(kind, books) == UNCHANGED settledEpoch /\ Happens(kind, 0, TRUE, books)
Leak ==
    /\ ~Leaked
    /\ \/ vault.lockedBac - vault.totalBurned >= Lot /\ Leaks("nothing", In("lockedBac", -Lot))
       \/ vault.buybackBac - vault.owedTotal >= Lot /\ Leaks("nothing", In("buybackBac", -Lot))
       \/ /\ vault.lockedBac - vault.totalBurned >= Lot
          /\ Leaks("nothing", Plus(Plus(vault, "lockedBac", -Lot), "buybackBac", Lot))
       \/ /\ bacAccounted > vault.tokenBalance - Lot /\ vault.tokenBalance >= Lot
          /\ Leaks("taken", Plus(vault, "tokenBalance", -Lot))
       \/ /\ vault.owedTotal - vault.reservedTotal
                >= potAllowed(vault.buybackBac - vault.reservedTotal) + Lot
          /\ Settles(TRUE, Lot)

EpochPasses ==
    /\ alarm = "none" /\ wallEpoch < LastEpoch
    /\ wallEpoch' = wallEpoch + 1
    /\ UNCHANGED <<vault, settledEpoch, stretch, shadow, alarm, moves, failures>>

-----------------------------------------------------------------------------
(* A tick. *)
FlowOf(events, n, kind) ==        \* in the first n of them
    SumFunctionOnSet([i \in 1..n |-> events[i].amount], {i \in 1..n : events[i].kind = kind})
Flow(kind) == FlowOf(stretch, Len(stretch), kind)
usablePrev == shadow.atCursor

\* checkBuckets: the inequalities of one snapshot; the changes between two, which the events must explain.
Inequalities ==
    /\ vault.totalBurned <= vault.lockedBac
    /\ vault.tokenBalance >= bacAccounted
    /\ vault.owedTotal <= vault.buybackBac
    /\ vault.reservedTotal <= vault.owedTotal
Explained(field, byEvents) == vault[field] - shadow.snapshot[field] = byEvents
DeltasOfLocksOnly == Explained("lockedBac", Flow("locked")) /\ Explained("totalBurned", Flow("burned"))
Deltas == DeltasOfLocksOnly /\ Explained("buybackBac", Flow("bought") + Flow("swept") - Flow("collected"))
CheckBuckets == Inequalities /\ (usablePrev => Deltas)

\* replayForSettles and checkEpochRelease: what was free before each settlement, from the last snapshot and
\* the events; a collect takes as much from the bucket as from what is reserved.
Settlements == {j \in DOMAIN stretch : stretch[j].kind = "settled"}
freeBefore(j) == (shadow.snapshot.buybackBac + FlowOf(stretch, j - 1, "bought"))
                     - (shadow.snapshot.reservedTotal + FlowOf(stretch, j - 1, "settled"))
CheckEpochReleases ==
    usablePrev => \A j \in Settlements : stretch[j].amount <= potAllowed(freeBefore(j)) + 1

\* recordRelease files a pot under its epoch, at the time of the tick.
release_log ==
    [e \in SettledEpochs |->
        IF \E j \in Settlements : stretch[j].epoch = e
        THEN LET s == stretch[CHOOSE j \in Settlements : stretch[j].epoch = e]
             IN  Row(s.amount, wallEpoch, s.leak, s.bucket > vault.buybackBac)
        ELSE shadow.release_log[e]]

\* checkRollingRelease.  The rows of one day, one end left out: the window of the code is closed at both, and a
\* tick at the very second of the day counts one epoch more.
InWindow == {e \in SettledEpochs : release_log[e].at > wallEpoch - EPOCHS_PER_DAY}
released == SumFunctionOnSet([e \in SettledEpochs |-> release_log[e].pot], InWindow)
rollBase == Max({shadow.roll_base, vault.buybackBac})
CheckRollingRelease ==
    rollBase > 0 => released <= (rollBase * EPOCHS_PER_DAY) \div RELEASE_PART + Cardinality(Settlements)
BaseExpired == wallEpoch - shadow.roll_base_at > EPOCHS_PER_DAY

\* What the rules say, in the order they are asked.
RulesBroken ==
    {rule \in {"buckets", "epoch", "rolling"} :
        CASE rule = "buckets" -> ~CheckBuckets
          [] rule = "epoch"   -> ~CheckEpochReleases
          [] rule = "rolling" -> ~CheckRollingRelease}
AskedBefore(rule) ==
    CASE rule = "buckets" -> {} [] rule = "epoch" -> {"buckets"} [] rule = "rolling" -> {"buckets", "epoch"}

\* handle(): the second source does not agree or does not answer, and the tick goes on.  The rolling rule is
\* asked the same rows again.
PassedOver(rules) ==
    \/ rules = {} /\ UNCHANGED failures
    \/ /\ rules # {} /\ rules \subseteq {"buckets", "epoch"}
       /\ failures < MaxFailures /\ failures' = failures + 1

ReleasesRecorded ==
    [shadow EXCEPT !.release_log = release_log,
                   !.roll_base = IF BaseExpired THEN vault.buybackBac ELSE rollBase,
                   !.roll_base_at = IF BaseExpired THEN wallEpoch ELSE @]
SnapshotSaved(rows, atCursor) == [rows EXCEPT !.snapshot = vault, !.atCursor = atCursor]

TickTrips ==
    /\ alarm = "none" /\ alarm' \in RulesBroken
    /\ PassedOver(RulesBroken \cap AskedBefore(alarm'))
    /\ UNCHANGED <<vault, settledEpoch, wallEpoch, stretch, shadow, moves>>

TickEnds ==
    /\ alarm = "none" /\ PassedOver(RulesBroken)
    /\ shadow' = SnapshotSaved(ReleasesRecorded, TRUE)
    /\ stretch' = <<>>
    /\ UNCHANGED <<vault, settledEpoch, wallEpoch, alarm, moves>>

\* A read fails after the releases were recorded, or the process dies after saveSnapshot.
TickDies ==
    /\ alarm = "none" /\ RulesBroken = {} /\ failures < MaxFailures
    /\ failures' = failures + 1
    /\ \/ shadow' = ReleasesRecorded
       \/ stretch # <<>> /\ shadow' = SnapshotSaved(ReleasesRecorded, FALSE)
    /\ UNCHANGED <<vault, settledEpoch, wallEpoch, stretch, alarm, moves>>

SlowNext ==
    \/ LockBac \/ Buyback \/ BacArrives \/ SweepUntrackedBac \/ BurnLocked \/ EmergencyWithdrawToken
    \/ ClaimExit \/ Collect \/ RevokeEpochOwed \/ SettleEpoch \/ Leak
    \/ EpochPasses
    \/ TickTrips \/ TickEnds \/ TickDies

SlowSpec == SlowInit /\ [][SlowNext]_slowVars

-----------------------------------------------------------------------------
ShortBefore == shadow.snapshot.tokenBalance < Accounted(shadow.snapshot)
Withdrawn == \E i \in DOMAIN stretch : stretch[i].kind = "withdrawn"
\* What was taken was put back by somebody else, before a tick looked.
Refilled ==
    \E i, j \in DOMAIN stretch : i < j /\ stretch[i].kind = "taken" /\ stretch[j].kind = "given"
SettledAfter(kinds) ==
    \E j \in Settlements : \E i \in 1..j : stretch[i].kind \in kinds
RecordedLate == \E e \in InWindow : release_log[e].at > e
Rebased == wallEpoch - shadow.roll_base_at < EPOCHS_PER_DAY
OutOfSight == \E e \in InWindow : release_log[e].leak \/ release_log[e].shrunk

(* An alarm of the slow loop, which pauses the bridge, means that BAC or books were moved in a way the *)
(* events do not show, now or before a tick whose second source was silent; or it is one of the false  *)
(* ones the code allows: the owner withdrew BAC, whose event the loop does not read; a settlement      *)
(* after a donation was swept or a debt revoked, which the replay does not take in; releases recorded  *)
(* later than they were made, by a watchdog or a settlement that caught up; a base younger than the    *)
(* window; a pot that came from a larger bucket than any tick saw, because it was collected between    *)
(* two of them.                                                                                        *)
AlarmsHaveAReason ==
    /\ alarm = "buckets" => Leaked \/ Withdrawn \/ ShortBefore
    /\ alarm = "epoch" => Leaked \/ SettledAfter({"swept", "revoked"})
    /\ alarm = "rolling" => RecordedLate \/ Rebased \/ OutOfSight

(* A tick that ends has seen every leak before its block, unless it has no snapshot to compare with,   *)
(* the tick after one whose snapshot was saved, but not its cursor; or somebody put back what was      *)
(* taken; or the second source did not confirm what it saw.                                            *)
LeaksAreSeen ==
    [][stretch # <<>> /\ stretch' = <<>> => \/ ~Leaked \/ ~usablePrev \/ Refilled
                                      \/ failures' # failures]_slowVars

(* Both: the slow loop raises an alarm for a reason, and is silent for one. *)
SlowLoopCanBeTrusted == []AlarmsHaveAReason /\ LeaksAreSeen
==============================================================================
