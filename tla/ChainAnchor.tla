---------------------------- MODULE ChainAnchor ----------------------------
(***************************************************************************)
(* contracts/src/ChainAnchor.sol: the relayer posts one anchor per epoch,  *)
(* in order; an anchor becomes FINAL after ANCHOR_WAIT unless it is vetoed *)
(* in time or disputed by staked validators.  Vetoes and disputes are      *)
(* counted in two sliding windows of STREAK_WINDOW_DAYS days, and the      *)
(* final anchors are chained into one head per day.                        *)
(*                                                                         *)
(* An anchor keeps the fields the contract decides on.  The hash chain is  *)
(* the sequence of the epochs hashed into it (a final anchor never changes, *)
(* so the epoch stands for its content).  totalCreditsIssued of the bridge *)
(* and the votes of ValidatorStaking are external: they are enumerated.    *)
(***************************************************************************)
EXTENDS Integers, FiniteSets, Sequences, Functions

CONSTANTS
    EPOCH, EPOCHS_PER_DAY, ANCHOR_WAIT, HALT_TIMEOUT, ADMIN_TIMELOCK,
    STREAK_WINDOW_DAYS, VETO_LIMIT_PER_WINDOW, DISPUTE_LIMIT_PER_WINDOW,
    LANE_MAX,               \* what an 8-bit lane holds: 255 in the code
    QUORUM, BPS, DISPUTE_MIN_BPS,
    Relayers,               \* addresses that are, or may become, the relayer
    Reports,                \* what a relayer may post: [credited, exits, l2Block, rooted]
    Votes,                  \* [agreeing, disputing, agreeingCount, disputingCount, staked]
    Admins,                 \* the admin keys in use: "admin", "vetoKey"
    Deposits,               \* how much one deposit on the bridge adds
    \* bounds of the model, not of the code
    StartTime, MaxTime, MaxEpoch, MaxIssued

Times == 0..MaxTime
Epochs == 0..MaxEpoch
DAY == EPOCH * EPOCHS_PER_DAY
Days == 0..MaxEpoch \div EPOCHS_PER_DAY
firstEpoch == StartTime \div EPOCH
Lanes == 0..STREAK_WINDOW_DAYS - 1
NoOne == "nobody"
NoVotes == [agreeing |-> 0, disputing |-> 0, agreeingCount |-> 0, disputingCount |-> 0,
            staked |-> 0]
Resolved == {"FINAL", "VETOED", "DISPUTED"}

Anchor == [state : {"NONE", "POSTED"} \cup Resolved, postedAt : Nat, finalizedAt : Nat,
           credited : Nat, exits : Nat, l2Block : Nat, agreeingCount : Nat]
Marks == [lanes : [Lanes -> 0..LANE_MAX], day : Nat]

ASSUME AnchorSizes ==
    /\ {EPOCH, EPOCHS_PER_DAY, STREAK_WINDOW_DAYS, LANE_MAX} \subseteq Nat \ {0}
    /\ {ANCHOR_WAIT, HALT_TIMEOUT, ADMIN_TIMELOCK, VETO_LIMIT_PER_WINDOW,
        DISPUTE_LIMIT_PER_WINDOW, QUORUM, BPS, DISPUTE_MIN_BPS, StartTime, MaxTime, MaxEpoch,
        MaxIssued} \subseteq Nat
    /\ EPOCH <= StartTime /\ StartTime <= MaxTime

ASSUME AnchorInputs ==
    /\ NoOne \notin Relayers /\ Relayers # {}
    /\ Admins \subseteq {"admin", "vetoKey"}
    /\ Reports \subseteq [credited : Nat, exits : Nat, l2Block : Nat, rooted : BOOLEAN]
    /\ Votes \subseteq [agreeing : Nat, disputing : Nat, agreeingCount : Nat,
                        disputingCount : Nat, staked : Nat]
    /\ Deposits \subseteq Nat

VARIABLES
    now,
    totalCreditsIssued,                     \* of BacBridge, external here
    anchors, lastPostedEpoch, lastFinalEpoch, lastFinalAt,
    cumulativeCredited, cumulativeExit,
    finalHead, dayHead,
    vetoMarks, disputeMarks,                \* the two windows: lanes and the day of lane 0
    relayer, pendingRelayer, pendingRelayerEta, stakingBound,
    pendingSince                            \* history: when the queued relayer was chosen

finalVars == <<lastFinalEpoch, lastFinalAt, cumulativeCredited, cumulativeExit, finalHead, dayHead>>
markVars == <<vetoMarks, disputeMarks>>
adminVars == <<relayer, pendingRelayer, pendingRelayerEta, pendingSince, stakingBound>>
vars == <<now, totalCreditsIssued, anchors, lastPostedEpoch, finalVars, markVars, adminVars>>

-----------------------------------------------------------------------------
Least(a, b) == IF a <= b THEN a ELSE b
Greatest(a, b) == IF a >= b THEN a ELSE b

dayOf(e) == e \div EPOCHS_PER_DAY
today == now \div DAY

\* _mark(lanes, markDay, day): the window slides forward to the day, a late day is filed back.
Bump(lanes, k) == [lanes EXCEPT ![k] = Least(@ + 1, LANE_MAX)]
Shifted(lanes, n) == [k \in Lanes |-> IF k >= n THEN lanes[k - n] ELSE 0]

Mark(m, day) ==
    IF day >= m.day
    THEN [lanes |-> Bump(Shifted(m.lanes, day - m.day), 0), day |-> day]
    ELSE IF m.day - day < STREAK_WINDOW_DAYS
         THEN [lanes |-> Bump(m.lanes, m.day - day), day |-> m.day]
         ELSE m

\* _countInWindow: the lanes still inside the window that ends today.
CountWithoutAging(m) ==
    Least(SumFunctionOnSet(m.lanes, Lanes), LANE_MAX)
CountInWindow(m) ==
    LET age == Greatest(today - m.day, 0)
    IN  Least(SumFunctionOnSet(m.lanes, {k \in Lanes : k + age < STREAK_WINDOW_DAYS}), LANE_MAX)

vetoCountInWindow == CountInWindow(vetoMarks)
disputeCountInWindow == CountInWindow(disputeMarks)

\* dayHeadOf(day).sealedDay
sealedDay(day) == lastPostedEpoch > (day + 1) * EPOCHS_PER_DAY - 1

haltReason ==
    IF now >= lastFinalAt + HALT_TIMEOUT THEN 1
    ELSE IF vetoCountInWindow >= VETO_LIMIT_PER_WINDOW THEN 2
    ELSE IF disputeCountInWindow >= DISPUTE_LIMIT_PER_WINDOW THEN 3
    ELSE 0

-----------------------------------------------------------------------------
Init ==
    /\ now = StartTime
    /\ totalCreditsIssued = 0
    /\ anchors = [e \in Epochs |-> [state |-> "NONE", postedAt |-> 0, finalizedAt |-> 0,
                                    credited |-> 0, exits |-> 0, l2Block |-> 0,
                                    agreeingCount |-> 0]]
    /\ lastPostedEpoch = firstEpoch - 1
    /\ lastFinalEpoch = 0 /\ lastFinalAt = now
    /\ cumulativeCredited = 0 /\ cumulativeExit = 0
    /\ finalHead = << >> /\ dayHead = [d \in Days |-> << >>]
    /\ vetoMarks = [lanes |-> [k \in Lanes |-> 0], day |-> today]
    /\ disputeMarks = [lanes |-> [k \in Lanes |-> 0], day |-> today]
    /\ relayer \in Relayers
    /\ pendingRelayer = NoOne /\ pendingRelayerEta = 0 /\ pendingSince = 0
    /\ stakingBound = FALSE

Tick ==
    /\ now < MaxTime
    /\ now' = now + 1
    /\ UNCHANGED <<totalCreditsIssued, anchors, lastPostedEpoch, finalVars, markVars, adminVars>>

\* A deposit on the bridge.
CreditsIssued(amount) ==
    /\ totalCreditsIssued + amount <= MaxIssued
    /\ totalCreditsIssued' = totalCreditsIssued + amount
    /\ UNCHANGED <<now, anchors, lastPostedEpoch, finalVars, markVars, adminVars>>

-----------------------------------------------------------------------------
\* Check 3: the previous epoch is resolved, or there is none.
previousResolvedOrPosted(e) == TRUE
previousResolved(e) == e # firstEpoch => anchors[e - 1].state \in Resolved

\* Checks 5 to 8 on the content of an anchor.
FitsTheLedgerByEpoch(e, rep) ==
    /\ rep.l2Block >= anchors[e - 1].l2Block
    /\ rep.credited <= totalCreditsIssued
    /\ cumulativeExit + rep.exits <= cumulativeCredited + rep.credited
FitsTheLedger(e, rep) ==
    /\ rep.l2Block >= anchors[e - 1].l2Block
    /\ rep.exits = 0 \/ rep.rooted
    /\ cumulativeCredited + rep.credited <= totalCreditsIssued
    /\ cumulativeExit + rep.exits <= cumulativeCredited + rep.credited

PostAnchor(r, e, rep) ==
    /\ r = relayer
    /\ e = lastPostedEpoch + 1
    /\ previousResolved(e)
    /\ now >= (e + 1) * EPOCH
    /\ FitsTheLedger(e, rep)
    /\ anchors' = [anchors EXCEPT ![e] =
                      [state |-> "POSTED", postedAt |-> now, finalizedAt |-> 0,
                       credited |-> rep.credited, exits |-> rep.exits,
                       l2Block |-> rep.l2Block, agreeingCount |-> 0]]
    /\ lastPostedEpoch' = e
    /\ UNCHANGED <<now, totalCreditsIssued, finalVars, markVars, adminVars>>

waitOver(e) == now >= anchors[e].postedAt + ANCHOR_WAIT

\* A dispute stands on a majority, a third of the stake and a quorum of addresses.
DisputeStands(v) ==
    /\ v.disputing >= v.agreeing /\ v.disputing # 0
    /\ v.disputing * BPS >= v.staked * DISPUTE_MIN_BPS
    /\ v.disputingCount >= QUORUM

\* finalize(epoch), anybody; without a bound staking contract nobody has voted.
FinalizableAgain(e, v) ==
    /\ anchors[e].state # "NONE"
    /\ waitOver(e)
    /\ ~stakingBound => v = NoVotes
FinalizableOnceBound(e, v) ==
    /\ anchors[e].state = "POSTED"
    /\ waitOver(e)
    /\ stakingBound
Finalizable(e, v) ==
    /\ anchors[e].state = "POSTED"
    /\ waitOver(e)
    /\ ~stakingBound => v = NoVotes

\* What a resolution writes into the anchor.
Rejected(a, outcome) == [a EXCEPT !.state = outcome]
Finalized(a, v) ==
    [a EXCEPT !.state = "FINAL", !.finalizedAt = now, !.agreeingCount = v.agreeingCount]

FinalizeDisputed(e, v) ==
    /\ Finalizable(e, v) /\ DisputeStands(v)
    /\ anchors' = [anchors EXCEPT ![e] = Rejected(@, "DISPUTED")]
    /\ disputeMarks' = Mark(disputeMarks, dayOf(e))
    /\ UNCHANGED <<now, totalCreditsIssued, lastPostedEpoch, finalVars, vetoMarks, adminVars>>

\* `finalHead = keccak(finalHead, epoch, ...)`
HeadWith(head, e) == Append(head, e)

FinalizeFinal(e, v) ==
    /\ Finalizable(e, v) /\ ~DisputeStands(v)
    /\ anchors' = [anchors EXCEPT ![e] = Finalized(@, v)]
    /\ cumulativeCredited' = cumulativeCredited + anchors[e].credited
    /\ cumulativeExit' = cumulativeExit + anchors[e].exits
    /\ lastFinalEpoch' = e /\ lastFinalAt' = now
    /\ finalHead' = HeadWith(finalHead, e)
    /\ dayHead' = [dayHead EXCEPT ![dayOf(e)] = HeadWith(finalHead, e)]
    /\ UNCHANGED <<now, totalCreditsIssued, lastPostedEpoch, markVars, adminVars>>

\* veto(epoch), the admin or the veto key, inside the wait; over the limit the call reverts.
Veto(e) ==
    /\ Admins # {}
    /\ anchors[e].state = "POSTED"
    /\ ~waitOver(e)
    /\ CountInWindow(Mark(vetoMarks, dayOf(e))) <= VETO_LIMIT_PER_WINDOW
    /\ anchors' = [anchors EXCEPT ![e] = Rejected(@, "VETOED")]
    /\ vetoMarks' = Mark(vetoMarks, dayOf(e))
    /\ UNCHANGED <<now, totalCreditsIssued, lastPostedEpoch, finalVars, disputeMarks, adminVars>>

-----------------------------------------------------------------------------
(* Admin: the relayer rotates behind a timelock that the veto key may cancel. *)

newEtaKeptWhileQueued == IF pendingRelayer = NoOne THEN now + ADMIN_TIMELOCK ELSE pendingRelayerEta
newEta == now + ADMIN_TIMELOCK

ProposeRelayer(r) ==
    /\ "admin" \in Admins
    /\ pendingRelayer' = r
    /\ pendingRelayerEta' = newEta
    /\ pendingSince' = IF r = pendingRelayer THEN pendingSince ELSE now
    /\ UNCHANGED <<now, totalCreditsIssued, anchors, lastPostedEpoch, finalVars, markVars, relayer,
                    stakingBound>>

ExecuteRelayerRotation ==
    /\ "admin" \in Admins
    /\ pendingRelayer # NoOne
    /\ now >= pendingRelayerEta
    /\ relayer' = pendingRelayer
    /\ pendingRelayer' = NoOne /\ pendingRelayerEta' = 0 /\ pendingSince' = 0
    /\ UNCHANGED <<now, totalCreditsIssued, anchors, lastPostedEpoch, finalVars, markVars,
                    stakingBound>>

CancelRelayerRotation ==
    /\ Admins # {}
    /\ pendingRelayer # NoOne
    /\ pendingRelayer' = NoOne /\ pendingRelayerEta' = 0 /\ pendingSince' = 0
    /\ UNCHANGED <<now, totalCreditsIssued, anchors, lastPostedEpoch, finalVars, markVars, relayer,
                    stakingBound>>

SetValidatorStaking ==
    /\ ~stakingBound
    /\ stakingBound' = TRUE
    /\ UNCHANGED <<now, totalCreditsIssued, anchors, lastPostedEpoch, finalVars, markVars, relayer,
                    pendingRelayer, pendingRelayerEta, pendingSince>>

-----------------------------------------------------------------------------
Finalize(e) == \E v \in Votes \cup {NoVotes} : FinalizeDisputed(e, v) \/ FinalizeFinal(e, v)

Next ==
    \/ Tick
    \/ \E amount \in Deposits : CreditsIssued(amount)
    \/ \E r \in Relayers, e \in Epochs, rep \in Reports : PostAnchor(r, e, rep)
    \/ \E e \in Epochs, v \in Votes \cup {NoVotes} : FinalizeDisputed(e, v)
    \/ \E e \in Epochs, v \in Votes \cup {NoVotes} : FinalizeFinal(e, v)
    \/ \E e \in Epochs : Veto(e)
    \/ \E r \in Relayers : ProposeRelayer(r)
    \/ ExecuteRelayerRotation
    \/ CancelRelayerRotation
    \/ SetValidatorStaking

Spec == Init /\ [][Next]_vars

\* Time passes and anybody may finalize; posting and vetoing are at their holders' will.
LiveSpec == Spec /\ WF_vars(Tick) /\ \A e \in Epochs : WF_vars(Finalize(e))

-----------------------------------------------------------------------------
(* Properties *)

TypeOK ==
    /\ now \in Times
    /\ {totalCreditsIssued, lastPostedEpoch, lastFinalEpoch, lastFinalAt, cumulativeCredited,
        cumulativeExit, pendingRelayerEta, pendingSince} \subseteq Nat
    /\ anchors \in [Epochs -> Anchor]
    /\ finalHead \in Seq(Epochs) /\ dayHead \in [Days -> Seq(Epochs)]
    /\ vetoMarks \in Marks /\ disputeMarks \in Marks
    /\ relayer \in Relayers /\ pendingRelayer \in Relayers \cup {NoOne}
    /\ stakingBound \in BOOLEAN

\* Check 7, over time: what finalized anchors credited on the layer, and what they let out of it,
\* stays within what was deposited on BSC, whichever anchors were vetoed or disputed in between.
CreditsAreBacked ==
    /\ cumulativeCredited <= totalCreditsIssued
    /\ cumulativeExit <= cumulativeCredited

\* The cumulative figures are those of the FINAL anchors and of no other.
CumulativesAreFinal ==
    LET Credited == [e \in Epochs |-> IF anchors[e].state = "FINAL" THEN anchors[e].credited ELSE 0]
        Exited == [e \in Epochs |-> IF anchors[e].state = "FINAL" THEN anchors[e].exits ELSE 0]
    IN  /\ cumulativeCredited = SumFunction(Credited)
        /\ cumulativeExit = SumFunction(Exited)

\* At most one anchor waits, and it is the last one posted; everything before it is resolved.
OneAnchorWaits ==
    \A e \in Epochs :
       /\ firstEpoch <= e /\ e < lastPostedEpoch => anchors[e].state \in Resolved
       /\ e > lastPostedEpoch \/ e < firstEpoch => anchors[e].state = "NONE"

\* The lanes, shifted, aged and saturated, count exactly the epochs of the window's days.
EventsOfWindow(outcome) ==
    {e \in Epochs : anchors[e].state = outcome /\ dayOf(e) + STREAK_WINDOW_DAYS > today}
WindowsCountEvents ==
    /\ vetoCountInWindow = Least(Cardinality(EventsOfWindow("VETOED")), LANE_MAX)
    /\ disputeCountInWindow = Least(Cardinality(EventsOfWindow("DISPUTED")), LANE_MAX)

\* A resolved anchor is never touched again: a veto never lands on a FINAL anchor, nor does a
\* second finalize count its credits twice.
ResolvedForGood ==
    [][\A e \in Epochs : anchors[e].state \in Resolved => anchors'[e] = anchors[e]]_vars

\* What validators attest to in a daily batch cannot move under them: once dayHeadOf reports the
\* day as sealed, its head never changes and the day stays sealed.
SealedDayNeverMoves ==
    [][\A d \in Days : sealedDay(d) => dayHead'[d] = dayHead[d] /\ sealedDay(d)']_vars

\* The head of a day chains exactly the FINAL anchors up to that day, in order, across days
\* without any, so one word attests all of them.
HeadsChainFinalAnchors ==
    LET Final == {e \in Epochs : anchors[e].state = "FINAL"}
        Chains(head, S) == /\ Range(head) = S
                           /\ \A i, j \in DOMAIN head : i < j => head[i] < head[j]
    IN  /\ Chains(finalHead, Final)
        /\ \A d \in Days :
              IF \E e \in Final : dayOf(e) = d
              THEN Chains(dayHead[d], {e \in Final : dayOf(e) <= d})
              ELSE dayHead[d] = << >>

\* A new relayer never takes over before it has itself been queued for the whole timelock: the
\* queue cannot be refilled under an old date.
RotationIsAnnounced ==
    [][relayer' # relayer => now >= pendingSince + ADMIN_TIMELOCK]_vars

\* The single anchor everybody waits for never blocks the chain: it is resolved, however the
\* validators vote and whoever tries to veto.
PostedIsResolved ==
    \A e \in Epochs :
       (anchors[e].state = "POSTED" /\ anchors[e].postedAt + ANCHOR_WAIT <= MaxTime)
          ~> anchors[e].state \in Resolved

\* The bridge's view: nothing before it is resolved.
Promise ==
    INSTANCE AnchorPromise
    WITH state <- [e \in Epochs |-> IF anchors[e].state \in Resolved THEN anchors[e].state
                                    ELSE "OPEN"]

\* The contract keeps the promise BacBridge is modelled against: epochs are resolved in order,
\* once they are over, and for good.
KeepsThePromise == Promise!Spec

\* What the contract keeps about its anchors is what became of them: the cumulative figures, the lanes of
\* the windows and the chained heads are all of the same history.
RecordsTellTheHistory == CumulativesAreFinal /\ WindowsCountEvents /\ HeadsChainFinalAnchors

\* What others have built on never moves: a resolved anchor, the head of a sealed day.
ThePastStands == ResolvedForGood /\ SealedDayNeverMoves
=============================================================================
