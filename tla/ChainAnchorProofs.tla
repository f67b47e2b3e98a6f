------------------------- MODULE ChainAnchorProofs -------------------------
(***************************************************************************)
(* What ChainAnchor guarantees for every window length, limit, set of      *)
(* reports and votes.  The inductive invariant IndInv says that at most    *)
(* one anchor waits, that it is the last one posted, and that what it      *)
(* would credit and let out still fits.                                    *)
(***************************************************************************)
EXTENDS ChainAnchor, Numbers

-----------------------------------------------------------------------------
(* The windows *)

\* One more event, saturated, keeps the lanes within what a lane holds.
LEMMA BumpType ==
    ASSUME NEW lanes \in [Lanes -> 0..LANE_MAX], NEW k \in Lanes
    PROVE  Bump(lanes, k) \in [Lanes -> 0..LANE_MAX]
BY AnchorSizes DEF Bump, Least

\* Sliding the window keeps the lanes within what a lane holds.
LEMMA ShiftedType ==
    ASSUME NEW lanes \in [Lanes -> 0..LANE_MAX], NEW n \in Nat
    PROVE  Shifted(lanes, n) \in [Lanes -> 0..LANE_MAX]
<1> DEFINE f(k) == IF k >= n THEN lanes[k - n] ELSE 0
<1>1. STREAK_WINDOW_DAYS \in Nat /\ LANE_MAX \in Nat
  BY AnchorSizes
<1>2. ASSUME NEW k \in Lanes PROVE f(k) \in 0..LANE_MAX
  <2>1. CASE k >= n
    <3>1. k - n \in Lanes
      BY <1>1, <2>1 DEF Lanes
    <3> QED BY <2>1, <3>1
  <2> QED BY <1>1, <2>1
<1>3. Shifted(lanes, n) = [k \in Lanes |-> f(k)]
  BY DEF Shifted
<1> HIDE DEF f
<1> QED BY <1>2, <1>3

\* _mark returns a window for every day, earlier or later than the last mark.
LEMMA MarkType ==
    ASSUME NEW m \in Marks, NEW day \in Nat
    PROVE  Mark(m, day) \in Marks
<1>1. m.lanes \in [Lanes -> 0..LANE_MAX] /\ m.day \in Nat /\ 0 \in Lanes
  <2>1. m.lanes \in [Lanes -> 0..LANE_MAX] /\ m.day \in Nat
    BY DEF Marks
  <2>2. STREAK_WINDOW_DAYS \in Nat \ {0}
    BY AnchorSizes
  <2> QED BY <2>1, <2>2 DEF Lanes
<1>2. CASE day >= m.day
  <2>1. day - m.day \in Nat
    BY <1>1, <1>2
  <2>2. Shifted(m.lanes, day - m.day) \in [Lanes -> 0..LANE_MAX]
    BY <1>1, <2>1, ShiftedType
  <2>3. Bump(Shifted(m.lanes, day - m.day), 0) \in [Lanes -> 0..LANE_MAX]
    BY <1>1, <2>2, BumpType
  <2> QED BY <1>2, <2>3 DEF Mark, Marks
<1>3. CASE ~(day >= m.day) /\ m.day - day < STREAK_WINDOW_DAYS
  <2> STREAK_WINDOW_DAYS \in Nat
    BY AnchorSizes
  <2>1. m.day - day \in Lanes
    BY <1>1, <1>3 DEF Lanes
  <2>2. Bump(m.lanes, m.day - day) \in [Lanes -> 0..LANE_MAX]
    BY <1>1, <2>1, BumpType
  <2> QED BY <1>1, <1>3, <2>2 DEF Mark, Marks
<1>4. CASE ~(day >= m.day) /\ ~(m.day - day < STREAK_WINDOW_DAYS)
  BY <1>4 DEF Mark
<1> QED BY <1>2, <1>3, <1>4

-----------------------------------------------------------------------------
(* The resolutions *)

\* A veto or a dispute changes the state of an anchor and nothing else.
LEMMA RejectedType ==
    ASSUME NEW a \in Anchor, NEW outcome \in {"VETOED", "DISPUTED"}
    PROVE  /\ Rejected(a, outcome) \in Anchor
           /\ Rejected(a, outcome).state = outcome
<1>1. outcome \in {"NONE", "POSTED"} \cup Resolved
  BY DEF Resolved
<1> QED BY <1>1, Zenon DEF Rejected, Anchor

\* A finalization keeps what the anchor credits and lets out.
LEMMA FinalizedType ==
    ASSUME NEW a \in Anchor, NEW v, v.agreeingCount \in Nat, now \in Nat
    PROVE  /\ Finalized(a, v) \in Anchor
           /\ Finalized(a, v).state = "FINAL"
<1>1. "FINAL" \in {"NONE", "POSTED"} \cup Resolved
  BY DEF Resolved
<1> QED BY <1>1, Zenon DEF Finalized, Anchor

-----------------------------------------------------------------------------
(* The inductive invariant *)

\* The anchor that waits still fits what was deposited and what is in the layer.
WaitingFits ==
    \A e \in Epochs :
       anchors[e].state = "POSTED" =>
          /\ cumulativeCredited + anchors[e].credited <= totalCreditsIssued
          /\ cumulativeExit + anchors[e].exits <= cumulativeCredited + anchors[e].credited

\* Only an epoch that is over is ever posted.
WaitingIsOver ==
    \A e \in Epochs : anchors[e].state = "POSTED" => now >= (e + 1) * EPOCH

IndInv ==
    /\ TypeOK
    /\ firstEpoch - 1 <= lastPostedEpoch
    /\ OneAnchorWaits
    /\ CreditsAreBacked
    /\ WaitingFits
    /\ WaitingIsOver

\* The first epoch is at least 1: the chain is younger than the clock.
LEMMA FirstEpochType == firstEpoch \in Nat \ {0}
<1>1. EPOCH \in Nat \ {0} /\ StartTime \in Nat /\ 1 * EPOCH <= StartTime
  BY AnchorSizes
<1>2. 1 <= StartTime \div EPOCH
  BY <1>1, DivAtLeast
<1> QED BY <1>1, <1>2, DivBounds DEF firstEpoch

\* The day of an epoch is one of the days.
LEMMA DayType == ASSUME NEW e \in Epochs PROVE dayOf(e) \in Days /\ dayOf(e) \in Nat
<1>1. EPOCHS_PER_DAY \in Nat \ {0} /\ e \in Nat /\ MaxEpoch \in Nat /\ e <= MaxEpoch
  BY AnchorSizes DEF Epochs
<1>2. dayOf(e) \in Nat /\ MaxEpoch \div EPOCHS_PER_DAY \in Nat
  BY <1>1, DivBounds DEF dayOf
<1>3. dayOf(e) <= MaxEpoch \div EPOCHS_PER_DAY
  BY <1>1, DivMonotone DEF dayOf
<1> QED BY <1>2, <1>3 DEF Days

\* Only the last posted epoch can be waiting.
LEMMA WaitingIsLast ==
    ASSUME OneAnchorWaits, lastPostedEpoch \in Nat, NEW e \in Epochs, anchors[e].state = "POSTED"
    PROVE  e = lastPostedEpoch /\ firstEpoch <= e
BY FirstEpochType DEF OneAnchorWaits, Resolved, Epochs

LEMMA InitIndInv == Init => IndInv
<1> SUFFICES ASSUME Init PROVE IndInv
  OBVIOUS
<1>1. today \in Nat
  <2>1. DAY \in Nat \ {0} /\ now \in Nat
    <3>1. StartTime \in Nat /\ EPOCH \in Nat \ {0} /\ EPOCHS_PER_DAY \in Nat \ {0}
      BY AnchorSizes
    <3>2. now = StartTime
      BY DEF Init
    <3> QED BY <3>1, <3>2 DEF DAY
  <2> QED BY <2>1, DivBounds DEF today
<1>2. TypeOK
  <2>1. now \in Times /\ now \in Nat
    BY AnchorSizes DEF Init, Times
  <2>2. lastPostedEpoch \in Nat
    BY FirstEpochType DEF Init
  <2>3. anchors \in [Epochs -> Anchor]
    BY DEF Init, Anchor
  <2>4. 0 \in 0..LANE_MAX
    BY AnchorSizes
  <2>5. vetoMarks \in Marks /\ disputeMarks \in Marks
    BY <1>1, <2>4 DEF Init, Marks
  <2>6. << >> \in Seq(Epochs)
    OBVIOUS
  <2>7. finalHead \in Seq(Epochs) /\ dayHead \in [Days -> Seq(Epochs)]
    BY <2>6 DEF Init
  <2>8. {totalCreditsIssued, lastPostedEpoch, lastFinalEpoch, lastFinalAt, cumulativeCredited,
         cumulativeExit, pendingRelayerEta, pendingSince} \subseteq Nat
    BY <2>1, <2>2 DEF Init
  <2>9. /\ relayer \in Relayers /\ pendingRelayer \in Relayers \cup {NoOne}
        /\ stakingBound \in BOOLEAN
    BY DEF Init
  <2> QED BY <2>1, <2>3, <2>5, <2>7, <2>8, <2>9 DEF TypeOK
<1>3. OneAnchorWaits
  BY FirstEpochType DEF Init, OneAnchorWaits, Epochs
<1> QED BY <1>2, <1>3, FirstEpochType 
  DEF Init, IndInv, CreditsAreBacked, WaitingFits, WaitingIsOver

-----------------------------------------------------------------------------
(* One lemma per action that touches the anchors. *)

LEMMA PostAnchorKeeps ==
    ASSUME IndInv, NEW r \in Relayers, NEW e \in Epochs, NEW rep \in Reports, PostAnchor(r, e, rep)
    PROVE  IndInv'
<1> USE DEF IndInv
<1>1. rep \in [credited : Nat, exits : Nat, l2Block : Nat, rooted : BOOLEAN]
  BY AnchorInputs
<1>2. now \in Nat /\ lastPostedEpoch \in Nat /\ anchors \in [Epochs -> Anchor] /\ e \in Nat
  BY AnchorSizes DEF TypeOK, Times, Epochs
<1>3. /\ e = lastPostedEpoch + 1 /\ lastPostedEpoch' = e
      /\ previousResolved(e) /\ FitsTheLedger(e, rep)
      /\ anchors' = [anchors EXCEPT ![e] =
                        [state |-> "POSTED", postedAt |-> now, finalizedAt |-> 0,
                         credited |-> rep.credited, exits |-> rep.exits,
                         l2Block |-> rep.l2Block, agreeingCount |-> 0]]
      /\ UNCHANGED <<now, totalCreditsIssued, finalVars, markVars, adminVars>>
  BY DEF PostAnchor
<1>4. TypeOK'
  <2>1. anchors' \in [Epochs -> Anchor]
    BY <1>1, <1>2, <1>3 DEF Anchor
  <2> QED BY <1>2, <1>3, <2>1 DEF TypeOK, finalVars, markVars, adminVars
<1>5. OneAnchorWaits'
  <2> SUFFICES ASSUME NEW d \in Epochs
               PROVE  /\ firstEpoch <= d /\ d < e => anchors'[d].state \in Resolved
                      /\ d > e \/ d < firstEpoch => anchors'[d].state = "NONE"
    BY <1>3 DEF OneAnchorWaits
  <2>1. d # e => anchors'[d] = anchors[d]
    BY <1>2, <1>3
  <2>2. CASE d = e - 1
    BY <1>2, <1>3, <2>1, <2>2, FirstEpochType DEF previousResolved, OneAnchorWaits, Epochs
  <2>3. CASE d # e - 1
    BY <1>2, <1>3, <2>1, <2>3, FirstEpochType DEF OneAnchorWaits, Epochs
  <2> QED BY <2>2, <2>3
<1>6. WaitingFits'
  <2> SUFFICES ASSUME NEW d \in Epochs, anchors'[d].state = "POSTED"
               PROVE  /\ cumulativeCredited + anchors'[d].credited <= totalCreditsIssued
                      /\ cumulativeExit + anchors'[d].exits
                           <= cumulativeCredited + anchors'[d].credited
    BY <1>3 DEF WaitingFits, finalVars
  <2>1. CASE d = e
    BY <1>2, <1>3, <2>1 DEF FitsTheLedger
  <2>2. CASE d # e
    BY <1>2, <1>3, <2>2 DEF WaitingFits
  <2> QED BY <2>1, <2>2
<1>7. firstEpoch - 1 <= lastPostedEpoch'
  BY <1>2, <1>3, FirstEpochType
<1>8. CreditsAreBacked'
  BY <1>3 DEF CreditsAreBacked, finalVars
<1>9. WaitingIsOver'
  BY <1>2, <1>3, <1>5 DEF PostAnchor, WaitingIsOver
<1> QED BY <1>4, <1>5, <1>6, <1>7, <1>8, <1>9

LEMMA FinalizeFinalKeeps ==
    ASSUME IndInv, NEW e \in Epochs, NEW v \in Votes \cup {NoVotes}, FinalizeFinal(e, v)
    PROVE  IndInv'
<1> USE DEF IndInv
<1>1. v.agreeingCount \in Nat
  BY AnchorInputs DEF NoVotes
<1>2. /\ now \in Nat /\ lastPostedEpoch \in Nat /\ anchors \in [Epochs -> Anchor] /\ e \in Nat
      /\ anchors[e] \in Anchor
      /\ {cumulativeCredited, cumulativeExit, totalCreditsIssued} \subseteq Nat
  <2>1. now \in Nat /\ e \in Nat
    BY AnchorSizes DEF TypeOK, Times, Epochs
  <2> QED BY <2>1 DEF TypeOK
<1>3. /\ anchors[e].state = "POSTED"
      /\ anchors' = [anchors EXCEPT ![e] = Finalized(anchors[e], v)]
      /\ cumulativeCredited' = cumulativeCredited + anchors[e].credited
      /\ cumulativeExit' = cumulativeExit + anchors[e].exits
      /\ lastFinalEpoch' = e /\ lastFinalAt' = now
      /\ finalHead' = HeadWith(finalHead, e)
      /\ dayHead' = [dayHead EXCEPT ![dayOf(e)] = HeadWith(finalHead, e)]
      /\ UNCHANGED <<now, totalCreditsIssued, lastPostedEpoch, markVars, adminVars>>
  BY DEF FinalizeFinal, Finalizable
<1>4. e = lastPostedEpoch
  BY <1>2, <1>3, WaitingIsLast
<1>5. TypeOK'
  <2>1. anchors' \in [Epochs -> Anchor]
    BY <1>1, <1>2, <1>3, FinalizedType
  <2>2. HeadWith(finalHead, e) \in Seq(Epochs)
    BY DEF HeadWith, TypeOK
  <2>3. dayHead' \in [Days -> Seq(Epochs)]
    BY <1>3, <2>2 DEF TypeOK
  <2>4. cumulativeCredited' \in Nat /\ cumulativeExit' \in Nat
    BY <1>2, <1>3 DEF Anchor
  <2> QED BY <1>2, <1>3, <2>1, <2>2, <2>3, <2>4 DEF TypeOK, markVars, adminVars
<1>6. \A d \in Epochs : d # e => anchors'[d] = anchors[d]
  BY <1>2, <1>3
<1>7. anchors'[e].state = "FINAL"
  BY <1>1, <1>2, <1>3, FinalizedType
<1>8. OneAnchorWaits'
  BY <1>2, <1>3, <1>4, <1>6, <1>7 DEF OneAnchorWaits, Epochs
<1>9. WaitingFits' /\ WaitingIsOver'
  <2>1. \A d \in Epochs : anchors'[d].state # "POSTED"
    BY <1>2, <1>4, <1>6, <1>7, WaitingIsLast
  <2> QED BY <2>1 DEF WaitingFits, WaitingIsOver
<1>10. CreditsAreBacked'
  BY <1>2, <1>3 DEF WaitingFits, CreditsAreBacked, Anchor
<1> QED BY <1>3, <1>5, <1>8, <1>9, <1>10

\* A dispute and a veto resolve the waiting anchor and leave the ledger alone.
LEMMA RejectionKeeps ==
    ASSUME IndInv, NEW e \in Epochs, NEW outcome \in {"VETOED", "DISPUTED"},
           anchors[e].state = "POSTED",
           anchors' = [anchors EXCEPT ![e] = Rejected(anchors[e], outcome)],
           vetoMarks' \in Marks, disputeMarks' \in Marks,
           UNCHANGED <<now, totalCreditsIssued, lastPostedEpoch, finalVars, adminVars>>
    PROVE  IndInv'
<1> USE DEF IndInv
<1>1. /\ lastPostedEpoch \in Nat /\ anchors \in [Epochs -> Anchor] /\ e \in Nat
      /\ anchors[e] \in Anchor
  <2>1. e \in Nat
    BY AnchorSizes DEF Epochs
  <2> QED BY <2>1 DEF TypeOK
<1>2. e = lastPostedEpoch
  BY <1>1, WaitingIsLast
<1>3. TypeOK'
  <2>1. anchors' \in [Epochs -> Anchor]
    BY <1>1, RejectedType
  <2> QED BY <2>1 DEF TypeOK, finalVars, adminVars
<1>4. /\ \A d \in Epochs : d # e => anchors'[d] = anchors[d]
      /\ anchors'[e].state = outcome
  BY <1>1, RejectedType
<1>5. OneAnchorWaits'
  BY <1>1, <1>2, <1>4 DEF OneAnchorWaits, Epochs, Resolved
<1>6. WaitingFits' /\ WaitingIsOver'
  <2>1. \A d \in Epochs : anchors'[d].state # "POSTED"
    BY <1>1, <1>2, <1>4, WaitingIsLast
  <2> QED BY <2>1 DEF WaitingFits, WaitingIsOver
<1> QED BY <1>3, <1>5, <1>6 DEF CreditsAreBacked, finalVars

\* Steps that leave the anchors alone: time, a deposit, the admin's queue.
LEMMA OthersKeep ==
    ASSUME IndInv,
           UNCHANGED <<anchors, lastPostedEpoch, finalVars, markVars>>,
           now' \in Times, now <= now', totalCreditsIssued' \in Nat, totalCreditsIssued <= totalCreditsIssued',
           relayer' \in Relayers, pendingRelayer' \in Relayers \cup {NoOne},
           pendingRelayerEta' \in Nat, pendingSince' \in Nat, stakingBound' \in BOOLEAN
    PROVE  IndInv'
<1> USE DEF IndInv
<1>1. /\ anchors \in [Epochs -> Anchor]
      /\ {cumulativeCredited, cumulativeExit, totalCreditsIssued} \subseteq Nat
  BY DEF TypeOK
<1>2. TypeOK'
  BY DEF TypeOK, finalVars, markVars
<1>3. WaitingFits'
  <2> SUFFICES ASSUME NEW e \in Epochs, anchors[e].state = "POSTED"
               PROVE  /\ cumulativeCredited + anchors[e].credited <= totalCreditsIssued'
                      /\ cumulativeExit + anchors[e].exits
                           <= cumulativeCredited + anchors[e].credited
    BY DEF WaitingFits, finalVars
  <2>1. anchors[e] \in Anchor
    BY <1>1
  <2> QED BY <1>1, <2>1 DEF WaitingFits, Anchor
<1>4. CreditsAreBacked' /\ OneAnchorWaits'
  BY <1>1 DEF CreditsAreBacked, OneAnchorWaits, finalVars
<1>5. WaitingIsOver'
  <2> SUFFICES ASSUME NEW e \in Epochs, anchors[e].state = "POSTED" PROVE now' >= (e + 1) * EPOCH
    BY DEF WaitingIsOver
  <2>1. now >= (e + 1) * EPOCH
    BY DEF WaitingIsOver
  <2>2. (e + 1) * EPOCH \in Nat
    <3>1. e \in Nat /\ EPOCH \in Nat
      BY AnchorSizes DEF Epochs
    <3> QED BY <3>1
  <2>3. now \in Nat /\ now' \in Nat
    BY AnchorSizes DEF TypeOK, Times
  <2> QED BY <2>1, <2>2, <2>3
<1> QED BY <1>2, <1>3, <1>4, <1>5

LEMMA NextIndInv == IndInv /\ [Next]_vars => IndInv'
<1> SUFFICES ASSUME IndInv, [Next]_vars PROVE IndInv'
  OBVIOUS
<1>1. /\ now \in Times /\ now \in Nat /\ ADMIN_TIMELOCK \in Nat
      /\ totalCreditsIssued \in Nat /\ pendingRelayerEta \in Nat /\ pendingSince \in Nat
      /\ relayer \in Relayers /\ pendingRelayer \in Relayers \cup {NoOne}
      /\ stakingBound \in BOOLEAN /\ vetoMarks \in Marks /\ disputeMarks \in Marks
  BY AnchorSizes DEF IndInv, TypeOK, Times
<1>2. CASE Tick
  BY <1>1, <1>2, OthersKeep, AnchorSizes DEF Tick, Times, adminVars
<1>3. ASSUME NEW amount \in Deposits, CreditsIssued(amount) PROVE IndInv'
  <2>1. amount \in Nat
    BY AnchorInputs
  <2> QED BY <1>1, <1>3, <2>1, OthersKeep DEF CreditsIssued, adminVars
<1>4. ASSUME NEW r \in Relayers, NEW e \in Epochs, NEW rep \in Reports, PostAnchor(r, e, rep)
      PROVE IndInv'
  BY <1>4, PostAnchorKeeps
<1>5. ASSUME NEW e \in Epochs, NEW v \in Votes \cup {NoVotes}, FinalizeDisputed(e, v)
      PROVE IndInv'
  <2>1. disputeMarks' \in Marks
    BY <1>1, <1>5, DayType, MarkType DEF FinalizeDisputed
  <2> QED BY <1>1, <1>5, <2>1, RejectionKeeps DEF FinalizeDisputed, Finalizable
<1>6. ASSUME NEW e \in Epochs, NEW v \in Votes \cup {NoVotes}, FinalizeFinal(e, v)
      PROVE IndInv'
  BY <1>6, FinalizeFinalKeeps
<1>7. ASSUME NEW e \in Epochs, Veto(e) PROVE IndInv'
  <2>1. vetoMarks' \in Marks
    BY <1>1, <1>7, DayType, MarkType DEF Veto
  <2> QED BY <1>1, <1>7, <2>1, RejectionKeeps DEF Veto
<1>8. ASSUME NEW r \in Relayers, ProposeRelayer(r) PROVE IndInv'
  BY <1>1, <1>8, OthersKeep DEF ProposeRelayer, newEta
<1>9. CASE ExecuteRelayerRotation
  BY <1>1, <1>9, OthersKeep DEF ExecuteRelayerRotation
<1>10. CASE CancelRelayerRotation
  BY <1>1, <1>10, OthersKeep DEF CancelRelayerRotation
<1>11. CASE SetValidatorStaking
  BY <1>1, <1>11, OthersKeep DEF SetValidatorStaking
<1>12. CASE UNCHANGED vars
  BY <1>1, <1>12, OthersKeep DEF vars, adminVars
<1> QED
  BY <1>2, <1>3, <1>4, <1>5, <1>6, <1>7, <1>8, <1>9, <1>10, <1>11, <1>12 DEF Next

LEMMA IndInvHolds == Spec => []IndInv
BY InitIndInv, NextIndInv, PTL DEF Spec

-----------------------------------------------------------------------------
(* Theorems *)

\* Every reachable state of the anchor contract has its type, the two windows included.
THEOREM TypeCorrect == Spec => []TypeOK
<1>1. IndInv => TypeOK
  BY DEF IndInv
<1> QED BY <1>1, IndInvHolds, PTL

\* postAnchor's check 7 holds over time: the layer is never credited more than was deposited, and
\* never lets out more than it was credited.
THEOREM LedgerIsBacked == Spec => []CreditsAreBacked
<1>1. IndInv => CreditsAreBacked
  BY DEF IndInv
<1> QED BY <1>1, IndInvHolds, PTL

\* Anchors are resolved one at a time and in order.
THEOREM AnchorsAreSequential == Spec => []OneAnchorWaits
<1>1. IndInv => OneAnchorWaits
  BY DEF IndInv
<1> QED BY <1>1, IndInvHolds, PTL
-----------------------------------------------------------------------------
(* Action properties *)

\* A step leaves a resolved anchor, and every epoch but the one it resolves, as it is.
LEMMA OnlyTheWaitingChanges ==
    ASSUME IndInv, [Next]_vars, NEW e \in Epochs, anchors[e].state \in Resolved
    PROVE  anchors'[e] = anchors[e]
<1>1. /\ lastPostedEpoch \in Nat /\ anchors \in [Epochs -> Anchor] /\ OneAnchorWaits
      /\ e \in Nat
  <2>1. e \in Nat
    BY AnchorSizes DEF Epochs
  <2> QED BY <2>1 DEF IndInv, TypeOK
<1>2. anchors[e].state # "POSTED" /\ anchors[e].state # "NONE"
  BY DEF Resolved
<1>3. ASSUME NEW r \in Relayers, NEW d \in Epochs, NEW rep \in Reports, PostAnchor(r, d, rep)
      PROVE anchors'[e] = anchors[e]
  <2>1. d > lastPostedEpoch
    BY <1>1, <1>3 DEF PostAnchor
  <2>2. d # e
    BY <1>1, <1>2, <2>1 DEF OneAnchorWaits
  <2> QED BY <1>1, <1>3, <2>2 DEF PostAnchor
<1>4. ASSUME NEW d \in Epochs, NEW v \in Votes \cup {NoVotes}, FinalizeDisputed(d, v)
      PROVE anchors'[e] = anchors[e]
  BY <1>1, <1>2, <1>4 DEF FinalizeDisputed, Finalizable
<1>5. ASSUME NEW d \in Epochs, NEW v \in Votes \cup {NoVotes}, FinalizeFinal(d, v)
      PROVE anchors'[e] = anchors[e]
  BY <1>1, <1>2, <1>5 DEF FinalizeFinal, Finalizable
<1>6. ASSUME NEW d \in Epochs, Veto(d) PROVE anchors'[e] = anchors[e]
  BY <1>1, <1>2, <1>6 DEF Veto
<1> QED
  BY <1>3, <1>4, <1>5, <1>6
  DEF Next, Tick, CreditsIssued, ProposeRelayer, ExecuteRelayerRotation, CancelRelayerRotation,
      SetValidatorStaking, vars

\* A resolution is for good: no veto after FINAL, no second finalize, no anchor posted again.
THEOREM ResolutionsAreFinal == Spec => ResolvedForGood
<1>1. IndInv /\ [Next]_vars
        => [\A e \in Epochs : anchors[e].state \in Resolved => anchors'[e] = anchors[e]]_vars
  BY OnlyTheWaitingChanges
<1> QED BY <1>1, IndInvHolds, PTL DEF Spec, ResolvedForGood

\* The posting cursor only moves forward.
LEMMA CursorAdvances ==
    ASSUME IndInv, [Next]_vars PROVE lastPostedEpoch' \in Nat /\ lastPostedEpoch <= lastPostedEpoch'
<1>1. lastPostedEpoch \in Nat
  BY DEF IndInv, TypeOK
<1> QED
  BY <1>1 DEF Next, Tick, CreditsIssued, PostAnchor, FinalizeDisputed, FinalizeFinal, Veto,
      ProposeRelayer, ExecuteRelayerRotation, CancelRelayerRotation, SetValidatorStaking, vars

\* Only finalizing an epoch of a day moves the head of the day, and the epoch is the last posted.
LEMMA SealedHeadStays ==
    ASSUME IndInv, [Next]_vars, NEW d \in Days, sealedDay(d)
    PROVE  dayHead'[d] = dayHead[d]
<1>1. /\ lastPostedEpoch \in Nat /\ dayHead \in [Days -> Seq(Epochs)] /\ OneAnchorWaits
  BY DEF IndInv, TypeOK
<1>2. ASSUME NEW e \in Epochs, NEW v \in Votes \cup {NoVotes}, FinalizeFinal(e, v)
      PROVE dayHead'[d] = dayHead[d]
  <2>1. e = lastPostedEpoch
    BY <1>1, <1>2, WaitingIsLast DEF FinalizeFinal, Finalizable
  <2>2. EPOCHS_PER_DAY \in Nat \ {0} /\ d \in Nat
    <3>1. EPOCHS_PER_DAY \in Nat \ {0} /\ MaxEpoch \in Nat
      BY AnchorSizes
    <3>2. MaxEpoch \div EPOCHS_PER_DAY \in Nat
      BY <3>1, DivBounds
    <3> QED BY <3>1, <3>2 DEF Days
  <2>3. (d + 1) * EPOCHS_PER_DAY <= e
    <3>1. (d + 1) * EPOCHS_PER_DAY \in Nat
      BY <2>2
    <3> QED BY <1>1, <2>1, <3>1 DEF sealedDay
  <2>4. d + 1 <= dayOf(e)
    <3>1. d + 1 \in Nat /\ e \in Nat
      BY <1>1, <2>1, <2>2
    <3> QED BY <2>2, <2>3, <3>1, DivAtLeast DEF dayOf
  <2>5. dayOf(e) # d
    BY <2>2, <2>4, DayType
  <2> QED BY <1>1, <1>2, <2>5 DEF FinalizeFinal
<1> QED
  BY <1>2 DEF Next, Tick, CreditsIssued, PostAnchor, FinalizeDisputed, Veto, ProposeRelayer,
      ExecuteRelayerRotation, CancelRelayerRotation, SetValidatorStaking, vars, finalVars

\* Once dayHeadOf reports a day as sealed, the head validators attest to never moves again.
THEOREM SealedDaysStay == Spec => SealedDayNeverMoves
<1>1. ASSUME IndInv, [Next]_vars, NEW d \in Days, sealedDay(d)
      PROVE  dayHead'[d] = dayHead[d] /\ sealedDay(d)'
  <2>1. lastPostedEpoch \in Nat /\ lastPostedEpoch' \in Nat /\ lastPostedEpoch <= lastPostedEpoch'
    BY <1>1, CursorAdvances DEF IndInv, TypeOK
  <2>2. (d + 1) * EPOCHS_PER_DAY - 1 \in Int
    <3>1. EPOCHS_PER_DAY \in Nat \ {0} /\ MaxEpoch \in Nat
      BY AnchorSizes
    <3>2. d \in Int
      BY <3>1, DivBounds DEF Days
    <3> QED BY <3>1, <3>2
  <2> QED BY <1>1, <2>1, <2>2, SealedHeadStays DEF sealedDay
<1>2. IndInv /\ [Next]_vars
        => [\A d \in Days : sealedDay(d) => dayHead'[d] = dayHead[d] /\ sealedDay(d)']_vars
  BY <1>1
<1> QED BY <1>2, IndInvHolds, PTL DEF Spec, SealedDayNeverMoves

-----------------------------------------------------------------------------
(* The records: what finalizing and rejecting write about the anchors is what became of them. *)

\* Epochs are finitely many, and an epoch is a number.
LEMMA EpochsFinite == IsFiniteSet(Epochs) /\ \A e \in Epochs : e \in Nat
<1>1. MaxEpoch \in Nat
  BY AnchorSizes
<1> QED BY <1>1, FS_Interval DEF Epochs

\* Only finalizing makes an anchor FINAL or writes a figure or a head.
LEMMA WhoFinalizes ==
    ASSUME IndInv, [Next]_vars
    PROVE  \/ \E e \in Epochs, v \in Votes \cup {NoVotes} : FinalizeFinal(e, v)
           \/ /\ UNCHANGED finalVars
              /\ \A d \in Epochs : anchors[d].state = "FINAL" => anchors'[d] = anchors[d]
              /\ \A d \in Epochs : anchors'[d].state = "FINAL" => anchors'[d] = anchors[d]
<1>1. anchors \in [Epochs -> Anchor]
  BY DEF IndInv, TypeOK
<1>2. \A d \in Epochs : anchors[d].state = "FINAL" => anchors'[d] = anchors[d]
  BY OnlyTheWaitingChanges DEF Resolved
<1>3. ASSUME NEW r \in Relayers, NEW e \in Epochs, NEW rep \in Reports, PostAnchor(r, e, rep)
      PROVE  /\ UNCHANGED finalVars
             /\ \A d \in Epochs : anchors'[d].state = "FINAL" => anchors'[d] = anchors[d]
  <2>1. anchors'[e].state = "POSTED" /\ \A d \in Epochs \ {e} : anchors'[d] = anchors[d]
    BY <1>1, <1>3 DEF PostAnchor
  <2> QED BY <1>3, <2>1 DEF PostAnchor
<1>4. ASSUME NEW e \in Epochs, NEW outcome \in {"VETOED", "DISPUTED"},
             anchors' = [anchors EXCEPT ![e] = Rejected(anchors[e], outcome)]
      PROVE  \A d \in Epochs : anchors'[d].state = "FINAL" => anchors'[d] = anchors[d]
  <2>1. anchors'[e].state = outcome /\ \A d \in Epochs \ {e} : anchors'[d] = anchors[d]
    BY <1>1, <1>4, RejectedType
  <2> QED BY <2>1
<1> QED
  BY <1>2, <1>3, <1>4
  DEF Next, Tick, CreditsIssued, FinalizeDisputed, Veto, ProposeRelayer, ExecuteRelayerRotation,
      CancelRelayerRotation, SetValidatorStaking, vars

\* What finalizing does to the anchors, the figures and the heads.
LEMMA FinalizeWrites ==
    ASSUME IndInv, NEW e \in Epochs, NEW v \in Votes \cup {NoVotes}, FinalizeFinal(e, v)
    PROVE  /\ anchors[e].state = "POSTED" /\ anchors'[e].state = "FINAL"
           /\ anchors'[e].credited = anchors[e].credited /\ anchors'[e].exits = anchors[e].exits
           /\ \A d \in Epochs \ {e} : anchors'[d] = anchors[d]
           /\ cumulativeCredited' = cumulativeCredited + anchors[e].credited
           /\ cumulativeExit' = cumulativeExit + anchors[e].exits
           /\ finalHead' = Append(finalHead, e)
           /\ dayHead' = [dayHead EXCEPT ![dayOf(e)] = Append(finalHead, e)]
<1>1. v.agreeingCount \in Nat
  BY AnchorInputs DEF NoVotes
<1>2. anchors \in [Epochs -> Anchor] /\ anchors[e] \in Anchor /\ now \in Nat
  BY AnchorSizes DEF IndInv, TypeOK, Times
<1>3. anchors' = [anchors EXCEPT ![e] = Finalized(anchors[e], v)]
  BY DEF FinalizeFinal
<1>4. /\ Finalized(anchors[e], v).state = "FINAL"
      /\ Finalized(anchors[e], v).credited = anchors[e].credited
      /\ Finalized(anchors[e], v).exits = anchors[e].exits
  BY <1>2 DEF Finalized, Anchor
<1> QED BY <1>2, <1>3, <1>4 DEF FinalizeFinal, Finalizable, HeadWith

-----------------------------------------------------------------------------
(* The cumulative figures *)

CreditedOf(a) == [e \in Epochs |-> IF a[e].state = "FINAL" THEN a[e].credited ELSE 0]
ExitsOf(a) == [e \in Epochs |-> IF a[e].state = "FINAL" THEN a[e].exits ELSE 0]

LEMMA FiguresStart == Init => CumulativesAreFinal
<1> SUFFICES ASSUME Init PROVE CumulativesAreFinal
  OBVIOUS
<1>1. \A e \in Epochs : CreditedOf(anchors)[e] = 0 /\ ExitsOf(anchors)[e] = 0
  BY DEF Init, CreditedOf, ExitsOf
<1>2. DOMAIN CreditedOf(anchors) = Epochs /\ DOMAIN ExitsOf(anchors) = Epochs
  BY DEF CreditedOf, ExitsOf
<1>3. SumFunction(CreditedOf(anchors)) = 0 /\ SumFunction(ExitsOf(anchors)) = 0
  BY <1>1, <1>2, EpochsFinite, SumOfNone
<1>4. cumulativeCredited = 0 /\ cumulativeExit = 0
  BY DEF Init
<1> QED BY <1>3, <1>4 DEF CumulativesAreFinal, CreditedOf, ExitsOf

LEMMA FiguresFollow ==
    ASSUME IndInv, CumulativesAreFinal, [Next]_vars
    PROVE  CumulativesAreFinal'
<1>1. /\ anchors \in [Epochs -> Anchor]
      /\ cumulativeCredited = SumFunction(CreditedOf(anchors))
      /\ cumulativeExit = SumFunction(ExitsOf(anchors))
  BY DEF IndInv, TypeOK, CumulativesAreFinal, CreditedOf, ExitsOf
<1>2. CreditedOf(anchors) \in [Epochs -> Nat] /\ ExitsOf(anchors) \in [Epochs -> Nat]
  BY <1>1 DEF CreditedOf, ExitsOf, Anchor
<1>3. SUFFICES /\ cumulativeCredited' = SumFunction(CreditedOf(anchors'))
               /\ cumulativeExit' = SumFunction(ExitsOf(anchors'))
  BY DEF CumulativesAreFinal, CreditedOf, ExitsOf
<1>4. ASSUME NEW e \in Epochs, NEW v \in Votes \cup {NoVotes}, FinalizeFinal(e, v)
      PROVE  /\ cumulativeCredited' = SumFunction(CreditedOf(anchors'))
             /\ cumulativeExit' = SumFunction(ExitsOf(anchors'))
  <2>1. /\ anchors[e].state = "POSTED" /\ anchors'[e].state = "FINAL"
        /\ anchors'[e].credited = anchors[e].credited /\ anchors'[e].exits = anchors[e].exits
        /\ \A d \in Epochs \ {e} : anchors'[d] = anchors[d]
        /\ cumulativeCredited' = cumulativeCredited + anchors[e].credited
        /\ cumulativeExit' = cumulativeExit + anchors[e].exits
    BY <1>4, FinalizeWrites
  <2>2. anchors[e].credited \in Nat /\ anchors[e].exits \in Nat
    BY <1>1 DEF Anchor
  <2>3. CreditedOf(anchors)[e] = 0 /\ ExitsOf(anchors)[e] = 0
    BY <2>1 DEF CreditedOf, ExitsOf
  <2>4. CreditedOf(anchors') = [CreditedOf(anchors) EXCEPT ![e] = anchors[e].credited]
    BY <2>1 DEF CreditedOf
  <2>5. ExitsOf(anchors') = [ExitsOf(anchors) EXCEPT ![e] = anchors[e].exits]
    BY <2>1 DEF ExitsOf
  <2>6. /\ SumFunction(CreditedOf(anchors)) \in Nat
        /\ SumFunction(CreditedOf(anchors')) = SumFunction(CreditedOf(anchors)) + anchors[e].credited
    <3> DEFINE c == CreditedOf(anchors)
               n == anchors[e].credited
    <3>1. IsFiniteSet(Epochs) /\ c \in [Epochs -> Nat] /\ n \in Nat /\ c[e] = 0
      BY <1>2, <2>2, <2>3, EpochsFinite
    <3> HIDE DEF c, n
    <3>2. SumFunction(c) \in Nat /\ SumFunction([c EXCEPT ![e] = n]) = SumFunction(c) - c[e] + n
      BY <3>1, SumMoves
    <3>3. SumFunction([c EXCEPT ![e] = n]) = SumFunction(c) + n
      BY <3>1, <3>2
    <3> QED BY <2>4, <3>2, <3>3 DEF c, n
  <2>7. /\ SumFunction(ExitsOf(anchors)) \in Nat
        /\ SumFunction(ExitsOf(anchors')) = SumFunction(ExitsOf(anchors)) + anchors[e].exits
    <3> DEFINE c == ExitsOf(anchors)
               n == anchors[e].exits
    <3>1. IsFiniteSet(Epochs) /\ c \in [Epochs -> Nat] /\ n \in Nat /\ c[e] = 0
      BY <1>2, <2>2, <2>3, EpochsFinite
    <3> HIDE DEF c, n
    <3>2. SumFunction(c) \in Nat /\ SumFunction([c EXCEPT ![e] = n]) = SumFunction(c) - c[e] + n
      BY <3>1, SumMoves
    <3>3. SumFunction([c EXCEPT ![e] = n]) = SumFunction(c) + n
      BY <3>1, <3>2
    <3> QED BY <2>5, <3>2, <3>3 DEF c, n
  <2> QED BY <1>1, <2>1, <2>2, <2>6, <2>7
<1>5. CASE /\ UNCHANGED finalVars
           /\ \A d \in Epochs : anchors[d].state = "FINAL" => anchors'[d] = anchors[d]
           /\ \A d \in Epochs : anchors'[d].state = "FINAL" => anchors'[d] = anchors[d]
  <2>1. CreditedOf(anchors') = CreditedOf(anchors)
    BY <1>5 DEF CreditedOf
  <2>2. ExitsOf(anchors') = ExitsOf(anchors)
    BY <1>5 DEF ExitsOf
  <2> QED BY <1>1, <1>5, <2>1, <2>2 DEF finalVars
<1> QED BY <1>4, <1>5, WhoFinalizes

-----------------------------------------------------------------------------
(* The chained heads *)

\* The head, as a sequence, holds exactly the epochs of a set, in order.
Chained(head, S) ==
    /\ Range(head) = S
    /\ \A i, j \in DOMAIN head : i < j => head[i] < head[j]
FinalsOf(a) == {e \in Epochs : a[e].state = "FINAL"}
FinalsUntil(a, d) == {e \in FinalsOf(a) : dayOf(e) <= d}
DayIsChained(a, head, d) ==
    IF \E e \in FinalsOf(a) : dayOf(e) = d THEN Chained(head, FinalsUntil(a, d)) ELSE head = << >>

LEMMA ChainGrows ==
    ASSUME NEW S \in SUBSET Epochs, NEW head \in Seq(Epochs), Chained(head, S), NEW e \in Epochs,
           \A d \in S : d < e
    PROVE  Chained(Append(head, e), S \cup {e})
<1> DEFINE n == Len(head)
           longer == Append(head, e)
<1>1. /\ n \in Nat /\ DOMAIN head = 1..n /\ DOMAIN longer = 1..n + 1
      /\ longer[n + 1] = e /\ \A i \in 1..n : longer[i] = head[i]
  OBVIOUS
<1>2. \A i \in 1..n : head[i] \in S
  BY <1>1 DEF Chained, Range
<1> HIDE DEF longer
<1>3. Range(longer) = S \cup {e}
  <2>1. Range(longer) \subseteq S \cup {e}
    <3>1. ASSUME NEW i \in 1..n + 1 PROVE longer[i] \in S \cup {e}
      <4>1. CASE i \in 1..n
        BY <1>1, <1>2, <4>1
      <4>2. CASE i = n + 1
        BY <1>1, <4>2
      <4> QED BY <1>1, <4>1, <4>2
    <3> QED BY <1>1, <3>1 DEF Range
  <2>2. ASSUME NEW d \in S \cup {e} PROVE d \in Range(longer)
    <3>1. CASE d = e
      BY <1>1, <3>1 DEF Range
    <3>2. CASE d \in S
      <4>1. PICK i \in 1..n : head[i] = d
        BY <1>1, <3>2 DEF Chained, Range
      <4>2. i \in 1..n + 1 /\ longer[i] = d
        BY <1>1, <4>1
      <4> QED BY <1>1, <4>2 DEF Range
    <3> QED BY <3>1, <3>2
  <2> QED BY <2>1, <2>2
<1>4. ASSUME NEW i \in 1..n + 1, NEW j \in 1..n + 1, i < j PROVE longer[i] < longer[j]
  <2>1. i \in 1..n /\ longer[i] = head[i] /\ head[i] < e
    BY <1>1, <1>2, <1>4
  <2>2. CASE j = n + 1
    BY <1>1, <2>1, <2>2
  <2>3. CASE j \in 1..n
    BY <1>1, <1>4, <2>1, <2>3 DEF Chained
  <2> QED BY <1>1, <2>2, <2>3
<1> QED BY <1>1, <1>3, <1>4 DEF Chained, longer

LEMMA HeadsStart == Init => HeadsChainFinalAnchors
<1> SUFFICES ASSUME Init PROVE HeadsChainFinalAnchors
  OBVIOUS
<1>1. FinalsOf(anchors) = {}
  BY DEF Init, FinalsOf
<1>2. DOMAIN << >> = {}
  OBVIOUS
<1>3. Chained(<< >>, {})
  BY <1>2 DEF Chained, Range
<1>4. finalHead = << >> /\ \A d \in Days : dayHead[d] = << >>
  BY DEF Init
<1> QED BY <1>1, <1>3, <1>4 DEF HeadsChainFinalAnchors, FinalsOf, Chained

LEMMA HeadsFollow ==
    ASSUME IndInv, HeadsChainFinalAnchors, [Next]_vars
    PROVE  HeadsChainFinalAnchors'
<1>1. /\ anchors \in [Epochs -> Anchor] /\ OneAnchorWaits /\ lastPostedEpoch \in Nat
      /\ finalHead \in Seq(Epochs) /\ dayHead \in [Days -> Seq(Epochs)]
  BY DEF IndInv, TypeOK
<1>2. /\ Chained(finalHead, FinalsOf(anchors))
      /\ \A d \in Days : DayIsChained(anchors, dayHead[d], d)
  BY DEF HeadsChainFinalAnchors, Chained, FinalsOf, FinalsUntil, DayIsChained
<1>3. SUFFICES /\ Chained(finalHead', FinalsOf(anchors'))
               /\ \A d \in Days : DayIsChained(anchors', dayHead'[d], d)
  BY DEF HeadsChainFinalAnchors, Chained, FinalsOf, FinalsUntil, DayIsChained
<1>4. ASSUME NEW e \in Epochs, NEW v \in Votes \cup {NoVotes}, FinalizeFinal(e, v)
      PROVE  /\ Chained(finalHead', FinalsOf(anchors'))
             /\ \A d \in Days : DayIsChained(anchors', dayHead'[d], d)
  <2>1. /\ anchors[e].state = "POSTED" /\ anchors'[e].state = "FINAL"
        /\ \A d \in Epochs \ {e} : anchors'[d] = anchors[d]
        /\ finalHead' = Append(finalHead, e)
        /\ dayHead' = [dayHead EXCEPT ![dayOf(e)] = Append(finalHead, e)]
    BY <1>4, FinalizeWrites
  <2>2. FinalsOf(anchors') = FinalsOf(anchors) \cup {e} /\ FinalsOf(anchors) \in SUBSET Epochs
    BY <2>1 DEF FinalsOf
  <2>3. \A d \in FinalsOf(anchors) : d < e
    <3>1. e = lastPostedEpoch
      BY <1>1, <2>1, WaitingIsLast
    <3> QED BY <1>1, <2>1, <3>1, EpochsFinite DEF FinalsOf, OneAnchorWaits
  <2>4. Chained(Append(finalHead, e), FinalsOf(anchors) \cup {e})
    BY <1>1, <1>2, <2>2, <2>3, ChainGrows
  <2>5. \A d \in FinalsOf(anchors) : dayOf(d) <= dayOf(e)
    <3>1. EPOCHS_PER_DAY \in Nat \ {0}
      BY AnchorSizes
    <3>2. ASSUME NEW d \in FinalsOf(anchors) PROVE dayOf(d) <= dayOf(e)
      <4>1. d \in Nat /\ e \in Nat /\ d <= e
        BY <2>2, <2>3, EpochsFinite
      <4> QED BY <3>1, <4>1, DivMonotone DEF dayOf
    <3> QED BY <3>2
  <2>6. dayOf(e) \in Days /\ \A d \in Epochs : dayOf(d) \in Nat
    BY DayType
  <2>7. ASSUME NEW d \in Days PROVE DayIsChained(anchors', dayHead'[d], d)
    <3>0. d \in Nat
      <4>1. EPOCHS_PER_DAY \in Nat \ {0} /\ MaxEpoch \in Nat
        BY AnchorSizes
      <4>2. MaxEpoch \div EPOCHS_PER_DAY \in Nat
        BY <4>1, DivBounds
      <4> QED BY <4>1, <4>2 DEF Days
    <3>1. CASE d = dayOf(e)
      <4>1. FinalsUntil(anchors', d) = FinalsOf(anchors) \cup {e}
        BY <2>2, <2>5, <2>6, <3>1 DEF FinalsUntil
      <4>2. \E f \in FinalsOf(anchors') : dayOf(f) = d
        BY <2>2, <3>1
      <4>3. dayHead'[d] = Append(finalHead, e)
        BY <1>1, <2>1, <2>6, <3>1
      <4> QED BY <2>4, <4>1, <4>2, <4>3 DEF DayIsChained
    <3>2. CASE d # dayOf(e)
      <4>1. dayHead'[d] = dayHead[d]
        BY <1>1, <2>1, <3>2
      <4>2. (\E f \in FinalsOf(anchors') : dayOf(f) = d) <=> \E f \in FinalsOf(anchors) : dayOf(f) = d
        BY <2>2, <3>2
      <4>3. ASSUME NEW f \in FinalsOf(anchors), dayOf(f) = d
            PROVE  FinalsUntil(anchors', d) = FinalsUntil(anchors, d)
        <5>1. ~(dayOf(e) <= d)
          BY <2>5, <2>6, <3>0, <3>2, <4>3
        <5> QED BY <2>2, <5>1 DEF FinalsUntil
      <4> QED BY <1>2, <4>1, <4>2, <4>3 DEF DayIsChained
    <3> QED BY <3>1, <3>2
  <2> QED BY <2>1, <2>2, <2>4, <2>7
<1>5. CASE /\ UNCHANGED finalVars
           /\ \A d \in Epochs : anchors[d].state = "FINAL" => anchors'[d] = anchors[d]
           /\ \A d \in Epochs : anchors'[d].state = "FINAL" => anchors'[d] = anchors[d]
  <2>1. FinalsOf(anchors') = FinalsOf(anchors)
    BY <1>5 DEF FinalsOf
  <2>2. finalHead' = finalHead /\ dayHead' = dayHead
    BY <1>5 DEF finalVars
  <2> QED BY <1>2, <2>1, <2>2 DEF DayIsChained, FinalsUntil
<1> QED BY <1>4, <1>5, WhoFinalizes

-----------------------------------------------------------------------------
(* The sliding windows *)

\* What the lanes of a window hold for a set of events: lane k counts the events of k days before
\* the day of the window, up to what a lane holds, and no event lies ahead of the window.
LanesCount(m, S, day) ==
    /\ m.day <= day
    /\ \A e \in S : dayOf(e) <= m.day
    /\ \A k \in Lanes : m.lanes[k] = Least(Cardinality({e \in S : m.day - dayOf(e) = k}), LANE_MAX)

With(a, outcome) == {e \in Epochs : a[e].state = outcome}

\* An epoch that is over lies on a day that has begun.
LEMMA OverIsPast ==
    ASSUME NEW e \in Epochs, now \in Nat, now >= (e + 1) * EPOCH
    PROVE  dayOf(e) <= today
<1> DEFINE q == dayOf(e)
<1>1. EPOCH \in Nat \ {0} /\ EPOCHS_PER_DAY \in Nat \ {0} /\ e \in Nat
  BY AnchorSizes, EpochsFinite
<1>2. q \in Nat /\ q * EPOCHS_PER_DAY <= e
  BY <1>1, DivBounds DEF dayOf
<1> HIDE DEF q
<1>3. (q * EPOCHS_PER_DAY) * EPOCH <= e * EPOCH
  <2>1. q * EPOCHS_PER_DAY \in Nat
    BY <1>1, <1>2
  <2> DEFINE p == q * EPOCHS_PER_DAY
  <2> HIDE DEF p
  <2>2. p \in Nat /\ p <= e
    BY <1>2, <2>1 DEF p
  <2>3. p * EPOCH <= e * EPOCH
    BY <1>1, <2>2
  <2> QED BY <2>3 DEF p
<1>4. e * EPOCH <= now
  <2>1. (e + 1) * EPOCH = e * EPOCH + EPOCH /\ e * EPOCH \in Nat
    BY <1>1
  <2> QED BY <1>1, <2>1
<1>5. q * DAY = (q * EPOCHS_PER_DAY) * EPOCH /\ DAY \in Nat \ {0} /\ q * DAY \in Nat
  BY <1>1, <1>2 DEF DAY
<1>6. q * DAY <= now
  BY <1>1, <1>3, <1>4, <1>5
<1>7. q <= now \div DAY
  BY <1>2, <1>5, <1>6, DivAtLeast
<1> QED BY <1>7 DEF today, q

\* The days that have begun only grow.
LEMMA TodayAdvances ==
    ASSUME IndInv, [Next]_vars
    PROVE  today \in Nat /\ today' \in Nat /\ today <= today'
<1>1. DAY \in Nat \ {0}
  BY AnchorSizes DEF DAY
<1>2. now \in Nat /\ now' \in Nat /\ now <= now'
  <2>1. now \in Nat
    BY AnchorSizes DEF IndInv, TypeOK, Times
  <2> QED
    BY <2>1 DEF Next, Tick, CreditsIssued, PostAnchor, FinalizeDisputed, FinalizeFinal, Veto,
        ProposeRelayer, ExecuteRelayerRotation, CancelRelayerRotation, SetValidatorStaking, vars,
        adminVars, finalVars
<1>3. now \div DAY \in Nat /\ now' \div DAY \in Nat
  BY <1>1, <1>2, DivBounds
<1>4. now \div DAY <= now' \div DAY
  BY <1>1, <1>2, DivMonotone
<1> QED BY <1>3, <1>4 DEF today

\* One more event in a set.
LEMMA OneMore ==
    ASSUME NEW S, IsFiniteSet(S), NEW T, NEW x, x \notin S, T = S \cup {x}
    PROVE  Cardinality(S) \in Nat /\ Cardinality(T) = Cardinality(S) + 1
BY FS_AddElement, FS_CardinalityType

\* _mark counts one more event, of any day that has begun: the window slides forward to it, or the
\* event is filed back, or it is older than the window.
LEMMA MarkCounts ==
    ASSUME NEW m \in Marks, NEW S \in SUBSET Epochs, NEW day \in Nat, LanesCount(m, S, day),
           NEW e \in Epochs, e \notin S, dayOf(e) <= day
    PROVE  LanesCount(Mark(m, dayOf(e)), S \cup {e}, day)
<1> DEFINE T == S \cup {e}
           d == dayOf(e)
           n == d - m.day
           In(U, top, k) == {f \in U : top - dayOf(f) = k}
<1>1. /\ m.lanes \in [Lanes -> 0..LANE_MAX] /\ m.day \in Nat /\ d \in Nat
      /\ \A f \in Epochs : dayOf(f) \in Nat
  BY DayType DEF Marks
<1>2. STREAK_WINDOW_DAYS \in Nat \ {0} /\ LANE_MAX \in Nat \ {0} /\ 0 \in Lanes
  <2>1. STREAK_WINDOW_DAYS \in Nat \ {0} /\ LANE_MAX \in Nat \ {0}
    BY AnchorSizes
  <2> QED BY <2>1 DEF Lanes
<1>3. /\ \A f \in S : dayOf(f) <= m.day
      /\ \A k \in Lanes : m.lanes[k] = Least(Cardinality(In(S, m.day, k)), LANE_MAX)
  BY DEF LanesCount
<1>4. ASSUME NEW top, NEW k PROVE IsFiniteSet(In(S, top, k)) /\ Cardinality(In(S, top, k)) \in Nat
  <2>1. IsFiniteSet(In(S, top, k))
    BY EpochsFinite, FS_Subset
  <2> HIDE DEF In
  <2> QED BY <2>1, FS_CardinalityType
<1>5. ASSUME NEW top, NEW k, top - d # k PROVE In(T, top, k) = In(S, top, k)
  BY <1>5
<1>6. ASSUME NEW top, NEW k, top - d = k
      PROVE  Cardinality(In(T, top, k)) = Cardinality(In(S, top, k)) + 1
  <2>1. In(T, top, k) = In(S, top, k) \cup {e} /\ e \notin In(S, top, k)
    BY <1>6
  <2> HIDE DEF In
  <2> QED BY <1>4, <2>1, OneMore
<1>7. CASE d >= m.day
  <2>1. Mark(m, d).day = d /\ Mark(m, d).lanes = Bump(Shifted(m.lanes, n), 0) /\ n \in Nat
    BY <1>1, <1>7 DEF Mark
  <2>2. \A f \in T : dayOf(f) <= d
    BY <1>1, <1>3, <1>7
  <2>3. ASSUME NEW k \in Lanes
        PROVE  Shifted(m.lanes, n)[k] = Least(Cardinality(In(S, d, k)), LANE_MAX)
    <3>1. CASE k >= n
      <4>1. k - n \in Lanes
        BY <1>2, <2>1, <3>1 DEF Lanes
      <4>2. In(S, d, k) = In(S, m.day, k - n)
        <5>1. ASSUME NEW f \in S PROVE d - dayOf(f) = k <=> m.day - dayOf(f) = k - n
          <6>1. dayOf(f) \in Nat /\ k \in Int
            BY <1>1, <1>2 DEF Lanes
          <6> HIDE DEF d
          <6> QED BY <1>1, <6>1
        <5> QED BY <5>1
      <4>3. Shifted(m.lanes, n)[k] = m.lanes[k - n]
        BY <3>1 DEF Shifted
      <4>4. m.lanes[k - n] = Least(Cardinality(In(S, m.day, k - n)), LANE_MAX)
        <5> HIDE DEF In, n
        <5> QED BY <1>3, <4>1
      <4> QED BY <4>2, <4>3, <4>4
    <3>2. CASE ~(k >= n)
      <4>1. In(S, d, k) = {}
        <5>1. ASSUME NEW f \in S, d - dayOf(f) = k PROVE FALSE
          <6>1. dayOf(f) \in Nat /\ k \in Int /\ dayOf(f) <= m.day
            BY <1>1, <1>2, <1>3 DEF Lanes
          <6> DEFINE z == dayOf(f)
          <6>2. z \in Nat /\ z <= m.day /\ d - z = k
            BY <5>1, <6>1
          <6> HIDE DEF d, z
          <6> QED BY <1>1, <3>2, <6>1, <6>2
        <5> QED BY <5>1
      <4>2. Cardinality(In(S, d, k)) = 0
        BY <4>1, FS_EmptySet
      <4>3. Shifted(m.lanes, n)[k] = 0
        BY <3>2 DEF Shifted
      <4>4. Least(0, LANE_MAX) = 0
        BY <1>2 DEF Least
      <4> HIDE DEF In, n
      <4> QED BY <4>2, <4>3, <4>4
    <3> QED BY <3>1, <3>2
  <2>4. ASSUME NEW k \in Lanes
        PROVE  Bump(Shifted(m.lanes, n), 0)[k] = Least(Cardinality(In(T, d, k)), LANE_MAX)
    <3> DEFINE s == Shifted(m.lanes, n)
               c == Cardinality(In(S, d, k))
    <3>1. s[k] = Least(c, LANE_MAX) /\ c \in Nat
      BY <1>4, <2>3
    <3>2. s \in [Lanes -> 0..LANE_MAX]
      BY <1>1, <2>1, ShiftedType
    <3>3. d - d = 0
      BY <1>1
    <3>4. CASE k = 0
      <4>1. Bump(s, 0)[k] = Least(s[k] + 1, LANE_MAX)
        BY <1>2, <3>2, <3>4 DEF Bump
      <4>2. Cardinality(In(T, d, k)) = c + 1
        <5> HIDE DEF In, d, T
        <5> QED BY <1>6, <3>3, <3>4
      <4>3. Least(Least(c, LANE_MAX) + 1, LANE_MAX) = Least(c + 1, LANE_MAX)
        BY <1>2, <3>1 DEF Least
      <4>4. Bump(s, 0)[k] = Least(Cardinality(In(T, d, k)), LANE_MAX)
        <5> HIDE DEF s, c, In
        <5> QED BY <3>1, <4>1, <4>2, <4>3
      <4> QED BY <4>4
    <3>5. CASE k # 0
      <4>1. Bump(s, 0)[k] = s[k]
        BY <1>2, <3>2, <3>5 DEF Bump
      <4>2. In(T, d, k) = In(S, d, k)
        <5> HIDE DEF In, d, T
        <5> QED BY <1>5, <3>3, <3>5
      <4>3. c = Cardinality(In(T, d, k))
        <5> HIDE DEF In, d, T
        <5> QED BY <4>2
      <4>4. Bump(s, 0)[k] = Least(Cardinality(In(T, d, k)), LANE_MAX)
        <5> HIDE DEF s, c, In
        <5> QED BY <3>1, <4>1, <4>3
      <4> QED BY <4>4
    <3> QED BY <3>4, <3>5
  <2> HIDE DEF n
  <2> QED BY <2>1, <2>2, <2>4 DEF LanesCount
<1>8. CASE ~(d >= m.day) /\ m.day - d < STREAK_WINDOW_DAYS
  <2>1. Mark(m, d).day = m.day /\ Mark(m, d).lanes = Bump(m.lanes, m.day - d)
    BY <1>8 DEF Mark
  <2>2. m.day - d \in Lanes
    BY <1>1, <1>2, <1>8 DEF Lanes
  <2>3. \A f \in T : dayOf(f) <= m.day
    BY <1>1, <1>3, <1>8
  <2>4. ASSUME NEW k \in Lanes
        PROVE  Bump(m.lanes, m.day - d)[k] = Least(Cardinality(In(T, m.day, k)), LANE_MAX)
    <3> DEFINE c == Cardinality(In(S, m.day, k))
    <3>1. m.lanes[k] = Least(c, LANE_MAX) /\ c \in Nat
      BY <1>3, <1>4
    <3>2. CASE m.day - d = k
      <4>1. Bump(m.lanes, m.day - d)[k] = Least(m.lanes[k] + 1, LANE_MAX)
        BY <1>1, <3>2 DEF Bump
      <4>2. Cardinality(In(T, m.day, k)) = c + 1
        <5> HIDE DEF In, d, T
        <5> QED BY <1>6, <3>2
      <4>3. Least(Least(c, LANE_MAX) + 1, LANE_MAX) = Least(c + 1, LANE_MAX)
        BY <1>2, <3>1 DEF Least
      <4> HIDE DEF c
      <4> QED BY <3>1, <4>1, <4>2, <4>3
    <3>3. CASE m.day - d # k
      <4>1. Bump(m.lanes, m.day - d)[k] = m.lanes[k]
        BY <1>1, <2>2, <3>3 DEF Bump
      <4>2. In(T, m.day, k) = In(S, m.day, k)
        <5> HIDE DEF In, d, T
        <5> QED BY <1>5, <3>3
      <4> QED BY <3>1, <4>1, <4>2
    <3> QED BY <3>2, <3>3
  <2>5. m.day <= day
    BY DEF LanesCount
  <2> QED BY <2>1, <2>3, <2>4, <2>5 DEF LanesCount
<1>9. CASE ~(d >= m.day) /\ ~(m.day - d < STREAK_WINDOW_DAYS)
  <2>1. Mark(m, d) = m
    BY <1>9 DEF Mark
  <2>2. \A f \in T : dayOf(f) <= m.day
    BY <1>1, <1>3, <1>9
  <2>3. ASSUME NEW k \in Lanes PROVE In(T, m.day, k) = In(S, m.day, k)
    <3>1. m.day - d # k
      BY <1>1, <1>2, <1>9 DEF Lanes
    <3> HIDE DEF In, d, T
    <3> QED BY <1>5, <3>1
  <2>4. ASSUME NEW k \in Lanes
        PROVE  m.lanes[k] = Least(Cardinality(In(T, m.day, k)), LANE_MAX)
    BY <1>3, <2>3
  <2>5. m.day <= day
    BY DEF LanesCount
  <2> QED BY <2>1, <2>2, <2>4, <2>5 DEF LanesCount
<1> QED BY <1>7, <1>8, <1>9

\* What _countInWindow reads off such lanes: the events of the last STREAK_WINDOW_DAYS days.
LEMMA WindowCounts ==
    ASSUME NEW m \in Marks, NEW S \in SUBSET Epochs, today \in Nat, LanesCount(m, S, today)
    PROVE  CountInWindow(m)
             = Least(Cardinality({e \in S : dayOf(e) + STREAK_WINDOW_DAYS > today}), LANE_MAX)
<1> DEFINE g == [e \in Epochs |-> m.day - dayOf(e)]
           c == [k \in Lanes |-> Cardinality({e \in S : g[e] = k})]
           age == Greatest(today - m.day, 0)
           Young == {k \in Lanes : k + age < STREAK_WINDOW_DAYS}
           Recent == {e \in S : dayOf(e) + STREAK_WINDOW_DAYS > today}
<1>1. /\ m.lanes \in [Lanes -> 0..LANE_MAX] /\ m.day \in Nat /\ m.day <= today
      /\ \A e \in Epochs : dayOf(e) \in Nat
      /\ \A e \in S : dayOf(e) <= m.day
  BY DayType DEF Marks, LanesCount
<1>2. STREAK_WINDOW_DAYS \in Nat \ {0} /\ LANE_MAX \in Nat \ {0}
  BY AnchorSizes
<1>3. IsFiniteSet(Lanes) /\ IsFiniteSet(Young) /\ IsFiniteSet(S)
  <2>1. IsFiniteSet(0..STREAK_WINDOW_DAYS - 1)
    <3>1. STREAK_WINDOW_DAYS - 1 \in Int
      BY <1>2
    <3> QED BY <3>1, FS_Interval
  <2>2. IsFiniteSet(Lanes)
    BY <2>1 DEF Lanes
  <2>3. IsFiniteSet(Young)
    BY <2>2, FS_Subset
  <2> QED BY <2>2, <2>3, EpochsFinite, FS_Subset
<1>4. age = today - m.day /\ age \in Nat
  BY <1>1 DEF Greatest
<1>5. Recent = {e \in S : g[e] \in Young}
  <2>1. ASSUME NEW e \in S
        PROVE  dayOf(e) + STREAK_WINDOW_DAYS > today <=> g[e] \in Young
    <3> DEFINE z == dayOf(e)
    <3>1. g[e] = m.day - z /\ z \in Nat /\ z <= m.day
      BY <1>1
    <3> HIDE DEF z, g, age
    <3>2. m.day - z \in Lanes /\ m.day - z + age < STREAK_WINDOW_DAYS
            <=> m.day - z + age < STREAK_WINDOW_DAYS
      BY <1>1, <1>2, <1>4, <3>1 DEF Lanes
    <3>3. z + STREAK_WINDOW_DAYS > today <=> m.day - z + age < STREAK_WINDOW_DAYS
      BY <1>1, <1>2, <1>4, <3>1
    <3> QED BY <3>1, <3>2, <3>3 DEF z
  <2> QED BY <2>1
<1>6. ASSUME NEW k \in Lanes PROVE m.lanes[k] = Least(c[k], LANE_MAX)
  <2>1. {e \in S : g[e] = k} = {e \in S : m.day - dayOf(e) = k}
    OBVIOUS
  <2> QED BY <2>1 DEF LanesCount
<1>7. \A k \in Lanes : c[k] \in Nat
  <2>1. ASSUME NEW k \in Lanes PROVE IsFiniteSet({e \in S : g[e] = k})
    <3> HIDE DEF g
    <3> QED BY <1>3, FS_Subset
  <2> HIDE DEF g
  <2> QED BY <2>1, FS_CardinalityType
<1>8. Cardinality(Recent) = SumFunctionOnSet(c, Young)
  <2>1. \A k \in Young : c[k] = Cardinality({e \in S : g[e] = k})
    OBVIOUS
  <2>a. IsFiniteSet(S) /\ IsFiniteSet(Young)
    BY <1>3
  <2> HIDE DEF c, g, Young, Recent
  <2>2. Cardinality({e \in S : g[e] \in Young}) = SumFunctionOnSet(c, Young)
    BY ONLY <2>a, <2>1, CardinalityOfParts
  <2> QED BY <1>5, <2>2
<1>9. \/ SumFunctionOnSet(m.lanes, Young) = SumFunctionOnSet(c, Young)
      \/ /\ LANE_MAX <= SumFunctionOnSet(m.lanes, Young)
         /\ LANE_MAX <= SumFunctionOnSet(c, Young)
  <2>1. \A k \in Young : c[k] \in Nat /\ m.lanes[k] = IF c[k] <= LANE_MAX THEN c[k] ELSE LANE_MAX
    BY <1>6, <1>7 DEF Least
  <2> HIDE DEF c, Young
  <2> QED BY <1>2, <1>3, <2>1, SumOfCutOff
<1>10. SumFunctionOnSet(m.lanes, Young) \in Nat /\ SumFunctionOnSet(c, Young) \in Nat
  <2>1. \A k \in Young : m.lanes[k] \in Nat /\ c[k] \in Nat
    BY <1>1, <1>2, <1>7
  <2> HIDE DEF c, Young
  <2> QED BY <1>3, <2>1, SumNat
<1>11. CountInWindow(m) = Least(SumFunctionOnSet(m.lanes, Young), LANE_MAX)
  BY DEF CountInWindow
<1> HIDE DEF c, Young, Recent
<1>12. Least(SumFunctionOnSet(m.lanes, Young), LANE_MAX) = Least(SumFunctionOnSet(c, Young), LANE_MAX)
  BY <1>2, <1>9, <1>10 DEF Least
<1> QED BY <1>8, <1>11, <1>12 DEF Recent

\* The invariant of the two windows.
LanesTell ==
    /\ LanesCount(vetoMarks, With(anchors, "VETOED"), today)
    /\ LanesCount(disputeMarks, With(anchors, "DISPUTED"), today)

LEMMA LanesStart == Init => LanesTell
<1> SUFFICES ASSUME Init PROVE LanesTell
  OBVIOUS
<1>1. With(anchors, "VETOED") = {} /\ With(anchors, "DISPUTED") = {}
  BY DEF Init, With
<1>2. today \in Nat
  <2>1. DAY \in Nat \ {0}
    BY AnchorSizes DEF DAY
  <2>2. now \in Nat
    BY AnchorSizes DEF Init
  <2> QED BY <2>1, <2>2, DivBounds DEF today
<1>3. Least(0, LANE_MAX) = 0
  BY AnchorSizes DEF Least
<1>4. ASSUME NEW k, NEW top PROVE Cardinality({e \in {} : top - dayOf(e) = k}) = 0
  <2>1. {e \in {} : top - dayOf(e) = k} = {}
    OBVIOUS
  <2> QED BY <2>1, FS_EmptySet
<1>5. /\ vetoMarks.day = today /\ \A k \in Lanes : vetoMarks.lanes[k] = 0
      /\ disputeMarks.day = today /\ \A k \in Lanes : disputeMarks.lanes[k] = 0
  BY DEF Init
<1> QED BY <1>1, <1>2, <1>3, <1>4, <1>5 DEF LanesTell, LanesCount

\* Only a veto and a dispute mark a window, and each rejects one waiting anchor.
LEMMA WhoRejects ==
    ASSUME IndInv, [Next]_vars
    PROVE  \/ \E e \in Epochs, v \in Votes \cup {NoVotes} : FinalizeDisputed(e, v)
           \/ \E e \in Epochs : Veto(e)
           \/ /\ UNCHANGED markVars
              /\ With(anchors', "VETOED") = With(anchors, "VETOED")
              /\ With(anchors', "DISPUTED") = With(anchors, "DISPUTED")
<1>1. anchors \in [Epochs -> Anchor]
  BY DEF IndInv, TypeOK
<1>2. ASSUME NEW outcome \in {"VETOED", "DISPUTED"}, NEW e \in Epochs,
             anchors[e].state # outcome, anchors'[e].state # outcome,
             \A d \in Epochs \ {e} : anchors'[d] = anchors[d]
      PROVE  With(anchors', outcome) = With(anchors, outcome)
  BY <1>2 DEF With
<1>3. ASSUME NEW r \in Relayers, NEW e \in Epochs, NEW rep \in Reports, PostAnchor(r, e, rep)
      PROVE  /\ UNCHANGED markVars
             /\ With(anchors', "VETOED") = With(anchors, "VETOED")
             /\ With(anchors', "DISPUTED") = With(anchors, "DISPUTED")
  <2>1. /\ anchors'[e].state = "POSTED" /\ \A d \in Epochs \ {e} : anchors'[d] = anchors[d]
        /\ UNCHANGED markVars
    BY <1>1, <1>3 DEF PostAnchor
  <2>2. anchors[e].state = "NONE"
    BY <1>3 DEF PostAnchor, IndInv, TypeOK, OneAnchorWaits
  <2> QED BY <1>2, <2>1, <2>2
<1>4. ASSUME NEW e \in Epochs, NEW v \in Votes \cup {NoVotes}, FinalizeFinal(e, v)
      PROVE  /\ UNCHANGED markVars
             /\ With(anchors', "VETOED") = With(anchors, "VETOED")
             /\ With(anchors', "DISPUTED") = With(anchors, "DISPUTED")
  <2>1. /\ anchors[e].state = "POSTED" /\ anchors'[e].state = "FINAL"
        /\ \A d \in Epochs \ {e} : anchors'[d] = anchors[d]
    BY <1>4, FinalizeWrites
  <2> QED BY <1>2, <1>4, <2>1 DEF FinalizeFinal
<1> QED
  BY <1>3, <1>4
  DEF Next, Tick, CreditsIssued, ProposeRelayer, ExecuteRelayerRotation, CancelRelayerRotation,
      SetValidatorStaking, vars

\* A window that is not marked keeps counting as the days pass.
LEMMA LanesWait ==
    ASSUME NEW m, NEW S, NEW day, NEW later, m.day \in Nat, day \in Nat, later \in Nat,
           day <= later, LanesCount(m, S, day)
    PROVE  LanesCount(m, S, later)
BY DEF LanesCount

LEMMA LanesFollow ==
    ASSUME IndInv, LanesTell, [Next]_vars
    PROVE  LanesTell'
<1>1. /\ anchors \in [Epochs -> Anchor] /\ vetoMarks \in Marks /\ disputeMarks \in Marks
      /\ vetoMarks.day \in Nat /\ disputeMarks.day \in Nat /\ now \in Nat
  <2>1. /\ anchors \in [Epochs -> Anchor] /\ vetoMarks \in Marks /\ disputeMarks \in Marks
        /\ now \in Times
    BY DEF IndInv, TypeOK
  <2>2. vetoMarks.day \in Nat /\ disputeMarks.day \in Nat
    BY <2>1 DEF Marks
  <2>3. now \in Nat
    BY <2>1, AnchorSizes DEF Times
  <2> QED BY <2>1, <2>2, <2>3
<1>2. today \in Nat /\ today' \in Nat /\ today <= today'
  BY TodayAdvances
<1>3. SUFFICES /\ LanesCount(vetoMarks', With(anchors', "VETOED"), today')
               /\ LanesCount(disputeMarks', With(anchors', "DISPUTED"), today')
  BY DEF LanesTell, LanesCount, With
<1>4. /\ LanesCount(vetoMarks, With(anchors, "VETOED"), today')
      /\ LanesCount(disputeMarks, With(anchors, "DISPUTED"), today')
  BY <1>1, <1>2, LanesWait DEF LanesTell
<1>5. ASSUME NEW e \in Epochs, NEW outcome \in {"VETOED", "DISPUTED"},
             anchors[e].state = "POSTED",
             anchors' = [anchors EXCEPT ![e] = Rejected(anchors[e], outcome)]
      PROVE  /\ With(anchors', outcome) = With(anchors, outcome) \cup {e}
             /\ e \notin With(anchors, outcome)
             /\ \A other \in {"VETOED", "DISPUTED"} \ {outcome} :
                   With(anchors', other) = With(anchors, other)
             /\ dayOf(e) <= today'
  <2>1. anchors'[e].state = outcome /\ \A d \in Epochs \ {e} : anchors'[d] = anchors[d]
    BY <1>1, <1>5, RejectedType
  <2>2. dayOf(e) <= today
    BY <1>1, <1>5, OverIsPast DEF IndInv, WaitingIsOver
  <2>3. dayOf(e) \in Nat
    BY DayType
  <2> QED BY <1>2, <1>5, <2>1, <2>2, <2>3 DEF With
<1>6. \A e \in Epochs : dayOf(e) \in Nat
  BY DayType
<1>7. ASSUME NEW outcome PROVE With(anchors, outcome) \in SUBSET Epochs
  BY DEF With
<1>8. ASSUME NEW e \in Epochs, NEW v \in Votes \cup {NoVotes}, FinalizeDisputed(e, v)
      PROVE  /\ LanesCount(vetoMarks', With(anchors', "VETOED"), today')
             /\ LanesCount(disputeMarks', With(anchors', "DISPUTED"), today')
  <2>1. /\ anchors[e].state = "POSTED" /\ vetoMarks' = vetoMarks
        /\ disputeMarks' = Mark(disputeMarks, dayOf(e))
        /\ anchors' = [anchors EXCEPT ![e] = Rejected(anchors[e], "DISPUTED")]
    BY <1>8 DEF FinalizeDisputed, Finalizable
  <2>2. /\ With(anchors', "DISPUTED") = With(anchors, "DISPUTED") \cup {e}
        /\ e \notin With(anchors, "DISPUTED")
        /\ With(anchors', "VETOED") = With(anchors, "VETOED")
        /\ dayOf(e) <= today'
    BY <1>5, <2>1
  <2>3. LanesCount(Mark(disputeMarks, dayOf(e)), With(anchors, "DISPUTED") \cup {e}, today')
    BY <1>1, <1>2, <1>4, <1>7, <2>2, MarkCounts
  <2> QED BY <1>4, <2>1, <2>2, <2>3
<1>9. ASSUME NEW e \in Epochs, Veto(e)
      PROVE  /\ LanesCount(vetoMarks', With(anchors', "VETOED"), today')
             /\ LanesCount(disputeMarks', With(anchors', "DISPUTED"), today')
  <2>1. /\ anchors[e].state = "POSTED" /\ disputeMarks' = disputeMarks
        /\ vetoMarks' = Mark(vetoMarks, dayOf(e))
        /\ anchors' = [anchors EXCEPT ![e] = Rejected(anchors[e], "VETOED")]
    BY <1>9 DEF Veto
  <2>2. /\ With(anchors', "VETOED") = With(anchors, "VETOED") \cup {e}
        /\ e \notin With(anchors, "VETOED")
        /\ With(anchors', "DISPUTED") = With(anchors, "DISPUTED")
        /\ dayOf(e) <= today'
    BY <1>5, <2>1
  <2>3. LanesCount(Mark(vetoMarks, dayOf(e)), With(anchors, "VETOED") \cup {e}, today')
    BY <1>1, <1>2, <1>4, <1>7, <2>2, MarkCounts
  <2> QED BY <1>4, <2>1, <2>2, <2>3
<1>10. CASE /\ UNCHANGED markVars
            /\ With(anchors', "VETOED") = With(anchors, "VETOED")
            /\ With(anchors', "DISPUTED") = With(anchors, "DISPUTED")
  BY <1>4, <1>10 DEF markVars
<1> QED BY <1>8, <1>9, <1>10, WhoRejects

\* Read in any state, the windows count the vetoes and the disputes of their days.
LEMMA LanesSuffice == IndInv /\ LanesTell => WindowsCountEvents
<1> SUFFICES ASSUME IndInv, LanesTell PROVE WindowsCountEvents
  OBVIOUS
<1>1. vetoMarks \in Marks /\ disputeMarks \in Marks
  BY DEF IndInv, TypeOK
<1>2. today \in Nat
  <2>1. DAY \in Nat \ {0}
    BY AnchorSizes DEF DAY
  <2>2. now \in Nat
    BY AnchorSizes DEF IndInv, TypeOK, Times
  <2> QED BY <2>1, <2>2, DivBounds DEF today
<1>3. ASSUME NEW outcome
      PROVE  /\ With(anchors, outcome) \in SUBSET Epochs
             /\ EventsOfWindow(outcome)
                  = {e \in With(anchors, outcome) : dayOf(e) + STREAK_WINDOW_DAYS > today}
  BY DEF With, EventsOfWindow
<1> QED
  BY <1>1, <1>2, <1>3, WindowCounts
  DEF LanesTell, WindowsCountEvents, vetoCountInWindow, disputeCountInWindow

-----------------------------------------------------------------------------
\* What the contract keeps about its anchors is what became of them: the cumulative figures are
\* those of the FINAL anchors, the two windows count the vetoes and disputes of their days however
\* late they come, and the heads chain the FINAL anchors in order.
THEOREM RecordsAreTrue == Spec => []RecordsTellTheHistory
<1> DEFINE Inv == CumulativesAreFinal /\ LanesTell /\ HeadsChainFinalAnchors
<1>1. Init => Inv
  BY FiguresStart, LanesStart, HeadsStart
<1>2. IndInv /\ Inv /\ [Next]_vars => Inv'
  BY FiguresFollow, LanesFollow, HeadsFollow
<1>3. IndInv /\ Inv => RecordsTellTheHistory
  BY LanesSuffice DEF RecordsTellTheHistory
<1> HIDE DEF Inv
<1> QED BY <1>1, <1>2, <1>3, IndInvHolds, PTL DEF Spec

-----------------------------------------------------------------------------
(* The rotation of the relayer *)

\* The date on which the queued relayer may take over lies a whole timelock after the day it was chosen.
NoticeIsGiven ==
    /\ pendingSince <= now
    /\ pendingRelayer # NoOne => pendingSince + ADMIN_TIMELOCK <= pendingRelayerEta

LEMMA RotationTypes ==
    ASSUME IndInv
    PROVE  now \in Nat /\ pendingSince \in Nat /\ pendingRelayerEta \in Nat /\ ADMIN_TIMELOCK \in Nat
<1>1. TypeOK
  BY DEF IndInv
<1>2. now \in Nat
  <2>1. now \in 0..MaxTime
    BY <1>1 DEF TypeOK, Times
  <2> QED BY <2>1
<1>3. pendingSince \in Nat /\ pendingRelayerEta \in Nat
  BY <1>1 DEF TypeOK
<1>4. ADMIN_TIMELOCK \in Nat
  BY AnchorSizes
<1> QED BY <1>2, <1>3, <1>4

LEMMA NoticeKept ==
    ASSUME IndInv, NoticeIsGiven, [Next]_vars PROVE NoticeIsGiven'
<1>1. now \in Nat /\ pendingSince \in Nat /\ pendingRelayerEta \in Nat /\ ADMIN_TIMELOCK \in Nat
  BY RotationTypes
<1>2. ASSUME NEW r \in Relayers, ProposeRelayer(r) PROVE NoticeIsGiven'
  <2>1. CASE r = pendingRelayer
    BY <1>1, <1>2, <2>1, AnchorInputs DEF ProposeRelayer, newEta, NoticeIsGiven
  <2>2. CASE r # pendingRelayer
    BY <1>1, <1>2, <2>2 DEF ProposeRelayer, newEta, NoticeIsGiven
  <2> QED BY <2>1, <2>2
<1>3. CASE Tick
  BY <1>1, <1>3 DEF Tick, adminVars, NoticeIsGiven
<1>4. CASE ExecuteRelayerRotation \/ CancelRelayerRotation
  BY <1>1, <1>4 DEF ExecuteRelayerRotation, CancelRelayerRotation, NoticeIsGiven
<1> QED
  BY <1>2, <1>3, <1>4
  DEF Next, CreditsIssued, PostAnchor, FinalizeDisputed, FinalizeFinal, Veto, SetValidatorStaking, vars, adminVars,
      NoticeIsGiven

\* Nobody takes over as relayer before it has itself been queued for the whole timelock, however often
\* the queue was filled, cancelled and filled again.
THEOREM RotationAnnounced == Spec => RotationIsAnnounced
<1>1. Init => NoticeIsGiven
  BY AnchorSizes DEF Init, NoticeIsGiven
<1>2. IndInv /\ NoticeIsGiven /\ [Next]_vars => NoticeIsGiven'
  BY NoticeKept
<1>3. IndInv /\ NoticeIsGiven /\ [Next]_vars => [relayer' # relayer => now >= pendingSince + ADMIN_TIMELOCK]_vars
  <2> SUFFICES ASSUME IndInv, NoticeIsGiven, [Next]_vars, relayer' # relayer
               PROVE  now >= pendingSince + ADMIN_TIMELOCK
    OBVIOUS
  <2>1. now \in Nat /\ pendingSince \in Nat /\ pendingRelayerEta \in Nat /\ ADMIN_TIMELOCK \in Nat
    BY RotationTypes
  <2>2. ExecuteRelayerRotation
    BY DEF Next, Tick, CreditsIssued, PostAnchor, FinalizeDisputed, FinalizeFinal, Veto, ProposeRelayer,
           CancelRelayerRotation, SetValidatorStaking, vars, adminVars
  <2> QED BY <2>1, <2>2 DEF ExecuteRelayerRotation, NoticeIsGiven
<1> QED BY <1>1, <1>2, <1>3, IndInvHolds, PTL DEF Spec, RotationIsAnnounced

-----------------------------------------------------------------------------
(* Refinement *)

Bar == [e \in Epochs |-> IF anchors[e].state \in Resolved THEN anchors[e].state ELSE "OPEN"]

\* Resolving the waiting anchor is a step the promise allows.
LEMMA ResolutionRefines ==
    ASSUME IndInv, NEW e \in Epochs, NEW outcome \in Resolved,
           anchors[e].state = "POSTED", anchors'[e].state = outcome,
           \A d \in Epochs \ {e} : anchors'[d] = anchors[d],
           now >= (e + 1) * EPOCH, UNCHANGED now
    PROVE  Promise!Resolve(e, outcome)
<1>1. e = lastPostedEpoch /\ firstEpoch <= e
  BY WaitingIsLast DEF IndInv, TypeOK
<1>2. \A d \in Epochs : firstEpoch <= d /\ d < e => Bar[d] # "OPEN"
  BY <1>1 DEF Bar, IndInv, OneAnchorWaits, Resolved
<1>3. Bar[e] = "OPEN"
  BY DEF Bar, Resolved
<1>4. Bar' = [Bar EXCEPT ![e] = outcome]
  BY DEF Bar
<1> QED
  BY <1>1, <1>2, <1>3, <1>4
  DEF Promise!Resolve, Promise!Epochs, Promise!firstEpoch, Bar, Epochs, firstEpoch

\* Every step is a step of the promise, or changes neither the clock nor a resolution.
LEMMA StepRefines ==
    ASSUME IndInv, [Next]_vars
    PROVE  [Promise!Next]_<<now, Bar>>
<1>1. /\ now \in Nat /\ lastPostedEpoch \in Nat /\ anchors \in [Epochs -> Anchor]
      /\ OneAnchorWaits /\ WaitingIsOver
  BY AnchorSizes DEF IndInv, TypeOK, Times
<1>2. CASE Tick
  <2>1. Bar' = Bar /\ now' = now + 1
    BY <1>2 DEF Tick, Bar
  <2> QED BY <1>1, <2>1 DEF Promise!Next, Promise!Elapse, Bar
<1>3. ASSUME NEW r \in Relayers, NEW e \in Epochs, NEW rep \in Reports, PostAnchor(r, e, rep)
      PROVE UNCHANGED <<now, Bar>>
  <2>1. e > lastPostedEpoch /\ anchors[e].state = "NONE"
    BY <1>1, <1>3 DEF PostAnchor, OneAnchorWaits
  <2>2. anchors'[e].state = "POSTED" /\ \A d \in Epochs \ {e} : anchors'[d] = anchors[d]
    BY <1>1, <1>3 DEF PostAnchor
  <2>3. Bar' = Bar
    BY <2>1, <2>2 DEF Bar, Resolved
  <2> QED BY <1>3, <2>3 DEF PostAnchor
<1>4. ASSUME NEW e \in Epochs, NEW v \in Votes \cup {NoVotes}, FinalizeDisputed(e, v)
      PROVE Promise!Next
  <2>1. /\ anchors[e].state = "POSTED" /\ now' = now
        /\ anchors' = [anchors EXCEPT ![e] = Rejected(anchors[e], "DISPUTED")]
    BY <1>4 DEF FinalizeDisputed, Finalizable
  <2>2. anchors'[e].state = "DISPUTED" /\ \A d \in Epochs \ {e} : anchors'[d] = anchors[d]
    BY <1>1, <2>1, RejectedType
  <2>3. Promise!Resolve(e, "DISPUTED")
    BY <1>1, <2>1, <2>2, ResolutionRefines DEF WaitingIsOver, Resolved
  <2> QED BY <2>3 DEF Promise!Next, Promise!Epochs, Promise!Outcomes, Epochs
<1>5. ASSUME NEW e \in Epochs, NEW v \in Votes \cup {NoVotes}, FinalizeFinal(e, v)
      PROVE Promise!Next
  <2>1. /\ anchors[e].state = "POSTED" /\ now' = now
        /\ anchors' = [anchors EXCEPT ![e] = Finalized(anchors[e], v)]
    BY <1>5 DEF FinalizeFinal, Finalizable
  <2>2. v.agreeingCount \in Nat
    BY AnchorInputs DEF NoVotes
  <2>3. anchors'[e].state = "FINAL" /\ \A d \in Epochs \ {e} : anchors'[d] = anchors[d]
    BY <1>1, <2>1, <2>2, FinalizedType
  <2>4. Promise!Resolve(e, "FINAL")
    BY <1>1, <2>1, <2>3, ResolutionRefines DEF WaitingIsOver, Resolved
  <2> QED BY <2>4 DEF Promise!Next, Promise!Epochs, Promise!Outcomes, Epochs
<1>6. ASSUME NEW e \in Epochs, Veto(e) PROVE Promise!Next
  <2>1. /\ anchors[e].state = "POSTED" /\ now' = now
        /\ anchors' = [anchors EXCEPT ![e] = Rejected(anchors[e], "VETOED")]
    BY <1>6 DEF Veto
  <2>2. anchors'[e].state = "VETOED" /\ \A d \in Epochs \ {e} : anchors'[d] = anchors[d]
    BY <1>1, <2>1, RejectedType
  <2>3. Promise!Resolve(e, "VETOED")
    BY <1>1, <2>1, <2>2, ResolutionRefines DEF WaitingIsOver, Resolved
  <2> QED BY <2>3 DEF Promise!Next, Promise!Epochs, Promise!Outcomes, Epochs
<1>7. CASE UNCHANGED <<now, anchors>>
  BY <1>7 DEF Bar
<1> QED
  BY <1>2, <1>3, <1>4, <1>5, <1>6, <1>7
  DEF Next, CreditsIssued, ProposeRelayer, ExecuteRelayerRotation, CancelRelayerRotation,
      SetValidatorStaking, vars

\* ChainAnchor implements the promise BacBridge relies on: epochs are resolved in order, only once
\* they are over, and never again.
THEOREM PromiseIsKept == Spec => KeepsThePromise
<1>1. Init => Promise!Init
  BY DEF Init, Promise!Init, Promise!Epochs, Epochs, Resolved
<1>2. IndInv /\ [Next]_vars => [Promise!Next]_<<now, Bar>>
  BY StepRefines
<1> QED BY <1>1, <1>2, IndInvHolds, PTL DEF Spec, KeepsThePromise, Promise!Spec, Bar

\* What others have built on never moves.
THEOREM PastIsFinal == Spec => ThePastStands
<1> QED BY ResolutionsAreFinal, SealedDaysStay DEF ThePastStands
=============================================================================
