------------------------------ MODULE Relayer ------------------------------
(***************************************************************************)
(* relayer/src: one process between two chains.  It scans BSC for deposits *)
(* (`Locked`), files each as a job in an SQLite outbox, and sends them to  *)
(* the layer one by one once they are final; for every epoch of the layer  *)
(* that is over it files an anchor job, sent to BSC.  The process may die  *)
(* between any two writes; a transaction may be mined late, revert or get  *)
(* lost; BSC may reorganise its unfinalized blocks, deposits and anchors.  *)
(*                                                                         *)
(* Time is counted in BSC blocks, every deposit is one credit, and an      *)
(* anchor carries how many credits it reports as entered and as exited.    *)
(* A deposit's key is (transaction, index of the log in its block): the    *)
(* index may change when a reorganisation mines the transaction again.     *)
(* The sync jobs of the registry mirror are not modelled.                  *)
(***************************************************************************)
EXTENDS Integers, FiniteSets, FiniteSetsExt, Functions

CONSTANTS
    Deposits,               \* transactions that lock BAC on BSC
    DEPTH, WALL, FALLBACK_DEPTH, FALLBACK_WALL, OUTAGE_HALT,
    MAX_ATTEMPTS, LOG_RANGE,
    Verdicts,               \* how BSC resolves an anchor: FINAL, VETOED, DISPUTED
    REORG_DEPTH,            \* the deepest reorganisation of unfinalized blocks
    LAG,                    \* how far behind an RPC of BSC may be
    LAYER_LAG,              \* how many credits of an epoch the relayer's layer node may not show
                            \* when the relayer's clock says the epoch is over
    \* bounds of the model, not of the code
    MaxHead, MaxEpoch, MaxExits,
    MaxFaults               \* deaths of the process and reorganisations

ASSUME RelayerSizes ==
    /\ {DEPTH, WALL, FALLBACK_DEPTH, FALLBACK_WALL, OUTAGE_HALT, REORG_DEPTH, LAG, LAYER_LAG, MaxHead,
        MaxEpoch, MaxExits, MaxFaults} \subseteq Nat
    /\ {MAX_ATTEMPTS, LOG_RANGE} \subseteq Nat \ {0}
    /\ Verdicts \subseteq {"FINAL", "VETOED", "DISPUTED"}
    /\ IsFiniteSet(Deposits) /\ MaxEpoch > 0

\* The fallback depth has to outlast every reorganisation (finality.test.mjs:139 wants it far above
\* the normal one).
ASSUME FallbackIsDeep == REORG_DEPTH < FALLBACK_DEPTH

Epochs == 1..MaxEpoch                       \* epoch 1 is cfg.start.firstEpoch
Heights == 0..MaxHead
Keys == [deposit : Deposits, index : 0..1]
Credit(k) == [kind |-> "credit", deposit |-> k.deposit, index |-> k.index]
AnchorJob(e) == [kind |-> "anchor", epoch |-> e]
Jobs == {Credit(k) : k \in Keys} \cup {AnchorJob(e) : e \in Epochs}

NotMined == [block |-> 0, fork |-> 0, index |-> 0]
NoOutage == -1
NoSnapshot == [at |-> 0, head |-> 0, finalized |-> 0, available |-> FALSE]
Unresolved == {"NONE", "POSTED"}

VARIABLES
    \* BSC: the chain, where each deposit is mined, and the anchor contract
    head, finalized, forks, mined,
    anchorState, posted, cumulative,
    anchorAt, resolvedAt,   \* the block an anchor is posted in, and resolved in
    unanchored,             \* history: epochs whose anchor a reorganisation took off BSC
    \* the layer: credited deposits, the running epoch, what each epoch let in and out
    seen, epoch, creditedIn, exitedIn,
    \* the last transaction of each job
    txs,
    \* the relayer's database: cursor, outbox rows, assembled anchors
    cursor, row, anchors,
    \* the relayer's memory: alive, the sender's round, the finality tracker
    alive, crashes, snapshot, outageSince, todo, step

bscVars == <<head, finalized, forks, mined>>
anchorVars == <<anchorState, posted, cumulative, anchorAt, resolvedAt, unanchored>>
layerVars == <<seen, epoch, creditedIn, exitedIn>>
chainVars == <<bscVars, anchorVars, layerVars>>
dbVars == <<cursor, row, anchors>>
senderVars == <<snapshot, outageSince, todo, step>>
processVars == <<alive, crashes>>
vars == <<chainVars, txs, dbVars, processVars, senderVars>>

-----------------------------------------------------------------------------
Least(a, b) == IF a <= b THEN a ELSE b
Total(f, S) == FoldSet(LAMBDA e, sum : sum + f[e], 0, S)

KeyOf(d) == [deposit |-> d, index |-> mined[d].index]
isMined(d) == mined[d].block # 0

\* A row of the outbox; its id orders the queue.
NewRow(id, src) == [id |-> id, status |-> "new", attempts |-> 0, src |-> src, seenAt |-> head]
NoRow == [id |-> 0, status |-> "none", attempts |-> 0, src |-> NotMined, seenAt |-> 0]
enqueued == {j \in Jobs : row[j].status # "none"}
Pending == {"new", "sent"}

\* cumulativeCredited and cumulativeExit of ChainAnchor.
NoReport == [credited |-> 0, exits |-> 0]
Plus(a, b) == [credited |-> a.credited + b.credited, exits |-> a.exits + b.exits]

Init ==
    /\ head = 0 /\ finalized = 0 /\ forks = 0 /\ mined = [d \in Deposits |-> NotMined]
    /\ anchorState = [e \in Epochs |-> "NONE"]
    /\ posted = [e \in Epochs |-> NoReport] /\ cumulative = NoReport
    /\ anchorAt = [e \in Epochs |-> 0] /\ resolvedAt = [e \in Epochs |-> 0] /\ unanchored = {}
    /\ seen = {} /\ epoch = 1
    /\ creditedIn = [e \in Epochs |-> 0] /\ exitedIn = [e \in Epochs |-> 0]
    /\ txs = [j \in Jobs |-> "none"]
    /\ cursor = 0
    /\ row = [j \in Jobs |-> NoRow]
    /\ anchors = [e \in Epochs |-> [state |-> "none", report |-> NoReport]]
    /\ alive = TRUE /\ crashes = 0
    /\ snapshot = NoSnapshot
    /\ outageSince = NoOutage /\ todo = {} /\ step = "next"

-----------------------------------------------------------------------------
(* BSC *)

\* A block with some of the pending deposits.
NewBlock(S) ==
    /\ head < MaxHead
    /\ head' = head + 1
    /\ \A d \in S : ~isMined(d)
    /\ mined' = [d \in Deposits |->
                    IF d \in S THEN [block |-> head', fork |-> forks, index |-> 0] ELSE mined[d]]
    /\ UNCHANGED <<finalized, forks, anchorVars, layerVars, txs, dbVars, processVars, senderVars>>

FinalizeBlock ==
    /\ finalized < head
    /\ finalized' = finalized + 1
    /\ UNCHANGED <<head, forks, mined, anchorVars, layerVars, txs, dbVars, processVars, senderVars>>

\* lastPostedEpoch of ChainAnchor, read at the latest block.
lastPostedEpoch ==
    IF \E e \in Epochs : anchorState[e] # "NONE"
    THEN CHOOSE e \in Epochs : /\ anchorState[e] # "NONE"
                               /\ \A f \in Epochs : f > e => anchorState[f] = "NONE"
    ELSE 0

\* The anchor contract without what was done in the blocks above `last`.
UnpostedSince(last) == {e \in Epochs : anchorState[e] # "NONE" /\ anchorAt[e] > last}
UnresolvedSince(last) == {e \in Epochs : anchorState[e] \notin Unresolved /\ resolvedAt[e] > last}
AnchorsGoBack(last) ==
    /\ anchorState' = [e \in Epochs |-> IF e \in UnpostedSince(last) THEN "NONE"
                                       ELSE IF e \in UnresolvedSince(last) THEN "POSTED" ELSE anchorState[e]]
    /\ posted' = [e \in Epochs |-> IF e \in UnpostedSince(last) THEN NoReport ELSE posted[e]]
    /\ LET finals == {e \in Epochs : anchorState'[e] = "FINAL"} IN
       cumulative' = [credited |-> Total([e \in Epochs |-> posted[e].credited], finals),
                      exits |-> Total([e \in Epochs |-> posted[e].exits], finals)]
    /\ anchorAt' = [e \in Epochs |-> IF anchorAt[e] > last THEN 0 ELSE anchorAt[e]]
    /\ resolvedAt' = [e \in Epochs |-> IF resolvedAt[e] > last THEN 0 ELSE resolvedAt[e]]
    /\ unanchored' = unanchored \cup (lastPostedEpoch' + 1)..lastPostedEpoch

\* The last n blocks are replaced; their deposits are mined again in the replacing blocks, or wait, and
\* the transactions of their anchors go back to the mempool, or are gone.
Reorg(n, S) ==
    LET gone == {d \in Deposits : mined[d].block > head - n}
        unposted == UnpostedSince(head - n)
    IN  /\ forks + crashes < MaxFaults
        /\ n <= REORG_DEPTH /\ head - n >= finalized
        /\ S \subseteq gone
        /\ gone # {} \/ unposted # {} \/ UnresolvedSince(head - n) # {}
        /\ forks' = forks + 1
        /\ AnchorsGoBack(head - n)
        /\ \E back \in SUBSET unposted :
              txs' = [j \in Jobs |-> IF j.kind = "anchor" /\ j.epoch \in unposted
                                    THEN IF j.epoch \in back THEN "pending" ELSE "none" ELSE txs[j]]
        /\ \E block \in head - n + 1..head, index \in 0..1 :
              mined' = [d \in Deposits |->
                          IF d \in S THEN [block |-> block, fork |-> forks', index |-> index]
                          ELSE IF d \in gone THEN NotMined ELSE mined[d]]
        /\ UNCHANGED <<head, finalized, layerVars, dbVars, processVars, senderVars>>

\* postAnchor accepts an anchor in order, once the one before is resolved, if it fits the sums.
Postable(e, report) ==
    /\ e = lastPostedEpoch + 1
    /\ e > 1 => anchorState[e - 1] \notin Unresolved
    /\ Plus(cumulative, report).exits <= Plus(cumulative, report).credited

\* finalize or veto, in the block at the head
AnchorResolved(e, verdict) ==
    /\ anchorState[e] = "POSTED" /\ finalized < head
    /\ anchorState' = [anchorState EXCEPT ![e] = verdict]
    /\ cumulative' = IF verdict = "FINAL" THEN Plus(cumulative, posted[e]) ELSE cumulative
    /\ resolvedAt' = [resolvedAt EXCEPT ![e] = head]
    /\ UNCHANGED <<bscVars, posted, anchorAt, unanchored, layerVars, txs, dbVars, processVars, senderVars>>

-----------------------------------------------------------------------------
(* The layer *)

EpochEnds ==
    /\ epoch < MaxEpoch
    /\ epoch' = epoch + 1
    /\ UNCHANGED <<bscVars, anchorVars, seen, creditedIn, exitedIn, txs, dbVars, processVars,
                    senderVars>>

\* L2Bridge.exit: somebody burns a credit of this layer.
LayerExit ==
    /\ Total(exitedIn, Epochs) < Least(Cardinality(seen), MaxExits)
    /\ exitedIn' = [exitedIn EXCEPT ![epoch] = @ + 1]
    /\ UNCHANGED <<bscVars, anchorVars, seen, epoch, creditedIn, txs, dbVars, processVars, senderVars>>

\* L2Bridge.credit, idempotent by key; postAnchor, idempotent by the order of epochs.
CreditAccepted(k) == k \notin seen

CreditMined(k) ==
    LET j == Credit(k)
    IN  /\ txs[j] = "pending"
        /\ IF CreditAccepted(k)
           THEN /\ txs' = [txs EXCEPT ![j] = "ok"]
                /\ seen' = seen \cup {k}
                /\ creditedIn' = [creditedIn EXCEPT ![epoch] = @ + 1]
           ELSE /\ txs' = [txs EXCEPT ![j] = "reverted"]
                /\ UNCHANGED <<seen, creditedIn>>
        /\ UNCHANGED <<bscVars, anchorVars, epoch, exitedIn, dbVars, processVars, senderVars>>

AnchorMined(e) ==
    LET j == AnchorJob(e)
    IN  /\ txs[j] = "pending" /\ finalized < head
        /\ IF Postable(e, anchors[e].report)
           THEN /\ txs' = [txs EXCEPT ![j] = "ok"]
                /\ anchorState' = [anchorState EXCEPT ![e] = "POSTED"]
                /\ posted' = [posted EXCEPT ![e] = anchors[e].report]
                /\ anchorAt' = [anchorAt EXCEPT ![e] = head]
           ELSE /\ txs' = [txs EXCEPT ![j] = "reverted"]
                /\ UNCHANGED <<anchorState, posted, anchorAt>>
        /\ UNCHANGED <<bscVars, cumulative, resolvedAt, unanchored, layerVars, dbVars, processVars, senderVars>>

TxLost(j) ==
    /\ txs[j] = "pending"
    /\ txs' = [txs EXCEPT ![j] = "none"]
    /\ UNCHANGED <<chainVars, dbVars, processVars, senderVars>>

-----------------------------------------------------------------------------
(* The process.  The writes of one turn of its event loop are one action, so *)
(* that only a death falls between them.                                     *)

\* What a death loses: the memory, not the database.
Dies ==
    /\ forks + crashes < MaxFaults /\ crashes' = crashes + 1
    /\ alive' = FALSE
    /\ snapshot' = NoSnapshot /\ outageSince' = NoOutage /\ todo' = {} /\ step' = "next"

Crash == alive /\ Dies /\ UNCHANGED <<chainVars, txs, dbVars>>

\* The idempotence key on the chain.
AlreadyDone(j) ==
    IF j.kind = "credit" THEN [deposit |-> j.deposit, index |-> j.index] \in seen
    ELSE lastPostedEpoch >= j.epoch

PostedIf(j, status) ==
    IF j.kind = "anchor" /\ status = "confirmed"
    THEN [anchors EXCEPT ![j.epoch].state = "posted"] ELSE anchors

\* resumePending: what was sent and is not done goes back to the queue.
ResumedConfirmed(j) == "confirmed"
Resumed(j) == IF AlreadyDone(j) THEN "confirmed" ELSE "new"

Resume ==
    /\ ~alive /\ alive' = TRUE
    /\ row' = [j \in Jobs |-> IF row[j].status = "sent" THEN [row[j] EXCEPT !.status = Resumed(j)]
                              ELSE row[j]]
    /\ anchors' = [e \in Epochs |->
                      IF row[AnchorJob(e)].status = "sent"
                      THEN PostedIf(AnchorJob(e), Resumed(AnchorJob(e)))[e] ELSE anchors[e]]
    /\ UNCHANGED <<chainVars, txs, cursor, crashes, senderVars>>

\* scanBscOnce: jobs first, in one transaction and once per key; then the cursor.
ScanTo == Least(head, cursor + LOG_RANGE)
Found ==
    {Credit(KeyOf(d)) : d \in {d \in Deposits : cursor < mined[d].block /\ mined[d].block <= ScanTo}}
FoundNew == {j \in Found : row[j].status = "none"}

Enqueue(new) ==
    \E place \in Bijection(new, 1..Cardinality(new)) :
        row' = [j \in Jobs |->
                  IF j \in new
                  THEN NewRow(Cardinality(enqueued) + place[j],
                              IF j.kind = "credit" THEN mined[j.deposit] ELSE NotMined)
                  ELSE row[j]]

ScanBscOnce ==
    /\ alive /\ cursor < head
    /\ Enqueue(FoundNew)
    /\ cursor' = ScanTo
    /\ UNCHANGED <<chainVars, txs, anchors, processVars, senderVars>>

ScanDiesWithCursorFirst ==
    /\ alive /\ cursor < head
    /\ cursor' = ScanTo
    /\ Dies
    /\ UNCHANGED <<chainVars, txs, row, anchors>>
ScanDies ==
    /\ alive /\ cursor < head
    /\ Enqueue(FoundNew)
    /\ Dies
    /\ UNCHANGED <<chainVars, txs, cursor, anchors>>

-----------------------------------------------------------------------------
(* anchorOnce *)

epochOverAtItsStart(e) == epoch >= e
epochOver(e) == epoch > e

\* Rejected epochs are reported again by the next anchor.
Carried(e) == {d \in Epochs : d < e /\ anchors[d].state \in {"vetoed", "disputed"}}
Assembled(e, unseen) ==
    [credited |-> creditedIn[e] - unseen + Total([d \in Epochs |-> anchors[d].report.credited], Carried(e)),
     exits |-> exitedIn[e] + Total([d \in Epochs |-> anchors[d].report.exits], Carried(e))]

AnchorDue(e) == e = lastPostedEpoch + 1 /\ epochOver(e) /\ anchors[e].state = "none"
PutAnchor(e, unseen) ==
    /\ unseen <= creditedIn[e]
    /\ anchors' = [anchors EXCEPT ![e] = [state |-> "new", report |-> Assembled(e, unseen)]]

AnchorOnce(e, unseen) ==
    /\ alive /\ AnchorDue(e)
    /\ PutAnchor(e, unseen)
    /\ Enqueue({AnchorJob(e)} \ {j \in Jobs : row[j].status # "none"})
    /\ UNCHANGED <<chainVars, txs, cursor, processVars, senderVars>>

\* putAnchor and enqueueBatch are two transactions.
AnchorDies(e, unseen) ==
    /\ alive /\ AnchorDue(e)
    /\ PutAnchor(e, unseen)
    /\ Dies
    /\ UNCHANGED <<chainVars, txs, cursor, row>>

-----------------------------------------------------------------------------
(* drainOutbox: a snapshot of BSC, then the pending rows one by one. *)

StartRound(available, lag) ==
    /\ alive /\ step = "next" /\ todo = {}
    /\ lag <= finalized
    /\ outageSince' = IF available THEN NoOutage
                      ELSE IF outageSince = NoOutage THEN head ELSE outageSince
    /\ todo' = {j \in Jobs : row[j].status \in Pending}
    /\ snapshot' = IF todo' = {} THEN NoSnapshot
                   ELSE [at |-> head, head |-> head - lag, finalized |-> finalized - lag,
                         available |-> available]
    /\ UNCHANGED <<chainVars, txs, dbVars, processVars, step>>

\* evaluateCredit
outageHalts == ~snapshot.available /\ snapshot.at - outageSince >= OUTAGE_HALT

CreditReady(j) ==
    LET depth == snapshot.head - row[j].src.block
        age == snapshot.at - row[j].seenAt
    IN  IF snapshot.available
        THEN snapshot.finalized >= row[j].src.block /\ depth >= DEPTH /\ age >= WALL
        ELSE ~outageHalts /\ depth >= FALLBACK_DEPTH /\ age >= FALLBACK_WALL

\* planNextAnchor
AnchorReady(e) ==
    /\ e = lastPostedEpoch + 1 /\ epochOver(e)
    /\ e > 1 => anchorState[e - 1] \notin Unresolved

Ready(j) == IF j.kind = "credit" THEN CreditReady(j) ELSE AnchorReady(j.epoch)

current == CHOOSE j \in todo : \A k \in todo : row[j].id <= row[k].id
attempts == row[current].attempts

\* The round goes on to its next job, or ends and forgets its snapshot.
NextJob ==
    /\ todo' = todo \ {current} /\ step' = "next"
    /\ snapshot' = IF todo' = {} THEN NoSnapshot ELSE snapshot

\* The current job leaves the round with a status and the attempts it took.
Leaves(status, n) ==
    /\ row' = [row EXCEPT ![current] = [@ EXCEPT !.status = status, !.attempts = n]]
    /\ anchors' = PostedIf(current, status)
    /\ NextJob
    /\ UNCHANGED <<chainVars, cursor, processVars, outageSince>>

At(s) == alive /\ todo # {} /\ step = s

ConfirmDone == At("next") /\ AlreadyDone(current) /\ Leaves("confirmed", attempts) /\ UNCHANGED txs

HaltSending ==
    /\ At("next") /\ ~AlreadyDone(current)
    /\ current.kind = "credit" /\ outageHalts
    /\ todo' = {} /\ snapshot' = NoSnapshot
    /\ UNCHANGED <<chainVars, txs, dbVars, processVars, outageSince, step>>

SkipJob ==
    /\ At("next") /\ ~AlreadyDone(current) /\ ~Ready(current)
    /\ ~(current.kind = "credit" /\ outageHalts)
    /\ NextJob
    /\ UNCHANGED <<chainVars, txs, dbVars, processVars, outageSince>>

\* verifySourceLog: the receipt of a deposit is read again before sending.
SourceStandsUnread(j) == TRUE
SourceStands(j) == j.kind = "credit" => mined[j.deposit] = row[j].src

PickJob ==
    /\ At("next") /\ ~AlreadyDone(current) /\ Ready(current) /\ SourceStands(current)
    /\ step' = "send"
    /\ UNCHANGED <<chainVars, txs, dbVars, processVars, snapshot, outageSince, todo>>

\* A node that is behind may also know no receipt of a deposit that stands.
Orphan ==
    /\ At("next") /\ ~AlreadyDone(current) /\ Ready(current)
    /\ current.kind = "credit" /\ (~SourceStands(current) \/ LAG > 0)
    /\ Leaves("orphaned", attempts)
    /\ UNCHANGED txs

SendTx ==
    /\ At("send") /\ attempts < MAX_ATTEMPTS
    /\ txs' = [txs EXCEPT ![current] = "pending"]
    /\ row' = [row EXCEPT ![current] = [@ EXCEPT !.status = "sent", !.attempts = attempts + 1]]
    /\ step' = "wait"
    /\ UNCHANGED <<chainVars, cursor, anchors, processVars, snapshot, outageSince, todo>>

\* The transaction is out, and its hash was never written down.
SendDies ==
    /\ At("send") /\ attempts < MAX_ATTEMPTS
    /\ txs' = [txs EXCEPT ![current] = "pending"]
    /\ Dies
    /\ UNCHANGED <<chainVars, dbVars>>

\* The node refuses the transaction.
SendRefused ==
    /\ At("send") /\ attempts < MAX_ATTEMPTS
    /\ IF AlreadyDone(current) THEN Leaves("confirmed", attempts + 1)
       ELSE /\ row' = [row EXCEPT ![current] = [@ EXCEPT !.status = "new", !.attempts = attempts + 1]]
            /\ UNCHANGED <<chainVars, cursor, anchors, processVars, senderVars>>
    /\ UNCHANGED txs

GiveUp ==
    /\ At("send") /\ attempts >= MAX_ATTEMPTS
    /\ Leaves(IF AlreadyDone(current) THEN "confirmed" ELSE "parked", attempts)
    /\ UNCHANGED txs

AwaitMined ==
    /\ At("wait") /\ txs[current] \in {"ok", "reverted"}
    /\ Leaves(IF txs[current] = "ok" \/ AlreadyDone(current) THEN "confirmed" ELSE "failed", attempts)
    /\ txs' = [txs EXCEPT ![current] = "none"]

\* Not mined in WAIT_MS: again, with the same nonce and a better price.
AwaitTimeout ==
    /\ At("wait")
    /\ step' = "send"
    /\ UNCHANGED <<chainVars, txs, dbVars, processVars, snapshot, outageSince, todo>>

\* A read fails: the round is over, its row as it was last written.
RoundBreaks ==
    /\ alive /\ todo # {}
    /\ todo' = {} /\ step' = "next" /\ snapshot' = NoSnapshot
    /\ UNCHANGED <<chainVars, txs, dbVars, processVars, outageSince>>

-----------------------------------------------------------------------------
Chains ==
    \/ \E S \in SUBSET Deposits : NewBlock(S)
    \/ FinalizeBlock
    \/ \E n \in 1..REORG_DEPTH, S \in SUBSET Deposits : Reorg(n, S)
    \/ \E e \in Epochs, verdict \in Verdicts : AnchorResolved(e, verdict)
    \/ EpochEnds
    \/ LayerExit
    \/ \E k \in Keys : CreditMined(k)
    \/ \E e \in Epochs : AnchorMined(e)
    \/ \E j \in Jobs : TxLost(j)

Sender ==
    \/ ConfirmDone \/ HaltSending \/ SkipJob \/ PickJob
    \/ Orphan
    \/ SendTx \/ SendRefused \/ GiveUp
    \/ AwaitMined \/ AwaitTimeout

Process ==
    \/ Crash \/ Resume
    \/ ScanBscOnce \/ ScanDies
    \/ \E e \in Epochs, unseen \in 0..LAYER_LAG : AnchorOnce(e, unseen) \/ AnchorDies(e, unseen)
    \/ \E available \in BOOLEAN, lag \in 0..LAG : StartRound(available, lag)
    \/ Sender
    \/ SendDies \/ RoundBreaks

Next == Chains \/ Process

Spec == Init /\ [][Next]_vars

-----------------------------------------------------------------------------
(* Properties *)

Rows == [id : Nat, status : {"none", "new", "sent", "confirmed", "orphaned", "failed", "parked"},
         attempts : 0..MAX_ATTEMPTS, src : [block : Heights, fork : Nat, index : 0..1], seenAt : Heights]

TypeOK ==
    /\ head \in Heights /\ finalized \in 0..head /\ forks \in 0..MaxFaults
    /\ mined \in [Deposits -> [block : Heights, fork : Nat, index : 0..1]]
    /\ anchorState \in [Epochs -> {"NONE", "POSTED", "FINAL", "VETOED", "DISPUTED"}]
    /\ anchorAt \in [Epochs -> Heights] /\ resolvedAt \in [Epochs -> Heights] /\ unanchored \subseteq Epochs
    /\ seen \subseteq Keys /\ epoch \in Epochs
    /\ cursor \in 0..head
    /\ row \in [Jobs -> Rows]
    /\ \A j \in enqueued : row[j].id \in 1..Cardinality(enqueued)
    /\ \A j, k \in enqueued : row[j].id = row[k].id => j = k
    /\ step \in {"next", "send", "wait"} /\ todo \subseteq enqueued
    /\ alive \in BOOLEAN /\ crashes \in 0..MaxFaults

\* What the layer credited stays on BSC's chain, each deposit once: no reorganisation, restart,
\* resend or second key of the same transaction ever leaves a credit without its deposit.
CreditsHaveTheirDeposit ==
    \A k \in seen : isMined(k.deposit) /\ KeyOf(k.deposit) = k

\* A job is only ever closed as confirmed once its effect is on the chain, whatever was timed out,
\* resent or forgotten by a dead process: a credit stays there, and an anchor leaves only with a
\* reorganisation of its block (the relayer asks for one confirmation, and does not look again).
WasDone(j) == AlreadyDone(j) \/ (j.kind = "anchor" /\ j.epoch \in unanchored)
ConfirmedIsDone == \A j \in Jobs : row[j].status = "confirmed" => WasDone(j)

\* Whenever the cursor has passed a deposit that no reorganisation moved, its job is on disk.
CursorLeavesNothingBehind ==
    forks = 0 => \A d \in Deposits :
        isMined(d) /\ mined[d].block <= cursor => row[Credit(KeyOf(d))].status # "none"

\* An anchor on BSC reports all of its epoch: nothing enters or leaves the layer in an epoch after
\* its anchor was assembled.  (With LAYER_LAG = 0: l2BlockFor takes the head of the relayer's own
\* node for the last block of the epoch when that head is older than the epoch's end.)
AnchorsCoverTheirEpoch ==
    \A e \in Epochs : anchorState[e] # "NONE" =>
        posted[e].credited >= creditedIn[e] /\ posted[e].exits >= exitedIn[e]

\* docs/03-INTERFACES.md:209: what a vetoed or disputed epoch let in and out is reported again by the
\* next anchor, so a FINAL anchor leaves nothing of the epochs before it behind.
RejectedEpochsAreReportedAgain ==
    \A e \in Epochs :
       anchorState[e] = "FINAL" /\ lastPostedEpoch = e =>
          cumulative.credited = Total(creditedIn, 1..e) /\ cumulative.exits = Total(exitedIn, 1..e)
=============================================================================
