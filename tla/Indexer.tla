------------------------------ MODULE Indexer ------------------------------
(***************************************************************************)
(* indexer/src: two loops read the layer and BSC into one SQLite file.     *)
(* Each remembers how far it came in a cursor, written after the data and  *)
(* in a transaction of its own; what a crash leaves between the two is     *)
(* read again, and every write must be the same the second time.  The two  *)
(* loops are not ordered: either may be the first to see its half of a     *)
(* deposit, an exit or an anchor.                                          *)
(*                                                                         *)
(* A block carries one event.  The chains are external: what they will     *)
(* hold is fixed at the start, BSC deep enough that nothing is             *)
(* reorganised away.  A loop may lag behind by any amount, so any cursor   *)
(* of one meets any cursor of the other.  A root is the set of exits under *)
(* it, and an anchor covers the exits of its epoch (Relayer).  One agent,  *)
(* whose row its first lock creates.  What agents build is the subject of  *)
(* BuiltTokens: here it is a step that may fail.  A receipt that the node  *)
(* answers with null drops its transaction's logs while the cursor moves   *)
(* on (ingest.js 135-148); that is not modelled: blocks are read whole.    *)
(***************************************************************************)
EXTENDS Integers, FiniteSets, SequencesExt

CONSTANTS
    Deposits, Exits, LastIndexedEpoch,       \* Deposits and Exits: numbers
    Histories,                               \* [layer, bsc: events; endOf: the last block of each epoch]
    MaxIndexerCuts                           \* bound: failures and crashes

IndexedEpochs == 0..LastIndexedEpoch
EventsOf(kinds) == [kind : kinds, id : Nat, epoch : Nat]   \* epoch: of an exit its birth, of a claim its anchor
LayerEvents == EventsOf({"credited", "exit", "act"})
BscEvents == EventsOf({"locked", "posted", "final", "vetoed", "claimed"})

\* What the contracts allow on BSC: an anchor is resolved once and after it is posted, in the order of
\* the epochs, and a claim is of an exit under a FINAL anchor.
ItsRoot(h, e) == {ev.id : ev \in {l \in Range(h.layer) : l.kind = "exit" /\ l.epoch = e}}
Legal(h) ==
    /\ h.layer \in Seq(LayerEvents) /\ h.bsc \in Seq(BscEvents) /\ h.endOf \in [IndexedEpochs -> Nat]
    /\ \A n \in DOMAIN h.layer : h.layer[n].kind = "exit" =>
        n <= h.endOf[h.layer[n].epoch] /\ \A e \in 0..h.layer[n].epoch - 1 : h.endOf[e] < n
    /\ \A i, j \in DOMAIN h.bsc :
        h.bsc[i].kind \in {"final", "vetoed"} /\ h.bsc[j].kind \in {"posted", "final", "vetoed"} =>
            /\ h.bsc[i].id = h.bsc[j].id /\ i # j => j < i /\ h.bsc[j].kind = "posted"
            /\ h.bsc[i].id < h.bsc[j].id => i < j
    /\ \A i \in DOMAIN h.bsc : h.bsc[i].kind = "claimed" =>
        /\ h.bsc[i].id \in ItsRoot(h, h.bsc[i].epoch)
        /\ \E j \in 1..i : h.bsc[j].kind = "final" /\ h.bsc[j].id = h.bsc[i].epoch

ASSUME IndexerInputs ==
    /\ Deposits \subseteq Nat /\ Exits \subseteq Nat /\ {LastIndexedEpoch, MaxIndexerCuts} \subseteq Nat
    /\ \A h \in Histories : Legal(h)

VARIABLES
    chains,                  \* external: the history the chains take
    db,                      \* the tables
    layerCursor, bscCursor,
    atLayer, atBsc, chunkEnd,    \* where the loops stand; the end of the chunk just stored
    indexerCuts              \* history: failures

indexerVars == <<chains, db, layerCursor, bscCursor, atLayer, atBsc, chunkEnd, indexerCuts>>

NoExit == [seen |-> FALSE, born |-> 0, anchor |-> -1, claimed |-> FALSE]

NoData == [
    layerLogs |-> {}, bscLogs |-> {},              \* logs: the numbers of the blocks recorded
    txs |-> {},                                    \* txs: the numbers of the layer blocks recorded
    deposits |-> {}, filled |-> {},                \* deposits: rows, rows with their layer half
    exits |-> [x \in Exits |-> NoExit],
    state |-> [e \in IndexedEpochs |-> "NONE"], through |-> [e \in IndexedEpochs |-> 0],
    agent |-> FALSE, credited |-> 0, exited |-> 0, deploys |-> 0, announces |-> 0,
    feed |-> {}, anchored |-> {}]                  \* feed: layer entries, those marked anchored

IndexerInit ==
    /\ chains \in Histories
    /\ db = NoData /\ layerCursor = 0 /\ bscCursor = 0
    /\ atLayer = "idle" /\ atBsc = "idle" /\ chunkEnd = 0 /\ indexerCuts = 0

-----------------------------------------------------------------------------
(* What an event writes.  t is the tables.                                 *)
layerLog == chains.layer
bscLog == chains.bsc
RootOf(e) == ItsRoot(chains, e)
OnBsc(kind, id) == \E ev \in Range(bscLog) : ev.kind = kind /\ ev.id = id

One(fresh) == IF fresh THEN 1 ELSE 0

anchoredThroughBlock(t) ==
    LET finals == {e \in IndexedEpochs : t.state[e] = "FINAL"}
    IN  IF finals = {} THEN 0 ELSE Max({t.through[e] : e \in finals})

\* assignAnchorEpoch: the first exits without an anchor, as many as the anchor counts, only if they
\* are its root.
RootsUnchecked(chosen, root) == TRUE
RootsMatch(chosen, root) == chosen = root

AssignAnchorEpoch(t, e) ==
    LET candidates == {x \in Exits : t.exits[x].seen /\ t.exits[x].anchor = -1 /\ t.exits[x].born <= e}
        count == Cardinality(RootOf(e))
        chosen == {x \in candidates : Cardinality({y \in candidates : y < x}) < count} IN
    IF Cardinality(chosen) = count /\ RootsMatch(chosen, RootOf(e))
    THEN [t EXCEPT !.exits = [x \in Exits |-> IF x \in chosen THEN [@[x] EXCEPT !.anchor = e] ELSE @[x]]]
    ELSE t

\* A vetoed or disputed epoch: what is filed under it and not claimed goes back.
Unfiled(t, e) ==
    [x \in Exits |-> IF t.exits[x].anchor = e /\ ~t.exits[x].claimed
                     THEN [t.exits[x] EXCEPT !.anchor = -1] ELSE t.exits[x]]

\* The row of a deposit is written again by a replay, all but its layer half.
RowUpdated(t, d) == [t EXCEPT !.deposits = @ \cup {d}]

OnBscEvent(t, ev, fresh) ==
    CASE ev.kind = "locked" ->
            [RowUpdated(t, ev.id) EXCEPT !.agent = TRUE, !.credited = @ + One(fresh)]
      [] ev.kind = "posted" ->
            AssignAnchorEpoch([t EXCEPT !.state[ev.id] = "POSTED", !.through[ev.id] = chains.endOf[ev.id]], ev.id)
      [] ev.kind = "final" -> [t EXCEPT !.state[ev.id] = "FINAL"]
      [] ev.kind = "vetoed" ->
            [t EXCEPT !.state[ev.id] = "VETOED", !.exits = Unfiled(t, ev.id)]
      [] ev.kind = "claimed" ->                    \* an update: no row yet, nothing written
            [t EXCEPT !.exits[ev.id] = IF @.seen THEN [@ EXCEPT !.claimed = TRUE, !.anchor = ev.epoch] ELSE @,
                      !.exited = @ + One(fresh)]

\* ingestLogs over the blocks from..to, one transaction; fresh is whether the log was recorded before.
IngestBsc(from, to) ==
    FoldLeftDomain(LAMBDA t, i : IF i < from \/ i > to THEN t
                                 ELSE [OnBscEvent(t, bscLog[i], i \notin t.bscLogs) EXCEPT !.bscLogs = @ \cup {i}],
                   db, bscLog)

\* ingestLayerBlock: the transaction, and the deployment it may be; a deployment counts once, and only
\* for an agent whose lock is already known.
IngestLayerBlock(t, n) ==
    [t EXCEPT !.txs = @ \cup {n},
              !.deploys = IF layerLog[n].kind = "act" /\ t.agent THEN @ + One(n \notin t.txs) ELSE @]

\* ingestLogs of one layer block, with its feed entry.
OnLayerEvent(t, n) ==
    LET ev == layerLog[n]
        fresh == n \notin t.layerLogs
        pushed == [t EXCEPT !.layerLogs = @ \cup {n}, !.feed = @ \cup {n},
                            !.anchored = IF n \notin t.feed /\ n <= anchoredThroughBlock(t) THEN @ \cup {n} ELSE @] IN
    CASE ev.kind = "credited" ->
            IF ev.id \in t.deposits THEN [pushed EXCEPT !.filled = @ \cup {ev.id}] ELSE pushed
      [] ev.kind = "exit" -> [pushed EXCEPT !.exits[ev.id] = [@ EXCEPT !.seen = TRUE, !.born = ev.epoch]]
      [] ev.kind = "act" -> IF t.agent THEN [pushed EXCEPT !.announces = @ + One(fresh)] ELSE pushed

-----------------------------------------------------------------------------
(* The loop of the layer: block, logs, what agents built, cursor.  Nothing else runs between block   *)
(* and logs, there is no await.                                                                      *)
LayerBlock ==
    /\ atLayer = "idle" /\ layerCursor < Len(layerLog)
    /\ db' = IngestLayerBlock(db, layerCursor + 1)
    /\ atLayer' = "block"
    /\ UNCHANGED <<chains, layerCursor, bscCursor, atBsc, chunkEnd, indexerCuts>>

InHand == layerCursor + 1

LayerLogs ==
    /\ atLayer = "block"
    /\ db' = OnLayerEvent(db, InHand)
    /\ atLayer' = "logs"
    /\ UNCHANGED <<chains, layerCursor, bscCursor, atBsc, chunkEnd, indexerCuts>>

LayerCursor ==
    /\ atLayer = "logs"
    /\ layerCursor' = InHand /\ atLayer' = "idle"
    /\ UNCHANGED <<chains, db, bscCursor, atBsc, chunkEnd, indexerCuts>>

(* The loop of BSC: chunk after chunk up to the confirmed head, then the marks.  The head may grow     *)
(* while it runs: any chunk may end anywhere.                                                         *)
BscChunk(to) ==
    /\ atLayer # "block" /\ atBsc \in {"idle", "more"}
    /\ to \in bscCursor + 1..Len(bscLog)
    /\ db' = IngestBsc(bscCursor + 1, to)
    /\ atBsc' = "chunk" /\ chunkEnd' = to
    /\ UNCHANGED <<chains, layerCursor, bscCursor, atLayer, indexerCuts>>

BscCursor ==
    /\ atBsc = "chunk"
    /\ bscCursor' = chunkEnd /\ atBsc' = "more" /\ chunkEnd' = 0
    /\ UNCHANGED <<chains, db, layerCursor, atLayer, indexerCuts>>

\* markAnchored, at the end of a tick; blocks without an event keep the ticks coming.
MarkedBelow == {n \in db.feed : n < anchoredThroughBlock(db)}
Marked == {n \in db.feed : n <= anchoredThroughBlock(db)}

BscEnd ==
    /\ atLayer # "block" /\ atBsc \in {"idle", "more"}
    /\ db' = [db EXCEPT !.anchored = @ \cup Marked]
    /\ atBsc' = "idle"
    /\ UNCHANGED <<chains, layerCursor, bscCursor, atLayer, chunkEnd, indexerCuts>>

\* A request fails and its loop starts over; or the process is killed between two transactions.
LayerFails ==
    /\ atLayer = "logs" /\ indexerCuts < MaxIndexerCuts
    /\ atLayer' = "idle" /\ indexerCuts' = indexerCuts + 1
    /\ UNCHANGED <<chains, db, layerCursor, bscCursor, atBsc, chunkEnd>>

IndexerCrash ==
    /\ atLayer # "idle" \/ atBsc # "idle"
    /\ indexerCuts < MaxIndexerCuts /\ indexerCuts' = indexerCuts + 1
    /\ atLayer' = "idle" /\ atBsc' = "idle" /\ chunkEnd' = 0
    /\ UNCHANGED <<chains, db, layerCursor, bscCursor>>

-----------------------------------------------------------------------------
LayerLoop == LayerBlock \/ LayerLogs \/ LayerCursor
BscLoop == \/ \E to \in 1..Len(bscLog) : BscChunk(to)
           \/ BscCursor \/ BscEnd

IndexerNext == LayerLoop \/ BscLoop \/ LayerFails \/ IndexerCrash

IndexerSpec == IndexerInit /\ [][IndexerNext]_indexerVars /\ WF_indexerVars(LayerLoop) /\ WF_indexerVars(BscLoop)

-----------------------------------------------------------------------------
\* Nothing behind a cursor is missing, and the counters that add up counted every log once, whatever
\* was read twice; what is counted by the agent's row is never counted twice.
CountersSurviveReplays ==
    /\ 1..bscCursor \subseteq db.bscLogs /\ 1..layerCursor \subseteq db.layerLogs \cap db.txs
    /\ db.credited = Cardinality({i \in db.bscLogs : bscLog[i].kind = "locked"})
    /\ db.exited = Cardinality({i \in db.bscLogs : bscLog[i].kind = "claimed"})
    /\ db.deploys <= Cardinality({i \in db.txs : layerLog[i].kind = "act"})
    /\ db.announces <= Cardinality({i \in db.layerLogs : layerLog[i].kind = "act"})

\* An exit is filed under an anchor only if it is a leaf of it, however far the loops are apart: a
\* wrong anchor would have the user claim with a proof that cannot hold.
ExitsAreFiledUnderTheirAnchor ==
    \A x \in Exits : db.exits[x].anchor # -1 => x \in RootOf(db.exits[x].anchor)

\* Neither is it left under an anchor once the cursor is past its veto.
VetoedAnchorsHoldNothing ==
    \A x \in Exits : LET e == db.exits[x].anchor IN
        e # -1 => \A i \in 1..bscCursor : ~(bscLog[i].kind = "vetoed" /\ bscLog[i].id = e)

\* An entry called anchored is covered by a FINAL anchor.
AnchoredIsFinal ==
    \A n \in db.anchored : \E e \in IndexedEpochs : OnBsc("final", e) /\ n <= chains.endOf[e]

\* Reading again what the other loop has completed in the meantime takes nothing back.
ReplaysTakeNothingBack ==
    /\ db.filled \subseteq db'.filled
    /\ \A x \in Exits : db.exits[x].claimed => db'.exits[x].claimed

\* What the FINAL anchors cover is marked some day and stays so, whichever loop was first.
CoveredIsMarked ==
    <>[](\A n \in DOMAIN layerLog :
            (\E e \in IndexedEpochs : OnBsc("final", e) /\ n <= chains.endOf[e]) => n \in db.anchored)

\* The database says what the two chains say, in whatever order its two loops read them and whatever
\* they read twice: each event counted once, each exit under an anchor it is a leaf of, nothing under a
\* vetoed one, nothing called anchored that is not final.
IndexTellsTheChains ==
    CountersSurviveReplays /\ ExitsAreFiledUnderTheirAnchor /\ VetoedAnchorsHoldNothing /\ AnchoredIsFinal
=============================================================================
