------------------------------ MODULE Watchdog ------------------------------
(***************************************************************************)
(* watchdog/src/: a process on its own key that recomputes every posted    *)
(* anchor from the layer's logs and pauses the bridge when it disagrees.   *)
(* Modelled: the fast loop (engine.mjs tickFast, handle, trip, resume), its *)
(* SQLite tables (cursor, carry, findings) and main()'s restart.  The slow *)
(* loop's rules are the subject of SlowLoop and Reconcile.                 *)
(*                                                                         *)
(* The chain is the sequence of the anchor contract's events, one a block; *)
(* the loop reads to its head, and a reorganisation may replace its end.   *)
(* An anchor is honest when it re-reports exactly the vetoed and disputed  *)
(* epochs no final anchor has re-reported yet; anything else is forged.    *)
(***************************************************************************)
EXTENDS Integers, Sequences, FiniteSets, FiniteSetsExt

CONSTANTS
    LastWatched,             \* anchors are posted for 1..LastWatched
    HasVetoKey,              \* keys.veto is configured
    ResumeAfterTrip,         \* WATCHDOG_RESUME_AFTER_TRIP
    MaxReorg,                \* a reorganisation replaces at most so many blocks
    WatchFaults              \* bound on crashes, failed reads, sources that are behind, and reorganisations,
                             \* of which each counts for two

ASSUME WatchSizes ==
    /\ LastWatched \in Nat \ {0} /\ {MaxReorg, WatchFaults} \subseteq Nat
    /\ {HasVetoKey, ResumeAfterTrip} \subseteq BOOLEAN

Watched == 1..LastWatched

VARIABLES
    chain,                   \* BSC
    cursor, carry, finding,  \* the database
    failedTrips,             \* and its trips rows with ok = 0, by epoch
    at,                      \* where the process is: down, idle, scan, confirm, trip, record, resume
    segment,                 \* the events the running tick has still to handle
    upTo,                    \* the head it read
    subject, back,           \* the epoch being judged, and the loop it came from
    mined,                   \* okTx: the pause() of the running trip was seen in a block
    todo,                    \* what resume() still has to look at
    faults,                  \* (bound)
    braked, pardoned,        \* history: epochs whose pause() was mined, and whose trip the operator cleared
    missed, late,            \* history: which a source did not show; posted in a block that was read already
    rescans, shaken          \* history: events were handled by a tick that never ended; blocks were replaced
                             \* that had been read

databaseVars == <<cursor, carry, finding, failedTrips>>
processVars == <<at, segment, upTo, subject, back, mined, todo>>
historyVars == <<faults, braked, pardoned, missed, late, rescans, shaken>>
watchVars == <<chain, databaseVars, processVars, historyVars>>

-----------------------------------------------------------------------------
(* The anchor contract, as far as its events tell. *)

Event(kind, e, forged, reports) == [kind |-> kind, epoch |-> e, forged |-> forged, reports |-> reports]
Of(kinds) == {chain[i].epoch : i \in {j \in DOMAIN chain : chain[j].kind \in kinds}}
PostedAt(e) == CHOOSE i \in DOMAIN chain : chain[i].kind = "posted" /\ chain[i].epoch = e
Forged == {e \in Of({"posted"}) : chain[PostedAt(e)].forged}
OpenAnchors == Of({"posted"}) \ Of({"rejected", "finalized"})

\* Vetoed or disputed, which the watchdog treats alike, and no later anchor became final since.
Unreported == {e \in Of({"rejected"}) : \A f \in Of({"finalized"}) : f < e}

AnchorPosted(forged) ==
    LET e == Cardinality(Of({"posted"})) + 1 IN
    /\ e <= LastWatched /\ OpenAnchors = {}
    /\ chain' = Append(chain, Event("posted", e, forged, Unreported))
    /\ late' = IF Len(chain) < upTo THEN late \cup {e} ELSE late
    /\ UNCHANGED <<databaseVars, processVars, faults, braked, pardoned, missed, rescans, shaken>>

AnchorResolved(kind) ==
    /\ \E e \in OpenAnchors : chain' = Append(chain, Event(kind, e, FALSE, {}))
    /\ UNCHANGED <<databaseVars, processVars, historyVars>>

\* The last blocks are replaced, the first of their successors are without events (an event of no kind, whose
\* epoch means nothing).  What was in them comes again as actions of its own, in other blocks, or never.
Blank == Event("none", 1, FALSE, {})
Reorganised(n) ==
    /\ n <= Len(chain) /\ faults + 2 <= WatchFaults /\ faults' = faults + 2
    /\ \E k \in 0..n : chain' = SubSeq(chain, 1, Len(chain) - n) \o [i \in 1..k |-> Blank]
    /\ shaken' = (shaken \/ Len(chain) - n < upTo)
    /\ UNCHANGED <<databaseVars, processVars, braked, pardoned, missed, late, rescans>>

-----------------------------------------------------------------------------
WatchInit ==
    /\ chain = <<>>
    /\ cursor = 0 /\ carry = {} /\ finding = [e \in Watched |-> "none"] /\ failedTrips = {}
    /\ at = "idle" /\ segment = <<>> /\ upTo = 0 /\ subject = 0 /\ back = "scan" /\ mined = FALSE /\ todo = {}
    /\ faults = 0 /\ braked = {} /\ pardoned = {} /\ missed = {} /\ late = {}
    /\ rescans = FALSE /\ shaken = FALSE

\* evaluateAnchor and checkAnchorRoot: the recomputed root has the epoch's own leaves and those of
\* every epoch below it in the carry table.  The anchor is read from the contract, not from the event.
Disagrees(e) ==
    LET anchor == chain[PostedAt(e)]
    IN  anchor.forged \/ {c \in carry : c < e} # anchor.reports

\* SKIP: the anchor is not there any more; or the RPC that is asked does not show it, being behind, or the
\* layer's node has no block of that time.
Skipped(e) ==
    \/ e \notin Of({"posted"}) /\ UNCHANGED <<missed, faults>>
    \/ /\ e \in Of({"posted"}) /\ missed' = missed \cup {e}
       /\ faults < WatchFaults /\ faults' = faults + 1
Agrees(e) == e \in Of({"posted"}) /\ ~Disagrees(e) /\ UNCHANGED <<missed, faults>>

\* tickFast handles the events in the order of the chain.
InChainOrder(from, to) == SubSeq(chain, from, to)

\* The cursor moves when the tick ends.
CursorWhenHeadIsRead == Len(chain)
CursorWhenTickStarts == cursor

StartTick ==
    /\ at = "idle" /\ cursor < Len(chain)
    /\ segment' = InChainOrder(cursor + 1, Len(chain)) /\ upTo' = Len(chain)
    /\ cursor' = CursorWhenTickStarts
    /\ at' = "scan"
    /\ UNCHANGED <<chain, carry, finding, failedTrips, subject, back, mined, todo, historyVars>>

CarryAfter(event) ==
    CASE event.kind = "rejected" -> carry \cup {event.epoch}
      [] event.kind = "finalized" -> {c \in carry : c >= event.epoch}
      [] OTHER -> carry

HandleResolution ==
    /\ at = "scan" /\ segment # <<>> /\ Head(segment).kind # "posted"
    /\ carry' = CarryAfter(Head(segment))
    /\ segment' = Tail(segment)
    /\ UNCHANGED <<chain, cursor, finding, failedTrips, at, upTo, subject, back, mined, todo, historyVars>>

\* handle(): a disagreement is written down before anything else is done about it.
Judge(e, from) ==
    \/ /\ e \in Of({"posted"}) /\ Disagrees(e)
       /\ finding' = [finding EXCEPT ![e] = "pending_confirm"] /\ at' = "confirm" /\ subject' = e /\ back' = from
       /\ UNCHANGED <<missed, faults>>
    \/ (Skipped(e) \/ Agrees(e)) /\ UNCHANGED <<finding, at, subject, back>>

HandlePosted ==
    /\ at = "scan" /\ segment # <<>> /\ Head(segment).kind = "posted"
    /\ Judge(Head(segment).epoch, "scan")
    /\ segment' = Tail(segment)
    /\ UNCHANGED <<chain, cursor, carry, failedTrips, upTo, mined, todo, braked, pardoned, late, rescans, shaken>>

EndTick ==
    /\ at = "scan" /\ segment = <<>>
    /\ cursor' = upTo /\ at' = "idle"
    /\ UNCHANGED <<chain, carry, finding, failedTrips, segment, upTo, subject, back, mined, todo, historyVars>>

-----------------------------------------------------------------------------
\* What is stored once the second source agrees: the brake is not pulled yet.
RecordedOnConfirmation == "pending_trip"

Confirmed ==
    /\ at = "confirm" /\ subject \in Of({"posted"}) /\ Disagrees(subject)
    /\ finding' = [finding EXCEPT ![subject] = RecordedOnConfirmation]
    /\ at' = "trip"
    /\ UNCHANGED <<chain, cursor, carry, failedTrips, segment, upTo, subject, back, mined, todo, historyVars>>

\* The second source shows no anchor, or finds nothing wrong with the one that is there now: the finding is
\* cleared.
NotConfirmed ==
    /\ at = "confirm" /\ (Skipped(subject) \/ Agrees(subject))
    /\ finding' = [finding EXCEPT ![subject] = "cleared"]
    /\ at' = back
    /\ UNCHANGED <<chain, cursor, carry, failedTrips, segment, upTo, subject, back, mined, todo, braked,
                   pardoned, late, rescans, shaken>>

\* The second source does not answer: the finding stays until a restart, the loop goes on.
ConfirmationFails ==
    /\ at = "confirm" /\ faults < WatchFaults
    /\ faults' = faults + 1 /\ at' = back
    /\ UNCHANGED <<chain, databaseVars, segment, upTo, subject, back, mined, todo, braked, pardoned, missed,
                   late, rescans, shaken>>

\* trip(): a veto while there is time and a key for it, then pause().  Either may fail; a pause() may be sent and
\* not be seen in a block in time; and without WATCHDOG_ARMED none is sent.
TripSends(vetoed, seen) ==
    /\ at = "trip"
    /\ vetoed => HasVetoKey /\ subject \in OpenAnchors
    /\ chain' = IF vetoed THEN Append(chain, Event("rejected", subject, FALSE, {})) ELSE chain
    /\ mined' = seen
    /\ braked' = IF seen THEN braked \cup {subject} ELSE braked
    /\ at' = "record"
    /\ UNCHANGED <<databaseVars, segment, upTo, subject, back, todo, faults, pardoned, missed, late, rescans,
                   shaken>>

SomeWereHandled == Len(segment) # upTo - cursor

\* recordTrip writes okTx, whatever came of the pause(), and the finding is tripped.  The tick returns without
\* moving the cursor, and the process leaves with EXIT.TRIPPED.
TripRecorded ==
    /\ at = "record"
    /\ finding' = [finding EXCEPT ![subject] = "tripped"]
    /\ failedTrips' = IF mined THEN failedTrips ELSE failedTrips \cup {subject}
    /\ rescans' = (rescans \/ SomeWereHandled)
    /\ at' = "down" /\ segment' = <<>> /\ upTo' = cursor /\ mined' = FALSE /\ todo' = {}
    /\ UNCHANGED <<chain, cursor, carry, subject, back, faults, braked, pardoned, missed, late, shaken>>

-----------------------------------------------------------------------------
\* A read throws (safe() ends the tick), or the process dies.
Cut(to) ==
    /\ faults < WatchFaults /\ faults' = faults + 1
    /\ rescans' = (rescans \/ SomeWereHandled)
    /\ at' = to /\ segment' = <<>> /\ upTo' = cursor /\ mined' = FALSE /\ todo' = {}
    /\ UNCHANGED <<chain, databaseVars, subject, back, braked, pardoned, missed, late, shaken>>

ReadFails == at = "scan" /\ segment # <<>> /\ Head(segment).kind = "posted" /\ Cut("idle")
Crash == at # "down" /\ Cut("down")

UnfinishedPendingConfirmOnly == {e \in Watched : finding[e] = "pending_confirm"}
Unfinished == {e \in Watched : finding[e] \in {"pending_trip", "pending_confirm"}}

\* main(): with an unhandled trip it leaves at once, else resume() comes before the loops.
Restart ==
    /\ at = "down"
    /\ ResumeAfterTrip \/ \A e \in Watched : finding[e] # "tripped"
    /\ todo' = Unfinished /\ at' = "resume"
    /\ UNCHANGED <<chain, databaseVars, segment, upTo, subject, back, mined, historyVars>>

ResumePendingTrip ==
    /\ at = "resume" /\ todo # {} /\ finding[Min(todo)] = "pending_trip"
    /\ subject' = Min(todo) /\ back' = "resume" /\ at' = "trip"
    /\ todo' = todo \ {Min(todo)}
    /\ UNCHANGED <<chain, databaseVars, segment, upTo, mined, historyVars>>

ResumePendingConfirm ==
    /\ at = "resume" /\ todo # {} /\ finding[Min(todo)] = "pending_confirm"
    /\ Judge(Min(todo), "resume")
    /\ todo' = todo \ {Min(todo)}
    /\ UNCHANGED <<chain, cursor, carry, failedTrips, segment, upTo, mined, braked, pardoned, late, rescans,
                   shaken>>

ResumeEnds ==
    /\ at = "resume" /\ todo = {}
    /\ at' = "idle"
    /\ UNCHANGED <<chain, databaseVars, segment, upTo, subject, back, mined, todo, historyVars>>

\* The operator looked into it, and the row is set to cleared.
OperatorClears(e) ==
    /\ at = "down" /\ finding[e] = "tripped"
    /\ finding' = [finding EXCEPT ![e] = "cleared"]
    /\ pardoned' = pardoned \cup {e}
    /\ UNCHANGED <<chain, cursor, carry, failedTrips, processVars, faults, braked, missed, late, rescans,
                   shaken>>

-----------------------------------------------------------------------------
WatchStep ==
    \/ StartTick \/ HandleResolution \/ HandlePosted \/ EndTick
    \/ Confirmed \/ NotConfirmed \/ ConfirmationFails
    \/ \E vetoed, seen \in BOOLEAN : TripSends(vetoed, seen)
    \/ TripRecorded
    \/ Restart \/ ResumePendingTrip \/ ResumePendingConfirm \/ ResumeEnds

WatchNext ==
    \/ WatchStep
    \/ \E forged \in BOOLEAN : AnchorPosted(forged)
    \/ \E kind \in {"rejected", "finalized"} : AnchorResolved(kind)
    \/ \E n \in 1..MaxReorg : Reorganised(n)
    \/ ReadFails \/ Crash
    \/ \E e \in Watched : OperatorClears(e)

\* The process goes on, and the container is restarted when it stopped without a trip.
WatchFairness == WF_watchVars(WatchStep)
WatchSpec == WatchInit /\ [][WatchNext]_watchVars /\ WatchFairness

-----------------------------------------------------------------------------
\* An honest anchor is only ever taken for a forged one when part of the chain is read twice (engine.mjs
\* calls the second reading harmless), or blocks that were read are replaced: the carry table is then
\* ahead of the events.
OnlyARescanMisjudges ==
    \A e \in Watched : finding[e] # "none" => e \in Forged \/ rescans \/ shaken

\* A forged anchor behind the cursor has left a finding that only the operator cleared, unless a source did
\* not show the anchor when it was asked, or a reorganisation put it into a block that had been read.
ForgeriesLeaveATrace ==
    \A e \in Forged : PostedAt(e) <= cursor =>
        \/ finding[e] \in {"pending_confirm", "pending_trip", "tripped"}
        \/ e \in missed \cup late \cup pardoned

\* A tripped finding stopped the bridge, or its row says that this was not seen, whatever was killed in between.
TrippedIsAccountedFor == \A e \in Watched : finding[e] = "tripped" => e \in braked \cup failedTrips

\* A confirmed forgery gets its pause(), through any crash, unless this fails and the row says so; or another
\* finding trips first, which ends the process: the operator finds the two of them.
ConfirmedIsBraked ==
    \A e \in Watched : (finding[e] = "pending_trip") ~>
        (e \in braked \cup failedTrips \/ \E f \in Watched \ {e} : finding[f] = "tripped")

\* What the findings say is so, whatever was killed, read twice, replaced or not shown: an honest anchor has
\* none, a forged one behind the cursor has one, and a tripped one stopped the bridge or says it did not.
FindingsAreTrue == OnlyARescanMisjudges /\ ForgeriesLeaveATrace /\ TrippedIsAccountedFor
=============================================================================
