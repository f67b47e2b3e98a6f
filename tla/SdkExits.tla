------------------------------ MODULE SdkExits ------------------------------
(***************************************************************************)
(* sdk/src/agent.ts and store.ts: an exit burns credits on the layer, and  *)
(* the record of it in a JSON file is what the agent will claim it by on   *)
(* BSC.  A write replaces the file whole, from what was read before; two   *)
(* processes in one directory share the file.  A claimExit called by hand  *)
(* is a replay of one record.  BSC may reorganise the block of a claim,    *)
(* which the sdk takes for done after one confirmation; that it undoes a   *)
(* finalize() is left out, and so are amounts, the quote asked before an   *)
(* exit, collect, and the texts of exitStatus.                             *)
(***************************************************************************)
EXTENDS Naturals, FiniteSets

CONSTANTS
    SdkProcesses,
    LastExit,                      \* bound: exits, numbered as L2Bridge numbers them
    MaxBreaks                      \* bound: kills, calls and reads that fail, reorganisations

ASSUME SdkSizes == {LastExit, MaxBreaks} \subseteq Nat

SdkExitIds == 1..LastExit
Resting == [at |-> "rest", exit |-> 0, view |-> [x \in SdkExitIds |-> "none"], todo |-> {},
            due |-> {}, failed |-> {}]      \* history of a replay: payable when it began; whose claim failed
EmptyState == Resting.view

VARIABLES
    burnedExits, finalExits, claimedExits,  \* of the chains: ExitBurned; under a FINAL anchor; exitClaimed
    stateFile,                              \* of each exit: "none", "open", "claimed"
    agent,                                  \* where each process is
    breaks,                                 \* (bound)
    forgotten, undone                       \* history: exits that a break or an overlap may have cost; that a
                                            \* reorganisation took the claim of

sdkVars == <<burnedExits, finalExits, claimedExits, stateFile, agent, breaks, forgotten, undone>>
exitsOnChain == <<burnedExits, finalExits, claimedExits>>

SdkInit ==
    /\ burnedExits = {} /\ finalExits = {} /\ claimedExits = {}
    /\ stateFile = EmptyState
    /\ agent = [p \in SdkProcesses |-> Resting]
    /\ breaks = 0 /\ forgotten = {} /\ undone = {}

Goes(p, where) == agent' = [agent EXCEPT ![p] = where]
AgentAt(p, place) == agent[p].at = place
Recorded(file) == {x \in SdkExitIds : file[x] # "none"}
Breaks == breaks < MaxBreaks /\ breaks' = breaks + 1
EverClaimed == claimedExits \cup undone

-----------------------------------------------------------------------------
(* The chains, external.  An anchor that was vetoed is reported again: FINAL comes late, and stays. *)
BecomesFinal(x) ==
    /\ x \in burnedExits \ finalExits
    /\ finalExits' = finalExits \cup {x}
    /\ UNCHANGED <<burnedExits, claimedExits, stateFile, agent, breaks, forgotten, undone>>

\* claimExit is open to anyone; a claim whose wait failed may also be mined later.
ClaimedForIt(x) ==
    /\ x \in finalExits \ claimedExits
    /\ claimedExits' = claimedExits \cup {x}
    /\ UNCHANGED <<burnedExits, finalExits, stateFile, agent, breaks, forgotten, undone>>

ClaimUndone(x) ==
    /\ x \in claimedExits /\ Breaks
    /\ claimedExits' = claimedExits \ {x}
    /\ undone' = undone \cup {x}
    /\ UNCHANGED <<burnedExits, finalExits, stateFile, agent, forgotten>>

-----------------------------------------------------------------------------
(* exit and put. *)
ExitOf(p) ==
    LET x == Cardinality(burnedExits) + 1 IN
    /\ AgentAt(p, "rest") /\ x \in SdkExitIds
    /\ burnedExits' = burnedExits \cup {x}
    /\ Goes(p, [Resting EXCEPT !.at = "burned", !.exit = x])
    /\ UNCHANGED <<finalExits, claimedExits, stateFile, breaks, forgotten, undone>>

\* ExitStore.read: a file that cannot be read or parsed is an empty one.
InTheFile == {q \in SdkProcesses : agent[q].at \in {"putting", "marking"}}
Overlaps(p) == IF InTheFile = {} THEN {} ELSE {agent[q].exit : q \in InTheFile \cup {p}}
ReadsFile(p, here, next) ==
    /\ AgentAt(p, here)
    /\ \/ /\ Goes(p, [agent[p] EXCEPT !.at = next, !.view = stateFile])
          /\ forgotten' = forgotten \cup Overlaps(p)
          /\ UNCHANGED breaks
       \/ /\ Breaks
          /\ Goes(p, [agent[p] EXCEPT !.at = next, !.view = EmptyState])
          /\ forgotten' = forgotten \cup Overlaps(p) \cup Recorded(stateFile)
    /\ UNCHANGED <<exitsOnChain, stateFile, undone>>
ReadToPut(p) == ReadsFile(p, "burned", "putting")

PutAlone(view, x) == [EmptyState EXCEPT ![x] = "open"]
WithRecord(view, x) == [view EXCEPT ![x] = "open"]
Put(p) ==
    /\ AgentAt(p, "putting")
    /\ stateFile' = WithRecord(agent[p].view, agent[p].exit)
    /\ Goes(p, Resting)
    /\ UNCHANGED <<exitsOnChain, breaks, forgotten, undone>>

-----------------------------------------------------------------------------
(* replayPendingExits, and under it claimExit and markClaimed. *)
Unclaimed(file) == {x \in SdkExitIds : file[x] = "open"}
Replaying(open) == [Resting EXCEPT !.at = "replaying", !.todo = open, !.due = open \cap finalExits]
ReplayPendingExits(p) ==
    /\ AgentAt(p, "rest")
    /\ \/ Goes(p, Replaying(Unclaimed(stateFile))) /\ UNCHANGED breaks
       \/ Goes(p, Replaying({})) /\ Breaks      \* the file cannot be read: there is nothing to replay
    /\ UNCHANGED <<exitsOnChain, stateFile, forgotten, undone>>

Finishes(p) ==
    /\ AgentAt(p, "replaying") /\ agent[p].todo = {}
    /\ Goes(p, Resting)
    /\ UNCHANGED <<exitsOnChain, stateFile, breaks, forgotten, undone>>

\* The replay is done with a record, claimed or "waiting" for the next start, and goes on.
TheOthers(todo, x) == todo \ {x}
NextRecord(where, x) ==
    [where EXCEPT !.at = "replaying", !.exit = 0, !.view = EmptyState, !.todo = TheOthers(where.todo, x)]

\* exitClaimed, then the proof.
Looks(p, x) ==
    /\ AgentAt(p, "replaying") /\ x \in agent[p].todo
    /\ Goes(p, CASE x \in claimedExits -> [agent[p] EXCEPT !.at = "claimed", !.exit = x]
                 [] x \in finalExits \ claimedExits -> [agent[p] EXCEPT !.at = "sent", !.exit = x]
                 [] OTHER -> NextRecord(agent[p], x))
    /\ UNCHANGED <<exitsOnChain, stateFile, breaks, forgotten, undone>>

\* tx.wait(1): the claim is mined, or reverts because somebody else's was first.
MinedBy(p) == claimedExits \cup {agent[p].exit}
IsMined(p) ==
    /\ AgentAt(p, "sent")
    /\ \/ /\ agent[p].exit \notin claimedExits
          /\ claimedExits' = MinedBy(p)
          /\ Goes(p, [agent[p] EXCEPT !.at = "claimed"])
       \/ /\ agent[p].exit \in claimedExits
          /\ Goes(p, NextRecord(agent[p], agent[p].exit))
          /\ UNCHANGED claimedExits
    /\ UNCHANGED <<burnedExits, finalExits, stateFile, breaks, forgotten, undone>>

ReadToMark(p) == ReadsFile(p, "claimed", "marking")
MarkClaimed(p) ==
    LET x == agent[p].exit
        view == agent[p].view
    IN  /\ AgentAt(p, "marking")
        /\ stateFile' = IF view[x] = "none" THEN stateFile ELSE [view EXCEPT ![x] = "claimed"]
        /\ Goes(p, NextRecord(agent[p], x))
        /\ UNCHANGED <<exitsOnChain, breaks, forgotten, undone>>

\* Caught per record: exitClaimed, the proof, the estimate or the wait throws, the claim reverts, or the
\* file cannot be written.
Working == {"sent", "claimed", "marking"}
ClaimFails(p, x) ==
    /\ \/ AgentAt(p, "replaying") /\ x \in agent[p].todo
       \/ agent[p].at \in Working /\ x = agent[p].exit
    /\ Breaks
    /\ Goes(p, [NextRecord(agent[p], x) EXCEPT !.failed = @ \cup {x}])
    /\ UNCHANGED <<exitsOnChain, stateFile, forgotten, undone>>

\* The process is killed; or exit throws after the burn, in its wait or in its write.
Killed(p) ==
    /\ ~AgentAt(p, "rest") /\ Breaks
    /\ forgotten' = IF agent[p].at \in {"burned", "putting"} THEN forgotten \cup {agent[p].exit} ELSE forgotten
    /\ Goes(p, Resting)
    /\ UNCHANGED <<exitsOnChain, stateFile, undone>>

SdkNext ==
    \/ \E x \in SdkExitIds : BecomesFinal(x) \/ ClaimedForIt(x) \/ ClaimUndone(x)
    \/ \E p \in SdkProcesses :
        \/ ExitOf(p) \/ \E x \in SdkExitIds : Looks(p, x) \/ ClaimFails(p, x)
        \/ ReadToPut(p) \/ Put(p) \/ ReplayPendingExits(p) \/ Finishes(p)
        \/ IsMined(p) \/ ReadToMark(p) \/ MarkClaimed(p) \/ Killed(p)

SdkSpec == SdkInit /\ [][SdkNext]_sdkVars

-----------------------------------------------------------------------------
(* A record is marked only when BSC has taken the claim, and a marked one is never tried again: only a   *)
(* reorganisation after the first confirmation leaves a marked exit without its claim.                 *)
MarkedIsClaimed == \A x \in SdkExitIds : stateFile[x] = "claimed" => x \in EverClaimed

(* The record of a burned exit, the one state store.ts says must not be lost, is lost only to a break  *)
(* before it was written, to a file that could not be read, or to two processes that overlap: then a   *)
(* write puts back what was there before.                                                              *)
RecordsAreLostForAReason ==
    burnedExits \subseteq Recorded(stateFile) \cup forgotten
                          \cup {agent[p].exit : p \in {q \in SdkProcesses : agent[q].at \in {"burned", "putting"}}}

(* A replay that ran to its end has claimed, or found claimed, every exit that it read as recorded and   *)
(* that was payable when it began, except those whose own claim failed: neither a record that has to    *)
(* wait nor one that fails, at whatever call, keeps the replay from the others.                         *)
ReplaysReachAll ==
    \A p \in SdkProcesses : AgentAt(p, "replaying") /\ agent[p].todo = {} =>
        agent[p].due \subseteq EverClaimed \cup agent[p].failed

(* No burned exit is forgotten, none is called claimed before it is, none is passed over by a replay. *)
NoExitIsLost == MarkedIsClaimed /\ RecordsAreLostForAReason /\ ReplaysReachAll
==============================================================================
