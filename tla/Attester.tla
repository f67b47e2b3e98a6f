------------------------------ MODULE Attester ------------------------------
(***************************************************************************)
(* node-cli `attest`: a validator's process that commits to the triple of  *)
(* an epoch, keeps the salt in a file, and reveals once the anchor is      *)
(* POSTED.  One epoch (epochs have files of their own), one validator key, *)
(* and the processes that run on it: on one machine or on several, killed  *)
(* and restarted, or started again by a timer.                             *)
(*                                                                         *)
(* The triple is what every synced node computes, so a commitment is told  *)
(* from another by its salt.  Time is the stage the epoch has reached, the *)
(* stage "ended" being the two hours in which node-cli commits; when the   *)
(* contract takes a commitment is CommitStages: at this commit only while  *)
(* the epoch is running.                                                   *)
(***************************************************************************)
EXTENDS Integers, Sequences

CONSTANTS
    Processes, Homes, HomeOf,     \* HomeOf[p]: the directory whose state/ holds the files of p
    CommitStages,                 \* when commitAttestation takes a commitment
    MaxSalts, MaxSends, MaxKills  \* bounds of the model

ASSUME AttesterSizes ==
    /\ HomeOf \in [Processes -> Homes]
    /\ CommitStages \subseteq {"running", "ended"}
    /\ {MaxSalts, MaxSends, MaxKills} \subseteq Nat

NoRecord == [salt |-> 0, committedTx |-> FALSE, revealedTx |-> FALSE]
AtRest == [at |-> "idle", seen |-> "running", rec |-> NoRecord, tx |-> 0]

VARIABLES
    stage,                        \* running, ended, late, posted, waited: of the epoch and its anchor
    commitmentOf, openedSalt, strikes, \* the contract: 0 or a salt; the salt revealed; strikes earned
    sent,                         \* every transaction broadcast, with what became of it
    file,                         \* file[h]: epoch-<N>.json; a torn one reads as none
    attester,                     \* what each process is at, saw, read and waits for
    salts, kills,                 \* salts drawn so far; kills so far
    damaged                       \* history: the homes where a kill tore a write

chainSide == <<stage, commitmentOf, openedSalt, strikes>>
attesterVars == <<chainSide, sent, file, attester, salts, kills, damaged>>

AttesterInit ==
    /\ stage = "running" /\ commitmentOf = 0 /\ openedSalt = 0 /\ strikes = 0
    /\ sent = <<>>
    /\ file = [h \in Homes |-> NoRecord]
    /\ attester = [p \in Processes |-> AtRest]
    /\ salts = 0 /\ kills = 0 /\ damaged = {}

-----------------------------------------------------------------------------
(* The chain.                                                              *)

NextStage == [running |-> "ended", ended |-> "late", late |-> "posted", posted |-> "waited"]

StageOver ==
    /\ stage # "waited"
    /\ stage' = NextStage[stage]
    /\ UNCHANGED <<commitmentOf, openedSalt, strikes, sent, file, attester, salts, kills, damaged>>

\* What the contract would accept now; estimateGas asks the same.
Accepted(tx) ==
    IF tx.kind = "commit"
    THEN stage \in CommitStages /\ commitmentOf = 0
    ELSE stage = "posted" /\ commitmentOf # 0 /\ openedSalt = 0

\* commitAttestation, or revealAttestation: a reveal that does not open the commitment is a strike.
Mine(i) ==
    LET tx == sent[i] IN
    /\ tx.status = "pending"
    /\ sent' = [sent EXCEPT ![i].status = IF Accepted(tx) THEN "ok" ELSE "reverted"]
    /\ commitmentOf' = IF Accepted(tx) /\ tx.kind = "commit" THEN tx.salt ELSE commitmentOf
    /\ openedSalt' = IF Accepted(tx) /\ tx.kind = "reveal" THEN tx.salt ELSE openedSalt
    /\ strikes' = IF Accepted(tx) /\ tx.kind = "reveal" /\ tx.salt # commitmentOf
                  THEN strikes + 1 ELSE strikes
    /\ UNCHANGED <<stage, file, attester, salts, kills, damaged>>

-----------------------------------------------------------------------------
(* The process: observe, nextAction, and the two branches of step.         *)

Becomes(p, st) == attester' = [attester EXCEPT ![p] = st]

\* nextAction, as far as it sends.  That the record matches the commitment on the chain is not a guard:
\* commitMatches (attest.mjs 41) hashes the record and compares it with the record's own field.
ActionOf(seen, rec, synced) ==
    IF ~rec.committedTx
    THEN IF seen = "ended" /\ synced THEN "commit" ELSE "idle"
    ELSE IF seen = "posted" /\ ~rec.revealedTx THEN "reveal" ELSE "idle"

Observe(p, synced) ==
    LET rec == file[HomeOf[p]]
        action == ActionOf(stage, rec, synced) IN
    /\ attester[p].at = "idle" /\ action # "idle"
    /\ Becomes(p, [at |-> action, seen |-> stage, rec |-> rec, tx |-> 0])
    /\ UNCHANGED <<chainSide, sent, file, salts, kills, damaged>>

\* A retry takes the salt of the record it read.
SaltForFresh(rec) == salts + 1
SaltFor(rec) == IF rec.salt # 0 THEN rec.salt ELSE salts + 1

\* The triple is computed and the record written, before anything is sent.
WriteRecord(p) ==
    LET rec == [NoRecord EXCEPT !.salt = SaltFor(attester[p].rec)] IN
    /\ attester[p].at = "commit" /\ rec.salt <= MaxSalts
    /\ file' = [file EXCEPT ![HomeOf[p]] = rec]
    /\ salts' = IF rec.salt > salts THEN rec.salt ELSE salts
    /\ Becomes(p, [attester[p] EXCEPT !.at = "send commit", !.rec = rec])
    /\ UNCHANGED <<chainSide, sent, kills, damaged>>

\* What p is about to send: the reveal opens the record that observe read.
KindOf(p) == CASE attester[p].at = "send commit" -> "commit"
               [] attester[p].at = "reveal" -> "reveal"
               [] OTHER -> "none"
TxOf(p) == [kind |-> KindOf(p), salt |-> attester[p].rec.salt, status |-> "pending"]

\* The estimate passes; the broadcast goes out.
Broadcast(p) ==
    /\ KindOf(p) # "none" /\ Accepted(TxOf(p)) /\ Len(sent) < MaxSends
    /\ sent' = Append(sent, TxOf(p))
    /\ Becomes(p, [attester[p] EXCEPT !.at = "wait", !.tx = Len(sent) + 1])
    /\ UNCHANGED <<chainSide, file, salts, kills, damaged>>

\* The estimate is refused, or the RPC does not answer; the next round starts over.
NotSent(p) ==
    /\ KindOf(p) # "none"
    /\ Becomes(p, AtRest)
    /\ UNCHANGED <<chainSide, sent, file, salts, kills, damaged>>

Worked(status) == status = "ok"

\* A receipt, one confirmation: the record as it is on the disk NOW gets the hash of the transaction.
\* (Without a readable record the hash goes to a file no epoch reads.)
RecordWork(p) ==
    LET tx == sent[attester[p].tx]
        old == file[HomeOf[p]]
        done == IF tx.kind = "commit" THEN [old EXCEPT !.committedTx = TRUE]
                                      ELSE [old EXCEPT !.revealedTx = TRUE] IN
    /\ attester[p].at = "wait" /\ Worked(tx.status)
    /\ file' = IF old.salt = 0 THEN file ELSE [file EXCEPT ![HomeOf[p]] = done]
    /\ Becomes(p, AtRest)
    /\ UNCHANGED <<chainSide, sent, salts, kills, damaged>>

\* It failed, the RPC did, or 300 seconds went by without a receipt: the next round starts over, and the
\* transaction may have worked, or still be mined.
GiveUp(p) ==
    /\ attester[p].at = "wait"
    /\ Becomes(p, AtRest)
    /\ UNCHANGED <<chainSide, sent, file, salts, kills, damaged>>

\* Killed between two steps, or in the middle of a write, which is not atomic: the file is truncated.
Writing(p) ==
    \/ attester[p].at = "commit"
    \/ attester[p].at = "wait" /\ Worked(sent[attester[p].tx].status)

Kill(p, torn) ==
    /\ attester[p].at # "idle" /\ kills < MaxKills
    /\ kills' = kills + 1
    /\ Becomes(p, AtRest)
    /\ IF torn
       THEN /\ Writing(p)
            /\ file' = [file EXCEPT ![HomeOf[p]] = NoRecord]
            /\ damaged' = damaged \cup {HomeOf[p]}
       ELSE UNCHANGED <<file, damaged>>
    /\ UNCHANGED <<chainSide, sent, salts>>

AttesterNext ==
    \/ StageOver
    \/ \E i \in DOMAIN sent : Mine(i)
    \/ \E p \in Processes :
        \/ \E synced \in BOOLEAN : Observe(p, synced)
        \/ WriteRecord(p) \/ Broadcast(p) \/ NotSent(p) \/ RecordWork(p) \/ GiveUp(p)
        \/ \E torn \in BOOLEAN : Kill(p, torn)

AttesterSpec == AttesterInit /\ [][AttesterNext]_attesterVars

-----------------------------------------------------------------------------
\* Nobody is struck for its own reveal: whatever is killed, times out or is retried, and on however many
\* machines the key runs, what is revealed opens the commitment that is on the chain (rule 2 of attest.mjs).
NoStrikeOfOnesOwn == strikes = 0

\* The salt behind the commitment on the chain is still on the disk it came from, also when the process was
\* killed, timed out and tried again: only a torn write loses it.
SaltOutlivesTheCommitment ==
    commitmentOf # 0 =>
        \/ \E h \in Homes : file[h].salt = commitmentOf
        \/ damaged # {}

\* attest-state.mjs 6: whoever goes to commit in the two hours after the end of the epoch, with no
\* commitment of the key on the chain yet, is not refused.
CommitsInTheWindowAreTaken ==
    \A p \in Processes : KindOf(p) = "commit" /\ stage = "ended" /\ commitmentOf = 0 => Accepted(TxOf(p))

\* A witness can always open its commitment, and never tries to open it with anything else.
CommitmentsCanBeOpened == NoStrikeOfOnesOwn /\ SaltOutlivesTheCommitment
=============================================================================
