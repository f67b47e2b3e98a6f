# BNB Agent Chain: specifications, checks and proofs

This directory holds TLA+ models of the BNB Agent Chain, the TLC runs that check them on small
instances, and theorems about them that TLAPS checks. Paths are relative to the repository's root.

| Module | Models | Checked by |
| --- | --- | --- |
| `ReleaseIndex`, `BacBridge` | `contracts/src/BacBridge.sol`, bridge and extension | five `bridge_*` runs; TLAPS |
| `AnchorPromise`, `ChainAnchor` | what the others rely on (an epoch is resolved once, in order), and `contracts/src/ChainAnchor.sol`, which keeps it | `anchor`; TLAPS |
| `ValidatorStaking` | `contracts/src/ValidatorStaking.sol`: stake, votes, day credits, rewards | `staking`, `staking_late_credit`; TLAPS |
| `Relayer` | `relayer/src/*.mjs`, and BSC and the layer as it sees them | `relayer`, `relayer_carry`; TLAPS |
| `NodeRegistry` | the node lists of `ValidatorStaking.sol` | `edges`; TLAPS |
| `BacTaxRouter`, `BacNodeFund` | the contracts of that name | `edges`; TLAPS |
| `Layer`, `WrappedBac` | `contracts/src/layer/`: `L2Bridge`, `L2Gate`, `AgentBook`; `WBAC` | `edges`; TLAPS |
| `Watchdog` | `watchdog/src`: fast loop, findings, trip, restart | `edges`; TLAPS |
| `SlowLoop` | `watchdog/src`: the rules BUCKETS and RELEASE_CAP and their shadow ledger | `edges`; TLAPS |
| `Reconcile` | the rule RECONCILE of the watchdog and the public reconciliation of the indexer | `edges`; TLAPS |
| `Indexer`, `BuiltTokens` | `indexer/src`: ingest and its rows; `economy/`, the tokens that agents build | `edges`; TLAPS |
| `Attester` | `node-cli/src/commands/attest.mjs` | `edges`, `attester_window`; TLAPS |
| `EpochBlocks` | `l2BlockFor` and `rangeFor` of relayer, watchdog, node-cli, sdk | `edges`; TLAPS |
| `ExitTree` | the exit tree and its proofs in relayer, watchdog, node-cli, sdk, indexer, bridge | `edges`; TLAPS |
| `SdkExits` | `sdk/src/agent.ts`, `store.ts`: exits, their record, the replay of claims | `relayer`; TLAPS |
| `ReleaseIndexProofs`, `BacBridgeProofs`, `ChainAnchorProofs`, `ValidatorStakingProofs`, `RelayerProofs` | theorems about the modules they are named after; `RelayerProofs` also about `SdkExits` | TLAPS |
| `EdgesProofs`, `ProgramsProofs` | theorems about the parts of `MCEdges`; `ProgramsProofs` about `EpochBlocks`, `ExitTree` and `SlowLoop` | TLAPS |
| `Numbers` | lemmas about division, finite sets, step-by-step functions and searches, and the sums of `Functions` | TLAPS |
| `MC...` | the instances TLC checks | |

`cd tla; tlc -config bridge_exits.cfg MCBacBridge` checks one run and `tlapm ChainAnchorProofs.tla`
the proofs of one module; `PROJECT.json` lists the runs, maps every definition to the lines it
models, and lists the hazards with the properties that watch them.

## 1. The system

BAC, a token on BSC, is locked in a bridge; the lock becomes a credit on a QBFT layer, where agents
spend it. Credits that leave the layer are burned there, reported to BSC by an anchor per epoch (ten
minutes), and paid on BSC with a share of the BAC the bridge has bought back from tax revenue: never
with somebody's deposit.

```
 BSC   BacTaxRouter --BNB--> BacBridge <--anchors, haltReason-- ChainAnchor <--votes-- ValidatorStaking
          | BacNodeFund       | Locked      ^ FINAL epochs          ^ postAnchor        ^ commit, reveal
 relayer                      v             |                       |                   | (node-cli)
                             scan, confirm, outbox, send  ----------+                   |
 layer                        v credit      | exit (tree of the epoch)                  |
                             L2Bridge, L2Gate, AgentBook, WBAC   ----> watchdog, indexer, sdk, web
```

| Component | State | Operations | What makes it correct |
| --- | --- | --- | --- |
| `BacBridge` | two books (BAC, BNB), debts per address, release index, ring of unwitnessed pots, pause budget, arm, halt accumulators | lock, acceptRelease, sweeps, buyback, claimExit, settleEpoch, collect, burnLocked, revokeEpochOwed, pause, unpause, armEscape, cancelEscapeArm, checkHalt, claimOwedAfterHalt, sweepImmatureOwed, escapeCollect, emergency withdrawals | books are backed, debts are backed and paid, deposits never pay exits, early exits do not dilute later ones, the brake stops new debt and cannot take matured debt or hold funds for ever |
| `ChainAnchor` | anchors per epoch, cumulative totals, day heads, veto and dispute windows, pending relayer | postAnchor, finalize, veto, applyDispute, rotation | one anchor at a time, in order, resolved once; only FINAL ones count; sums stay backed |
| `ValidatorStaking` | stakes, nodes, commitments, reveals, attested days, reward pots | stake, unstake, registerNode, retireNode, attestDay, commit, reveal, disputeAnchor, settleDayRewards, claimReward, sweepExpired, removal | stake votes once, a pot pays no more than it escrowed and the rest returns |
| `BacTaxRouter`, `BacNodeFund` | revenue, stuck balances; a fund and its owner | receive, sync, settle, push, retry; acceptRelease, withdraw | what came in is sent or still there |
| `L2Bridge`, `L2Gate`, `AgentBook`, `WBAC` | seen deposits, creditable, totals; wallet of agent and agent of wallet; balances | credit, exit, withdrawCredits, burnFloat, rotateRelayer; applySync; announce; deposit, withdraw, transferFrom | a deposit is credited once, the gate is a bijection that never goes back, nobody acts as another |
| relayer | SQLite: cursor, outbox, anchors; memory: finality tracker, sender's round | scan, gate, send, confirm, assemble anchor | credits have a final deposit; nothing is lost or sent twice |
| watchdog | SQLite: two cursors, carry, findings, snapshot, release log | tickFast, tickSlow, reconfirm, trip, resume | a forgery pauses the bridge or leaves a row that says why not, an honest history does neither |
| indexer | SQLite: cursors, logs, rows | ingest of two chains, economy, snapshot, API | reading again changes nothing; what is shown as final is final |
| node-cli | a salt file per epoch | observe, commit, reveal | a salt outlives its commitment; no strike of one's own |
| sdk | a file of exits | exit, claimExit, replay | a burned exit is not forgotten |
| web, chain, scripts | none that the protocol reads | | |

The components share no memory: they interact through contract calls, logs read over RPC, and
transactions. The hard parts are therefore (a) long sequences of legal calls over shared integer
books with rounding; (b) the few places where a contract calls out (a swap, the router's pushes); (c)
keys that race: relayer, watchdog, veto key, owner, validators; (d) processes that may die between
any two writes, between two chains of which one reorganises and whose nodes lag or disagree; (e)
time: waits, maturities, budgets and windows whose edges meet; (f) the same computation written in
five programs.

## 2. The models

### BacBridge

State and action names are the contract's. One tick is one epoch in the runs (`EPOCH = 1`) and
waits are a few ticks; basis points have the unit `BPS` (4 in the runs, 10000 in the code), the junior
accumulators `ACC`, and `ReleaseIndex` has its rescaling threshold 10: the rounding, the rescale and
the generation counter are the code's, with a coarser grain, so TLC reaches in a few steps
what the code would reach in years. `ReleaseIndex` is pure: the index a pot scales down and what of an
old debt is still unreleased at it.

* A call is one action; a guard is a `require`. `buyback` is two, because it calls the venue:
  `BuybackBegin` up to the external call, `BuybackEnd` after it, with the reentrancy lock
  (`notEntered`) on every function that has the modifier and on no other. So `acceptRelease`, the
  settlement, the brake and `checkHalt` do fall inside a swap.
* `claimHistory[w][t]`, the amount claimed by time t, is what the contract's binary search over
  its checkpoints returns. `RevokeEpochOwed` models the whole loop over the holders.
* Checked arithmetic that can revert is a guard: `ClaimOwedAfterHalt`, `SweepImmatureOwed` and
  `EscapeCollect` are enabled only where their subtractions do not underflow, so liveness fails if
  a total has drifted.
* `ChainAnchor` answers through `anchorState`, `anchorWitnessed` and `haltReason`. Epochs step by the
  abstract `AnchorPromise!Resolve`, the specification `ChainAnchor` is shown to implement.
* `Keys` says which privileged keys act; what they send is unrestricted.
* Left out: the controller of an agent (`setAgentController`, identity reads), UUPS upgrade and
  ownership, the claim history of before v1.1, prices and venue choice (the amount bought is an
  input), the Merkle proof (an exit is a member of the anchored set; `ExitTree` has the proofs), and
  counters nothing reads (lifetime totals, `lastPot`, `lastClaimAt`, the records of deposits).

### ChainAnchor and AnchorPromise

`AnchorPromise` is the promise to the outside: epochs go from open to FINAL, VETOED or DISPUTED once,
at most one at a time. `ChainAnchor` refines it, with `Bar` mapping POSTED and NONE to open.
A hash chain is the sequence of the epochs hashed (nothing but equality of heads is used). The packed
30 lanes of veto and dispute counts are a function from lanes to counts with saturation `LANE_MAX`,
shifted by `_mark` as in the code, its branch for a day before the mark included, though epochs
posted in order never take it. `Votes` (what `ValidatorStaking.attestationResult` and `totalStaked`
may answer) and the bridge's `totalCreditsIssued` are external; fees, circulating supply and events
are left out. `pendingSince` is a history variable.

### ValidatorStaking and NodeRegistry

`ValidatorStaking` has the stakes, the votes of an epoch (blind commitment, reveal, open dispute), the
day credits filed by batch (`attestDay`) or by an agreeing reveal, and the pots: `settleDayRewards`
fixes a day's weight and escrows the pot, `claimReward` pays from it, `sweepExpired` returns the rest.
A list in storage is the number of times an address is on it, so a double entry is a state. What a
vote says is the side it takes. The anchor contract is external: it posts epochs in order, one
waiting, no later than `MaxPostDelay` after their end. `NodeRegistry` has the two lists a node is on,
swap-and-pop, the strikes of a whole operator inside a loop, and the admin's removal.

### Relayer

The relayer's variables are its database (`cursor`, `row`, `anchors`; a row's id is its place in the
outbox) and its memory (`snapshot`, `outageSince`, `todo`, `step`), around a model of BSC (head,
finalized height, reorganisations, where a deposit is mined), of `ChainAnchor` as it is called, and of
`L2Bridge` (`seen`, credits and exits per epoch). Time is counted in BSC blocks.

* Node runs callbacks to completion, so the writes of one turn of the event loop are one action; the
  awaits are the boundaries. Everything in flight can change there: a block, a reorganisation, a
  mined or lost transaction, the end of an epoch. A death can fall between two writes as well:
  `ScanDies`, `AnchorDies`, `SendDies`, `Dies` and `Restart` keep the database and drop the memory.
* An RPC answers with any state at most `LAG` behind; an outage is a round without snapshot (RPCs
  missing or in disagreement), the state the fallback gate counts in.
* A credit is identified by transaction and log index; a reorganisation may mine the same
  transaction at another index.
* The relayer waits for one confirmation on BSC and does not look again. A reorganisation takes anchors
  and their resolutions back with their blocks (`AnchorsGoBack`; `anchorAt` and `resolvedAt` are the
  blocks), and their transactions to the mempool or away; `unanchored` is the history of it, and the one
  exception in `ConfirmedIsDone`.
* Left out: the sync jobs of `L2Gate` (see Not modelled), the limit of 50 jobs per round, the commit
  window, gas prices, the status page, and the leaves of the exit tree (an anchor carries the numbers
  of credits and exits it reports; `EpochBlocks` and `ExitTree` have the rest).

### The parts around the core: MCEdges

Twelve parts share no state with each other. `MCEdges` chooses one of them at the start (`part`,
which never changes), lets only its actions happen, and keeps every other part in one initial state;
so the state space is the sum of theirs, every property is an ordinary property of a part, and its
fairness is conjoined with the part's name.

* **BacTaxRouter, BacNodeFund.** A call is modelled push by push. While a push is open the callee may send
  BNB back; a failed push undoes everything since it opened and books it as stuck. Nothing else may start
  meanwhile (nonReentrant), but `receive` may. `acceptRelease` of the fund is open to all: `Donation` is
  anybody's call, `ForcedIn` is BNB that arrives without one, and the books of the fund tell the two apart
  (`given`, `forcedBnb`).
* **Layer.** The relayer role is external: whoever holds it sends any job again and in any order, as
  parked jobs are. `MCLocks`, `MCSyncRows`, `MCSigned` are the jobs there are: two agents, two wallets,
  one taken over by the other agent; a rotation and a rotation back.
* **WrappedBac.** `transferFrom` to oneself, unlimited allowances, coin forced in
  (`totalSupply` is the balance of the contract); `granted`, `spent` and `forcedBac` are history.
* **Watchdog.** The chain is the sequence of the anchor contract's events, one per block; the loop reads
  to its head, and a reorganisation replaces its last blocks (the successors may be `Blank`, what was in
  them comes again or not). An anchor is honest when it re-reports exactly the rejected epochs that no
  final one has re-reported. Database and process are apart. A read may throw (`ReadFails` ends the
  tick); the RPC asked, first or second, may not show the anchor or the layer's block (`Skipped`, the
  SKIP verdicts); the process may die between any two writes, and the operator clear a finding.
  `TripSends` and `TripRecorded` are apart, since the transactions and the row are: the `pause()` may
  fail, not be seen in 60 s or not be sent at all (an unarmed watchdog), and the trip is recorded with
  `ok` = 0 (`failedTrips`). A layer node that is behind is the subject of `EpochBlocks`.
* **SlowLoop.** The bridge's books move by its own functions, in lots, the owner's
  `emergencyWithdrawToken` among them, whose event the loop does not read; or by a `Leak`, which no event
  shows; `stretch` is what happened since the cursor. `potAllowed` is the rate cap with `RELEASE_PART`
  for 10000 * 144 / bps; the tolerances in bps are left out, and the day of the rolling rule has one of its
  two ends. A tick is atomic but may die after recording the releases and after saving the snapshot;
  where the second source does not confirm what the first showed, or does not answer, it goes on (`PassedOver`).
  `leak`, `bucket` and `shrunk` are what the watchdog does not know and the properties ask.
* **Reconcile.** Both chains advance while their counters, balances and logs are read one after the
  other. A relayer's gates (`CREDIT_WAIT`) and an anchor's wait (`CLAIM_WAIT`) are the two delays;
  fees, donations, floats and forged credits are side flows.
* **Indexer, BuiltTokens.** A history of each chain is chosen at the start (`MCHistories`,
  `MCLayerBlocks`) and read by loops that lag by any amount, fail and crash between a write and its
  cursor. Exits are filed, marked and resolved as in `store.js`; tokens are probed, read back and
  demoted as in `economy/index.js`.
* **Attester.** One epoch, one key, several processes with directories of their own or shared. A
  triple is what every synced node computes, so a commitment is told from another by its salt. Time
  is the stage the epoch has reached.
* **EpochBlocks.** Layer blocks with their ticks, a node that may be behind and catch up between two
  reads, and the bisection of each program as it is written: what it does at the head, what it
  caches, which block it starts a range from.
* **ExitTree.** A hash is what went into it, so roots and proofs compare exactly when the code's would
  (no collisions). Five leaves let an odd one rise twice. A level, and a path up the levels, is a
  function of the level's number, with as many levels as leaves: the root only repeats there.
* **SdkExits.** A write replaces the file with what was read before plus one record; reading and
  writing are two steps, with another process in between. A replay catches the failure of each record
  (`ClaimFails`) and goes on; it ends early only when the process is killed, and is empty when the file
  cannot be read. A reorganisation may undo a claim of one confirmation (`ClaimUndone`). The part is
  checked in the run of the relayer, beside it (`MCRelayer`): the two share nothing.

## 3. The runs

All passing runs explore their whole state space. Bounds are named at the end of each module's
CONSTANTS; they limit time, epochs, deposits and inflows, not what the calls may do.
`CHECK_DEADLOCK FALSE` is set because time and inputs are bounded, so each model stops at its last tick.

| Run | Bounds | What it shows |
| --- | --- | --- |
| `bridge_exits` | two exits to two addresses, 4 epochs, any outcome of an anchor, pots of two sizes | `DebtIsBacked`, `RateSurvivesClaims`, `UnwitnessedPotsAreCapped` |
| `bridge_books` | three exits, two of one address and one truncated, buybacks, sweeps, forced transfers, owner withdrawals, halts in the swap | `BooksAreSound` (`TypeOK`, `BooksAreHeld`, `BudgetIsBounded`), `ClaimsAddUp` (`OwedTotalIsTheSum`, `CreditsAddUp`, `JuniorIsBacked`), `DepositsNeverPayExits`, `MaturedOwedNeverTakenBack` (no revocation here) |
| `bridge_escape` | hostile watchdog and veto key that pause, unpause, revoke, cancel | `ReservedMatchesClaims` up to the wei each harvest may round, `PauseOverrunIsBounded`; liveness: `EscapeEnds` (`ExhaustedPauseBudgetHalts`, `SeniorDebtIsPaid`) |
| `bridge_revoke_matured` | violation | `MaturedOwedNeverTakenBack` does not survive `revokeEpochOwed` |
| `bridge_stale_arm` | violation | `NoTriggerHaltsOnTheSpot`: an old arm halts at once |
| `anchor` | 4 epochs over 2 days and a window of 2, two relayers, admin and veto key | `CreditsAreBacked`, `OneAnchorWaits`, `RecordsTellTheHistory` (`CumulativesAreFinal`, `WindowsCountEvents`, `HeadsChainFinalAnchors`), `ThePastStands` (`ResolvedForGood`, `SealedDayNeverMoves`), `RotationIsAnnounced`, the refinement of `AnchorPromise` (`KeepsThePromise`); liveness: `PostedIsResolved` |
| `staking` | two validators, 3 BAC, votes on an anchor; two days, one pot, all credits, claims, sweeps and a removal | `WitnessesCountOnce` (`VotesAreDistinctStake`, `OneCreditPerDay`), `StakeIsSound` (`TypeOK`, `NodesAreBacked`), `RewardBooksBalance`, `CommitmentsAreBlind`; liveness: `ExpiredPotsReturn` |
| `staking_late_credit` | violation | `RewardBooksBalance` when an anchor comes after its day was settled |
| `relayer` | a deposit, an exit, two epochs, two deaths or reorganisations; for the sdk two processes, two exits, one break | `CreditsHaveTheirDeposit`, `ConfirmedIsDone`, `CursorLeavesNothingBehind`, `AnchorsCoverTheirEpoch`; `NoExitIsLost` (`RecordsAreLostForAReason`, `MarkedIsClaimed`, `ReplaysReachAll`) |
| `relayer_carry` | violation | `RejectedEpochsAreReportedAgain`: the relayer never learns of a veto |
| `edges` | the twelve parts above, bounds in `edges.cfg` by part | the properties below |
| `attester_window` | violation | `CommitsInTheWindowAreTaken`: the contract takes no commitment when node-cli makes them |

Several properties are conjunctions of named parts, each with a comment of its own; TLC checks them
all, and names the conjunction when one fails. `TypeOK` of `ChainAnchor` and of `Relayer` is proved
instead of checked.

| Property of `edges` | Its parts | What it says |
| --- | --- | --- |
| `TaxBooksBalance` | `RouterIsSolvent`, `HalvesStayEven`, `FundBooksBalance` | the router is solvent whatever calls back, its halves stay even, the fund's counters explain its balance whoever else pays in |
| `EverythingIsDelivered` | | once the bridge accepts, no tax is left behind |
| `FindingsAreTrue` | `ForgeriesLeaveATrace`, `TrippedIsAccountedFor`, `OnlyARescanMisjudges` | a forgery that was shown leaves a finding, tripped means braked or recorded as not seen, only a rescan or a reorganisation makes it misjudge an honest anchor |
| `ConfirmedIsBraked` | | a confirmed forgery gets its pause through any crash, unless that is recorded as failed or another finding trips first |
| `RegistersAreIndexed` | `ListsAreIndexed`, `GateIsABijection` | the registry's lists keep their indexes, the gate is a bijection |
| `LayerBooksHold` | `LayerBooksBalance`, `NobodyActsAsAnother`, `WrappedIsBacked`, `SpendersStayWithinAllowance` | the layer's money adds up, no WBAC is made of coin forced in, and all is spent by whom it belongs to |
| `NothingIsTakenBack` | `StruckOutStaysOut`, `TheGateNeverGoesBack`, `RotationsAreNotReplayed`, `ReplaysTakeNothingBack` | a late or repeated message undoes nothing |
| `IndexIsTrue` | `CountersSurviveReplays`, `ExitsAreFiledUnderTheirAnchor`, `VetoedAnchorsHoldNothing`, `AnchoredIsFinal`; `HoldingsMatchTheLogs`, `NoPairWaitsInVain` | an index survives replays, files an exit where BSC would pay it, and is complete for what it recognised late |
| `CoveredIsMarked` | | what a final anchor covers is marked in the end |
| `CommitmentsCanBeOpened` | `SaltOutlivesTheCommitment`, `NoStrikeOfOnesOwn` | a salt outlives its commitment on two machines |
| `ProgramsAgree` | `WitnessIsNeverMisled`, `OnlyABehindNodeMisleads`, `RangesHoldOneEpoch`; `ProofsPass` | a validator's search never errs, the others only on a node that is behind; every program's root and proofs pass |
| `VerdictsHaveAReason` | `NobodyCriesWolf`, `SilenceHasAReason`, `IndexerAlarmsAreTrue`, `OvermintIsSeen` | the two programs that compare the books of the chains raise alarms and are silent for one of the reasons stated |
| `SlowLoopCanBeTrusted` | `AlarmsHaveAReason`, `LeaksAreSeen` | the slow loop trips for one of the reasons stated, and sees every leak it can compare and confirm |

**Why the bounds are enough.** Two addresses and two agents are what a total can be wrong between;
three exits give an address debts of two ages; four or five ticks let each wait (maturity 1 or 2,
arm delay 1, pause 2, grace 1) end, and one more event come after; the amounts are chosen so that shares
and pots leave remainders. In `anchor` events move through the window and out of it, and an anchor is
resolved each way with another waiting behind it. In `staking` a behaviour looks either at moving
stakes or at pots (`MCValidatorStaking`): the two meet in `dayWeightOf` alone, and their product is out
of reach. One deposit is enough for the relayer's pipeline, as rows are treated one by one and share
only the cursor; two faults allow a death on either side of a reorganisation. In `edges` each part has
one more of each thing than it takes to go wrong: two rejected epochs to carry, two exits in two
epochs, three nodes of two operators, three settlements and windows of two epochs, two processes. Two
faults of the watchdog let a finding stay pending while an earlier one trips and keeps the process down;
a reorganisation counts for two of them.

**Fairness.** `BacBridge!LiveSpec` assumes that time passes, that somebody calls `checkHalt` when it
is due (anybody may, and everybody with a claim wants to) and that a creditor calls
`claimOwedAfterHalt`. `ChainAnchor!LiveSpec`: time passes and somebody calls `finalize` (open to all).
`staking`: time passes and somebody calls `sweepExpired` (open to all). `edges`: a call of the
router runs to its end, `settle` (open to all) is called again and again, and the bridge accepts in the
end; the watchdog's timer and supervisor keep its process going (`WatchStep`, restart included); the
indexer's two loops are timers too. Nothing is assumed of any key. The relayer has no fairness: an
anchor whose process died in the wrong place, or whose job was parked, needs an operator.

**Mutants.** Each property of a passing run has a mutant in `PROJECT.json`: a variant of a modelled
definition, kept beside it (`armCancellableAtWill`, `ExitShareOfWholeBucket`, ...), under which TLC
must refute the property.

### Disagreements between code and documents

1. `bridge_revoke_matured`. The comment over `revokeEpochOwed` says that only young debt can be
   touched; the code reads `owed[who]`, matured part included, so debt of an epoch that matured
   before the watchdog's call is taken.
2. `bridge_stale_arm`. The design says that a trigger only ever arms and that the delay follows. An
   arm is not cleared when its cause goes away by itself, so the next cause, of whatever kind, finds
   the delay already run, and `checkHalt` halts in the same block.
3. `staking_late_credit`. "Every credit for `day` was recorded when it was filed", says
   `settleDayRewards`; a reveal on an anchor posted after the day was settled credits that day, shares
   exceed the pot, and `sweepExpired` underflows.
4. `relayer_carry`. `anchorJob.mjs` merges earlier VETOED and DISPUTED epochs into the next anchor,
   from its own table, which nothing ever updates with the verdict. A rejected epoch's credits and
   exits are in no later anchor.
5. `attester_window`. node-cli commits from the end of an epoch until two hours later (`attest-state.mjs:38`,
   `:43`), and its documents say that the contract's deadline lies there (`attest-state.mjs:6`, docs/02 line
   1269). The contract's `COMMIT_WINDOW` is 0: `commitAttestation` closes with the epoch and refuses every
   commitment the client makes. With this contract node-cli never commits, and so never reveals.

Met without a run of their own. Where a property says "unless", the exception is one of these, and
the run reaches it.

* **Blocks of an epoch.** `l2BlockFor` (`relayer/src/anchorMath.mjs:38`) takes the head of its own
  node for the last block of an epoch whenever that head is older than the epoch's end, where line 4
  and line 30 define the last block before it. A node that is behind then gives an anchor without the
  epoch's last credits: `relayer` sets `LAYER_LAG = 0`, and with 1 TLC refutes
  `AnchorsCoverTheirEpoch`; `OnlyABehindNodeMisleads` says that nothing else misleads. The watchdog
  caches such an answer for good (`engine.mjs:226-237` calls that safe), so a later range starts inside
  the epoch before (`RangesHoldOneEpoch`). The sdk's `rangeFor` throws for the first epoch.
* **Constants.** `EPOCH` is 86400 in the relayer (`constants.mjs:11`), node-cli (`constants.mjs:9`) and
  the sdk, 600 in `ChainAnchor` and the watchdog. `COMMIT_WINDOW` is the finding 5: `edges` gives
  `Attester` the windows of the client's own constants as well (`CommitStages`), so that what comes after a
  commitment is reached at all.
* **Watchdog, fast loop.** After a trip `tickFast` returns before it moves the cursor
  (`engine.mjs:377`), so a finding the operator cleared is found again after the restart and pauses
  the bridge again; `restart.test.mjs:123` says cleared false alarms are not raised again. A segment
  that is read twice is judged with a carry that was cleared in between, though `engine.mjs:379` calls
  it idempotent (`rescans` in `OnlyARescanMisjudges`). A second RPC that is behind withdraws a true
  finding (`engine.mjs:142`), and a first one that is behind is a SKIP after which the cursor moves on
  (`missed`). A reconfirmation that fails stays `pending_confirm`, and only a restart looks at it again,
  where `engine.mjs:137` and the watchdog's README say that the next round goes on; when another finding
  trips before that restart, the process stays down until an operator finds both. A `pause()` that failed
  is not tried again: the row says tripped, and a restart leaves at once. The loop reads to the head, with
  no depth, so a reorganisation can put an anchor into a block it has read (`late`).
* **Watchdog, slow loop.** The owner's withdrawal of BAC is a false CRITICAL of BUCKETS, as the watchdog's
  README says (`Withdrawn`), and again at every tick as long as the BAC is missing (`ShortBefore`); a gift
  to the bridge between two ticks hides a theft of that size (`Refilled`). The comment at `engine.mjs:417`
  says that a revocation or a halt makes the ledger dirty; `bridgeEvents` never parses `EpochOwedRevoked`,
  and the replay leaves swept BAC out, so a settlement after either in one segment is a false CRITICAL
  beyond the 0.5 % of tolerance. A pot is filed at the time of the tick, so after an outage several days
  count into one window; `roll_base` is replaced once a day by the bucket of that moment, where
  `releaseCap.mjs:91` says the maximum of the window, and between two ticks the bucket is not read at all: a
  pot from a bucket that a buyback had raised, collected before the tick, counts against the smaller one
  (`OutOfSight`). A process that dies between `saveSnapshot` and `setCursor` compares the next segment with
  nothing (an exception of `LeaksAreSeen`); so does one whose second source is silent, as the tick goes on.
* **Reconciliation.** The watchdog's formula adds the balance of `FeeSplitter` (a contract still to be
  written) to what circulates and subtracts it from nothing, so fees collected there make the
  difference negative: CRITICAL, where `reconcile.mjs:9` says that no benign explanation exists and
  the watchdog's README that the formula is the website's. Unclaimed exits, undelivered credits, burned
  floats and donations hide a forgery of the same size from the watchdog (`SilenceHasAReason`), not
  from the indexer. The sdk's `ok` is true only at rest. `snapshot.js` clears the warnings of a round
  whose BSC read failed.
* **Relayer.** `unresolvedAnchors` (`db.mjs:197`) never forgets a rejected row that a later FINAL anchor
  re-reported; once the table learns of verdicts (4 above), epochs would be counted twice, and the watchdog,
  which does clear its carry, would disagree. The real relayer never carries, so an armed watchdog flags the
  first anchor after a veto. A deposit mined again after a reorganisation keeps the row of its orphan. An
  anchor that a reorganisation took back is posted again only if its transaction is mined again: its row is
  confirmed, and nothing in the relayer compares the two afterwards (`unanchored`). A job parked after three
  refusals stops every later anchor, where docs/03 says that parked jobs block nothing. Direction C (wallet
  syncs) listens to a contract the repository has removed; its state is read at scan time although
  `chains.mjs:119` says it is read before sending.
* **ChainAnchor.** A vetoed anchor's `l2Block` bounds later ones from below (line 253); a veto is filed
  under the day of its epoch (line 371), so the window is not of wall time as line 374 says.
* **Indexer.** A receipt that the node answers with null drops the logs of its transaction, and the cursor
  moves on (`ingest.js:135-148`): not modelled, `Indexer` reads whole blocks. `store.js:298` says a later
  round completes a credit seen before its lock: nothing does. An `ExitClaimed` seen before its `ExitBurned`
  is dropped (`store.js:181`); an anchor that is posted while the layer's loop is behind gets a warning and
  is never tried again (`store.js:404`). In `economy/`, `refreshStaleTokens` loses a mark that arrives
  during its await, and a pair that was taken for a token while it waited is never confirmed as a pair; if a
  log in the shape of an NFT then shows that it is none, it is asked again by the block after that one, not
  by the same (`economy/index.js:189`: the exception in `NoPairWaitsInVain`, found in its proof).
* **node-cli.** The check of rule 2 that the salt on disk belongs to the commitment on the chain
  (`attest.mjs:9`) hashes the local record and compares it with the record's own field (`attest.mjs:41`):
  nothing reads `commitmentOf`. It bites when two processes share a state directory and the contract takes
  the commitment, which it does not at this commit (5 above). `committed` is a local flag: a crash, a
  timeout or an RPC error between broadcast and record, or a torn file (writes are not atomic), loses the
  vote though the commitment is on the chain; README rule 2 promises a warning. `status.mjs:74` says that a
  deactivated node earns nothing, while `ValidatorStaking` never reads `active`. Retiring a node and
  registering another leaves its strikes behind.
* **sdk.** A record is written only after the receipt, where `store.ts:1` calls it the only state that
  must not be lost; two processes on the default file lose each other's records; an unreadable file is
  taken for an empty one and overwritten. These are the three reasons of `RecordsAreLostForAReason`. A claim
  is marked after one confirmation and never tried again, reorganised or not (`undone`).

## 4. The proofs

`tlapm X.tla` checks the proofs of module X, for every value of the constants that satisfies the
named assumptions of the modules: sizes are natural numbers, inputs have their types, divisors are not
zero (`SizesAssumption`, `UnitsAssumption`, `InputsAssumption`, `RescaleAssumption`, `AnchorSizes`,
`AnchorInputs`, `StakingSizes`, `RelayerSizes`, `RouterSizes`, ...). What is summed or counted over is
finite (`Wallets`, `Agents`, `Accounts`, `BridgeDeposits`, `BurntExits`); the histories an indexer reads
are legal ones (`IndexerInputs`: an exit lies in its epoch's blocks, an anchor is posted once and resolved
at most once, a claim follows a final anchor), as the two chains make them; different exits have different
leaf hashes (`ExitTreeConstants`). TLC evaluates these in every
run. What only some theorems need is in their ASSUME:

| Hypothesis | Theorems | Why the code has it, or what happens without |
| --- | --- | --- |
| `FallbackIsDeep`, an assumption of `Relayer` | the relayer's | an outage's fallback depth exceeds every reorganisation; a finalized block is never replaced |
| `LAYER_LAG = 0` | `AnchorsCover` | with 1 TLC refutes the property: the finding "Blocks of an epoch" |
| `CooldownOutlastsVote` | `WitnessesCounted` | `UNSTAKE_COOLDOWN` is 7 days, `ANCHOR_WAIT` 120 s: stake that voted cannot leave and vote again |
| `VotesCloseBeforeSettling` | `RewardBooksHold` | anchors are posted early enough (`MaxPostDelay`), which nothing in the contracts enforces: the finding `staking_late_credit` is what happens otherwise |
| `"watchdog" \notin Keys` | `MaturedKept` | the finding `bridge_revoke_matured`; `MaturedKeptUnlessRevoked` says that it is the only way |
| `[]WithinTheIndex` | `ReservedMatched` | 10^27 wei of BAC exist (`docs/02-CHAIN-SPEC.md:60`), which is `RESCALE` cubed, and 10^9 epochs take 19 000 years; beyond, a debt could outlive the four rescalings the index remembers |
| `ROUTER_BPS = 2 * BRIDGE_BPS` | `TaxAddsUp` | 10000 and 5000 (`BacTaxRouter.sol:49`, `:51`) |
| `HomesApart` | `CommitmentsOpened` | a directory for each process; two in one directory, which node-cli's README line 203 allows, may be struck (node-cli above) |
| `WaitsOutlastReads` | `VerdictsTrue` | a credit waits for the relayer's depth and wall time, longer than the watchdog's depth and one round of reads |

In each component an invariant in named parts is shown to hold initially and to be kept by each
action; the theorems follow from it.

**ChainAnchorProofs.** `TypeCorrect`, `LedgerIsBacked`, `AnchorsAreSequential`, `RecordsAreTrue`,
`RotationAnnounced`, `PastIsFinal` (`ResolutionsAreFinal` and `SealedDaysStay`), and `PromiseIsKept`, the
refinement of `AnchorPromise`. `CreditsAreBacked` is not inductive: that an anchor still fits the ledger
when it is finalized needs that it was the only one waiting (`OneAnchorWaits`) and that it fitted the sums
when posted (`WaitingFits`), and that a sealed day does not move needs that the epoch of a waiting anchor
is over (`WaitingIsOver`). The records compare storage with the history: the cumulative sums, the packed
lanes (every shift and every saturation, for a window of any length) and the heads of the days, with one
invariant for each.

**BacBridgeProofs.** `TypeCorrect`, `TypesHold`, `BooksSound` (`BooksHeld`, `BudgetBounded`), `ClaimsAdd`
(`DebtsAddUp`, `CreditsAdd`, `JuniorBacked`), `DebtBacked`, `UnwitnessedPotsCapped`, `MaturedKept`,
`PauseOverrunBounded`, `RateSurvives`, `DepositsSafe`, `ReservedMatched`. `IndInv` has one part per book.
Its strengthenings: every snapshot lies behind the release index and every product lies between the floor
and one, so that what an address is released is part of its debt (`ReleaseIndexProofs`: `AdvanceKeepsOrder`,
and `UnreleasedIsAPart` for the harvest); a halt empties the budget and the reservation, which is what makes
them safe to leave out of the division of the bucket; during a swap the books stay within the balance the
swap started from, so that its difference is nobody else's money; a running pause started below the budget.
After a halt the debts are backed because the juniors' shares, rounded down agent by agent, add up to no
more than the bucket less the debts (`SumOfShares`, and `SumOfCutOff` for what is left when the owner
withdrew). The ring of unwitnessed pots is the window's sum whichever slots it has reused.

`ReservedMatched` is about the shared index: a pot shrinks one product, and with it everybody's debt, and no
debt is visited. In a common unit each debt has a weight (`Weighs`), so that what is left of it is its weight
times the product, and the weights together fill the headroom (`owedTotal` less `reservedTotal`; `Fills`,
`Tracked`). A claim adds the same to both. A harvest weighs a debt anew at the present product, after rounding
it down, so it moves the sum by less than a wei (`TrackedAnew`). A pot rounds the product down, by less than one
part in `RESCALE` of a wei (`TrackedPot`). And a debt of at most `RESCALE` cubed has less than one wei left
when the code forgets it, four rescalings later. So what is released is what is reserved, but for one wei per
harvest and address (`TrackedUnreleased`).

**ValidatorStakingProofs.** `StakeSound`, `CommitmentsBlind`, `WitnessesCounted`, `RewardBooksHold`. Votes are
distinct stake because an address is listed once (`ListedOnce`) and what it cast is still in the contract,
staked or cooling down, as long as the anchor waits (`StakeIsKept`, `CastIsStillThere`). For the rewards:
a settled day gets no more credits (`SettledIsOver`), and what a pot still holds is at least the shares
not yet paid (`PotsCoverClaims`), so the last of them is paid in full whatever was rounded before.

**RelayerProofs.** `TypeCorrect`, `CreditsKeepTheirDeposit`, `ConfirmedRowsAreDone`, `NothingLeftBehind`,
`AnchorsCover`, and `ExitsAreKept` of the sdk. The argument is `Vouched`: when a row is picked, its deposit
was just read where the row says, at a height that a snapshot, never ahead of the chain, showed final or
`FALLBACK_DEPTH` deep; no reorganisation reaches there, so the row's transaction, whenever it is mined and
whoever resent it, credits a deposit that stays. For rows: what was done was done for ever (`DoneStays`:
keys are never forgotten, and the last posted epoch falls only by a reorganisation, which enters what it
takes back into `unanchored`). For anchors (`CoverInv`): what was counted when an epoch was over is all the
epoch will ever have, and a job, a transaction or an anchor on BSC comes from a counted row.

**EdgesProofs** has the parts of `MCEdges`, each by an invariant of its own.

* `TaxAddsUp`: the books with the open pushes added are the balance, push by push up the call; donations and
  forced BNB are terms of their own.
* `RegistersIndexed`: lists and indices are inverse to each other (`Indexed`), through append and swap-and-pop;
  wallets and agents point at each other.
* `LayerBooksSound`: what was credited is the sum of the locks seen, and reserve, totals and wrapped
  balances move together (`LayerMoney`, `GateInv`, `WrapInv`).
* `FindingsTrue` (`WatchInv`): the chain is well formed, and so is every beginning of it with blank blocks
  after it (`ChainInv`), which is what a reorganisation leaves; unless a segment was read again or a block
  that was read replaced, the events of the tick are those of the chain and the carry is what the chain's
  rejected and not yet re-reported epochs were at the event the tick has come to (`TickInv`, `CarryInv`);
  every forged anchor behind that event has its finding, or a reason (`FindingInv`).
* `VerdictsTrue` (`ReconcileInv`): each book that was read lies between what the chains said when the round of
  reads began and when it ended (`ReadingFits`), so a negative term needs more than the flows of that time.
* `IndexTrue` (`IndexInv`, `BuiltInv`): every row is what the logs ingested so far make it in any order, and
  ingesting one more log, again or for the first time, keeps that (`EventWrites`, `Fits`, `Keeps`);
  counters are counts and balances sums over the rows, and a row is added once (`SumOfUnion`).
* `NothingUndone` is the action property over the same invariants; `CommitmentsOpened` follows the file of a
  process through reads, writes and deaths, as `ExitsAreKept` does in `RelayerProofs`.

**ProgramsProofs** has `TheProgramsAgree` and `SlowLoopTrusted`.

* *Blocks of an epoch.* The two searches (`Halving`, `KeepingBest`) are instances of one (`IsSearch`): a state
  that gets smaller with each step (`SearchExists`), keeps its bounds (`SearchKeeps`) and so returns the last
  block before the limit (`HalvingFinds`, `KeepingBestFinds`). An answer that is not doubtful is of an epoch
  whose end the chain has reached, so that no later block can change it (`Settled`, `BlocksSettled`,
  `CacheSettled`); that holds of every answer a witness gets, because it refuses to compute before its node
  is past the epoch (`NodeIsPast`). A doubtful answer can be wrong, but the relayer's range still holds its
  epoch's blocks only (`RelayerReadsForward`).
* *Exit tree.* The readings of one set of exits are sorted alike, by how many are smaller (`SortedHasAll`,
  `ReversedIsSortedAlike`). Both ways to find a partner give the same one (`PartnersAgree`), and on each
  level the node above the leaf is what the path so far makes of the leaf (`WayUpIs`), which at the last
  level is the root. A path makes different roots of different leaves (`TopIsOfOneLeaf`).
* *Slow loop.* What the rules compare is an invariant of the stretch (`StretchFits`), kept when one event is
  appended (`StretchGrows`, with `FlowGrows` for the flows, which are folds): without a leak the books
  differ from the snapshot by the flows, and the replay knows what is free, or less after a sweep or a
  revocation; a leak leaves a balance too small, a flow that does not add up, or a pot too large, and
  nothing later hides it but a gift that refills the balance. The rows of the log fit the base that every
  tick since raised (`LogOf`, `FreshLog`), so that a day of them fits the rolling rule (`DayFits`) unless
  one of the stated reasons holds. The attempt to prove the property with fewer of them showed the one that
  was missing (`OutOfSight`).

Sums over addresses, agents and rows are folds, and a fold cannot be unfolded for a set of unknown size by
the provers. `Numbers` takes them by least counterexample: `FiniteDescent` (a set of natural sizes has a least
one) gives each lemma from the empty set and one element more, first that partial sums exist
(`PartialsExist`), then that they do not depend on the order of picking (`PartialsAgree`, `SumTakeOut`).

Two remarks for who extends the proofs with tlapm 1.4.5: an EXCEPT that sets the same key twice, and `Len(s)`
of an `s` that is not a sequence, are translated to facts that are not true of them. The modules have no
such EXCEPT (two nested ones instead), and every list a proof measures is typed as a sequence by its invariant.

**Model-checked only.** The liveness properties `EscapeEnds`, `PostedIsResolved`, `ExpiredPotsReturn`,
`EverythingIsDelivered`, `ConfirmedIsBraked` and `CoveredIsMarked`, as TLAPS has no rule for fairness here.
The findings' runs are TLC's.

## 5. What is not modelled, and the plan

Not modelled, and why:

* `flap/` (third-party interfaces), `Erc8004Gate` (stateless reads), `web/` (reads only), `chain/`,
  `deployments/`, `scripts/` (values and one-off scripts), `artifacts/` (drafts and copies).
* The relayer's wallet syncs, and the sdk's joining and heartbeats: they listen to and call
  `AgentRegistry`, which the repository removed (the header of `L2Gate.sol`, decision 31), so there is no code
  left to say what the other side does. `Layer` has `applySync` itself, with any caller's order.
* The watchdog's buyback rule compares prices of external venues; its cadence rule never trips.
* The indexer's other endpoints, identity names and rendering; node-cli's commands besides `attest`:
  they read, or send one transaction.
* Of `BacBridge`: the controller of an agent, upgrades and ownership, prices.

Left to do: the composition of `ChainAnchor.haltReason` with the bridge's brake, in place of the free choice
`HaltReasonBecomes` makes now, and of `ValidatorStaking`'s votes with `ChainAnchor`, in place of `Votes`.
