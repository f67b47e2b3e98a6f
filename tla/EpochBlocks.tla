----------------------------- MODULE EpochBlocks -----------------------------
(***************************************************************************)
(* l2Block(epoch), the last layer block before an epoch's end, and the     *)
(* range of blocks an epoch's anchor is computed over, as the relayer, the *)
(* watchdog, node-cli and the sdk each compute it with a bisection of      *)
(* their own.  The layer has no reorganisations; it mines a block at most  *)
(* once per tick, and the node a program asks may be behind, and may catch *)
(* up between two of its reads.  The head a read sees is the one state of  *)
(* a node that matters.                                                    *)
(***************************************************************************)
EXTENDS Integers, Sequences

CONSTANTS
    EPOCH,                     \* ticks in an epoch, one constant of every program
    LastTick, MaxBehind        \* bounds: the clock; how many blocks a node may be behind

ASSUME EpochSizes ==
    /\ EPOCH \in Nat \ {0}
    /\ {LastTick, MaxBehind} \subseteq Nat

Programs == {"relayer", "watchdog", "node", "sdk"}
Null == -1                     \* the program's null
NotDetermined == -2            \* an exception: nothing is returned
NotCached == -3
Epochs == -1 .. LastTick \div EPOCH

NoJob == [by |-> "nobody", epoch |-> 0, blocks |-> <<>>, head |-> 0, doubtful |-> FALSE]

VARIABLES
    clock,
    times,                     \* the layer: the timestamp of block n is times[n + 1]
    blockCache,                \* the watchdog's: [block, doubtful] of an epoch
    job                        \* one rangeFor under way; its blocks read, the head it last saw, and
                               \* (history) whether a read was ahead of its time or behind the chain

epochVars == <<clock, times, blockCache, job>>

EpochInit ==
    /\ clock \in {0, EPOCH}
    /\ times = <<clock>>
    /\ blockCache = [e \in Epochs |-> [block |-> NotCached, doubtful |-> FALSE]]
    /\ job = NoJob

Ts(n) == times[n + 1]
LastBlock == Len(times) - 1

\* (epoch + 1) * EPOCH: the end of an epoch, exclusive.
epochEndsAt(e) == (e + 1) * EPOCH

MayMine == clock > Ts(LastBlock)

Tick ==
    /\ clock < LastTick
    /\ clock' = clock + 1
    /\ UNCHANGED <<times, blockCache, job>>

MineBlock ==
    /\ MayMine
    /\ times' = Append(times, clock)
    /\ UNCHANGED <<clock, blockCache, job>>

-----------------------------------------------------------------------------
(* The four searches, each on the blocks up to a head.                     *)

Before(n, limit) == Ts(n) < limit

\* relayer, watchdog: r is <<lo, hi>>, Ts(lo) < limit <= Ts(hi) throughout; what is left is lo.
Halving(head, limit) ==
    LET f[r \in (0 .. head) \X (0 .. head)] ==
            LET mid == (r[1] + r[2]) \div 2 IN
            IF r[2] - r[1] <= 1 THEN r[1]
            ELSE IF Before(mid, limit) THEN f[<<mid, r[2]>>] ELSE f[<<r[1], mid>>]
    IN  f[<<0, head>>]

\* node-cli: r is <<lo, hi, best>>, lo .. hi still to look at, best the largest found before the limit.
KeepingBest(head, limit) ==
    LET f[r \in (0 .. head + 1) \X (-1 .. head) \X (0 .. head)] ==
            LET mid == (r[1] + r[2]) \div 2 IN
            IF r[1] > r[2] THEN r[3]
            ELSE IF Before(mid, limit) THEN f[<<mid + 1, r[2], mid>>] ELSE f[<<r[1], mid - 1, r[3]>>]
    IN  f[<<0, head, 0>>]

RelayerBlockFor(head, limit) ==
    IF Before(head, limit) THEN head
    ELSE IF ~Before(0, limit) THEN Null
    ELSE Halving(head, limit)

NodeBlockFor(head, limit) ==
    IF Before(head, limit) \/ ~Before(0, limit) THEN NotDetermined
    ELSE KeepingBest(head, limit)

SdkBlockFor(head, limit) ==
    IF ~Before(0, limit) THEN NotDetermined
    ELSE IF Before(head, limit) THEN head
    ELSE Halving(head, limit)

l2BlockFor(by, head, e) ==
    IF by = "node" THEN NodeBlockFor(head, epochEndsAt(e))
    ELSE IF by = "sdk" THEN SdkBlockFor(head, epochEndsAt(e))
    ELSE RelayerBlockFor(head, epochEndsAt(e))

\* The epochs, counted from the job's, whose block each program looks up, in the order it does;
\* node-cli's computeEpoch looks its epoch up before it calls rangeFor.
PreviousFirst == <<-1, 0>>
RelayerReads == <<0, -1>>
NodeReads == <<0, 0, -1>>
SdkReads == <<-1, 0>>
Reads(by) == IF by = "node" THEN NodeReads ELSE IF by = "sdk" THEN SdkReads ELSE RelayerReads

-----------------------------------------------------------------------------
(* One range at a time; the programs share nothing but the chain.          *)

\* The relayer and the watchdog are asked about epochs that are over; node-cli and the sdk about any.
Asked(by, e) == by \in {"relayer", "watchdog"} => clock >= epochEndsAt(e)

StartRange(by, e) ==
    /\ job = NoJob
    /\ Asked(by, e)
    /\ job' = [NoJob EXCEPT !.by = by, !.epoch = e]
    /\ UNCHANGED <<clock, times, blockCache>>

NextEpoch == job.epoch + Reads(job.by)[Len(job.blocks) + 1]

\* A read of the epoch e answered with b, from a node whose last block is head.
Answered(b, e, head, doubtful) ==
    LET fails ==
            \/ b = NotDetermined /\ ~(job.by = "node" /\ e < job.epoch) \* rangeFor catches its second
            \/ b = Null /\ e = job.epoch
    IN  job' = IF fails THEN NoJob
               ELSE [job EXCEPT !.blocks = Append(@, IF b = NotDetermined THEN Null ELSE b),
                                !.head = head,
                                !.doubtful = @ \/ doubtful]

Reading == job # NoJob /\ Len(job.blocks) < Len(Reads(job.by))

CachesIt(e) == clock >= epochEndsAt(e)

ReadBlock ==
    /\ Reading
    /\ LET e == NextEpoch
           entry == blockCache[e] IN
       \/ /\ job.by = "watchdog" /\ entry.block # NotCached
          /\ Answered(entry.block, e, job.head, entry.doubtful)
          /\ UNCHANGED blockCache
       \/ /\ ~(job.by = "watchdog" /\ entry.block # NotCached)
          /\ \E head \in job.head .. LastBlock :
                LET b == l2BlockFor(job.by, head, e)
                    doubtful == head < LastBlock \/ clock < epochEndsAt(e) IN
                /\ head >= LastBlock - MaxBehind
                /\ Answered(b, e, head, doubtful)
                /\ blockCache' = IF job.by = "watchdog" /\ CachesIt(e)
                                 THEN [blockCache EXCEPT ![e] = [block |-> b, doubtful |-> doubtful]]
                                 ELSE blockCache
    /\ UNCHANGED <<clock, times>>

Done == job # NoJob /\ Len(job.blocks) = Len(Reads(job.by))

UseRange ==
    /\ Done
    /\ job' = NoJob
    /\ UNCHANGED <<clock, times, blockCache>>

EpochNext ==
    \/ Tick \/ MineBlock \/ ReadBlock \/ UseRange
    \/ \E by \in Programs, e \in Epochs \ {-1} : StartRange(by, e)

-----------------------------------------------------------------------------
(* What a finished job returns: the blocks after `previous` up to `current`. *)

Read(offset) ==
    LET i == CHOOSE i \in DOMAIN job.blocks :
                 Reads(job.by)[i] = offset /\ \A j \in DOMAIN job.blocks : j > i => Reads(job.by)[j] # offset
    IN  job.blocks[i]
FirstOf == Read(-1) + 1        \* previous.number + 1, or 0 after a null
LastOf == Read(0)

\* The definition the four programs quote: the largest block before the end of the epoch.
TrueBlock(e) ==
    LET before == {n \in 0 .. LastBlock : Ts(n) < epochEndsAt(e)} IN
    IF before = {} THEN Null ELSE CHOOSE n \in before : \A m \in before : m <= n

RangeIsTrue == LastOf = TrueBlock(job.epoch) /\ FirstOf = TrueBlock(job.epoch - 1) + 1

\* A witness commits to a range that no later block of the layer can change: whatever its node has
\* seen so far, node-cli returns the true block and the true range or nothing at all, and the tip it
\* seals is the end of the range its exits come from (anchor-math.mjs:36-44, attest-compute.mjs:22).
WitnessIsNeverMisled ==
    Done /\ job.by = "node" => RangeIsTrue /\ job.blocks[1] = LastOf

\* The relayer, the watchdog and the sdk return the same range as node-cli once the epoch is over and
\* their node has every block; the watchdog's cache never turns a right answer into a wrong one.
OnlyABehindNodeMisleads == Done /\ ~job.doubtful => RangeIsTrue

\* The blocks of the relayer's range belong to its epoch, however far behind its node was and whenever
\* it caught up: it may anchor too few blocks, never another epoch's, so an exit of another epoch
\* never stops assembleAnchor (anchorJob.mjs:40) and no exit is reported twice.  The order of the two
\* reads is what makes it so: the sdk's order, or the watchdog's cache, loses it.
RangesHoldOneEpoch ==
    Done /\ job.by = "relayer" => \A n \in FirstOf .. LastOf : Ts(n) \div EPOCH = job.epoch

\* All that share the definition of an epoch's blocks come to the same ones: a witness always, the
\* others when their node has every block, and the relayer never to another epoch's.
RangesAgree == WitnessIsNeverMisled /\ OnlyABehindNodeMisleads /\ RangesHoldOneEpoch
==============================================================================
