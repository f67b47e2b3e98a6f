--------------------------- MODULE RelayerProofs ---------------------------
(***************************************************************************)
(* What the relayer guarantees for every number of deposits, every depth,  *)
(* delay and number of attempts, and any faults: what the layer credited   *)
(* keeps its deposit on BSC.  The heart of the argument is Vouched: from   *)
(* the moment a job is picked for sending, its deposit is mined where the  *)
(* job says, too deep for a reorganisation, and nothing changes that.  At  *)
(* the end, what the sdk's records guarantee for any number of processes.  *)
(***************************************************************************)
EXTENDS Relayer, SdkExits, Numbers

JobKey(j) == [deposit |-> j.deposit, index |-> j.index]
Credits == {j \in Jobs : j.kind = "credit"}

\* The deposit is where the key says, where no reorganisation reaches.
Vouched(k) ==
    /\ mined[k.deposit].block # 0
    /\ mined[k.deposit].index = k.index
    /\ \/ mined[k.deposit].block <= finalized
       \/ head - mined[k.deposit].block >= FALLBACK_DEPTH

\* The row at the head of the sender's round.
First(j) == j \in todo /\ \A k \in todo : row[j].id <= row[k].id

-----------------------------------------------------------------------------
(* The parts of the inductive invariant *)

ChainOK ==
    /\ head \in Heights /\ finalized \in 0..head /\ forks \in 0..MaxFaults
    /\ mined \in [Deposits -> [block : Heights, fork : Nat, index : 0..1]]

PostedOK ==
    /\ anchorState \in [Epochs -> {"NONE", "POSTED", "FINAL", "VETOED", "DISPUTED"}]
    /\ anchorAt \in [Epochs -> Heights] /\ resolvedAt \in [Epochs -> Heights] /\ unanchored \subseteq Epochs

LayerOK == epoch \in Epochs

SeenOK == seen \subseteq Keys /\ \A k \in seen : Vouched(k)

TxsOK ==
    /\ txs \in [Jobs -> {"none", "pending", "ok", "reverted"}]
    /\ \A j \in Credits : txs[j] = "pending" => Vouched(JobKey(j))
    /\ \A j \in Jobs : txs[j] = "ok" => WasDone(j)

CursorOK == cursor \in 0..head

RowsOK ==
    /\ row \in [Jobs -> Rows]
    /\ \A j \in enqueued : row[j].id \in 1..Cardinality(enqueued)
    /\ \A j, k \in enqueued : row[j].id = row[k].id => j = k
    /\ \A j \in enqueued \cap Credits : row[j].src.block # 0 /\ row[j].src.index = j.index
    /\ \A j \in Jobs : row[j].status = "confirmed" => WasDone(j)

\* While no reorganisation happened, the deposits behind the cursor have rows.
PassedOK == CursorLeavesNothingBehind

ProcessOK == alive \in BOOLEAN /\ crashes \in 0..MaxFaults

QueueOK ==
    /\ todo \subseteq enqueued
    /\ step \in {"next", "send", "wait"}
    /\ step # "next" => \A j \in Credits : First(j) => Vouched(JobKey(j))

\* A snapshot is never ahead of the chain.
SnapshotOK ==
    /\ snapshot \in [at : Nat, head : Int, finalized : Int, available : BOOLEAN]
    /\ snapshot.head <= head /\ snapshot.finalized <= finalized

IndInv ==
    /\ ChainOK /\ PostedOK /\ LayerOK /\ SeenOK /\ TxsOK
    /\ CursorOK /\ RowsOK /\ PassedOK
    /\ ProcessOK /\ QueueOK /\ SnapshotOK

-----------------------------------------------------------------------------
(* The jobs *)

LEMMA JobForms ==
    /\ \A k \in Keys : Credit(k) \in Jobs /\ Credit(k) \in Credits /\ JobKey(Credit(k)) = k
    /\ \A e \in Epochs : AnchorJob(e) \in Jobs /\ AnchorJob(e).kind = "anchor"
    /\ \A j \in Credits : JobKey(j) \in Keys /\ j = Credit(JobKey(j)) /\ j.kind = "credit"
    /\ \A j \in Jobs : j \notin Credits =>
          j.kind = "anchor" /\ j.epoch \in Epochs /\ j = AnchorJob(j.epoch)
<1>1. ASSUME NEW k \in Keys
      PROVE  Credit(k) \in Jobs /\ Credit(k) \in Credits /\ JobKey(Credit(k)) = k
  <2>1. Credit(k) \in Jobs
    BY DEF Jobs
  <2>2. Credit(k).kind = "credit" /\ Credit(k).deposit = k.deposit /\ Credit(k).index = k.index
    BY DEF Credit
  <2>3. k = [deposit |-> k.deposit, index |-> k.index]
    BY DEF Keys
  <2> QED BY <2>1, <2>2, <2>3 DEF Credits, JobKey
<1>2. ASSUME NEW e \in Epochs
      PROVE  /\ AnchorJob(e) \in Jobs /\ AnchorJob(e).kind = "anchor" /\ AnchorJob(e).epoch = e
             /\ AnchorJob(e) \notin Credits
  BY DEF Jobs, AnchorJob, Credits
<1>3. ASSUME NEW j \in Jobs
      PROVE  (\E k \in Keys : j = Credit(k)) \/ (\E e \in Epochs : j = AnchorJob(e))
  BY DEF Jobs
<1>4. ASSUME NEW j \in Credits
      PROVE  JobKey(j) \in Keys /\ j = Credit(JobKey(j)) /\ j.kind = "credit"
  <2>1. j \in Jobs /\ j.kind = "credit"
    BY DEF Credits
  <2>2. PICK k \in Keys : j = Credit(k)
    BY <1>2, <1>3, <2>1
  <2> QED BY <1>1, <2>1, <2>2
<1>5. ASSUME NEW j \in Jobs, j \notin Credits
      PROVE  j.kind = "anchor" /\ j.epoch \in Epochs /\ j = AnchorJob(j.epoch)
  <2>1. PICK e \in Epochs : j = AnchorJob(e)
    BY <1>1, <1>3, <1>5
  <2> QED BY <1>2, <2>1
<1> QED BY <1>1, <1>2, <1>4, <1>5

\* There are finitely many jobs, so a row's id is a number.
LEMMA JobsFinite == IsFiniteSet(Jobs)
<1> DEFINE C(i) == {Credit([deposit |-> d, index |-> i]) : d \in Deposits}
           A == {AnchorJob(e) : e \in Epochs}
<1>1. ASSUME NEW i \in 0..1 PROVE IsFiniteSet(C(i))
  <2> DEFINE f == [d \in Deposits |-> Credit([deposit |-> d, index |-> i])]
  <2>1. f \in Surjection(Deposits, C(i))
    BY DEF Surjection
  <2> HIDE DEF f
  <2> QED BY <2>1, FS_Surjection, RelayerSizes
<1>2. IsFiniteSet(A)
  <2> DEFINE f == [e \in Epochs |-> AnchorJob(e)]
  <2>1. f \in Surjection(Epochs, A)
    BY DEF Surjection
  <2>2. IsFiniteSet(Epochs)
    <3>1. 1 \in Int /\ MaxEpoch \in Int
      BY RelayerSizes
    <3>2. IsFiniteSet(1..MaxEpoch)
      BY <3>1, FS_Interval
    <3> QED BY <3>2 DEF Epochs
  <2> HIDE DEF f
  <2> QED BY <2>1, <2>2, FS_Surjection
<1>3. Jobs \subseteq (C(0) \cup C(1)) \cup A
  <2>1. ASSUME NEW k \in Keys PROVE Credit(k) \in C(0) \cup C(1)
    <3>1. k.deposit \in Deposits /\ k.index \in {0, 1}
      BY DEF Keys
    <3>2. Credit(k) = Credit([deposit |-> k.deposit, index |-> k.index])
      BY DEF Credit
    <3>3. k.index = 0 \/ k.index = 1
      BY <3>1
    <3> QED BY <3>1, <3>2, <3>3
  <2> QED BY <2>1 DEF Jobs
<1>4. IsFiniteSet(C(0)) /\ IsFiniteSet(C(1))
  <2> HIDE DEF C
  <2> QED BY <1>1
<1> HIDE DEF C, A
<1>5. IsFiniteSet(C(0) \cup C(1))
  BY <1>4, FS_Union
<1>6. IsFiniteSet((C(0) \cup C(1)) \cup A)
  BY <1>2, <1>5, FS_Union
<1> QED BY <1>3, <1>6, FS_Subset

-----------------------------------------------------------------------------
(* What the chains never take back *)

LastOf(states) ==
    IF \E e \in Epochs : states[e] # "NONE"
    THEN CHOOSE e \in Epochs : /\ states[e] # "NONE"
                               /\ \A f \in Epochs : f > e => states[f] = "NONE"
    ELSE 0

\* The last posted epoch is the greatest one that was posted.
LEMMA LastIsGreatest ==
    ASSUME NEW states
    PROVE  /\ LastOf(states) \in Nat
           /\ \A e \in Epochs : states[e] # "NONE" => e <= LastOf(states)
           /\ LastOf(states) # 0 => LastOf(states) \in Epochs /\ states[LastOf(states)] # "NONE"
<1> DEFINE Posted == {e \in Epochs : states[e] # "NONE"}
<1>1. MaxEpoch \in Nat /\ Epochs \subseteq 0..MaxEpoch /\ Epochs \subseteq Nat
  BY RelayerSizes DEF Epochs
<1>2. CASE Posted = {}
  <2>1. ~ \E e \in Epochs : states[e] # "NONE"
    BY <1>2
  <2> QED BY <2>1 DEF LastOf
<1>3. CASE Posted # {}
  <2>1. PICK e \in Posted : \A f \in Posted : f <= e
    BY <1>1, <1>3, GreatestMember
  <2>2. \A f \in Epochs : f > e => states[f] = "NONE"
    BY <1>1, <2>1
  <2>3. \E g \in Epochs : states[g] # "NONE" /\ \A f \in Epochs : f > g => states[f] = "NONE"
    BY <2>1, <2>2
  <2>4. /\ LastOf(states) \in Epochs /\ states[LastOf(states)] # "NONE"
        /\ \A f \in Epochs : f > LastOf(states) => states[f] = "NONE"
    <3>1. LastOf(states) = CHOOSE g \in Epochs : /\ states[g] # "NONE"
                                                 /\ \A f \in Epochs : f > g => states[f] = "NONE"
      BY <2>1 DEF LastOf
    <3> QED BY <2>3, <3>1
  <2>5. LastOf(states) \in Nat
    BY <1>1, <2>4
  <2>6. ASSUME NEW f \in Epochs, states[f] # "NONE" PROVE f <= LastOf(states)
    <3>1. ~(f > LastOf(states))
      BY <2>4, <2>6
    <3>2. f \in Nat
      BY <1>1
    <3> QED BY <2>5, <3>1, <3>2
  <2> QED BY <2>4, <2>5, <2>6
<1> QED BY <1>2, <1>3

\* A step keeps what was credited, posted and settled.
Grows ==
    /\ seen \subseteq seen'
    /\ finalized <= finalized' /\ head <= head'
    /\ \A k \in Keys : Vouched(k) => Vouched(k)'
    /\ \A j \in Jobs : WasDone(j) => WasDone(j)'

LEMMA LastIsNat == lastPostedEpoch \in Nat /\ lastPostedEpoch' \in Nat
BY LastIsGreatest DEF lastPostedEpoch, LastOf

LEMMA Above ==
    ASSUME NEW last \in Nat, NEW before \in Nat, NEW e
    PROVE  e \in (last + 1)..before <=> e \in Nat /\ last < e /\ e <= before
OBVIOUS

LEMMA LastGrows ==
    ASSUME \A e \in Epochs : anchorState[e] # "NONE" => anchorState'[e] # "NONE"
    PROVE  lastPostedEpoch <= lastPostedEpoch'
<1>1. lastPostedEpoch = LastOf(anchorState) /\ lastPostedEpoch' = LastOf(anchorState')
  BY DEF lastPostedEpoch, LastOf
<1>2. LastOf(anchorState) <= LastOf(anchorState')
  <2>1. CASE LastOf(anchorState) = 0
    BY <2>1, LastIsGreatest
  <2>2. CASE LastOf(anchorState) # 0
    <3>1. /\ LastOf(anchorState) \in Epochs
          /\ anchorState'[LastOf(anchorState)] # "NONE"
      BY <2>2, LastIsGreatest
    <3> QED BY <3>1, LastIsGreatest
  <2> QED BY <2>1, <2>2
<1> QED BY <1>1, <1>2

\* What was done stays done: keys are never forgotten, and the anchors that a reorganisation takes away
\* are remembered.
LEMMA DoneStays ==
    ASSUME seen \subseteq seen', unanchored \subseteq unanchored',
           \/ lastPostedEpoch <= lastPostedEpoch'
           \/ (lastPostedEpoch' + 1)..lastPostedEpoch \subseteq unanchored',
           NEW j \in Jobs, WasDone(j)
    PROVE  WasDone(j)'
<1>1. CASE j \in Credits
  <2>1. j.kind = "credit" /\ [deposit |-> j.deposit, index |-> j.index] \in seen
    BY <1>1, JobForms DEF WasDone, AlreadyDone
  <2> QED BY <2>1 DEF WasDone, AlreadyDone
<1>2. CASE j \notin Credits
  <2>1. j.kind = "anchor" /\ j.epoch \in Nat
    BY <1>2, JobForms DEF Epochs
  <2>2. CASE j.epoch \in unanchored
    BY <2>1, <2>2 DEF WasDone
  <2>3. CASE lastPostedEpoch >= j.epoch
    <3>1. lastPostedEpoch' >= j.epoch \/ j.epoch \in unanchored'
      <4>1. CASE lastPostedEpoch <= lastPostedEpoch'
        BY <2>1, <2>3, <4>1, LastIsNat
      <4>2. CASE (lastPostedEpoch' + 1)..lastPostedEpoch \subseteq unanchored'
        <5>1. lastPostedEpoch' >= j.epoch \/ j.epoch \in (lastPostedEpoch' + 1)..lastPostedEpoch
          BY <2>1, <2>3, LastIsNat, Above
        <5> QED BY <4>2, <5>1
      <4> QED BY <4>1, <4>2
    <3> QED BY <2>1, <3>1 DEF WasDone, AlreadyDone
  <2> QED BY <2>1, <2>2, <2>3 DEF WasDone, AlreadyDone
<1> QED BY <1>1, <1>2

\* A block and a finalization deepen what is mined; a reorganisation does not reach what is vouched
\* for: it stops at the finalized block, and short of FALLBACK_DEPTH.
LEMMA VouchedStays ==
    ASSUME NEW k, Vouched(k), mined'[k.deposit] = mined[k.deposit],
           mined[k.deposit].block \in Nat,
           head \in Nat, head' \in Nat, head <= head',
           finalized \in Nat, finalized' \in Nat, finalized <= finalized'
    PROVE  Vouched(k)'
<1>1. FALLBACK_DEPTH \in Nat
  BY RelayerSizes
<1> QED BY <1>1 DEF Vouched

LEMMA ReorgSparesVouched ==
    ASSUME ChainOK, NEW k \in Keys, Vouched(k),
           NEW n \in 1..REORG_DEPTH, NEW S \in SUBSET Deposits, Reorg(n, S)
    PROVE  mined'[k.deposit] = mined[k.deposit]
<1> DEFINE d == k.deposit
<1>1. d \in Deposits
  BY DEF Keys
<1>2. /\ mined[d].block \in Nat /\ head \in Nat /\ finalized \in Nat /\ FALLBACK_DEPTH \in Nat
      /\ REORG_DEPTH \in Nat
  BY <1>1, RelayerSizes DEF ChainOK, Heights
<1>3. finalized <= head - n /\ n < FALLBACK_DEPTH
  BY <1>2, FallbackIsDeep DEF Reorg
<1>4. ~(mined[d].block > head - n)
  BY <1>2, <1>3 DEF Vouched
<1>5. d \notin {c \in Deposits : mined[c].block > head - n} /\ d \notin S
  BY <1>4 DEF Reorg
<1> QED BY <1>1, <1>5 DEF Reorg

\* A step of the process alone takes nothing back.
LEMMA ProcessGrows ==
    ASSUME ChainOK, UNCHANGED chainVars
    PROVE  Grows
<1>1. UNCHANGED <<head, finalized, mined, anchorState, unanchored, seen>>
  BY DEF chainVars, bscVars, anchorVars, layerVars
<1>2. \A k \in Keys : Vouched(k) => Vouched(k)'
  BY <1>1 DEF Vouched
<1>3. \A j \in Jobs : WasDone(j) => WasDone(j)'
  BY <1>1, LastGrows, DoneStays
<1>4. head \in Int /\ finalized \in Int
  BY RelayerSizes DEF ChainOK, Heights
<1> QED BY <1>1, <1>2, <1>3, <1>4 DEF Grows

-----------------------------------------------------------------------------
(* A part whose variables do not change is kept while the rest grows. *)

LEMMA ChainKept ==
    ASSUME ChainOK, UNCHANGED bscVars
    PROVE  ChainOK'
BY DEF ChainOK, bscVars

LEMMA PostedKept ==
    ASSUME PostedOK, UNCHANGED <<anchorState, anchorAt, resolvedAt, unanchored>>
    PROVE  PostedOK'
BY DEF PostedOK

LEMMA LayerKept ==
    ASSUME LayerOK, UNCHANGED epoch
    PROVE  LayerOK'
BY DEF LayerOK

LEMMA SeenKept ==
    ASSUME SeenOK, Grows, UNCHANGED seen
    PROVE  SeenOK'
BY DEF SeenOK, Grows

LEMMA TxsKept ==
    ASSUME TxsOK, Grows, UNCHANGED txs
    PROVE  TxsOK'
<1>1. \A j \in Credits : Vouched(JobKey(j)) => Vouched(JobKey(j))'
  BY JobForms DEF Grows
<1> QED BY <1>1 DEF TxsOK, Grows

LEMMA CursorKept ==
    ASSUME CursorOK, ChainOK, ChainOK', Grows, UNCHANGED cursor
    PROVE  CursorOK'
BY RelayerSizes DEF CursorOK, ChainOK, Heights, Grows

LEMMA RowsKept ==
    ASSUME RowsOK, Grows, UNCHANGED row
    PROVE  RowsOK'
BY DEF RowsOK, Grows, enqueued

LEMMA PassedKept ==
    ASSUME PassedOK, UNCHANGED <<forks, mined, cursor, row>>
    PROVE  PassedOK'
BY DEF PassedOK, CursorLeavesNothingBehind, isMined, KeyOf

LEMMA ProcessKept ==
    ASSUME ProcessOK, UNCHANGED processVars
    PROVE  ProcessOK'
BY DEF ProcessOK, processVars

LEMMA QueueKept ==
    ASSUME QueueOK, Grows, UNCHANGED <<todo, step, row>>
    PROVE  QueueOK'
<1>1. \A j \in Credits : Vouched(JobKey(j)) => Vouched(JobKey(j))'
  BY JobForms DEF Grows
<1>2. \A j : First(j)' = First(j)
  BY DEF First
<1>3. enqueued' = enqueued
  BY DEF enqueued
<1> QED BY <1>1, <1>2, <1>3 DEF QueueOK

LEMMA SnapshotKept ==
    ASSUME SnapshotOK, ChainOK, ChainOK', Grows, UNCHANGED snapshot
    PROVE  SnapshotOK'
<1>1. /\ head \in Int /\ head' \in Int /\ finalized \in Int /\ finalized' \in Int
      /\ snapshot.head \in Int /\ snapshot.finalized \in Int
  BY RelayerSizes DEF ChainOK, Heights, SnapshotOK
<1> QED BY <1>1 DEF SnapshotOK, Grows

-----------------------------------------------------------------------------
(* Rows *)

Statuses == {"new", "sent", "confirmed", "orphaned", "failed", "parked"}

\* The queue's order and what the rows are about do not change.
RowsMove ==
    /\ row' \in [Jobs -> Rows]
    /\ \A j \in Jobs : /\ row'[j].id = row[j].id /\ row'[j].src = row[j].src
                       /\ row'[j].status = "none" <=> row[j].status = "none"
                       /\ row'[j].status = "confirmed" => WasDone(j)'

LEMMA RowsMoveKeeps ==
    ASSUME RowsOK, RowsMove
    PROVE  RowsOK' /\ enqueued' = enqueued
<1>1. enqueued' = enqueued
  BY DEF enqueued, RowsMove
<1>2. enqueued \subseteq Jobs
  BY DEF enqueued
<1> QED BY <1>1, <1>2 DEF RowsOK, RowsMove

LEMMA PassedMoves ==
    ASSUME PassedOK, RowsMove, UNCHANGED <<forks, mined, cursor>>,
           ChainOK
    PROVE  PassedOK'
<1> SUFFICES ASSUME forks' = 0, NEW d \in Deposits, isMined(d)', mined'[d].block <= cursor'
             PROVE  row'[Credit(KeyOf(d)')].status # "none"
  BY DEF PassedOK, CursorLeavesNothingBehind
<1>1. KeyOf(d)' = KeyOf(d) /\ isMined(d)
  BY DEF KeyOf, isMined
<1>2. row[Credit(KeyOf(d))].status # "none"
  BY <1>1 DEF PassedOK, CursorLeavesNothingBehind
<1>3. KeyOf(d) \in Keys
  BY DEF KeyOf, Keys, ChainOK
<1>4. Credit(KeyOf(d)) \in Jobs
  BY <1>3, JobForms
<1> QED BY <1>1, <1>2, <1>4 DEF RowsMove

\* One row gets a new status and a number of attempts.
LEMMA RowChanges ==
    ASSUME RowsOK, Grows, NEW j \in enqueued, NEW s \in Statuses, NEW n \in 0..MAX_ATTEMPTS,
           row' = [row EXCEPT ![j] = [@ EXCEPT !.status = s, !.attempts = n]],
           s = "confirmed" => WasDone(j)'
    PROVE  RowsMove
<1> DEFINE r == [row[j] EXCEPT !.status = s]
           q == [r EXCEPT !.attempts = n]
<1>1. j \in Jobs /\ row \in [Jobs -> Rows] /\ row[j] \in Rows
  BY DEF enqueued, RowsOK
<1>2. row' = [k \in Jobs |-> IF k = j THEN q ELSE row[k]]
  BY <1>1
<1>3. q \in Rows /\ q.id = row[j].id /\ q.src = row[j].src /\ q.status = s
  BY <1>1 DEF Rows, Statuses
<1>4. row[j].status # "none" /\ s # "none"
  BY DEF enqueued, Statuses
<1> HIDE DEF q
<1>5. row' \in [Jobs -> Rows]
  BY <1>1, <1>2, <1>3
<1>6. ASSUME NEW k \in Jobs
      PROVE  /\ row'[k].id = row[k].id /\ row'[k].src = row[k].src
             /\ row'[k].status = "none" <=> row[k].status = "none"
             /\ row'[k].status = "confirmed" => WasDone(k)'
  <2>1. CASE k = j
    BY <1>2, <1>3, <1>4, <2>1
  <2>2. CASE k # j
    BY <1>2, <2>2 DEF RowsOK, Grows
  <2> QED BY <2>1, <2>2
<1> QED BY <1>5, <1>6 DEF RowsMove

\* New rows get the ids after those in use, in some order.
LEMMA EnqueueKeeps ==
    ASSUME RowsOK, ChainOK, Grows, NEW new \in SUBSET Jobs, Enqueue(new),
           new \cap enqueued = {},
           \A j \in new \cap Credits :
              j.deposit \in Deposits /\ mined[j.deposit].block # 0 /\ mined[j.deposit].index = j.index
    PROVE  /\ RowsOK' /\ enqueued' = enqueued \cup new
           /\ \A j \in enqueued : row'[j] = row[j]
<1> DEFINE N == Cardinality(enqueued)
           M == Cardinality(new)
           src(j) == IF j.kind = "credit" THEN mined[j.deposit] ELSE NotMined
<1>1. PICK place \in Bijection(new, 1..M) :
         row' = [j \in Jobs |-> IF j \in new THEN NewRow(N + place[j], src(j)) ELSE row[j]]
  BY DEF Enqueue
<1>2. enqueued \subseteq Jobs /\ IsFiniteSet(enqueued) /\ IsFiniteSet(new)
  BY JobsFinite, FS_Subset DEF enqueued
<1>3. N \in Nat /\ M \in Nat
  BY <1>2, FS_CardinalityType
<1>4. place \in [new -> 1..M] /\ \A j, k \in new : place[j] = place[k] => j = k
  BY <1>1 DEF Bijection, Injection, IsInjective
<1>5. ASSUME NEW j \in new
      PROVE  /\ src(j) \in [block : Heights, fork : Nat, index : 0..1]
             /\ j \in Credits => src(j).block # 0 /\ src(j).index = j.index
  <2>1. CASE j \in Credits
    BY <2>1 DEF ChainOK, Credits
  <2>2. CASE j \notin Credits
    <3>1. j.kind = "anchor"
      BY <2>2, JobForms
    <3>2. 0 \in Heights /\ 0 \in Nat /\ 0 \in 0..1
      BY RelayerSizes DEF Heights
    <3>3. src(j) = NotMined
      BY <3>1
    <3> QED BY <2>2, <3>2, <3>3 DEF NotMined
  <2> QED BY <2>1, <2>2
<1> HIDE DEF src, N, M
<1>6. ASSUME NEW j \in new
      PROVE  /\ row'[j] \in Rows /\ row'[j].id = N + place[j] /\ row'[j].status = "new"
             /\ row'[j].src = src(j)
  <2>1. row'[j] = NewRow(N + place[j], src(j))
    BY <1>1
  <2>2. N + place[j] \in Nat
    BY <1>3, <1>4
  <2>3. head \in Heights /\ 0 \in 0..MAX_ATTEMPTS
    BY RelayerSizes DEF ChainOK
  <2> QED BY <1>5, <2>1, <2>2, <2>3 DEF NewRow, Rows
<1>7. \A j \in Jobs \ new : row'[j] = row[j]
  BY <1>1
<1>8. row' \in [Jobs -> Rows]
  <2>1. \A j \in Jobs : row'[j] \in Rows
    BY <1>6, <1>7 DEF RowsOK
  <2> QED BY <1>1, <2>1
<1>9. enqueued' = enqueued \cup new
  BY <1>6, <1>7 DEF enqueued
<1>10. Cardinality(enqueued') = N + M
  <2>1. Cardinality(enqueued \cap new) = 0
    <3>1. enqueued \cap new = {}
      OBVIOUS
    <3> QED BY <3>1, FS_EmptySet
  <2>2. Cardinality(enqueued \cup new) = Cardinality(enqueued) + Cardinality(new) - 0
    BY <1>2, <2>1, FS_Union
  <2> QED BY <1>3, <1>9, <2>2 DEF N, M
<1>11. \A j \in enqueued : row'[j] = row[j] /\ row[j].id \in 1..N
  BY <1>2, <1>7 DEF RowsOK, N
<1>12. ASSUME NEW j \in enqueued' PROVE row'[j].id \in 1..(N + M)
  <2>1. CASE j \in enqueued
    <3>1. row'[j].id \in 1..N
      BY <1>11, <2>1
    <3> QED BY <1>3, <3>1
  <2>2. CASE j \in new
    <3>1. row'[j].id = N + place[j] /\ place[j] \in 1..M
      BY <1>4, <1>6, <2>2
    <3> QED BY <1>3, <3>1
  <2> QED BY <1>9, <2>1, <2>2
<1>13. ASSUME NEW j \in enqueued', NEW k \in enqueued', row'[j].id = row'[k].id PROVE j = k
  <2>1. CASE j \in enqueued /\ k \in enqueued
    BY <1>11, <1>13, <2>1 DEF RowsOK
  <2>2. CASE j \in new /\ k \in new
    BY <1>3, <1>4, <1>6, <1>13, <2>2
  <2>3. CASE j \in enqueued /\ k \in new
    BY <1>3, <1>4, <1>6, <1>11, <1>13, <2>3
  <2>4. CASE j \in new /\ k \in enqueued
    BY <1>3, <1>4, <1>6, <1>11, <1>13, <2>4
  <2> QED BY <1>9, <2>1, <2>2, <2>3, <2>4
<1>14. ASSUME NEW j \in enqueued' \cap Credits
       PROVE  row'[j].src.block # 0 /\ row'[j].src.index = j.index
  <2>1. CASE j \in new
    BY <1>5, <1>6, <2>1
  <2>2. CASE j \in enqueued
    BY <1>11, <2>2 DEF RowsOK
  <2> QED BY <1>9, <2>1, <2>2
<1>15. ASSUME NEW j \in Jobs, row'[j].status = "confirmed" PROVE WasDone(j)'
  BY <1>6, <1>7, <1>15 DEF RowsOK, Grows
<1>16. RowsOK'
  <2> HIDE DEF RowsOK
  <2>1. \A j \in enqueued' : row'[j].id \in 1..Cardinality(enqueued')
    BY <1>10, <1>12
  <2> QED BY <1>8, <1>13, <1>14, <1>15, <2>1 DEF RowsOK
<1> QED BY <1>9, <1>11, <1>16

-----------------------------------------------------------------------------
(* The chains *)

\* The parts that only the process disturbs, in a step of the chains.
LEMMA ChainStep ==
    ASSUME IndInv, Grows, ChainOK', UNCHANGED <<dbVars, processVars, senderVars>>
    PROVE  CursorOK' /\ RowsOK' /\ ProcessOK' /\ QueueOK' /\ SnapshotOK'
<1> USE DEF dbVars, senderVars
<1> QED BY CursorKept, RowsKept, ProcessKept, QueueKept, SnapshotKept DEF IndInv

LEMMA ChainGrows ==
    ASSUME ChainOK, ChainOK', head <= head', finalized <= finalized',
           \A k \in Keys : Vouched(k) => mined'[k.deposit] = mined[k.deposit],
           UNCHANGED seen,
           \A j \in Jobs : WasDone(j) => WasDone(j)'
    PROVE  Grows
<1>1. \A k \in Keys : mined[k.deposit].block \in Nat
  BY RelayerSizes DEF ChainOK, Heights, Keys
<1>2. head \in Nat /\ head' \in Nat /\ finalized \in Nat /\ finalized' \in Nat
  BY RelayerSizes DEF ChainOK, Heights
<1>3. \A k \in Keys : Vouched(k) => Vouched(k)'
  BY <1>1, <1>2, VouchedStays
<1>4. seen \subseteq seen'
  OBVIOUS
<1> QED BY <1>3, <1>4 DEF Grows

LEMMA DoneStaysStill ==
    ASSUME UNCHANGED <<seen, anchorState, unanchored>>
    PROVE  \A j \in Jobs : WasDone(j) => WasDone(j)'
BY LastGrows, DoneStays

LEMMA NewBlockKeeps ==
    ASSUME IndInv, NEW S \in SUBSET Deposits, NewBlock(S)
    PROVE  IndInv'
<1> USE DEF bscVars, anchorVars, layerVars
<1>1. /\ head \in Nat /\ head' = head + 1 /\ finalized' = finalized /\ forks' = forks
      /\ \A d \in Deposits : d \in S => mined[d].block = 0
      /\ mined' = [d \in Deposits |->
                     IF d \in S THEN [block |-> head', fork |-> forks, index |-> 0] ELSE mined[d]]
  BY RelayerSizes DEF NewBlock, isMined, IndInv, ChainOK, Heights
<1>2. head' \in Heights /\ forks \in Nat /\ finalized \in 0..head'
  BY RelayerSizes DEF NewBlock, IndInv, ChainOK, Heights
<1>3. ChainOK'
  <2>1. \A d \in Deposits : mined'[d] \in [block : Heights, fork : Nat, index : 0..1]
    BY <1>1, <1>2 DEF IndInv, ChainOK
  <2> QED BY <1>1, <1>2, <2>1 DEF IndInv, ChainOK
<1>4. \A k \in Keys : Vouched(k) => mined'[k.deposit] = mined[k.deposit]
  BY <1>1 DEF Vouched, Keys
<1>5. Grows
  <2>1. head <= head' /\ finalized <= finalized'
    BY <1>1, <1>2
  <2>2. \A j \in Jobs : WasDone(j) => WasDone(j)'
    BY DoneStaysStill DEF NewBlock
  <2> QED BY <1>3, <1>4, <2>1, <2>2, ChainGrows DEF IndInv, NewBlock
<1>6. PassedOK'
  <2> SUFFICES ASSUME forks' = 0, NEW d \in Deposits, isMined(d)', mined'[d].block <= cursor'
               PROVE  row'[Credit(KeyOf(d)')].status # "none"
    BY DEF PassedOK, CursorLeavesNothingBehind
  <2>1. cursor' = cursor /\ row' = row /\ cursor \in 0..head
    BY DEF NewBlock, dbVars, IndInv, CursorOK
  <2>2. d \notin S
    BY <1>1, <2>1
  <2>3. mined'[d] = mined[d]
    BY <1>1, <2>2
  <2> QED BY <1>1, <2>1, <2>3 DEF IndInv, PassedOK, CursorLeavesNothingBehind, isMined, KeyOf
<1> QED
  BY <1>3, <1>5, <1>6, ChainStep, PostedKept, LayerKept, SeenKept, TxsKept DEF NewBlock, IndInv

LEMMA FinalizeKeeps ==
    ASSUME IndInv, FinalizeBlock
    PROVE  IndInv'
<1> USE DEF anchorVars, layerVars
<1>1. ChainOK'
  BY RelayerSizes DEF FinalizeBlock, IndInv, ChainOK, Heights
<1>2. head <= head' /\ finalized <= finalized'
  BY RelayerSizes DEF FinalizeBlock, IndInv, ChainOK, Heights
<1>3. Grows
  BY <1>1, <1>2, ChainGrows, DoneStaysStill DEF FinalizeBlock, IndInv
<1>4. PassedOK'
  BY PassedKept DEF FinalizeBlock, IndInv, dbVars
<1> QED
  BY <1>1, <1>3, <1>4, ChainStep, PostedKept, LayerKept, SeenKept, TxsKept
     DEF FinalizeBlock, IndInv

\* What is left of the anchors is typed, and the last posted epoch never grows by it.
LEMMA AnchorsBackTyped ==
    ASSUME ChainOK, PostedOK, NEW last, AnchorsGoBack(last)
    PROVE  PostedOK'
<1>1. 0 \in Heights
  BY RelayerSizes DEF Heights
<1>2. (lastPostedEpoch' + 1)..lastPostedEpoch \subseteq Epochs
  <2>1. lastPostedEpoch = LastOf(anchorState)
    BY DEF lastPostedEpoch, LastOf
  <2>2. lastPostedEpoch # 0 => lastPostedEpoch \in 1..MaxEpoch
    BY <2>1, LastIsGreatest DEF Epochs
  <2>3. ASSUME NEW e, e \in (lastPostedEpoch' + 1)..lastPostedEpoch PROVE e \in 1..MaxEpoch
    <3>0. e \in Nat /\ lastPostedEpoch' < e /\ e <= lastPostedEpoch
      BY <2>3, LastIsNat, Above
    <3>1. e \in Nat /\ 0 < e /\ e <= lastPostedEpoch
      BY <3>0, LastIsNat
    <3>2. lastPostedEpoch \in Nat /\ lastPostedEpoch <= MaxEpoch /\ MaxEpoch \in Nat
      BY <2>2, <3>1, LastIsNat, RelayerSizes
    <3> QED BY <3>1, <3>2
  <2> QED BY <2>3 DEF Epochs
<1> QED BY <1>1, <1>2 DEF PostedOK, AnchorsGoBack

LEMMA ReorgKeeps ==
    ASSUME IndInv, NEW n \in 1..REORG_DEPTH, NEW S \in SUBSET Deposits, Reorg(n, S)
    PROVE  IndInv'
<1> USE DEF anchorVars, layerVars
<1>1. /\ head \in Nat /\ finalized \in Nat /\ MaxHead \in Nat /\ head <= MaxHead
      /\ forks \in Nat /\ crashes \in Nat /\ MaxFaults \in Nat /\ REORG_DEPTH \in Nat
  BY RelayerSizes DEF IndInv, ChainOK, Heights, ProcessOK
<1>2. PICK block \in head - n + 1..head, index \in 0..1 :
         mined' = [d \in Deposits |->
                     IF d \in S THEN [block |-> block, fork |-> forks', index |-> index]
                     ELSE IF d \in {c \in Deposits : mined[c].block > head - n} THEN NotMined
                     ELSE mined[d]]
  BY DEF Reorg
<1>3. block \in Heights /\ forks' \in 0..MaxFaults /\ forks' \in Nat /\ forks' # 0
  BY <1>1 DEF Reorg, Heights
<1>4. ChainOK'
  <2>1. NotMined \in [block : Heights, fork : Nat, index : 0..1]
    BY <1>1 DEF NotMined, Heights
  <2>2. \A d \in Deposits : mined'[d] \in [block : Heights, fork : Nat, index : 0..1]
    BY <1>2, <1>3, <2>1 DEF IndInv, ChainOK
  <2> QED BY <1>2, <1>3, <2>2 DEF Reorg, IndInv, ChainOK
<1>5. Grows
  <2>1. head <= head' /\ finalized <= finalized'
    BY <1>1 DEF Reorg
  <2>2. \A k \in Keys : Vouched(k) => mined'[k.deposit] = mined[k.deposit]
    BY ReorgSparesVouched DEF IndInv
  <2>3. \A j \in Jobs : WasDone(j) => WasDone(j)'
    BY DoneStays DEF Reorg, AnchorsGoBack
  <2> QED BY <1>4, <2>1, <2>2, <2>3, ChainGrows DEF Reorg, IndInv
<1>6. PassedOK'
  BY <1>3 DEF PassedOK, CursorLeavesNothingBehind
<1>7. PostedOK'
  BY AnchorsBackTyped DEF Reorg, IndInv
<1>8. TxsOK'
  <2>1. \A j \in Jobs : \/ txs'[j] = txs[j]
                         \/ (j.kind = "anchor" /\ txs'[j] \in {"pending", "none"})
    BY DEF Reorg
  <2>2. txs' \in [Jobs -> {"none", "pending", "ok", "reverted"}]
    BY DEF Reorg, IndInv, TxsOK
  <2>3. \A j \in Credits : txs'[j] = txs[j] /\ j \in Jobs /\ JobKey(j) \in Keys
    BY <2>1, JobForms DEF Credits
  <2> QED BY <1>5, <2>1, <2>2, <2>3 DEF IndInv, TxsOK, Grows
<1> QED
  BY <1>4, <1>5, <1>6, <1>7, <1>8, ChainStep, LayerKept, SeenKept DEF Reorg, IndInv

\* A change of what the layer or the anchor contract knows, the chain of BSC as it was.
LEMMA LayerGrows ==
    ASSUME ChainOK, UNCHANGED bscVars, seen \subseteq seen',
           \A e \in Epochs : anchorState[e] # "NONE" => anchorState'[e] # "NONE",
           unanchored' = unanchored
    PROVE  Grows
<1>1. \A k \in Keys : Vouched(k) => Vouched(k)'
  BY DEF Vouched, bscVars
<1>2. \A j \in Jobs : WasDone(j) => WasDone(j)'
  BY LastGrows, DoneStays
<1>3. head <= head' /\ finalized <= finalized'
  BY RelayerSizes DEF ChainOK, Heights, bscVars
<1> QED BY <1>1, <1>2, <1>3 DEF Grows

LEMMA ResolvedKeeps ==
    ASSUME IndInv, NEW e \in Epochs, NEW verdict \in Verdicts, AnchorResolved(e, verdict)
    PROVE  IndInv'
<1>1. verdict \in {"FINAL", "VETOED", "DISPUTED"}
  BY RelayerSizes
<1>2. PostedOK' /\ \A f \in Epochs : anchorState[f] # "NONE" => anchorState'[f] # "NONE"
  BY <1>1 DEF AnchorResolved, IndInv, PostedOK, ChainOK
<1>3. ChainOK'
  BY ChainKept DEF AnchorResolved, IndInv
<1>4. Grows
  BY <1>2, LayerGrows DEF AnchorResolved, IndInv, layerVars
<1>5. PassedOK'
  BY PassedKept DEF AnchorResolved, IndInv, bscVars, dbVars
<1> QED
  BY <1>2, <1>3, <1>4, <1>5, ChainStep, LayerKept, SeenKept, TxsKept
     DEF AnchorResolved, IndInv, layerVars

LEMMA QuietLayerKeeps ==
    ASSUME IndInv, EpochEnds \/ LayerExit
    PROVE  IndInv'
<1>1. /\ UNCHANGED <<bscVars, anchorVars, seen, txs, dbVars, processVars, senderVars>>
      /\ epoch' \in Epochs
  <2>1. CASE EpochEnds
    BY <2>1, RelayerSizes DEF EpochEnds, IndInv, LayerOK, Epochs
  <2>2. CASE LayerExit
    BY <2>2 DEF LayerExit, IndInv, LayerOK
  <2> QED BY <2>1, <2>2
<1>2. ChainOK'
  BY <1>1, ChainKept DEF IndInv
<1>3. Grows
  BY <1>1, LayerGrows DEF IndInv, anchorVars
<1>4. PassedOK'
  BY <1>1, PassedKept DEF IndInv, bscVars, dbVars
<1> QED
  BY <1>1, <1>2, <1>3, <1>4, ChainStep, PostedKept, SeenKept, TxsKept
     DEF IndInv, anchorVars, LayerOK

\* A credit is mined: its deposit was vouched for when it was sent.
LEMMA CreditMinedKeeps ==
    ASSUME IndInv, NEW k \in Keys, CreditMined(k)
    PROVE  IndInv'
<1>1. Credit(k) \in Credits /\ Credit(k) \in Jobs /\ JobKey(Credit(k)) = k
  BY JobForms
<1>2. Vouched(k)
  BY <1>1 DEF IndInv, TxsOK, CreditMined
<1>3. UNCHANGED <<bscVars, anchorVars, epoch, dbVars, processVars, senderVars>>
  BY DEF CreditMined
<1>4. seen \subseteq seen' /\ seen' \subseteq seen \cup {k}
  BY DEF CreditMined
<1>5. Grows
  BY <1>3, <1>4, LayerGrows DEF IndInv, anchorVars
<1>6. ChainOK' /\ PostedOK' /\ LayerOK' /\ PassedOK'
  BY <1>3, ChainKept, PostedKept, LayerKept, PassedKept DEF IndInv, anchorVars, bscVars, dbVars
<1>7. SeenOK'
  BY <1>2, <1>4, <1>5 DEF SeenOK, IndInv, Grows
<1>8. TxsOK'
  <2>1. PICK s \in {"ok", "reverted"} :
           txs' = [txs EXCEPT ![Credit(k)] = s] /\ (s = "ok" => k \in seen')
    BY DEF CreditMined
  <2>2. txs' \in [Jobs -> {"none", "pending", "ok", "reverted"}]
    BY <1>1, <2>1 DEF IndInv, TxsOK
  <2>3. ASSUME NEW j \in Credits, txs'[j] = "pending" PROVE Vouched(JobKey(j))'
    <3>1. txs[j] = "pending"
      BY <1>1, <2>1, <2>3 DEF IndInv, TxsOK, Credits
    <3>2. Vouched(JobKey(j)) /\ JobKey(j) \in Keys
      BY <2>3, <3>1, JobForms DEF IndInv, TxsOK
    <3> QED BY <1>5, <3>2 DEF Grows
  <2>4. ASSUME NEW j \in Jobs, txs'[j] = "ok" PROVE WasDone(j)'
    <3>1. CASE j = Credit(k)
      <4>1. s = "ok"
        BY <1>1, <2>1, <2>4, <3>1 DEF IndInv, TxsOK
      <4>2. k = [deposit |-> j.deposit, index |-> j.index] /\ j.kind = "credit"
        BY <1>1, <3>1 DEF JobKey, Credits
      <4> QED BY <2>1, <4>1, <4>2 DEF WasDone, AlreadyDone
    <3>2. CASE j # Credit(k)
      <4>1. txs[j] = "ok"
        BY <2>1, <2>4, <3>2 DEF IndInv, TxsOK
      <4> QED BY <1>5, <4>1 DEF IndInv, TxsOK, Grows
    <3> QED BY <3>1, <3>2
  <2> QED BY <2>2, <2>3, <2>4 DEF TxsOK
<1> QED BY <1>3, <1>5, <1>6, <1>7, <1>8, ChainStep DEF IndInv

\* An anchor that is mined is posted, and its job done.
LEMMA AnchorMinedKeeps ==
    ASSUME IndInv, NEW e \in Epochs, AnchorMined(e)
    PROVE  IndInv'
<1>1. AnchorJob(e) \in Jobs /\ AnchorJob(e).kind = "anchor" /\ AnchorJob(e).epoch = e
  BY JobForms DEF AnchorJob
<1>2. AnchorJob(e) \notin Credits
  BY <1>1 DEF Credits
<1>3. UNCHANGED <<bscVars, cumulative, unanchored, layerVars, dbVars, processVars, senderVars>>
  BY DEF AnchorMined
<1>4. PostedOK' /\ \A f \in Epochs : anchorState[f] # "NONE" => anchorState'[f] # "NONE"
  BY DEF AnchorMined, IndInv, PostedOK, ChainOK
<1>5. Grows
  BY <1>3, <1>4, LayerGrows DEF IndInv, layerVars
<1>6. ChainOK' /\ LayerOK' /\ PassedOK' /\ SeenOK'
  BY <1>3, <1>5, ChainKept, LayerKept, PassedKept, SeenKept DEF IndInv, layerVars, bscVars, dbVars
<1>7. TxsOK'
  <2>1. PICK s \in {"ok", "reverted"} :
           /\ txs' = [txs EXCEPT ![AnchorJob(e)] = s]
           /\ s = "ok" => anchorState'[e] = "POSTED"
    BY DEF AnchorMined, IndInv, PostedOK
  <2>2. txs' \in [Jobs -> {"none", "pending", "ok", "reverted"}]
    BY <1>1, <2>1 DEF IndInv, TxsOK
  <2>3. ASSUME NEW j \in Credits, txs'[j] = "pending" PROVE Vouched(JobKey(j))'
    <3>1. txs[j] = "pending" /\ JobKey(j) \in Keys
      BY <1>2, <2>1, <2>3, JobForms DEF IndInv, TxsOK, Credits
    <3> QED BY <1>5, <2>3, <3>1 DEF IndInv, TxsOK, Grows
  <2>4. ASSUME NEW j \in Jobs, txs'[j] = "ok" PROVE WasDone(j)'
    <3>1. CASE j = AnchorJob(e)
      <4>1. anchorState'[e] # "NONE"
        BY <1>1, <2>1, <2>4, <3>1 DEF IndInv, TxsOK
      <4>2. lastPostedEpoch' = LastOf(anchorState')
        BY DEF lastPostedEpoch, LastOf
      <4>3. e <= lastPostedEpoch' /\ e \in Nat /\ lastPostedEpoch' \in Nat
        BY <4>1, <4>2, LastIsGreatest DEF Epochs
      <4> QED BY <1>1, <3>1, <4>3 DEF WasDone, AlreadyDone
    <3>2. CASE j # AnchorJob(e)
      <4>1. txs[j] = "ok"
        BY <2>1, <2>4, <3>2 DEF IndInv, TxsOK
      <4> QED BY <1>5, <4>1 DEF IndInv, TxsOK, Grows
    <3> QED BY <3>1, <3>2
  <2> QED BY <2>2, <2>3, <2>4 DEF TxsOK
<1> QED BY <1>3, <1>4, <1>5, <1>6, <1>7, ChainStep DEF IndInv

LEMMA TxLostKeeps ==
    ASSUME IndInv, NEW j \in Jobs, TxLost(j)
    PROVE  IndInv'
<1> USE DEF chainVars, bscVars, anchorVars, layerVars
<1>1. Grows
  BY ProcessGrows DEF TxLost, IndInv
<1>2. TxsOK'
  <2>1. txs' \in [Jobs -> {"none", "pending", "ok", "reverted"}]
    BY DEF TxLost, IndInv, TxsOK
  <2>2. \A i \in Jobs : txs'[i] \in {"pending", "ok"} => txs'[i] = txs[i]
    BY DEF TxLost, IndInv, TxsOK
  <2>3. \A i \in Credits : i \in Jobs /\ JobKey(i) \in Keys
    BY JobForms DEF Credits
  <2> QED BY <1>1, <2>1, <2>2, <2>3 DEF IndInv, TxsOK, Grows
<1>3. ChainOK' /\ PostedOK' /\ LayerOK' /\ SeenOK' /\ PassedOK'
  BY <1>1, ChainKept, PostedKept, LayerKept, SeenKept, PassedKept DEF TxLost, IndInv, dbVars
<1> QED BY <1>1, <1>2, <1>3, ChainStep DEF TxLost, IndInv

LEMMA ChainsKeep ==
    ASSUME IndInv, Chains
    PROVE  IndInv'
BY NewBlockKeeps, FinalizeKeeps, ReorgKeeps, ResolvedKeeps, QuietLayerKeeps, CreditMinedKeeps,
   AnchorMinedKeeps, TxLostKeeps DEF Chains

-----------------------------------------------------------------------------
(* The process: the scan and the anchors *)

\* The parts that only the chains disturb, in a step of the process.
LEMMA ProcessStep ==
    ASSUME IndInv, UNCHANGED chainVars
    PROVE  Grows /\ ChainOK' /\ PostedOK' /\ LayerOK' /\ SeenOK'
<1> USE DEF chainVars, bscVars, anchorVars, layerVars
<1>1. Grows
  BY ProcessGrows DEF IndInv
<1> QED BY <1>1, ChainKept, PostedKept, LayerKept, SeenKept DEF IndInv

\* A death leaves an empty queue and no snapshot.
LEMMA DeathKeeps ==
    ASSUME IndInv, Dies, UNCHANGED chainVars
    PROVE  ProcessOK' /\ QueueOK' /\ SnapshotOK'
<1>1. ProcessOK'
  <2>1. /\ forks \in Nat /\ crashes \in Nat /\ MaxFaults \in Nat
        /\ forks + crashes < MaxFaults /\ crashes' = crashes + 1 /\ alive' = FALSE
    BY RelayerSizes DEF Dies, ProcessOK, IndInv, ChainOK
  <2>2. crashes' \in 0..MaxFaults
    BY <2>1
  <2> QED BY <2>1, <2>2 DEF ProcessOK
<1>2. QueueOK'
  BY DEF Dies, QueueOK
<1>3. SnapshotOK'
  <2>1. head' \in Nat /\ finalized' \in Nat
    BY RelayerSizes, ProcessStep DEF ChainOK, Heights
  <2> QED BY <2>1 DEF Dies, SnapshotOK, NoSnapshot
<1> QED BY <1>1, <1>2, <1>3

\* Rows that already exist keep their place, so the round goes on as it was.
LEMMA QueueGrows ==
    ASSUME QueueOK, RowsOK, Grows, enqueued \subseteq enqueued', todo' = todo,
           \A j \in enqueued : row'[j].id = row[j].id,
           step' \in {"next", "send", "wait"}, step' # "next" => step # "next"
    PROVE  QueueOK'
<1>1. todo \subseteq enqueued
  BY DEF QueueOK
<1>2. \A j : First(j)' => First(j)
  BY <1>1 DEF First
<1>3. \A j \in Credits : Vouched(JobKey(j)) => Vouched(JobKey(j))'
  BY JobForms DEF Grows
<1> QED BY <1>1, <1>2, <1>3 DEF QueueOK

LEMMA FoundKeys ==
    ASSUME IndInv
    PROVE  /\ FoundNew \in SUBSET Jobs /\ FoundNew \cap enqueued = {}
           /\ \A j \in FoundNew \cap Credits :
                 j.deposit \in Deposits /\ mined[j.deposit].block # 0
                 /\ mined[j.deposit].index = j.index
<1>1. ASSUME NEW j \in Found
      PROVE  /\ j \in Jobs /\ j.deposit \in Deposits
             /\ mined[j.deposit].block # 0 /\ mined[j.deposit].index = j.index
  <2>1. PICK d \in Deposits : j = Credit(KeyOf(d)) /\ cursor < mined[d].block
    BY DEF Found
  <2>2. mined[d].block # 0
    BY <2>1 DEF IndInv, CursorOK
  <2>3. KeyOf(d) \in Keys
    BY DEF KeyOf, Keys, IndInv, ChainOK
  <2>4. j \in Jobs /\ j.deposit = d /\ j.index = mined[d].index
    BY <2>1, <2>3, JobForms DEF Credit, KeyOf
  <2> QED BY <2>2, <2>4
<1> QED BY <1>1 DEF FoundNew, enqueued

\* Whatever is behind the new cursor was found or was enqueued before.
LEMMA ScanPasses ==
    ASSUME IndInv, UNCHANGED chainVars, cursor' \in {cursor, ScanTo},
           enqueued' = enqueued \cup FoundNew
    PROVE  PassedOK'
<1> USE DEF chainVars, bscVars
<1> SUFFICES ASSUME forks' = 0, NEW d \in Deposits, isMined(d)', mined'[d].block <= cursor'
             PROVE  row'[Credit(KeyOf(d)')].status # "none"
  BY DEF PassedOK, CursorLeavesNothingBehind
<1>1. KeyOf(d)' = KeyOf(d) /\ isMined(d) /\ mined[d].block <= cursor' /\ forks = 0
  BY DEF KeyOf, isMined
<1>2. Credit(KeyOf(d)) \in Jobs
  BY JobForms DEF KeyOf, Keys, IndInv, ChainOK
<1>3. CASE mined[d].block <= cursor
  <2>1. Credit(KeyOf(d)) \in enqueued
    BY <1>1, <1>2, <1>3 DEF IndInv, PassedOK, CursorLeavesNothingBehind, enqueued
  <2> QED BY <1>1, <2>1 DEF enqueued
<1>4. CASE ~(mined[d].block <= cursor)
  <2>1. mined[d].block \in Nat /\ cursor \in Nat
    BY RelayerSizes DEF IndInv, ChainOK, Heights, CursorOK
  <2>2. cursor' = ScanTo /\ cursor < mined[d].block /\ mined[d].block <= ScanTo
    BY <1>1, <1>4, <2>1
  <2>3. Credit(KeyOf(d)) \in Found
    BY <2>2 DEF Found
  <2>4. Credit(KeyOf(d)) \in enqueued \cup FoundNew
    BY <1>2, <2>3 DEF FoundNew, enqueued
  <2> QED BY <1>1, <2>4 DEF enqueued
<1> QED BY <1>3, <1>4

LEMMA ScanKeeps ==
    ASSUME IndInv, ScanBscOnce \/ ScanDies
    PROVE  IndInv'
<1> USE DEF chainVars, bscVars, anchorVars, layerVars
<1>1. UNCHANGED chainVars /\ UNCHANGED txs /\ Enqueue(FoundNew)
  BY DEF ScanBscOnce, ScanDies
<1>2. Grows /\ ChainOK' /\ PostedOK' /\ LayerOK' /\ SeenOK'
  BY <1>1, ProcessStep
<1>3. RowsOK' /\ enqueued' = enqueued \cup FoundNew /\ \A j \in enqueued : row'[j] = row[j]
  BY <1>1, <1>2, FoundKeys, EnqueueKeeps DEF IndInv
<1>4. cursor' \in {cursor, ScanTo} /\ cursor' \in 0..head'
  <2>1. ScanTo \in 0..head
    BY RelayerSizes DEF ScanTo, Least, IndInv, CursorOK, ChainOK, Heights
  <2> QED BY <1>1, <2>1 DEF ScanBscOnce, ScanDies, IndInv, CursorOK
<1>5. PassedOK'
  BY <1>1, <1>3, <1>4, ScanPasses
<1>6. ProcessOK' /\ QueueOK' /\ SnapshotOK'
  <2>1. CASE ScanBscOnce
    BY <1>2, <1>3, <2>1, QueueGrows, ProcessKept, SnapshotKept
       DEF ScanBscOnce, IndInv, senderVars, QueueOK
  <2>2. CASE ScanDies
    BY <1>1, <2>2, DeathKeeps DEF ScanDies
  <2> QED BY <2>1, <2>2
<1>7. TxsOK'
  BY <1>1, <1>2, TxsKept DEF IndInv
<1> QED BY <1>2, <1>3, <1>4, <1>5, <1>6, <1>7 DEF IndInv, CursorOK

LEMMA AnchorOnceKeeps ==
    ASSUME IndInv, NEW e \in Epochs, NEW unseen \in 0..LAYER_LAG,
           AnchorOnce(e, unseen) \/ AnchorDies(e, unseen)
    PROVE  IndInv'
<1> USE DEF chainVars, bscVars, anchorVars, layerVars
<1> DEFINE new == {AnchorJob(e)} \ {j \in Jobs : row[j].status # "none"}
<1>1. UNCHANGED chainVars /\ UNCHANGED <<txs, cursor>>
  BY DEF AnchorOnce, AnchorDies
<1>2. Grows /\ ChainOK' /\ PostedOK' /\ LayerOK' /\ SeenOK'
  BY <1>1, ProcessStep
<1>3. CursorOK' /\ TxsOK'
  BY <1>1, <1>2, CursorKept, TxsKept DEF IndInv
<1>4. CASE AnchorOnce(e, unseen)
  <2>1. new \in SUBSET Jobs /\ new \cap enqueued = {} /\ new \cap Credits = {}
    BY JobForms DEF enqueued, Credits
  <2>2. Enqueue(new)
    BY <1>4 DEF AnchorOnce
  <2> HIDE DEF new
  <2>3. RowsOK' /\ enqueued' = enqueued \cup new /\ \A j \in enqueued : row'[j] = row[j]
    BY <1>2, <2>1, <2>2, EnqueueKeeps DEF IndInv
  <2>4. PassedOK'
    <3> SUFFICES ASSUME forks' = 0, NEW d \in Deposits, isMined(d)', mined'[d].block <= cursor'
                 PROVE  row'[Credit(KeyOf(d)')].status # "none"
      BY DEF PassedOK, CursorLeavesNothingBehind
    <3>1. KeyOf(d)' = KeyOf(d) /\ isMined(d) /\ mined[d].block <= cursor /\ forks = 0
      BY <1>1 DEF KeyOf, isMined
    <3>2. Credit(KeyOf(d)) \in Jobs
      BY JobForms DEF KeyOf, Keys, IndInv, ChainOK
    <3>3. Credit(KeyOf(d)) \in enqueued
      BY <3>1, <3>2 DEF IndInv, PassedOK, CursorLeavesNothingBehind, enqueued
    <3> QED BY <2>3, <3>1, <3>3 DEF enqueued
  <2>5. ProcessOK' /\ QueueOK' /\ SnapshotOK'
    BY <1>2, <1>4, <2>3, QueueGrows, ProcessKept, SnapshotKept
       DEF AnchorOnce, IndInv, senderVars, QueueOK
  <2> QED BY <1>2, <1>3, <2>3, <2>4, <2>5 DEF IndInv
<1>5. CASE AnchorDies(e, unseen)
  BY <1>1, <1>2, <1>3, <1>5, DeathKeeps, RowsKept, PassedKept DEF AnchorDies, IndInv
<1> QED BY <1>4, <1>5

-----------------------------------------------------------------------------
(* The process: the sender *)

\* While the queue has rows there is a first one, and only one.
LEMMA CurrentIsFirst ==
    ASSUME RowsOK, todo \subseteq enqueued, todo # {}
    PROVE  /\ First(current) /\ current \in enqueued /\ current \in Jobs
           /\ \A j : First(j) => j = current
<1> DEFINE ids == {row[j].id : j \in todo}
<1>1. \A j \in enqueued : row[j].id \in Nat /\ j \in Jobs
  BY DEF RowsOK, Rows, enqueued
<1>2. ids \in SUBSET Nat /\ ids # {}
  BY <1>1
<1>3. PICK least \in ids : \A id \in ids : least <= id
  BY <1>2, LeastMember
<1>4. PICK j \in todo : row[j].id = least
  OBVIOUS
<1>5. \A k \in todo : row[j].id <= row[k].id
  BY <1>3, <1>4
<1>6. current \in todo /\ \A k \in todo : row[current].id <= row[k].id
  BY <1>5 DEF current
<1>7. ASSUME NEW i, First(i) PROVE i = current
  <2>1. i \in enqueued /\ current \in enqueued
    BY <1>6, <1>7 DEF First
  <2>2. row[i].id <= row[current].id /\ row[current].id <= row[i].id
    BY <1>6, <1>7 DEF First
  <2>3. row[i].id = row[current].id
    BY <1>1, <2>1, <2>2
  <2> QED BY <2>1, <2>3 DEF RowsOK
<1> QED BY <1>1, <1>6, <1>7 DEF First

LEMMA CurrentRow ==
    ASSUME IndInv, todo # {}
    PROVE  /\ First(current) /\ current \in enqueued /\ current \in Jobs
           /\ attempts \in 0..MAX_ATTEMPTS /\ MAX_ATTEMPTS \in Nat
           /\ \A j : First(j) => j = current
<1>1. First(current) /\ current \in enqueued /\ current \in Jobs /\ \A j : First(j) => j = current
  BY CurrentIsFirst DEF IndInv, QueueOK
<1> QED BY <1>1, RelayerSizes DEF IndInv, RowsOK, Rows, attempts

LEMMA StartRoundKeeps ==
    ASSUME IndInv, NEW available \in BOOLEAN, NEW lag \in 0..LAG, StartRound(available, lag)
    PROVE  IndInv'
<1>1. UNCHANGED chainVars /\ UNCHANGED <<txs, dbVars, processVars, step>>
  BY DEF StartRound
<1> USE DEF chainVars, bscVars, anchorVars, layerVars, dbVars
<1>2. Grows /\ ChainOK' /\ PostedOK' /\ LayerOK' /\ SeenOK'
  BY <1>1, ProcessStep
<1>3. TxsOK' /\ CursorOK' /\ RowsOK' /\ PassedOK' /\ ProcessOK'
  BY <1>1, <1>2, TxsKept, CursorKept, RowsKept, PassedKept, ProcessKept DEF IndInv
<1>4. QueueOK'
  BY <1>1 DEF StartRound, QueueOK, enqueued, Pending
<1>5. SnapshotOK'
  <2>1. head \in Nat /\ finalized \in Nat /\ lag \in Nat
    BY RelayerSizes DEF IndInv, ChainOK, Heights
  <2>2. CASE snapshot' = NoSnapshot
    BY <1>1, <2>1, <2>2 DEF NoSnapshot, SnapshotOK
  <2>3. CASE snapshot' = [at |-> head, head |-> head - lag, finalized |-> finalized - lag,
                          available |-> available]
    BY <1>1, <2>1, <2>3 DEF SnapshotOK
  <2> QED BY <2>2, <2>3 DEF StartRound
<1> QED BY <1>2, <1>3, <1>4, <1>5 DEF IndInv

\* What the sender's steps leave alone.
LEMMA SenderStep ==
    ASSUME IndInv, UNCHANGED chainVars, UNCHANGED <<cursor, processVars>>,
           RowsMove \/ UNCHANGED row, snapshot' \in {snapshot, NoSnapshot}
    PROVE  /\ Grows /\ ChainOK' /\ PostedOK' /\ LayerOK' /\ SeenOK' /\ CursorOK'
           /\ RowsOK' /\ PassedOK' /\ ProcessOK' /\ SnapshotOK' /\ enqueued' = enqueued
           /\ \A j \in enqueued : row'[j].id = row[j].id
<1> USE DEF chainVars, bscVars, anchorVars, layerVars
<1>1. Grows /\ ChainOK' /\ PostedOK' /\ LayerOK' /\ SeenOK'
  BY ProcessStep
<1>2. CursorOK' /\ ProcessOK'
  BY <1>1, CursorKept, ProcessKept DEF IndInv
<1>3. /\ RowsOK' /\ PassedOK' /\ enqueued' = enqueued
      /\ \A j \in enqueued : row'[j].id = row[j].id
  <2>1. CASE RowsMove
    BY <2>1, RowsMoveKeeps, PassedMoves DEF IndInv, RowsMove, enqueued
  <2>2. CASE UNCHANGED row
    BY <1>1, <2>2, RowsKept, PassedKept DEF IndInv, enqueued
  <2> QED BY <2>1, <2>2
<1>4. SnapshotOK'
  <2>1. CASE snapshot' = snapshot
    BY <1>1, <2>1, SnapshotKept DEF IndInv
  <2>2. CASE snapshot' = NoSnapshot
    <3>1. head' \in Nat /\ finalized' \in Nat
      BY RelayerSizes, <1>1 DEF ChainOK, Heights
    <3> QED BY <2>2, <3>1 DEF NoSnapshot, SnapshotOK
  <2> QED BY <2>1, <2>2
<1> QED BY <1>1, <1>2, <1>3, <1>4

\* A round that goes on to its next row, or ends, has picked none.
LEMMA RestedQueue ==
    ASSUME QueueOK, enqueued' = enqueued, todo' \subseteq todo, step' = "next"
    PROVE  QueueOK'
BY DEF QueueOK

LEMMA LeavesKeeps ==
    ASSUME IndInv, todo # {}, NEW s \in Statuses, NEW n \in 0..MAX_ATTEMPTS, Leaves(s, n),
           s = "confirmed" => WasDone(current),
           txs' = txs \/ txs' = [txs EXCEPT ![current] = "none"]
    PROVE  IndInv'
<1> USE DEF chainVars, bscVars, anchorVars, layerVars
<1>1. UNCHANGED chainVars /\ UNCHANGED <<cursor, processVars>> /\ NextJob
  BY DEF Leaves
<1>2. Grows
  BY <1>1, ProcessStep
<1>3. current \in enqueued /\ current \in Jobs
  BY CurrentRow
<1>4. RowsMove
  <2>1. PICK j \in enqueued : j = current
    BY <1>3
  <2>2. j \in Jobs /\ s = "confirmed" => WasDone(j)'
    BY <1>2, <2>1 DEF Grows
  <2>3. row' = [row EXCEPT ![j] = [@ EXCEPT !.status = s, !.attempts = n]]
    BY <2>1 DEF Leaves
  <2> QED BY <1>2, <1>3, <2>1, <2>2, <2>3, RowChanges DEF IndInv
<1>5. snapshot' \in {snapshot, NoSnapshot} /\ todo' \subseteq todo /\ step' = "next"
  BY <1>1 DEF NextJob
<1>6. TxsOK'
  <2>1. CASE txs' = txs
    BY <1>2, <2>1, TxsKept DEF IndInv
  <2>2. CASE txs' = [txs EXCEPT ![current] = "none"]
    <3>1. txs' \in [Jobs -> {"none", "pending", "ok", "reverted"}]
      BY <2>2 DEF IndInv, TxsOK
    <3>2. \A i \in Jobs : txs'[i] \in {"pending", "ok"} => txs'[i] = txs[i]
      BY <2>2 DEF IndInv, TxsOK
    <3>3. \A i \in Credits : i \in Jobs /\ JobKey(i) \in Keys
      BY JobForms DEF Credits
    <3> QED BY <1>2, <3>1, <3>2, <3>3 DEF IndInv, TxsOK, Grows
  <2> QED BY <2>1, <2>2
<1>7. /\ ChainOK' /\ PostedOK' /\ LayerOK' /\ SeenOK' /\ CursorOK'
      /\ RowsOK' /\ PassedOK' /\ ProcessOK' /\ SnapshotOK' /\ enqueued' = enqueued
  BY <1>1, <1>4, <1>5, SenderStep
<1>8. QueueOK'
  BY <1>5, <1>7, RestedQueue DEF IndInv
<1> QED BY <1>6, <1>7, <1>8 DEF IndInv

\* A row is picked when its deposit was read where it was found, and what made it ready keeps a
\* reorganisation away: finality, or a depth beyond all of them.
LEMMA PickedIsVouched ==
    ASSUME IndInv, PickJob, current \in Credits
    PROVE  Vouched(JobKey(current))
<1> DEFINE d == current.deposit
           src == row[current].src
<1>1. todo # {} /\ Ready(current) /\ SourceStands(current)
  BY DEF PickJob, At
<1>2. current \in enqueued /\ current \in Jobs
  BY <1>1, CurrentRow
<1>3. current.kind = "credit" /\ JobKey(current) \in Keys
  BY JobForms
<1>4. mined[d] = src /\ src.block # 0 /\ src.index = current.index
  BY <1>1, <1>2, <1>3 DEF SourceStands, IndInv, RowsOK
<1>5. CreditReady(current)
  BY <1>1, <1>3 DEF Ready
<1>6. /\ src.block \in Nat /\ head \in Nat /\ finalized \in Nat
      /\ snapshot.head \in Int /\ snapshot.finalized \in Int
      /\ snapshot.head <= head /\ snapshot.finalized <= finalized /\ FALLBACK_DEPTH \in Nat
  BY <1>2, RelayerSizes DEF IndInv, RowsOK, Rows, Heights, ChainOK, SnapshotOK
<1>7. src.block <= finalized \/ head - src.block >= FALLBACK_DEPTH
  <2>1. CASE snapshot.available
    <3>1. snapshot.finalized >= src.block
      BY <1>5, <2>1 DEF CreditReady
    <3> QED BY <1>6, <3>1
  <2>2. CASE ~snapshot.available
    <3>1. snapshot.head - src.block >= FALLBACK_DEPTH
      BY <1>5, <2>2 DEF CreditReady
    <3> QED BY <1>6, <3>1
  <2> QED BY <2>1, <2>2
<1> QED BY <1>4, <1>7 DEF Vouched, JobKey

LEMMA PickKeeps ==
    ASSUME IndInv, PickJob
    PROVE  IndInv'
<1>1. UNCHANGED chainVars /\ UNCHANGED <<txs, cursor, row, processVars, snapshot, todo>>
  BY DEF PickJob, dbVars
<1>2. /\ Grows /\ ChainOK' /\ PostedOK' /\ LayerOK' /\ SeenOK' /\ CursorOK'
      /\ RowsOK' /\ PassedOK' /\ ProcessOK' /\ SnapshotOK' /\ enqueued' = enqueued
  BY <1>1, SenderStep
<1>3. TxsOK'
  BY <1>1, <1>2, TxsKept DEF IndInv
<1>4. QueueOK'
  <2>1. todo # {}
    BY DEF PickJob, At
  <2>2. ASSUME NEW j \in Credits, First(j)' PROVE Vouched(JobKey(j))'
    <3>1. j = current
      BY <1>1, <2>1, <2>2, CurrentRow DEF First
    <3>2. Vouched(JobKey(j)) /\ JobKey(j) \in Keys
      BY <2>2, <3>1, PickedIsVouched, JobForms
    <3> QED BY <1>2, <3>2 DEF Grows
  <2> QED BY <1>1, <1>2, <2>2 DEF QueueOK, IndInv, PickJob
<1> QED BY <1>2, <1>3, <1>4 DEF IndInv

\* A row that was picked stays vouched for while it is sent and awaited.
LEMMA SendingKeeps ==
    ASSUME IndInv, UNCHANGED chainVars, UNCHANGED <<cursor, processVars, snapshot, todo>>,
           RowsMove \/ UNCHANGED row, TxsOK',
           step' \in {"next", "send", "wait"}, step' # "next" => step # "next"
    PROVE  IndInv'
<1>1. /\ Grows /\ ChainOK' /\ PostedOK' /\ LayerOK' /\ SeenOK' /\ CursorOK'
      /\ RowsOK' /\ PassedOK' /\ ProcessOK' /\ SnapshotOK' /\ enqueued' = enqueued
      /\ \A j \in enqueued : row'[j].id = row[j].id
  BY SenderStep
<1>2. QueueOK'
  BY <1>1, QueueGrows DEF IndInv
<1> QED BY <1>1, <1>2 DEF IndInv

\* The transaction of the row that was picked is out.
LEMMA SentIsVouched ==
    ASSUME IndInv, UNCHANGED chainVars, todo # {}, step = "send",
           txs' = [txs EXCEPT ![current] = "pending"]
    PROVE  TxsOK'
<1>1. Grows
  BY ProcessStep
<1>2. First(current) /\ current \in Jobs
  BY CurrentRow
<1>3. txs' \in [Jobs -> {"none", "pending", "ok", "reverted"}]
  BY DEF IndInv, TxsOK
<1>4. ASSUME NEW j \in Credits, txs'[j] = "pending" PROVE Vouched(JobKey(j))'
  <2>1. j \in Jobs /\ JobKey(j) \in Keys
    BY JobForms DEF Credits
  <2>2. CASE j = current
    BY <1>1, <1>2, <2>1, <2>2 DEF IndInv, QueueOK, Grows
  <2>3. CASE j # current
    BY <1>1, <1>4, <2>1, <2>3 DEF IndInv, TxsOK, Grows
  <2> QED BY <2>2, <2>3
<1>5. ASSUME NEW j \in Jobs, txs'[j] = "ok" PROVE WasDone(j)'
  BY <1>1, <1>5 DEF IndInv, TxsOK, Grows
<1> QED BY <1>3, <1>4, <1>5 DEF TxsOK

LEMMA SendTxKeeps ==
    ASSUME IndInv, SendTx
    PROVE  IndInv'
<1>1. /\ UNCHANGED chainVars /\ UNCHANGED <<cursor, processVars, snapshot, todo>>
      /\ todo # {} /\ step = "send" /\ step' = "wait" /\ attempts < MAX_ATTEMPTS
      /\ txs' = [txs EXCEPT ![current] = "pending"]
      /\ row' = [row EXCEPT ![current] = [@ EXCEPT !.status = "sent", !.attempts = attempts + 1]]
  BY DEF SendTx, At
<1>2. TxsOK'
  BY <1>1, SentIsVouched
<1>3. current \in enqueued /\ attempts + 1 \in 0..MAX_ATTEMPTS
  BY <1>1, CurrentRow
<1>4. RowsMove
  <2>1. PICK j \in enqueued : j = current
    BY <1>3
  <2>2. PICK n \in 0..MAX_ATTEMPTS : n = attempts + 1
    BY <1>3
  <2>3. row' = [row EXCEPT ![j] = [@ EXCEPT !.status = "sent", !.attempts = n]]
    BY <1>1, <2>1, <2>2
  <2>4. Grows /\ "sent" \in Statuses
    BY <1>1, ProcessStep DEF Statuses
  <2> QED BY <2>3, <2>4, RowChanges DEF IndInv
<1> QED BY <1>1, <1>2, <1>4, SendingKeeps

LEMMA SendDiesKeeps ==
    ASSUME IndInv, SendDies
    PROVE  IndInv'
<1> USE DEF chainVars, bscVars, anchorVars, layerVars, dbVars
<1>1. UNCHANGED chainVars /\ UNCHANGED dbVars /\ Dies
  BY DEF SendDies
<1>2. TxsOK'
  BY SentIsVouched DEF SendDies, At
<1>3. Grows /\ ChainOK' /\ PostedOK' /\ LayerOK' /\ SeenOK'
  BY <1>1, ProcessStep
<1>4. ProcessOK' /\ QueueOK' /\ SnapshotOK'
  BY <1>1, DeathKeeps
<1> QED BY <1>1, <1>2, <1>3, <1>4, CursorKept, RowsKept, PassedKept DEF IndInv

LEMMA CrashKeeps ==
    ASSUME IndInv, Crash
    PROVE  IndInv'
<1> USE DEF chainVars, bscVars, anchorVars, layerVars, dbVars
<1>1. UNCHANGED chainVars /\ UNCHANGED <<txs, dbVars>> /\ Dies
  BY DEF Crash
<1>2. Grows /\ ChainOK' /\ PostedOK' /\ LayerOK' /\ SeenOK'
  BY <1>1, ProcessStep
<1>3. ProcessOK' /\ QueueOK' /\ SnapshotOK'
  BY <1>1, DeathKeeps
<1> QED BY <1>1, <1>2, <1>3, TxsKept, CursorKept, RowsKept, PassedKept DEF IndInv

\* A restart only closes what is done.
LEMMA ResumeKeeps ==
    ASSUME IndInv, Resume
    PROVE  IndInv'
<1>1. /\ UNCHANGED chainVars /\ UNCHANGED <<txs, cursor, crashes, senderVars>> /\ alive' = TRUE
      /\ row' = [j \in Jobs |-> IF row[j].status = "sent" THEN [row[j] EXCEPT !.status = Resumed(j)]
                                ELSE row[j]]
  BY DEF Resume
<1>2. Grows /\ ChainOK' /\ PostedOK' /\ LayerOK' /\ SeenOK'
  BY <1>1, ProcessStep
<1>3. RowsMove
  <2>1. ASSUME NEW j \in Jobs
        PROVE  /\ row'[j] \in Rows /\ row'[j].id = row[j].id /\ row'[j].src = row[j].src
               /\ row'[j].status = "none" <=> row[j].status = "none"
               /\ row'[j].status = "confirmed" => WasDone(j)'
    <3>1. row[j] \in Rows
      BY DEF IndInv, RowsOK
    <3>2. CASE row[j].status # "sent"
      BY <1>1, <1>2, <3>1, <3>2 DEF IndInv, RowsOK, Grows
    <3>3. CASE row[j].status = "sent"
      <4>1. row'[j] = [row[j] EXCEPT !.status = Resumed(j)]
        BY <1>1, <3>3
      <4>2. /\ Resumed(j) \in {"confirmed", "new"}
            /\ Resumed(j) = "confirmed" => WasDone(j)
        BY DEF Resumed, WasDone
      <4>3. /\ row'[j] \in Rows /\ row'[j].id = row[j].id /\ row'[j].src = row[j].src
            /\ row'[j].status = Resumed(j)
        BY <3>1, <4>1, <4>2 DEF Rows
      <4> QED BY <1>2, <3>3, <4>2, <4>3 DEF Grows
    <3> QED BY <3>2, <3>3
  <2> QED BY <1>1, <2>1 DEF RowsMove
<1>4. /\ RowsOK' /\ PassedOK' /\ enqueued' = enqueued
      /\ \A j \in enqueued : row'[j].id = row[j].id
  <2> USE DEF chainVars, bscVars
  <2> QED BY <1>1, <1>3, RowsMoveKeeps, PassedMoves DEF IndInv, RowsMove, enqueued
<1>5. QueueOK'
  BY <1>1, <1>2, <1>4, QueueGrows DEF IndInv, senderVars, QueueOK
<1>6. TxsOK' /\ CursorOK' /\ SnapshotOK'
  BY <1>1, <1>2, TxsKept, CursorKept, SnapshotKept DEF IndInv, senderVars
<1>7. ProcessOK'
  BY <1>1 DEF IndInv, ProcessOK
<1> QED BY <1>2, <1>4, <1>5, <1>6, <1>7 DEF IndInv

\* A row leaves the round as confirmed only when it is done.
LEMMA LeaversKeep ==
    ASSUME IndInv, ConfirmDone \/ Orphan \/ GiveUp \/ AwaitMined
    PROVE  IndInv'
<1>1. /\ todo # {} /\ attempts \in 0..MAX_ATTEMPTS /\ current \in Jobs
  <2>1. todo # {}
    BY DEF ConfirmDone, Orphan, GiveUp, AwaitMined, At
  <2> QED BY <2>1, CurrentRow
<1>2. /\ txs' = txs \/ txs' = [txs EXCEPT ![current] = "none"]
      /\ \E s \in Statuses : Leaves(s, attempts) /\ (s = "confirmed" => WasDone(current))
  <2>1. CASE ConfirmDone
    BY <2>1 DEF ConfirmDone, Statuses, WasDone
  <2>2. CASE Orphan
    BY <2>2 DEF Orphan, Statuses
  <2>3. CASE GiveUp
    <3>1. CASE AlreadyDone(current)
      BY <2>3, <3>1 DEF GiveUp, Statuses, WasDone
    <3>2. CASE ~AlreadyDone(current)
      BY <2>3, <3>2 DEF GiveUp, Statuses
    <3> QED BY <3>1, <3>2
  <2>4. CASE AwaitMined
    <3>1. txs[current] = "ok" => WasDone(current)
      BY <1>1 DEF IndInv, TxsOK
    <3>2. CASE txs[current] = "ok" \/ AlreadyDone(current)
      BY <2>4, <3>1, <3>2 DEF AwaitMined, Statuses, WasDone
    <3>3. CASE ~(txs[current] = "ok" \/ AlreadyDone(current))
      BY <2>4, <3>3 DEF AwaitMined, Statuses
    <3> QED BY <3>2, <3>3, <2>4 DEF AwaitMined
  <2> QED BY <2>1, <2>2, <2>3, <2>4
<1> QED BY <1>1, <1>2, LeavesKeeps

LEMMA RefusedKeeps ==
    ASSUME IndInv, SendRefused
    PROVE  IndInv'
<1>1. /\ todo # {} /\ current \in enqueued /\ attempts + 1 \in 0..MAX_ATTEMPTS
  <2>1. todo # {} /\ attempts < MAX_ATTEMPTS
    BY DEF SendRefused, At
  <2> QED BY <2>1, CurrentRow
<1>2. CASE AlreadyDone(current)
  <2>1. Leaves("confirmed", attempts + 1) /\ txs' = txs /\ "confirmed" \in Statuses
    BY <1>2 DEF SendRefused, Statuses
  <2> QED BY <1>1, <1>2, <2>1, LeavesKeeps DEF WasDone
<1>3. CASE ~AlreadyDone(current)
  <2>1. /\ UNCHANGED chainVars /\ UNCHANGED <<cursor, processVars, snapshot, todo, step, txs>>
        /\ row' = [row EXCEPT ![current] = [@ EXCEPT !.status = "new", !.attempts = attempts + 1]]
    BY <1>3 DEF SendRefused, senderVars
  <2>2. Grows
    BY <2>1, ProcessStep
  <2>3. RowsMove
    <3>1. PICK j \in enqueued : j = current
      BY <1>1
    <3>2. PICK n \in 0..MAX_ATTEMPTS : n = attempts + 1
      BY <1>1
    <3>3. row' = [row EXCEPT ![j] = [@ EXCEPT !.status = "new", !.attempts = n]] /\ "new" \in Statuses
      BY <2>1, <3>1, <3>2 DEF Statuses
    <3> QED BY <2>2, <3>3, RowChanges DEF IndInv
  <2>4. TxsOK' /\ step' \in {"next", "send", "wait"}
    BY <2>1, <2>2, TxsKept DEF IndInv, QueueOK
  <2> QED BY <2>1, <2>3, <2>4, SendingKeeps
<1> QED BY <1>2, <1>3

\* Steps that only move the round: to the next row, to its end, or to the next attempt.
LEMMA MovesKeep ==
    ASSUME IndInv, HaltSending \/ SkipJob \/ AwaitTimeout \/ RoundBreaks
    PROVE  IndInv'
<1>1. /\ UNCHANGED chainVars /\ UNCHANGED <<cursor, row, processVars, txs>>
      /\ snapshot' \in {snapshot, NoSnapshot}
  BY DEF HaltSending, SkipJob, AwaitTimeout, RoundBreaks, NextJob, dbVars
<1>2. /\ Grows /\ ChainOK' /\ PostedOK' /\ LayerOK' /\ SeenOK' /\ CursorOK'
      /\ RowsOK' /\ PassedOK' /\ ProcessOK' /\ SnapshotOK' /\ enqueued' = enqueued
  BY <1>1, SenderStep
<1>3. TxsOK'
  BY <1>1, <1>2, TxsKept DEF IndInv
<1>4. QueueOK'
  <2>1. CASE AwaitTimeout
    <3>1. step' = "send" /\ step = "wait" /\ todo' = todo
      BY <2>1 DEF AwaitTimeout, At
    <3> QED BY <1>1, <1>2, <3>1, QueueGrows DEF IndInv
  <2>2. CASE HaltSending \/ SkipJob \/ RoundBreaks
    <3>1. step' = "next" /\ todo' \subseteq todo
      BY <2>2 DEF HaltSending, SkipJob, RoundBreaks, NextJob, At
    <3> QED BY <1>2, <3>1, RestedQueue DEF IndInv
  <2> QED BY <2>1, <2>2
<1> QED BY <1>2, <1>3, <1>4 DEF IndInv

LEMMA ProcessKeeps ==
    ASSUME IndInv, Process
    PROVE  IndInv'
<1>1. ASSUME Sender PROVE IndInv'
  BY <1>1, LeaversKeep, MovesKeep, PickKeeps, SendTxKeeps, RefusedKeeps DEF Sender
<1> QED
  BY <1>1, CrashKeeps, ResumeKeeps, ScanKeeps, AnchorOnceKeeps, StartRoundKeeps, SendDiesKeeps,
     MovesKeep DEF Process

-----------------------------------------------------------------------------
(* The invariant *)

LEMMA InitEstablishes ==
    ASSUME Init
    PROVE  IndInv
<1>1. /\ 0 \in Heights /\ 0 \in 0..MaxFaults /\ 0 \in Nat /\ 0 \in 0..1 /\ 0 \in 0..MAX_ATTEMPTS
      /\ 1 \in Epochs
  BY RelayerSizes DEF Heights, Epochs
<1>2. NotMined \in [block : Heights, fork : Nat, index : 0..1]
  BY <1>1 DEF NotMined
<1>3. ChainOK /\ PostedOK /\ LayerOK /\ ProcessOK /\ SeenOK /\ CursorOK
  BY <1>1, <1>2 DEF Init, ChainOK, PostedOK, LayerOK, ProcessOK, SeenOK, CursorOK
<1>4. TxsOK
  BY DEF Init, TxsOK, Credits
<1>5. enqueued = {} /\ \A j \in Jobs : row[j] = NoRow
  BY DEF Init, enqueued, NoRow
<1>6. RowsOK
  <2>1. NoRow \in Rows /\ NoRow.status = "none"
    BY <1>1, <1>2 DEF NoRow, Rows
  <2> QED BY <1>5, <2>1 DEF Init, RowsOK
<1>7. PassedOK
  BY DEF Init, PassedOK, CursorLeavesNothingBehind, isMined, NotMined
<1>8. QueueOK
  BY DEF Init, QueueOK
<1>9. SnapshotOK
  BY DEF Init, SnapshotOK, NoSnapshot
<1> QED BY <1>3, <1>4, <1>6, <1>7, <1>8, <1>9 DEF IndInv

\* The inductive invariant holds in every reachable state.
THEOREM Invariance == Spec => []IndInv
<1>1. Init => IndInv
  BY InitEstablishes
<1>2. IndInv /\ [Next]_vars => IndInv'
  <2> SUFFICES ASSUME IndInv, [Next]_vars PROVE IndInv'
    OBVIOUS
  <2>1. CASE Next
    BY <2>1, ChainsKeep, ProcessKeeps DEF Next
  <2>2. CASE UNCHANGED vars
    <3> USE DEF vars, chainVars, bscVars, anchorVars, layerVars, dbVars, senderVars
    <3>1. Grows /\ ChainOK' /\ PostedOK' /\ LayerOK' /\ SeenOK'
      BY <2>2, ProcessStep
    <3> QED
      BY <2>2, <3>1, TxsKept, CursorKept, RowsKept, PassedKept, ProcessKept, QueueKept, SnapshotKept
         DEF IndInv
  <2> QED BY <2>1, <2>2
<1> QED BY <1>1, <1>2, PTL DEF Spec

-----------------------------------------------------------------------------
(* The theorems *)

\* Every variable keeps its type, the rows of the outbox their ids, and the round of the sender its
\* place among them.
THEOREM TypeCorrect == Spec => []TypeOK
<1>1. IndInv => TypeOK
  BY DEF IndInv, ChainOK, PostedOK, LayerOK, SeenOK, CursorOK, RowsOK, ProcessOK, QueueOK, TypeOK
<1> QED BY <1>1, Invariance, PTL

\* What the layer credited keeps its deposit on BSC, whatever reorganisations, deaths, resends,
\* lagging nodes and outages happen before, between and after.
THEOREM CreditsKeepTheirDeposit == Spec => []CreditsHaveTheirDeposit
<1>1. IndInv => CreditsHaveTheirDeposit
  <2> SUFFICES ASSUME IndInv, NEW k \in seen PROVE isMined(k.deposit) /\ KeyOf(k.deposit) = k
    BY DEF CreditsHaveTheirDeposit
  <2>1. k \in Keys /\ Vouched(k)
    BY DEF IndInv, SeenOK
  <2>2. k = [deposit |-> k.deposit, index |-> k.index]
    BY <2>1 DEF Keys
  <2> QED BY <2>1, <2>2 DEF Vouched, isMined, KeyOf
<1> QED BY <1>1, Invariance, PTL

\* No row is closed as confirmed before its effect is on the chain; only a reorganisation of BSC takes
\* the anchor of a confirmed row away again.
THEOREM ConfirmedRowsAreDone == Spec => []ConfirmedIsDone
<1>1. IndInv => ConfirmedIsDone
  BY DEF IndInv, RowsOK, ConfirmedIsDone
<1> QED BY <1>1, Invariance, PTL

\* A death between the two writes of a scan loses no deposit.
THEOREM NothingLeftBehind == Spec => []CursorLeavesNothingBehind
<1>1. IndInv => CursorLeavesNothingBehind
  BY DEF IndInv, PassedOK
<1> QED BY <1>1, Invariance, PTL

-----------------------------------------------------------------------------
(* Anchors: with a layer node that shows all of an epoch, an anchor reports all of it *)

\* What is reported of an epoch is everything that came in and went out of it.
Covers(report, credited, exited) == report.credited >= credited /\ report.exits >= exited
AnchorCovers(e) == e < epoch /\ Covers(anchors[e].report, creditedIn[e], exitedIn[e])
PostedCovers(e) == e < epoch /\ Covers(posted[e], creditedIn[e], exitedIn[e])

Reports == [credited : Nat, exits : Nat]
AnchorRows == [Epochs -> [state : {"none", "new", "posted"}, report : Reports]]
LedgerOK == creditedIn \in [Epochs -> Nat] /\ exitedIn \in [Epochs -> Nat]

\* An anchor is assembled when its epoch is over, and a job, a transaction or an anchor on BSC comes
\* from an assembled one.
CoverInv ==
    /\ LedgerOK /\ anchors \in AnchorRows
    /\ \A e \in Epochs : anchors[e].state # "none" => AnchorCovers(e)
    /\ \A e \in Epochs : anchorState[e] # "NONE" => PostedCovers(e) /\ anchors[e].state # "none"
    /\ \A e \in Epochs : row[AnchorJob(e)].status # "none" \/ txs[AnchorJob(e)] # "none"
                            => anchors[e].state # "none"

\* What is over stays as it is.
LedgerMoves ==
    /\ LedgerOK' /\ epoch' \in Nat /\ epoch <= epoch'
    /\ \A e \in Epochs : e < epoch => creditedIn'[e] = creditedIn[e] /\ exitedIn'[e] = exitedIn[e]

AnchorsMove ==
    /\ anchors' \in AnchorRows
    /\ \A e \in Epochs : /\ anchors'[e].report = anchors[e].report
                         /\ anchors'[e].state = "none" <=> anchors[e].state = "none"

PostedMoves ==
    \A e \in Epochs : anchorState'[e] # "NONE" =>
        \/ anchorState[e] # "NONE" /\ posted'[e] = posted[e]
        \/ anchors[e].state # "none" /\ posted'[e] = anchors[e].report

JobsMove ==
    \A e \in Epochs :
        /\ row'[AnchorJob(e)].status # "none" =>
              row[AnchorJob(e)].status # "none" \/ anchors[e].state # "none"
        /\ txs'[AnchorJob(e)] # "none" => txs[AnchorJob(e)] # "none" \/ anchors[e].state # "none"

LEMMA CoverMoves ==
    ASSUME CoverInv, LayerOK, LedgerMoves, AnchorsMove, PostedMoves, JobsMove
    PROVE  CoverInv'
<1>1. epoch \in Nat /\ epoch' \in Nat /\ epoch <= epoch' /\ Epochs \subseteq Nat
  BY DEF LayerOK, LedgerMoves, Epochs
<1>2. ASSUME NEW e \in Epochs, anchors'[e].state # "none" PROVE AnchorCovers(e)'
  <2>1. anchors[e].state # "none" /\ anchors'[e].report = anchors[e].report
    BY <1>2 DEF AnchorsMove
  <2>2. AnchorCovers(e)
    BY <2>1 DEF CoverInv
  <2>3. creditedIn'[e] = creditedIn[e] /\ exitedIn'[e] = exitedIn[e]
    BY <2>2 DEF LedgerMoves, AnchorCovers
  <2>4. e < epoch'
    BY <1>1, <2>2 DEF AnchorCovers
  <2> QED BY <2>1, <2>2, <2>3, <2>4 DEF AnchorCovers
<1>3. ASSUME NEW e \in Epochs, anchorState'[e] # "NONE" PROVE PostedCovers(e)' /\ anchors'[e].state # "none"
  <2>1. PICK report : e < epoch /\ Covers(report, creditedIn[e], exitedIn[e]) /\ posted'[e] = report
    <3>1. CASE anchorState[e] # "NONE" /\ posted'[e] = posted[e]
      BY <3>1 DEF CoverInv, PostedCovers
    <3>2. CASE anchors[e].state # "none" /\ posted'[e] = anchors[e].report
      BY <3>2 DEF CoverInv, AnchorCovers
    <3> QED BY <1>3, <3>1, <3>2 DEF PostedMoves
  <2>2. creditedIn'[e] = creditedIn[e] /\ exitedIn'[e] = exitedIn[e]
    BY <2>1 DEF LedgerMoves
  <2>3. e < epoch'
    BY <1>1, <2>1
  <2>4. anchors'[e].state # "none"
    BY <1>3 DEF PostedMoves, CoverInv, AnchorsMove
  <2> QED BY <2>1, <2>2, <2>3, <2>4 DEF PostedCovers
<1>4. ASSUME NEW e \in Epochs, row'[AnchorJob(e)].status # "none" \/ txs'[AnchorJob(e)] # "none"
      PROVE  anchors'[e].state # "none"
  BY <1>4 DEF JobsMove, CoverInv, AnchorsMove
<1> QED BY <1>2, <1>3, <1>4 DEF CoverInv, LedgerMoves, AnchorsMove

LEMMA LedgerStays ==
    ASSUME CoverInv, LayerOK, UNCHANGED layerVars PROVE LedgerMoves
BY DEF CoverInv, LayerOK, Epochs, LedgerMoves, LedgerOK, layerVars

LEMMA AnchorsStay == ASSUME CoverInv, UNCHANGED anchors PROVE AnchorsMove
BY DEF CoverInv, AnchorsMove

LEMMA PostedStays == ASSUME UNCHANGED <<anchorState, posted>> PROVE PostedMoves
BY DEF PostedMoves

LEMMA JobsStay == ASSUME UNCHANGED <<row, txs>> PROVE JobsMove
BY DEF JobsMove

\* One transaction is sent, mined or lost.
LEMMA TxMoves ==
    ASSUME CoverInv, TxsOK, UNCHANGED row, NEW j \in Jobs, NEW s, txs' = [txs EXCEPT ![j] = s],
           s # "none" => txs[j] # "none" \/ row[j].status # "none"
    PROVE  JobsMove
<1> SUFFICES ASSUME NEW e \in Epochs
             PROVE  txs'[AnchorJob(e)] # "none" => txs[AnchorJob(e)] # "none" \/ anchors[e].state # "none"
  BY DEF JobsMove
<1>1. AnchorJob(e) \in Jobs
  BY JobForms
<1>2. txs'[AnchorJob(e)] = IF AnchorJob(e) = j THEN s ELSE txs[AnchorJob(e)]
  BY <1>1 DEF TxsOK
<1> QED BY <1>2 DEF CoverInv

LEMMA PostedIfMoves ==
    ASSUME CoverInv, NEW j \in Jobs, NEW s, anchors' = PostedIf(j, s),
           j.kind = "anchor" => row[j].status # "none"
    PROVE  AnchorsMove
<1>1. CASE j.kind = "anchor" /\ s = "confirmed"
  <2>1. j.epoch \in Epochs /\ j = AnchorJob(j.epoch)
    BY <1>1, JobForms DEF Credits
  <2>2. anchors[j.epoch].state # "none" /\ anchors \in AnchorRows
    BY <1>1, <2>1 DEF CoverInv
  <2> DEFINE q == [anchors[j.epoch] EXCEPT !.state = "posted"]
  <2>3. anchors' = [anchors EXCEPT ![j.epoch] = q]
    BY <1>1 DEF PostedIf
  <2>4. /\ q \in [state : {"none", "new", "posted"}, report : Reports]
        /\ q.report = anchors[j.epoch].report /\ q.state # "none"
    BY <2>1, <2>2 DEF AnchorRows
  <2> HIDE DEF q
  <2>5. anchors' \in AnchorRows /\ \A e \in Epochs : anchors'[e] = IF e = j.epoch THEN q ELSE anchors[e]
    BY <2>1, <2>2, <2>3, <2>4 DEF AnchorRows
  <2> QED BY <2>2, <2>4, <2>5 DEF AnchorsMove
<1>2. CASE ~(j.kind = "anchor" /\ s = "confirmed")
  BY <1>2, AnchorsStay DEF PostedIf
<1> QED BY <1>1, <1>2

-----------------------------------------------------------------------------
(* The steps of the two chains *)

LEMMA CoverResolved ==
    ASSUME IndInv, CoverInv, NEW e \in Epochs, NEW verdict \in Verdicts, AnchorResolved(e, verdict)
    PROVE  CoverInv'
<1>1. /\ anchorState[e] = "POSTED" /\ anchorState' = [anchorState EXCEPT ![e] = verdict]
      /\ UNCHANGED <<posted, layerVars, txs, row, anchors>>
  BY DEF AnchorResolved, dbVars
<1>2. PostedMoves
  BY <1>1 DEF PostedMoves, IndInv, PostedOK
<1> QED BY <1>1, <1>2, LedgerStays, AnchorsStay, JobsStay, CoverMoves DEF IndInv

LEMMA CoverLedger ==
    ASSUME IndInv, CoverInv, EpochEnds \/ LayerExit \/ (\E k \in Keys : CreditMined(k))
    PROVE  CoverInv'
<1>1. /\ epoch \in Epochs /\ epoch \in Nat /\ LedgerOK /\ Epochs \subseteq Nat
  BY DEF IndInv, LayerOK, Epochs, CoverInv
<1>2. UNCHANGED <<anchorState, posted, anchors, row>>
  BY DEF EpochEnds, LayerExit, CreditMined, anchorVars, dbVars
<1>3. LedgerMoves
  <2>1. CASE EpochEnds
    BY <2>1, <1>1 DEF EpochEnds, LedgerMoves, LedgerOK
  <2>2. CASE LayerExit
    <3>1. exitedIn' = [exitedIn EXCEPT ![epoch] = @ + 1] /\ creditedIn' = creditedIn /\ epoch' = epoch
      BY <2>2 DEF LayerExit
    <3>2. /\ exitedIn' \in [Epochs -> Nat] /\ \A e \in Epochs : e # epoch => exitedIn'[e] = exitedIn[e]
      BY <1>1, <3>1 DEF LedgerOK
    <3>3. \A e \in Epochs : e < epoch => e # epoch
      BY <1>1
    <3> QED BY <1>1, <3>1, <3>2, <3>3 DEF LedgerMoves, LedgerOK
  <2>3. ASSUME NEW k \in Keys, CreditMined(k) PROVE LedgerMoves
    <3>1. /\ creditedIn' = creditedIn \/ creditedIn' = [creditedIn EXCEPT ![epoch] = @ + 1]
          /\ exitedIn' = exitedIn /\ epoch' = epoch
      BY <2>3 DEF CreditMined
    <3>2. /\ creditedIn' \in [Epochs -> Nat]
          /\ \A e \in Epochs : e # epoch => creditedIn'[e] = creditedIn[e]
      BY <1>1, <3>1 DEF LedgerOK
    <3>3. \A e \in Epochs : e < epoch => e # epoch
      BY <1>1
    <3> QED BY <1>1, <3>1, <3>2, <3>3 DEF LedgerMoves, LedgerOK
  <2> QED BY <2>1, <2>2, <2>3
<1>4. JobsMove
  <2>1. CASE EpochEnds \/ LayerExit
    BY <2>1, JobsStay DEF EpochEnds, LayerExit, dbVars
  <2>2. ASSUME NEW k \in Keys, CreditMined(k) PROVE JobsMove
    <3>1. PICK s \in {"ok", "reverted"} : txs' = [txs EXCEPT ![Credit(k)] = s]
      BY <2>2 DEF CreditMined
    <3>2. Credit(k) \in Jobs /\ txs[Credit(k)] = "pending"
      BY <2>2, JobForms DEF CreditMined
    <3> QED BY <1>2, <3>1, <3>2, TxMoves DEF IndInv
  <2> QED BY <2>1, <2>2
<1> QED BY <1>2, <1>3, <1>4, AnchorsStay, PostedStays, CoverMoves DEF IndInv

LEMMA CoverAnchorMined ==
    ASSUME IndInv, CoverInv, NEW e \in Epochs, AnchorMined(e), posted \in [Epochs -> Reports]
    PROVE  CoverInv' /\ posted' \in [Epochs -> Reports]
<1>1. /\ txs[AnchorJob(e)] = "pending" /\ UNCHANGED <<layerVars, row, anchors>>
      /\ \/ UNCHANGED <<anchorState, posted>>
         \/ /\ anchorState' = [anchorState EXCEPT ![e] = "POSTED"]
            /\ posted' = [posted EXCEPT ![e] = anchors[e].report]
  BY DEF AnchorMined, dbVars
<1>2. PICK s \in {"ok", "reverted"} : txs' = [txs EXCEPT ![AnchorJob(e)] = s]
  BY DEF AnchorMined
<1>3. AnchorJob(e) \in Jobs
  BY JobForms
<1>4. JobsMove
  BY <1>1, <1>2, <1>3, TxMoves DEF IndInv
<1>5. anchors[e].state # "none" /\ anchors[e].report \in Reports
  BY <1>1 DEF CoverInv, AnchorRows
<1>6. PostedMoves
  BY <1>1, <1>5 DEF PostedMoves, IndInv, PostedOK
<1>7. posted' \in [Epochs -> Reports]
  BY <1>1, <1>5
<1> QED BY <1>1, <1>4, <1>6, <1>7, LedgerStays, AnchorsStay, CoverMoves DEF IndInv

\* A reorganisation only takes anchors away, and sends back what had been sent.
LEMMA CoverReorg ==
    ASSUME IndInv, CoverInv, posted \in [Epochs -> Reports], NEW n, NEW S, Reorg(n, S)
    PROVE  CoverInv' /\ posted' \in [Epochs -> Reports]
<1> DEFINE unposted == UnpostedSince(head - n)
<1>1. AnchorsGoBack(head - n) /\ UNCHANGED layerVars /\ UNCHANGED <<row, anchors>>
  BY DEF Reorg, dbVars
<1>2. PostedMoves
  <2> SUFFICES ASSUME NEW e \in Epochs, anchorState'[e] # "NONE"
               PROVE  anchorState[e] # "NONE" /\ posted'[e] = posted[e]
    BY DEF PostedMoves
  <2>1. e \notin unposted
    BY <1>1 DEF AnchorsGoBack
  <2>2. anchorState[e] # "NONE"
    BY <1>1, <2>1 DEF AnchorsGoBack, UnresolvedSince, Unresolved
  <2> QED BY <1>1, <2>1, <2>2 DEF AnchorsGoBack
<1>3. JobsMove
  <2> SUFFICES ASSUME NEW e \in Epochs
               PROVE  txs'[AnchorJob(e)] # "none" => txs[AnchorJob(e)] # "none" \/ anchors[e].state # "none"
    BY <1>1 DEF JobsMove
  <2>1. AnchorJob(e) \in Jobs /\ AnchorJob(e).epoch = e
    BY JobForms DEF AnchorJob
  <2>2. e \in unposted => anchors[e].state # "none"
    BY DEF UnpostedSince, CoverInv
  <2>3. e \notin unposted => txs'[AnchorJob(e)] = txs[AnchorJob(e)]
    BY <2>1 DEF Reorg
  <2> QED BY <2>2, <2>3
<1>4. posted' \in [Epochs -> Reports]
  BY <1>1 DEF AnchorsGoBack, NoReport, Reports
<1> QED BY <1>1, <1>2, <1>3, <1>4, LedgerStays, AnchorsStay, CoverMoves DEF IndInv

LEMMA CoverChains ==
    ASSUME IndInv, CoverInv, posted \in [Epochs -> Reports], Chains
    PROVE  CoverInv' /\ posted' \in [Epochs -> Reports]
<1>1. CASE \/ \E S \in SUBSET Deposits : NewBlock(S)
           \/ FinalizeBlock
  <2>1. UNCHANGED <<anchorVars, layerVars, txs, dbVars>>
    BY <1>1 DEF NewBlock, FinalizeBlock
  <2>2. UNCHANGED <<anchorState, posted>> /\ UNCHANGED layerVars /\ UNCHANGED <<row, txs>> /\ UNCHANGED anchors
    BY <2>1 DEF anchorVars, dbVars
  <2> QED BY <2>2, LedgerStays, AnchorsStay, PostedStays, JobsStay, CoverMoves DEF IndInv
<1>2. ASSUME NEW j \in Jobs, TxLost(j) PROVE CoverInv' /\ posted' = posted
  <2>1. UNCHANGED <<anchorState, posted>> /\ UNCHANGED layerVars /\ UNCHANGED row /\ UNCHANGED anchors
    BY <1>2 DEF TxLost, chainVars, anchorVars, dbVars
  <2>2. JobsMove
    BY <1>2, <2>1, TxMoves DEF TxLost, IndInv
  <2> QED BY <2>1, <2>2, LedgerStays, AnchorsStay, PostedStays, CoverMoves DEF IndInv
<1>3. ASSUME EpochEnds \/ LayerExit \/ (\E k \in Keys : CreditMined(k)) PROVE CoverInv' /\ posted' = posted
  BY <1>3, CoverLedger DEF EpochEnds, LayerExit, CreditMined, anchorVars
<1>4. ASSUME NEW e \in Epochs, NEW verdict \in Verdicts, AnchorResolved(e, verdict)
      PROVE  CoverInv' /\ posted' = posted
  BY <1>4, CoverResolved DEF AnchorResolved
<1>5. ASSUME NEW n \in 1..REORG_DEPTH, NEW S \in SUBSET Deposits, Reorg(n, S)
      PROVE  CoverInv' /\ posted' \in [Epochs -> Reports]
  BY <1>5, CoverReorg
<1> QED BY <1>1, <1>2, <1>3, <1>4, <1>5, CoverAnchorMined DEF Chains

-----------------------------------------------------------------------------
(* The steps of the process *)

\* Nothing was ever called rejected, so there is nothing to carry, and a sum over nothing is zero.
LEMMA NothingCarried ==
    ASSUME CoverInv, NEW e \in Epochs, NEW f
    PROVE  Total(f, Carried(e)) = 0
<1>1. Carried(e) = {}
  BY DEF Carried, CoverInv, AnchorRows
<1>2. Total(f, {}) = 0
  <2> DEFINE Sum(g) == g = [s \in SUBSET {} |->
                              IF s = {} THEN 0
                              ELSE g[s \ {CHOOSE x \in s : TRUE}] + f[CHOOSE x \in s : TRUE]]
  <2>1. Total(f, {}) = (CHOOSE g : Sum(g))[{}]
    BY Zenon DEF Total, FoldSet, MapThenFoldSet
  <2>2. Sum([s \in SUBSET {} |-> 0])
    OBVIOUS
  <2>3. Sum(CHOOSE g : Sum(g))
    BY ONLY <2>2
  <2> DEFINE h == CHOOSE g : Sum(g)
  <2>4. h[{}] = 0
    <3>1. Sum(h)
      BY <2>3
    <3> HIDE DEF h
    <3> QED BY <3>1
  <2> QED BY <2>1, <2>4
<1> QED BY <1>1, <1>2

LEMMA CoverAnchorOnce ==
    ASSUME IndInv, CoverInv, LAYER_LAG = 0, NEW e \in Epochs, NEW unseen \in 0..LAYER_LAG,
           AnchorOnce(e, unseen) \/ AnchorDies(e, unseen)
    PROVE  CoverInv'
<1> DEFINE report == Assembled(e, unseen)
           q == [state |-> "new", report |-> report]
<1>1. /\ UNCHANGED <<anchorState, posted>> /\ UNCHANGED layerVars /\ UNCHANGED txs
      /\ AnchorDue(e) /\ PutAnchor(e, unseen)
  BY DEF AnchorOnce, AnchorDies, chainVars, anchorVars
<1>2. creditedIn[e] \in Nat /\ exitedIn[e] \in Nat /\ unseen = 0 /\ anchors \in AnchorRows
  BY DEF CoverInv, LedgerOK
<1>3. /\ Total([d \in Epochs |-> anchors[d].report.credited], Carried(e)) = 0
      /\ Total([d \in Epochs |-> anchors[d].report.exits], Carried(e)) = 0
  BY NothingCarried
<1>4. report.credited = creditedIn[e] /\ report.exits = exitedIn[e] /\ report \in Reports
  <2>1. creditedIn[e] - unseen + 0 = creditedIn[e] /\ exitedIn[e] + 0 = exitedIn[e]
    BY <1>2
  <2>2. report = [credited |-> creditedIn[e], exits |-> exitedIn[e]]
    BY <1>3, <2>1 DEF Assembled
  <2> QED BY <1>2, <2>2 DEF Reports
<1>5. anchors' = [anchors EXCEPT ![e] = q]
  BY <1>1 DEF PutAnchor
<1> HIDE DEF report
<1>6. q \in [state : {"none", "new", "posted"}, report : Reports] /\ q.state = "new" /\ q.report = report
  BY <1>4
<1> HIDE DEF q
<1>7. anchors' \in AnchorRows /\ \A f \in Epochs : anchors'[f] = IF f = e THEN q ELSE anchors[f]
  BY <1>2, <1>5, <1>6 DEF AnchorRows
<1>8. Covers(report, creditedIn[e], exitedIn[e]) /\ UNCHANGED <<epoch, creditedIn, exitedIn>>
  BY <1>1, <1>2, <1>4 DEF Covers, layerVars
<1>9. e < epoch
  BY <1>1 DEF AnchorDue, epochOver, IndInv, LayerOK, Epochs
<1>10. \A f \in Epochs : f # e => row'[AnchorJob(f)] = row[AnchorJob(f)]
  <2>1. CASE UNCHANGED row
    BY <2>1
  <2>2. CASE AnchorOnce(e, unseen)
    <3> SUFFICES ASSUME NEW f \in Epochs, f # e PROVE row'[AnchorJob(f)] = row[AnchorJob(f)]
      OBVIOUS
    <3>1. AnchorJob(f) \in Jobs /\ AnchorJob(f) # AnchorJob(e)
      BY JobForms DEF AnchorJob
    <3>2. Enqueue({AnchorJob(e)} \ {j \in Jobs : row[j].status # "none"})
      BY <2>2 DEF AnchorOnce
    <3> QED BY <3>1, <3>2 DEF Enqueue
  <2> QED BY <2>1, <2>2 DEF AnchorDies
<1>11. ASSUME NEW f \in Epochs
       PROVE  /\ anchors'[f].state # "none" => AnchorCovers(f)'
              /\ anchorState'[f] # "NONE" => PostedCovers(f)' /\ anchors'[f].state # "none"
              /\ row'[AnchorJob(f)].status # "none" \/ txs'[AnchorJob(f)] # "none"
                    => anchors'[f].state # "none"
  <2>1. anchorState'[f] # "NONE" => PostedCovers(f)'
    BY <1>1, <1>8 DEF CoverInv, PostedCovers
  <2>2. CASE f = e
    <3>1. anchors'[f].report = report /\ anchors'[f].state = "new"
      BY <1>6, <1>7, <2>2
    <3>2. AnchorCovers(f)'
      BY <1>8, <1>9, <2>2, <3>1 DEF AnchorCovers
    <3> QED BY <2>1, <3>1, <3>2
  <2>3. CASE f # e
    <3>1. anchors'[f] = anchors[f]
      BY <1>7, <2>3
    <3>2. anchors'[f].state # "none" => AnchorCovers(f)'
      BY <1>8, <3>1 DEF CoverInv, AnchorCovers
    <3>3. row'[AnchorJob(f)].status # "none" \/ txs'[AnchorJob(f)] # "none" => anchors'[f].state # "none"
      BY <1>1, <1>10, <2>3, <3>1 DEF CoverInv
    <3>4. anchorState'[f] # "NONE" => anchors'[f].state # "none"
      BY <1>1, <3>1 DEF CoverInv
    <3> QED BY <2>1, <3>2, <3>3, <3>4
  <2> QED BY <2>2, <2>3
<1> QED BY <1>1, <1>7, <1>11 DEF CoverInv, LedgerOK, layerVars

LEMMA CoverScan ==
    ASSUME IndInv, CoverInv, ScanBscOnce \/ ScanDies PROVE CoverInv'
<1>1. /\ UNCHANGED <<anchorState, posted>> /\ UNCHANGED layerVars /\ UNCHANGED txs /\ UNCHANGED anchors
      /\ Enqueue(FoundNew)
  BY DEF ScanBscOnce, ScanDies, chainVars, anchorVars
<1>2. ASSUME NEW e \in Epochs PROVE row'[AnchorJob(e)] = row[AnchorJob(e)]
  <2>1. AnchorJob(e) \in Jobs
    BY JobForms
  <2>2. AnchorJob(e) \notin FoundNew
    BY DEF FoundNew, Found, AnchorJob, Credit
  <2> QED BY <1>1, <2>1, <2>2 DEF Enqueue
<1>3. JobsMove
  BY <1>1, <1>2 DEF JobsMove
<1> QED BY <1>1, <1>3, LedgerStays, AnchorsStay, PostedStays, CoverMoves DEF IndInv

\* The sender writes a row, sends what has one, and calls an anchor posted that has one.
LEMMA CoverSends ==
    ASSUME IndInv, CoverInv, UNCHANGED chainVars, todo # {}, NEW s, NEW n, NEW t,
           row' = row \/ row' = [row EXCEPT ![current] = [@ EXCEPT !.status = s, !.attempts = n]],
           txs' = txs \/ txs' = [txs EXCEPT ![current] = t],
           anchors' = anchors \/ anchors' = PostedIf(current, s)
    PROVE  CoverInv'
<1>1. current \in Jobs /\ row[current].status # "none"
  BY CurrentRow DEF enqueued
<1>2. AnchorsMove
  BY <1>1, AnchorsStay, PostedIfMoves
<1>3. ASSUME NEW e \in Epochs
      PROVE  /\ row'[AnchorJob(e)].status # "none" => row[AnchorJob(e)].status # "none"
             /\ txs'[AnchorJob(e)] # "none" => txs[AnchorJob(e)] # "none" \/ row[AnchorJob(e)].status # "none"
  <2>1. AnchorJob(e) \in Jobs /\ row \in [Jobs -> Rows] /\ DOMAIN txs = Jobs
    BY JobForms DEF IndInv, RowsOK, TxsOK
  <2>2. AnchorJob(e) # current => row'[AnchorJob(e)] = row[AnchorJob(e)] /\ txs'[AnchorJob(e)] = txs[AnchorJob(e)]
    BY <2>1
  <2> QED BY <1>1, <2>2
<1>4. JobsMove
  BY <1>3 DEF JobsMove, CoverInv
<1>5. UNCHANGED <<anchorState, posted>> /\ UNCHANGED layerVars
  BY DEF chainVars, anchorVars
<1> QED BY <1>2, <1>4, <1>5, LedgerStays, PostedStays, CoverMoves DEF IndInv

LEMMA CoverResume ==
    ASSUME IndInv, CoverInv, Resume PROVE CoverInv'
<1>1. /\ UNCHANGED <<anchorState, posted>> /\ UNCHANGED layerVars /\ UNCHANGED txs
      /\ row' = [j \in Jobs |-> IF row[j].status = "sent" THEN [row[j] EXCEPT !.status = Resumed(j)]
                                ELSE row[j]]
      /\ anchors' = [e \in Epochs |->
                      IF row[AnchorJob(e)].status = "sent"
                      THEN PostedIf(AnchorJob(e), Resumed(AnchorJob(e)))[e] ELSE anchors[e]]
  BY DEF Resume, chainVars, anchorVars
<1>2. JobsMove
  <2> SUFFICES ASSUME NEW e \in Epochs, row'[AnchorJob(e)].status # "none"
               PROVE  row[AnchorJob(e)].status # "none"
    BY <1>1 DEF JobsMove
  <2>1. AnchorJob(e) \in Jobs
    BY JobForms
  <2> QED BY <1>1, <2>1
<1>3. ASSUME NEW e \in Epochs
      PROVE  /\ anchors'[e] \in [state : {"none", "new", "posted"}, report : Reports]
             /\ anchors'[e].report = anchors[e].report
             /\ anchors'[e].state = "none" <=> anchors[e].state = "none"
  <2>1. anchors \in AnchorRows /\ (row[AnchorJob(e)].status = "sent" => anchors[e].state # "none")
    BY DEF CoverInv
  <2> DEFINE p == [anchors[e] EXCEPT !.state = "posted"]
  <2>2. AnchorJob(e).epoch = e
    BY DEF AnchorJob
  <2>3. \/ anchors'[e] = anchors[e]
        \/ row[AnchorJob(e)].status = "sent" /\ anchors'[e] = p
    BY <1>1, <2>1, <2>2 DEF PostedIf, AnchorRows
  <2>4. anchors[e] \in [state : {"none", "new", "posted"}, report : Reports]
    BY <2>1 DEF AnchorRows
  <2>5. p \in [state : {"none", "new", "posted"}, report : Reports] /\ p.report = anchors[e].report /\ p.state = "posted"
    BY <2>4
  <2> HIDE DEF p
  <2> QED BY <2>1, <2>3, <2>4, <2>5
<1>4. AnchorsMove
  BY <1>1, <1>3 DEF AnchorsMove, AnchorRows
<1> QED BY <1>1, <1>2, <1>4, LedgerStays, PostedStays, CoverMoves DEF IndInv

LEMMA CoverRests ==
    ASSUME IndInv, CoverInv, UNCHANGED chainVars, UNCHANGED <<row, txs>>, UNCHANGED anchors
    PROVE  CoverInv'
BY LedgerStays, AnchorsStay, PostedStays, JobsStay, CoverMoves DEF IndInv, chainVars, anchorVars

LEMMA CoverProcess ==
    ASSUME IndInv, CoverInv, LAYER_LAG = 0, Process
    PROVE  CoverInv'
<1>1. CASE \/ Crash \/ HaltSending \/ SkipJob \/ PickJob \/ AwaitTimeout \/ RoundBreaks
           \/ \E available \in BOOLEAN, lag \in 0..LAG : StartRound(available, lag)
  <2>1. UNCHANGED chainVars /\ UNCHANGED <<row, txs>> /\ UNCHANGED anchors
    BY <1>1 DEF Crash, HaltSending, SkipJob, PickJob, AwaitTimeout, RoundBreaks, StartRound, dbVars
  <2> QED BY <2>1, CoverRests
<1>2. CASE ConfirmDone \/ Orphan \/ GiveUp \/ AwaitMined
  <2>1. PICK s, n : Leaves(s, n)
    BY <1>2 DEF ConfirmDone, Orphan, GiveUp, AwaitMined
  <2>2. todo # {} /\ (txs' = txs \/ txs' = [txs EXCEPT ![current] = "none"])
    BY <1>2 DEF ConfirmDone, Orphan, GiveUp, AwaitMined, At
  <2> QED BY <2>1, <2>2, CoverSends DEF Leaves
<1>3. CASE SendRefused
  <2>1. todo # {} /\ txs' = txs
    BY <1>3 DEF SendRefused, At
  <2>2. CASE AlreadyDone(current)
    <3>1. Leaves("confirmed", attempts + 1)
      BY <1>3, <2>2 DEF SendRefused
    <3> QED BY <2>1, <3>1, CoverSends DEF Leaves
  <2>3. CASE ~AlreadyDone(current)
    BY <1>3, <2>1, <2>3, CoverSends DEF SendRefused
  <2> QED BY <2>2, <2>3
<1>4. CASE SendTx \/ SendDies
  BY <1>4, CoverSends DEF SendTx, SendDies, At, dbVars
<1> QED BY <1>1, <1>2, <1>3, <1>4, CoverResume, CoverScan, CoverAnchorOnce DEF Process, Sender

LEMMA CoverStart == ASSUME Init PROVE CoverInv /\ posted \in [Epochs -> Reports]
<1>1. NoReport \in Reports
  BY DEF NoReport, Reports
<1>2. LedgerOK /\ anchors \in AnchorRows /\ posted \in [Epochs -> Reports]
  BY <1>1 DEF Init, LedgerOK, AnchorRows
<1>3. \A e \in Epochs : anchors[e].state = "none" /\ anchorState[e] = "NONE"
  BY DEF Init
<1>4. ASSUME NEW e \in Epochs PROVE row[AnchorJob(e)].status = "none" /\ txs[AnchorJob(e)] = "none"
  BY JobForms DEF Init, NoRow
<1> QED BY <1>2, <1>3, <1>4 DEF CoverInv

\* If the relayer's own layer node shows all of an epoch once the epoch is over, an anchor on BSC reports
\* all that its epoch let in and out, whatever dies, is resent or is resolved otherwise.
THEOREM AnchorsCover ==
    ASSUME LAYER_LAG = 0 PROVE Spec => []AnchorsCoverTheirEpoch
<1> DEFINE Inv == CoverInv /\ posted \in [Epochs -> Reports]
<1>1. Init => Inv
  BY CoverStart
<1>2. IndInv /\ Inv /\ [Next]_vars => Inv'
  <2> SUFFICES ASSUME IndInv, Inv, [Next]_vars PROVE Inv'
    OBVIOUS
  <2>1. CASE Chains
    BY <2>1, CoverChains
  <2>2. CASE Process
    <3>1. posted' = posted
      BY <2>2 DEF Process, Sender, Crash, Resume, ScanBscOnce, ScanDies, AnchorOnce, AnchorDies, StartRound,
          ConfirmDone, HaltSending, SkipJob, PickJob, Orphan, SendTx, SendRefused, GiveUp, AwaitMined,
          AwaitTimeout, SendDies, RoundBreaks, Leaves, chainVars, anchorVars
    <3> QED BY <2>2, <3>1, CoverProcess, LAYER_LAG = 0
  <2>3. CASE UNCHANGED vars
    BY <2>3, CoverRests DEF vars, dbVars, chainVars, anchorVars
  <2> QED BY <2>1, <2>2, <2>3 DEF Next
<1>3. Inv => AnchorsCoverTheirEpoch
  BY DEF CoverInv, AnchorsCoverTheirEpoch, PostedCovers, Covers
<1> QED BY <1>1, <1>2, <1>3, Invariance, PTL DEF Spec

-----------------------------------------------------------------------------
(* SdkExits *)

Wheres == [at : {"rest", "burned", "putting", "replaying", "sent", "claimed", "marking"},
           exit : 0..LastExit, view : [SdkExitIds -> {"none", "open", "claimed"}],
           todo : SUBSET SdkExitIds, due : SUBSET SdkExitIds, failed : SUBSET SdkExitIds]

SdkTypes ==
    /\ burnedExits \subseteq SdkExitIds /\ finalExits \subseteq burnedExits
    /\ claimedExits \subseteq SdkExitIds /\ undone \subseteq SdkExitIds
    /\ stateFile \in [SdkExitIds -> {"none", "open", "claimed"}]
    /\ agent \in [SdkProcesses -> Wheres]
    /\ forgotten \subseteq 0..LastExit

\* What a process is at, it is at with an exit.
AtAnExit == \A p \in SdkProcesses : agent[p].at \in {"burned", "putting", "sent", "claimed", "marking"} =>
                agent[p].exit \in SdkExitIds

\* Nothing is called claimed that is not, in the file and in what a process read of it.
OnlyPaid(f) == \A x \in SdkExitIds : f[x] = "claimed" => x \in EverClaimed
PaidFirst ==
    /\ OnlyPaid(stateFile)
    /\ \A p \in SdkProcesses : OnlyPaid(agent[p].view)
    /\ \A p \in SdkProcesses : agent[p].at \in {"claimed", "marking"} => agent[p].exit \in EverClaimed

\* A burned exit is in the file and in every view that a process may put back, or somebody still has to
\* write it, or a break or an overlap may have cost it.
Unwritten == {agent[p].exit : p \in {q \in SdkProcesses : agent[q].at \in {"burned", "putting"}}}
Complete(f) == burnedExits \subseteq Recorded(f) \cup forgotten \cup Unwritten
AllWritten ==
    /\ Complete(stateFile)
    /\ \A p \in InTheFile : Complete(agent[p].view)
    /\ \A p, q \in InTheFile : p # q => agent[p].exit \in forgotten

\* A replay still has before it what was payable when it began, is not claimed and did not fail.
StillToDo ==
    \A p \in SdkProcesses :
        agent[p].due \subseteq finalExits /\ agent[p].due \subseteq EverClaimed \cup agent[p].todo \cup agent[p].failed

SdkInv == SdkTypes /\ AtAnExit /\ PaidFirst /\ AllWritten /\ StillToDo

LEMMA RestingIsThere ==
    /\ Resting \in Wheres
    /\ Resting = [at |-> "rest", exit |-> 0, view |-> EmptyState, todo |-> {}, due |-> {}, failed |-> {}]
    /\ EmptyState \in [SdkExitIds -> {"none", "open", "claimed"}]
    /\ \A x \in SdkExitIds : EmptyState[x] = "none"
    /\ LastExit \in Nat
BY SdkSizes DEF Resting, Wheres, EmptyState, SdkExitIds

LEMMA SdkStart == ASSUME SdkInit PROVE SdkInv
<1>1. SdkTypes
  BY RestingIsThere DEF SdkInit, SdkTypes
<1>2. /\ \A p \in SdkProcesses : agent[p].at = "rest" /\ agent[p].due = {} /\ agent[p].view = EmptyState
      /\ stateFile = EmptyState /\ burnedExits = {} /\ finalExits = {} /\ claimedExits = {}
  BY RestingIsThere DEF SdkInit
<1>3. AtAnExit
  BY <1>2 DEF AtAnExit
<1>4. PaidFirst
  BY <1>2, RestingIsThere DEF PaidFirst, OnlyPaid
<1>5. AllWritten
  BY <1>2 DEF AllWritten, Complete, InTheFile
<1>6. StillToDo
  BY <1>2 DEF StillToDo
<1> QED BY <1>1, <1>3, <1>4, <1>5, <1>6 DEF SdkInv

LEMMA GoneTo ==
    ASSUME agent \in [SdkProcesses -> Wheres], NEW p \in SdkProcesses, NEW where \in Wheres, Goes(p, where)
    PROVE  /\ agent' \in [SdkProcesses -> Wheres]
           /\ agent'[p] = where
           /\ \A q \in SdkProcesses : q # p => agent'[q] = agent[q]
BY DEF Goes

\* The chains move: more is final, more is claimed, and nothing else.
LEMMA ExitChainsKeep ==
    ASSUME SdkInv, NEW x \in SdkExitIds, BecomesFinal(x) \/ ClaimedForIt(x) \/ ClaimUndone(x)
    PROVE  SdkInv'
<1>1. /\ burnedExits' = burnedExits /\ stateFile' = stateFile /\ agent' = agent /\ forgotten' = forgotten
      /\ finalExits \subseteq finalExits' /\ EverClaimed \subseteq EverClaimed'
      /\ finalExits' \subseteq burnedExits /\ claimedExits' \subseteq SdkExitIds /\ undone' \subseteq SdkExitIds
  BY DEF BecomesFinal, ClaimedForIt, ClaimUndone, EverClaimed, SdkInv, SdkTypes
<1>2. SdkTypes'
  BY <1>1 DEF SdkInv, SdkTypes
<1>3. AtAnExit'
  BY <1>1 DEF SdkInv, AtAnExit
<1>4. PaidFirst'
  BY <1>1 DEF SdkInv, PaidFirst, OnlyPaid
<1>5. AllWritten'
  BY <1>1 DEF SdkInv, AllWritten, Complete, InTheFile, Unwritten, Recorded
<1>6. StillToDo'
  BY <1>1 DEF SdkInv, StillToDo
<1> QED BY <1>2, <1>3, <1>4, <1>5, <1>6 DEF SdkInv

\* A process goes on to a place where it neither reads nor writes the file: what it may have had to write
\* is written or remembered as at risk, and it may have burned or claimed its exit.
LEMMA ElsewhereKeeps ==
    ASSUME SdkInv, NEW p \in SdkProcesses, NEW where \in Wheres, Goes(p, where),
           where.at \notin {"putting", "marking"}, OnlyPaid(where.view),
           where.at \in {"burned", "sent", "claimed"} => where.exit \in SdkExitIds,
           UNCHANGED <<finalExits, stateFile, undone>>, forgotten \subseteq forgotten', forgotten' \subseteq 0..LastExit,
           claimedExits \subseteq claimedExits', claimedExits' \subseteq SdkExitIds,
           where.at = "claimed" => where.exit \in EverClaimed',
           burnedExits' = burnedExits \/ (where.at = "burned" /\ burnedExits' = burnedExits \cup {where.exit}),
           where.due \subseteq finalExits, where.due \subseteq EverClaimed' \cup where.todo \cup where.failed,
           agent[p].at \in {"burned", "putting"} => agent[p].exit \in forgotten'
    PROVE  SdkInv'
<1> USE DEF SdkInv
<1>1. /\ agent' \in [SdkProcesses -> Wheres] /\ agent'[p] = where
      /\ \A q \in SdkProcesses : q # p => agent'[q] = agent[q]
  BY GoneTo DEF SdkTypes
<1>0. EverClaimed \subseteq EverClaimed'
  BY DEF EverClaimed
<1>2. SdkTypes'
  BY <1>1 DEF SdkTypes
<1>3. AtAnExit'
  BY <1>1 DEF AtAnExit
<1>4. PaidFirst'
  BY <1>0, <1>1 DEF PaidFirst, OnlyPaid
<1>5. AllWritten'
  <2>1. Unwritten \subseteq Unwritten' \cup forgotten'
    BY <1>1 DEF Unwritten
  <2>2. burnedExits' = burnedExits \/ burnedExits' \subseteq burnedExits \cup Unwritten'
    BY <1>1 DEF Unwritten
  <2>3. ASSUME NEW f, Complete(f) PROVE burnedExits' \subseteq Recorded(f) \cup forgotten' \cup Unwritten'
    BY <2>1, <2>2, <2>3 DEF Complete
  <2>4. InTheFile' \subseteq InTheFile /\ \A q \in InTheFile' : q # p /\ agent'[q] = agent[q]
    BY <1>1 DEF InTheFile
  <2>5. Complete(stateFile)'
    BY <2>3 DEF AllWritten, Complete
  <2>6. ASSUME NEW q \in InTheFile' PROVE Complete(agent[q].view)'
    <3>1. Complete(agent[q].view) /\ agent'[q] = agent[q]
      BY <2>4 DEF AllWritten
    <3> QED BY <3>1, <2>3 DEF Complete
  <2> QED BY <2>4, <2>5, <2>6 DEF AllWritten
<1>6. StillToDo'
  <2>1. ASSUME NEW q \in SdkProcesses
        PROVE  /\ agent'[q].due \subseteq finalExits
               /\ agent'[q].due \subseteq EverClaimed' \cup agent'[q].todo \cup agent'[q].failed
    BY <1>0, <1>1 DEF StillToDo
  <2> QED BY <2>1 DEF StillToDo
<1> QED BY <1>2, <1>3, <1>4, <1>5, <1>6

\* A process reads the file to write it: what it read misses nothing, or what it misses is remembered, and
\* so is what anybody reads or writes at the same time.
LEMMA ReadingKeeps ==
    ASSUME SdkInv, NEW p \in SdkProcesses,
           NEW here \in {"burned", "claimed"}, NEW next \in {"putting", "marking"},
           here = "burned" <=> next = "putting", ReadsFile(p, here, next)
    PROVE  SdkInv'
<1> USE DEF SdkInv
<1> DEFINE where == agent'[p]
<1>1. PICK read \in {stateFile, EmptyState} :
        /\ Goes(p, [agent[p] EXCEPT !.at = next, !.view = read])
        /\ forgotten \cup Overlaps(p) \subseteq forgotten'
        /\ forgotten' \subseteq forgotten \cup Overlaps(p) \cup Recorded(stateFile)
        /\ read = EmptyState => Recorded(stateFile) \subseteq forgotten' \/ read = stateFile
  BY DEF ReadsFile
<1>2. /\ agent[p].at = here /\ UNCHANGED <<burnedExits, finalExits, claimedExits, stateFile, undone>>
      /\ agent[p].exit \in SdkExitIds
  BY DEF ReadsFile, AgentAt, exitsOnChain, AtAnExit
<1>3. /\ where \in Wheres /\ where.at = next /\ where.exit = agent[p].exit /\ where.view = read
      /\ where.todo = agent[p].todo /\ where.due = agent[p].due /\ where.failed = agent[p].failed
      /\ agent' \in [SdkProcesses -> Wheres]
      /\ \A q \in SdkProcesses : q # p => agent'[q] = agent[q]
  <2>1. /\ agent[p] \in Wheres /\ read \in [SdkExitIds -> {"none", "open", "claimed"}]
        /\ agent \in [SdkProcesses -> Wheres]
    BY RestingIsThere DEF SdkTypes
  <2> DEFINE there == [agent[p] EXCEPT !.at = next, !.view = read]
  <2>2. /\ there \in Wheres /\ there.at = next /\ there.exit = agent[p].exit /\ there.view = read
        /\ there.todo = agent[p].todo /\ there.due = agent[p].due /\ there.failed = agent[p].failed
    BY <2>1 DEF Wheres
  <2>3. Goes(p, there)
    BY <1>1
  <2> HIDE DEF there
  <2> QED BY <2>1, <2>2, <2>3, GoneTo
<1> HIDE DEF where
<1>4. forgotten' \subseteq 0..LastExit
  <2>1. Overlaps(p) \subseteq 0..LastExit
    BY DEF Overlaps, InTheFile, SdkTypes, Wheres
  <2>2. Recorded(stateFile) \subseteq 0..LastExit
    BY DEF Recorded, SdkExitIds
  <2> QED BY <1>1, <2>1, <2>2 DEF SdkTypes
<1>5. SdkTypes'
  BY <1>2, <1>3, <1>4 DEF SdkTypes
<1>6. AtAnExit'
  BY <1>2, <1>3 DEF AtAnExit, where
<1>7. PaidFirst'
  <2>0. EverClaimed' = EverClaimed
    BY <1>2 DEF EverClaimed
  <2>1. OnlyPaid(read)
    BY RestingIsThere DEF PaidFirst, OnlyPaid
  <2>2. next = "marking" => where.exit \in EverClaimed
    BY <1>2, <1>3 DEF PaidFirst
  <2>3. ASSUME NEW q \in SdkProcesses
        PROVE  OnlyPaid(agent'[q].view) /\ (agent'[q].at \in {"claimed", "marking"} => agent'[q].exit \in EverClaimed)
    <3>1. CASE q = p
      BY <1>3, <2>1, <2>2, <3>1 DEF where
    <3>2. CASE q # p
      BY <1>3, <3>2 DEF PaidFirst
    <3> QED BY <3>1, <3>2
  <2> QED BY <1>2, <2>0, <2>3 DEF PaidFirst, OnlyPaid
<1>8. AllWritten'
  <2>1. Unwritten' = Unwritten
    <3>1. next = "putting" <=> here = "burned"
      OBVIOUS
    <3> QED BY <1>2, <1>3, <3>1 DEF Unwritten, where
  <2>2. ASSUME NEW f, Complete(f) PROVE burnedExits' \subseteq Recorded(f) \cup forgotten' \cup Unwritten'
    BY <1>1, <1>2, <2>1, <2>2 DEF Complete
  <2>3. Complete(stateFile)'
    BY <1>2, <2>2 DEF AllWritten, Complete
  <2>4. InTheFile' = InTheFile \cup {p} /\ p \notin InTheFile
    BY <1>2, <1>3 DEF InTheFile, where
  <2>5. ASSUME NEW q \in InTheFile' PROVE Complete(agent[q].view)'
    <3>1. CASE q = p
      <4>1. Recorded(stateFile) \subseteq Recorded(read) \cup forgotten'
        BY <1>1
      <4>2. burnedExits' \subseteq Recorded(read) \cup forgotten' \cup Unwritten'
        BY <2>2, <4>1 DEF AllWritten
      <4> QED BY <1>3, <3>1, <4>2 DEF Complete, where
    <3>2. CASE q # p
      <4>1. q \in InTheFile /\ q \in SdkProcesses
        BY <2>4, <3>2 DEF InTheFile
      <4>2. Complete(agent[q].view) /\ agent'[q] = agent[q]
        BY <1>3, <3>2, <4>1 DEF AllWritten
      <4> QED BY <2>2, <4>2 DEF Complete
    <3> QED BY <3>1, <3>2
  <2>6. ASSUME NEW q \in InTheFile', NEW r \in InTheFile', q # r PROVE agent'[q].exit \in forgotten'
    <3>1. agent'[q].exit = agent[q].exit /\ q \in InTheFile \cup {p} /\ r \in InTheFile \cup {p}
      BY <1>3, <2>4 DEF where, InTheFile
    <3>2. InTheFile # {}
      BY <2>6, <3>1
    <3>3. agent[q].exit \in Overlaps(p)
      BY <3>1, <3>2 DEF Overlaps
    <3> QED BY <1>1, <3>1, <3>3
  <2> QED BY <2>3, <2>5, <2>6 DEF AllWritten
<1>9. StillToDo'
  <2>1. ASSUME NEW q \in SdkProcesses
        PROVE  agent'[q].due = agent[q].due /\ agent'[q].todo = agent[q].todo /\ agent'[q].failed = agent[q].failed
    BY <1>3 DEF where
  <2> QED BY <1>2, <2>1 DEF StillToDo, EverClaimed
<1> QED BY <1>5, <1>6, <1>7, <1>8, <1>9

\* A process writes the file, from what it read, and leaves it: what the write may put back was
\* remembered when the reads overlapped.
LEMMA WritingKeeps ==
    ASSUME SdkInv, NEW p \in InTheFile, NEW where \in Wheres, Goes(p, where),
           where.at \in {"rest", "replaying"}, where.view = EmptyState,
           where.due \subseteq finalExits, where.due \subseteq EverClaimed \cup where.todo \cup where.failed,
           UNCHANGED <<exitsOnChain, breaks, forgotten, undone>>,
           stateFile' \in [SdkExitIds -> {"none", "open", "claimed"}],
           \A x \in SdkExitIds : stateFile'[x] = "claimed" => x \in EverClaimed,
           stateFile' = stateFile \/ Recorded(agent[p].view) \subseteq Recorded(stateFile'),
           agent[p].at = "putting" => agent[p].exit \in Recorded(stateFile')
    PROVE  SdkInv'
<1> USE DEF SdkInv, exitsOnChain, EverClaimed
<1>1. /\ p \in SdkProcesses
      /\ agent' \in [SdkProcesses -> Wheres] /\ agent'[p] = where
      /\ \A q \in SdkProcesses : q # p => agent'[q] = agent[q]
  BY GoneTo DEF SdkTypes, InTheFile
<1>2. SdkTypes'
  BY <1>1 DEF SdkTypes
<1>3. AtAnExit'
  BY <1>1 DEF AtAnExit
<1>4. PaidFirst'
  BY <1>1, RestingIsThere DEF PaidFirst, OnlyPaid
<1>5. AllWritten'
  <2>1. Unwritten \subseteq Unwritten' \cup {agent[p].exit}
    BY <1>1 DEF Unwritten
  <2>2. agent[p].at # "putting" => Unwritten \subseteq Unwritten'
    BY <1>1 DEF Unwritten, InTheFile
  <2>3. InTheFile' \subseteq InTheFile /\ \A q \in InTheFile' : q # p /\ agent'[q] = agent[q]
    BY <1>1 DEF InTheFile
  <2>4. ASSUME NEW f, Complete(f), agent[p].exit \in Recorded(f) \cup forgotten \/ agent[p].at # "putting"
        PROVE  burnedExits \subseteq Recorded(f) \cup forgotten \cup Unwritten'
    BY <2>1, <2>2, <2>4 DEF Complete
  <2>5. Complete(stateFile)'
    <3>1. CASE stateFile' = stateFile
      BY <2>4, <3>1 DEF AllWritten, Complete
    <3>2. CASE Recorded(agent[p].view) \subseteq Recorded(stateFile')
      BY <2>1, <2>2, <3>2 DEF AllWritten, Complete
    <3> QED BY <3>1, <3>2
  <2>6. ASSUME NEW q \in InTheFile' PROVE Complete(agent[q].view)'
    <3>1. Complete(agent[q].view) /\ agent'[q] = agent[q] /\ agent[p].exit \in forgotten
      BY <2>3 DEF AllWritten
    <3> QED BY <2>4, <3>1 DEF Complete
  <2> QED BY <2>3, <2>5, <2>6 DEF AllWritten
<1>6. StillToDo'
  BY <1>1 DEF StillToDo
<1> QED BY <1>2, <1>3, <1>4, <1>5, <1>6

LEMMA SdkStep == ASSUME SdkInv, [SdkNext]_sdkVars PROVE SdkInv'
<1> USE DEF AgentAt
<1>1. ASSUME NEW p \in SdkProcesses
      PROVE  /\ agent[p] \in Wheres /\ OnlyPaid(agent[p].view) /\ OnlyPaid(EmptyState)
             /\ agent[p].due \subseteq finalExits
             /\ agent[p].due \subseteq EverClaimed \cup agent[p].todo \cup agent[p].failed
             /\ agent[p].at \in {"sent", "claimed", "putting", "marking"} => agent[p].exit \in SdkExitIds
             /\ agent[p].at \in {"claimed", "marking"} => agent[p].exit \in EverClaimed
             /\ forgotten \subseteq 0..LastExit /\ claimedExits \subseteq SdkExitIds
             /\ SdkExitIds \subseteq 0..LastExit
  BY RestingIsThere DEF SdkInv, SdkTypes, PaidFirst, StillToDo, AtAnExit, OnlyPaid, SdkExitIds
<1>2. ASSUME NEW p \in SdkProcesses, ExitOf(p) PROVE SdkInv'
  <2> DEFINE x == Cardinality(burnedExits) + 1
             there == [Resting EXCEPT !.at = "burned", !.exit = x]
  <2>1. x \in SdkExitIds /\ burnedExits' = burnedExits \cup {x} /\ Goes(p, there) /\ agent[p].at = "rest"
        /\ UNCHANGED <<finalExits, claimedExits, stateFile, breaks, forgotten, undone>>
    BY <1>2 DEF ExitOf
  <2> HIDE DEF x
  <2>2. there \in Wheres /\ there.at = "burned" /\ there.exit = x /\ there.view = EmptyState /\ there.due = {}
    BY <1>1, <2>1, RestingIsThere DEF Wheres
  <2> HIDE DEF there
  <2> QED BY <1>1, <2>1, <2>2, ElsewhereKeeps
<1>3. ASSUME NEW p \in SdkProcesses, Put(p) PROVE SdkInv'
  <2>1. /\ p \in InTheFile /\ Goes(p, Resting) /\ UNCHANGED <<exitsOnChain, breaks, forgotten, undone>>
        /\ stateFile' = [agent[p].view EXCEPT ![agent[p].exit] = "open"] /\ agent[p].exit \in SdkExitIds
    BY <1>1, <1>3 DEF Put, InTheFile, WithRecord
  <2>2. agent[p].view \in [SdkExitIds -> {"none", "open", "claimed"}]
    BY <1>1 DEF Wheres
  <2>3. /\ stateFile' \in [SdkExitIds -> {"none", "open", "claimed"}]
        /\ \A x \in SdkExitIds : stateFile'[x] = "claimed" => x \in EverClaimed
        /\ Recorded(agent[p].view) \subseteq Recorded(stateFile')
        /\ agent[p].exit \in Recorded(stateFile')
    BY <1>1, <2>1, <2>2 DEF OnlyPaid, Recorded
  <2> QED BY <2>1, <2>3, RestingIsThere, WritingKeeps
<1>4. ASSUME NEW p \in SdkProcesses, ReplayPendingExits(p) PROVE SdkInv'
  <2>1. /\ agent[p].at = "rest" /\ UNCHANGED <<exitsOnChain, stateFile, forgotten, undone>>
        /\ Goes(p, Replaying(Unclaimed(stateFile))) \/ Goes(p, Replaying({}))
    BY <1>4 DEF ReplayPendingExits
  <2>2. ASSUME NEW open \in SUBSET SdkExitIds
        PROVE  /\ Replaying(open) \in Wheres /\ Replaying(open).at = "replaying"
               /\ Replaying(open).view = EmptyState
               /\ Replaying(open).due \subseteq finalExits
               /\ Replaying(open).due \subseteq Replaying(open).todo
    <3> DEFINE due == open \cap finalExits
    <3>1. due \in SUBSET SdkExitIds /\ due \subseteq open /\ due \subseteq finalExits
      OBVIOUS
    <3>2. Replaying(open) = [Resting EXCEPT !.at = "replaying", !.todo = open, !.due = due]
      BY DEF Replaying
    <3> DEFINE there == [Resting EXCEPT !.at = "replaying", !.todo = open, !.due = due]
    <3> HIDE DEF due
    <3>3. there \in Wheres
      BY <3>1, RestingIsThere DEF Wheres
    <3>4. there.at = "replaying" /\ there.view = EmptyState /\ there.due = due /\ there.todo = open
      BY RestingIsThere
    <3>5. Replaying(open) = there
      BY <3>2
    <3> HIDE DEF there
    <3> QED BY <3>1, <3>3, <3>4, <3>5
  <2>3. ASSUME NEW open \in SUBSET SdkExitIds, Goes(p, Replaying(open)) PROVE SdkInv'
    BY <1>1, <2>1, <2>2, <2>3, ElsewhereKeeps DEF exitsOnChain, EverClaimed
  <2> QED BY <2>1, <2>3 DEF Unclaimed
<1>5. ASSUME NEW p \in SdkProcesses, Finishes(p) PROVE SdkInv'
  <2>1. /\ Goes(p, Resting) /\ agent[p].at = "replaying"
        /\ UNCHANGED <<exitsOnChain, stateFile, breaks, forgotten, undone>>
    BY <1>5 DEF Finishes
  <2>2. Resting \in Wheres /\ Resting.at = "rest" /\ Resting.view = EmptyState /\ Resting.due = {}
    BY RestingIsThere
  <2> QED BY <1>1, <2>1, <2>2, ElsewhereKeeps DEF exitsOnChain, EverClaimed
<1>6. ASSUME NEW p \in SdkProcesses, NEW x
      PROVE  /\ NextRecord(agent[p], x) \in Wheres /\ NextRecord(agent[p], x).at = "replaying"
             /\ NextRecord(agent[p], x).view = EmptyState /\ NextRecord(agent[p], x).due = agent[p].due
             /\ NextRecord(agent[p], x).todo = agent[p].todo \ {x}
             /\ NextRecord(agent[p], x).failed = agent[p].failed
  <2> DEFINE left == agent[p].todo \ {x}
             there == [agent[p] EXCEPT !.at = "replaying", !.exit = 0, !.view = EmptyState, !.todo = left]
  <2>1. left \in SUBSET SdkExitIds /\ 0 \in 0..LastExit
        /\ EmptyState \in [SdkExitIds -> {"none", "open", "claimed"}]
    BY <1>1, RestingIsThere DEF Wheres
  <2>2. NextRecord(agent[p], x) = there
    BY DEF NextRecord, TheOthers
  <2> HIDE DEF left
  <2>3. /\ there \in Wheres /\ there.at = "replaying" /\ there.view = EmptyState
        /\ there.due = agent[p].due /\ there.todo = left /\ there.failed = agent[p].failed
    BY <1>1, <2>1 DEF Wheres
  <2> QED BY <2>2, <2>3 DEF left
<1>61. ASSUME NEW p \in SdkProcesses, NEW x, x \in EverClaimed \/ x \notin finalExits
      PROVE  /\ NextRecord(agent[p], x) \in Wheres /\ NextRecord(agent[p], x).at = "replaying"
             /\ NextRecord(agent[p], x).view = EmptyState
             /\ NextRecord(agent[p], x).due \subseteq finalExits
             /\ NextRecord(agent[p], x).due
                   \subseteq EverClaimed \cup NextRecord(agent[p], x).todo \cup NextRecord(agent[p], x).failed
  BY <1>1, <1>6, <1>61
<1>7. ASSUME NEW p \in SdkProcesses, NEW x \in SdkExitIds, Looks(p, x) PROVE SdkInv'
  <2> DEFINE there(place) == [agent[p] EXCEPT !.at = place, !.exit = x]
  <2>1. /\ agent[p].at = "replaying" /\ UNCHANGED <<exitsOnChain, stateFile, breaks, forgotten, undone>>
        /\ \/ x \in claimedExits /\ Goes(p, there("claimed"))
           \/ Goes(p, there("sent"))
           \/ x \notin finalExits /\ Goes(p, NextRecord(agent[p], x))
           \/ x \in claimedExits /\ Goes(p, NextRecord(agent[p], x))
    BY <1>7 DEF Looks
  <2>2. ASSUME NEW place \in {"claimed", "sent"}
        PROVE  /\ there(place) \in Wheres /\ there(place).at = place /\ there(place).exit = x
               /\ there(place).view = agent[p].view /\ there(place).due = agent[p].due
               /\ there(place).todo = agent[p].todo /\ there(place).failed = agent[p].failed
    BY <1>1 DEF Wheres
  <2> HIDE DEF there
  <2>3. ASSUME x \in claimedExits, Goes(p, there("claimed")) PROVE SdkInv'
    BY <1>1, <2>1, <2>2, <2>3, ElsewhereKeeps DEF exitsOnChain, EverClaimed
  <2>4. ASSUME Goes(p, there("sent")) PROVE SdkInv'
    BY <1>1, <2>1, <2>2, <2>4, ElsewhereKeeps DEF exitsOnChain, EverClaimed
  <2>5. ASSUME x \in claimedExits \/ x \notin finalExits, Goes(p, NextRecord(agent[p], x)) PROVE SdkInv'
    BY <1>1, <1>61, <2>1, <2>5, ElsewhereKeeps DEF exitsOnChain, EverClaimed
  <2> QED BY <2>1, <2>3, <2>4, <2>5
<1>8. ASSUME NEW p \in SdkProcesses, IsMined(p) PROVE SdkInv'
  <2> DEFINE there == [agent[p] EXCEPT !.at = "claimed"]
  <2>1. /\ there \in Wheres /\ there.at = "claimed" /\ there.exit = agent[p].exit
        /\ there.view = agent[p].view /\ there.due = agent[p].due /\ there.todo = agent[p].todo
        /\ there.failed = agent[p].failed
    BY <1>1 DEF Wheres
  <2>2. /\ agent[p].at = "sent" /\ UNCHANGED <<burnedExits, finalExits, stateFile, breaks, forgotten, undone>>
        /\ \/ claimedExits' = claimedExits \cup {agent[p].exit} /\ Goes(p, there)
           \/ agent[p].exit \in claimedExits /\ Goes(p, NextRecord(agent[p], agent[p].exit)) /\ UNCHANGED claimedExits
    BY <1>8 DEF IsMined, MinedBy
  <2> HIDE DEF there
  <2>3. ASSUME claimedExits' = claimedExits \cup {agent[p].exit}, Goes(p, there) PROVE SdkInv'
    <3>1. OnlyPaid(there.view) /\ there.exit \in EverClaimed' /\ claimedExits' \subseteq SdkExitIds
          /\ there.due \subseteq EverClaimed' \cup there.todo \cup there.failed
      BY <1>1, <2>1, <2>2, <2>3 DEF EverClaimed
    <3> QED BY <1>1, <2>1, <2>2, <2>3, <3>1, ElsewhereKeeps
  <2>4. ASSUME agent[p].exit \in claimedExits, Goes(p, NextRecord(agent[p], agent[p].exit)), UNCHANGED claimedExits
        PROVE  SdkInv'
    BY <1>1, <1>61, <2>2, <2>4, ElsewhereKeeps DEF EverClaimed
  <2> QED BY <2>2, <2>3, <2>4
<1>9. ASSUME NEW p \in SdkProcesses, MarkClaimed(p) PROVE SdkInv'
  <2> DEFINE x == agent[p].exit
             view == agent[p].view
             there == NextRecord(agent[p], x)
  <2>1. /\ agent[p].at = "marking" /\ Goes(p, there) /\ UNCHANGED <<exitsOnChain, breaks, forgotten, undone>>
        /\ stateFile' = IF view[x] = "none" THEN stateFile ELSE [view EXCEPT ![x] = "claimed"]
    BY <1>9 DEF MarkClaimed
  <2>2. view \in [SdkExitIds -> {"none", "open", "claimed"}] /\ x \in EverClaimed /\ x \in SdkExitIds
        /\ stateFile \in [SdkExitIds -> {"none", "open", "claimed"}] /\ OnlyPaid(stateFile) /\ OnlyPaid(view)
    BY <1>1, <2>1 DEF Wheres, SdkInv, SdkTypes, PaidFirst
  <2>3. /\ there \in Wheres /\ there.at = "replaying" /\ there.view = EmptyState
        /\ there.due \subseteq finalExits /\ there.due \subseteq EverClaimed \cup there.todo \cup there.failed
    BY <1>61, <2>2
  <2> HIDE DEF there, x, view
  <2>4. /\ stateFile' \in [SdkExitIds -> {"none", "open", "claimed"}]
        /\ \A y \in SdkExitIds : stateFile'[y] = "claimed" => y \in EverClaimed
        /\ stateFile' = stateFile \/ Recorded(view) \subseteq Recorded(stateFile')
    BY <2>1, <2>2 DEF OnlyPaid, Recorded
  <2> QED BY <2>1, <2>3, <2>4, WritingKeeps DEF InTheFile, view
<1>10. ASSUME NEW p \in SdkProcesses, Killed(p) PROVE SdkInv'
  <2>1. Resting \in Wheres /\ Resting.at = "rest" /\ Resting.view = EmptyState /\ Resting.due = {}
    BY RestingIsThere
  <2>2. /\ Goes(p, Resting) /\ UNCHANGED <<exitsOnChain, stateFile, undone>>
        /\ forgotten \subseteq forgotten' /\ forgotten' \subseteq forgotten \cup {agent[p].exit}
        /\ agent[p].at \in {"burned", "putting"} => agent[p].exit \in forgotten'
    BY <1>10 DEF Killed
  <2>3. forgotten' \subseteq 0..LastExit
    BY <1>1, <2>2 DEF Wheres
  <2> QED BY <1>1, <2>1, <2>2, <2>3, ElsewhereKeeps DEF exitsOnChain, EverClaimed
<1>11. ASSUME NEW p \in SdkProcesses, ReadToPut(p) \/ ReadToMark(p) PROVE SdkInv'
  BY <1>11, ReadingKeeps DEF ReadToPut, ReadToMark
<1>12. ASSUME NEW x \in SdkExitIds, BecomesFinal(x) \/ ClaimedForIt(x) \/ ClaimUndone(x) PROVE SdkInv'
  BY <1>12, ExitChainsKeep
<1>14. ASSUME NEW p \in SdkProcesses, NEW x \in SdkExitIds, ClaimFails(p, x) PROVE SdkInv'
  <2> DEFINE there == [NextRecord(agent[p], x) EXCEPT !.failed = @ \cup {x}]
  <2>1. /\ Goes(p, there) /\ UNCHANGED <<exitsOnChain, stateFile, forgotten, undone>>
        /\ agent[p].at \in {"replaying", "sent", "claimed", "marking"}
    BY <1>14 DEF ClaimFails, Working
  <2>2. NextRecord(agent[p], x).failed \cup {x} \in SUBSET SdkExitIds
    BY <1>1, <1>6 DEF Wheres
  <2>3. /\ there \in Wheres /\ there.at = "replaying" /\ there.view = EmptyState
        /\ there.due \subseteq finalExits /\ there.due \subseteq EverClaimed \cup there.todo \cup there.failed
    <3> DEFINE next == NextRecord(agent[p], x)
               bad == next.failed \cup {x}
    <3>1. /\ next \in Wheres /\ next.at = "replaying" /\ next.view = EmptyState /\ next.due = agent[p].due
          /\ next.todo = agent[p].todo \ {x} /\ next.failed = agent[p].failed /\ bad \in SUBSET SdkExitIds
          /\ bad = agent[p].failed \cup {x}
      BY <1>6, <2>2
    <3>2. there = [next EXCEPT !.failed = bad]
      OBVIOUS
    <3> HIDE DEF next, bad
    <3>3. /\ there \in Wheres /\ there.at = "replaying" /\ there.view = EmptyState
          /\ there.due = next.due /\ there.todo = next.todo /\ there.failed = bad
      BY <3>1, <3>2 DEF Wheres
    <3> HIDE DEF there
    <3> QED BY <1>1, <3>1, <3>3
  <2> HIDE DEF there
  <2> QED BY <1>1, <2>1, <2>3, ElsewhereKeeps DEF exitsOnChain, EverClaimed
<1>13. CASE UNCHANGED sdkVars
  BY <1>13 DEF sdkVars, SdkInv, SdkTypes, AtAnExit, PaidFirst, OnlyPaid, AllWritten, Complete, InTheFile,
               Recorded, Unwritten, StillToDo, EverClaimed
<1> QED BY <1>2, <1>3, <1>4, <1>5, <1>7, <1>8, <1>9, <1>10, <1>11, <1>12, <1>13, <1>14 DEF SdkNext

LEMMA SdkInvSuffices == ASSUME SdkInv PROVE NoExitIsLost
<1>1. MarkedIsClaimed
  BY DEF SdkInv, PaidFirst, OnlyPaid, MarkedIsClaimed
<1>2. RecordsAreLostForAReason
  BY DEF SdkInv, AllWritten, Complete, Unwritten, RecordsAreLostForAReason
<1>3. ReplaysReachAll
  BY DEF SdkInv, StillToDo, AgentAt, ReplaysReachAll
<1> QED BY <1>1, <1>2, <1>3 DEF NoExitIsLost

\* No exit is lost to the sdk: its record goes only with a break or an overlap of two processes, it is
\* called claimed only when BSC has taken the claim, and a replay that ends leaves out nothing that was
\* payable when it began but the records whose own claim failed.
THEOREM ExitsAreKept == SdkSpec => []NoExitIsLost
<1>1. SdkInit => SdkInv
  BY SdkStart
<1>2. SdkInv /\ [SdkNext]_sdkVars => SdkInv'
  BY SdkStep
<1>3. SdkInv => NoExitIsLost
  BY SdkInvSuffices
<1> QED BY <1>1, <1>2, <1>3, PTL DEF SdkSpec
=============================================================================
