---------------------------- MODULE BacTaxRouter ----------------------------
(***************************************************************************)
(* contracts/src/BacTaxRouter.sol: tax arrives as plain BNB, is recognized *)
(* by the growth of the balance, split in two, and pushed to the bridge    *)
(* and to the node fund; a push that fails is booked and retried.          *)
(*                                                                         *)
(* A call is modelled push by push: while one is open the callee may send  *)
(* BNB back, and if it fails everything since the push opened is undone.   *)
(* Nothing else may start while a call runs (nonReentrant), but receive()  *)
(* may.  The bridge is external: it refuses until it accepts.              *)
(***************************************************************************)
EXTENDS BacNodeFund

CONSTANTS
    ROUTER_BPS, BRIDGE_BPS,
    Payments,                \* what may arrive at once
    MaxPaid                  \* bound on everything that arrives

ASSUME RouterSizes == ROUTER_BPS \in Nat \ {0} /\ BRIDGE_BPS \in 0..ROUTER_BPS /\ MaxPaid \in Nat
                      /\ Payments \subseteq Nat \ {0}

VARIABLES
    balance,                 \* of the contract
    accounted, unsplit,      \* the two halves of _revenue
    stuck, lifetimeTo,       \* per target
    pushes,                  \* what is left of the running call: pushes in order
    opened,                  \* the open push, as a sequence of at most one state to fall back on
    bridgeAccepts,           \* external: acceptRelease of the bridge
    paid,                    \* history: everything that ever arrived
    splits                   \* history: how often revenue was split

books == <<accounted, unsplit>>
routerVars == <<balance, books, stuck, lifetimeTo, pushes, opened, bridgeAccepts, paid, splits, fundVars>>

-----------------------------------------------------------------------------
Targets == {"bridge", "nodeFund"}

RouterInit ==
    /\ FundInit
    /\ balance = 0 /\ accounted = 0 /\ unsplit = 0
    /\ stuck = [t \in Targets |-> 0] /\ lifetimeTo = [t \in Targets |-> 0]
    /\ pushes = <<>> /\ opened = <<>>
    /\ bridgeAccepts \in BOOLEAN
    /\ paid = 0 /\ splits = 0

Idle == pushes = <<>>

\* _syncRevenue when the balance is bal: the growth over the baseline is new revenue.
Grown(bal) == IF bal > accounted THEN bal - accounted ELSE 0
SyncRevenue(bal) == unsplit' = unsplit + Grown(bal) /\ accounted' = accounted + Grown(bal)

\* BNB comes from anyone, or from the bridge while a push to it is open.
Arrives(amount) ==
    /\ Idle \/ (opened # <<>> /\ Head(pushes).to = "bridge")
    /\ paid + amount <= MaxPaid
    /\ paid' = paid + amount
    /\ balance' = balance + amount
    /\ UNCHANGED <<stuck, lifetimeTo, pushes, opened, bridgeAccepts, splits, fundVars>>

\* receive() and acceptRelease() book it at once; what arrives without a call waits for a sync.
Receive(amount) == Arrives(amount) /\ SyncRevenue(balance + amount)
ForcedPayment(amount) == Arrives(amount) /\ UNCHANGED books

Sync ==
    /\ Idle
    /\ SyncRevenue(balance)
    /\ UNCHANGED <<balance, stuck, lifetimeTo, pushes, opened, bridgeAccepts, paid, splits, fundVars>>

-----------------------------------------------------------------------------
Push(target, amount) == [to |-> target, amount |-> amount, retry |-> FALSE]
Retry(target) == [to |-> target, amount |-> 0, retry |-> TRUE]

\* The retries of a call: what is stuck is read when its turn comes.
RetriesOfTheFundTwice == <<Retry("nodeFund"), Retry("nodeFund")>>
Retries == <<Retry("bridge"), Retry("nodeFund")>>

ToNodeFund(total) == (total * (ROUTER_BPS - BRIDGE_BPS)) \div ROUTER_BPS

\* settle() and flush(): sync, split what is unsplit, push both halves, then retry.
Settle ==
    LET total == unsplit + Grown(balance) IN
    /\ Idle
    /\ accounted' = accounted + Grown(balance)
    /\ unsplit' = 0
    /\ splits' = splits + (IF total = 0 THEN 0 ELSE 1)
    /\ pushes' = <<Push("bridge", total - ToNodeFund(total)), Push("nodeFund", ToNodeFund(total))>> \o Retries
    /\ UNCHANGED <<balance, stuck, lifetimeTo, opened, bridgeAccepts, paid, fundVars>>

RetryPush ==
    /\ Idle
    /\ pushes' = Retries
    /\ UNCHANGED <<balance, books, stuck, lifetimeTo, opened, bridgeAccepts, paid, splits, fundVars>>

AmountOf(push) == IF push.retry THEN stuck[push.to] ELSE push.amount

\* _retry empties the bucket first; emptied only on success, a failed retry books it twice.
BucketsWhileOpenKept(push) == stuck
BucketsWhileOpen(push) == IF push.retry THEN [stuck EXCEPT ![push.to] = 0] ELSE stuck

SkipEmptyPush ==
    /\ ~Idle /\ opened = <<>> /\ AmountOf(Head(pushes)) = 0
    /\ pushes' = Tail(pushes)
    /\ UNCHANGED <<balance, books, stuck, lifetimeTo, opened, bridgeAccepts, paid, splits, fundVars>>

\* _push up to the external call: the baseline goes down before the BNB leaves.  The balance covers
\* it: RouterIsSolvent.
OpenPush ==
    LET push == Head(pushes)
        amount == AmountOf(push) IN
    /\ ~Idle /\ opened = <<>> /\ amount # 0 /\ amount <= balance
    /\ pushes' = <<[push EXCEPT !.amount = amount]>> \o Tail(pushes)
    /\ stuck' = BucketsWhileOpen(push)
    /\ balance' = balance - amount
    /\ accounted' = accounted - (IF accounted < amount THEN accounted ELSE amount)
    /\ opened' = <<[paid |-> paid, accounted |-> accounted', unsplit |-> unsplit]>>
    /\ UNCHANGED <<unsplit, lifetimeTo, bridgeAccepts, paid, splits, fundVars>>

\* The books are read again once the callee returned, since it may have paid in.
PushSucceeds ==
    LET push == Head(pushes) IN
    /\ opened # <<>>
    /\ push.to = "bridge" => bridgeAccepts
    /\ lifetimeTo' = [lifetimeTo EXCEPT ![push.to] = @ + push.amount]
    /\ IF push.to = "nodeFund" THEN RouterPays(push.amount) ELSE UNCHANGED fundVars
    /\ pushes' = Tail(pushes) /\ opened' = <<>>
    /\ UNCHANGED <<balance, books, stuck, bridgeAccepts, paid, splits>>

\* The callee's own steps are undone, the BNB is back, and the amount is booked as stuck.
PushFails ==
    LET push == Head(pushes)
        before == opened[1] IN
    /\ opened # <<>>
    /\ push.to = "bridge" /\ ~bridgeAccepts
    /\ balance' = balance + push.amount - (paid - before.paid)
    /\ paid' = before.paid
    /\ accounted' = before.accounted + push.amount /\ unsplit' = before.unsplit
    /\ stuck' = [stuck EXCEPT ![push.to] = @ + push.amount]
    /\ pushes' = Tail(pushes) /\ opened' = <<>>
    /\ UNCHANGED <<lifetimeTo, bridgeAccepts, splits, fundVars>>

CallStep == SkipEmptyPush \/ OpenPush \/ PushSucceeds \/ PushFails

\* External: whatever made the bridge refuse is over.
BridgeAcceptsAgain ==
    /\ ~bridgeAccepts /\ bridgeAccepts' = TRUE
    /\ UNCHANGED <<balance, books, stuck, lifetimeTo, pushes, opened, paid, splits, fundVars>>

-----------------------------------------------------------------------------
RouterNext ==
    \/ \E amount \in Payments : Receive(amount) \/ ForcedPayment(amount)
    \/ Sync \/ Settle \/ RetryPush
    \/ CallStep
    \/ BridgeAcceptsAgain
    \/ FundStep /\ Idle /\ UNCHANGED <<balance, books, stuck, lifetimeTo, pushes, opened, bridgeAccepts,
                                       paid, splits>>

\* A call runs to its end, somebody settles (anyone may, for nothing), the bridge accepts some day.
RouterFairness == WF_routerVars(CallStep) /\ SF_routerVars(Settle) /\ WF_routerVars(BridgeAcceptsAgain)

RouterSpec == RouterInit /\ [][RouterNext]_routerVars /\ RouterFairness

-----------------------------------------------------------------------------
\* A push of the running call whose amount is in no bucket: not a retry, or the open one.
Due(i) == IF pushes[i].retry /\ ~(i = 1 /\ opened # <<>>) THEN 0 ELSE pushes[i].amount
InFlightTo(t) == SumFunction([i \in DOMAIN pushes |-> IF pushes[i].to = t THEN Due(i) ELSE 0])
Outside == IF opened = <<>> THEN 0 ELSE Head(pushes).amount
Buckets == unsplit + stuck["bridge"] + stuck["nodeFund"]

\* The books hold in every state, in the middle of a call too: the balance covers the baseline, the
\* baseline is exactly the unsplit, the stuck and what the running call has still to push, and
\* what ever arrived is delivered, in the balance, or with the open push.
RouterIsSolvent ==
    /\ accounted <= balance
    /\ accounted + Outside = Buckets + InFlightTo("bridge") + InFlightTo("nodeFund")
    /\ paid = lifetimeTo["bridge"] + lifetimeTo["nodeFund"] + balance + Outside

\* The halves never drift: over all the splits the bridge is ahead by less than a wei per split,
\* refused and retried pushes included.
HalvesStayEven ==
    LET half(t) == lifetimeTo[t] + stuck[t] + InFlightTo(t)
    IN  half("bridge") - half("nodeFund") \in 0..splits

\* The fund's counters explain its balance: it was told of all that the router delivered and others
\* gave, and only what was forced in without a call is more than it was told of.
FundBooksBalance ==
    /\ fundBalance + lifetimeWithdrawn = lifetimeReceived + forcedBnb
    /\ lifetimeReceived = lifetimeTo["nodeFund"] + given

\* Tax is never stranded: whatever was refused, forced in or sent back, all that arrived is with the
\* bridge and the fund some day.
EverythingIsDelivered == (paid > 0) ~> (paid = lifetimeTo["bridge"] + lifetimeTo["nodeFund"])

\* The tax adds up, from the portal to the owner of the fund, in the middle of any call: the books are
\* covered, neither half gets ahead of the other, and the fund was told of all it was sent.
TaxBooksBalance == RouterIsSolvent /\ HalvesStayEven /\ FundBooksBalance
=============================================================================
