--------------------------- MODULE AnchorPromise ---------------------------
(***************************************************************************)
(* What the other contracts may rely on of the anchor contract: epochs are *)
(* resolved one after the other, each only once it is over, and for good.  *)
(* BacBridge is modelled against this promise; ChainAnchor implements it.  *)
(***************************************************************************)
EXTENDS Integers

CONSTANTS EPOCH, StartTime, MaxEpoch

VARIABLES now, state

Epochs == 0..MaxEpoch
Outcomes == {"FINAL", "VETOED", "DISPUTED"}
firstEpoch == StartTime \div EPOCH

Init ==
    /\ now = StartTime
    /\ state = [e \in Epochs |-> "OPEN"]

Elapse ==
    /\ now' \in Nat /\ now' > now
    /\ UNCHANGED state

Resolve(e, outcome) ==
    /\ e >= firstEpoch /\ state[e] = "OPEN"
    /\ \A d \in Epochs : firstEpoch <= d /\ d < e => state[d] # "OPEN"
    /\ now >= (e + 1) * EPOCH
    /\ state' = [state EXCEPT ![e] = outcome]
    /\ UNCHANGED now

Next == Elapse \/ \E e \in Epochs, outcome \in Outcomes : Resolve(e, outcome)

Spec == Init /\ [][Next]_<<now, state>>
=============================================================================
