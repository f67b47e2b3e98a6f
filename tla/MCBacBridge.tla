---------------------------- MODULE MCBacBridge ----------------------------
(* Instances of BacBridge for TLC: which exits the layer anchored. *)
EXTENDS BacBridge, TLC

CONSTANTS w1, w2, a1, a2

Exit(id, epoch, agent, to, credits) ==
    [id |-> id, epoch |-> epoch, agent |-> agent, to |-> to, credits |-> credits]

\* Two addresses; a1's second exit is larger than what it can still attribute.
TwoExits == {Exit(1, 1, a1, w1, 2), Exit(2, 2, a1, w2, 3)}
SharedAddress == TwoExits \cup {Exit(3, 2, a1, w1, 1)}
TwoEpochs == {Exit(1, 1, a1, w1, 2), Exit(2, 1, a1, w2, 1), Exit(3, 2, a1, w1, 2)}
OneExit == {Exit(1, 1, a1, w1, 2)}
FinalUnwitnessed == {<<"FINAL", FALSE>>}
FinalWitnessed == {<<"FINAL", TRUE>>}
AnyOutcome == FinalUnwitnessed \cup FinalWitnessed \cup {<<"VETOED", FALSE>>, <<"DISPUTED", FALSE>>}
=============================================================================
