----------------------------- MODULE MCAttester -----------------------------
(* One process, against the contract's own window. *)
EXTENDS Attester, TLC

CONSTANTS a1, ha

MCHomeOf == a1 :> ha
=============================================================================
