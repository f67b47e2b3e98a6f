----------------------------- MODULE MCRelayer -----------------------------
(* Instances of Relayer and SdkExits for TLC: side by side, a behaviour is of one of them. *)
EXTENDS Relayer, SdkExits, TLC

CONSTANTS d1, d2, Programs

VARIABLE program

\* A program that is not chosen stays in its initial state.
ProgramsInit == program \in Programs /\ Init /\ SdkInit
ProgramsNext ==
    /\ UNCHANGED program
    /\ \/ program = "relayer" /\ Next /\ UNCHANGED sdkVars
       \/ program = "sdk" /\ SdkNext /\ UNCHANGED vars
ProgramsSpec == ProgramsInit /\ [][ProgramsNext]_<<program, vars, sdkVars>>
=============================================================================
