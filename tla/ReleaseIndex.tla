---------------------------- MODULE ReleaseIndex ----------------------------
(***************************************************************************)
(* The release index of BacBridge: how one pot is shared out over the owed *)
(* that no pot has reached yet.  A point [p, scale, gen] stands for the    *)
(* fraction of a debt that is still unreleased: p is a running product,    *)
(* scale counts the rescalings that keep it above RELEASE_FLOOR and gen    *)
(* the full releases.  The code has RELEASE_RESCALE = 1e9,                 *)
(* RELEASE_FLOOR = 1e36 = RESCALE^4 and RELEASE_ONE = 1e45 = RESCALE^5;    *)
(* the module keeps these two relations and leaves RESCALE open.           *)
(***************************************************************************)
EXTENDS Integers

CONSTANT RELEASE_RESCALE

ASSUME RescaleAssumption == RELEASE_RESCALE \in Nat /\ RELEASE_RESCALE > 1

\* The powers of the rescaling factor the code can reach: _unreleased stops at 3,
\* and a product of at least 1 is above the floor after at most 4 rescalings.
Rescales ==
    [d \in 0..5 |->
        CASE d = 0 -> 1
          [] d = 1 -> RELEASE_RESCALE
          [] d = 2 -> RELEASE_RESCALE * RELEASE_RESCALE
          [] d = 3 -> RELEASE_RESCALE * RELEASE_RESCALE * RELEASE_RESCALE
          [] d = 4 -> RELEASE_RESCALE * RELEASE_RESCALE * RELEASE_RESCALE * RELEASE_RESCALE
          [] OTHER -> RELEASE_RESCALE * RELEASE_RESCALE * RELEASE_RESCALE
                        * RELEASE_RESCALE * RELEASE_RESCALE]

RELEASE_FLOOR == Rescales[4]
RELEASE_ONE == Rescales[5]

ReleasePoint == [p : Nat \ {0}, scale : Nat, gen : Nat]

InitialPoint == [p |-> RELEASE_ONE, scale |-> 0, gen |-> 0]

\* The `while (p < RELEASE_FLOOR)` loop: the fewest rescalings that reach the floor.
RescalesNeeded(p) ==
    CHOOSE d \in 0..4 : /\ p * Rescales[d] >= RELEASE_FLOOR
                        /\ d # 0 => p * Rescales[d - 1] < RELEASE_FLOOR

\* `_advanceRelease(pot, headroom)`, for 0 < pot <= headroom.
AdvanceRelease(g, pot, headroom) ==
    IF pot = headroom
    THEN [p |-> RELEASE_ONE, scale |-> 0, gen |-> g.gen + 1]
    ELSE LET shrunk == (g.p * (headroom - pot)) \div headroom
             p == IF shrunk = 0 THEN 1 ELSE shrunk
             d == RescalesNeeded(p)
         IN  [p |-> p * Rescales[d], scale |-> g.scale + d, gen |-> g.gen]

\* `_unreleased`: what is left at point g of u that was unreleased at the older point s.
StillUnreleased(u, s, g) ==
    IF u = 0 \/ g.gen # s.gen \/ g.scale - s.scale > 3
    THEN 0
    ELSE ((u * g.p) \div s.p) \div Rescales[g.scale - s.scale]
=============================================================================
