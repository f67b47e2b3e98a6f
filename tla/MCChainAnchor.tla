--------------------------- MODULE MCChainAnchor ---------------------------
(* Instances of ChainAnchor for TLC: what relayers post and validators vote. *)
EXTENDS ChainAnchor, TLC

CONSTANTS r1, r2

Report(credited, exits, l2Block, rooted) ==
    [credited |-> credited, exits |-> exits, l2Block |-> l2Block, rooted |-> rooted]
Vote(agreeing, disputing, agreeingCount, disputingCount, staked) ==
    [agreeing |-> agreeing, disputing |-> disputing, agreeingCount |-> agreeingCount,
     disputingCount |-> disputingCount, staked |-> staked]

\* Empty epochs, deposits, exits with and without a root, a block number that went back.
FewReports == {Report(0, 0, 2, FALSE), Report(1, 1, 1, TRUE), Report(2, 1, 2, FALSE)}

\* A dispute that stands.
Disputes == {Vote(1, 2, 1, 2, 3)}
=============================================================================
