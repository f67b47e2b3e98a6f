------------------------ MODULE MCValidatorStaking ------------------------
(* Instances of ValidatorStaking for TLC.  The state space of stakes that come and go, and that   *)
(* of pots and claims, are each small and their product is not, so a behaviour looks at one of    *)
(* the two: either stakes move freely and no rewards are funded, or the stakes stay where they    *)
(* are at the start and everything else happens.                                                  *)
EXTENDS ValidatorStaking, TLC

CONSTANTS v1, v2, Focuses, StakesUntil

VARIABLE focus

mcVars == <<vars, focus>>

\* Stakes move one by one and vote on the first anchor; nothing is funded, and the clock stops early.
OnStakes ==
    /\ UNCHANGED <<rewardVars, adminVars, dayHeadSubmitted>>
    /\ commitments' \cup hasRevealed' \subseteq {firstEpoch} \X Validators
    /\ \A v \in Validators : staked'[v] - staked[v] \in {-1, 0, 1}
    /\ wallet' >= 1
    /\ now' <= StakesUntil

\* Everyone runs a node and the pots are funded before the clock moves on; every vote agrees and is
\* on the first day, and every anchor comes as late as it may and is finalized.
OnRewards ==
    /\ UNCHANGED pendingUnstake
    /\ \A v \in Validators : staked'[v] >= staked[v] /\ nodes'[v] \in nodes[v]..1
    /\ <<staked, nodes, lifetimeFunded>>' # <<staked, nodes, lifetimeFunded>> => now = StartTime
    /\ now' # now => \A v \in Validators : nodes[v] = 1
    /\ postedAt' # postedAt => now = (lastPosted' + 1) * EPOCH + COMMIT_WINDOW + MaxPostDelay
    /\ waiting /\ ~waiting' => now >= postedAt + ANCHOR_WAIT
    /\ \A vote \in commitments' : vote[1] \div EPOCHS_PER_DAY = StartTime \div DAY
    /\ \A v \in Removable :
          removalEta'[v] \notin {0, removalEta[v]} => removalEta[v] = 0 /\ now = StartTime + DAY
    /\ hasRevealed' # hasRevealed => \E e \in Epochs : CountOf(e, "agree")' > CountOf(e, "agree")

Looked ==
    /\ UNCHANGED focus
    /\ focus = "stakes" => OnStakes
    /\ focus = "rewards" => OnRewards

MCInit == Init /\ focus \in Focuses
MCNext == Next /\ Looked
MCSpec == MCInit /\ [][MCNext]_mcVars
MCLiveSpec ==
    /\ MCSpec /\ WF_mcVars(Tick /\ Looked)
    /\ \A d \in Days : WF_mcVars(SweepExpired(d) /\ Looked)
=============================================================================
