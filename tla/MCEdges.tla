------------------------------- MODULE MCEdges -------------------------------
(***************************************************************************)
(* Parts that share no state with each other, checked side by side:       *)
(* `part` is chosen at the start, and only that part moves.  The state     *)
(* space is the sum of theirs.                                             *)
(***************************************************************************)
EXTENDS BacTaxRouter, Watchdog, NodeRegistry, Layer, WrappedBac, Indexer, BuiltTokens, Attester,
        EpochBlocks, ExitTree, Reconcile, SlowLoop

CONSTANTS w1, w2, r1, r2, A, B, P, u, v, zero, a1, a2, ha, hb, l1, l2, l3, l4, l5

Parts == {"router", "watchdog", "registry", "layer", "wbac", "indexer", "economy", "attester",
          "blocks", "tree", "reconcile", "slow"}

VARIABLE part

edgeVars == <<part, routerVars, watchVars, registryVars, layerVars, wrapVars, indexerVars, builtVars,
              attesterVars, epochVars, gathered, reconcileVars, slowVars>>
mathVars == <<epochVars, gathered, reconcileVars, slowVars>>

(* Layer: two agents, two wallets; an agent changes its wallet, the other one enters with the wallet  *)
(* that came free; a rotation and a rotation back.                                                   *)
MCLocks == {[agent |-> 1, to |-> w1, amount |-> 2], [agent |-> 2, to |-> w2, amount |-> 1]}
MCSyncRows == {
    [agent |-> 1, wallet |-> w1, active |-> TRUE, bscBlock |-> 1],
    [agent |-> 1, wallet |-> w2, active |-> TRUE, bscBlock |-> 2],
    [agent |-> 2, wallet |-> w2, active |-> FALSE, bscBlock |-> 1]}
MCSigned == {[relayer |-> r2, nonce |-> 0], [relayer |-> r1, nonce |-> 1]}

(* Indexer: a deposit, two exits in two epochs; the first anchor is vetoed or final, the second final.  *)
Ev(kind, id, epoch) == [kind |-> kind, id |-> id, epoch |-> epoch]
EmptyChains == [layer |-> <<>>, bsc |-> <<>>, endOf |-> 0 :> 0 @@ 1 :> 0]
MCHistories ==
    LET anchor(e) == Ev("posted", e, 0)
        final(e) == Ev("final", e, 0)
        veto(e) == Ev("vetoed", e, 0) IN
    {EmptyChains} \cup
    {[layer |-> <<Ev("credited", 1, 0), Ev("exit", 1, 0), Ev("act", 1, 0), Ev("exit", 2, 1)>>,
      endOf |-> 0 :> 3 @@ 1 :> 4,
      bsc |-> <<Ev("locked", 1, 0), anchor(0)>> \o rest] :
        rest \in {<<veto(0), anchor(1), final(1), Ev("claimed", 2, 1)>>,
                  <<final(0), anchor(1), final(1), Ev("claimed", 2, 1)>>}}

(* BuiltTokens: two tokens and a pair of them; a pool before its tokens, whose shares turn out   *)
(* odd, and a token that turns out an NFT.                                                         *)
MCSidesOf == P :> <<A, B>>
Log(type, a, from, to) ==
    [type |-> type, at |-> a, from |-> from, to |-> to, value |-> IF type = "transfer" THEN 1 ELSE 0]
Moves(a, from, to) == Log("transfer", a, from, to)
Shows(type, a) == Log(type, a, zero, u)
MCLayerBlocks ==
    {<< <<Shows("created", P)>>,
        <<Moves(A, zero, u), Moves(P, zero, u), Shows("swap", P)>>,
        <<Moves(P, u, v)>>,
        <<Moves(A, u, v), Shows("swap", P), Shows("nft", P)>> >>,
     << <<Shows("odd", B)>>,
        <<Shows("swap", P)>>,
        <<Moves(A, zero, u)>>,
        <<Moves(A, u, v), Shows("nft", A)>>,
        <<Moves(B, zero, u), Shows("swap", P)>> >>}

(* Attester: one key on two machines, each with a directory of its own. *)
MCHomeOf == a1 :> ha @@ a2 :> hb
\* The machines are alike, so a1 may be the one to draw the first salt.
FirstSaltIsOfA1 == salts = 0 => attester'[a2] = attester[a2] \/ salts' = 0

(* ExitTree: enough leaves for an odd one to rise twice. *)
MCLeafHash == <<l1, l2, l3, l4, l5>>

\* A part that is not chosen stays in one initial state.
EdgesInit ==
    /\ part \in Parts
    /\ RouterInit /\ WatchInit /\ RegistryInit /\ LayerInit /\ WrapInit /\ IndexerInit /\ BuiltInit
    /\ AttesterInit /\ EpochInit /\ ExitTreeInit /\ ReconcileInit /\ SlowInit
    /\ part = "router" \/ (bridgeAccepts /\ owner = CHOOSE o \in Owners : TRUE)
    /\ part = "indexer" \/ chains = EmptyChains
    /\ part = "economy" \/ layerBlocks = CHOOSE h \in MCLayerBlocks : TRUE
    /\ part = "blocks" \/ clock = 0
    /\ part = "slow" \/ settledEpoch = 0

EdgesNext ==
    /\ UNCHANGED part
    /\ \/ part = "router" /\ RouterNext
          /\ UNCHANGED <<watchVars, registryVars, layerVars, wrapVars, indexerVars, builtVars, attesterVars, mathVars>>
       \/ part = "watchdog" /\ WatchNext
          /\ UNCHANGED <<routerVars, registryVars, layerVars, wrapVars, indexerVars, builtVars, attesterVars, mathVars>>
       \/ part = "registry" /\ RegistryNext
          /\ UNCHANGED <<routerVars, watchVars, layerVars, wrapVars, indexerVars, builtVars, attesterVars, mathVars>>
       \/ part = "layer" /\ LayerNext
          /\ UNCHANGED <<routerVars, watchVars, registryVars, wrapVars, indexerVars, builtVars, attesterVars, mathVars>>
       \/ part = "wbac" /\ WrapNext
          /\ UNCHANGED <<routerVars, watchVars, registryVars, layerVars, indexerVars, builtVars, attesterVars, mathVars>>
       \/ part = "indexer" /\ IndexerNext
          /\ UNCHANGED <<routerVars, watchVars, registryVars, layerVars, wrapVars, builtVars, attesterVars, mathVars>>
       \/ part = "economy" /\ BuiltNext
          /\ UNCHANGED <<routerVars, watchVars, registryVars, layerVars, wrapVars, indexerVars, attesterVars, mathVars>>
       \/ part = "attester" /\ AttesterNext /\ FirstSaltIsOfA1
          /\ UNCHANGED <<routerVars, watchVars, registryVars, layerVars, wrapVars, indexerVars, builtVars, mathVars>>
       \/ part = "blocks" /\ EpochNext
          /\ UNCHANGED <<routerVars, watchVars, registryVars, layerVars, wrapVars, indexerVars, builtVars,
                        attesterVars, gathered, reconcileVars, slowVars>>
       \/ part = "tree" /\ ExitTreeNext
          /\ UNCHANGED <<routerVars, watchVars, registryVars, layerVars, wrapVars, indexerVars, builtVars,
                        attesterVars, epochVars, reconcileVars, slowVars>>
       \/ part = "reconcile" /\ ReconcileNext
          /\ UNCHANGED <<routerVars, watchVars, registryVars, layerVars, wrapVars, indexerVars, builtVars,
                        attesterVars, epochVars, gathered, slowVars>>
       \/ part = "slow" /\ SlowNext
          /\ UNCHANGED <<routerVars, watchVars, registryVars, layerVars, wrapVars, indexerVars, builtVars,
                        attesterVars, epochVars, gathered, reconcileVars>>

\* The fairness of the parts that have one.
EdgesFairness ==
    /\ WF_routerVars(part = "router" /\ CallStep)
    /\ SF_routerVars(part = "router" /\ Settle)
    /\ WF_routerVars(part = "router" /\ BridgeAcceptsAgain)
    /\ WF_watchVars(part = "watchdog" /\ WatchStep)
    /\ WF_indexerVars(part = "indexer" /\ LayerLoop)
    /\ WF_indexerVars(part = "indexer" /\ BscLoop)

EdgesSpec == EdgesInit /\ [][EdgesNext]_edgeVars /\ EdgesFairness

-----------------------------------------------------------------------------
(* Properties of more than one part *)

\* The registers of the contracts agree with themselves: a node finds itself in both lists, an agent's
\* wallet finds its agent, after any registering, retiring, mirroring and changing of wallets.
RegistersAreIndexed == (part = "registry" => ListsAreIndexed) /\ (part = "layer" => GateIsABijection)

\* The money on the layer adds up: credits against the reserve, wrapped against native BAC, what an agent
\* exits against its own entries, what a spender moves against its approval.
LayerBooksHold ==
    /\ part = "layer" => LayerBooksBalance /\ NobodyActsAsAnother
    /\ part = "wbac" => WrappedIsBacked /\ SpendersStayWithinAllowance

\* The epochs and the trees that several programs compute on their own are the same ones.
ProgramsAgree == (part = "blocks" => RangesAgree) /\ (part = "tree" => ProofsPass)

\* The indexer's tables and the explorer's tokens are what the chains say.
IndexIsTrue == (part = "indexer" => IndexTellsTheChains) /\ (part = "economy" => LateIsAsGoodAsEarly)

\* What a late, repeated or old message finds done it does not take back: a node that was struck out,
\* a newer row of the gate, a rotation, what the indexer's other loop has completed.
NothingIsTakenBack ==
    [][StruckOutStaysOut /\ TheGateNeverGoesBack /\ RotationsAreNotReplayed /\ ReplaysTakeNothingBack]_edgeVars
==============================================================================
