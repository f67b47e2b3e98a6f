---------------------------- MODULE NodeRegistry ----------------------------
(***************************************************************************)
(* contracts/src/ValidatorStaking.sol, the node registry: one global list  *)
(* and one list per operator, a node knowing its place in both, and nodes  *)
(* leaving either list by swap-and-pop.                                    *)
(*                                                                         *)
(* What an operator's stake allows is the subject of ValidatorStaking,     *)
(* whose nodes[v] is Len(validatorNodes[v]).  Indexes count from 1.        *)
(***************************************************************************)
EXTENDS Integers, SequencesExt

CONSTANTS Operators, NodeIds, MAX_NODES, MAX_STRIKES

NoNode == [registered |-> FALSE]

ASSUME RegistrySizes == MAX_NODES \in Nat /\ MAX_STRIKES \in Nat \ {0}

VARIABLES nodeList, node, validatorNodes

registryVars == <<nodeList, node, validatorNodes>>

RegistryInit ==
    /\ nodeList = <<>>
    /\ node = [n \in NodeIds |-> NoNode]
    /\ validatorNodes = [v \in Operators |-> <<>>]

MayRegister(n) == ~node[n].registered

RegisterNode(v, n) ==
    /\ MayRegister(n)
    /\ Len(nodeList) < MAX_NODES
    /\ node' = [node EXCEPT ![n] =
            [registered |-> TRUE, validator |-> v, active |-> TRUE, strikes |-> 0,
             listIndex |-> Len(nodeList) + 1, ownerIndex |-> Len(validatorNodes[v]) + 1]]
    /\ nodeList' = Append(nodeList, n)
    /\ validatorNodes' = [validatorNodes EXCEPT ![v] = Append(@, n)]

\* The last entry of s takes the place i; node m, which stands at place j, hears of it when it moved.
SwapPop(s, i) == Front([s EXCEPT ![i] = Last(s)])
PlaceKept(s, i, m, j) == j
PlaceAfter(s, i, m, j) == IF m = Last(s) THEN i ELSE j

RetireNode(v, n) ==
    LET gone == node[n]
        moved(m) == [node[m] EXCEPT
            !.listIndex = PlaceAfter(nodeList, gone.listIndex, m, @),
            !.ownerIndex = PlaceAfter(validatorNodes[v], gone.ownerIndex, m, @)] IN
    /\ gone.registered /\ gone.validator = v
    /\ node' = [m \in NodeIds |->
            IF m = n \/ ~node[m].registered THEN NoNode ELSE moved(m)]
    /\ nodeList' = SwapPop(nodeList, gone.listIndex)
    /\ validatorNodes' = [validatorNodes EXCEPT ![v] = SwapPop(@, gone.ownerIndex)]

\* _strike of attestDay and reveal: every node of the operator, active until the last strike.
\* (A node at MAX_STRIKES may be struck on; nothing tells the counts apart.)
Struck(nd) ==
    [nd EXCEPT !.strikes = IF @ < MAX_STRIKES THEN @ + 1 ELSE @,
               !.active = @ /\ nd.strikes + 1 < MAX_STRIKES]

OfOperator(v, becomes) ==
    [n \in NodeIds |-> IF n \in Range(validatorNodes[v]) THEN becomes[n] ELSE node[n]]

Strike(v) ==
    /\ validatorNodes[v] # <<>>
    /\ node' = OfOperator(v, [n \in NodeIds |-> Struck(node[n])])
    /\ UNCHANGED <<nodeList, validatorNodes>>

\* executeRemoveValidator.
RemoveOperator(v) ==
    /\ node' = OfOperator(v, [n \in NodeIds |-> [node[n] EXCEPT !.active = FALSE]])
    /\ UNCHANGED <<nodeList, validatorNodes>>

RegistryNext == \E v \in Operators :
    \/ \E n \in NodeIds : RegisterNode(v, n) \/ RetireNode(v, n)
    \/ Strike(v) \/ RemoveOperator(v)

RegistrySpec == RegistryInit /\ [][RegistryNext]_registryVars

-----------------------------------------------------------------------------
\* Through any registering and retiring, both lists hold exactly the registered nodes, each once, and
\* every node finds itself at the places it remembers: retireNode pops by these indexes unchecked.
ListsAreIndexed ==
    /\ \A n \in NodeIds : node[n].registered =>
        LET own == validatorNodes[node[n].validator] IN
        /\ node[n].listIndex \in DOMAIN nodeList /\ nodeList[node[n].listIndex] = n
        /\ node[n].ownerIndex \in DOMAIN own /\ own[node[n].ownerIndex] = n
    /\ \A i \in DOMAIN nodeList : node[nodeList[i]].registered /\ node[nodeList[i]].listIndex = i
    /\ \A v \in Operators : \A i \in DOMAIN validatorNodes[v] :
        LET n == validatorNodes[v][i]
        IN  node[n].registered /\ node[n].validator = v /\ node[n].ownerIndex = i

\* A node that was struck out, or whose operator was removed, is active again only after its own
\* operator took it off the list: nobody else can reset it.
StruckOutStaysOut ==
    \A n \in NodeIds : node[n].registered /\ ~node[n].active =>
        \/ ~node'[n].registered
        \/ ~node'[n].active /\ node'[n].validator = node[n].validator
=============================================================================
