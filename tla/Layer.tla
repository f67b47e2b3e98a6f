------------------------------- MODULE Layer -------------------------------
(***************************************************************************)
(* The system contracts of the layer (contracts/src/layer): L2Bridge lets  *)
(* credits in and burns them out, L2Gate mirrors which wallet entered as   *)
(* which agent, AgentBook publishes.  They meet in two lookups: whoever    *)
(* exits or publishes does it under the agent the gate holds for its       *)
(* wallet, and whoever may write the gate is the relayer of the bridge.    *)
(*                                                                         *)
(* The relayer is external here (Relayer models it): whoever holds the     *)
(* role sends any of its jobs, again and in any order, as a parked job is. *)
(***************************************************************************)
EXTENDS Integers, FiniteSets, Functions

CONSTANTS
    Wallets, NoWallet, Agents,              \* agent 0 is nobody
    RelayerKeys, GenesisRelayer,
    Locks,                                  \* [agent, to, amount]: each is one Locked event of BSC
    SyncRows,                               \* [agent, wallet, active, bscBlock]: what may be mirrored
    Signed,                                 \* [relayer, nonce]: what the rotation key ever signed
    Reserve,                                \* what the bridge holds at genesis
    LayerAmounts,                           \* of a transfer
    PUBLISH_FEE, MAX_PER_EPOCH,
    LastDay                                 \* bound on the clock

ASSUME LayerInputs ==
    /\ IsFiniteSet(Wallets) /\ NoWallet \notin Wallets /\ 0 \notin Agents /\ GenesisRelayer \in RelayerKeys
    /\ Locks \subseteq [agent : Agents, to : Wallets, amount : Nat \ {0}]
    /\ SyncRows \subseteq [agent : Agents, wallet : Wallets \cup {NoWallet}, active : BOOLEAN, bscBlock : Nat]
    /\ Signed \subseteq [relayer : RelayerKeys, nonce : Nat]
    /\ Reserve \in Nat /\ LayerAmounts \subseteq Nat \ {0} /\ LastDay \in Nat
    /\ PUBLISH_FEE \in Nat /\ MAX_PER_EPOCH \in Nat

VARIABLES
    day,                                        \* of the layer's clock
    held,                                       \* native BAC per wallet
    reserve, seen, creditable, totalCredited, totalExited, totalBurnedFloat,   \* L2Bridge
    rotationNonce, relayer,
    agentRow, walletAgentId,                    \* L2Gate
    countInEpoch,                               \* AgentBook, of the running day
    delivered, donated,                         \* history: out of and into the reserve
    acted                                       \* history: <<wallet, agent>> of exits and posts

moneyVars == <<held, reserve, creditable, totalCredited, totalExited, totalBurnedFloat, delivered, donated>>
roleVars == <<rotationNonce, relayer>>
gateVars == <<agentRow, walletAgentId>>
bookVars == <<day, countInEpoch>>
layerVars == <<moneyVars, seen, roleVars, gateVars, bookVars, acted>>

NoRow == [wallet |-> NoWallet, active |-> FALSE, bscBlock |-> 0]

LayerInit ==
    /\ day = 0 /\ held = [w \in Wallets |-> 0]
    /\ reserve = Reserve /\ seen = {} /\ creditable = [w \in Wallets |-> 0]
    /\ totalCredited = 0 /\ totalExited = 0 /\ totalBurnedFloat = 0
    /\ rotationNonce = 0 /\ relayer = GenesisRelayer
    /\ agentRow = [a \in Agents |-> NoRow] /\ walletAgentId = [w \in Wallets |-> 0]
    /\ countInEpoch = [w \in Wallets |-> 0]
    /\ delivered = 0 /\ donated = 0 /\ acted = {}

-----------------------------------------------------------------------------
(* L2Bridge.                                                               *)
NotSeen(lock) == lock \notin seen

Credit(sender, lock) ==
    /\ sender = relayer
    /\ NotSeen(lock)
    /\ seen' = seen \cup {lock}
    /\ creditable' = [creditable EXCEPT ![lock.to] = @ + lock.amount]
    /\ totalCredited' = totalCredited + lock.amount
    /\ UNCHANGED <<held, reserve, totalExited, totalBurnedFloat, delivered, donated, roleVars, gateVars,
                   bookVars, acted>>

\* Anyone delivers; a recipient that refuses undoes the call.
WithdrawCredits(to) ==
    /\ creditable[to] > 0 /\ creditable[to] <= reserve
    /\ creditable' = [creditable EXCEPT ![to] = 0]
    /\ reserve' = reserve - creditable[to] /\ delivered' = delivered + creditable[to]
    /\ held' = [held EXCEPT ![to] = @ + creditable[to]]
    /\ UNCHANGED <<totalCredited, totalExited, totalBurnedFloat, donated, seen, roleVars, gateVars,
                   bookVars, acted>>

\* The three ways back into the reserve.
Returns(from, amount) ==
    /\ amount \in LayerAmounts /\ amount <= held[from]
    /\ held' = [held EXCEPT ![from] = @ - amount]
    /\ reserve' = reserve + amount
    /\ UNCHANGED <<seen, creditable, totalCredited, delivered, roleVars, gateVars, bookVars>>

AgentOfWhoeverEntered(w) == CHOOSE a \in Agents : \A b \in Agents : agentRow[a].bscBlock >= agentRow[b].bscBlock
AgentOf(w) == walletAgentId[w]

\* No state of the gate refuses an exit.
Exit(from, amount) ==
    /\ Returns(from, amount)
    /\ totalExited' = totalExited + amount
    /\ acted' = acted \cup {<<from, AgentOf(from)>>}
    /\ UNCHANGED <<totalBurnedFloat, donated>>

BurnFloat(from, amount) ==
    /\ Returns(from, amount)
    /\ totalBurnedFloat' = totalBurnedFloat + amount
    /\ UNCHANGED <<totalExited, donated, acted>>

PlainTransfer(from, amount) ==
    /\ Returns(from, amount)
    /\ donated' = donated + amount
    /\ UNCHANGED <<totalExited, totalBurnedFloat, acted>>

NonceIsNext(message) == message.nonce = rotationNonce

\* Anyone submits a message of the rotation key.
RotateRelayer(message) ==
    /\ message.relayer # relayer
    /\ NonceIsNext(message)
    /\ rotationNonce' = message.nonce + 1
    /\ relayer' = message.relayer
    /\ UNCHANGED <<moneyVars, seen, gateVars, bookVars, acted>>

-----------------------------------------------------------------------------
(* L2Gate.                                                                 *)
OldUnbound(a, w) ==
    LET old == agentRow[a].wallet
    IN  [v \in Wallets |-> IF v = old /\ old # w THEN 0 ELSE walletAgentId[v]]

AnyRow(row) == TRUE
NotStale(row) == row.bscBlock >= agentRow[row.agent].bscBlock

ApplySync(sender, row) ==
    LET a == row.agent
        w == row.wallet
        unbound == OldUnbound(a, w) IN
    /\ sender = relayer
    /\ NotStale(row)
    /\ w # NoWallet => unbound[w] \in {0, a}
    /\ walletAgentId' = [v \in Wallets |-> IF v = w THEN a ELSE unbound[v]]
    /\ agentRow' = [agentRow EXCEPT ![a] = [wallet |-> w, active |-> row.active, bscBlock |-> row.bscBlock]]
    /\ UNCHANGED <<moneyVars, seen, roleVars, bookVars, acted>>

isAdmitted(w) == walletAgentId[w] # 0 /\ agentRow[walletAgentId[w]].active

-----------------------------------------------------------------------------
(* AgentBook.                                                              *)
Announce(w, fee) ==
    /\ isAdmitted(w)
    /\ fee >= PUBLISH_FEE /\ fee <= held[w]
    /\ countInEpoch[w] + 1 <= MAX_PER_EPOCH
    /\ countInEpoch' = [countInEpoch EXCEPT ![w] = @ + 1]
    /\ held' = [held EXCEPT ![w] = @ - fee]                     \* burned, all of it
    /\ acted' = acted \cup {<<w, AgentOf(w)>>}
    /\ UNCHANGED <<day, reserve, creditable, totalCredited, totalExited, totalBurnedFloat, delivered,
                   donated, seen, roleVars, gateVars>>

HeartbeatNote(w) ==
    /\ AgentOf(w) # 0
    /\ countInEpoch[w] + 1 <= MAX_PER_EPOCH
    /\ countInEpoch' = [countInEpoch EXCEPT ![w] = @ + 1]
    /\ acted' = acted \cup {<<w, AgentOf(w)>>}
    /\ UNCHANGED <<day, moneyVars, seen, roleVars, gateVars>>

NewDay ==
    /\ day < LastDay
    /\ day' = day + 1
    /\ countInEpoch' = [w \in Wallets |-> 0]
    /\ UNCHANGED <<moneyVars, seen, roleVars, gateVars, acted>>

-----------------------------------------------------------------------------
LayerNext ==
    \/ \E r \in RelayerKeys :
        \/ \E lock \in Locks : Credit(r, lock)
        \/ \E row \in SyncRows : ApplySync(r, row)
    \/ \E message \in Signed : RotateRelayer(message)
    \/ \E w \in Wallets :
        \/ WithdrawCredits(w) \/ HeartbeatNote(w)
        \/ \E amount \in LayerAmounts :
            Exit(w, amount) \/ BurnFloat(w, amount) \/ PlainTransfer(w, amount) \/ Announce(w, amount)
    \/ NewDay

LayerSpec == LayerInit /\ [][LayerNext]_layerVars

-----------------------------------------------------------------------------
\* The reserve is what genesis put there, less what was delivered, plus what came back; what was
\* credited is what is delivered or still claimable, and no deposit counts twice, however often and
\* by whichever relayer it is sent.
LayerBooksBalance ==
    /\ reserve + delivered = Reserve + totalExited + totalBurnedFloat + donated
    /\ SumFunction(creditable) + delivered = totalCredited
    /\ totalCredited = SumFunction([lock \in seen |-> lock.amount])

\* The gate pairs wallets and agents one to one: an agent whose wallet changed leaves no second wallet
\* behind that still acts in its name, and no wallet is taken from another agent.
GateIsABijection ==
    /\ \A w \in Wallets : walletAgentId[w] # 0 =>
        walletAgentId[w] \in Agents /\ agentRow[walletAgentId[w]].wallet = w
    /\ \A a \in Agents : agentRow[a].wallet # NoWallet => walletAgentId[agentRow[a].wallet] = a

\* Exits and posts are booked under an agent only from a wallet that was mirrored for that agent:
\* nobody spends the escape weight of an identity it never entered with.
NobodyActsAsAnother ==
    \A w \in Wallets, a \in Agents : <<w, a>> \in acted =>
        \E row \in SyncRows : row.agent = a /\ row.wallet = w

\* A row a parked job brings late never undoes a newer one.
TheGateNeverGoesBack ==
    \A a \in Agents : agentRow'[a].bscBlock >= agentRow[a].bscBlock

\* A rotation message works once: after it the nonce is past it for good, so a replayed old message
\* never brings back a relayer that was rotated out.
RotationsAreNotReplayed ==
    relayer' # relayer =>
        /\ [relayer |-> relayer', nonce |-> rotationNonce] \in Signed
        /\ rotationNonce' > rotationNonce
=============================================================================
