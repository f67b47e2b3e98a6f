----------------------------- MODULE WrappedBac -----------------------------
(* contracts/src/layer/WBAC.sol: the layer's native coin, wrapped.  Infinite is the largest word,  *)
(* read as no limit; addresses hold Coins native BAC each before the first deposit.                *)
EXTENDS Integers, FiniteSets, Functions

CONSTANTS Accounts, Coins, Wads, Infinite     \* Wads: what one call moves

ASSUME WrapInputs ==
    /\ IsFiniteSet(Accounts) /\ Coins \in Nat
    /\ Infinite \in Nat /\ Wads \subseteq 0..Infinite - 1

VARIABLES
    coins,                   \* external: native BAC per address
    balanceOf, allowance,
    granted, spent,          \* history: everything src approved to guy, what guy moved on allowance
    forcedBac                \* history: native BAC that got in without a call

wrapVars == <<coins, balanceOf, allowance, granted, spent, forcedBac>>

Nobody == [src \in Accounts |-> [guy \in Accounts |-> 0]]

WrapInit ==
    /\ coins = [h \in Accounts |-> Coins] /\ balanceOf = [h \in Accounts |-> 0]
    /\ allowance = Nobody /\ granted = Nobody /\ spent = Nobody
    /\ forcedBac = 0

\* The balance of the contract.
totalSupply == Coins * SumFunction([h \in Accounts |-> 1]) - SumFunction(coins)

\* deposit(), a plain transfer, or a call nobody knows: all wrap.
Wrap(who, wad) ==
    /\ wad <= coins[who]
    /\ coins' = [coins EXCEPT ![who] = @ - wad] /\ balanceOf' = [balanceOf EXCEPT ![who] = @ + wad]
    /\ UNCHANGED <<allowance, granted, spent, forcedBac>>

\* A selfdestruct towards the contract: nobody's balance, and nobody's to take out.
ForcedIntoWrap(who, wad) ==
    /\ wad <= coins[who]
    /\ coins' = [coins EXCEPT ![who] = @ - wad] /\ forcedBac' = forcedBac + wad
    /\ UNCHANGED <<balanceOf, allowance, granted, spent>>

Unwrap(who, wad) ==
    /\ wad <= balanceOf[who]
    /\ balanceOf' = [balanceOf EXCEPT ![who] = @ - wad] /\ coins' = [coins EXCEPT ![who] = @ + wad]
    /\ UNCHANGED <<allowance, granted, spent, forcedBac>>

\* An overwrite: the count of what is spent starts again.
Approve(src, guy, wad) ==
    /\ allowance' = [allowance EXCEPT ![src][guy] = wad]
    /\ granted' = [granted EXCEPT ![src][guy] = wad]
    /\ spent' = [spent EXCEPT ![src][guy] = 0]
    /\ UNCHANGED <<coins, balanceOf, forcedBac>>

FreeToSpend(src, guy) == guy = src \/ allowance[src][guy] = Infinite

AllowanceLeft(src, guy, wad) ==
    IF FreeToSpend(src, guy) THEN allowance ELSE [allowance EXCEPT ![src][guy] = @ - wad]

\* The second assignment reads what the first one wrote: a transfer to oneself changes nothing.
Moved(src, dst, wad) == [[balanceOf EXCEPT ![src] = @ - wad] EXCEPT ![dst] = @ + wad]

TransferFrom(guy, src, dst, wad) ==
    /\ wad <= balanceOf[src]
    /\ FreeToSpend(src, guy) \/ wad <= allowance[src][guy]
    /\ allowance' = AllowanceLeft(src, guy, wad)
    /\ balanceOf' = Moved(src, dst, wad)
    /\ spent' = IF guy = src \/ granted[src][guy] = Infinite THEN spent ELSE [spent EXCEPT ![src][guy] = @ + wad]
    /\ UNCHANGED <<coins, granted, forcedBac>>

\* What an address allows itself is never read.
WrapNext == \E who \in Accounts, wad \in Wads :
    \/ Wrap(who, wad) \/ Unwrap(who, wad) \/ ForcedIntoWrap(who, wad)
    \/ \E guy \in Accounts \ {who} : Approve(who, guy, wad) \/ Approve(who, guy, Infinite)
    \/ \E guy, dst \in Accounts : TransferFrom(guy, who, dst, wad)

WrapSpec == WrapInit /\ [][WrapNext]_wrapVars

-----------------------------------------------------------------------------
\* Every WBAC is one native BAC in the contract, transfers to oneself included; what is there besides
\* was forced in, and no WBAC was ever made of it.
WrappedIsBacked == SumFunction(balanceOf) + forcedBac = totalSupply

\* Between two approvals a spender moves no more than the first of them allows.
SpendersStayWithinAllowance == \A src, guy \in Accounts :
    granted[src][guy] # Infinite => spent[src][guy] <= granted[src][guy]
=============================================================================
