---------------------------- MODULE BacNodeFund ----------------------------
(* contracts/src/BacNodeFund.sol: half of the tax, at the disposal of an owner who changes in two *)
(* steps.  acceptRelease is open to anybody with BNB, and BNB can be forced in without a call.    *)
EXTENDS Integers, Sequences, Functions

CONSTANTS
    Owners, NoOwner, FundWithdrawals,
    Gifts,                   \* what somebody else than the router sends at once
    MaxGifts                 \* bound on all of it

ASSUME FundInputs ==
    /\ NoOwner \notin Owners /\ Owners # {}
    /\ FundWithdrawals \subseteq Nat                   \* zero takes the whole balance
    /\ Gifts \subseteq Nat \ {0} /\ MaxGifts \in Nat

VARIABLES
    fundBalance, lifetimeReceived, lifetimeWithdrawn, owner, pendingOwner,
    given, forcedBnb        \* history: what others gave through acceptRelease, and without a call

giftVars == <<given, forcedBnb>>
fundVars == <<fundBalance, lifetimeReceived, lifetimeWithdrawn, owner, pendingOwner, giftVars>>

FundInit ==
    /\ fundBalance = 0 /\ lifetimeReceived = 0 /\ lifetimeWithdrawn = 0
    /\ owner \in Owners /\ pendingOwner = NoOwner
    /\ given = 0 /\ forcedBnb = 0

\* acceptRelease.  It counts what it is sent, whoever sends it.
FundReceives(amount) ==
    /\ fundBalance' = fundBalance + amount
    /\ lifetimeReceived' = lifetimeReceived + amount
    /\ UNCHANGED <<lifetimeWithdrawn, owner, pendingOwner>>

\* The router pushes its half.
RouterPays(amount) == FundReceives(amount) /\ UNCHANGED giftVars

\* Anybody may donate.
Donation(amount) ==
    /\ given + forcedBnb + amount <= MaxGifts
    /\ given' = given + amount
    /\ FundReceives(amount)
    /\ UNCHANGED forcedBnb

\* There is no receive(): only a selfdestruct or a block reward gets in without a call.
ForcedIn(amount) ==
    /\ given + forcedBnb + amount <= MaxGifts
    /\ forcedBnb' = forcedBnb + amount
    /\ fundBalance' = fundBalance + amount
    /\ UNCHANGED <<lifetimeReceived, lifetimeWithdrawn, owner, pendingOwner, given>>

\* withdraw(to, request) by someone: zero takes the whole balance.
Amount(request) == IF request = 0 THEN fundBalance ELSE request

FundWithdraw(who, request) ==
    /\ who = owner
    /\ Amount(request) > 0 /\ Amount(request) <= fundBalance
    /\ lifetimeWithdrawn' = lifetimeWithdrawn + Amount(request)
    /\ fundBalance' = fundBalance - Amount(request)
    /\ UNCHANGED <<lifetimeReceived, owner, pendingOwner, giftVars>>

TransferOwnership(who, next) ==
    /\ who = owner
    /\ pendingOwner' = next
    /\ UNCHANGED <<fundBalance, lifetimeReceived, lifetimeWithdrawn, owner, giftVars>>

AcceptOwnership(who) ==
    /\ who = pendingOwner
    /\ owner' = who
    /\ pendingOwner' = NoOwner
    /\ UNCHANGED <<fundBalance, lifetimeReceived, lifetimeWithdrawn, giftVars>>

FundStep ==
    \/ \E who \in Owners :
        \/ \E amount \in FundWithdrawals : FundWithdraw(who, amount)
        \/ \E next \in Owners : TransferOwnership(who, next)
        \/ AcceptOwnership(who)
    \/ \E amount \in Gifts : Donation(amount) \/ ForcedIn(amount)
=============================================================================
