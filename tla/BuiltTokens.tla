----------------------------- MODULE BuiltTokens -----------------------------
(***************************************************************************)
(* indexer/src/economy: the tokens and the trading pairs that agents build *)
(* are recognised from the shape of their logs and by probing the          *)
(* contracts, which may be impossible for a while.  What an address did    *)
(* before it was recognised is then read back from the logs table.  A      *)
(* block is stored in one transaction, its cursor in a later one, and a    *)
(* crash in between stores the block again.                                *)
(*                                                                         *)
(* A pair needs one recognised side and waits for it.  The blocks of the   *)
(* layer are external and fixed at the start.  Left out: prices, reserves, *)
(* levels, the day after which a refused address is probed again, and the  *)
(* job that reads the supplies anew.                                       *)
(***************************************************************************)
EXTENDS Integers, FiniteSets, Functions, Sequences

CONSTANTS
    Addresses, Holders, Nowhere,      \* contracts; accounts; the address tokens are minted from
    Erc20,                            \* what a probe finds to be a token, pairs among them
    SidesOf,                          \* what a probe finds to be a pair, with its two sides
    LayerBlocks,                      \* histories: sequences of sequences of logs
    MaxDown, MaxBuiltCuts             \* bounds: probes that fail, crashes

Logs == [type : {"transfer", "odd", "nft", "created", "swap"}, at : Addresses,
         from : Holders \cup {Nowhere}, to : Holders, value : Nat]

ASSUME BuiltInputs ==
    /\ Nowhere \notin Holders /\ Erc20 \subseteq Addresses /\ DOMAIN SidesOf \subseteq Addresses
    /\ \A p \in DOMAIN SidesOf : SidesOf[p] \in Addresses \X Addresses
    /\ LayerBlocks \subseteq Seq(Seq(Logs))
    /\ MaxDown \in Nat /\ MaxBuiltCuts \in Nat

VARIABLES
    layerBlocks,                      \* external: the history the layer takes
    recorded,                         \* logs table: the blocks up to here
    probe,                            \* contract_probes
    tokens, nft, waiting, pairs,      \* tokens and those flagged, pair_candidates, pairs
    stored,                           \* the rows of token_transfers and swaps: <<block, index>>
    rowCount, holding,                \* per address how many rows; per token and account the balance
    builtCursor, atBuilt,
    down, unprobed, builtCuts           \* history: failed probes, pairs whose last probe failed, crashes

tables == <<recorded, probe, tokens, nft, waiting, pairs, stored, rowCount, holding>>
builtVars == <<layerBlocks, tables, builtCursor, atBuilt, down, unprobed, builtCuts>>

BuiltInit ==
    /\ layerBlocks \in LayerBlocks
    /\ recorded = 0 /\ probe = [a \in Addresses |-> "none"]
    /\ tokens = {} /\ nft = {} /\ waiting = {} /\ pairs = {} /\ stored = {}
    /\ rowCount = [a \in Addresses |-> 0] /\ holding = [a \in Addresses |-> [h \in Holders |-> 0]]
    /\ builtCursor = 0 /\ atBuilt = "idle" /\ down = 0 /\ unprobed = {} /\ builtCuts = 0

-----------------------------------------------------------------------------
\* ingestLogs comes first: the logs of the block are there when it is read back.
RecordLogs ==
    /\ atBuilt = "idle" /\ builtCursor < Len(layerBlocks)
    /\ recorded' = IF recorded > builtCursor THEN recorded ELSE builtCursor + 1
    /\ atBuilt' = "probing"
    /\ UNCHANGED <<layerBlocks, probe, tokens, nft, waiting, pairs, stored, rowCount, holding,
                   builtCursor, down, unprobed, builtCuts>>

Block == layerBlocks[builtCursor + 1]
AddressesOf(types) == {l.at : l \in {l \in Range(Block) : l.type \in types}}

Demoted == AddressesOf({"nft"})
Unsettled(a) == probe[a] \in {"none", "pending"}

\* Addresses a token probe decides or, out of shape and never seen, refuses unasked.
TokensAsked == {a \in AddressesOf({"transfer", "odd"}) \ Demoted : Unsettled(a)}
Probed(a) == a \in AddressesOf({"transfer"}) \/ probe[a] = "pending"

KnownTokens(fresh) == (tokens \ nft) \cup fresh

SideKnown(p, known) == SidesOf[p][1] \in known \/ SidesOf[p][2] \in known

\* Candidates of this block, and of earlier ones whose side is known by now, unless settled.
PairsAsked(known) ==
    {p \in AddressesOf({"created", "swap"}) : Unsettled(p)}
        \cup {p \in waiting : SideKnown(p, known) /\ probe[p] \notin {"pair", "token"}}

\* Rows to be: of this block, and of everything recorded at an address just recognised.
Recognised(a, known, confirmed, type) ==
    \/ type = "transfer" /\ a \in known
    \/ type = "swap" /\ a \in pairs \cup confirmed
OnlyThisBlock(fresh) == {<<builtCursor + 1, i>> : i \in DOMAIN Block}
ReadBack(fresh) ==
    OnlyThisBlock(fresh)
        \cup UNION {{<<b, i>> : i \in {i \in DOMAIN layerBlocks[b] : layerBlocks[b][i].at \in fresh}} :
                    b \in 1..recorded}

At(place) == layerBlocks[place[1]][place[2]]
FirstTime(places) == places \ stored

Incoming(places, a, h) ==
    LET value(place) == IF At(place).at # a \/ At(place).type # "transfer" THEN 0
                        ELSE (IF At(place).to = h THEN At(place).value ELSE 0)
                             - (IF At(place).from = h THEN At(place).value ELSE 0)
    IN  SumFunction([place \in places |-> value(place)])

\* processBuiltLogs: the probes, of which those of `failed` do not get through, then one transaction.
StoreBuilt(failed) ==
    LET fresh == {a \in TokensAsked \ failed : Probed(a) /\ a \in Erc20 /\ a \in AddressesOf({"transfer"})}
        known == KnownTokens(fresh)
        asked == PairsAsked(known)
        confirmed == {p \in (asked \ failed) \cap DOMAIN SidesOf : SideKnown(p, known)}
        waits == {p \in (asked \ failed) \cap DOMAIN SidesOf : ~SideKnown(p, known)}
        refused == (TokensAsked \cup asked) \ (failed \cup confirmed \cup waits \cup (fresh \ asked))
        \* the flags are in force before the rows are written
        shown == ((tokens \ nft) \cup fresh) \ Demoted
        places == {place \in ReadBack(fresh \cup confirmed) :
                    Recognised(At(place).at, shown, confirmed, At(place).type)}
        rows == FirstTime(places) IN
    /\ atBuilt = "probing"
    /\ failed \subseteq {a \in TokensAsked : Probed(a)} \cup asked
    /\ down + Cardinality(failed) <= MaxDown /\ down' = down + Cardinality(failed)
    /\ probe' = [a \in Addresses |->
            CASE a \in confirmed -> "pair"
              [] a \in waits \cup failed -> "pending"
              [] a \in fresh \ asked -> "token"
              [] a \in refused -> "not_token"
              [] a \in Demoted \ asked -> "nft"
              [] OTHER -> probe[a]]
    /\ tokens' = tokens \cup fresh /\ nft' = nft \cup (Demoted \cap tokens)
    /\ pairs' = pairs \cup confirmed /\ waiting' = (waiting \cup waits) \ confirmed
    /\ stored' = stored \cup places
    /\ rowCount' = [a \in Addresses |-> rowCount[a] + Cardinality({place \in rows : At(place).at = a})]
    /\ holding' = [a \in Addresses |-> [h \in Holders |-> holding[a][h] + Incoming(rows, a, h)]]
    /\ unprobed' = (unprobed \cup (failed \cap waiting)) \ (asked \ failed)
    /\ atBuilt' = "stored"
    /\ UNCHANGED <<layerBlocks, recorded, builtCursor, builtCuts>>

MoveCursor ==
    /\ atBuilt = "stored"
    /\ builtCursor' = builtCursor + 1 /\ atBuilt' = "idle"
    /\ UNCHANGED <<layerBlocks, tables, down, unprobed, builtCuts>>

BuiltCrash ==
    /\ atBuilt # "idle" /\ builtCuts < MaxBuiltCuts
    /\ atBuilt' = "idle" /\ builtCuts' = builtCuts + 1
    /\ UNCHANGED <<layerBlocks, tables, builtCursor, down, unprobed>>

BuiltNext ==
    \/ RecordLogs \/ MoveCursor \/ BuiltCrash
    \/ \E failed \in SUBSET Addresses : StoreBuilt(failed)

BuiltSpec == BuiltInit /\ [][BuiltNext]_builtVars

-----------------------------------------------------------------------------
Places == UNION {{<<b, i>> : i \in DOMAIN layerBlocks[b]} : b \in 1..builtCursor}

\* Whenever an address was recognised, and whatever was stored twice: the rows of a token or a pair
\* are all its logs behind the cursor, and its counters and balances add up exactly these rows.
HoldingsMatchTheLogs ==
    /\ \A place \in Places : LET l == At(place) IN
        \/ l.type = "transfer" /\ l.at \in tokens \ nft
        \/ l.type = "swap" /\ l.at \in pairs
        => place \in stored
    /\ \A a \in Addresses :
        /\ rowCount[a] = Cardinality({place \in stored : At(place).at = a})
        /\ \A h \in Holders : holding[a][h] = Incoming(stored, a, h)

\* A pair built before its tokens is recognised by the block that makes a side known, but for a probe
\* that failed, or for its own shares having been taken for a token first; a token found out to be none
\* is asked again by the block after.
NoPairWaitsInVain ==
    \A p \in waiting : SideKnown(p, tokens \ nft) => p \in unprobed \/ probe[p] \in {"token", "nft"}

\* What was recognised late is as complete as what was known from its first log on.
LateIsAsGoodAsEarly == HoldingsMatchTheLogs /\ NoPairWaitsInVain
=============================================================================
