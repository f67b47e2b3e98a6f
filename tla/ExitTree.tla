------------------------------- MODULE ExitTree -------------------------------
(***************************************************************************)
(* The exit tree of an anchor: the root the relayer posts and the watchdog *)
(* and the witnesses recompute, and the proofs the relayer, node-cli, the  *)
(* sdk and the indexer's API build, each from the exits in the order its   *)
(* own reading of the logs gives.  A hash is what went into it: a leaf's   *)
(* is a model value, a node's the set of its two children, since hashPair  *)
(* orders them.                                                            *)
(***************************************************************************)
EXTENDS Integers, SequencesExt

CONSTANTS ExitIds, leafHash    \* ids of exits; the hash of the leaf of an exit, over all its fields

\* Two exits do not have the same hash.
ASSUME ExitTreeConstants ==
    /\ ExitIds \subseteq Nat /\ DOMAIN leafHash = ExitIds
    /\ \A id, other \in ExitIds : leafHash[id] = leafHash[other] => id = other

VARIABLE gathered              \* the exits read so far, carried ones wherever they come

ExitTreeInit == gathered = <<>>

\* One more exit of the layer's logs, or of an epoch that is reported again.
Gather(id) ==
    /\ id \notin Range(gathered)
    /\ gathered' = Append(gathered, id)

ExitTreeNext == \E id \in ExitIds : Gather(id)

-----------------------------------------------------------------------------

ZERO_ROOT == {}

hashPair(a, b) == {a, b}

\* The ids in ascending order: the i-th has i - 1 smaller ones.
sortLeaves(ids) ==
    [i \in 1 .. Len(ids) |->
        CHOOSE id \in Range(ids) : Cardinality({other \in Range(ids) : other < id}) = i - 1]

\* The leaves' hashes in that order; the place of an exit among them.
leafHashes(ids) == LET sorted == sortLeaves(ids) IN [i \in 1 .. Len(ids) |-> leafHash[sorted[i]]]
PlaceOf(id, ids) == LET sorted == sortLeaves(ids) IN CHOOSE i \in 1 .. Len(ids) : sorted[i] = id

\* The next level: pairs from the left, an odd last one goes up as it is.
Raised(level) ==
    [i \in 1 .. (Len(level) + 1) \div 2 |->
        IF 2 * i <= Len(level) THEN hashPair(level[2 * i - 1], level[2 * i]) ELSE level[2 * i - 1]]

\* The levels, from the leaves up; the root's repeats to the end, and nobody has a partner there.
Levels(hashes) ==
    LET level[d \in 1 .. Len(hashes)] == IF d = 1 THEN hashes ELSE Raised(level[d - 1])
    IN  level

merkleRoot(hashes) == IF hashes = <<>> THEN ZERO_ROOT ELSE Levels(hashes)[Len(hashes)][1]

\* The place of the node above a place: two places become one.
Above(i) == (i + 1) \div 2
PlacesUp(hashes, index) ==
    LET place[d \in 1 .. Len(hashes)] == IF d = 1 THEN index ELSE Above(place[d - 1])
    IN  place

\* relayer: the partner found while the level is paired off; none for the odd last one.
PartnerInPairs(level, i) ==
    LET pair == CHOOSE q \in 0 .. Len(level) : i \in {2 * q + 1, 2 * q + 2} IN
    IF 2 * pair + 1 = Len(level) THEN <<>>
    ELSE IF i = 2 * pair + 1 THEN <<level[i + 1]>> ELSE <<level[i - 1]>>

\* node-cli, sdk, indexer: the sibling's index, taken if the level has it.
Sibling(i) == IF i % 2 = 1 THEN i + 1 ELSE i - 1
SiblingIfThere(level, i) == IF Sibling(i) <= Len(level) THEN <<level[Sibling(i)]>> ELSE <<>>

\* What is gathered on the way up, level by level.
merkleProof(hashes, index) ==
    LET level == Levels(hashes)
        place == PlacesUp(hashes, index)
        path[d \in 0 .. Len(hashes)] ==
            IF d = 0 THEN <<>> ELSE path[d - 1] \o PartnerInPairs(level[d], place[d])
    IN  path[Len(hashes)]
proof(hashes, index) ==
    LET level == Levels(hashes)
        place == PlacesUp(hashes, index)
        path[d \in 0 .. Len(hashes)] ==
            IF d = 0 THEN <<>> ELSE path[d - 1] \o SiblingIfThere(level[d], place[d])
    IN  path[Len(hashes)]

\* MerkleProof.verify, as BacBridge.claimExit calls it.
verify(path, root, leaf) ==
    LET hash[i \in 0 .. Len(path)] == IF i = 0 THEN leaf ELSE hashPair(hash[i - 1], path[i])
    IN  hash[Len(path)] = root

-----------------------------------------------------------------------------

\* Every exit of an anchor can be claimed with the proof either algorithm builds, whatever order the
\* prover and the relayer read the exits in, and a proof passes for its own exit only
\* (BacBridge.sol:1079; "must come to the same root", exit-tree.js:2).
ProofsPass ==
    LET root == merkleRoot(leafHashes(gathered))
        other == Reverse(gathered)
        hashes == leafHashes(other) IN
    \A id \in Range(gathered) :
        LET index == PlaceOf(id, other)
            proofs == {merkleProof(hashes, index), proof(hashes, index)} IN
        \A claimed \in ExitIds, path \in proofs : verify(path, root, leafHash[claimed]) <=> claimed = id
==============================================================================
