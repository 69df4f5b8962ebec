-------------------------------- MODULE Trees --------------------------------
(***************************************************************************)
(* The trees the proofs of the program climb: Bitcoin's transaction tree   *)
(* as the operator writes the branch and as node and lineage verifier fold *)
(* it, tapd's sparse tree of sums and the node's sparse Poseidon tree.     *)
(*                                                                         *)
(* A hash is a term that names what was hashed: equal terms, equal hashes. *)
(* Trees have Levels levels instead of 256.                                *)
(***************************************************************************)
EXTENDS Naturals, SequencesExt

CONSTANT Levels
ASSUME LevelsAssumption == Levels \in Nat \ {0}

Position == 0..2 ^ Levels - 1

(***************************************************************************)
(* The transactions of a block.                                            *)
(***************************************************************************)
Dsha(l, r) == <<"node", l, r>>

(* An odd layer repeats its last node.                                     *)
Padded(layer) == IF Len(layer) % 2 = 1 THEN Append(layer, Last(layer)) ELSE layer

Halved(layer) ==
    [n \in 1..Len(Padded(layer)) \div 2 |-> Dsha(Padded(layer)[2 * n - 1], Padded(layer)[2 * n])]

(* The n-th layer above the transactions.                                  *)
LayerAt(txids, n) ==
    FoldLeft(LAMBDA layer, k : IF Len(layer) = 1 THEN layer ELSE Halved(layer),
             txids, [k \in 1..n |-> k])

Height(txids) == CHOOSE n \in 0..Len(txids) :
    /\ Len(LayerAt(txids, n)) = 1
    /\ \A m \in 0..n - 1 : Len(LayerAt(txids, m)) > 1

BlockRoot(txids) == LayerAt(txids, Height(txids))[1]

OtherOf(index) == IF index % 2 = 0 THEN index + 1 ELSE index - 1

(* The siblings on the way up from txids[index], counted from 0.           *)
MerkleBranch(txids, index) ==
    [n \in 1..Height(txids) |->
        Padded(LayerAt(txids, n - 1))[OtherOf(index \div 2 ^ (n - 1)) + 1]]

(* Mutant of FoldIndex: the transaction is always taken for the left one.  *)
FoldIndexLeft(leaf, index, branch) ==
    FoldLeft(LAMBDA h, sib : Dsha(h, sib), leaf, branch)

(* The node's fold takes the direction from the index.                     *)
FoldIndex(leaf, index, branch) ==
    FoldLeft(LAMBDA h, n : IF (index \div 2 ^ (n - 1)) % 2 = 0 THEN Dsha(h, branch[n])
                           ELSE Dsha(branch[n], h),
             leaf, [n \in DOMAIN branch |-> n])

(* The lineage verifier's takes it from a bit: set, what came so far is    *)
(* the left child.                                                         *)
FoldBits(leaf, nodes, bits) ==
    FoldLeft(LAMBDA h, n : IF bits[n] THEN Dsha(h, nodes[n]) ELSE Dsha(nodes[n], h),
             leaf, [n \in DOMAIN nodes |-> n])

TapdBits(txids, index) ==
    [n \in 1..Height(txids) |-> (index \div 2 ^ (n - 1)) % 2 = 0]

(***************************************************************************)
(* Sparse trees: the value at each occupied position, a rule for the side  *)
(* a position lies on at a level, and a rule for joining two subtrees.     *)
(***************************************************************************)
Subtree(leaves, Right(_, _), Join(_, _), Empty(_), d, S) ==
    LET sub[n \in 0..Levels, P \in SUBSET Position] ==
            IF P = {} THEN Empty(n)
            ELSE IF n = Levels THEN leaves[CHOOSE p \in P : TRUE]
            ELSE Join(sub[n + 1, {p \in P : ~Right(p, n)}],
                      sub[n + 1, {p \in P : Right(p, n)}])
    IN sub[d, S]

(* The sibling of key's path below level d, for d in 0..Levels-1.          *)
SiblingAt(leaves, Right(_, _), Join(_, _), Empty(_), key, d) ==
    Subtree(leaves, Right, Join, Empty, d + 1,
            {p \in DOMAIN leaves : /\ \A n \in 0..d - 1 : Right(p, n) = Right(key, n)
                                   /\ Right(p, d) /= Right(key, d)})

(* From the leaf up to level top through the siblings, siblings[1] the one *)
(* below the root.                                                         *)
Climb(Right(_, _), Join(_, _), key, leaf, siblings, top) ==
    FoldRight(LAMBDA d, h : IF Right(key, d) THEN Join(siblings[d + 1], h)
                            ELSE Join(h, siblings[d + 1]),
              [n \in 1..Levels - top |-> top + n - 1], leaf)

(***************************************************************************)
(* The node's sets: lock records, nullifiers, claims.                      *)
(***************************************************************************)
(* smt.rs takes the bits of a key from the most significant one.           *)
HighBit(key, d) == (key \div 2 ^ (Levels - 1 - d)) % 2 = 1
Poseidon(l, r) == <<"poseidon", l, r>>
Zero == <<"zero">>
SetLeaf(key, value) == <<"leaf", key, value>>
EmptySubtree(d) == FoldLeft(LAMBDA e, n : Poseidon(e, e), Zero, [n \in 1..Levels - d |-> n])

SetRoot(set) == Subtree([k \in set |-> SetLeaf(k, 1)], HighBit, Poseidon, EmptySubtree, 0, set)

SetProof(set, key) ==
    [d \in 1..Levels |->
        SiblingAt([k \in set |-> SetLeaf(k, 1)], HighBit, Poseidon, EmptySubtree, key, d - 1)]

FoldToRoot(key, leaf, proof) == Climb(HighBit, Poseidon, key, leaf, proof, 0)

VerifyInclusion(root, key, value, proof) ==
    Len(proof) = Levels /\ FoldToRoot(key, SetLeaf(key, value), proof) = root

VerifyExclusion(root, key, proof) ==
    Len(proof) = Levels /\ FoldToRoot(key, Zero, proof) = root

RootAfterUpdate(key, value, proof) == FoldToRoot(key, SetLeaf(key, value), proof)

(* The loop over a batch: each key is shown to be absent from the root the *)
(* keys before it have left, and 0 stands for a refusal.                   *)
InsertBatch(root, keys, proofs) ==
    FoldLeft(LAMBDA r, n : IF r = <<"refused">> THEN r
                           ELSE IF VerifyExclusion(r, keys[n], proofs[n])
                           THEN RootAfterUpdate(keys[n], 1, proofs[n]) ELSE <<"refused">>,
             root, [n \in DOMAIN keys |-> n])

(***************************************************************************)
(* tapd's tree of sums.                                                    *)
(***************************************************************************)
(* mssmt.rs takes the bits of a key from the least significant one.        *)
LowBit(key, d) == (key \div 2 ^ d) % 2 = 1
SumLeaf(value, sum) == [hash |-> <<"sumleaf", value, sum>>, sum |-> sum]
SumBranch(l, r) == [hash |-> <<"sumnode", l.hash, r.hash, l.sum + r.sum>>, sum |-> l.sum + r.sum]
NoValue == <<"nothing">>
EmptyTree(d) ==
    FoldLeft(LAMBDA e, n : SumBranch(e, e), SumLeaf(NoValue, 0), [n \in 1..Levels - d |-> n])

(* A proof leaves empty siblings out: from the leaf up, a set bit stands   *)
(* for an empty subtree, a clear one for the next of the nodes.            *)
Compressed(leaves, key) ==
    LET sib(i) == SiblingAt(leaves, LowBit, SumBranch, EmptyTree, key, Levels - i)
        full == SelectSeq([i \in 1..Levels |-> i], LAMBDA i : sib(i) /= EmptyTree(Levels + 1 - i))
    IN [bits |-> [i \in 1..Levels |-> sib(i) = EmptyTree(Levels + 1 - i)],
        nodes |-> [n \in DOMAIN full |-> sib(full[n])]]

Explicit(proof) == {i \in 1..Levels : ~proof.bits[i]}
Canonical(proof) == Len(proof.nodes) = Cardinality(Explicit(proof))

Decompressed(proof) ==
    [i \in 1..Levels |->
        IF proof.bits[i] THEN EmptyTree(Levels + 1 - i)
        ELSE proof.nodes[Cardinality({j \in Explicit(proof) : j <= i})]]

(* The root and its two children, whose hashes the commitment names.       *)
ProofRoot(key, leaf, proof) ==
    LET fromTop == Reverse(Decompressed(proof))
        h == Climb(LowBit, SumBranch, key, leaf, fromTop, 1)
        l == IF LowBit(key, 0) THEN fromTop[1] ELSE h
        r == IF LowBit(key, 0) THEN h ELSE fromTop[1]
    IN [root |-> SumBranch(l, r), left |-> l.hash, right |-> r.hash]
=============================================================================
