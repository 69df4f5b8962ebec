------------------------------- MODULE Lineage -------------------------------
(***************************************************************************)
(* The history of an asset, as proofs: how the wallet's bins put together  *)
(* the proof of an output sent to a lock or to the burn sink               *)
(* (satusd-tapd-client), and how the node checks it (satusd-ta-proof,      *)
(* redeem.rs, claim.rs).                                                   *)
(*                                                                         *)
(* A proof is the record of what its TLV stream carries.  The wallet's     *)
(* daemon, tapd, is not in the source: what it commits to and exports is   *)
(* modelled from what the verifier expects of it.                          *)
(***************************************************************************)
EXTENDS Spv

CONSTANT Slot(_)   \* the position of a hashed key in a tree

NoGroup == <<"ungrouped">>
NoSibling == <<"alone">>
P2tr(key) == <<"p2tr", key>>

(***************************************************************************)
(* From an asset to the key of the output that holds it.                   *)
(***************************************************************************)
(* The leaf of a split is committed without the proof of the split.        *)
Committed(leaf) ==
    <<"asset", IF leaf.witness = "split" THEN [leaf EXCEPT !.witness = "stripped"] ELSE leaf>>

AssetKey(leaf) ==
    IF leaf.group = NoGroup THEN <<"ack", leaf.key>> ELSE <<"ack", leaf.genesis, leaf.key>>

CommitmentRoot(id, left, right, sum) == <<"ac", id, left, right, sum>>
CommitmentLeaf(root, sum) == SumLeaf(<<"tcl", root, sum>>, sum)
TapLeaf(script) == <<"tapleaf", script>>
TapBranch(a, b) == <<"tapbranch", {a, b}>>
SiblingTapHash(s) == IF s[1] = "leaf" THEN TapLeaf(s[2]) ELSE TapBranch(s[2], s[3])

TapscriptRoot(outer, sibling) ==
    LET ta == TapLeaf(<<"taproot-assets", outer.hash, outer.sum>>)
    IN IF sibling = NoSibling THEN ta ELSE TapBranch(ta, SiblingTapHash(sibling))

TapTweak(internal, root) == <<"tweak", internal, root>>

(* Both trees are climbed through the siblings the proof brings.           *)
ReconstructOutputKey(leaf, incl) ==
    LET c == incl.commitment
        inner == ProofRoot(Slot(AssetKey(leaf)), SumLeaf(Committed(leaf), leaf.amount), c.inner)
        sum == inner.root.sum
        root == CommitmentRoot(c.id, inner.left, inner.right, sum)
        outer == ProofRoot(Slot(c.id), CommitmentLeaf(root, sum), c.outer)
    IN TapTweak(incl.internal, TapscriptRoot(outer.root, c.sibling))

(***************************************************************************)
(* One step, and the chain of them.                                        *)
(***************************************************************************)
AnchorOf(p) == <<Txid(p.tx), p.inclusion.index>>

VerifyAnchor(p) ==
    /\ FoldBits(Txid(p.tx), p.merkle.nodes, p.merkle.bits) = p.header.root
    /\ p.inclusion.index < Len(p.tx.outs)
    /\ p.tx.outs[p.inclusion.index + 1].spk[1] = "p2tr"

VerifyAssetInclusion(p) ==
    /\ VerifyAnchor(p)
    /\ Canonical(p.inclusion.commitment.inner)
    /\ Canonical(p.inclusion.commitment.outer)
    /\ p.tx.outs[p.inclusion.index + 1].spk = P2tr(ReconstructOutputKey(p.leaf, p.inclusion))

(* Mutant of VerifyLineage: steps of other histories may be strung in.     *)
VerifyLineageLoose(proofs) ==
    proofs /= <<>> /\ \A n \in DOMAIN proofs : VerifyAssetInclusion(proofs[n])

(* Where the first step comes from is not asked.                           *)
VerifyLineage(proofs) ==
    /\ proofs /= <<>>
    /\ \A n \in DOMAIN proofs :
        /\ VerifyAssetInclusion(proofs[n])
        /\ n > 1 => proofs[n].prev = AnchorOf(proofs[n - 1])

Checksum(proofs, n) == <<"sum", SubSeq(proofs, 1, n)>>
ParseProofFile(file) ==
    /\ Len(file.sums) = Len(file.proofs)
    /\ \A n \in DOMAIN file.proofs : file.sums[n] = Checksum(file.proofs, n)

LineageProofHash(file) == <<"hash", file>>
AssetFamily(leaf) == <<"family", leaf.genesis, leaf.group>>

CheckLineageLockBinding(file, rec) ==
    /\ ParseProofFile(file)
    /\ VerifyLineage(file.proofs)
    /\ LET head == Last(file.proofs) IN
        /\ head.leaf.key = rec.key
        /\ head.leaf.amount = rec.amount
        /\ head.leaf.group /= NoGroup
        /\ AssetFamily(head.leaf) = rec.family
        /\ AnchorOf(head) = rec.anchor
    /\ LineageProofHash(file) = rec.proofHash

(* A finalize record is held to the same, with the sink of its family for  *)
(* a key.                                                                  *)
SinkKey(family) == <<"sink", family>>
CheckBurnProofBinding(file, fin) ==
    CheckLineageLockBinding(file, fin) /\ fin.key = SinkKey(fin.family)

(***************************************************************************)
(* Putting a file together for an output tapd keeps no file of.            *)
(***************************************************************************)
SplitProofFile(file) == file.proofs
BuildProofFile(proofs) ==
    [proofs |-> proofs, sums |-> [n \in DOMAIN proofs |-> Checksum(proofs, n)]]

CompleteTransition(partial, sibling) ==
    [partial EXCEPT !.header = sibling.header, !.tx = sibling.tx,
                    !.merkle = sibling.merkle, !.height = sibling.height]

AssembleExternalProofFile(changeFile, transition) ==
    LET proofs == SplitProofFile(changeFile)
    IN BuildProofFile(Append(Front(proofs), CompleteTransition(transition, Last(proofs))))

(***************************************************************************)
(* tapd: what an output commits to, and the proof of it.                   *)
(***************************************************************************)
TapKey(leaf) == IF leaf.group = NoGroup THEN <<"id", leaf.genesis>> ELSE <<"id", leaf.group>>
Spent == <<"spent">>

(* A transfer also commits to what it spent.                               *)
InnerTree(leaf) ==
    LET own == Slot(AssetKey(leaf))
        others == IF leaf.witness = "none" THEN {} ELSE {Slot(Spent)}
    IN [p \in {own} \cup others |->
            IF p = own THEN SumLeaf(Committed(leaf), leaf.amount) ELSE SumLeaf(Spent, 0)]

TreeRoot(leaves) == Subtree(leaves, LowBit, SumBranch, EmptyTree, 0, DOMAIN leaves)
Half(leaves, side) ==
    Subtree(leaves, LowBit, SumBranch, EmptyTree, 1, {p \in DOMAIN leaves : LowBit(p, 0) = side})

OuterTree(leaf) ==
    LET inner == InnerTree(leaf)
        root == CommitmentRoot(TapKey(leaf), Half(inner, FALSE).hash, Half(inner, TRUE).hash,
                               TreeRoot(inner).sum)
    IN [p \in {Slot(TapKey(leaf))} |-> CommitmentLeaf(root, TreeRoot(inner).sum)]

AnchorOutput(leaf, internal, sibling) ==
    [spk |-> P2tr(TapTweak(internal, TapscriptRoot(TreeRoot(OuterTree(leaf)), sibling))),
     sats |-> 1]

Inclusion(leaf, index, internal, sibling) ==
    [index |-> index, internal |-> internal,
     commitment |-> [id |-> TapKey(leaf), sibling |-> sibling,
                     inner |-> Compressed(InnerTree(leaf), Slot(AssetKey(leaf))),
                     outer |-> Compressed(OuterTree(leaf), Slot(TapKey(leaf)))]]

(* Before its block is known a transition holds a place for the branch.    *)
Unconfirmed == [prev |-> <<"none">>, root |-> <<"none">>, pow |-> FALSE]
Transition(tx, leaf, inclusion) ==
    [prev |-> tx.ins[1], header |-> Unconfirmed, tx |-> tx,
     merkle |-> [nodes |-> <<>>, bits |-> <<>>], leaf |-> leaf,
     inclusion |-> inclusion, height |-> 0]

Confirmed(chain, p) ==
    LET at == Located(chain, p.tx) IN
    [p EXCEPT !.header = at.header, !.height = at.height,
              !.merkle = [nodes |-> at.branch,
                          bits |-> TapdBits(TxidsOf(chain[at.height]), at.index)]]
=============================================================================
