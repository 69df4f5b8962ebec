--------------------------------- MODULE Spv ---------------------------------
(***************************************************************************)
(* Proofs that a transaction is buried in the chain: what the operator and *)
(* the issuer put together from bitcoind (observer.rs) and what the node   *)
(* makes of it (spv.rs), for a deposit and for the claim of an HTLC.       *)
(*                                                                         *)
(* A block is a header and its transactions.  A header's proof of work is  *)
(* good or not; the node holds it against the target in the header itself. *)
(***************************************************************************)
EXTENDS Trees

Txid(tx) == <<"tx", tx>>
BlockHash(header) == <<"block", header>>
TxidsOf(block) == [i \in DOMAIN block.txs |-> Txid(block.txs[i])]

(* The scripts that count: the reserve's P2WSH names committee and quorum. *)
ReserveSpk(committee, threshold) == <<"p2wsh", committee, threshold>>

OutputsOf(tx) == tx.outs
NoOutpoint == <<"none">>
InputOutpoint(tx, n) == IF n < Len(tx.ins) THEN tx.ins[n + 1] ELSE NoOutpoint

(***************************************************************************)
(* What is put together.                                                   *)
(***************************************************************************)
(* The block of a chain that has tx, and the place in it.                  *)
HeightOf(chain, tx) == CHOOSE h \in DOMAIN chain : \E i \in DOMAIN chain[h].txs : chain[h].txs[i] = tx
OnChain(chain, tx) == \E h \in DOMAIN chain : \E i \in DOMAIN chain[h].txs : chain[h].txs[i] = tx

Located(chain, tx) ==
    LET h == HeightOf(chain, tx)
        i == CHOOSE n \in DOMAIN chain[h].txs : chain[h].txs[n] = tx
    IN [header |-> chain[h].header, hash |-> BlockHash(chain[h].header), height |-> h,
        index |-> i - 1, branch |-> MerkleBranch(TxidsOf(chain[h]), i - 1)]

HeadersAfter(chain, h, n) == [k \in 1..n |-> chain[h + k].header]

(* The deposit's own block counts as one of the confirmations asked for.   *)
BuildDeposit(chain, tx, minDepth) ==
    [tx |-> tx, at |-> Located(chain, tx),
     headers |-> HeadersAfter(chain, HeightOf(chain, tx), minDepth - 1)]

BuildPayout(chain, htlc, vout, claim, n, preimage, minDepth) ==
    [htlc |-> <<Txid(htlc), vout>>, htlcAt |-> Located(chain, htlc),
     claimTxid |-> Txid(claim), input |-> n, claimTx |-> claim,
     claimAt |-> Located(chain, claim), preimage |-> preimage,
     headers |-> HeadersAfter(chain, HeightOf(chain, claim), minDepth)]

(* deposit_watcher: the confirmations of an output at the reserve, and     *)
(* whether the mint may be asked for.                                      *)
Confirmations(chain, tx) == Len(chain) - HeightOf(chain, tx) + 1
Ready(chain, tx, minDepth) == Confirmations(chain, tx) >= minDepth

(***************************************************************************)
(* What the node checks.                                                   *)
(***************************************************************************)
Included(txid, at) ==
    /\ BlockHash(at.header) = at.hash
    /\ at.header.pow
    /\ FoldIndex(txid, at.index, at.branch) = at.header.root

(* Mutant of Buried: the headers are counted and not linked.               *)
BuriedUnlinked(at, headers) == \A n \in DOMAIN headers : headers[n].pow

Buried(at, headers) ==
    \A n \in DOMAIN headers :
        /\ headers[n].pow
        /\ headers[n].prev = IF n = 1 THEN at.hash ELSE BlockHash(headers[n - 1])

(* The first output that pays the reserve is the deposit.                  *)
PaysReserve(tx, spk, sats) ==
    \E n \in DOMAIN OutputsOf(tx) :
        /\ tx.outs[n] = [spk |-> spk, sats |-> sats]
        /\ \A m \in 1..n - 1 : tx.outs[m].spk /= spk

VerifyDeposit(c, txid, sats, spk, minDepth) ==
    /\ Txid(c.tx) = txid
    /\ PaysReserve(c.tx, spk, sats)
    /\ Included(txid, c.at)
    /\ Len(c.headers) + 1 >= minDepth
    /\ Buried(c.at, c.headers)

(* The two heights are the prover's word.                                  *)
VerifyPayout(c, paymentHash, minDepth, tip) ==
    /\ <<"sha", c.preimage>> = paymentHash
    /\ Included(c.htlc[1], c.htlcAt)
    /\ Included(c.claimTxid, c.claimAt)
    /\ Txid(c.claimTx) = c.claimTxid
    /\ InputOutpoint(c.claimTx, c.input) = c.htlc
    /\ c.claimAt.height >= c.htlcAt.height
    /\ Len(c.headers) >= minDepth
    /\ Buried(c.claimAt, c.headers)
    /\ tip >= c.claimAt.height + minDepth
=============================================================================
