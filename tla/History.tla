------------------------------ MODULE History ------------------------------
(***************************************************************************)
(* One history of the chain to take evidence from: an asset is minted,     *)
(* part of it sent to a lock and part to the burn sink, as the capture     *)
(* bins do; reserves are paid; an HTLC is funded and claimed; and another  *)
(* branch of blocks carries the claim later.                               *)
(***************************************************************************)
EXTENDS Lineage

Coins(n) == <<<<"coins", n>>, 0>>
Filler(n) == [ins |-> <<Coins(n)>>, outs |-> <<[spk |-> <<"other">>, sats |-> n]>>]

Leaf(amount, key, witness) ==
    [genesis |-> <<"genesis">>, group |-> <<"group">>, amount |-> amount, key |-> key,
     witness |-> witness]

Family == AssetFamily(Leaf(0, <<"issuer">>, "none"))
Place(leaf, internal, sibling) == [leaf |-> leaf, internal |-> <<internal>>, sibling |-> sibling]
LockSibling == <<"branch", TapLeaf(<<"finalize">>), TapLeaf(<<"refund">>)>>

Places == [mint |-> <<Place(Leaf(10, <<"issuer">>, "none"), "wallet", NoSibling)>>,
           lock |-> <<Place(Leaf(7, <<"issuer">>, "transfer"), "wallet", NoSibling),
                      Place(Leaf(3, <<"lock">>, "split"), "nums", LockSibling)>>,
           burn |-> <<Place(Leaf(4, <<"issuer">>, "transfer"), "wallet", NoSibling),
                      Place(Leaf(3, SinkKey(Family), "split"), "nums", NoSibling)>>]

AnchorTx(places, in) ==
    [ins |-> <<in>>, outs |-> [n \in DOMAIN places |->
        AnchorOutput(places[n].leaf, places[n].internal, places[n].sibling)]]

MintTx == AnchorTx(Places.mint, Coins(1))
LockTx == AnchorTx(Places.lock, <<Txid(MintTx), 0>>)
BurnTx == AnchorTx(Places.burn, <<Txid(LockTx), 0>>)
AnchorTxs == [mint |-> MintTx, lock |-> LockTx, burn |-> BurnTx]

Reserve == ReserveSpk(<<"committee">>, 2)
Pays(outs, n) == [ins |-> <<Coins(n)>>, outs |-> outs]
DepositTx == Pays(<<[spk |-> <<"change">>, sats |-> 1], [spk |-> Reserve, sats |-> 5],
                    [spk |-> Reserve, sats |-> 7]>>, 2)
StrayTx == Pays(<<[spk |-> ReserveSpk(<<"committee">>, 1), sats |-> 5]>>, 3)
HtlcTx == Pays(<<[spk |-> <<"change">>, sats |-> 1], [spk |-> <<"htlc">>, sats |-> 2]>>, 4)
ClaimTx == [ins |-> <<Coins(5), <<Txid(HtlcTx), 1>>>>,
            outs |-> <<[spk |-> <<"user">>, sats |-> 2]>>]

Extended(chain, txs, pow) ==
    LET prev == IF chain = <<>> THEN <<"start">> ELSE BlockHash(Last(chain).header) IN
    Append(chain, [header |-> [prev |-> prev, pow |-> pow,
                               root |-> BlockRoot([n \in DOMAIN txs |-> Txid(txs[n])])],
                   txs |-> txs])

Chain(bodies) == FoldLeft(LAMBDA chain, txs : Extended(chain, txs, TRUE), <<>>, bodies)
Trunk == <<<<Filler(11), MintTx, DepositTx>>, <<Filler(12), StrayTx, LockTx, HtlcTx, Filler(13)>>>>
Main == Chain(Trunk \o <<<<Filler(14), BurnTx, ClaimTx>>, <<Filler(15)>>, <<Filler(16), Filler(17)>>>>)
Fork == Chain(Trunk \o <<<<Filler(18)>>, <<Filler(19), ClaimTx>>, <<Filler(20)>>>>)

SpvTxs == [deposit |-> DepositTx, stray |-> StrayTx, htlc |-> HtlcTx, claim |-> ClaimTx]
HeaderNames == ({"main"} \X (2..5)) \cup ({"fork"} \X (3..5)) \cup {<<"unmined", 4>>}

(***************************************************************************)
(* The outputs that hold the asset, and tapd's proofs of them.             *)
(***************************************************************************)
Outputs == [mint |-> <<"mint", 1>>, kept |-> <<"lock", 1>>, lock |-> <<"lock", 2>>,
            rest |-> <<"burn", 1>>, sink |-> <<"burn", 2>>]
SpentInto == [mint |-> <<>>, kept |-> <<"mint">>, lock |-> <<"mint">>,
              rest |-> <<"mint", "kept">>, sink |-> <<"mint", "kept">>]
Ancestry(o) == Append(SpentInto[o], o)

PlaceOf(o) == Places[Outputs[o][1]][Outputs[o][2]]
Unproven(o, anchors) ==
    LET place == PlaceOf(o) IN
    Transition(anchors[Outputs[o][1]], place.leaf,
               Inclusion(place.leaf, Outputs[o][2] - 1, place.internal, place.sibling))
FileOf(o, proven) == BuildProofFile([n \in DOMAIN Ancestry(o) |-> proven[Ancestry(o)[n]]])

(* What the record of an output says, but for the checksum of its file.    *)
RecordOf(o, proven) ==
    [key |-> PlaceOf(o).leaf.key, amount |-> PlaceOf(o).leaf.amount, family |-> Family,
     anchor |-> AnchorOf(proven[o])]

(***************************************************************************)
(* All of it, for those who take evidence.  One header was never mined.    *)
(***************************************************************************)
HeaderOf(name, chains) ==
    IF name[1] = "unmined"
    THEN Last(Extended(SubSeq(chains.main, 1, 3), <<Filler(21)>>, FALSE)).header
    ELSE chains[name[1]][name[2]].header

ProofsOf(anchors, main) == [o \in DOMAIN Outputs |-> Confirmed(main, Unproven(o, anchors))]

FactsOf(chains, txs, unproven, proven) ==
    [chains |-> chains, txs |-> txs, reserve |-> Reserve,
     where |-> [c \in DOMAIN chains |-> [x \in DOMAIN txs |-> Located(chains[c], txs[x])]],
     headers |-> [name \in HeaderNames |-> HeaderOf(name, chains)],
     unproven |-> unproven, proven |-> proven,
     files |-> [o \in DOMAIN Outputs |-> FileOf(o, proven)],
     records |-> [o \in DOMAIN Outputs |-> RecordOf(o, proven)]]

TheFacts ==
    FactsOf([main |-> Main, fork |-> Fork], SpvTxs,
            [o \in DOMAIN Outputs |-> Unproven(o, AnchorTxs)], ProofsOf(AnchorTxs, Main))
=============================================================================
