----------------------------- MODULE MCPosition -----------------------------
(* A small instance of PositionRuns: bytes of four bits, keys of two and   *)
(* signatures of three of them, prices of four binary digits.              *)
EXTENDS PositionRuns

MCSizes == {0, 1, 12, 13, 14, 255, 256, 257, 65535, 65536, 65537, 1000000}

Sig(i) == <<i, 0, i>>
MCAttestations ==
    {[event |-> <<1, 2>>, key |-> <<5, 6>>, sigs |-> [i \in 1..n |-> Sig(i)],
      outcomes |-> [i \in 1..n |-> <<i % 2>>]] : n \in 0..2}
MCAnnouncements ==
    {[sig |-> Sig(7), key |-> <<5, 6>>, nonces |-> [i \in 1..n |-> <<i, i>>], maturity |-> 300,
      event |-> <<1, 2>>,
      descriptor |-> [base |-> 2, signed |-> FALSE, unit |-> <<3>>, precision |-> 0, digits |-> n]] :
        n \in 0..2}

(* One base, and what comes of changing one field of it.                   *)
Base == Rail0Manifest([Knobs EXCEPT !.slash = <<<<1, 1>>>>])[1]
Template == [pair |-> <<1>>, cadence |-> 1, base |-> 2, digits |-> 4, signed |-> FALSE,
             precision |-> 0, unit |-> <<2>>]
Dlc == [class |-> "dlcspecs", k |-> 1, n |-> 2, keys |-> <<<<1, 2>>>>, template |-> Template]
Oracles ==
    {Dlc, [Dlc EXCEPT !.keys = <<>>], [Dlc EXCEPT !.keys = <<<<1, 2>>, <<1, 2>>>>],
     [Dlc EXCEPT !.template.pair = <<1, 2>>, !.template.unit = <<>>],
     [Dlc EXCEPT !.template.precision = -1],
     [class |-> "optimistic", window |-> 3, bond |-> 4],
     [class |-> "internalTwap", window |-> 3, volume |-> 4]}
Escapes ==
    {[class |-> "tlock", beacon |-> <<1, 1>>, delay |-> 2], [class |-> "decayScript", params |-> <<>>],
     [class |-> "decayScript", params |-> <<1, 1, 0, 0, 0, 2>>]}
TierLists ==
    {<<>>, <<<<1, 2>>>>, <<<<3, 2>>, <<1, 2>>>>, <<<<1, 2>>, <<3, 1>>>>, <<<<1, 2>>, <<1, 3>>>>,
     <<<<1, 3>>, <<1, 2>>>>, <<<<0, 1>>, <<3, 2>>, <<1, 2>>>>, <<<<1, 2>>, <<0, 1>>, <<3, 2>>>>}
Numbers == {"maxSize", "term", "retain", "service", "fixed", "devBound", "validity", "window",
            "refundDelta", "stake", "direction", "settle", "version"}
MCManifests ==
    {Base} \cup {[Base EXCEPT ![f] = @ + 1] : f \in Numbers}
           \cup {[Base EXCEPT !.oracle = o] : o \in Oracles}
           \cup {[Base EXCEPT !.escape = e] : e \in Escapes}
           \cup {[Base EXCEPT !.tiers = t] : t \in TierLists}
           \cup {[Base EXCEPT !.slash = s] : s \in {<<>>, <<<<0, 0>>>>, <<<<1, 1>>, <<1, 1>>>>}}
           \cup {[Base EXCEPT !.slash = <<>>, !.hook = <<1, 1>>], [Base EXCEPT !.hook = <<1, 1>>]}

Slot(i, k) == [index |-> <<i>>, key |-> <<k>>, origin |-> Missing]
MCSlots == {<<Slot(0, "a")>>, <<Slot(0, "a"), Slot(1, "b")>>, <<Slot(1, "b"), Slot(0, "a")>>,
            <<Slot(1, "b")>>, <<Slot(0, "a"), Slot(2, "c")>>, <<Slot(0, "a"), Slot(0, "b")>>,
            <<[Slot(0, "a") EXCEPT !.key = Missing]>>, <<[Slot(0, "a") EXCEPT !.index = Missing]>>,
            <<Slot(2, "c"), Slot(0, "a"), Slot(1, "b")>>}

MCPoints == [price : {60, 98, 100, 102, 140}, volume : {0, 1, 3}]
MCBlends == [weight : {0, 5000, 12000}, clip : {100, 1000}, halt : {300, 5000}]
MCPositions == [rail : {1, 2, 3}, retained : {0, 3, 10}, stake : {0, 7}]

MCTerms == [collateral : {0, 100, 200, 275, 300}, mint : {0, 6, 10}, opening : {15000},
            liq : {11000}, m : {1, 2, 4}]
MCParams == [penalty : {1000}, bounty : {0, 5000, 10000}, cap : {5, 100}, fee : {0, 10, 150}]
=============================================================================
