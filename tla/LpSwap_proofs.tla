---------------------------- MODULE LpSwap_proofs ----------------------------
(***************************************************************************)
(* A coin of the LP is promised once, and signed once as the coin of a     *)
(* quote, in each life of the wallet, and a session is paid once, for any  *)
(* number of concurrent requests, retries and restarts.                    *)
(***************************************************************************)
EXTENDS LpSwap, TLAPS

(* The inductive invariant.  A session that holds a coin locked it in some *)
(* life of the wallet, and in the present one it still is (Locks), so two  *)
(* sessions that hold one coin locked it in different lives (Apart).  A    *)
(* record is the grant of the session it pays (Records), and so is what    *)
(* was signed (Signatures); the record a signature used up is the only one *)
(* of its grant, so no two signatures are of one grant (QuotedOnce).  The  *)
(* second input of a signature is any output at all.                       *)
Covers(u, t) == CoinSats[u] >= UserSats(t) + FEE_BUDGET_SATS

Covered == \A s \in Session :
    InHandler(s) \/ Granted(s) => Covers(session[s].coin, session[s].terms)

Locks == \A s \in Session :
    Holds(s) =>
        /\ session[s].life <= life
        /\ session[s].life = life => session[s].coin \in locked

Apart == \A s, r \in Session :
    /\ s # r /\ Holds(s) /\ Holds(r)
    /\ session[s].coin = session[r].coin
    => session[s].life # session[r].life

GrantOf(s, terms, coin, l) ==
    /\ Granted(s)
    /\ session[s].terms = terms /\ session[s].coin = coin /\ session[s].life = l

Records ==
    /\ \A q \in quotes : GrantOf(q.payout, q.terms, q.coin, q.life)
    /\ \A p, q \in quotes : p.terms = q.terms => p = q

Signatures == \A x \in signed :
    /\ x.change
    /\ GrantOf(x.payout, x.terms, x.coin, x.life)
    /\ \A q \in quotes : q.coin = x.coin /\ q.life = x.life => q.consumed

QuotedOnce == \A x, y \in signed :
    x # y /\ x.coin = y.coin => x.life # y.life

SwapInv == SwapTypeOK /\ Covered /\ Locks /\ Apart /\ Records /\ Signatures /\ QuotedOnce

-----------------------------------------------------------------------------
LEMMA UserSatsInt == \A t \in Terms : UserSats(t) \in Int
<1> SUFFICES ASSUME NEW t \in Terms PROVE UserSats(t) \in Int
  OBVIOUS
<1>1. GrossSats(t) \in Int
  BY SwapAssumption DEF GrossSats, Terms
<1>2. BPS \div 2 \in Int /\ SERVICE_BPS \in Int /\ BPS \in Nat \ {0} /\ FIXED_SATS \in Int
  BY SwapAssumption
<1>3. \A g \in Int : ServiceFee(g) \in Int
  BY <1>2 DEF ServiceFee
<1> QED BY <1>1, <1>2, <1>3 DEF UserSats

LEMMA LargeCovers == \A u \in Coin, t \in Terms : Large(u, t) => Covers(u, t)
  BY SwapAssumption, UserSatsInt DEF Large, Covers

LEMMA AskedTerms ==
    ASSUME NEW amount \in Amount, price \in Price, price > 0, clock \in Nat
    PROVE  [msat |-> MSAT_PER_BTC \div price, amount |-> amount,
            expiry |-> clock + QUOTE_VALIDITY_S] \in Terms
<1>1. price \in Nat \ {0} /\ amount \in Nat /\ MSAT_PER_BTC \in Nat
  BY SwapAssumption
<1>2. MSAT_PER_BTC \div price \in Nat
  BY <1>1
<1> QED BY <1>1, <1>2, SwapAssumption DEF Terms

-----------------------------------------------------------------------------
LEMMA SwapInit == Init => SwapInv
<1> SUFFICES ASSUME Init PROVE SwapInv
  OBVIOUS
<1>1. SwapTypeOK
  BY SwapAssumption DEF Init, SwapTypeOK, Idle
<1>2. Covered /\ Locks /\ Apart
  BY DEF Init, Covered, Locks, Apart, InHandler, Granted, Holds, Idle
<1>3. Records /\ Signatures /\ QuotedOnce
  BY DEF Init, Records, Signatures, QuotedOnce
<1> QED BY <1>1, <1>2, <1>3 DEF SwapInv

(* The steps that touch neither sessions nor records nor locks.            *)
LEMMA Elsewhere ==
    ASSUME SwapInv, Tick \/ Attested \/ (\E x \in signed : Publish(x))
    PROVE  SwapInv'
<1>1. UNCHANGED <<quotes, locked, life, session, signed>>
  BY DEF Tick, Attested, Publish
<1>2. clock' \in Nat /\ price' \in Price /\ spent' \subseteq Coin \cup Anchor
  BY DEF SwapInv, SwapTypeOK, Tick, Attested, Publish
<1>3. SwapTypeOK'
  BY <1>1, <1>2 DEF SwapInv, SwapTypeOK
<1> QED BY <1>1, <1>3 DEF SwapInv, Covered, Locks, Apart, Records, GrantOf, Signatures,
                          QuotedOnce, InHandler, Granted, Holds

(* What a session record holds at each step.                               *)
LEMMA Held ==
    ASSUME SwapInv, NEW s \in Session
    PROVE  /\ Holds(s) => /\ session[s] \in Holding
                          /\ session[s].terms \in Terms /\ session[s].coin \in Coin
                          /\ session[s].life \in Nat
           /\ session[s].step = "selected" => /\ session[s].terms \in Terms
                                              /\ session[s].coin \in Coin
           /\ Granted(s) => Holds(s)
<1>1. session[s] \in {Idle, Failed} \cup Asking \cup Holding
  BY DEF SwapInv, SwapTypeOK
<1> QED BY <1>1 DEF Holds, Granted, Idle, Failed, Asking, Holding

LEMMA AskStep ==
    ASSUME SwapInv, NEW s \in Session, NEW amount \in Amount, AskQuote(s, amount)
    PROVE  SwapInv'
<1> DEFINE t == [msat |-> MSAT_PER_BTC \div price, amount |-> amount,
                 expiry |-> clock + QUOTE_VALIDITY_S]
<1>1. PICK u \in Coin : /\ Large(u, t)
                        /\ session' = [session EXCEPT ![s] =
                               [step |-> "selected", terms |-> t, coin |-> u]]
  BY DEF AskQuote
<1>2. /\ session[s] = Idle /\ price > 0
      /\ UNCHANGED <<clock, price, quotes, locked, spent, life, signed>>
  BY DEF AskQuote
<1>3. t \in Terms
  BY <1>2, AskedTerms DEF SwapInv, SwapTypeOK
<1>4. Covers(u, t)
  BY <1>1, <1>3, LargeCovers
<1> HIDE DEF t
<1>5. session'[s] = [step |-> "selected", terms |-> t, coin |-> u]
  BY <1>1 DEF SwapInv, SwapTypeOK
<1>6. \A r \in Session : r # s => session'[r] = session[r]
  BY <1>1 DEF SwapInv, SwapTypeOK
<1>7. ~Holds(s) /\ ~Granted(s) /\ ~Holds(s)' /\ ~Granted(s)'
  BY <1>2, <1>5 DEF Holds, Granted, Idle
<1>8. \A r \in Session : r # s => (Holds(r)' <=> Holds(r)) /\ (Granted(r)' <=> Granted(r))
  BY <1>6 DEF Holds, Granted
<1>9. SwapTypeOK'
  <2>1. session' \in [Session -> {Idle, Failed} \cup Asking \cup Holding]
    BY <1>1, <1>3 DEF SwapInv, SwapTypeOK, Asking
  <2> QED BY <2>1, <1>2 DEF SwapInv, SwapTypeOK
<1>10. Covered'
  BY <1>4, <1>5, <1>6, <1>7, <1>8 DEF SwapInv, Covered, InHandler, Covers
<1>11. Locks' /\ Apart'
  BY <1>2, <1>6, <1>7, <1>8 DEF SwapInv, Locks, Apart
<1>12. Records' /\ Signatures' /\ QuotedOnce'
  BY <1>2, <1>6, <1>7, <1>8
     DEF SwapInv, SwapTypeOK, Records, Signatures, GrantOf, QuotedOnce
<1> QED BY <1>9, <1>10, <1>11, <1>12 DEF SwapInv

(* A session ends without a grant.                                         *)
LEMMA FailStep ==
    ASSUME SwapInv, NEW s \in Session, session[s].step \in {"selected", "locked"},
           session' = [session EXCEPT ![s] = Failed],
           UNCHANGED <<clock, price, quotes, locked, spent, life, signed>>
    PROVE  SwapInv'
<1>1. session'[s] = Failed /\ \A r \in Session : r # s => session'[r] = session[r]
  BY DEF SwapInv, SwapTypeOK
<1>2. ~Granted(s) /\ ~Holds(s)' /\ ~Granted(s)' /\ ~InHandler(s)'
  BY <1>1 DEF Holds, Granted, Failed, InHandler
<1>3. \A r \in Session : r # s => /\ Holds(r)' <=> Holds(r)
                                  /\ Granted(r)' <=> Granted(r)
                                  /\ InHandler(r)' <=> InHandler(r)
  BY <1>1 DEF Holds, Granted, InHandler
<1>4. SwapTypeOK'
  <2>1. session' \in [Session -> {Idle, Failed} \cup Asking \cup Holding]
    BY DEF SwapInv, SwapTypeOK
  <2> QED BY <2>1 DEF SwapInv, SwapTypeOK
<1>5. Covered' /\ Locks' /\ Apart'
  BY <1>1, <1>2, <1>3 DEF SwapInv, Covered, Covers, Locks, Apart
<1>6. Records' /\ Signatures' /\ QuotedOnce'
  BY <1>1, <1>2, <1>3 DEF SwapInv, SwapTypeOK, Records, Signatures, GrantOf, QuotedOnce
<1> QED BY <1>4, <1>5, <1>6 DEF SwapInv

LEMMA LockStep ==
    ASSUME SwapInv, NEW s \in Session, LockCoin(s)
    PROVE  SwapInv'
<1> DEFINE u == session[s].coin
<1>1. CASE u \in locked \cup spent
  BY <1>1, FailStep DEF LockCoin
<1>2. CASE u \notin locked \cup spent
  <2> DEFINE h == [step |-> "locked", terms |-> session[s].terms, coin |-> u, life |-> life]
  <2>1. /\ session[s].step = "selected"
        /\ locked' = locked \cup {u}
        /\ session' = [session EXCEPT ![s] = h]
        /\ UNCHANGED <<clock, price, quotes, spent, life, signed>>
    BY <1>2 DEF LockCoin
  <2>2. session[s].terms \in Terms /\ u \in Coin /\ life \in Nat
    BY <2>1, Held DEF SwapInv, SwapTypeOK
  <2>3. h \in Holding
    BY <2>2 DEF Holding
  <2>4. session'[s] = h /\ \A r \in Session : r # s => session'[r] = session[r]
    BY <2>1 DEF SwapInv, SwapTypeOK
  <2>5. ~Granted(s) /\ Holds(s)' /\ ~Granted(s)' /\ InHandler(s) /\ InHandler(s)'
    BY <2>1, <2>4 DEF Holds, Granted, InHandler
  <2>6. \A r \in Session : r # s => /\ Holds(r)' <=> Holds(r)
                                    /\ Granted(r)' <=> Granted(r)
                                    /\ InHandler(r)' <=> InHandler(r)
    BY <2>4 DEF Holds, Granted, InHandler
  <2>7. SwapTypeOK'
    <3>1. session' \in [Session -> {Idle, Failed} \cup Asking \cup Holding]
      BY <2>1, <2>3 DEF SwapInv, SwapTypeOK
    <3>2. locked' \subseteq Coin
      BY <2>1, <2>2 DEF SwapInv, SwapTypeOK
    <3> QED BY <2>1, <3>1, <3>2 DEF SwapInv, SwapTypeOK
  <2>8. Covered'
    BY <2>4, <2>5, <2>6 DEF SwapInv, Covered, Covers
  <2>9. Locks'
    BY <2>1, <2>2, <2>4, <2>6 DEF SwapInv, Locks
  <2>10. Apart'
    BY <1>2, <2>4, <2>6 DEF SwapInv, Locks, Apart
  <2>11. Records' /\ Signatures' /\ QuotedOnce'
    BY <2>1, <2>4, <2>5, <2>6
       DEF SwapInv, SwapTypeOK, Records, Signatures, GrantOf, QuotedOnce
  <2> QED BY <2>7, <2>8, <2>9, <2>10, <2>11 DEF SwapInv
<1> QED BY <1>1, <1>2

(* A session that goes on holding what it holds.                           *)
LEMMA KeepsHolding ==
    ASSUME SwapInv, NEW s \in Session, Holds(s), NEW step \in {"quoted", "accepted"},
           session' = [session EXCEPT ![s].step = step],
           UNCHANGED <<locked, life>>
    PROVE  /\ session' \in [Session -> {Idle, Failed} \cup Asking \cup Holding]
           /\ Covered' /\ Locks' /\ Apart'
           /\ Granted(s)'
           /\ \A r \in Session : Granted(r) => Granted(r)'
           /\ \A r \in Session : Holds(r) => /\ session'[r].terms = session[r].terms
                                             /\ session'[r].coin = session[r].coin
                                             /\ session'[r].life = session[r].life
<1>1. /\ session[s] \in Holding
      /\ session'[s] = [session[s] EXCEPT !.step = step]
      /\ \A r \in Session : r # s => session'[r] = session[r]
  BY Held DEF SwapInv, SwapTypeOK
<1>2. session'[s] \in Holding
  BY <1>1 DEF Holding
<1>3. /\ session'[s].step = step
      /\ session'[s].terms = session[s].terms
      /\ session'[s].coin = session[s].coin
      /\ session'[s].life = session[s].life
  BY <1>1 DEF Holding
<1>4. Granted(s)' /\ Holds(s)' /\ ~InHandler(s)' /\ (InHandler(s) \/ Granted(s))
  BY <1>3 DEF Granted, Holds, InHandler
<1>5. \A r \in Session : r # s => /\ Holds(r)' <=> Holds(r)
                                  /\ Granted(r)' <=> Granted(r)
                                  /\ InHandler(r)' <=> InHandler(r)
  BY <1>1 DEF Holds, Granted, InHandler
<1>6. session' \in [Session -> {Idle, Failed} \cup Asking \cup Holding]
  BY <1>1, <1>2 DEF SwapInv, SwapTypeOK
<1>7. Covered'
  BY <1>1, <1>3, <1>4, <1>5 DEF SwapInv, Covered, Covers
<1>8. Locks' /\ Apart'
  BY <1>1, <1>3, <1>4, <1>5 DEF SwapInv, Locks, Apart
<1> QED BY <1>1, <1>3, <1>4, <1>5, <1>6, <1>7, <1>8

LEMMA ClientStep ==
    ASSUME SwapInv, NEW s \in Session, AcceptQuote(s) \/ GiveUp(s)
    PROVE  SwapInv'
<1>1. PICK step \in {"quoted", "accepted"} : session' = [session EXCEPT ![s].step = step]
  BY DEF AcceptQuote, GiveUp
<1>2. Holds(s) /\ UNCHANGED <<clock, price, quotes, locked, spent, life, signed>>
  BY DEF AcceptQuote, GiveUp, Holds, Granted
<1>3. /\ session' \in [Session -> {Idle, Failed} \cup Asking \cup Holding]
      /\ Covered' /\ Locks' /\ Apart'
      /\ \A r \in Session : Granted(r) =>
            /\ Granted(r)'
            /\ session'[r].terms = session[r].terms
            /\ session'[r].coin = session[r].coin
            /\ session'[r].life = session[r].life
  BY <1>1, <1>2, KeepsHolding DEF Holds
<1>4. SwapTypeOK'
  BY <1>2, <1>3 DEF SwapInv, SwapTypeOK
<1>5. Records' /\ Signatures' /\ QuotedOnce'
  BY <1>2, <1>3 DEF SwapInv, SwapTypeOK, Records, Signatures, GrantOf, QuotedOnce
<1> QED BY <1>3, <1>4, <1>5 DEF SwapInv

LEMMA RecordStep ==
    ASSUME SwapInv, NEW s \in Session, RecordQuote(s)
    PROVE  SwapInv'
<1>0. PICK t, q0 : t = session[s].terms /\ q0 = Quote(s, FALSE)
  OBVIOUS
<1>1. /\ session[s].step = "locked"
      /\ quotes' = {q \in quotes : q.terms # t} \cup {q0}
      /\ session' = [session EXCEPT ![s].step = "quoted"]
      /\ UNCHANGED <<clock, price, locked, spent, life, signed>>
  BY <1>0 DEF RecordQuote
<1>2. Holds(s) /\ ~Granted(s) /\ InHandler(s)
  BY <1>1 DEF Holds, Granted, InHandler
<1>3. /\ session' \in [Session -> {Idle, Failed} \cup Asking \cup Holding]
      /\ Covered' /\ Locks' /\ Apart' /\ Granted(s)'
      /\ \A r \in Session : Granted(r) => Granted(r)'
      /\ \A r \in Session : Holds(r) => /\ session'[r].terms = session[r].terms
                                        /\ session'[r].coin = session[r].coin
                                        /\ session'[r].life = session[r].life
  BY <1>1, <1>2, KeepsHolding
<1>4. \A r \in Session : Granted(r) => Holds(r)
  BY DEF Holds
<1>5. /\ q0.terms = t /\ q0.coin = session[s].coin /\ q0.life = session[s].life
      /\ q0.payout = s /\ q0.consumed = FALSE
  BY <1>0 DEF Quote
<1>6. q0 \in [terms : Terms, coin : Coin, life : Nat, payout : Session, consumed : BOOLEAN]
  BY <1>0, <1>2, Held DEF Quote
<1>7. Covers(q0.coin, q0.terms)
  BY <1>0, <1>2, <1>5 DEF SwapInv, Covered
<1>8. SwapTypeOK'
  BY <1>1, <1>3, <1>6, <1>7 DEF SwapInv, SwapTypeOK, Covers
<1>9. Records'
  <2>1. GrantOf(q0.payout, q0.terms, q0.coin, q0.life)'
    BY <1>0, <1>2, <1>3, <1>5 DEF GrantOf
  <2>2. \A q \in quotes : GrantOf(q.payout, q.terms, q.coin, q.life)'
    BY <1>3, <1>4 DEF SwapInv, SwapTypeOK, Records, GrantOf
  <2>3. \A p, q \in quotes' : p.terms = q.terms => p = q
    BY <1>1, <1>5 DEF SwapInv, Records
  <2> QED BY <1>1, <2>1, <2>2, <2>3 DEF Records
<1>10. Signatures'
  <2> SUFFICES ASSUME NEW x \in signed
               PROVE  /\ x.change
                      /\ GrantOf(x.payout, x.terms, x.coin, x.life)'
                      /\ \A q \in quotes' : q.coin = x.coin /\ q.life = x.life => q.consumed
    BY <1>1 DEF Signatures
  <2>1. x.payout \in Session /\ x.change /\ GrantOf(x.payout, x.terms, x.coin, x.life)
    BY DEF SwapInv, SwapTypeOK, Signatures
  <2>2. GrantOf(x.payout, x.terms, x.coin, x.life)'
    BY <1>3, <1>4, <2>1 DEF GrantOf
  <2>3. \A q \in quotes : q.coin = x.coin /\ q.life = x.life => q.consumed
    BY DEF SwapInv, Signatures
  <2>4. x.payout # s
    BY <1>2, <2>1 DEF GrantOf
  <2>5. ~(q0.coin = x.coin /\ q0.life = x.life)
    BY <1>2, <1>4, <1>5, <2>1, <2>4 DEF SwapInv, Apart, GrantOf
  <2> QED BY <1>1, <2>1, <2>2, <2>3, <2>5
<1>11. QuotedOnce'
  BY <1>1 DEF SwapInv, QuotedOnce
<1> QED BY <1>3, <1>8, <1>9, <1>10, <1>11 DEF SwapInv

LEMMA SettleStep ==
    ASSUME SwapInv, NEW s \in Session, Settle(s)
    PROVE  SwapInv'
<1>1. PICK q \in quotes, psbt \in Psbts :
          /\ ~q.consumed
          /\ Verified(q, psbt)
          /\ signed' = signed \cup {Signature(q, psbt)}
          /\ quotes' = (quotes \ {q}) \cup {Consumed(q)}
  BY DEF Settle
<1>2. /\ session[s].step = "accepted"
      /\ session' = [session EXCEPT ![s].step = "quoted"]
      /\ UNCHANGED <<clock, price, locked, spent, life>>
  BY DEF Settle
<1> DEFINE x0 == Signature(q, psbt)
<1> DEFINE q0 == Consumed(q)
<1>3. Holds(s)
  BY <1>2 DEF Holds, Granted
<1>4. /\ session' \in [Session -> {Idle, Failed} \cup Asking \cup Holding]
      /\ Covered' /\ Locks' /\ Apart'
      /\ \A r \in Session : Granted(r) => /\ Granted(r)'
                                          /\ session'[r].terms = session[r].terms
                                          /\ session'[r].coin = session[r].coin
                                          /\ session'[r].life = session[r].life
  BY <1>2, <1>3, KeepsHolding DEF Holds
<1>5. q \in [terms : Terms, coin : Coin, life : Nat, payout : Session, consumed : BOOLEAN]
  BY DEF SwapInv, SwapTypeOK
<1>6. /\ q0.terms = q.terms /\ q0.coin = q.coin /\ q0.life = q.life
      /\ q0.payout = q.payout /\ q0.consumed = TRUE
      /\ q0 \in [terms : Terms, coin : Coin, life : Nat, payout : Session, consumed : BOOLEAN]
  BY <1>5 DEF Consumed
<1>7. /\ x0.terms = q.terms /\ x0.coin = q.coin /\ x0.life = q.life
      /\ x0.payout = q.payout /\ x0.change
      /\ x0 \in [terms : Terms, life : Nat, coin : Coin, other : Coin \cup Anchor,
                 payout : Session, change : BOOLEAN]
  BY <1>1, <1>5 DEF Signature, Verified, Psbts
<1> HIDE DEF q0, x0
<1>8. SwapTypeOK'
  <2>1. CoinSats[q0.coin] >= UserSats(q0.terms) + FEE_BUDGET_SATS
    BY <1>6 DEF SwapInv, SwapTypeOK
  <2> QED BY <1>1, <1>2, <1>4, <1>6, <1>7, <2>1 DEF SwapInv, SwapTypeOK, q0, x0
<1>9. Records'
  <2>1. \A p \in quotes : GrantOf(p.payout, p.terms, p.coin, p.life)'
    BY <1>4 DEF SwapInv, SwapTypeOK, Records, GrantOf
  <2>2. GrantOf(q0.payout, q0.terms, q0.coin, q0.life)'
    BY <1>6, <2>1
  <2>3. \A p, r \in quotes' : p.terms = r.terms => p = r
    BY <1>1, <1>6 DEF SwapInv, Records, q0
  <2> QED BY <1>1, <2>1, <2>2, <2>3 DEF Records, q0
<1>10. ASSUME NEW p \in quotes, p.coin = q.coin, p.life = q.life
       PROVE  p = q
  <2>1. /\ GrantOf(p.payout, p.terms, p.coin, p.life)
        /\ GrantOf(q.payout, q.terms, q.coin, q.life)
        /\ p.payout \in Session /\ q.payout \in Session
    BY DEF SwapInv, SwapTypeOK, Records
  <2>2. p.payout = q.payout
    BY <1>10, <2>1 DEF SwapInv, Apart, GrantOf, Holds
  <2>3. p.terms = q.terms
    BY <2>1, <2>2 DEF GrantOf
  <2> QED BY <2>3 DEF SwapInv, Records
<1>11. Signatures'
  <2>1. ASSUME NEW x \in signed
        PROVE  /\ x.change
               /\ GrantOf(x.payout, x.terms, x.coin, x.life)'
               /\ \A p \in quotes' : p.coin = x.coin /\ p.life = x.life => p.consumed
    <3>1. x.payout \in Session /\ x.change /\ GrantOf(x.payout, x.terms, x.coin, x.life)
      BY DEF SwapInv, SwapTypeOK, Signatures
    <3>2. GrantOf(x.payout, x.terms, x.coin, x.life)'
      BY <1>4, <3>1 DEF GrantOf
    <3> QED BY <1>1, <1>6, <3>1, <3>2 DEF SwapInv, Signatures, q0
  <2>2. GrantOf(x0.payout, x0.terms, x0.coin, x0.life)'
    BY <1>4, <1>5, <1>7 DEF SwapInv, Records, GrantOf
  <2>3. \A p \in quotes' : p.coin = x0.coin /\ p.life = x0.life => p.consumed
    BY <1>1, <1>6, <1>7, <1>10 DEF q0
  <2> QED BY <1>1, <1>7, <2>1, <2>2, <2>3 DEF Signatures, x0
<1>12. QuotedOnce'
  <2>1. \A y \in signed : ~(y.coin = x0.coin /\ y.life = x0.life)
    BY <1>1, <1>7 DEF SwapInv, Signatures
  <2> QED BY <1>1, <2>1 DEF SwapInv, QuotedOnce, x0
<1> QED BY <1>4, <1>8, <1>9, <1>11, <1>12 DEF SwapInv

LEMMA CrashStep == ASSUME SwapInv, LpCrash PROVE SwapInv'
<1>1. /\ quotes' = {}
      /\ session' = [s \in Session |-> IF InHandler(s) THEN Failed ELSE session[s]]
      /\ UNCHANGED <<clock, price, locked, spent, life, signed>>
  BY DEF LpCrash
<1>2. \A s \in Session :
          /\ Granted(s)' <=> Granted(s)
          /\ Holds(s)' => Granted(s)
          /\ Granted(s) => session'[s] = session[s]
          /\ ~InHandler(s)'
  BY <1>1 DEF Granted, Holds, InHandler, Failed
<1>3. session' \in [Session -> {Idle, Failed} \cup Asking \cup Holding]
  BY <1>1 DEF SwapInv, SwapTypeOK
<1>4. SwapTypeOK'
  BY <1>1, <1>3 DEF SwapInv, SwapTypeOK
<1>5. Covered' /\ Locks' /\ Apart'
  BY <1>1, <1>2 DEF SwapInv, Covered, Covers, Locks, Apart, Holds
<1>6. Records' /\ Signatures' /\ QuotedOnce'
  BY <1>1, <1>2 DEF SwapInv, SwapTypeOK, Records, Signatures, GrantOf, QuotedOnce
<1> QED BY <1>4, <1>5, <1>6 DEF SwapInv

LEMMA WalletStep == ASSUME SwapInv, WalletRestart PROVE SwapInv'
<1>1. /\ life' = life + 1 /\ locked' = {}
      /\ UNCHANGED <<clock, price, quotes, spent, session, signed>>
  BY DEF WalletRestart
<1>2. SwapTypeOK'
  BY <1>1 DEF SwapInv, SwapTypeOK
<1>3. Locks'
  <2> SUFFICES ASSUME NEW s \in Session, Holds(s)
               PROVE  session[s].life <= life + 1 /\ session[s].life # life + 1
    BY <1>1 DEF Locks, Holds, Granted
  <2>1. session[s].life <= life /\ session[s].life \in Nat /\ life \in Nat
    BY Held DEF SwapInv, SwapTypeOK, Locks
  <2> QED BY <2>1
<1>4. Covered' /\ Apart' /\ Records' /\ Signatures' /\ QuotedOnce'
  BY <1>1 DEF SwapInv, Covered, Covers, Apart, Records, Signatures, GrantOf, QuotedOnce,
              InHandler, Granted, Holds
<1> QED BY <1>2, <1>3, <1>4 DEF SwapInv

LEMMA SwapStep == SwapInv /\ [Next]_vars => SwapInv'
<1> SUFFICES ASSUME SwapInv, [Next]_vars PROVE SwapInv'
  OBVIOUS
<1>1. ASSUME NEW s \in Session, Handler(s) PROVE SwapInv'
  <2>1. CASE \E amount \in Amount : AskQuote(s, amount)
    BY <2>1, AskStep
  <2>2. CASE LockCoin(s)
    BY <2>2, LockStep
  <2>3. CASE AddrFails(s)
    BY <2>3, FailStep DEF AddrFails
  <2>4. CASE RecordQuote(s)
    BY <2>4, RecordStep
  <2> QED BY <1>1, <2>1, <2>2, <2>3, <2>4 DEF Handler
<1>2. ASSUME NEW s \in Session, Redeem(s) PROVE SwapInv'
  BY <1>2, ClientStep, SettleStep DEF Redeem
<1>3. CASE UNCHANGED vars
  BY <1>3 DEF vars, SwapInv, SwapTypeOK, Covered, Covers, Locks, Apart, Records, Signatures,
              GrantOf, QuotedOnce, InHandler, Granted, Holds
<1> QED BY <1>1, <1>2, <1>3, Elsewhere, CrashStep, WalletStep DEF Next

LEMMA SwapInvariant == Spec => []SwapInv
  BY SwapInit, SwapStep, PTL DEF Spec

-----------------------------------------------------------------------------
(* The swap's state is well typed and no quote's change wraps below zero.  *)
THEOREM SwapTypeCorrect == Spec => []SwapTypeOK
<1>1. SwapInv => SwapTypeOK
  BY DEF SwapInv
<1> QED BY <1>1, SwapInvariant, PTL

(* No coin of the LP is promised to two quotes within one life of its      *)
(* wallet, whatever the daemon loses and however requests interleave.      *)
THEOREM CoinsPromisedOnce == Spec => []OneQuotePerCoin
<1>1. SwapInv => OneQuotePerCoin
  BY DEF SwapInv, Apart, OneQuotePerCoin, Holds
<1> QED BY <1>1, SwapInvariant, PTL

(* A session has one grant, and a grant one signature.                     *)
LEMMA PaidByGrant == SwapInv => PaidOnce
<1> SUFFICES ASSUME SwapInv, NEW x \in signed, NEW y \in signed, x.payout = y.payout
             PROVE  x = y
  BY DEF PaidOnce
<1>1. /\ GrantOf(x.payout, x.terms, x.coin, x.life)
      /\ GrantOf(y.payout, y.terms, y.coin, y.life)
  BY DEF SwapInv, Signatures
<1>2. x.coin = y.coin /\ x.life = y.life
  BY <1>1 DEF GrantOf
<1> QED BY <1>2 DEF SwapInv, QuotedOnce

(* The LP signs once for a quote, whatever its clients send to be signed   *)
(* and whatever is lost and restarted: no session is paid twice, in one    *)
(* life of the wallet no coin is signed away for two quotes, nor, where    *)
(* the second inputs are not the wallet's, twice in any way.               *)
THEOREM QuotesSignedOnce == Spec => []SignedOnce
<1>1. SwapInv => SignedOnce
  <2> SUFFICES ASSUME SwapInv, NEW x \in signed, NEW y \in signed,
                      x # y, x.life = y.life
               PROVE  /\ x.coin # y.coin
                      /\ {x.other, y.other} \subseteq Anchor =>
                             SignedAway(x) \cap SignedAway(y) = {}
    BY PaidByGrant DEF SignedOnce
  <2>1. x.coin # y.coin
    BY DEF SwapInv, QuotedOnce
  <2>2. \A z \in {x, y} : z.other \in Anchor => SignedAway(z) \subseteq {z.coin}
    BY SwapAssumption DEF SignedAway
  <2> QED BY <2>1, <2>2
<1> QED BY <1>1, SwapInvariant, PTL

(* Every transaction the LP signs spends the coin granted to the session   *)
(* it pays, at that session's terms, and nothing else of the wallet unless *)
(* the client names another coin of it.                                    *)
THEOREM SignedIsGranted == Spec => []SettledAsQuoted
<1>1. SwapInv => SettledAsQuoted
  <2> SUFFICES ASSUME SwapInv, NEW x \in signed
               PROVE  /\ x.change
                      /\ Granted(x.payout)
                      /\ session[x.payout].coin = x.coin
                      /\ session[x.payout].terms = x.terms
                      /\ x.other \in Anchor =>
                             SignedAway(x) = {session[x.payout].coin}
    BY DEF SettledAsQuoted
  <2>1. x.change /\ GrantOf(x.payout, x.terms, x.coin, x.life) /\ x.coin \in Coin
    BY DEF SwapInv, SwapTypeOK, Signatures
  <2>2. x.other \in Anchor => SignedAway(x) = {x.coin}
    BY <2>1, SwapAssumption DEF SignedAway
  <2> QED BY <2>1, <2>2 DEF GrantOf
<1> QED BY <1>1, SwapInvariant, PTL
=============================================================================
