------------------------------- MODULE LpSwap -------------------------------
(***************************************************************************)
(* The Rail-0 swap between redeeming clients and the LP daemon: /v0/quote  *)
(* prices a redemption and locks a wallet coin for it, /v0/settle checks   *)
(* the client's transaction against the quote and co-signs it.  The        *)
(* handlers run concurrently; the quotes live in the daemon's memory, the  *)
(* coin locks in bitcoind's, and either process may restart.               *)
(*                                                                         *)
(* A session is one quote request and the runs of `redeem` on its answer   *)
(* (a run that failed is repeated with --quote-file).  Its name is also    *)
(* the payout script it asks for.                                          *)
(***************************************************************************)
EXTENDS Integers, FiniteSets

CONSTANTS Session,
          Coin,         \* confirmed coins of the LP's wallet
          Anchor,       \* asset outputs of the users, no coins of that wallet
          CoinSats,     \* value of each coin
          Price,        \* whole-USD prices the oracle attests
          Amount,       \* amounts of SatUSD asked for
          FeeChange,    \* what tapd may leave over from the fee budget
          MSAT_PER_BTC, UNIT, BPS,
          SERVICE_BPS, FIXED_SATS, MAX_SIZE_SATS, DUST_FLOOR_SATS,
          PRICE_DEV_BOUND_BPS, QUOTE_VALIDITY_S,
          FEE_BUDGET_SATS, HEADROOM_SATS,
          MaxClock, MaxWalletLives   \* bounds of a run

ASSUME SwapAssumption ==
    /\ CoinSats \in [Coin -> Nat]
    /\ Coin \cap Anchor = {}
    /\ Price \cup Amount \cup FeeChange \subseteq Nat
    /\ {MSAT_PER_BTC, UNIT, BPS} \subseteq Nat \ {0}
    /\ {SERVICE_BPS, FIXED_SATS, MAX_SIZE_SATS, DUST_FLOOR_SATS,
        PRICE_DEV_BOUND_BPS, QUOTE_VALIDITY_S, FEE_BUDGET_SATS,
        HEADROOM_SATS, MaxClock, MaxWalletLives} \subseteq Nat

VARIABLES clock,     \* seconds
          price,     \* the latest attested price
          quotes,    \* Lp.quotes, one record per signing payload
          locked,    \* coins locked in bitcoind's wallet
          spent,     \* coins and anchors spent by a published transaction
          life,      \* history: starts of bitcoind
          session,   \* where each session is
          signed     \* history: the transactions the LP has signed

vars == <<clock, price, quotes, locked, spent, life, session, signed>>

(***************************************************************************)
(* The plan.                                                               *)
(***************************************************************************)

(* What a signing payload commits to: equal terms are equal payloads.      *)
Terms == [msat : Nat, amount : Nat, expiry : Nat]

GrossSats(t) == (t.amount * t.msat) \div UNIT
ServiceFee(gross) == (gross * SERVICE_BPS + BPS \div 2) \div BPS
UserSats(t) == GrossSats(t) - ServiceFee(GrossSats(t)) - FIXED_SATS
Planned(t) == GrossSats(t) <= MAX_SIZE_SATS /\ UserSats(t) >= DUST_FLOOR_SATS

(* The client's check of the quoted price against the oracle.              *)
PriceWithinBound(t) ==
    LET quoted == MSAT_PER_BTC \div t.msat
        off == IF quoted > price THEN quoted - price ELSE price - quoted
    IN  (off * BPS) \div price <= PRICE_DEV_BOUND_BPS

(***************************************************************************)
(* Sessions.  A lost answer needs no action: the session, which holds what *)
(* the LP answered, takes no further step.                                 *)
(***************************************************************************)
Idle == [step |-> "idle"]
Failed == [step |-> "failed"]
Asking == [step : {"selected"}, terms : Terms, coin : Coin]
Holding == [step : {"locked", "quoted", "accepted"},
            terms : Terms, coin : Coin, life : Nat]
Granted(s) == session[s].step \in {"quoted", "accepted"}
Holds(s) == session[s].step = "locked" \/ Granted(s)
InHandler(s) == session[s].step \in {"selected", "locked"}

Quote(s, consumed) ==
    [terms |-> session[s].terms, coin |-> session[s].coin,
     life |-> session[s].life, payout |-> s, consumed |-> consumed]

Init ==
    /\ clock = 0
    /\ price \in Price
    /\ quotes = {}
    /\ locked = {}
    /\ spent = {}
    /\ life = 1
    /\ session = [s \in Session |-> Idle]
    /\ signed = {}

Tick ==
    /\ clock < MaxClock
    /\ clock' = clock + 1
    /\ UNCHANGED <<price, quotes, locked, spent, life, session, signed>>

Attested ==
    /\ \E p \in Price \ {price} : price' = p
    /\ UNCHANGED <<clock, quotes, locked, spent, life, session, signed>>

(***************************************************************************)
(* POST /v0/quote.                                                         *)
(***************************************************************************)

(* Large enough, but for the fee and the change. *)
LargeForPayout(u, t) == CoinSats[u] >= UserSats(t)
Large(u, t) == CoinSats[u] >= UserSats(t) + FEE_BUDGET_SATS + HEADROOM_SATS

(* Price and expiry are read, the plan is made, and listunspent shows a    *)
(* coin that is large enough.                                              *)
AskQuote(s, amount) ==
    /\ session[s] = Idle
    /\ price > 0
    /\ LET t == [msat |-> MSAT_PER_BTC \div price, amount |-> amount,
                 expiry |-> clock + QUOTE_VALIDITY_S]
       IN  /\ Planned(t)
           /\ \E u \in Coin \ (locked \cup spent) :
                /\ Large(u, t)
                /\ session' = [session EXCEPT ![s] =
                       [step |-> "selected", terms |-> t, coin |-> u]]
    /\ UNCHANGED <<clock, price, quotes, locked, spent, life, signed>>

(* A failed lockunspent that is not noticed. *)
LockCoinUnchecked(s) ==
    /\ session[s].step = "selected"
    /\ locked' = locked \cup {session[s].coin}
    /\ session' = [session EXCEPT ![s] =
           [step |-> "locked", terms |-> session[s].terms,
            coin |-> session[s].coin, life |-> life]]
    /\ UNCHANGED <<clock, price, quotes, spent, life, signed>>

(* lockunspent fails for a coin already locked or spent, and bcli panics:  *)
(* the handler dies.                                                       *)
LockCoin(s) ==
    /\ session[s].step = "selected"
    /\ LET u == session[s].coin
       IN  IF u \in locked \cup spent
           THEN /\ session' = [session EXCEPT ![s] = Failed]
                /\ UNCHANGED locked
           ELSE /\ locked' = locked \cup {u}
                /\ session' = [session EXCEPT ![s] =
                       [step |-> "locked", terms |-> session[s].terms,
                        coin |-> u, life |-> life]]
    /\ UNCHANGED <<clock, price, quotes, spent, life, signed>>

(* tapd NewAddr fails: the quote is not made, the coin stays locked.       *)
AddrFails(s) ==
    /\ session[s].step = "locked"
    /\ session' = [session EXCEPT ![s] = Failed]
    /\ UNCHANGED <<clock, price, quotes, locked, spent, life, signed>>

(* HashMap::insert, which replaces a record of the same payload, and the   *)
(* answer.                                                                 *)
RecordQuote(s) ==
    /\ session[s].step = "locked"
    /\ quotes' = {q \in quotes : q.terms # session[s].terms} \cup {Quote(s, FALSE)}
    /\ session' = [session EXCEPT ![s].step = "quoted"]
    /\ UNCHANGED <<clock, price, locked, spent, life, signed>>

(***************************************************************************)
(* The client, and POST /v0/settle.                                        *)
(***************************************************************************)

(* fetch_verified_quote accepts the quote.                                 *)
AcceptQuote(s) ==
    /\ session[s].step = "quoted"
    /\ price > 0
    /\ PriceWithinBound(session[s].terms)
    /\ session' = [session EXCEPT ![s].step = "accepted"]
    /\ UNCHANGED <<clock, price, quotes, locked, spent, life, signed>>

(* What may be sent to settle a quote: a transaction of two inputs with    *)
(* anchor outputs.  `redeem` spends its quoted coin and an asset output    *)
(* tapd picked, and from a quote file pays whatever script it was given;   *)
(* the LP takes two inputs of any kind if one of them is the quoted coin,  *)
(* so the other may be another coin of its wallet.                         *)
Psbts == [coin : Coin, other : Coin \cup Anchor, payout : Session,
          change : BOOLEAN, slots : 1 .. 3, extra : FeeChange]

(* The checks without the payout. *)
VerifiedButPayout(q, psbt) ==
    psbt.coin = q.coin /\ psbt.extra <= FEE_BUDGET_SATS /\ psbt.change

(* The checks on the transaction in handle_settle: the quoted coin is one  *)
(* of the inputs, and of the other nothing is asked.                       *)
Verified(q, psbt) ==
    /\ psbt.coin = q.coin
    /\ psbt.extra <= FEE_BUDGET_SATS
    /\ psbt.payout = q.payout
    /\ psbt.change
    /\ psbt.slots \in 1 .. 2

Signature(q, psbt) ==
    [terms |-> q.terms, life |-> q.life, coin |-> psbt.coin, other |-> psbt.other,
     payout |-> psbt.payout, change |-> psbt.change]

(* walletprocesspsbt signs every input that is the wallet's, whether it is *)
(* quoted, locked for another quote, or spent.                             *)
SignedAway(x) == {x.coin, x.other} \cap Coin

(* handle_settle, one critical section of the quotes mutex: a live quote,  *)
(* the checks, the wallet's signature, the consumed flag.  The client may  *)
(* run again from its quote file, say when the answer was lost.            *)
ConsumedNever(q) == q
Consumed(q) == [q EXCEPT !.consumed = TRUE]
Settle(s) ==
    /\ session[s].step = "accepted"
    /\ \E q \in quotes, psbt \in Psbts :
        /\ q.terms = session[s].terms
        /\ ~q.consumed
        /\ clock <= q.terms.expiry
        /\ Verified(q, psbt)
        /\ signed' = signed \cup {Signature(q, psbt)}
        /\ quotes' = (quotes \ {q}) \cup {Consumed(q)}
    /\ session' = [session EXCEPT ![s].step = "quoted"]
    /\ UNCHANGED <<clock, price, locked, spent, life>>

(* A run that ends without a signature: refused, or given up.              *)
GiveUp(s) ==
    /\ session[s].step = "accepted"
    /\ session' = [session EXCEPT ![s].step = "quoted"]
    /\ UNCHANGED <<clock, price, quotes, locked, spent, life, signed>>

(* The client finalizes and broadcasts; the network takes it if it spends  *)
(* two outputs and none of them is spent.                                  *)
Publish(x) ==
    /\ x \in signed
    /\ x.coin # x.other
    /\ {x.coin, x.other} \cap spent = {}
    /\ spent' = spent \cup {x.coin, x.other}
    /\ UNCHANGED <<clock, price, quotes, locked, life, session, signed>>

(***************************************************************************)
(* Restarts.                                                               *)
(***************************************************************************)

(* The daemon dies with its quotes and its handlers.                       *)
LpCrash ==
    /\ quotes' = {}
    /\ session' = [s \in Session |-> IF InHandler(s) THEN Failed ELSE session[s]]
    /\ UNCHANGED <<clock, price, locked, spent, life, signed>>

(* bitcoind starts again; lockunspent's locks were in memory only.         *)
WalletRestart ==
    /\ life < MaxWalletLives
    /\ life' = life + 1
    /\ locked' = {}
    /\ UNCHANGED <<clock, price, quotes, spent, session, signed>>

Handler(s) ==
    \/ \E amount \in Amount : AskQuote(s, amount)
    \/ LockCoin(s)
    \/ AddrFails(s)
    \/ RecordQuote(s)

Redeem(s) ==
    \/ AcceptQuote(s)
    \/ GiveUp(s)
    \/ Settle(s)

Next ==
    \/ Tick \/ Attested \/ LpCrash \/ WalletRestart
    \/ \E s \in Session : Handler(s) \/ Redeem(s)
    \/ \E x \in signed : Publish(x)

Spec == Init /\ [][Next]_vars

(***************************************************************************)
(* Properties.                                                             *)
(***************************************************************************)

(* Types of the shared state and of what a session holds at each step; and *)
(* the change of a quote, value_sats - user_sats - fee_budget_sats in u64, *)
(* never wraps.                                                            *)
SwapTypeOK ==
    /\ clock \in Nat /\ price \in Price
    /\ quotes \subseteq [terms : Terms, coin : Coin, life : Nat,
                         payout : Session, consumed : BOOLEAN]
    /\ \A q \in quotes : CoinSats[q.coin] >= UserSats(q.terms) + FEE_BUDGET_SATS
    /\ locked \subseteq Coin
    /\ spent \subseteq Coin \cup Anchor
    /\ life \in Nat
    /\ session \in [Session -> {Idle, Failed} \cup Asking \cup Holding]
    /\ signed \subseteq [terms : Terms, life : Nat, coin : Coin,
                         other : Coin \cup Anchor,
                         payout : Session, change : BOOLEAN]

(* A coin is promised to one quote.  Two handlers that saw the same coin   *)
(* in listunspent, a daemon that lost its quotes, an answer nobody heard:  *)
(* none of these promises a coin again.  Only a bitcoind that was          *)
(* restarted between the two locks can.                                    *)
OneQuotePerCoin ==
    \A s, r \in Session :
        /\ s # r /\ Granted(s) /\ Granted(r)
        /\ session[s].coin = session[r].coin
        => session[s].life # session[r].life

(* The LP pays a session once: one transaction is signed for its script,   *)
(* though the client that lost the answer settles again with another one,  *)
(* whatever the second input is, and whichever process restarts.           *)
PaidOnce == \A x, y \in signed : x.payout = y.payout => x = y

(* The LP signs once for a quote: no session is paid twice; no two         *)
(* signatures are for the coin of one quote, short of a bitcoind restart;  *)
(* and where the second inputs are asset outputs of the clients, no coin   *)
(* at all is signed away twice.                                            *)
SignedOnce ==
    /\ PaidOnce
    /\ \A x, y \in signed : x # y /\ x.life = y.life =>
          /\ x.coin # y.coin
          /\ {x.other, y.other} \subseteq Anchor =>
                 SignedAway(x) \cap SignedAway(y) = {}

(* Whatever the LP signs spends the coin of one session's quote, to that   *)
(* session's script, at that session's terms, with the change; and nothing *)
(* else of the wallet, where the second input is an asset output of the    *)
(* client.  Equal payloads of two sessions share a record, so this says    *)
(* that whoever settles, neither is ever paid with the other's coin.       *)
SettledAsQuoted ==
    \A x \in signed :
        /\ x.change
        /\ Granted(x.payout)
        /\ session[x.payout].coin = x.coin
        /\ session[x.payout].terms = x.terms
        /\ x.other \in Anchor => SignedAway(x) = {session[x.payout].coin}
=============================================================================
