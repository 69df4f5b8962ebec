------------------------------ MODULE Exchange ------------------------------
(***************************************************************************)
(* One fast redemption on chain: the user locks SatUSD, the operator funds *)
(* an HTLC, the user claims it with the preimage, the operator takes the   *)
(* lock with the preimage it has seen, each side refunds what the other    *)
(* did not take, and the operator proves the claim to the state node.      *)
(*                                                                         *)
(* A block takes every valid transaction of the mempool, and any one of    *)
(* those that spend the same output.  A block is its height and the number *)
(* of blocks disconnected before it was mined.  Disconnected transactions  *)
(* are back in the mempool.  Time is blocks: a party that watches the      *)
(* chain acts within Slack blocks, which includes the delay of a           *)
(* transaction that pays too little.                                       *)
(***************************************************************************)
EXTENDS Naturals, Sequences, FiniteSets

CONSTANTS FinalizeCsv,        \* of the lock's finalize leaf
          HtlcCsvs, LockCsvs, \* what an intent may ask for
          RefundSafetyDelta,  \* REFUND_SAFETY_DELTA
          FundingWindow,      \* blocks the operator lets pass before it funds
          Slack,              \* blocks a party may be late
          MinDepth,           \* confirmations of the claim the node asks for
          MaxReorg,           \* no block deeper than this is disconnected
          MaxTip, MaxForks,   \* bounds of a run: height, disconnected blocks
          MaxStart            \* bound: the height the lock is sent at

ASSUME ExchangeAssumption ==
    /\ {FinalizeCsv, RefundSafetyDelta, FundingWindow, Slack, MinDepth,
        MaxReorg, MaxTip, MaxForks, MaxStart} \subseteq Nat
    /\ HtlcCsvs \subseteq Nat /\ LockCsvs \subseteq Nat
    /\ MaxReorg <= MinDepth

(* The delays the safety delta is to cover: that of the operator before it *)
(* funds, that of each party when it acts, what a reorganisation moves,    *)
(* and the blocks that take the transactions.                              *)
ASSUME MarginAssumption ==
    /\ FundingWindow + 2 * Slack + MaxReorg + 3 <= RefundSafetyDelta
    /\ \A h \in HtlcCsvs : FinalizeCsv + Slack + 2 <= h + RefundSafetyDelta

VARIABLES tip,      \* height of the chain
          peak,     \* greatest height there ever was
          born,     \* height -> disconnected blocks when its block was mined
          forks,    \* blocks disconnected so far
          tx,       \* transaction -> None, Mempool or the height of its block
          terms,    \* relative timelocks of HTLC and lock refund
          revealed, \* peak at which the preimage became public
          inTime,   \* whether the user was in time then
          observer, \* build_payout_confirmation
          accepted  \* the payout proofs the state node has accepted

chainVars == <<tip, peak, born, forks>>
vars == <<chainVars, tx, terms, revealed, inTime, observer, accepted>>

Tx == {"lock", "htlc", "claim", "htlcRefund", "finalize", "lockRefund"}
Blocks == [height : Nat, gen : Nat, parent : Nat]

None == MaxTip + 2      \* of tx: not sent
Mempool == MaxTip + 1   \* of tx: sent, in no block
Never == MaxTip + 1     \* of revealed
Idle == [at |-> "idle", htlc |-> 0, block |-> [height |-> 0, gen |-> 0, parent |-> 0],
         headers |-> <<>>]

ExchangeInit ==
    /\ tip = 0 /\ peak = 0 /\ forks = 0
    /\ born = [h \in 0..MaxTip |-> 0]
    /\ tx = [t \in Tx |-> None]
    /\ terms = [htlc |-> 0, lock |-> 0]
    /\ revealed = Never /\ inTime = FALSE
    /\ observer = Idle
    /\ accepted = {}

(***************************************************************************)
(* Scripts.                                                                *)
(***************************************************************************)
Confirmed(t) == tx[t] <= MaxTip
Pending(t) == tx[t] = Mempool
Sent(t) == tx[t] /= None

(* Mutant of Csv: the refund of the HTLC waits for no timelock. *)
CsvDropped(t) ==
    CASE t \in {"claim", "htlcRefund"} -> 0
      [] t = "finalize" -> FinalizeCsv
      [] t = "lockRefund" -> terms.lock

(* Which output a transaction spends, the two leaves of either script and  *)
(* the relative timelock of the leaf.                                      *)
Leaves == [lock |-> {"finalize", "lockRefund"}, htlc |-> {"claim", "htlcRefund"}]
Spends(t) == IF t \in Leaves["lock"] THEN "lock" ELSE "htlc"
Csv(t) ==
    CASE t = "claim" -> 0
      [] t = "htlcRefund" -> terms.htlc
      [] t = "finalize" -> FinalizeCsv
      [] t = "lockRefund" -> terms.lock

(* Whether t may be in a block at height h with the transactions S.        *)
Spendable(t, S, h) ==
    LET parent == Spends(t) IN
    /\ \/ Confirmed(parent) /\ h >= tx[parent] + Csv(t)
       \/ parent \in S /\ Csv(t) = 0
    /\ \A u \in Leaves[parent] \ {t} : ~Confirmed(u) /\ u \notin S

Valid(t, S, h) == t \notin DOMAIN Leaves => Spendable(t, S, h)

(***************************************************************************)
(* The chain.                                                              *)
(***************************************************************************)
Block(h) == [height |-> h, gen |-> born[h], parent |-> IF h = 0 THEN 0 ELSE born[h - 1]]
OnChain(b) == b.height <= tip /\ b.gen = born[b.height]

(* The two parties watch: the operator refunds a stalled HTLC and takes    *)
(* the lock when it has seen the preimage, the user refunds a stalled lock *)
(* (refund_monitor).                                                       *)
Mature(t) == Confirmed(Spends(t)) /\ tip >= tx[Spends(t)] + Csv(t)
Unspent(t) == \A u \in Leaves[t] : ~Confirmed(u)
Overdue(t) ==
    /\ ~Sent(t) /\ Confirmed(Spends(t)) /\ Unspent(Spends(t))
    /\ tip >= tx[Spends(t)] + Csv(t) + Slack

OperatorLate ==
    \/ Overdue("htlcRefund") /\ ~Sent("claim")
    \/ Overdue("finalize") /\ peak >= revealed + Slack

Mine ==
    /\ tip < MaxTip /\ ~OperatorLate
    /\ \E S \in SUBSET {t \in Tx : Pending(t)} :
        /\ \A t \in S : Valid(t, S, tip + 1)
        /\ \A t \in Tx \ S : Pending(t) => ~Valid(t, S \cup {t}, tip + 1)
        /\ tx' = [t \in Tx |-> IF t \in S THEN tip + 1 ELSE tx[t]]
    /\ tip' = tip + 1
    /\ peak' = IF tip + 1 > peak THEN tip + 1 ELSE peak
    /\ born' = [born EXCEPT ![tip + 1] = forks]
    /\ UNCHANGED <<forks, terms, revealed, inTime, observer, accepted>>

(* Mutant of Disconnect: its transactions are forgotten on the old chain.   *)
DisconnectStale ==
    /\ forks < MaxForks /\ tip > 0 /\ tip - 1 + MaxReorg >= peak
    /\ tip' = tip - 1
    /\ forks' = forks + 1
    /\ UNCHANGED <<tx, peak, born, terms, revealed, inTime, observer, accepted>>

Disconnect ==
    /\ forks < MaxForks /\ tip > 0 /\ tip - 1 + MaxReorg >= peak
    /\ tip' = tip - 1
    /\ forks' = forks + 1
    /\ tx' = [t \in Tx |-> IF tx[t] = tip THEN Mempool ELSE tx[t]]
    /\ UNCHANGED <<peak, born, terms, revealed, inTime, observer, accepted>>

(***************************************************************************)
(* The parties.                                                            *)
(***************************************************************************)
Broadcast(t) == ~Sent(t) /\ tx' = [tx EXCEPT ![t] = Mempool]

(* Mutant of CsvLongEnough: the margin is forgotten.                       *)
CsvLongEnoughBare(lock, htlc) == lock >= htlc

(* check_intent_lock_binding.                                              *)
CsvLongEnough(lock, htlc) == lock >= htlc + RefundSafetyDelta

Lock(l, h) ==
    /\ tip <= MaxStart
    /\ CsvLongEnough(l, h)
    /\ Broadcast("lock")
    /\ terms' = [htlc |-> h, lock |-> l]
    /\ UNCHANGED <<chainVars, revealed, inTime, observer, accepted>>

(* The operator funds against a lock on chain, soon after it.              *)
Fund ==
    /\ Confirmed("lock") /\ tip <= tx["lock"] + FundingWindow
    /\ Broadcast("htlc")
    /\ UNCHANGED <<chainVars, terms, revealed, inTime, observer, accepted>>

(* The user may show the preimage at any time; it is in time when a claim  *)
(* that is late still has a block before the HTLC can be refunded.         *)
Claim ==
    /\ Confirmed("htlc")
    /\ Broadcast("claim")
    /\ revealed' = peak
    /\ inTime' = (tip + Slack + 1 < tx["htlc"] + terms.htlc)
    /\ UNCHANGED <<chainVars, terms, observer, accepted>>

RefundHtlc ==
    /\ Mature("htlcRefund")
    /\ Broadcast("htlcRefund")
    /\ UNCHANGED <<chainVars, terms, revealed, inTime, observer, accepted>>

(* The claim, in the mempool or in a block, shows the preimage.            *)
FinalizeLock ==
    /\ revealed /= Never /\ Mature("finalize")
    /\ Broadcast("finalize")
    /\ UNCHANGED <<chainVars, terms, revealed, inTime, observer, accepted>>

RefundLock ==
    /\ Mature("lockRefund")
    /\ Broadcast("lockRefund")
    /\ UNCHANGED <<chainVars, terms, revealed, inTime, observer, accepted>>

(***************************************************************************)
(* The payout proof: build_payout_confirmation asks bitcoind several       *)
(* times, and blocks come and go in between.                               *)
(***************************************************************************)
LocateHtlc ==
    /\ observer = Idle /\ Confirmed("htlc")
    /\ observer' = [Idle EXCEPT !.at = "htlc", !.htlc = tx["htlc"]]
    /\ UNCHANGED <<chainVars, tx, terms, revealed, inTime, accepted>>

LocateClaim ==
    /\ observer.at = "htlc"
    /\ observer' = IF Confirmed("claim")
                   THEN [observer EXCEPT !.at = "claim", !.block = Block(tx["claim"])]
                   ELSE Idle
    /\ UNCHANGED <<chainVars, tx, terms, revealed, inTime, accepted>>

(* The next header is that of the next height, whatever block is there.    *)
NextHeader ==
    LET h == observer.block.height + Len(observer.headers) + 1 IN
    /\ observer.at = "claim" /\ Len(observer.headers) < MinDepth
    /\ observer' = IF h <= tip
                   THEN [observer EXCEPT !.headers = Append(@, Block(h))]
                   ELSE Idle
    /\ UNCHANGED <<chainVars, tx, terms, revealed, inTime, accepted>>

(* Mutant of HeadersChain: only the first header is looked at.             *)
HeadersChainFirst(b, headers) == headers /= <<>> => headers[1].parent = b.gen

(* Each header names its predecessor, the first one the claim's block.     *)
HeadersChain(b, headers) ==
    \A n \in 1..Len(headers) :
        headers[n].parent = IF n = 1 THEN b.gen ELSE headers[n - 1].gen

(* verify_payout_confirmation, at a height the submitter read.             *)
VerifyPayout ==
    /\ observer.at = "claim" /\ Len(observer.headers) = MinDepth
    /\ observer' = Idle
    /\ accepted' = IF /\ observer.block.height >= observer.htlc
                      /\ HeadersChain(observer.block, observer.headers)
                      /\ tip >= observer.block.height + MinDepth
                   THEN accepted \cup {observer.block}
                   ELSE accepted
    /\ UNCHANGED <<chainVars, tx, terms, revealed, inTime>>

ExchangeNext ==
    \/ Mine \/ Disconnect
    \/ \E l \in LockCsvs, h \in HtlcCsvs : Lock(l, h)
    \/ Fund \/ Claim \/ RefundHtlc \/ FinalizeLock \/ RefundLock
    \/ LocateHtlc \/ LocateClaim \/ NextHeader \/ VerifyPayout

ExchangeSpec == ExchangeInit /\ [][ExchangeNext]_vars

(***************************************************************************)
(* Properties.                                                             *)
(***************************************************************************)

(* Types.                                                                  *)
ExchangeTypeOK ==
    /\ tip \in 0..MaxTip /\ peak \in tip..MaxTip /\ forks \in 0..MaxForks
    /\ born \in [0..MaxTip -> 0..MaxForks]
    /\ tx \in [Tx -> {None, Mempool} \cup 1..tip]
    /\ terms \in [htlc : HtlcCsvs \cup {0}, lock : LockCsvs \cup {0}]
    /\ revealed \in 0..MaxTip \cup {Never} /\ inTime \in BOOLEAN
    /\ observer \in [at : {"idle", "htlc", "claim"}, htlc : Nat, block : Blocks,
                     headers : Seq(Blocks)]
    /\ accepted \subseteq Blocks

Final(t) == Confirmed(t) /\ tx[t] + MaxReorg <= peak

(* An operator that funds in the window and then watches never ends with   *)
(* the HTLC claimed and the lock refunded: the two timelocks run from two  *)
(* confirmations and a block may be replaced, and the margin between them  *)
(* covers it.                                                              *)
OperatorIsWhole == ~(Final("claim") /\ Final("lockRefund"))

(* A user that claims in time never ends with the HTLC refunded and the    *)
(* lock taken.                                                             *)
UserIsWhole == inTime => ~(Final("htlcRefund") /\ Final("finalize"))

(* A claim whose payout proof the node accepted stays on chain, although   *)
(* the proof is put together from answers of different moments.            *)
ProvenPayoutStays ==
    \A b \in accepted : OnChain(b) /\ tx["claim"] = b.height
=============================================================================
