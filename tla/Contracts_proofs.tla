-------------------------- MODULE Contracts_proofs --------------------------
(***************************************************************************)
(* The contracts on chain.                                                 *)
(*                                                                         *)
(* A fast redemption: neither side is left without both coins, and a       *)
(* payout the node has accepted stays on chain, for any timelocks, depths  *)
(* and delays that the safety delta covers.                                *)
(*                                                                         *)
(* A vault: a position that verifies is backed until it matures, whatever  *)
(* its terms, and each price has one settlement, which shares out all.     *)
(*                                                                         *)
(* A settlement: it pays what was quoted or counts for nothing, and the    *)
(* price and the allotment made of many are those of an honest majority.   *)
(***************************************************************************)
EXTENDS Exchange, PositionRuns, FiniteTotals

(***************************************************************************)
(* The exchange.                                                           *)
(***************************************************************************)
LeafTx == {"claim", "htlcRefund", "finalize", "lockRefund"}

(* The other way to spend the same output. *)
Other == [claim |-> "htlcRefund", htlcRefund |-> "claim",
          finalize |-> "lockRefund", lockRefund |-> "finalize"]

(* The chain is never shorter than its greatest height by more than a      *)
(* reorganisation, and no block is of a branch yet to come.                *)
ChainInv ==
    /\ peak <= tip + MaxReorg
    /\ \A h \in 0..MaxTip : born[h] <= forks

(* What is in a block spends what is in a block, late enough and alone.    *)
ScriptInv == \A t \in LeafTx : Confirmed(t) =>
    /\ Confirmed(Spends(t))
    /\ tx[Spends(t)] + Csv(t) <= tx[t]
    /\ ~Confirmed(Other[t])

(* Who sent what after what. *)
SentInv ==
    /\ Sent("lock") => /\ terms.htlc \in HtlcCsvs
                       /\ CsvLongEnough(terms.lock, terms.htlc)
    /\ Sent("htlc") => Sent("lock")
    /\ Sent("claim") \/ Sent("htlcRefund") => Sent("htlc")
    /\ Sent("finalize") => Sent("claim")
    /\ Sent("lockRefund") => Sent("lock")
    /\ Sent("claim") => revealed <= peak
    /\ ~Sent("claim") => revealed = Never

(* The HTLC is funded soon after the lock, wherever blocks put the two. *)
FundedSoon == Confirmed("lock") =>
    /\ Pending("htlc") => tip <= tx["lock"] + FundingWindow
    /\ Confirmed("htlc") => tx["htlc"] <= tx["lock"] + FundingWindow + 1

(* It is spent soon after its timelock at the latest. *)
HtlcEnd == tx["htlc"] + terms.htlc + Slack

SpentSoon == Confirmed("htlc") =>
    /\ Unspent("htlc") => tip <= HtlcEnd
    /\ \A t \in Leaves["htlc"] : Confirmed(t) => tx[t] <= HtlcEnd + 1

(* Unless the HTLC is refunded for good, the preimage is out soon enough   *)
(* for the operator to take the lock before the user can refund it, and    *)
(* so early that no reorganisation gives the user the chance again.        *)
Claimable == Confirmed("lock") /\ Sent("claim") /\ ~Final("htlcRefund")

RevealedSoon == Claimable =>
    revealed <= tx["lock"] + FundingWindow + 1 + terms.htlc + Slack + MaxReorg

TakenSoon == Claimable =>
    /\ Unspent("lock") => tip + 2 <= tx["lock"] + terms.lock
    /\ Confirmed("finalize") => tx["finalize"] + 1 <= tx["lock"] + terms.lock
    /\ ~Confirmed("lockRefund")

(* A user in time is ahead of the refund at every height. *)
InTimeInv == inTime =>
    /\ Sent("claim") /\ terms.htlc > 0 /\ ~Confirmed("htlcRefund")
    /\ Confirmed("htlc") =>
         /\ Pending("claim") => tip + 1 < tx["htlc"] + terms.htlc
         /\ Confirmed("claim") => tx["claim"] < tx["htlc"] + terms.htlc

(* The last block the observer has seen, and what follows from it: while   *)
(* it is on chain so is the block under the headers, and with enough of    *)
(* them that block is never disconnected.                                  *)
Observed == IF observer.headers = <<>> THEN observer.block
            ELSE observer.headers[Len(observer.headers)]

Stands(b) == OnChain(b) /\ tx["claim"] = b.height

ObserverInv ==
    /\ observer.at # "claim" => observer.headers = <<>>
    /\ observer.at = "claim" =>
         /\ Observed.height = observer.block.height + Len(observer.headers)
         /\ Observed.height <= peak
         /\ OnChain(Observed) \/ Observed.gen < forks
         /\ /\ HeadersChain(observer.block, observer.headers)
            /\ OnChain(Observed) \/ Len(observer.headers) >= MaxReorg
            => Stands(observer.block)

AcceptedInv == \A b \in accepted : Stands(b) /\ b.height + MaxReorg <= peak

ExchangeInv ==
    /\ ExchangeTypeOK /\ ChainInv /\ ScriptInv /\ SentInv /\ FundedSoon
    /\ SpentSoon /\ RevealedSoon /\ TakenSoon /\ InTimeInv /\ ObserverInv
    /\ AcceptedInv

-----------------------------------------------------------------------------
(* The timelocks and what the margin comes to. *)
LEMMA Constants ==
  /\ FinalizeCsv \in Nat /\ RefundSafetyDelta \in Nat /\ FundingWindow \in Nat
  /\ Slack \in Nat /\ MinDepth \in Nat /\ MaxReorg \in Nat /\ MaxTip \in Nat
  /\ MaxForks \in Nat /\ MaxReorg <= MinDepth
  /\ HtlcCsvs \subseteq Nat /\ LockCsvs \subseteq Nat
BY ExchangeAssumption

LEMMA Numbers ==
  ASSUME ExchangeTypeOK
  PROVE  /\ tip \in Nat /\ peak \in Nat /\ forks \in Nat /\ revealed \in Nat
         /\ tip <= peak /\ tip <= MaxTip /\ peak <= MaxTip
         /\ terms.htlc \in Nat /\ terms.lock \in Nat
         /\ \A t \in Tx : tx[t] \in Nat
         /\ \A h \in 0..MaxTip : born[h] \in Nat
<1>1. /\ tip \in 0..MaxTip /\ peak \in tip..MaxTip /\ forks \in 0..MaxForks
      /\ revealed \in 0..MaxTip \cup {Never}
      /\ born \in [0..MaxTip -> 0..MaxForks]
  BY DEF ExchangeTypeOK
<1>2. tx \in [Tx -> {None, Mempool} \cup 1..tip]
  BY DEF ExchangeTypeOK
<1>3. \A t \in Tx : tx[t] \in Nat
  BY <1>1, <1>2, Constants DEF None, Mempool
<1>4. terms.htlc \in Nat /\ terms.lock \in Nat
  <2>1. terms.htlc \in HtlcCsvs \cup {0} /\ terms.lock \in LockCsvs \cup {0}
    BY DEF ExchangeTypeOK
  <2>2. HtlcCsvs \cup {0} \subseteq Nat /\ LockCsvs \cup {0} \subseteq Nat
    BY Constants
  <2> QED BY <2>1, <2>2
<1> QED BY <1>1, <1>3, <1>4, Constants DEF Never

LEMMA Margin ==
  ASSUME ExchangeTypeOK, SentInv, Sent("lock")
  PROVE  /\ FundingWindow + 2 * Slack + MaxReorg + 3 + terms.htlc <= terms.lock
         /\ FinalizeCsv + Slack + 2 <= terms.lock
<1>1. /\ terms.htlc \in HtlcCsvs /\ terms.htlc \in Nat /\ terms.lock \in Nat
      /\ terms.lock >= terms.htlc + RefundSafetyDelta
  BY Numbers DEF SentInv, CsvLongEnough
<1>2. FinalizeCsv + Slack + 2 <= terms.htlc + RefundSafetyDelta
  BY <1>1, MarginAssumption
<1> QED BY <1>1, <1>2, MarginAssumption, Constants

(* A transaction is not sent, in the mempool, or in a block. *)
LEMMA Whereabouts ==
  ASSUME ExchangeTypeOK, NEW t \in Tx
  PROVE  /\ Sent(t) <=> Pending(t) \/ Confirmed(t)
         /\ ~(Pending(t) /\ Confirmed(t))
         /\ Confirmed(t) => tx[t] \in 1..tip
<1>1. tx[t] \in {None, Mempool} \cup 1..tip
  BY DEF ExchangeTypeOK
<1>2. tip \in Nat /\ MaxTip \in Nat /\ tip <= MaxTip /\ tx[t] \in Nat
  BY Constants, Numbers
<1>3. None = MaxTip + 2 /\ Mempool = MaxTip + 1
  BY DEF None, Mempool
<1>4. CASE tx[t] \in {None, Mempool}
  BY <1>2, <1>3, <1>4 DEF Sent, Pending, Confirmed
<1>5. CASE tx[t] \in 1..tip
  BY <1>2, <1>3, <1>5 DEF Sent, Pending, Confirmed
<1> QED BY <1>1, <1>4, <1>5

LEMMA ObserverType ==
  ASSUME ExchangeTypeOK
  PROVE  /\ observer.at \in {"idle", "htlc", "claim"} /\ observer.htlc \in Nat
         /\ observer.block \in Blocks /\ observer.headers \in Seq(Blocks)
         /\ observer.block.height \in Nat /\ Len(observer.headers) \in Nat
         /\ Observed \in Blocks
<1>1. /\ observer.at \in {"idle", "htlc", "claim"} /\ observer.htlc \in Nat
      /\ observer.block \in Blocks /\ observer.headers \in Seq(Blocks)
  BY DEF ExchangeTypeOK
<1>2. observer.headers # <<>> =>
        observer.headers[Len(observer.headers)] \in Blocks
  BY <1>1
<1> QED BY <1>1, <1>2 DEF Observed, Blocks

LEMMA Scripts ==
  /\ Leaves["htlc"] = {"claim", "htlcRefund"}
  /\ Leaves["lock"] = {"finalize", "lockRefund"}
  /\ DOMAIN Leaves = {"lock", "htlc"}
  /\ Spends("claim") = "htlc" /\ Spends("htlcRefund") = "htlc"
  /\ Spends("finalize") = "lock" /\ Spends("lockRefund") = "lock"
  /\ Csv("claim") = 0 /\ Csv("htlcRefund") = terms.htlc
  /\ Csv("finalize") = FinalizeCsv /\ Csv("lockRefund") = terms.lock
BY DEF Leaves, Spends, Csv

LEMMA Relations ==
  ASSUME NEW t \in LeafTx
  PROVE  /\ t \in Tx /\ Other[t] \in LeafTx /\ Other[t] # t /\ Spends(t) \in {"lock", "htlc"}
         /\ Other[Other[t]] = t /\ Spends(Other[t]) = Spends(t)
         /\ Leaves[Spends(t)] \ {t} = {Other[t]}
         /\ Leaves[Spends(t)] = {t, Other[t]}
         /\ t \notin DOMAIN Leaves /\ Spends(t) \in Tx
BY Scripts DEF LeafTx, Other, Tx

LEMMA CsvType ==
  ASSUME ExchangeTypeOK, NEW t \in LeafTx
  PROVE  Csv(t) \in Nat
BY Scripts, Numbers, Constants DEF LeafTx

(* Sending puts one transaction into the mempool and moves no other. *)
LEMMA Sending ==
  ASSUME ExchangeTypeOK, NEW t \in Tx, Broadcast(t)
  PROVE  /\ ~Sent(t) /\ Pending(t)' /\ tx' \in [Tx -> Nat]
         /\ \A u \in Tx : /\ Confirmed(u)' <=> Confirmed(u)
                          /\ Confirmed(u) => tx'[u] = tx[u]
                          /\ Pending(u)' <=> Pending(u) \/ u = t
                          /\ Sent(u)' <=> Sent(u) \/ u = t
<1>1. tx \in [Tx -> {None, Mempool} \cup 1..tip] /\ tip \in Nat /\ MaxTip \in Nat
  BY Numbers, Constants DEF ExchangeTypeOK
<1>2. ~Sent(t) /\ tx' = [tx EXCEPT ![t] = Mempool]
  BY DEF Broadcast
<1>3. \A u \in Tx : tx'[u] = IF u = t THEN Mempool ELSE tx[u]
  BY <1>1, <1>2
<1> QED BY <1>1, <1>2, <1>3 DEF Sent, Confirmed, Pending, None, Mempool
-----------------------------------------------------------------------------
LEMMA InitInv == ExchangeInit => ExchangeInv
<1> SUFFICES ASSUME ExchangeInit PROVE ExchangeInv
  OBVIOUS
<1>1. \A t \in Tx : ~Sent(t) /\ ~Confirmed(t) /\ ~Pending(t)
  BY Constants DEF ExchangeInit, Sent, Confirmed, Pending, None, Mempool
<1>2. ExchangeTypeOK
  <2>1. observer \in [at : {"idle", "htlc", "claim"}, htlc : Nat, block : Blocks,
                      headers : Seq(Blocks)]
    BY DEF ExchangeInit, Idle, Blocks
  <2>2. tip \in 0..MaxTip /\ peak \in tip..MaxTip /\ forks \in 0..MaxForks
    BY Constants DEF ExchangeInit
  <2>3. born \in [0..MaxTip -> 0..MaxForks]
    BY Constants DEF ExchangeInit
  <2>4. tx \in [Tx -> {None, Mempool} \cup 1..tip]
    BY DEF ExchangeInit
  <2>5. terms \in [htlc : HtlcCsvs \cup {0}, lock : LockCsvs \cup {0}]
    BY DEF ExchangeInit
  <2>6. revealed \in 0..MaxTip \cup {Never} /\ inTime \in BOOLEAN /\ accepted \subseteq Blocks
    BY DEF ExchangeInit
  <2> QED BY <2>1, <2>2, <2>3, <2>4, <2>5, <2>6 DEF ExchangeTypeOK
<1>3. ChainInv
  BY Constants DEF ExchangeInit, ChainInv
<1>4. ScriptInv /\ SentInv /\ FundedSoon /\ SpentSoon /\ RevealedSoon /\ TakenSoon
  BY <1>1, Relations
     DEF ExchangeInit, ScriptInv, SentInv, FundedSoon, SpentSoon, RevealedSoon, TakenSoon,
         Claimable, Tx
<1>5. InTimeInv /\ ObserverInv /\ AcceptedInv
  BY DEF ExchangeInit, InTimeInv, ObserverInv, AcceptedInv, Idle
<1> QED BY <1>2, <1>3, <1>4, <1>5 DEF ExchangeInv

-----------------------------------------------------------------------------
(* Sending. *)

(* Nothing that is about blocks changes when a transaction is sent. *)
LEMMA SendingKeepsBlocks ==
  ASSUME ExchangeInv, NEW t \in Tx, Broadcast(t),
         UNCHANGED <<tip, peak, born, forks, terms, observer, accepted>>
  PROVE  /\ tx' \in [Tx -> {None, Mempool} \cup 1..tip']
         /\ \A u \in Tx : Final(u)' <=> Final(u)
         /\ ChainInv' /\ ScriptInv' /\ SpentSoon' /\ ObserverInv' /\ AcceptedInv'
<1>1. /\ ExchangeTypeOK /\ tip' = tip
      /\ \A u \in Tx : /\ Confirmed(u)' <=> Confirmed(u)
                       /\ Confirmed(u) => tx'[u] = tx[u]
  BY Sending DEF ExchangeInv
<1>2. tx' \in [Tx -> {None, Mempool} \cup 1..tip']
  BY <1>1 DEF ExchangeTypeOK, Broadcast
<1>3. \A u \in Tx : Final(u)' <=> Final(u)
  BY <1>1 DEF Final
<1>4. ChainInv'
  BY DEF ExchangeInv, ChainInv
<1>5. ScriptInv'
  <2> SUFFICES ASSUME NEW u \in LeafTx, Confirmed(u)'
               PROVE  /\ Confirmed(Spends(u))' /\ ~Confirmed(Other[u])'
                      /\ tx'[Spends(u)] + Csv(u)' <= tx'[u]
    BY DEF ScriptInv
  <2>1. /\ Confirmed(u) /\ Confirmed(Spends(u)) /\ ~Confirmed(Other[u])
        /\ tx[Spends(u)] + Csv(u) <= tx[u]
    BY <1>1, Relations DEF ExchangeInv, ScriptInv
  <2>2. Csv(u)' = Csv(u)
    BY DEF Csv
  <2>3. u \in Tx /\ Spends(u) \in Tx /\ Other[u] \in Tx
    BY Relations
  <2> QED BY <1>1, <2>1, <2>2, <2>3
<1>6. SpentSoon'
  <2>1. {"htlc", "claim", "htlcRefund"} \subseteq Tx
    BY DEF Tx
  <2> QED BY <1>1, <2>1, Scripts DEF ExchangeInv, SpentSoon, HtlcEnd, Unspent
<1>7. \A b : Stands(b) => Stands(b)'
  <2>1. "claim" \in Tx
    BY DEF Tx
  <2>2. \A b : OnChain(b) /\ tx["claim"] = b.height => Confirmed("claim")
    <3> SUFFICES ASSUME NEW b, b.height <= tip, tx["claim"] = b.height
                 PROVE  Confirmed("claim")
      BY DEF OnChain
    <3>1. tx["claim"] \in Nat /\ tip \in Nat /\ tip <= MaxTip
      BY <1>1, <2>1, Numbers
    <3> QED BY <3>1, Constants DEF Confirmed
  <2> QED BY <1>1, <2>1, <2>2 DEF Stands, OnChain
<1>8. Observed' = Observed /\ (OnChain(Observed)' <=> OnChain(Observed))
      /\ HeadersChain(observer.block, observer.headers)'
           = HeadersChain(observer.block, observer.headers)
  BY DEF Observed, OnChain, HeadersChain
<1>9. ObserverInv'
  BY <1>7, <1>8 DEF ExchangeInv, ObserverInv
<1>10. AcceptedInv'
  BY <1>7 DEF ExchangeInv, AcceptedInv
<1> QED BY <1>2, <1>3, <1>4, <1>5, <1>6, <1>9, <1>10

(* All but the claim is sent without a promise to anyone. *)
LEMMA SendPreserves ==
  ASSUME ExchangeInv, NEW t \in Tx \ {"lock", "claim"}, Broadcast(t),
         UNCHANGED <<chainVars, terms, revealed, inTime, observer, accepted>>,
         SentInv', t = "htlc" => FundedSoon'
  PROVE  ExchangeInv'
<1> USE DEF chainVars
<1>1. /\ ExchangeTypeOK
      /\ \A u \in Tx : /\ Confirmed(u)' <=> Confirmed(u)
                       /\ Confirmed(u) => tx'[u] = tx[u]
                       /\ Pending(u)' <=> Pending(u) \/ u = t
                       /\ Sent(u)' <=> Sent(u) \/ u = t
  BY Sending DEF ExchangeInv
<1>2. /\ tx' \in [Tx -> {None, Mempool} \cup 1..tip']
      /\ \A u \in Tx : Final(u)' <=> Final(u)
      /\ ChainInv' /\ ScriptInv' /\ SpentSoon' /\ ObserverInv' /\ AcceptedInv'
  BY SendingKeepsBlocks
<1>3. ExchangeTypeOK'
  BY <1>1, <1>2 DEF ExchangeTypeOK
<1>4. {"lock", "htlc", "claim", "htlcRefund", "finalize", "lockRefund"} \subseteq Tx
  BY DEF Tx
<1>5. FundedSoon'
  BY <1>1, <1>4 DEF ExchangeInv, FundedSoon
<1>6. Claimable' <=> Claimable
  BY <1>1, <1>2, <1>4 DEF Claimable
<1>7. RevealedSoon'
  BY <1>1, <1>4, <1>6 DEF ExchangeInv, RevealedSoon, Claimable
<1>8. TakenSoon'
  BY <1>1, <1>4, <1>6, Scripts DEF ExchangeInv, TakenSoon, Claimable, Unspent
<1>9. InTimeInv'
  BY <1>1, <1>4 DEF ExchangeInv, InTimeInv
<1> QED BY <1>2, <1>3, <1>5, <1>7, <1>8, <1>9 DEF ExchangeInv

LEMMA FundPreserves == ASSUME ExchangeInv, Fund PROVE ExchangeInv'
<1>1. ExchangeTypeOK /\ "htlc" \in Tx \ {"lock", "claim"} /\ Broadcast("htlc")
      /\ Confirmed("lock") /\ tip <= tx["lock"] + FundingWindow
      /\ UNCHANGED <<chainVars, terms, revealed, inTime, observer, accepted>>
  BY DEF ExchangeInv, Fund, Tx
<1>2. \A u \in Tx : /\ Confirmed(u)' <=> Confirmed(u)
                    /\ Confirmed(u) => tx'[u] = tx[u]
                    /\ Sent(u)' <=> Sent(u) \/ u = "htlc"
  BY <1>1, Sending
<1>3. {"lock", "htlc", "claim", "htlcRefund", "finalize", "lockRefund"} \subseteq Tx
  BY DEF Tx
<1>4. SentInv'
  BY <1>1, <1>2, <1>3, Whereabouts DEF ExchangeInv, SentInv, chainVars, CsvLongEnough
<1>5. FundedSoon'
  <2>1. ~Confirmed("htlc")
    BY <1>1, <1>3, Sending, Whereabouts
  <2> QED BY <1>1, <1>2, <1>3, <2>1 DEF FundedSoon, chainVars
<1> QED BY <1>1, <1>4, <1>5, SendPreserves

(* The two refunds and the operator's claim of the lock. *)
LEMMA SpendPreserves ==
  ASSUME ExchangeInv, RefundHtlc \/ FinalizeLock \/ RefundLock
  PROVE  ExchangeInv'
<1>1. PICK t \in {"htlcRefund", "finalize", "lockRefund"} :
        /\ Broadcast(t) /\ Mature(t)
        /\ t = "finalize" => revealed # Never
        /\ UNCHANGED <<chainVars, terms, revealed, inTime, observer, accepted>>
  BY DEF RefundHtlc, FinalizeLock, RefundLock
<1>2. ExchangeTypeOK /\ t \in Tx \ {"lock", "claim"} /\ t # "htlc"
  BY <1>1 DEF ExchangeInv, Tx
<1>3. \A u \in Tx : Sent(u)' <=> Sent(u) \/ u = t
  BY <1>1, <1>2, Sending
<1>4. {"lock", "htlc", "claim", "htlcRefund", "finalize", "lockRefund"} \subseteq Tx
  BY DEF Tx
<1>5. (t = "htlcRefund" => Sent("htlc")) /\ (t = "lockRefund" => Sent("lock"))
  BY <1>1, <1>2, <1>4, Scripts, Whereabouts DEF Mature
<1>6. SentInv'
  BY <1>1, <1>2, <1>3, <1>4, <1>5 DEF ExchangeInv, SentInv, chainVars, CsvLongEnough
<1> QED BY <1>1, <1>2, <1>6, SendPreserves

(* Before there is a lock there is nothing. *)
LEMMA LockPreserves ==
  ASSUME ExchangeInv, NEW l \in LockCsvs, NEW h \in HtlcCsvs, Lock(l, h)
  PROVE  ExchangeInv'
<1>1. /\ ExchangeTypeOK /\ Broadcast("lock") /\ CsvLongEnough(l, h)
      /\ terms' = [htlc |-> h, lock |-> l]
      /\ UNCHANGED <<tip, peak, born, forks, revealed, inTime, observer, accepted>>
  BY DEF ExchangeInv, Lock, chainVars
<1>2. {"lock", "htlc", "claim", "htlcRefund", "finalize", "lockRefund"} \subseteq Tx
  BY DEF Tx
<1>3. \A u \in Tx : /\ Confirmed(u)' <=> Confirmed(u)
                    /\ Confirmed(u) => tx'[u] = tx[u]
                    /\ Sent(u)' <=> Sent(u) \/ u = "lock"
  BY <1>1, <1>2, Sending
<1>4. \A u \in Tx : ~Sent(u) /\ ~Confirmed(u) /\ ~Confirmed(u)'
  <2>1. \A u \in Tx : ~Sent(u)
    BY <1>1, <1>2, Sending DEF ExchangeInv, SentInv, Tx
  <2> QED BY <1>1, <1>3, <2>1, Whereabouts
<1>5. ExchangeTypeOK' /\ ChainInv' /\ ScriptInv'
  <2>1. tx' \in [Tx -> {None, Mempool} \cup 1..tip']
    BY <1>1, <1>2 DEF ExchangeTypeOK, Broadcast
  <2>2. terms' \in [htlc : HtlcCsvs \cup {0}, lock : LockCsvs \cup {0}]
    BY <1>1
  <2>3. ExchangeTypeOK'
    BY <1>1, <2>1, <2>2 DEF ExchangeTypeOK
  <2>4. ChainInv'
    BY <1>1 DEF ExchangeInv, ChainInv
  <2>5. ScriptInv'
    BY <1>4, Relations DEF ScriptInv
  <2> QED BY <2>3, <2>4, <2>5
<1>6. SentInv'
  BY <1>1, <1>2, <1>3, <1>4 DEF ExchangeInv, SentInv, CsvLongEnough
<1>7. FundedSoon' /\ SpentSoon' /\ RevealedSoon' /\ TakenSoon'
  BY <1>2, <1>4 DEF FundedSoon, SpentSoon, RevealedSoon, TakenSoon, Claimable
<1>8. InTimeInv'
  BY <1>1, <1>2, <1>4 DEF ExchangeInv, InTimeInv
<1>9. ObserverInv' /\ AcceptedInv'
  <2>1. ~Stands(observer.block) /\ \A b : ~Stands(b)
    <3>1. ASSUME NEW b, Stands(b) PROVE FALSE
      <4>1. tx["claim"] <= tip
        BY <3>1 DEF Stands, OnChain
      <4>2. tx["claim"] \in Nat /\ tip \in Nat /\ tip <= MaxTip
        BY <1>1, <1>2, Numbers
      <4> QED BY <1>2, <1>4, <4>1, <4>2, Constants DEF Confirmed
    <3> QED BY <3>1
  <2>2. Observed' = Observed /\ (OnChain(Observed)' <=> OnChain(Observed))
        /\ HeadersChain(observer.block, observer.headers)'
             = HeadersChain(observer.block, observer.headers)
    BY <1>1 DEF Observed, OnChain, HeadersChain
  <2> QED BY <1>1, <2>1, <2>2 DEF ExchangeInv, ObserverInv, AcceptedInv
<1> QED BY <1>5, <1>6, <1>7, <1>8, <1>9 DEF ExchangeInv

-----------------------------------------------------------------------------
(* The claim.  Until it is sent the HTLC is not spent, or refunded so      *)
(* lately that the refund may still be undone; either way the chain is     *)
(* young.                                                                  *)
LEMMA ClaimIsEarly ==
  ASSUME ExchangeInv, Confirmed("htlc"), ~Sent("claim"), ~Final("htlcRefund")
  PROVE  peak <= HtlcEnd + MaxReorg
<1>1. ExchangeTypeOK /\ "claim" \in Tx /\ "htlcRefund" \in Tx /\ "htlc" \in Tx
  BY DEF ExchangeInv, Tx
<1>2. ~Confirmed("claim")
  BY <1>1, Whereabouts
<1>3. CASE Unspent("htlc")
  <2>1. tip <= HtlcEnd /\ peak <= tip + MaxReorg
    BY <1>3 DEF ExchangeInv, SpentSoon, ChainInv
  <2> QED BY <1>1, <2>1, Numbers, Constants DEF HtlcEnd
<1>4. CASE ~Unspent("htlc")
  <2>1. Confirmed("htlcRefund")
    BY <1>2, <1>4, Scripts DEF Unspent
  <2>2. tx["htlcRefund"] <= HtlcEnd + 1
    BY <2>1, Scripts DEF ExchangeInv, SpentSoon
  <2>3. peak < tx["htlcRefund"] + MaxReorg
    BY <1>1, <2>1, Numbers, Constants DEF Final
  <2> QED BY <1>1, <2>2, <2>3, Numbers, Constants DEF HtlcEnd
<1> QED BY <1>3, <1>4

LEMMA ClaimPreserves == ASSUME ExchangeInv, Claim PROVE ExchangeInv'
<1>1. /\ ExchangeTypeOK /\ Broadcast("claim") /\ Confirmed("htlc")
      /\ revealed' = peak
      /\ inTime' = (tip + Slack + 1 < tx["htlc"] + terms.htlc)
      /\ UNCHANGED <<tip, peak, born, forks, terms, observer, accepted>>
  BY DEF ExchangeInv, Claim, chainVars
<1>2. {"lock", "htlc", "claim", "htlcRefund", "finalize", "lockRefund"} \subseteq Tx
  BY DEF Tx
<1>3. /\ ~Sent("claim") /\ Pending("claim")'
      /\ \A u \in Tx : /\ Confirmed(u)' <=> Confirmed(u)
                       /\ Confirmed(u) => tx'[u] = tx[u]
                       /\ Pending(u)' <=> Pending(u) \/ u = "claim"
                       /\ Sent(u)' <=> Sent(u) \/ u = "claim"
  BY <1>1, <1>2, Sending
<1>4. /\ tx' \in [Tx -> {None, Mempool} \cup 1..tip']
      /\ \A u \in Tx : Final(u)' <=> Final(u)
      /\ ChainInv' /\ ScriptInv' /\ SpentSoon' /\ ObserverInv' /\ AcceptedInv'
  BY <1>1, <1>2, SendingKeepsBlocks
<1>5. ExchangeTypeOK'
  <2>1. revealed' \in 0..MaxTip \cup {Never} /\ inTime' \in BOOLEAN
    BY <1>1, Numbers DEF ExchangeTypeOK
  <2> QED BY <1>1, <1>4, <2>1 DEF ExchangeTypeOK
<1>6. SentInv'
  BY <1>1, <1>2, <1>3, Whereabouts, Numbers DEF ExchangeInv, SentInv, CsvLongEnough
<1>7. FundedSoon'
  BY <1>1, <1>2, <1>3 DEF ExchangeInv, FundedSoon
<1>8. ASSUME Claimable'
      PROVE  /\ Confirmed("lock") /\ Sent("lock")
             /\ peak <= tx["lock"] + FundingWindow + 1 + terms.htlc + Slack + MaxReorg
             /\ ~Sent("finalize")
  <2>1. Confirmed("lock") /\ ~Final("htlcRefund") /\ Sent("lock")
    BY <1>1, <1>2, <1>3, <1>4, <1>8, Whereabouts DEF Claimable
  <2>2. peak <= HtlcEnd + MaxReorg
    BY <1>1, <1>3, <2>1, ClaimIsEarly
  <2>3. tx["htlc"] <= tx["lock"] + FundingWindow + 1
    BY <1>1, <2>1 DEF ExchangeInv, FundedSoon
  <2>4. ~Sent("finalize")
    BY <1>3 DEF ExchangeInv, SentInv
  <2> QED BY <1>1, <1>2, <2>1, <2>2, <2>3, <2>4, Numbers, Constants DEF HtlcEnd
<1>9. RevealedSoon'
  BY <1>1, <1>2, <1>3, <1>8 DEF RevealedSoon, Claimable
<1>10. TakenSoon'
  <2> SUFFICES ASSUME Claimable'
               PROVE  /\ tip + 2 <= tx["lock"] + terms.lock
                      /\ ~Confirmed("finalize") /\ ~Confirmed("lockRefund")
    BY <1>1, <1>2, <1>3 DEF TakenSoon, Claimable
  <2>1. FundingWindow + 2 * Slack + MaxReorg + 3 + terms.htlc <= terms.lock
    BY <1>1, <1>8, Margin DEF ExchangeInv
  <2>2. peak + 2 <= tx["lock"] + terms.lock
    BY <1>1, <1>2, <1>8, <2>1, Numbers, Constants
  <2>3. ~Confirmed("finalize")
    BY <1>1, <1>2, <1>8, Whereabouts
  <2>4. ~Confirmed("lockRefund")
    <3>1. ASSUME Confirmed("lockRefund")
          PROVE  tx["lock"] + terms.lock <= tx["lockRefund"] /\ tx["lockRefund"] <= tip
      <4>1. tx["lock"] + terms.lock <= tx["lockRefund"]
        BY <3>1, Scripts DEF ExchangeInv, ScriptInv, LeafTx
      <4>2. tx["lockRefund"] \in 1..tip
        BY <1>1, <1>2, <3>1, Whereabouts
      <4> QED BY <1>1, <4>1, <4>2, Numbers
    <3> QED BY <1>1, <1>2, <2>2, <3>1, Numbers
  <2> QED BY <1>1, <1>2, <2>2, <2>3, <2>4, Numbers
<1>11. InTimeInv'
  <2> SUFFICES ASSUME inTime'
               PROVE  /\ terms.htlc > 0 /\ ~Confirmed("htlcRefund") /\ ~Confirmed("claim")
                      /\ tip + 1 < tx["htlc"] + terms.htlc
    BY <1>1, <1>2, <1>3 DEF InTimeInv
  <2>1. tip + Slack + 1 < tx["htlc"] + terms.htlc /\ tx["htlc"] \in 1..tip
    BY <1>1, <1>2, Whereabouts
  <2>2. tip + 1 < tx["htlc"] + terms.htlc /\ terms.htlc > 0
    BY <1>1, <2>1, Numbers, Constants
  <2>3. ~Confirmed("claim")
    BY <1>1, <1>2, <1>3, Whereabouts
  <2>4. ASSUME Confirmed("htlcRefund") PROVE FALSE
    <3>1. tx["htlc"] + terms.htlc <= tx["htlcRefund"]
      BY <2>4, Scripts DEF ExchangeInv, ScriptInv, LeafTx
    <3>2. tx["htlcRefund"] \in 1..tip
      BY <1>1, <1>2, <2>4, Whereabouts
    <3> QED BY <1>1, <2>1, <2>2, <3>1, <3>2, Numbers
  <2> QED BY <2>2, <2>3, <2>4
<1> QED BY <1>4, <1>5, <1>6, <1>7, <1>9, <1>10, <1>11 DEF ExchangeInv

-----------------------------------------------------------------------------
(* A block. *)
MineWith(S) ==
    /\ tip < MaxTip /\ ~OperatorLate
    /\ S \in SUBSET {t \in Tx : Pending(t)}
    /\ \A t \in S : Valid(t, S, tip + 1)
    /\ \A t \in Tx \ S : Pending(t) => ~Valid(t, S \cup {t}, tip + 1)
    /\ tx' = [t \in Tx |-> IF t \in S THEN tip + 1 ELSE tx[t]]
    /\ tip' = tip + 1
    /\ peak' = IF tip + 1 > peak THEN tip + 1 ELSE peak
    /\ born' = [born EXCEPT ![tip + 1] = forks]
    /\ UNCHANGED <<forks, terms, revealed, inTime, observer, accepted>>

(* What of t's output must be so for t to be in the block. *)
Ripe(t, S) ==
    \/ Confirmed(Spends(t)) /\ tip + 1 >= tx[Spends(t)] + Csv(t)
    \/ Spends(t) \in S /\ Csv(t) = 0

(* The block takes both outputs when they wait, and of what spends one and *)
(* is ripe it takes one.                                                   *)
LEMMA BlockTakes ==
  ASSUME NEW S, MineWith(S)
  PROVE  /\ \A t \in {"lock", "htlc"} : Pending(t) => t \in S
         /\ \A t \in S \cap LeafTx :
              Ripe(t, S) /\ ~Confirmed(Other[t]) /\ Other[t] \notin S
         /\ \A t \in LeafTx \ S : Pending(t) /\ Ripe(t, S) =>
              Confirmed(Other[t]) \/ Other[t] \in S
<1>1. ASSUME NEW t \in {"lock", "htlc"}, Pending(t)
      PROVE  t \in S
  <2>1. \A R : Valid(t, R, tip + 1)
    BY Scripts DEF Valid
  <2>2. t \in Tx
    BY DEF Tx
  <2> QED BY <1>1, <2>1, <2>2 DEF MineWith
<1>2. \A R : \A t \in LeafTx : Valid(t, R, tip + 1) <=>
        /\ Ripe(t, R) /\ ~Confirmed(Other[t]) /\ Other[t] \notin R
  BY Relations DEF Valid, Spendable, Ripe
<1>3. ASSUME NEW t \in S \cap LeafTx
      PROVE  Ripe(t, S) /\ ~Confirmed(Other[t]) /\ Other[t] \notin S
  BY <1>2 DEF MineWith
<1>4. ASSUME NEW t \in LeafTx \ S, Pending(t), Ripe(t, S)
      PROVE  Confirmed(Other[t]) \/ Other[t] \in S
  <2>1. t \in Tx \ S /\ Other[t] # t /\ Spends(t) # t
    BY Relations, Scripts DEF LeafTx
  <2>2. ~Valid(t, S \cup {t}, tip + 1)
    BY <1>4, <2>1 DEF MineWith
  <2>3. Ripe(t, S \cup {t})
    BY <1>4 DEF Ripe
  <2> QED BY <1>2, <2>1, <2>2, <2>3
<1> QED BY <1>1, <1>3, <1>4

LEMMA Mining ==
  ASSUME ExchangeTypeOK, NEW S, MineWith(S)
  PROVE  /\ tip' = tip + 1 /\ tip + 1 <= MaxTip /\ peak' >= peak /\ peak' >= tip'
         /\ peak' \in {peak, tip + 1}
         /\ \A t \in Tx :
              /\ Confirmed(t)' <=> Confirmed(t) \/ t \in S
              /\ Pending(t)' <=> Pending(t) /\ t \notin S
              /\ Sent(t)' <=> Sent(t)
              /\ t \in S => Pending(t) /\ ~Confirmed(t) /\ tx'[t] = tip + 1
              /\ t \notin S => tx'[t] = tx[t]
              /\ Final(t) => Final(t)'
<1>1. /\ tip \in Nat /\ peak \in Nat /\ MaxTip \in Nat /\ tip < MaxTip
      /\ tip' = tip + 1 /\ peak' = IF tip + 1 > peak THEN tip + 1 ELSE peak
      /\ \A t \in Tx : tx[t] \in Nat
  BY Numbers, Constants DEF MineWith
<1>2. \A t \in Tx : tx'[t] = IF t \in S THEN tip + 1 ELSE tx[t]
  BY DEF MineWith
<1>3. \A t \in S : t \in Tx /\ Pending(t)
  BY DEF MineWith
<1>4. /\ tip + 1 <= MaxTip /\ peak' >= peak /\ peak' >= tip' /\ peak' \in {peak, tip + 1}
  BY <1>1
<1>5. \A t \in Tx :
        /\ Confirmed(t)' <=> Confirmed(t) \/ t \in S
        /\ Pending(t)' <=> Pending(t) /\ t \notin S
        /\ Sent(t)' <=> Sent(t)
        /\ t \in S => Pending(t) /\ ~Confirmed(t) /\ tx'[t] = tip + 1
        /\ t \notin S => tx'[t] = tx[t]
  BY <1>1, <1>2, <1>3 DEF Confirmed, Pending, Sent, None, Mempool
<1>6. \A t \in Tx : Final(t) => Final(t)'
  BY <1>1, <1>4, <1>5, Constants DEF Final
<1> QED BY <1>1, <1>4, <1>5, <1>6

LEMMA MineKeepsScripts ==
  ASSUME ExchangeInv, NEW S, MineWith(S)
  PROVE  ExchangeTypeOK' /\ ChainInv' /\ ScriptInv' /\ SentInv'
<1>1. ExchangeTypeOK
  BY DEF ExchangeInv
<1>2. /\ tip' = tip + 1 /\ tip + 1 <= MaxTip /\ peak' >= peak /\ peak' >= tip'
      /\ peak' \in {peak, tip + 1}
      /\ \A t \in Tx : /\ Confirmed(t)' <=> Confirmed(t) \/ t \in S
                       /\ Sent(t)' <=> Sent(t)
                       /\ t \in S => ~Confirmed(t) /\ tx'[t] = tip + 1
                       /\ t \notin S => tx'[t] = tx[t]
  BY <1>1, Mining
<1>3. /\ tx' = [t \in Tx |-> IF t \in S THEN tip + 1 ELSE tx[t]]
      /\ born' = [born EXCEPT ![tip + 1] = forks]
      /\ UNCHANGED <<forks, terms, revealed, inTime, observer, accepted>>
  BY DEF MineWith
<1>4. ExchangeTypeOK'
  <2>1. tip \in Nat /\ peak \in Nat /\ MaxTip \in Nat /\ MaxForks \in Nat /\ peak <= MaxTip
    BY <1>1, Numbers, Constants
  <2>2. tip' \in 0..MaxTip /\ peak' \in tip'..MaxTip
    BY <1>2, <2>1
  <2>3. tx' \in [Tx -> {None, Mempool} \cup 1..tip']
    BY <1>1, <1>2, <1>3, <2>1 DEF ExchangeTypeOK
  <2>4. born' \in [0..MaxTip -> 0..MaxForks]
    BY <1>1, <1>3 DEF ExchangeTypeOK
  <2> QED BY <1>1, <1>3, <2>2, <2>3, <2>4 DEF ExchangeTypeOK
<1>5. ChainInv'
  <2>1. peak' <= tip' + MaxReorg
    BY <1>1, <1>2, Numbers, Constants DEF ExchangeInv, ChainInv
  <2>2. \A h \in 0..MaxTip : born'[h] <= forks'
    BY <1>1, <1>2, <1>3, Numbers DEF ExchangeInv, ChainInv, ExchangeTypeOK
  <2> QED BY <2>1, <2>2 DEF ChainInv
<1>6. ScriptInv'
  <2> SUFFICES ASSUME NEW t \in LeafTx, Confirmed(t)'
               PROVE  /\ Confirmed(Spends(t))' /\ ~Confirmed(Other[t])'
                      /\ tx'[Spends(t)] + Csv(t)' <= tx'[t]
    BY DEF ScriptInv
  <2>1. t \in Tx /\ Spends(t) \in Tx /\ Other[t] \in LeafTx /\ Other[t] \in Tx
        /\ Other[Other[t]] = t
    BY Relations
  <2>2. Csv(t)' = Csv(t) /\ Csv(t) \in Nat
    BY <1>1, <1>3, CsvType DEF Csv
  <2>3. CASE t \in S
    <3>1. Ripe(t, S) /\ ~Confirmed(Other[t]) /\ Other[t] \notin S
      BY <2>3, BlockTakes
    <3>2. CASE Confirmed(Spends(t)) /\ tip + 1 >= tx[Spends(t)] + Csv(t)
      BY <1>2, <2>1, <2>2, <2>3, <3>1, <3>2
    <3>3. CASE Spends(t) \in S /\ Csv(t) = 0
      BY <1>1, <1>2, <2>1, <2>2, <2>3, <3>1, <3>3, Numbers
    <3> QED BY <3>1, <3>2, <3>3 DEF Ripe
  <2>4. CASE t \notin S
    <3>1. Confirmed(t) /\ tx'[t] = tx[t]
      BY <1>2, <2>1, <2>4
    <3>2. Confirmed(Spends(t)) /\ tx[Spends(t)] + Csv(t) <= tx[t] /\ ~Confirmed(Other[t])
      BY <3>1 DEF ExchangeInv, ScriptInv
    <3>3. Spends(t) \notin S /\ tx'[Spends(t)] = tx[Spends(t)]
      BY <1>2, <2>1, <3>2
    <3>4. Other[t] \notin S
      BY <2>1, <3>1, BlockTakes
    <3> QED BY <1>2, <2>1, <2>2, <3>1, <3>2, <3>3, <3>4
  <2> QED BY <2>3, <2>4
<1>7. SentInv'
  <2>1. {"lock", "htlc", "claim", "htlcRefund", "finalize", "lockRefund"} \subseteq Tx
    BY DEF Tx
  <2> QED BY <1>1, <1>2, <1>3, <2>1, Numbers DEF ExchangeInv, SentInv, CsvLongEnough
<1> QED BY <1>4, <1>5, <1>6, <1>7

LEMMA MineKeepsHtlc ==
  ASSUME ExchangeInv, NEW S, MineWith(S)
  PROVE  FundedSoon' /\ SpentSoon' /\ InTimeInv'
<1>1. ExchangeTypeOK /\ {"lock", "htlc", "claim", "htlcRefund"} \subseteq Tx
      /\ {"claim", "htlcRefund"} \subseteq LeafTx
      /\ Other["claim"] = "htlcRefund" /\ Other["htlcRefund"] = "claim"
  BY DEF ExchangeInv, Tx, LeafTx, Other
<1>2. /\ tip' = tip + 1
      /\ \A t \in Tx : /\ Confirmed(t)' <=> Confirmed(t) \/ t \in S
                       /\ Pending(t)' <=> Pending(t) /\ t \notin S
                       /\ Sent(t)' <=> Sent(t)
                       /\ t \in S => Pending(t) /\ ~Confirmed(t) /\ tx'[t] = tip + 1
                       /\ t \notin S => tx'[t] = tx[t]
  BY <1>1, Mining
<1>3. /\ \A t \in Tx : tx[t] \in Nat
      /\ \A t \in Tx : Confirmed(t) => tx[t] <= tip
      /\ tip \in Nat /\ terms.htlc \in Nat /\ FundingWindow \in Nat /\ Slack \in Nat
      /\ UNCHANGED <<terms, inTime>>
  BY <1>1, Numbers, Constants, Whereabouts DEF MineWith
<1>4. \A t \in {"lock", "htlc"} : Pending(t) => t \in S
  BY BlockTakes
<1>5. FundedSoon'
  <2> SUFFICES ASSUME Confirmed("lock")'
               PROVE  /\ Pending("htlc")' => tip' <= tx'["lock"] + FundingWindow
                      /\ Confirmed("htlc")' => tx'["htlc"] <= tx'["lock"] + FundingWindow + 1
    BY DEF FundedSoon
  <2>1. ~Pending("htlc")'
    BY <1>1, <1>2, <1>4
  <2>2. ASSUME Confirmed("htlc")'
        PROVE  tx'["htlc"] <= tx'["lock"] + FundingWindow + 1
    <3>1. CASE "lock" \in S
      BY <1>1, <1>2, <1>3, <2>2, <3>1
    <3>2. CASE "lock" \notin S
      BY <1>1, <1>2, <1>3, <2>2, <3>2 DEF ExchangeInv, FundedSoon
    <3> QED BY <3>1, <3>2
  <2> QED BY <2>1, <2>2
<1>6. Ripe("claim", S) <=> Confirmed("htlc")' /\ ("htlc" \in S \/ tip + 1 >= tx["htlc"])
  BY <1>1, <1>2, <1>3, Scripts DEF Ripe
<1>7. Confirmed("htlc")' => Ripe("claim", S)
  BY <1>1, <1>2, <1>3, <1>6
<1>8. SpentSoon'
  <2> SUFFICES ASSUME Confirmed("htlc")'
               PROVE  /\ Unspent("htlc")' => tip' <= HtlcEnd'
                      /\ Confirmed("claim")' => tx'["claim"] <= HtlcEnd' + 1
                      /\ Confirmed("htlcRefund")' => tx'["htlcRefund"] <= HtlcEnd' + 1
    BY Scripts DEF SpentSoon
  <2>1. CASE "htlc" \in S
    <3>1. HtlcEnd' >= tip' /\ HtlcEnd' \in Nat
      BY <1>1, <1>2, <1>3, <2>1 DEF HtlcEnd
    <3>2. ~Confirmed("claim") /\ ~Confirmed("htlcRefund")
      BY <1>1, <1>2, <2>1, Scripts DEF ExchangeInv, ScriptInv
    <3> QED BY <1>1, <1>2, <1>3, <3>1, <3>2
  <2>2. CASE "htlc" \notin S
    <3>1. Confirmed("htlc") /\ HtlcEnd' = HtlcEnd /\ HtlcEnd \in Nat
      BY <1>1, <1>2, <1>3, <2>2 DEF HtlcEnd
    <3>2. CASE ~Unspent("htlc")
      <4>1. Confirmed("claim") \/ Confirmed("htlcRefund")
        BY <3>2, Scripts DEF Unspent
      <4>2. "claim" \notin S /\ "htlcRefund" \notin S
        BY <1>1, <1>2, <4>1, BlockTakes
      <4>3. ~Unspent("htlc")'
        BY <1>1, <1>2, <4>1, Scripts DEF Unspent
      <4> QED BY <1>1, <1>2, <3>1, <4>2, <4>3, Scripts DEF ExchangeInv, SpentSoon
    <3>3. CASE Unspent("htlc")
      <4>1. tip <= HtlcEnd /\ ~Confirmed("claim") /\ ~Confirmed("htlcRefund")
        BY <3>1, <3>3, Scripts DEF ExchangeInv, SpentSoon, Unspent
      <4>2. ASSUME Unspent("htlc")' PROVE tip' <= HtlcEnd
        <5>1. ~Confirmed("claim")' /\ ~Confirmed("htlcRefund")'
          BY <4>2, Scripts DEF Unspent
        <5>2. "claim" \notin S /\ "htlcRefund" \notin S
          BY <1>1, <1>2, <5>1
        <5>3. ~Pending("claim")
          BY <1>1, <1>7, <4>1, <5>2, BlockTakes
        <5>4. ~Sent("claim")
          BY <1>1, <4>1, <5>3, Whereabouts
        <5>5. CASE Sent("htlcRefund")
          <6>1. Pending("htlcRefund")
            BY <1>1, <4>1, <5>5, Whereabouts
          <6>2. ~Ripe("htlcRefund", S)
            BY <1>1, <4>1, <5>2, <6>1, BlockTakes
          <6>3. ~(tip + 1 >= tx["htlc"] + terms.htlc)
            BY <3>1, <6>2, Scripts DEF Ripe
          <6> QED BY <1>1, <1>2, <1>3, <6>3 DEF HtlcEnd
        <5>6. CASE ~Sent("htlcRefund")
          <6>1. ~Overdue("htlcRefund")
            BY <5>4 DEF MineWith, OperatorLate
          <6>2. ~(tip >= tx["htlc"] + terms.htlc + Slack)
            BY <3>1, <3>3, <5>6, <6>1, Scripts DEF Overdue
          <6> QED BY <1>1, <1>2, <1>3, <6>2 DEF HtlcEnd
        <5> QED BY <5>5, <5>6
      <4> QED BY <1>1, <1>2, <1>3, <3>1, <4>1, <4>2
    <3> QED BY <3>2, <3>3
  <2> QED BY <2>1, <2>2
<1>9. InTimeInv'
  <2> SUFFICES ASSUME inTime
               PROVE  /\ Sent("claim")' /\ terms.htlc > 0 /\ ~Confirmed("htlcRefund")'
                      /\ Confirmed("htlc")' =>
                           /\ Pending("claim")' => tip' + 1 < tx'["htlc"] + terms.htlc
                           /\ Confirmed("claim")' => tx'["claim"] < tx'["htlc"] + terms.htlc
    BY <1>3 DEF InTimeInv
  <2>1. /\ Sent("claim") /\ terms.htlc > 0 /\ ~Confirmed("htlcRefund")
        /\ Confirmed("htlc") =>
             /\ Pending("claim") => tip + 1 < tx["htlc"] + terms.htlc
             /\ Confirmed("claim") => tx["claim"] < tx["htlc"] + terms.htlc
    BY DEF ExchangeInv, InTimeInv
  <2>2. "htlcRefund" \notin S
    <3> SUFFICES ASSUME "htlcRefund" \in S PROVE FALSE
      OBVIOUS
    <3>1. Ripe("htlcRefund", S) /\ ~Confirmed("claim") /\ "claim" \notin S
      BY <1>1, BlockTakes
    <3>2. Confirmed("htlc") /\ tip + 1 >= tx["htlc"] + terms.htlc
      BY <2>1, <3>1, Scripts DEF Ripe
    <3>3. Pending("claim")
      BY <1>1, <2>1, <3>1, Whereabouts
    <3> QED BY <1>1, <1>3, <2>1, <3>2, <3>3
  <2>3. ~Confirmed("htlcRefund")'
    BY <1>1, <1>2, <2>1, <2>2
  <2>4. ASSUME Confirmed("htlc")'
        PROVE  /\ ~Pending("claim")'
               /\ Confirmed("claim")' => tx'["claim"] < tx'["htlc"] + terms.htlc
    <3>1. Pending("claim") => "claim" \in S
      BY <1>1, <1>7, <2>1, <2>2, <2>4, BlockTakes
    <3>2. CASE "claim" \in S
      <4>1. CASE "htlc" \in S
        BY <1>1, <1>2, <1>3, <2>1, <3>2, <4>1
      <4>2. CASE "htlc" \notin S
        BY <1>1, <1>2, <1>3, <2>1, <2>4, <3>2, <4>2
      <4> QED BY <4>1, <4>2
    <3>3. CASE "claim" \notin S
      <4>1. Confirmed("claim")' => Confirmed("claim") /\ Confirmed("htlc")
        BY <1>1, <1>2, <3>3, Scripts DEF ExchangeInv, ScriptInv
      <4> QED BY <1>1, <1>2, <1>3, <2>1, <3>1, <3>3, <4>1
    <3> QED BY <3>2, <3>3
  <2> QED BY <1>1, <1>2, <2>1, <2>3, <2>4
<1> QED BY <1>5, <1>8, <1>9


(* The operator takes the lock: it has sent its transaction before a block *)
(* that could hold the refund, and the block before that one takes it.     *)
LEMMA MineKeepsLock ==
  ASSUME ExchangeInv, NEW S, MineWith(S)
  PROVE  RevealedSoon' /\ TakenSoon'
<1>1. ExchangeTypeOK /\ {"lock", "htlc", "claim", "htlcRefund", "finalize", "lockRefund"} \subseteq Tx
      /\ {"finalize", "lockRefund"} \subseteq LeafTx
      /\ Other["finalize"] = "lockRefund" /\ Other["lockRefund"] = "finalize"
  BY DEF ExchangeInv, Tx, LeafTx, Other
<1>2. /\ tip' = tip + 1
      /\ \A t \in Tx : /\ Confirmed(t)' <=> Confirmed(t) \/ t \in S
                       /\ Pending(t)' <=> Pending(t) /\ t \notin S
                       /\ Sent(t)' <=> Sent(t)
                       /\ t \in S => Pending(t) /\ ~Confirmed(t) /\ tx'[t] = tip + 1
                       /\ t \notin S => tx'[t] = tx[t]
                       /\ Final(t) => Final(t)'
  BY <1>1, Mining
<1>3. /\ \A t \in Tx : tx[t] \in Nat
      /\ tip \in Nat /\ peak \in Nat /\ tip <= peak /\ revealed \in Nat
      /\ terms.htlc \in Nat /\ terms.lock \in Nat
      /\ FundingWindow \in Nat /\ Slack \in Nat /\ MaxReorg \in Nat /\ FinalizeCsv \in Nat
      /\ UNCHANGED <<terms, revealed>>
  BY <1>1, Numbers, Constants DEF MineWith
<1> SUFFICES ASSUME Claimable'
             PROVE  /\ revealed <= tx'["lock"] + FundingWindow + 1 + terms.htlc + Slack + MaxReorg
                    /\ Unspent("lock")' => tip' + 2 <= tx'["lock"] + terms.lock
                    /\ Confirmed("finalize")' => tx'["finalize"] + 1 <= tx'["lock"] + terms.lock
                    /\ ~Confirmed("lockRefund")'
  BY <1>3 DEF RevealedSoon, TakenSoon
<1>4. Confirmed("lock")' /\ Sent("claim") /\ ~Final("htlcRefund")
      /\ revealed <= peak /\ peak <= tip + MaxReorg
  BY <1>1, <1>2 DEF Claimable, ExchangeInv, SentInv, ChainInv
<1>5. Sent("lock")
  BY <1>1, <1>2, <1>4, Whereabouts
<1>6. /\ FundingWindow + 2 * Slack + MaxReorg + 3 + terms.htlc <= terms.lock
      /\ FinalizeCsv + Slack + 2 <= terms.lock
  BY <1>1, <1>5, Margin DEF ExchangeInv
<1>7. CASE "lock" \in S
  <2>1. tx'["lock"] = tip + 1 /\ ~Confirmed("lock")
    BY <1>1, <1>2, <1>7
  <2>2. ~Confirmed("finalize") /\ ~Confirmed("lockRefund")
    BY <1>1, <2>1, Scripts DEF ExchangeInv, ScriptInv
  <2>3. "lockRefund" \notin S
    <3>1. ~Ripe("lockRefund", S)
      BY <1>3, <1>6, <2>1, Scripts DEF Ripe
    <3> QED BY <1>1, <3>1, BlockTakes
  <2>4. "finalize" \in S => tx'["finalize"] = tip + 1
    BY <1>1, <1>2
  <2>5. revealed <= tx'["lock"] + FundingWindow + 1 + terms.htlc + Slack + MaxReorg
    BY <1>3, <1>4, <2>1
  <2>6. tip' + 2 <= tx'["lock"] + terms.lock
    BY <1>2, <1>3, <1>6, <2>1
  <2>7. Confirmed("finalize")' => tx'["finalize"] + 1 <= tx'["lock"] + terms.lock
    BY <1>1, <1>2, <1>3, <1>6, <2>1, <2>2, <2>4
  <2>8. ~Confirmed("lockRefund")'
    BY <1>1, <1>2, <2>2, <2>3
  <2> QED BY <2>5, <2>6, <2>7, <2>8
<1>8. CASE "lock" \notin S
  <2>1. Confirmed("lock") /\ tx'["lock"] = tx["lock"]
    BY <1>1, <1>2, <1>4, <1>8
  <2>2. Claimable
    BY <1>4, <2>1 DEF Claimable
  <2>3. /\ revealed <= tx["lock"] + FundingWindow + 1 + terms.htlc + Slack + MaxReorg
        /\ Unspent("lock") => tip + 2 <= tx["lock"] + terms.lock
        /\ Confirmed("finalize") => tx["finalize"] + 1 <= tx["lock"] + terms.lock
        /\ ~Confirmed("lockRefund")
    BY <2>2 DEF ExchangeInv, RevealedSoon, TakenSoon
  <2>4. CASE ~Unspent("lock")
    <3>1. Confirmed("finalize")
      BY <2>3, <2>4, Scripts DEF Unspent
    <3>2. "lockRefund" \notin S /\ "finalize" \notin S
      BY <1>1, <1>2, <3>1, BlockTakes
    <3>3. ~Confirmed("lockRefund")' /\ ~Unspent("lock")' /\ tx'["finalize"] = tx["finalize"]
      BY <1>1, <1>2, <2>3, <3>1, <3>2, Scripts DEF Unspent
    <3> QED BY <2>1, <2>3, <3>1, <3>3
  <2>5. CASE Unspent("lock")
    <3>1. tip + 2 <= tx["lock"] + terms.lock /\ ~Confirmed("finalize")
      BY <2>3, <2>5, Scripts DEF Unspent
    <3>2. "lockRefund" \notin S
      <4>1. ~(tip + 1 >= tx["lock"] + terms.lock)
        BY <1>1, <1>3, <3>1
      <4>2. ~Ripe("lockRefund", S)
        BY <1>8, <4>1, Scripts DEF Ripe
      <4> QED BY <1>1, <4>2, BlockTakes
    <3>3. ~Confirmed("lockRefund")'
      BY <1>1, <1>2, <2>3, <3>2
    <3>4. Confirmed("finalize")' => tx'["finalize"] = tip + 1
      BY <1>1, <1>2, <3>1
    <3>5. ASSUME Unspent("lock")'
          PROVE  tip' + 2 <= tx["lock"] + terms.lock
      <4>1. "finalize" \notin S
        BY <1>1, <1>2, <3>5, Scripts DEF Unspent
      <4>2. CASE Sent("finalize")
        <5>1. Pending("finalize")
          BY <1>1, <3>1, <4>2, Whereabouts
        <5>2. ~Ripe("finalize", S)
          BY <1>1, <2>3, <3>2, <4>1, <5>1, BlockTakes
        <5>3. ~(tip + 1 >= tx["lock"] + FinalizeCsv)
          BY <2>1, <5>2, Scripts DEF Ripe
        <5> QED BY <1>1, <1>2, <1>3, <1>6, <5>3
      <4>3. CASE ~Sent("finalize")
        <5>1. ~(Overdue("finalize") /\ peak >= revealed + Slack)
          BY DEF MineWith, OperatorLate
        <5>2. ~(tip >= tx["lock"] + FinalizeCsv + Slack) \/ ~(peak >= revealed + Slack)
          BY <2>1, <2>5, <4>3, <5>1, Scripts DEF Overdue
        <5>3. CASE ~(tip >= tx["lock"] + FinalizeCsv + Slack)
          BY <1>1, <1>2, <1>3, <1>6, <5>3
        <5>4. CASE ~(peak >= revealed + Slack)
          <6>1. tip + 1 <= revealed + Slack
            BY <1>3, <5>4
          <6> QED BY <1>1, <1>2, <1>3, <1>6, <2>3, <6>1
        <5> QED BY <5>2, <5>3, <5>4
      <4> QED BY <4>2, <4>3
    <3>6. Confirmed("finalize")' => tx'["finalize"] + 1 <= tx'["lock"] + terms.lock
      BY <1>1, <1>3, <2>1, <3>1, <3>4
    <3> QED BY <2>1, <2>3, <3>3, <3>5, <3>6
  <2> QED BY <2>4, <2>5
<1> QED BY <1>7, <1>8

(* A new block is of the newest branch, so none that left the chain is     *)
(* back with it.                                                           *)
LEMMA MineKeepsProofs ==
  ASSUME ExchangeInv, NEW S, MineWith(S)
  PROVE  ObserverInv' /\ AcceptedInv'
<1>1. ExchangeTypeOK /\ "claim" \in Tx
  BY DEF ExchangeInv, Tx
<1>2. /\ tip' = tip + 1 /\ peak' >= peak /\ tip + 1 <= MaxTip
      /\ Confirmed("claim") => tx'["claim"] = tx["claim"]
      /\ tip \in Nat /\ peak \in Nat /\ MaxTip \in Nat /\ forks \in Nat /\ tip <= peak
      /\ peak' \in Nat /\ MaxReorg \in Nat
  BY <1>1, Mining, Numbers, Constants
<1>3. /\ \A h \in 0..MaxTip : born'[h] = IF h = tip + 1 THEN forks ELSE born[h]
      /\ UNCHANGED <<forks, observer, accepted>>
  BY <1>1 DEF ExchangeTypeOK, MineWith
<1>4. ASSUME NEW b, b.height \in Nat
      PROVE  /\ Stands(b) => Stands(b)'
             /\ OnChain(b) => OnChain(b)'
             /\ OnChain(b)' => OnChain(b) \/ b.gen = forks
  <2>1. OnChain(b) => OnChain(b)'
    BY <1>2, <1>3, <1>4 DEF OnChain
  <2>2. OnChain(b)' => OnChain(b) \/ b.gen = forks
    BY <1>2, <1>3, <1>4 DEF OnChain
  <2>3. Stands(b) => Confirmed("claim")
    BY <1>2, <1>4 DEF Stands, OnChain, Confirmed
  <2> QED BY <1>2, <2>1, <2>2, <2>3 DEF Stands
<1>5. ObserverInv'
  <2> SUFFICES ASSUME observer.at = "claim" PROVE ObserverInv'
    BY <1>3 DEF ExchangeInv, ObserverInv
  <2>1. /\ Observed.height = observer.block.height + Len(observer.headers)
        /\ Observed.height <= peak
        /\ OnChain(Observed) \/ Observed.gen < forks
        /\ /\ HeadersChain(observer.block, observer.headers)
           /\ OnChain(Observed) \/ Len(observer.headers) >= MaxReorg
           => Stands(observer.block)
    BY DEF ExchangeInv, ObserverInv
  <2>2. /\ Observed' = Observed
        /\ HeadersChain(observer.block, observer.headers)'
             = HeadersChain(observer.block, observer.headers)
    BY <1>3 DEF Observed, HeadersChain
  <2>3. /\ observer.block.height \in Nat /\ Len(observer.headers) \in Nat
        /\ Observed \in Blocks /\ observer.headers \in Seq(Blocks)
    BY <1>1, ObserverType
  <2>4. Observed.height \in Nat /\ Observed.gen \in Nat
    BY <2>3 DEF Blocks
  <2>5. OnChain(Observed)' => OnChain(Observed)
    BY <1>2, <1>4, <2>1, <2>2, <2>4
  <2>6. Observed.height <= peak'
    BY <1>2, <2>1, <2>4
  <2>7. OnChain(Observed)' \/ Observed.gen < forks
    BY <1>4, <2>1, <2>2, <2>4
  <2>8. Stands(observer.block) => Stands(observer.block)'
    BY <1>3, <1>4, <2>3
  <2> QED BY <1>3, <2>1, <2>2, <2>5, <2>6, <2>7, <2>8 DEF ObserverInv
<1>6. AcceptedInv'
  <2>1. \A b \in accepted : b.height \in Nat
    BY <1>1 DEF ExchangeTypeOK, Blocks
  <2> QED BY <1>2, <1>3, <1>4, <2>1 DEF ExchangeInv, AcceptedInv
<1> QED BY <1>5, <1>6

LEMMA MinePreserves == ASSUME ExchangeInv, Mine PROVE ExchangeInv'
<1>1. PICK S : MineWith(S)
  BY DEF Mine, MineWith
<1> QED BY <1>1, MineKeepsScripts, MineKeepsHtlc, MineKeepsLock, MineKeepsProofs
        DEF ExchangeInv

-----------------------------------------------------------------------------
(* A disconnected block. *)
LEMMA Disconnecting ==
  ASSUME ExchangeTypeOK, Disconnect
  PROVE  /\ tip' \in Nat /\ tip' = tip - 1 /\ tip > 0 /\ peak <= tip - 1 + MaxReorg
         /\ \A t \in Tx :
              /\ Confirmed(t)' <=> Confirmed(t) /\ tx[t] # tip
              /\ Confirmed(t)' => tx'[t] = tx[t] /\ tx[t] <= tip'
              /\ Pending(t)' <=> Pending(t) \/ (Confirmed(t) /\ tx[t] = tip)
              /\ Sent(t)' <=> Sent(t)
              /\ Final(t)' <=> Final(t)
<1>1. /\ tip \in Nat /\ peak \in Nat /\ MaxTip \in Nat /\ MaxReorg \in Nat
      /\ tip > 0 /\ tip <= MaxTip /\ tip' = tip - 1 /\ peak' = peak
      /\ tip - 1 + MaxReorg >= peak
      /\ \A t \in Tx : tx[t] \in Nat /\ (Confirmed(t) => tx[t] <= tip)
  BY Numbers, Constants, Whereabouts DEF Disconnect
<1>2. \A t \in Tx : tx'[t] = IF tx[t] = tip THEN Mempool ELSE tx[t]
  BY DEF Disconnect
<1>3. tip' \in Nat /\ tip' = tip - 1 /\ tip > 0 /\ peak <= tip - 1 + MaxReorg
  BY <1>1
<1>4. \A t \in Tx :
        /\ Confirmed(t)' <=> Confirmed(t) /\ tx[t] # tip
        /\ Confirmed(t)' => tx'[t] = tx[t] /\ tx[t] <= tip'
        /\ Pending(t)' <=> Pending(t) \/ (Confirmed(t) /\ tx[t] = tip)
        /\ Sent(t)' <=> Sent(t)
  BY <1>1, <1>2 DEF Confirmed, Pending, Sent, None, Mempool
<1>5. \A t \in Tx : Final(t)' <=> Final(t)
  BY <1>1, <1>4 DEF Final
<1> QED BY <1>3, <1>4, <1>5

(* What the block held is where it was before the block, and the promises  *)
(* leave room for that.                                                    *)
LEMMA DisconnectKeepsScripts ==
  ASSUME ExchangeInv, Disconnect
  PROVE  /\ ExchangeTypeOK' /\ ChainInv' /\ ScriptInv' /\ SentInv' /\ FundedSoon'
         /\ SpentSoon' /\ RevealedSoon' /\ TakenSoon' /\ InTimeInv'
<1>1. /\ ExchangeTypeOK
      /\ {"lock", "htlc", "claim", "htlcRefund", "finalize", "lockRefund"} \subseteq Tx
  BY DEF ExchangeInv, Tx
<1>2. /\ tip' \in Nat /\ tip' = tip - 1 /\ tip > 0 /\ peak <= tip - 1 + MaxReorg
      /\ \A t \in Tx : /\ Confirmed(t)' <=> Confirmed(t) /\ tx[t] # tip
                       /\ Confirmed(t)' => tx'[t] = tx[t] /\ tx[t] <= tip'
                       /\ Pending(t)' <=> Pending(t) \/ (Confirmed(t) /\ tx[t] = tip)
                       /\ Sent(t)' <=> Sent(t)
                       /\ Final(t)' <=> Final(t)
  BY <1>1, Disconnecting
<1>3. /\ \A t \in Tx : tx[t] \in Nat
      /\ \A t \in Tx : Confirmed(t) => tx[t] <= tip
      /\ tip \in Nat /\ peak \in Nat /\ tip <= peak /\ forks \in Nat
      /\ terms.htlc \in Nat /\ terms.lock \in Nat
      /\ FundingWindow \in Nat /\ Slack \in Nat /\ MaxReorg \in Nat /\ MaxForks \in Nat
      /\ UNCHANGED <<peak, born, terms, revealed, inTime, observer, accepted>>
      /\ forks' = forks + 1 /\ forks < MaxForks
  BY <1>1, Numbers, Constants, Whereabouts DEF Disconnect
<1>4. ExchangeTypeOK'
  <2>1. tip' \in 0..MaxTip /\ peak' \in tip'..MaxTip /\ forks' \in 0..MaxForks
    BY <1>1, <1>2, <1>3, Constants DEF ExchangeTypeOK
  <2>2. tx' \in [Tx -> {None, Mempool} \cup 1..tip']
    <3>1. tx' = [t \in Tx |-> IF tx[t] = tip THEN Mempool ELSE tx[t]]
      BY DEF Disconnect
    <3>2. ASSUME NEW t \in Tx, tx[t] # tip
          PROVE  tx[t] \in {None, Mempool} \cup 1..tip'
      <4>1. tx[t] \in {None, Mempool} \cup 1..tip
        BY <1>1 DEF ExchangeTypeOK
      <4> QED BY <1>2, <1>3, <3>2, <4>1
    <3> QED BY <3>1, <3>2
  <2> QED BY <1>1, <1>3, <2>1, <2>2 DEF ExchangeTypeOK
<1>5. ChainInv'
  BY <1>1, <1>2, <1>3, Numbers DEF ExchangeInv, ChainInv
<1>6. ScriptInv'
  <2> SUFFICES ASSUME NEW t \in LeafTx, Confirmed(t)'
               PROVE  /\ Confirmed(Spends(t))' /\ ~Confirmed(Other[t])'
                      /\ tx'[Spends(t)] + Csv(t)' <= tx'[t]
    BY DEF ScriptInv
  <2>1. t \in Tx /\ Spends(t) \in Tx /\ Other[t] \in Tx
    BY Relations
  <2>2. Csv(t)' = Csv(t) /\ Csv(t) \in Nat
    BY <1>1, <1>3, CsvType DEF Csv
  <2>3. Confirmed(t) /\ tx'[t] = tx[t] /\ tx[t] <= tip'
    BY <1>2, <2>1
  <2>4. Confirmed(Spends(t)) /\ tx[Spends(t)] + Csv(t) <= tx[t] /\ ~Confirmed(Other[t])
    BY <2>3 DEF ExchangeInv, ScriptInv
  <2>5. tx[Spends(t)] # tip
    BY <1>2, <1>3, <2>1, <2>2, <2>3, <2>4
  <2> QED BY <1>2, <2>1, <2>2, <2>3, <2>4, <2>5
<1>7. SentInv'
  BY <1>1, <1>2, <1>3 DEF ExchangeInv, SentInv, CsvLongEnough
<1>8. FundedSoon'
  BY <1>1, <1>2, <1>3 DEF ExchangeInv, FundedSoon
<1>9. SpentSoon'
  <2> SUFFICES ASSUME Confirmed("htlc")'
               PROVE  /\ Unspent("htlc")' => tip' <= HtlcEnd'
                      /\ Confirmed("claim")' => tx'["claim"] <= HtlcEnd' + 1
                      /\ Confirmed("htlcRefund")' => tx'["htlcRefund"] <= HtlcEnd' + 1
    BY Scripts DEF SpentSoon
  <2>1. Confirmed("htlc") /\ HtlcEnd' = HtlcEnd /\ HtlcEnd \in Nat
    BY <1>1, <1>2, <1>3 DEF HtlcEnd
  <2>2. /\ Unspent("htlc") => tip <= HtlcEnd
        /\ Confirmed("claim") => tx["claim"] <= HtlcEnd + 1
        /\ Confirmed("htlcRefund") => tx["htlcRefund"] <= HtlcEnd + 1
    BY <2>1, Scripts DEF ExchangeInv, SpentSoon
  <2>3. ASSUME Unspent("htlc")' PROVE tip' <= HtlcEnd
    <3>1. CASE Unspent("htlc")
      BY <1>2, <1>3, <2>1, <2>2, <3>1
    <3>2. CASE ~Unspent("htlc")
      <4>1. \E t \in {"claim", "htlcRefund"} : Confirmed(t) /\ tx[t] = tip
        BY <1>1, <1>2, <2>3, <3>2, Scripts DEF Unspent
      <4>2. tip <= HtlcEnd + 1
        BY <2>2, <4>1
      <4> QED BY <1>2, <1>3, <2>1, <4>2
    <3> QED BY <3>1, <3>2
  <2> QED BY <1>1, <1>2, <2>1, <2>2, <2>3
<1>10. Claimable' => Claimable /\ tx'["lock"] = tx["lock"]
  BY <1>1, <1>2 DEF Claimable
<1>11. RevealedSoon'
  BY <1>3, <1>10 DEF ExchangeInv, RevealedSoon
<1>12. TakenSoon'
  <2> SUFFICES ASSUME Claimable'
               PROVE  /\ Unspent("lock")' => tip' + 2 <= tx["lock"] + terms.lock
                      /\ Confirmed("finalize")' => tx'["finalize"] + 1 <= tx["lock"] + terms.lock
                      /\ ~Confirmed("lockRefund")'
    BY <1>3, <1>10 DEF TakenSoon
  <2>1. /\ Unspent("lock") => tip + 2 <= tx["lock"] + terms.lock
        /\ Confirmed("finalize") => tx["finalize"] + 1 <= tx["lock"] + terms.lock
        /\ ~Confirmed("lockRefund")
    BY <1>10 DEF ExchangeInv, TakenSoon
  <2>2. ASSUME Unspent("lock")' PROVE tip' + 2 <= tx["lock"] + terms.lock
    <3>1. CASE Unspent("lock")
      BY <1>1, <1>2, <1>3, <2>1, <3>1
    <3>2. CASE ~Unspent("lock")
      <4>1. Confirmed("finalize") /\ tx["finalize"] = tip
        BY <1>1, <1>2, <2>1, <2>2, <3>2, Scripts DEF Unspent
      <4> QED BY <1>1, <1>2, <1>3, <2>1, <4>1
    <3> QED BY <3>1, <3>2
  <2> QED BY <1>1, <1>2, <2>1, <2>2
<1>13. InTimeInv'
  BY <1>1, <1>2, <1>3 DEF ExchangeInv, InTimeInv
<1> QED BY <1>4, <1>5, <1>6, <1>7, <1>8, <1>9, <1>11, <1>12, <1>13

(* A block with enough headers over it is not the one that goes, and one   *)
(* whose last header stays on chain stays too.                             *)
LEMMA DisconnectKeepsProofs ==
  ASSUME ExchangeInv, Disconnect
  PROVE  ObserverInv' /\ AcceptedInv'
<1>1. ExchangeTypeOK /\ "claim" \in Tx
  BY DEF ExchangeInv, Tx
<1>2. /\ tip' \in Nat /\ tip' = tip - 1 /\ tip > 0 /\ peak <= tip - 1 + MaxReorg
      /\ Confirmed("claim") /\ tx["claim"] # tip => tx'["claim"] = tx["claim"]
      /\ tip \in Nat /\ peak \in Nat /\ MaxTip \in Nat /\ forks \in Nat /\ tip <= MaxTip
      /\ MaxReorg \in Nat
  BY <1>1, Disconnecting, Numbers, Constants
<1>3. forks' = forks + 1 /\ UNCHANGED <<peak, born, observer, accepted>>
  BY DEF Disconnect
<1>4. ASSUME NEW b, b.height \in Nat
      PROVE  /\ OnChain(b)' => OnChain(b) /\ b.height <= tip'
             /\ OnChain(b) => b.gen <= forks
             /\ Stands(b) /\ b.height <= tip' => Stands(b)'
  <2>1. OnChain(b)' => OnChain(b) /\ b.height <= tip'
    BY <1>2, <1>3, <1>4 DEF OnChain
  <2>2. OnChain(b) => b.gen <= forks
    BY <1>2, <1>4 DEF OnChain, ExchangeInv, ChainInv
  <2>3. ASSUME Stands(b), b.height <= tip' PROVE Stands(b)'
    <3>1. Confirmed("claim") /\ tx["claim"] # tip /\ tx["claim"] = b.height
      BY <1>2, <1>4, <2>3 DEF Stands, Confirmed
    <3> QED BY <1>2, <1>3, <2>3, <3>1 DEF Stands, OnChain
  <2> QED BY <2>1, <2>2, <2>3
<1>5. ObserverInv'
  <2> SUFFICES ASSUME observer.at = "claim" PROVE ObserverInv'
    BY <1>3 DEF ExchangeInv, ObserverInv
  <2>1. /\ Observed.height = observer.block.height + Len(observer.headers)
        /\ Observed.height <= peak
        /\ OnChain(Observed) \/ Observed.gen < forks
        /\ /\ HeadersChain(observer.block, observer.headers)
           /\ OnChain(Observed) \/ Len(observer.headers) >= MaxReorg
           => Stands(observer.block)
    BY DEF ExchangeInv, ObserverInv
  <2>2. /\ Observed' = Observed
        /\ HeadersChain(observer.block, observer.headers)'
             = HeadersChain(observer.block, observer.headers)
    BY <1>3 DEF Observed, HeadersChain
  <2>3. /\ observer.block.height \in Nat /\ Len(observer.headers) \in Nat
        /\ Observed \in Blocks
    BY <1>1, ObserverType
  <2>4. Observed.height \in Nat /\ Observed.gen \in Nat
    BY <2>3 DEF Blocks
  <2>5. Observed.gen < forks'
    BY <1>2, <1>3, <1>4, <2>1, <2>4
  <2>6. OnChain(Observed)' => OnChain(Observed) /\ Observed.height <= tip'
    BY <1>4, <2>2, <2>4
  <2>7. OnChain(Observed)' \/ Len(observer.headers) >= MaxReorg
          => observer.block.height <= tip'
    BY <1>2, <2>1, <2>3, <2>4, <2>6
  <2>8. Stands(observer.block) /\ observer.block.height <= tip' => Stands(observer.block)'
    BY <1>3, <1>4, <2>3
  <2> QED BY <1>3, <2>1, <2>2, <2>5, <2>6, <2>7, <2>8 DEF ObserverInv
<1>6. AcceptedInv'
  <2> SUFFICES ASSUME NEW b \in accepted
               PROVE  Stands(b)' /\ b.height + MaxReorg <= peak
    BY <1>3 DEF AcceptedInv
  <2>1. b.height \in Nat /\ Stands(b) /\ b.height + MaxReorg <= peak
    BY <1>1 DEF ExchangeTypeOK, Blocks, ExchangeInv, AcceptedInv
  <2>2. b.height <= tip'
    BY <1>2, <2>1
  <2> QED BY <1>4, <2>1, <2>2
<1> QED BY <1>5, <1>6

LEMMA DisconnectPreserves == ASSUME ExchangeInv, Disconnect PROVE ExchangeInv'
BY DisconnectKeepsScripts, DisconnectKeepsProofs DEF ExchangeInv

-----------------------------------------------------------------------------
(* The payout proof. *)
LEMMA ProofKeepsChain ==
  ASSUME ExchangeInv, UNCHANGED <<chainVars, tx, terms, revealed, inTime>>,
         ExchangeTypeOK', ObserverInv', AcceptedInv'
  PROVE  ExchangeInv'
<1> USE DEF chainVars
<1>1. \A t \in Tx : /\ Confirmed(t)' <=> Confirmed(t)
                    /\ Pending(t)' <=> Pending(t)
                    /\ Sent(t)' <=> Sent(t)
                    /\ Final(t)' <=> Final(t)
  BY DEF Confirmed, Pending, Sent, Final
<1>2. ChainInv' /\ SentInv' /\ FundedSoon' /\ InTimeInv'
  BY DEF ExchangeInv, ChainInv, SentInv, FundedSoon, InTimeInv, CsvLongEnough, Confirmed,
         Pending, Sent
<1>3. ScriptInv'
  <2>1. \A t \in LeafTx : Csv(t)' = Csv(t)
    BY DEF Csv
  <2> QED BY <2>1 DEF ExchangeInv, ScriptInv, Confirmed
<1>4. SpentSoon' /\ RevealedSoon' /\ TakenSoon'
  BY DEF ExchangeInv, SpentSoon, RevealedSoon, TakenSoon, Claimable, HtlcEnd, Unspent,
         Confirmed, Sent, Final
<1> QED BY <1>2, <1>3, <1>4 DEF ExchangeInv

(* A block asked for by height is on chain when the answer is made. *)
LEMMA BlockAnswered ==
  ASSUME ExchangeTypeOK, NEW h \in 1..tip
  PROVE  /\ Block(h) \in Blocks /\ OnChain(Block(h))
         /\ Block(h).height = h /\ Block(h).parent = born[h - 1]
<1>1. tip \in Nat /\ tip <= MaxTip /\ MaxTip \in Nat /\ h \in Nat /\ h # 0
      /\ \A n \in 0..MaxTip : born[n] \in Nat
  BY Numbers, Constants
<1>2. Block(h) = [height |-> h, gen |-> born[h], parent |-> born[h - 1]]
  BY <1>1 DEF Block
<1>3. born[h] \in Nat /\ born[h - 1] \in Nat
  BY <1>1
<1> QED BY <1>1, <1>2, <1>3 DEF Blocks, OnChain

LEMMA LocatePreserves ==
  ASSUME ExchangeInv, LocateHtlc \/ LocateClaim
  PROVE  ExchangeInv'
<1>1. /\ ExchangeTypeOK /\ {"htlc", "claim"} \subseteq Tx
      /\ UNCHANGED <<chainVars, tx, terms, revealed, inTime, accepted>>
  BY DEF ExchangeInv, Tx, LocateHtlc, LocateClaim
<1>2. Idle \in [at : {"idle", "htlc", "claim"}, htlc : Nat, block : Blocks,
                headers : Seq(Blocks)]
  BY DEF Idle, Blocks
<1>3. AcceptedInv'
  BY <1>1 DEF ExchangeInv, AcceptedInv, Stands, OnChain, chainVars
<1>4. /\ observer' \in [at : {"idle", "htlc", "claim"}, htlc : Nat, block : Blocks,
                        headers : Seq(Blocks)]
      /\ ObserverInv'
  <2>1. CASE LocateHtlc
    <3>1. observer' = [Idle EXCEPT !.at = "htlc", !.htlc = tx["htlc"]] /\ tx["htlc"] \in Nat
      BY <1>1, <2>1, Numbers DEF LocateHtlc
    <3>2. observer'.at = "htlc" /\ observer'.headers = <<>>
      BY <3>1 DEF Idle
    <3> QED BY <1>2, <3>1, <3>2 DEF ObserverInv
  <2>2. CASE LocateClaim /\ ~Confirmed("claim")
    <3>1. observer' = Idle
      BY <2>2 DEF LocateClaim
    <3> QED BY <1>2, <3>1 DEF ObserverInv, Idle
  <2>3. CASE LocateClaim /\ Confirmed("claim")
    <3> DEFINE b == Block(tx["claim"])
    <3>1. /\ observer.at = "htlc" /\ tx["claim"] \in 1..tip
          /\ observer' = [observer EXCEPT !.at = "claim", !.block = b]
      BY <1>1, <2>3, Whereabouts DEF LocateClaim
    <3>2. b \in Blocks /\ OnChain(b) /\ b.height = tx["claim"]
      BY <1>1, <3>1, BlockAnswered
    <3> HIDE DEF b
    <3>3. observer \in [at : {"idle", "htlc", "claim"}, htlc : Nat, block : Blocks,
                        headers : Seq(Blocks)]
      BY <1>1 DEF ExchangeTypeOK
    <3>4. observer.headers = <<>>
      BY <3>1 DEF ExchangeInv, ObserverInv
    <3>5. observer'.at = "claim" /\ observer'.block = b /\ observer'.headers = <<>>
      BY <3>1, <3>3, <3>4
    <3>6. Observed' = b /\ Stands(b)
      BY <3>2, <3>5 DEF Observed, Stands
    <3>7. OnChain(b)' /\ Stands(b)'
      BY <1>1, <3>2, <3>6 DEF OnChain, Stands, chainVars, b, Block
    <3>8. b.height \in Nat /\ b.height <= peak
      BY <1>1, <3>1, <3>2, Numbers
    <3>9. ObserverInv'
      BY <1>1, <3>5, <3>6, <3>7, <3>8 DEF ObserverInv, chainVars, b, Block
    <3> QED BY <3>1, <3>2, <3>3, <3>9
  <2> QED BY <2>1, <2>2, <2>3
<1>5. ExchangeTypeOK'
  BY <1>1, <1>4 DEF ExchangeTypeOK, chainVars
<1> QED BY <1>1, <1>3, <1>4, <1>5, ProofKeepsChain

(* The new header names the block at the height below as its predecessor:  *)
(* if that is the last one seen, the last one is on chain now.             *)
LEMMA NextHeaderPreserves == ASSUME ExchangeInv, NextHeader PROVE ExchangeInv'
<1> DEFINE h == observer.block.height + Len(observer.headers) + 1
<1>1. /\ ExchangeTypeOK /\ observer.at = "claim"
      /\ observer' = IF h <= tip
                     THEN [observer EXCEPT !.headers = Append(@, Block(h))]
                     ELSE Idle
      /\ UNCHANGED <<chainVars, tx, terms, revealed, inTime, accepted>>
  BY DEF ExchangeInv, NextHeader
<1>2. /\ observer.block \in Blocks /\ observer.headers \in Seq(Blocks)
      /\ observer.block.height \in Nat /\ Len(observer.headers) \in Nat
      /\ Observed \in Blocks /\ h \in Nat /\ h > 0
  BY <1>1, ObserverType
<1>3. AcceptedInv'
  BY <1>1 DEF ExchangeInv, AcceptedInv, Stands, OnChain, chainVars
<1>4. /\ observer' \in [at : {"idle", "htlc", "claim"}, htlc : Nat, block : Blocks,
                        headers : Seq(Blocks)]
      /\ ObserverInv'
  <2>1. CASE ~(h <= tip)
    <3>1. observer' = Idle
      BY <1>1, <2>1
    <3> QED BY <3>1 DEF ObserverInv, Idle, Blocks
  <2>2. CASE h <= tip
    <3>1. h \in 1..tip /\ tip \in Nat /\ peak \in Nat /\ tip <= peak
      BY <1>1, <1>2, <2>2, Numbers
    <3> DEFINE old == observer.headers
    <3>2. PICK b : /\ b = Block(h)
                   /\ b \in Blocks /\ OnChain(b) /\ b.height = h /\ b.parent = born[h - 1]
      BY <1>1, <3>1, BlockAnswered
    <3>3. observer' = [observer EXCEPT !.headers = Append(old, b)]
      BY <1>1, <2>2, <3>2
    <3>4. observer \in [at : {"idle", "htlc", "claim"}, htlc : Nat, block : Blocks,
                        headers : Seq(Blocks)]
      BY <1>1 DEF ExchangeTypeOK
    <3> HIDE DEF h
    <3>5. Append(old, b) \in Seq(Blocks)
      BY <1>2, <3>2
    <3>6. /\ observer'.at = "claim" /\ observer'.block = observer.block
          /\ observer'.headers = Append(old, b)
          /\ observer' \in [at : {"idle", "htlc", "claim"}, htlc : Nat, block : Blocks,
                            headers : Seq(Blocks)]
      BY <1>1, <3>3, <3>4, <3>5
    <3>7. /\ Len(Append(old, b)) = Len(old) + 1 /\ Append(old, b) # <<>>
          /\ Append(old, b)[Len(old) + 1] = b
          /\ \A n \in 1..Len(old) : Append(old, b)[n] = old[n]
      BY <1>2, <3>2
    <3>8. Observed' = b
      BY <3>6, <3>7 DEF Observed
    <3>9. OnChain(b)'
      BY <1>1, <3>2 DEF OnChain, chainVars
    <3>10. ASSUME HeadersChain(observer.block, Append(old, b))
          PROVE  Stands(observer.block)
      <4>1. \A n \in 1..(Len(old) + 1) :
              Append(old, b)[n].parent =
                IF n = 1 THEN observer.block.gen ELSE Append(old, b)[n - 1].gen
        BY <3>7, <3>10 DEF HeadersChain
      <4>2. HeadersChain(observer.block, old)
        <5> SUFFICES ASSUME NEW n \in 1..Len(old)
                     PROVE  old[n].parent =
                              IF n = 1 THEN observer.block.gen ELSE old[n - 1].gen
          BY DEF HeadersChain
        <5>1. n \in 1..(Len(old) + 1) /\ Append(old, b)[n] = old[n]
          BY <1>2, <3>7
        <5>2. n # 1 => Append(old, b)[n - 1] = old[n - 1]
          BY <1>2, <3>7
        <5> QED BY <4>1, <5>1, <5>2
      <4>3. b.parent = Observed.gen
        <5>1. b.parent = IF Len(old) + 1 = 1 THEN observer.block.gen
                         ELSE Append(old, b)[Len(old)].gen
          BY <1>2, <3>7, <4>1
        <5>2. CASE old = <<>>
          BY <5>1, <5>2 DEF Observed
        <5>3. CASE old # <<>>
          <6>1. Len(old) \in 1..Len(old)
            BY <1>2, <5>3
          <6> QED BY <1>2, <3>7, <5>1, <5>3, <6>1 DEF Observed
        <5> QED BY <5>2, <5>3
      <4>4. /\ Observed.height = h - 1
            /\ HeadersChain(observer.block, old) /\ OnChain(Observed) => Stands(observer.block)
        BY <1>1, <1>2 DEF ExchangeInv, ObserverInv, h
      <4>5. OnChain(Observed)
        <5>1. Observed.gen = born[Observed.height]
          BY <3>2, <4>3, <4>4
        <5>2. Observed.height <= tip
          BY <1>2, <3>1, <4>4
        <5> QED BY <5>1, <5>2 DEF OnChain
      <4> QED BY <4>2, <4>4, <4>5
    <3>11. Stands(observer.block) => Stands(observer.block)'
      BY <1>1, <3>6 DEF Stands, OnChain, chainVars
    <3>12. ObserverInv'
      <4>1. Observed'.height = observer'.block.height + Len(observer'.headers)
        <5>1. Observed'.height = h /\ Len(observer'.headers) = Len(old) + 1
          BY <3>2, <3>6, <3>7, <3>8
        <5>2. observer'.block.height = observer.block.height
          BY <3>6
        <5>3. PICK x, k : /\ x = observer.block.height /\ k = Len(old)
                          /\ x \in Nat /\ k \in Nat
          BY <1>2
        <5>4. h = x + (k + 1)
          BY <5>3 DEF h
        <5> QED BY <5>1, <5>2, <5>3, <5>4
      <4>2. Observed'.height <= peak'
        BY <1>1, <1>2, <2>2, <3>1, <3>2, <3>8 DEF chainVars
      <4>3. OnChain(Observed)'
        BY <3>8, <3>9 DEF OnChain
      <4>4. HeadersChain(observer.block, observer.headers)' => Stands(observer.block)'
        BY <3>6, <3>10, <3>11 DEF HeadersChain
      <4> QED BY <3>6, <4>1, <4>2, <4>3, <4>4 DEF ObserverInv
    <3> QED BY <3>6, <3>12
  <2> QED BY <2>1, <2>2
<1>5. ExchangeTypeOK'
  BY <1>1, <1>4 DEF ExchangeTypeOK, chainVars
<1> QED BY <1>1, <1>3, <1>4, <1>5, ProofKeepsChain

(* What is accepted has as many headers over it as a reorganisation may    *)
(* take.                                                                   *)
LEMMA VerifyPreserves == ASSUME ExchangeInv, VerifyPayout PROVE ExchangeInv'
<1>1. /\ ExchangeTypeOK /\ observer.at = "claim" /\ Len(observer.headers) = MinDepth
      /\ observer' = Idle
      /\ UNCHANGED <<chainVars, tx, terms, revealed, inTime>>
  BY DEF ExchangeInv, VerifyPayout
<1>2. /\ observer.block \in Blocks /\ observer.block.height \in Nat /\ peak \in Nat
      /\ MinDepth \in Nat /\ MaxReorg \in Nat /\ MaxReorg <= MinDepth
      /\ accepted \subseteq Blocks
  BY <1>1, ObserverType, Numbers, Constants DEF ExchangeTypeOK
<1>3. \/ accepted' = accepted
      \/ /\ accepted' = accepted \cup {observer.block}
         /\ HeadersChain(observer.block, observer.headers)
  BY DEF VerifyPayout
<1>4. HeadersChain(observer.block, observer.headers) =>
        Stands(observer.block) /\ observer.block.height + MaxReorg <= peak
  BY <1>1, <1>2 DEF ExchangeInv, ObserverInv
<1>5. \A b \in accepted' : Stands(b) /\ b.height + MaxReorg <= peak
  BY <1>3, <1>4 DEF ExchangeInv, AcceptedInv
<1>6. AcceptedInv'
  BY <1>1, <1>5 DEF AcceptedInv, Stands, OnChain, chainVars
<1>7. ObserverInv'
  BY <1>1 DEF ObserverInv, Idle
<1>8. ExchangeTypeOK'
  <2>1. observer' \in [at : {"idle", "htlc", "claim"}, htlc : Nat, block : Blocks,
                       headers : Seq(Blocks)]
    BY <1>1 DEF Idle, Blocks
  <2>2. accepted' \subseteq Blocks
    BY <1>2, <1>3
  <2> QED BY <1>1, <2>1, <2>2 DEF ExchangeTypeOK, chainVars
<1> QED BY <1>1, <1>6, <1>7, <1>8, ProofKeepsChain

-----------------------------------------------------------------------------
LEMMA NextInv == ASSUME ExchangeInv, [ExchangeNext]_vars PROVE ExchangeInv'
<1>1. CASE Mine
  BY <1>1, MinePreserves
<1>2. CASE Disconnect
  BY <1>2, DisconnectPreserves
<1>3. CASE \E l \in LockCsvs, h \in HtlcCsvs : Lock(l, h)
  BY <1>3, LockPreserves
<1>4. CASE Fund
  BY <1>4, FundPreserves
<1>5. CASE Claim
  BY <1>5, ClaimPreserves
<1>6. CASE RefundHtlc \/ FinalizeLock \/ RefundLock
  BY <1>6, SpendPreserves
<1>7. CASE LocateHtlc \/ LocateClaim
  BY <1>7, LocatePreserves
<1>8. CASE NextHeader
  BY <1>8, NextHeaderPreserves
<1>9. CASE VerifyPayout
  BY <1>9, VerifyPreserves
<1>10. CASE UNCHANGED vars
  <2>1. UNCHANGED <<chainVars, tx, terms, revealed, inTime, observer, accepted>>
    BY <1>10 DEF vars
  <2>2. ExchangeTypeOK'
    BY <2>1 DEF ExchangeInv, ExchangeTypeOK, chainVars
  <2>3. ObserverInv' /\ AcceptedInv'
    BY <2>1 DEF ExchangeInv, ObserverInv, AcceptedInv, Observed, Stands, OnChain,
                HeadersChain, chainVars
  <2> QED BY <2>1, <2>2, <2>3, ProofKeepsChain
<1> QED BY <1>1, <1>2, <1>3, <1>4, <1>5, <1>6, <1>7, <1>8, <1>9, <1>10 DEF ExchangeNext

LEMMA ExchangeAlways == ExchangeSpec => []ExchangeInv
BY InitInv, NextInv, PTL DEF ExchangeSpec

(* Every variable keeps its type; among them: no transaction is in a block *)
(* above the tip, also when blocks are disconnected.                       *)
THEOREM ExchangeTypes == ExchangeSpec => []ExchangeTypeOK
<1>1. ExchangeInv => ExchangeTypeOK
  BY DEF ExchangeInv
<1> QED BY <1>1, ExchangeAlways, PTL

(* With the timelocks check_intent_lock_binding asks for, an operator that *)
(* funds in its window and then watches never loses the HTLC to the claim  *)
(* and the lock to its refund, whatever blocks are disconnected on the     *)
(* way, as long as the safety delta covers its delays and a reorganisation.*)
THEOREM OperatorStaysWhole == ExchangeSpec => []OperatorIsWhole
<1>1. ASSUME ExchangeInv PROVE OperatorIsWhole
  <2> SUFFICES ASSUME Final("claim"), Final("lockRefund") PROVE FALSE
    BY DEF OperatorIsWhole
  <2>1. /\ ExchangeTypeOK /\ {"claim", "lockRefund"} \subseteq LeafTx /\ {"claim"} \subseteq Tx
        /\ Confirmed("claim") /\ Confirmed("lockRefund")
        /\ Other["claim"] = "htlcRefund"
    BY <1>1 DEF ExchangeInv, Final, LeafTx, Tx, Other
  <2>2. Confirmed("lock") /\ ~Confirmed("htlcRefund")
    BY <1>1, <2>1, Scripts DEF ExchangeInv, ScriptInv
  <2>3. Sent("claim")
    BY <2>1, Whereabouts
  <2>4. Claimable
    BY <2>2, <2>3 DEF Claimable, Final
  <2> QED BY <1>1, <2>1, <2>4 DEF ExchangeInv, TakenSoon
<1> QED BY <1>1, ExchangeAlways, PTL

(* A user that claims with a block to spare before the HTLC can be         *)
(* refunded never loses it to the refund and the lock to the operator.     *)
THEOREM UserStaysWhole == ExchangeSpec => []UserIsWhole
<1>1. ExchangeInv => UserIsWhole
  BY DEF ExchangeInv, InTimeInv, UserIsWhole, Final
<1> QED BY <1>1, ExchangeAlways, PTL

(* A claim the node has accepted a payout proof for (a chain of MinDepth   *)
(* headers, put together by build_payout_confirmation from answers of      *)
(* different moments) stays where it is, although blocks may come and go   *)
(* between any two of those answers.                                       *)
THEOREM ProvenPayoutsStay == ExchangeSpec => []ProvenPayoutStays
<1>1. ExchangeInv => ProvenPayoutStays
  BY DEF ExchangeInv, AcceptedInv, Stands, ProvenPayoutStays
<1> QED BY <1>1, ExchangeAlways, PTL

(***************************************************************************)
(* The position.  Arithmetic first.                                        *)
(***************************************************************************)
LEMMA LeastOfTwo ==
  ASSUME NEW a \in Int, NEW b \in Int
  PROVE  /\ Min({a, b}) = IF a <= b THEN a ELSE b
         /\ Max({a, b}) = IF a >= b THEN a ELSE b
<1>1. ASSUME NEW S, S = {a, b} PROVE Min(S) = IF a <= b THEN a ELSE b
  <2>1. PICK x \in S : \A y \in S : x <= y
    BY <1>1
  <2>2. Min(S) \in S /\ \A y \in S : Min(S) <= y
    BY <2>1 DEF Min
  <2> QED BY <1>1, <2>2
<1>2. ASSUME NEW S, S = {a, b} PROVE Max(S) = IF a >= b THEN a ELSE b
  <2>1. PICK x \in S : \A y \in S : x >= y
    BY <1>2
  <2>2. Max(S) \in S /\ \A y \in S : Max(S) >= y
    BY <2>1 DEF Max
  <2> QED BY <1>2, <2>2
<1> QED BY <1>1, <1>2

LEMMA FromZero ==
  ASSUME NEW a \in Int
  PROVE  /\ Max({0, a}) \in Nat /\ Max({0, a}) >= a
         /\ a <= 0 => Max({0, a}) = 0
         /\ a >= 0 => Max({0, a}) = a
<1>1. Max({0, a}) = IF 0 >= a THEN 0 ELSE a
  BY LeastOfTwo
<1> QED BY <1>1

LEMMA LeastOfThree ==
  ASSUME NEW a \in Nat, NEW b \in Nat, NEW c \in Nat
  PROVE  /\ Min({a, b, c}) \in Nat
         /\ Min({a, b, c}) <= a /\ Min({a, b, c}) <= b /\ Min({a, b, c}) <= c
<1>1. ASSUME NEW S, S = {a, b, c}
      PROVE  Min(S) \in Nat /\ Min(S) <= a /\ Min(S) <= b /\ Min(S) <= c
  <2>1. PICK x \in {a, b, c} : x <= a /\ x <= b /\ x <= c
    <3>1. CASE a <= b /\ a <= c
      BY <3>1
    <3>2. CASE b <= a /\ b <= c
      BY <3>2
    <3>3. CASE c <= a /\ c <= b
      BY <3>3
    <3> QED BY <3>1, <3>2, <3>3
  <2>2. x \in S /\ \A y \in S : x <= y
    BY <1>1, <2>1
  <2>3. Min(S) \in S /\ \A y \in S : Min(S) <= y
    BY <2>2 DEF Min
  <2> QED BY <1>1, <2>3
<1> QED BY <1>1

LEMMA FloorOf ==
  ASSUME NEW a \in Nat, NEW d \in Nat \ {0}
  PROVE  /\ a \div d \in Nat /\ (a \div d) * d <= a /\ a < (a \div d + 1) * d
         /\ \A n \in Nat : (n <= a \div d) <=> (n * d <= a)
<1> DEFINE q == a \div d
<1>1. q \in Nat /\ q * d <= a /\ a < (q + 1) * d
  OBVIOUS
<1> HIDE DEF q
<1>2. ASSUME NEW n \in Nat, n <= q PROVE n * d <= a
  <2>1. PICK k \in Nat : q = n + k
    BY <1>1, <1>2
  <2>2. q * d = n * d + k * d /\ k * d >= 0
    BY <2>1
  <2> QED BY <1>1, <2>2
<1>3. ASSUME NEW n \in Nat, n > q PROVE n * d > a
  <2>1. PICK k \in Nat : n = (q + 1) + k
    BY <1>1, <1>3
  <2>2. n * d = (q + 1) * d + k * d /\ k * d >= 0
    BY <1>1, <2>1
  <2> QED BY <1>1, <2>2
<1> QED BY <1>1, <1>2, <1>3 DEF q

LEMMA DescribedIs ==
  ASSUME NEW t
  PROVE  /\ Described(t).lp = "L" /\ Described(t).holder = "H" /\ Described(t).csv = 2
         /\ Described(t).refundUser = "H" /\ Described(t).refundLp = "L"
         /\ Described(t).terms = t.terms
BY DEF Described, Position

LEMMA Units ==
  /\ SATS_PER_BTC \in Nat \ {0} /\ MICRO_PER_USD \in Nat \ {0} /\ MaxU32 \in Nat \ {0}
  /\ MaxSats \in Nat \ {0} /\ PriceDigits \in Nat \ {0}
BY VaultsAssumption

LEMMA NumbersAreNat == Prices \subseteq Nat /\ Ages \subseteq Nat
BY PositionAssumption

LEMMA TermsTypes ==
  ASSUME NEW x \in Terms
  PROVE  /\ x.collateral \in Nat /\ x.collateral <= MaxSats /\ x.mint \in Nat
         /\ x.opening \in Nat /\ x.liq \in Nat /\ x.m \in 1..PriceDigits
<1>1. /\ x.collateral \in 0..MaxSats /\ x.mint \in Nat /\ x.opening \in Nat
      /\ x.liq \in Nat /\ x.m \in 1..PriceDigits
  BY PositionAssumption
<1>2. 0..MaxSats \subseteq Nat /\ \A y \in 0..MaxSats : y <= MaxSats
  BY Units
<1> QED BY <1>1, <1>2

LEMMA ParamsTypes ==
  ASSUME NEW x \in Params
  PROVE  /\ x.penalty \in Nat /\ x.bounty \in Nat /\ x.bounty <= 10000
         /\ x.cap \in Nat /\ x.fee \in Nat
BY PositionAssumption

LEMMA RatioCovers ==
  ASSUME NEW c \in Nat, NEW mint \in Nat, NEW price \in Nat, NEW n \in Nat,
         CrBps(c, mint, price) >= n
  PROVE  c * price * MICRO_PER_USD * 10000 >= n * mint * SATS_PER_BTC
<1> DEFINE X == c * price * MICRO_PER_USD * 10000
           D == SATS_PER_BTC * mint
<1>1. X \in Nat /\ D \in Nat /\ n * mint * SATS_PER_BTC = n * D
  BY Units
<1>2. CASE mint = 0
  BY <1>1, <1>2, Units
<1>3. CASE mint # 0
  <2>1. D \in Nat \ {0}
    BY <1>3, Units
  <2>2. CrBps(c, mint, price) = Min({X \div D, MaxU32})
    BY <1>3 DEF CrBps
  <2> HIDE DEF X, D
  <2>3. X \div D \in Nat
    BY <1>1, <2>1, FloorOf
  <2>4. n <= X \div D
    BY <2>2, <2>3, LeastOfTwo, Units
  <2>5. n * D <= X
    BY <1>1, <2>1, <2>4, FloorOf
  <2> QED BY <1>1, <2>5, <2>1 DEF X
<1> QED BY <1>2, <1>3

(* A price that opens the position at a ratio above that of liquidation is *)
(* none of a crash.                                                        *)
LEMMA OpeningIsNoCrash ==
  ASSUME NEW deal, NEW price \in Nat, deal.collateral \in Nat, deal.mint \in Nat \ {0},
         deal.opening \in Nat, deal.liq \in Nat, deal.liq < deal.opening,
         deal.collateral * price * MICRO_PER_USD * 10000
            >= deal.opening * deal.mint * SATS_PER_BTC
  PROVE  price > CrashPriceCeiling(deal)
<1> DEFINE c == deal.collateral
           mint == deal.mint
           liq == deal.liq
           n == deal.opening
           D == c * MICRO_PER_USD * 10000
           A == liq * mint * SATS_PER_BTC
           E == mint * SATS_PER_BTC
<1>0. c \in Nat /\ mint \in Nat \ {0} /\ liq \in Nat /\ n \in Nat /\ liq < n
  OBVIOUS
<1>a. CrashPriceCeiling(deal) = IF c = 0 THEN MaxU32 ELSE Min({A \div D, MaxU32})
  BY DEF CrashPriceCeiling
<1>b. c * price * MICRO_PER_USD * 10000 >= n * mint * SATS_PER_BTC
  OBVIOUS
<1> HIDE DEF c, mint, liq, n
<1>1. E \in Nat \ {0} /\ A \in Nat /\ A = liq * E /\ n * mint * SATS_PER_BTC = n * E
  BY <1>0, Units
<1>2. A < n * E
  <2> HIDE DEF E, A
  <2>1. PICK k \in Nat : n = liq + 1 + k
    BY <1>0
  <2>2. n * E = liq * E + E + k * E /\ k * E >= 0
    BY <1>0, <1>1, <2>1
  <2> QED BY <1>1, <2>2
<1>3. c # 0
  <2> SUFFICES ASSUME c = 0 PROVE FALSE
    OBVIOUS
  <2>1. c * price * MICRO_PER_USD * 10000 = 0
    BY <1>0, Units
  <2> QED BY <1>b, <1>0, <1>1, <1>2, <2>1
<1>4. D \in Nat \ {0} /\ c * price * MICRO_PER_USD * 10000 = price * D
  BY <1>0, <1>3, Units
<1>5. CrashPriceCeiling(deal) = Min({A \div D, MaxU32})
  BY <1>a, <1>3
<1>8. price * D > A
  <2>1. price * D >= n * E
    BY <1>b, <1>1, <1>4
  <2> HIDE DEF D, A, E
  <2>2. price * D \in Int /\ n * E \in Int /\ A \in Int
    BY <1>0, <1>1, <1>4
  <2> QED BY <1>2, <2>1, <2>2
<1> HIDE DEF D, A, E
<1>6. A \div D \in Nat /\ (A \div D) * D <= A
  BY <1>1, <1>4, FloorOf
<1>7. ~(price <= A \div D)
  <2>1. D \in Nat \ {0} /\ A \in Nat /\ price * D > A /\ price * D \in Nat
    BY <1>1, <1>4, <1>8
  <2>2. (price <= A \div D) <=> (price * D <= A)
    BY <2>1, FloorOf
  <2> QED BY <2>1, <2>2
<1> QED BY <1>5, <1>6, <1>7, LeastOfTwo, Units

LEMMA LegsShare ==
  ASSUME NEW deal, NEW price \in Nat \ {0}, deal.collateral \in Nat, deal.mint \in Nat
  PROVE  LET face == (deal.mint * SATS_PER_BTC) \div (price * MICRO_PER_USD)
             legs == PayoutAt(deal, price) IN
         /\ legs[1] + legs[2] = deal.collateral /\ legs[1] <= face
         /\ CrBps(deal.collateral, deal.mint, price) >= 10000 => legs[1] = face
<1> DEFINE c == deal.collateral
           mint == deal.mint
           M == mint * SATS_PER_BTC
           P == price * MICRO_PER_USD
           face == M \div P
<1>0. c \in Nat /\ mint \in Nat
  OBVIOUS
<1>1. M \in Nat /\ P \in Nat \ {0}
  BY Units
<1>2. PayoutAt(deal, price) = <<Min({face, c}), c - Min({face, c})>>
  BY DEF PayoutAt
<1>3. CrBps(c, mint, price) >= 10000 => M <= c * P
  <2> SUFFICES ASSUME CrBps(c, mint, price) >= 10000 PROVE M <= c * P
    OBVIOUS
  <2>1. c * price * MICRO_PER_USD * 10000 >= 10000 * mint * SATS_PER_BTC
    BY RatioCovers
  <2>2. c * price * MICRO_PER_USD * 10000 = (c * P) * 10000 /\ 10000 * mint * SATS_PER_BTC = M * 10000
    BY Units
  <2>3. c * P \in Nat
    BY <1>1
  <2> HIDE DEF P, M
  <2> QED BY <1>1, <2>1, <2>2, <2>3
<1> HIDE DEF M, P
<1>4. face \in Nat /\ face * P <= M
  BY <1>1, FloorOf
<1>5. M <= c * P => face <= c
  <2> SUFFICES ASSUME M <= c * P, face > c PROVE FALSE
    BY <1>4
  <2> HIDE DEF face, c
  <2>1. PICK k \in Nat : face = c + 1 + k
    BY <1>0, <1>4
  <2>2. face * P = c * P + P + k * P /\ k * P >= 0
    BY <1>0, <1>1, <2>1
  <2> QED BY <1>0, <1>1, <1>4, <2>2
<1> HIDE DEF face
<1>6. /\ Min({face, c}) \in Nat /\ Min({face, c}) <= face
      /\ face <= c => Min({face, c}) = face
  BY <1>4, LeastOfTwo
<1>7. PayoutAt(deal, price)[1] + PayoutAt(deal, price)[2] = c
  BY <1>2, <1>6
<1> QED BY <1>2, <1>3, <1>5, <1>6, <1>7 DEF face, M, P

(* Only the output of the position itself has its key. *)
LEMMA OutputIsOfPosition ==
  ASSUME NEW t \in BackingTasks, OutputOf(t) = PositionQ(Described(t))
  PROVE  t.of = "it"
<1> DEFINE leaf == RefundLeaf(2, "H", "L")
           keys == Aggregate("L", "H")
<1>1. PositionQ(Described(t)) = <<"tweak", keys, <<"leaf", leaf>>>>
  BY DescribedIs DEF PositionQ, Tweaked, Leaf
<1>2. t.of \in {"it", "lp", "holder", "order", "csv", "holderOnly", "asset"}
  BY DEF BackingTasks
<1>3. Position.csv = 2 /\ Position.lp = "L" /\ Position.holder = "H"
  BY DEF Position
<1>4. leaf = <<2, "CSV", "DROP", "H", "CHECKSIGVERIFY", "L", "CHECKSIG">>
  BY DEF RefundLeaf
<1>5. keys = <<"agg", "L", "H">>
  BY DEF Aggregate
<1>6. \A k, r : <<"tweak", keys, <<"leaf", leaf>>>> = <<"tweak", k, r>> => k = keys /\ r = <<"leaf", leaf>>
  OBVIOUS
<1>7. ASSUME t.of \in {"lp", "holder", "order"} PROVE FALSE
  <2>1. PICK a \in {"M", "L", "H"}, b \in {"H", "I", "L"} :
            /\ <<a, b>> # <<"L", "H">>
            /\ OutputOf(t) = VaultFundingOutput(Aggregate(a, b), leaf).output
    <3>1. CASE t.of = "lp"
      BY <1>3, <3>1 DEF OutputOf
    <3>2. CASE t.of = "holder"
      BY <1>3, <3>2 DEF OutputOf
    <3>3. CASE t.of = "order"
      BY <1>3, <3>3 DEF OutputOf
    <3> QED BY <1>7, <3>1, <3>2, <3>3
  <2>2. OutputOf(t) = <<"tweak", <<"agg", a, b>>, <<"leaf", leaf>>>>
    BY <2>1 DEF VaultFundingOutput, Aggregate, Tweaked, Leaf
  <2>3. <<"agg", a, b>> = <<"agg", "L", "H">>
    BY <1>1, <1>5, <1>6, <2>2
  <2> QED BY <2>1, <2>3
<1>8. ASSUME t.of \in {"csv", "holderOnly"} PROVE FALSE
  <2>1. PICK s : /\ s[1] # 2 \/ s[5] # "CHECKSIGVERIFY"
                 /\ OutputOf(t) = VaultFundingOutput(keys, s).output
    <3>1. CASE t.of = "csv"
      <4>1. OutputOf(t) = VaultFundingOutput(keys, RefundLeaf(1, "H", "L")).output
        BY <1>3, <3>1 DEF OutputOf
      <4>2. RefundLeaf(1, "H", "L")[1] # 2
        BY DEF RefundLeaf
      <4> QED BY <4>1, <4>2
    <3>2. CASE t.of = "holderOnly"
      <4>1. OutputOf(t) = VaultFundingOutput(keys, RefundLeafHolderOnly(2, "H")).output
        BY <1>3, <3>2 DEF OutputOf
      <4>2. RefundLeafHolderOnly(2, "H")[5] # "CHECKSIGVERIFY"
        BY DEF RefundLeafHolderOnly
      <4> QED BY <4>1, <4>2
    <3> QED BY <1>8, <3>1, <3>2
  <2>2. OutputOf(t) = <<"tweak", keys, <<"leaf", s>>>>
    BY <2>1 DEF VaultFundingOutput, Tweaked, Leaf
  <2>3. <<"leaf", s>> = <<"leaf", leaf>>
    BY <1>1, <1>6, <2>2
  <2>4. s = leaf
    BY <2>3
  <2>5. leaf[1] = 2 /\ leaf[5] = "CHECKSIGVERIFY"
    BY <1>4
  <2> QED BY <2>1, <2>4, <2>5
<1>9. ASSUME t.of = "asset" PROVE FALSE
  <2>1. OutputOf(t) = FundingOutput(keys, <<"assets">>, leaf).output
    BY <1>3, <1>9 DEF OutputOf
  <2>2. OutputOf(t) = <<"tweak", keys, <<"branch", {<<"assets">>, <<"leaf", leaf>>}>>>>
    BY <2>1 DEF FundingOutput, Tweaked, Branch, Leaf
  <2>3. <<"branch", {<<"assets">>, <<"leaf", leaf>>}>> = <<"leaf", leaf>>
    BY <1>1, <1>6, <2>2
  <2>4. <<"branch", {<<"assets">>, <<"leaf", leaf>>}>>[1] = "branch" /\ <<"leaf", leaf>>[1] = "leaf"
    OBVIOUS
  <2>5. "branch" # "leaf"
    OBVIOUS
  <2> HIDE DEF leaf
  <2> QED BY <2>3, <2>4, <2>5
<1> QED BY <1>2, <1>7, <1>8, <1>9

LEMMA ItIsOfPosition ==
  ASSUME NEW t, t.of = "it"
  PROVE  OutputOf(t) = PositionQ(Described(t))
<1>1. PositionQ(Described(t)) = Tweaked(Aggregate("L", "H"), Leaf(RefundLeaf(2, "H", "L")))
  BY DescribedIs DEF PositionQ
<1>2. OutputOf(t) = VaultFundingOutput(Aggregate("L", "H"), RefundLeaf(2, "H", "L")).output
  BY DEF OutputOf, Position
<1> QED BY <1>1, <1>2 DEF VaultFundingOutput

LEMMA BackingHolds ==
  ASSUME NEW t \in BackingTasks
  PROVE  /\ PerformBacking(t) = "none" =>
                /\ t.of = "it" /\ t.sats = 0
                /\ t.terms.collateral * t.price * MICRO_PER_USD * 10000
                        >= t.terms.opening * t.terms.mint * SATS_PER_BTC
                /\ t.terms.liq < t.terms.opening /\ t.terms.mint > 0
                        => t.price > CrashPriceCeiling(t.terms)
         /\ t.of = "it" /\ t.sats = 0 /\ OpeningOk(t.terms, t.price) => PerformBacking(t) = "none"
<1> DEFINE q == [key |-> OutputOf(t), sats |-> t.terms.collateral + t.sats]
           pos == Described(t)
<1>1. /\ t.terms \in Terms /\ t.price \in Prices /\ t.sats \in {-1, 0}
      /\ t.terms.collateral \in Nat /\ t.terms.mint \in Nat /\ t.terms.opening \in Nat
      /\ t.terms.liq \in Nat /\ t.price \in Nat
  <2>1. t.terms \in Terms /\ t.price \in Prices /\ t.sats \in {-1, 0}
    BY DEF BackingTasks
  <2> QED BY <2>1, TermsTypes, NumbersAreNat
<1>2. /\ pos.terms = t.terms /\ "bad" \notin {pos.lp, pos.holder}
      /\ q.key = OutputOf(t) /\ q.sats = t.terms.collateral + t.sats
  BY DescribedIs
<1>3. PerformBacking(t) = BackingError(pos, q, t.price)
  BY DEF PerformBacking
<1> HIDE DEF pos, q
<1>4. PerformBacking(t) = "none" <=>
        q.key = PositionQ(pos) /\ q.sats = t.terms.collateral /\ OpeningOk(t.terms, t.price)
  BY <1>2, <1>3 DEF BackingError
<1>5. ASSUME PerformBacking(t) = "none"
      PROVE  /\ t.of = "it" /\ t.sats = 0
             /\ t.terms.collateral * t.price * MICRO_PER_USD * 10000
                     >= t.terms.opening * t.terms.mint * SATS_PER_BTC
             /\ t.terms.liq < t.terms.opening /\ t.terms.mint > 0
                     => t.price > CrashPriceCeiling(t.terms)
  <2>1. t.of = "it"
    BY <1>2, <1>4, <1>5, OutputIsOfPosition DEF pos
  <2>2. t.sats = 0
    BY <1>1, <1>2, <1>4, <1>5
  <2>3. CrBps(t.terms.collateral, t.terms.mint, t.price) >= t.terms.opening
    BY <1>4, <1>5 DEF OpeningOk
  <2>4. t.terms.collateral * t.price * MICRO_PER_USD * 10000
            >= t.terms.opening * t.terms.mint * SATS_PER_BTC
    BY <1>1, <2>3, RatioCovers
  <2>5. ASSUME t.terms.liq < t.terms.opening, t.terms.mint > 0
        PROVE  t.price > CrashPriceCeiling(t.terms)
    <3>1. t.terms.mint \in Nat \ {0}
      BY <1>1, <2>5
    <3> DEFINE T == t.terms
    <3>2. /\ T.collateral \in Nat /\ T.mint \in Nat \ {0} /\ t.price \in Nat
          /\ T.opening \in Nat /\ T.liq \in Nat /\ T.liq < T.opening
          /\ T.collateral * t.price * MICRO_PER_USD * 10000 >= T.opening * T.mint * SATS_PER_BTC
      BY <1>1, <2>4, <2>5, <3>1
    <3> HIDE DEF T
    <3>3. t.price > CrashPriceCeiling(T)
      BY <3>2, OpeningIsNoCrash
    <3> QED BY <3>3 DEF T
  <2> QED BY <2>1, <2>2, <2>4, <2>5
<1>6. ASSUME t.of = "it", t.sats = 0, OpeningOk(t.terms, t.price)
      PROVE  PerformBacking(t) = "none"
  <2>1. q.key = PositionQ(pos)
    BY <1>2, <1>6, ItIsOfPosition DEF pos
  <2>2. q.sats = t.terms.collateral
    BY <1>1, <1>2, <1>6
  <2> QED BY <1>4, <1>6, <2>1, <2>2
<1> QED BY <1>5, <1>6

LEMMA SpendHolds ==
  ASSUME NEW t \in SpendTasks
  PROVE  LET v == PerformSpend(t) IN
         /\ v.key \/ v.leaf => "H" \in t.signers
         /\ (v.key \/ v.leaf) /\ t.age < 2 => t.signers = {"H", "L"}
         /\ t.holderOnly /\ t.age >= 2 /\ "H" \in t.signers => v.leaf
<1> DEFINE both == RefundLeaf(2, "H", "L")
           alone == RefundLeafHolderOnly(2, "H")
           v == PerformSpend(t)
           ops == {"CHECKSIG", "CHECKSIGVERIFY"}
<1>1. t.signers \in SUBSET {"H", "L"} /\ t.age \in Nat /\ t.holderOnly \in BOOLEAN
  <2>1. t.signers \in SUBSET {"H", "L"} /\ t.age \in Ages /\ t.holderOnly \in BOOLEAN
    BY DEF SpendTasks
  <2> QED BY <2>1, NumbersAreNat
<1>2. /\ Len(both) = 7 /\ both[1] = 2 /\ both[2] = "CSV" /\ both[3] = "DROP" /\ both[4] = "H"
      /\ both[5] = "CHECKSIGVERIFY" /\ both[6] = "L" /\ both[7] = "CHECKSIG"
  BY DEF RefundLeaf
<1>3. /\ Len(alone) = 5 /\ alone[1] = 2 /\ alone[2] = "CSV" /\ alone[3] = "DROP"
      /\ alone[4] = "H" /\ alone[5] = "CHECKSIG"
  BY DEF RefundLeafHolderOnly
<1>4. v.key <=> t.signers = {"H", "L"}
  <2>1. Aggregate("L", "H")[1] = "agg" /\ Aggregate("L", "H")[2] = "L" /\ Aggregate("L", "H")[3] = "H"
    BY DEF Aggregate
  <2>2. v.key <=> {"L", "H"} \subseteq t.signers
    BY <2>1 DEF PerformSpend, SpendsByKey
  <2> QED BY <1>1, <2>2
<1>5. v.leaf <=> SpendsByLeaf(IF t.holderOnly THEN alone ELSE both, t.signers, t.age)
  BY DEF PerformSpend
<1> HIDE DEF both, alone
<1>6. SpendsByLeaf(both, t.signers, t.age) => t.age >= 2 /\ "H" \in t.signers
  <2> SUFFICES ASSUME SpendsByLeaf(both, t.signers, t.age) PROVE t.age >= 2 /\ "H" \in t.signers
    OBVIOUS
  <2>1. both[2] = "CSV" => t.age >= both[1]
    BY DEF SpendsByLeaf
  <2>2. 5 \in 2..Len(both) /\ both[5] \in ops /\ both[5 - 1] = "H"
    BY <1>2
  <2>3. both[5 - 1] \in t.signers
    BY <2>2 DEF SpendsByLeaf
  <2> QED BY <1>2, <2>1, <2>2, <2>3
<1>7. SpendsByLeaf(alone, t.signers, t.age) <=> t.age >= 2 /\ "H" \in t.signers
  <2>1. ASSUME SpendsByLeaf(alone, t.signers, t.age) PROVE t.age >= 2 /\ "H" \in t.signers
    <3>1. alone[2] = "CSV" => t.age >= alone[1]
      BY <2>1 DEF SpendsByLeaf
    <3>2. 5 \in 2..Len(alone) /\ alone[5] \in ops /\ alone[5 - 1] = "H"
      BY <1>3
    <3>3. alone[5 - 1] \in t.signers
      BY <2>1, <3>2 DEF SpendsByLeaf
    <3> QED BY <1>3, <3>1, <3>2, <3>3
  <2>2. ASSUME t.age >= 2, "H" \in t.signers PROVE SpendsByLeaf(alone, t.signers, t.age)
    <3>1. ASSUME NEW i \in 2..Len(alone), alone[i] \in ops PROVE alone[i - 1] \in t.signers
      <4>1. i \in {2, 3, 4, 5}
        BY <1>3
      <4>2. i = 5
        BY <1>3, <3>1, <4>1
      <4> QED BY <1>3, <2>2, <4>2
    <3> QED BY <1>3, <2>2, <3>1 DEF SpendsByLeaf
  <2> QED BY <2>1, <2>2
<1> QED BY <1>1, <1>4, <1>5, <1>6, <1>7

(* The payouts of a crash. *)
LEMMA FaceType ==
  ASSUME NEW mint \in Nat, NEW price \in Nat
  PROVE  FaceSats(mint, price) \in Nat
<1>1. CASE price = 0
  BY <1>1, Units DEF FaceSats
<1>2. CASE price # 0
  <2> DEFINE A == mint * SATS_PER_BTC + price * MICRO_PER_USD - 1
             P == price * MICRO_PER_USD
  <2>1. A \in Nat /\ P \in Nat \ {0}
    BY <1>2, Units
  <2>2. FaceSats(mint, price) = Min({A \div P, MaxSats})
    BY <1>2 DEF FaceSats
  <2> HIDE DEF A, P
  <2>3. A \div P \in Nat
    BY <2>1, FloorOf
  <2> QED BY <2>2, <2>3, LeastOfTwo, Units
<1> QED BY <1>1, <1>2

(* What a payout y of a crash at a price is held to. *)
SharesAll(y, deal, price, p) ==
    /\ y.reserve + y.broadcaster + y.minter = Max({0, deal.collateral - p.fee})
    /\ y.broadcaster <= p.cap
    /\ y.minter > 0 => ReserveShortfall(y, deal, price) = 0

LEMMA PayoutShares ==
  ASSUME NEW deal, deal.collateral \in Nat, deal.collateral <= MaxSats, deal.mint \in Nat,
         NEW price \in Nat, NEW p \in Params
  PROVE  SharesAll(CrashPayout(deal, price, p), deal, price, p)
<1> DEFINE y == CrashPayout(deal, price, p)
           face == FaceSats(deal.mint, price)
           penalty == (face * p.penalty) \div 10000
           spendable == Max({0, deal.collateral - p.fee})
           share == (penalty * p.bounty) \div 10000
           bounty == Min({share, p.cap, spendable})
           due == Min({face + penalty, MaxSats})
           wanted == Max({0, due - bounty})
           reserve == Min({wanted, spendable - bounty})
<1>1. y = [reserve |-> reserve, broadcaster |-> bounty, minter |-> spendable - bounty - reserve]
  BY DEF CrashPayout
<1>2. ReserveShortfall(y, deal, price) = Max({0, face - reserve})
  BY <1>1 DEF ReserveShortfall
<1>3. face \in Nat
  BY FaceType
<1>4. penalty \in Nat
  <2>1. face * p.penalty \in Nat
    BY <1>3, ParamsTypes
  <2> QED BY <2>1, FloorOf
<1>5. share \in Nat /\ share <= penalty
  <2> HIDE DEF penalty
  <2>1. p.bounty \in Nat /\ p.bounty <= 10000
    BY ParamsTypes
  <2> DEFINE k == 10000 - p.bounty
  <2>2. k \in Nat /\ 10000 = p.bounty + k
    BY <2>1
  <2> HIDE DEF k
  <2>3. penalty * 10000 = penalty * p.bounty + penalty * k /\ penalty * k \in Nat /\ penalty * p.bounty \in Nat
    BY <1>4, <2>1, <2>2
  <2>4. penalty * p.bounty \in Nat /\ penalty * p.bounty <= penalty * 10000
    BY <1>4, <2>3
  <2>5. share \in Nat /\ share * 10000 <= penalty * p.bounty
    BY <2>4, FloorOf
  <2> HIDE DEF share
  <2> QED BY <1>4, <2>4, <2>5
<1>6. spendable \in Nat /\ spendable <= deal.collateral
  <2> DEFINE a == deal.collateral - p.fee
  <2>1. a \in Int /\ a <= deal.collateral
    BY ParamsTypes
  <2> HIDE DEF a
  <2>2. Max({0, a}) \in Nat /\ (a <= 0 => Max({0, a}) = 0) /\ (a >= 0 => Max({0, a}) = a)
    BY <2>1, FromZero
  <2>3. Max({0, a}) <= deal.collateral
    BY <2>1, <2>2
  <2> QED BY <2>2, <2>3 DEF a
<1>7. p.cap \in Nat
  BY ParamsTypes
<1> HIDE DEF y, face, penalty, spendable, share
<1>8. bounty \in Nat /\ bounty <= share /\ bounty <= p.cap /\ bounty <= spendable
  <2> DEFINE cap == p.cap
  <2>1. share \in Nat /\ cap \in Nat /\ spendable \in Nat
    BY <1>5, <1>6, <1>7
  <2> HIDE DEF cap
  <2>2. /\ Min({share, cap, spendable}) \in Nat /\ Min({share, cap, spendable}) <= share
        /\ Min({share, cap, spendable}) <= cap /\ Min({share, cap, spendable}) <= spendable
    BY <2>1, LeastOfThree
  <2> QED BY <2>2 DEF cap
<1>9. due \in Nat /\ (due = face + penalty \/ due = MaxSats)
  BY <1>3, <1>4, LeastOfTwo, Units
<1> HIDE DEF bounty, due
<1>10. wanted \in Nat /\ wanted >= due - bounty
  <2> DEFINE a == due - bounty
  <2>1. a \in Int
    BY <1>8, <1>9
  <2> HIDE DEF a
  <2>2. Max({0, a}) \in Nat /\ Max({0, a}) >= a
    BY <2>1, FromZero
  <2> QED BY <2>2 DEF a
<1> HIDE DEF wanted
<1>11. reserve \in Nat /\ reserve <= spendable - bounty
       /\ (reserve = wanted \/ reserve = spendable - bounty)
  BY <1>6, <1>8, <1>10, LeastOfTwo
<1> HIDE DEF reserve
<1>12. y.reserve + y.broadcaster + y.minter = spendable /\ y.broadcaster <= p.cap
  BY <1>1, <1>6, <1>8, <1>11
<1>13. ASSUME y.minter > 0 PROVE ReserveShortfall(y, deal, price) = 0
  <2>1. spendable - bounty - reserve > 0
    BY <1>1, <1>13
  <2>2. reserve = wanted /\ due <= reserve + bounty
    BY <1>6, <1>8, <1>9, <1>10, <1>11, <2>1
  <2>3. due # MaxSats
    BY <1>6, <1>8, <1>11, <2>1, <2>2, Units
  <2>4. face <= reserve
    BY <1>3, <1>4, <1>5, <1>8, <1>9, <1>11, <2>2, <2>3
  <2>5. face - reserve \in Int /\ face - reserve <= 0
    BY <1>3, <1>11, <2>4
  <2> QED BY <1>2, <2>5, FromZero
<1> QED BY <1>12, <1>13 DEF y, spendable, SharesAll

(* The buckets of m digits: as many as they have values, of equal width,   *)
(* that cover what the digits of a price hold.                             *)
Width(m) == 2 ^ (PriceDigits - m)

LEMMA WidthFacts ==
  ASSUME NEW m \in 1..PriceDigits
  PROVE  /\ m \in Nat /\ Width(m) \in Nat \ {0} /\ 2 ^ m \in Nat \ {0}
         /\ 2 ^ PriceDigits \in Nat \ {0} /\ 2 ^ PriceDigits = 2 ^ m * Width(m)
<1>1. m \in Nat /\ PriceDigits \in Nat /\ PriceDigits - m \in Nat /\ m + (PriceDigits - m) = PriceDigits
  BY Units
<1>2. 2 ^ (m + (PriceDigits - m)) = 2 ^ m * 2 ^ (PriceDigits - m)
  BY <1>1, PowerOfSum
<1> QED BY <1>1, <1>2, PowersOfTwo DEF Width

LEMMA AttestedBucket ==
  ASSUME NEW m \in 1..PriceDigits, NEW price \in Nat
  PROVE  /\ Attested(price) \in Nat /\ Attested(price) < 2 ^ PriceDigits
         /\ price < 2 ^ PriceDigits => Attested(price) = price
         /\ BucketOfPrice(price, m) \in Nat /\ BucketOfPrice(price, m) < 2 ^ m
         /\ BucketOfPrice(price, m) = Attested(price) \div Width(m)
<1> DEFINE a == Attested(price)
           W == Width(m)
           N == 2 ^ PriceDigits
           M == 2 ^ m
<1>1. W \in Nat \ {0} /\ M \in Nat \ {0} /\ N \in Nat \ {0} /\ N = M * W
  BY WidthFacts
<1>2. a = Min({price, N - 1}) /\ BucketOfPrice(price, m) = a \div W
  BY DEF Attested, BucketOfPrice, Width
<1> HIDE DEF a, W, N, M
<1>3. N - 1 \in Int
  BY <1>1
<1>4. Min({price, N - 1}) = IF price <= N - 1 THEN price ELSE N - 1
  BY <1>3, LeastOfTwo
<1>5. a \in Nat /\ a < N /\ (price < N => a = price)
  BY <1>1, <1>2, <1>4
<1>6. a \div W \in Nat /\ ((M <= a \div W) <=> (M * W <= a))
  BY <1>1, <1>5, FloorOf
<1>7. a \div W < M
  BY <1>1, <1>5, <1>6
<1> QED BY <1>2, <1>5, <1>6, <1>7 DEF a, W, N, M

CrashIndexes(deal) ==
    {i \in 1..2 ^ deal.m : (i - 1) * Width(deal.m) < CrashPriceCeiling(deal)}

LEMMA ScheduleIs ==
  ASSUME NEW deal, deal.m \in 1..PriceDigits, NEW p
  PROVE  LET s == CrashSchedule(deal, p)
             W == Width(deal.m) IN
         /\ DOMAIN s = CrashIndexes(deal)
         /\ \A i \in DOMAIN s :
                /\ s[i].bucket.lo = (i - 1) * W /\ s[i].bucket.hi = i * W
                /\ s[i].bucket.index = i - 1 /\ s[i].price \in Nat
                /\ s[i].payout = CrashPayout(deal, s[i].price, p)
<1> DEFINE s == CrashSchedule(deal, p)
           W == Width(deal.m)
           D == 1..2 ^ deal.m
           all == BucketSchedule(deal.m)
           at(b) == b.lo + (b.hi - b.lo) \div 2
           K == {i \in DOMAIN all : all[i].lo < CrashPriceCeiling(deal)}
<1>1. all = [i \in D |-> [index |-> i - 1, lo |-> (i - 1) * W, hi |-> i * W]]
  BY DEF BucketSchedule, Width
<1>2. s = [i \in K |-> [bucket |-> all[i], price |-> at(all[i]),
                       payout |-> CrashPayout(deal, at(all[i]), p)]]
  BY DEF CrashSchedule
<1>3. W \in Nat \ {0} /\ D \subseteq Nat \ {0}
  <2>1. 2 ^ deal.m \in Nat
    BY WidthFacts
  <2> QED BY <2>1, WidthFacts
<1> HIDE DEF s, W, D, all
<1>4. K = {i \in D : (i - 1) * W < CrashPriceCeiling(deal)}
  BY <1>1
<1>5. ASSUME NEW i \in K
      PROVE  /\ s[i].bucket.lo = (i - 1) * W /\ s[i].bucket.hi = i * W
             /\ s[i].bucket.index = i - 1 /\ s[i].price = at(all[i])
             /\ s[i].payout = CrashPayout(deal, s[i].price, p)
             /\ at(all[i]) = (i - 1) * W + (i * W - (i - 1) * W) \div 2
  BY <1>1, <1>2
<1>6. ASSUME NEW i \in K PROVE s[i].price \in Nat
  <2>1. i \in Nat \ {0}
    BY <1>3, <1>4
  <2>2. (i - 1) * W \in Nat /\ i * W - (i - 1) * W = W
    <3>1. PICK j \in Nat : i = j + 1
      BY <2>1
    <3>2. (j + 1) * W = j * W + W /\ j * W \in Nat
      BY <1>3
    <3> QED BY <1>3, <3>1, <3>2
  <2>3. W \div 2 \in Nat
    BY <1>3
  <2> QED BY <1>5, <2>2, <2>3
<1>7. DOMAIN s = K
  BY <1>2
<1>8. K = CrashIndexes(deal)
  BY <1>4 DEF CrashIndexes, D, W
<1> HIDE DEF K
<1> QED BY <1>5, <1>6, <1>7, <1>8 DEF s, W

(* A price is covered by one bucket. *)
LEMMA CoveredOnce ==
  ASSUME NEW W \in Nat \ {0}, NEW price \in Nat, NEW i \in Nat \ {0}
  PROVE  (price >= (i - 1) * W /\ price < i * W) <=> i = price \div W + 1
<1> DEFINE q == price \div W
<1>1. PICK j \in Nat : i = j + 1
  OBVIOUS
<1>2. q \in Nat
  BY FloorOf
<1>3. (j <= q) <=> (j * W <= price)
  BY FloorOf
<1>4. (j + 1 <= q) <=> ((j + 1) * W <= price)
  <2>1. j + 1 \in Nat
    OBVIOUS
  <2> QED BY <2>1, FloorOf
<1>5. j * W \in Nat /\ (j + 1) * W \in Nat /\ i - 1 = j
  BY <1>1
<1> HIDE DEF q
<1>6. (price >= j * W /\ price < (j + 1) * W) <=> (j <= q /\ ~(j + 1 <= q))
  BY <1>3, <1>4, <1>5
<1>7. (j <= q /\ ~(j + 1 <= q)) <=> j = q
  BY <1>2
<1>8. (i = q + 1) <=> (j = q)
  BY <1>1, <1>2
<1>9. (i - 1) * W = j * W /\ i * W = (j + 1) * W
  BY <1>1, <1>5
<1> QED BY <1>6, <1>7, <1>8, <1>9 DEF q

LEMMA CeilingType ==
  ASSUME NEW deal \in Terms
  PROVE  CrashPriceCeiling(deal) \in Nat
<1> DEFINE A == deal.liq * deal.mint * SATS_PER_BTC
           D == deal.collateral * MICRO_PER_USD * 10000
<1>1. A \in Nat
  BY TermsTypes, Units
<1>2. CASE deal.collateral = 0
  BY <1>2, Units DEF CrashPriceCeiling
<1>3. CASE deal.collateral # 0
  <2>1. D \in Nat \ {0}
    BY <1>3, TermsTypes, Units
  <2>2. CrashPriceCeiling(deal) = Min({A \div D, MaxU32})
    BY <1>3 DEF CrashPriceCeiling
  <2> HIDE DEF A, D
  <2>3. A \div D \in Nat
    BY <1>1, <2>1, FloorOf
  <2> QED BY <2>2, <2>3, LeastOfTwo, Units
<1> QED BY <1>2, <1>3

LEMMA CrashBuckets ==
  ASSUME NEW deal \in Terms, NEW p, NEW price \in Nat
  PROVE  LET s == CrashSchedule(deal, p)
             covers(c) == price >= c.bucket.lo /\ price < c.bucket.hi IN
         /\ price < CrashPriceCeiling(deal) /\ price < 2 ^ PriceDigits =>
                Cardinality({n \in DOMAIN s : covers(s[n])}) = 1
         /\ \A n \in DOMAIN s :
                covers(s[n]) => BucketOfPrice(price, deal.m) = s[n].bucket.index
<1> DEFINE s == CrashSchedule(deal, p)
           W == Width(deal.m)
           M == 2 ^ deal.m
           N == 2 ^ PriceDigits
           Ceiling == CrashPriceCeiling(deal)
           q == price \div W
           covers(c) == price >= c.bucket.lo /\ price < c.bucket.hi
<1>0. deal.m \in 1..PriceDigits
  BY TermsTypes
<1>1. W \in Nat \ {0} /\ M \in Nat \ {0} /\ N \in Nat \ {0} /\ N = M * W
  BY <1>0, WidthFacts
<1>2. /\ DOMAIN s = {i \in 1..M : (i - 1) * W < Ceiling}
      /\ \A i \in DOMAIN s :
            s[i].bucket.lo = (i - 1) * W /\ s[i].bucket.hi = i * W /\ s[i].bucket.index = i - 1
  <2>1. /\ DOMAIN s = CrashIndexes(deal)
        /\ \A i \in DOMAIN s :
                /\ s[i].bucket.lo = (i - 1) * W /\ s[i].bucket.hi = i * W
                /\ s[i].bucket.index = i - 1 /\ s[i].price \in Nat
                /\ s[i].payout = CrashPayout(deal, s[i].price, p)
    BY <1>0, ScheduleIs
  <2>2. CrashIndexes(deal) = {i \in 1..M : (i - 1) * W < Ceiling}
    BY DEF CrashIndexes
  <2> HIDE DEF s, W
  <2> QED BY <2>1, <2>2
<1>3. /\ price < N => Attested(price) = price
      /\ BucketOfPrice(price, deal.m) = Attested(price) \div W
  BY <1>0, AttestedBucket
<1>q. q \in Nat /\ q * W <= price /\ ((M <= q) <=> (M * W <= price))
  BY <1>1, FloorOf
<1> HIDE DEF s, W, M, N, Ceiling
<1>4. ASSUME NEW n \in DOMAIN s PROVE covers(s[n]) <=> n = q + 1
  <2>1. n \in Nat \ {0}
    BY <1>1, <1>2
  <2>2. (price >= (n - 1) * W /\ price < n * W) <=> n = price \div W + 1
    BY <1>1, <2>1, CoveredOnce
  <2> QED BY <1>2, <2>2
<1> HIDE DEF q
<1>5. ASSUME price < Ceiling, price < N
      PROVE  Cardinality({n \in DOMAIN s : covers(s[n])}) = 1
  <2>1. q < M
    BY <1>1, <1>q, <1>5
  <2>2. q + 1 \in 1..M /\ (q + 1) - 1 = q
    BY <1>1, <1>q, <2>1
  <2>3. Ceiling \in Int
    BY CeilingType DEF Ceiling
  <2>4. q * W < Ceiling
    BY <1>1, <1>q, <1>5, <2>3
  <2>5. q + 1 \in DOMAIN s
    BY <1>2, <2>2, <2>4
  <2>6. {n \in DOMAIN s : covers(s[n])} = {q + 1}
    BY <1>4, <2>5
  <2> QED BY <2>6, FS_Singleton
<1>6. ASSUME NEW n \in DOMAIN s, covers(s[n])
      PROVE  BucketOfPrice(price, deal.m) = s[n].bucket.index
  <2>1. n = q + 1
    BY <1>4, <1>6
  <2>2. n \in 1..M
    BY <1>2
  <2>3. q < M
    BY <1>1, <1>q, <2>1, <2>2
  <2>4. price < N
    BY <1>1, <1>q, <2>3
  <2>5. BucketOfPrice(price, deal.m) = q
    BY <1>3, <2>4 DEF q
  <2>6. s[n].bucket.index = q
    BY <1>2, <1>q, <2>1
  <2> QED BY <2>5, <2>6
<1> QED BY <1>5, <1>6 DEF s, M, N, Ceiling

(* The digits of a bucket, each with its nonce. *)
NoncedDigits(f, m, x) == {<<f[i], (x \div 2 ^ (m - i)) % 2>> : i \in 1..m}

LEMMA NoncedDigitsDetermine ==
  ASSUME NEW m \in Nat, NEW f, \A i, j \in 1..m : f[i] = f[j] => i = j,
         NEW a \in Nat, NEW b \in Nat, a < 2 ^ m, b < 2 ^ m,
         NoncedDigits(f, m, a) = NoncedDigits(f, m, b)
  PROVE  a = b
<1> DEFINE d(x, i) == (x \div 2 ^ (m - i)) % 2
<1>1. ASSUME NEW i \in 1..m PROVE d(a, i) = d(b, i)
  <2>1. <<f[i], d(a, i)>> \in NoncedDigits(f, m, a)
    BY DEF NoncedDigits
  <2>2. <<f[i], d(a, i)>> \in NoncedDigits(f, m, b)
    BY <2>1
  <2>3. PICK j \in 1..m : <<f[i], d(a, i)>> = <<f[j], d(b, j)>>
    BY <2>2 DEF NoncedDigits
  <2> HIDE DEF d
  <2>4. f[i] = f[j] /\ d(a, i) = d(b, j)
    BY <2>3
  <2> QED BY <2>4
<1>2. ASSUME NEW k \in 0..m - 1 PROVE (a \div 2 ^ k) % 2 = (b \div 2 ^ k) % 2
  <2>1. PICK i \in 1..m : m - i = k
    <3>1. m - k \in 1..m /\ m - (m - k) = k
      OBVIOUS
    <3> QED BY <3>1
  <2>2. d(a, i) = d(b, i)
    BY <1>1
  <2> QED BY <2>1, <2>2
<1> QED BY <1>2, DigitsDetermine

NonceOf(which, i) == IF which = "other" THEN <<"other", i>> ELSE <<"this", i>>

LEMMA NoncesOfAnnounced ==
  ASSUME NEW m \in 1..PriceDigits, NEW which \in {"this", "other", "cut"}
  PROVE  /\ which # "cut" => Len(Announced(which).nonces) = PriceDigits
         /\ Len(Announced(which).nonces) \in Int
         /\ m <= Len(Announced(which).nonces) =>
                \A i \in 1..m : Announced(which).nonces[i] = NonceOf(which, i)
<1> DEFINE nonces == Announced(which).nonces
<1>1. m \in Nat /\ PriceDigits \in Nat /\ 1..m \subseteq 1..PriceDigits
  BY Units
<1>2. CASE which = "this"
  <2>1. nonces = [i \in 1..PriceDigits |-> <<"this", i>>]
    BY <1>2 DEF Announced
  <2>2. Len(nonces) = PriceDigits
    BY <1>1, <2>1
  <2>3. \A i \in 1..m : nonces[i] = <<"this", i>>
    BY <1>1, <2>1
  <2> QED BY <1>1, <1>2, <2>2, <2>3 DEF NonceOf
<1>3. CASE which = "other"
  <2>1. nonces = [i \in 1..PriceDigits |-> <<"other", i>>]
    BY <1>3 DEF Announced
  <2>2. Len(nonces) = PriceDigits
    BY <1>1, <2>1
  <2>3. \A i \in 1..m : nonces[i] = <<"other", i>>
    BY <1>1, <2>1
  <2> QED BY <1>1, <1>3, <2>2, <2>3 DEF NonceOf
<1>4. CASE which = "cut"
  <2>1. nonces = [i \in 1..PriceDigits - 2 |-> <<"this", i>>]
    BY <1>4 DEF Announced
  <2>2. CASE PriceDigits >= 2
    <3>1. Len(nonces) = PriceDigits - 2 /\ PriceDigits - 2 \in Int
      BY <1>1, <2>1, <2>2
    <3>2. ASSUME m <= Len(nonces), NEW i \in 1..m PROVE nonces[i] = <<"this", i>>
      <4>1. i \in 1..PriceDigits - 2
        BY <1>1, <3>1, <3>2
      <4> QED BY <2>1, <4>1
    <3> QED BY <1>4, <3>1, <3>2 DEF NonceOf
  <2>3. CASE PriceDigits < 2
    <3>1. 1..PriceDigits - 2 = 1..0
      BY <1>1, <2>3
    <3>2. nonces = [i \in 1..0 |-> <<"this", i>>]
      BY <2>1, <3>1
    <3>3. Len(nonces) = 0
      BY <3>2
    <3> QED BY <1>1, <1>4, <3>3
  <2> QED BY <1>1, <2>2, <2>3
<1> QED BY <1>2, <1>3, <1>4

LEMMA DigitsOfPrice ==
  ASSUME NEW m \in 1..PriceDigits, NEW price \in Nat, NEW i \in 1..m
  PROVE  (BucketOfPrice(price, m) \div 2 ^ (m - i)) % 2
            = (Attested(price) \div 2 ^ (PriceDigits - i)) % 2
<1> DEFINE a == Attested(price)
           W == Width(m)
           c == 2 ^ (m - i)
<1>1. /\ m \in Nat /\ PriceDigits \in Nat /\ PriceDigits - m \in Nat /\ m - i \in Nat
      /\ (PriceDigits - m) + (m - i) = PriceDigits - i
  BY Units
<1>2. a \in Nat /\ BucketOfPrice(price, m) = a \div W
  BY AttestedBucket
<1>3. W \in Nat \ {0} /\ c \in Nat \ {0}
  BY <1>1, PowersOfTwo, WidthFacts
<1>4. W * c = 2 ^ (PriceDigits - i)
  <2>1. 2 ^ ((PriceDigits - m) + (m - i)) = 2 ^ (PriceDigits - m) * 2 ^ (m - i)
    BY <1>1, PowerOfSum
  <2> QED BY <1>1, <2>1 DEF Width
<1> HIDE DEF a, W, c
<1>5. (a \div W) \div c = a \div (W * c)
  BY <1>2, <1>3, QuotientOfQuotient
<1> QED BY <1>2, <1>4, <1>5 DEF a, c

LEMMA PresignedHolds ==
  ASSUME NEW t \in PresignTasks
  PROVE  LET v == PerformPresigned(t) IN
         /\ v.accepted =>
                /\ t.checked = t.signed /\ t.under # "other" /\ t.msg = "settle"
                /\ v.opens = (BucketOfPrice(t.price, t.m) = t.checked)
         /\ t.checked = t.signed /\ t.under = "this" /\ t.msg = "settle" => v.accepted
<1> DEFINE v == PerformPresigned(t)
           q == PositionQ(Position)
           m == t.m
           mine == Announced("this")
           shown == Announced(t.under)
           point == BucketPoint(shown, "oracle", m, t.checked)
           pre == Presignature(q, t.msg, BucketPoint(mine, "oracle", m, t.signed))
           own == [i \in 1..m |-> NonceOf("this", i)]
           theirs == [i \in 1..m |-> NonceOf(t.under, i)]
<1>1. /\ m \in 1..PriceDigits /\ t.signed \in 0..2 ^ m - 1 /\ t.checked \in 0..2 ^ m - 1
      /\ t.under \in {"this", "other", "cut"} /\ t.msg \in {"settle", "sweep"} /\ t.price \in Prices
  BY DEF PresignTasks
<1>2. 2 ^ m \in Nat /\ m \in Nat /\ t.price \in Nat
  BY <1>1, WidthFacts, NumbersAreNat
<1>3. /\ t.signed \in Nat /\ t.signed < 2 ^ m /\ t.checked \in Nat /\ t.checked < 2 ^ m
  BY <1>1, <1>2
<1>4. /\ v.accepted <=> (point # <<>> /\ pre = Presignature(q, "settle", point))
      /\ v.opens <=> Opens(mine, "oracle", t.price, m, pre)
  BY DEF PerformPresigned, VerifyCetAdaptor
<1>a. ~(Len(mine.nonces) < m) /\ \A i \in 1..m : mine.nonces[i] = own[i]
  <2>1. "this" \in {"this", "other", "cut"} /\ "this" # "cut"
    OBVIOUS
  <2>2. Len(mine.nonces) = PriceDigits
    BY <1>1, <2>1, NoncesOfAnnounced
  <2>3. m <= Len(mine.nonces)
    BY <1>1, <2>2, Units
  <2>4. \A i \in 1..m : mine.nonces[i] = NonceOf("this", i)
    BY <1>1, <2>1, <2>3, NoncesOfAnnounced
  <2> QED BY <1>2, <2>2, <2>3, <2>4, Units
<1>b. ~(Len(shown.nonces) < m) => \A i \in 1..m : shown.nonces[i] = theirs[i]
  <2> SUFFICES ASSUME ~(Len(shown.nonces) < m) PROVE \A i \in 1..m : shown.nonces[i] = theirs[i]
    OBVIOUS
  <2>1. Len(shown.nonces) \in Int
    BY <1>1, NoncesOfAnnounced
  <2>2. m <= Len(shown.nonces)
    BY <1>2, <2>1
  <2>3. \A i \in 1..m : shown.nonces[i] = NonceOf(t.under, i)
    BY <1>1, <2>2, NoncesOfAnnounced
  <2> QED BY <2>3
<1>5. BucketPoint(mine, "oracle", m, t.signed) = <<"sum", "oracle", NoncedDigits(own, m, t.signed)>>
  <2>1. ~(Len(mine.nonces) < m) /\ \A i \in 1..m : mine.nonces[i] = own[i]
    BY <1>a
  <2>2. BucketPoint(mine, "oracle", m, t.signed)
          = <<"sum", "oracle", {<<mine.nonces[i], (t.signed \div 2 ^ (m - i)) % 2>> : i \in 1..m}>>
    BY <2>1 DEF BucketPoint
  <2>3. {<<mine.nonces[i], (t.signed \div 2 ^ (m - i)) % 2>> : i \in 1..m}
            = NoncedDigits(own, m, t.signed)
    BY <2>1 DEF NoncedDigits
  <2> QED BY <2>2, <2>3
<1>6. point # <<>> => point = <<"sum", "oracle", NoncedDigits(theirs, m, t.checked)>>
  <2> SUFFICES ASSUME point # <<>>
               PROVE  point = <<"sum", "oracle", NoncedDigits(theirs, m, t.checked)>>
    OBVIOUS
  <2>1. ~(Len(shown.nonces) < m)
    BY DEF BucketPoint
  <2>2. \A i \in 1..m : shown.nonces[i] = theirs[i]
    BY <1>b, <2>1
  <2>3. point = <<"sum", "oracle", {<<shown.nonces[i], (t.checked \div 2 ^ (m - i)) % 2>> : i \in 1..m}>>
    BY <2>1 DEF BucketPoint
  <2>4. {<<shown.nonces[i], (t.checked \div 2 ^ (m - i)) % 2>> : i \in 1..m}
            = NoncedDigits(theirs, m, t.checked)
    BY <2>2 DEF NoncedDigits
  <2> QED BY <2>3, <2>4
<1>7. t.under = "this" => point # <<>>
  <2> SUFFICES ASSUME t.under = "this" PROVE point # <<>>
    OBVIOUS
  <2>a. shown = mine
    OBVIOUS
  <2>1. ~(Len(shown.nonces) < m)
    BY <1>a, <2>a
  <2>2. point = <<"sum", "oracle", {<<shown.nonces[i], (t.checked \div 2 ^ (m - i)) % 2>> : i \in 1..m}>>
    BY <2>1 DEF BucketPoint
  <2> QED BY <2>2
<1>8. Opens(mine, "oracle", t.price, m, pre)
        <=> NoncedDigits(own, m, t.signed) = NoncedDigits(own, m, BucketOfPrice(t.price, m))
  <2>1. \A i \in 1..m : mine.nonces[i] = own[i]
    BY <1>a
  <2>2. \A i \in 1..m : (BucketOfPrice(t.price, m) \div 2 ^ (m - i)) % 2
                              = (Attested(t.price) \div 2 ^ (PriceDigits - i)) % 2
    BY <1>1, <1>2, DigitsOfPrice
  <2>3. {<<mine.nonces[i], (Attested(t.price) \div 2 ^ (PriceDigits - i)) % 2>> : i \in 1..m}
            = NoncedDigits(own, m, BucketOfPrice(t.price, m))
    BY <2>1, <2>2 DEF NoncedDigits
  <2>4. pre.point = <<"sum", "oracle", NoncedDigits(own, m, t.signed)>>
    BY <1>5 DEF Presignature
  <2>5. Opens(mine, "oracle", t.price, m, pre)
          <=> <<"sum", "oracle", NoncedDigits(own, m, t.signed)>>
                = <<"sum", "oracle", NoncedDigits(own, m, BucketOfPrice(t.price, m))>>
    BY <2>3, <2>4 DEF Opens
  <2> QED BY <2>5
<1>9. pre = Presignature(q, "settle", point)
        <=> t.msg = "settle" /\ BucketPoint(mine, "oracle", m, t.signed) = point
  BY DEF Presignature
<1>10. \A i, j \in 1..m : own[i] = own[j] => i = j
  BY DEF NonceOf
<1>11. BucketOfPrice(t.price, m) \in Nat /\ BucketOfPrice(t.price, m) < 2 ^ m
  BY <1>1, <1>2, AttestedBucket
<1> HIDE DEF v, q, mine, shown, point, pre
<1>12. ASSUME NoncedDigits(own, m, t.signed) = NoncedDigits(theirs, m, t.checked)
       PROVE  t.under # "other" /\ theirs = own
  <2>1. 1 \in 1..m
    BY <1>1, <1>2
  <2>2. <<own[1], (t.signed \div 2 ^ (m - 1)) % 2>> \in NoncedDigits(theirs, m, t.checked)
    BY <1>12, <2>1 DEF NoncedDigits
  <2>3. PICK j \in 1..m : own[1] = theirs[j]
    BY <2>2 DEF NoncedDigits
  <2>4. t.under # "other"
    BY <2>1, <2>3 DEF NonceOf
  <2> QED BY <2>4 DEF NonceOf
<1>13. ASSUME v.accepted
       PROVE  /\ t.checked = t.signed /\ t.under # "other" /\ t.msg = "settle"
              /\ v.opens = (BucketOfPrice(t.price, m) = t.checked)
  <2>1. t.msg = "settle" /\ NoncedDigits(own, m, t.signed) = NoncedDigits(theirs, m, t.checked)
    BY <1>4, <1>5, <1>6, <1>9, <1>13
  <2>2. t.under # "other" /\ theirs = own
    BY <1>12, <2>1
  <2>3. t.signed = t.checked
    <3> HIDE DEF own, theirs
    <3> QED BY <1>2, <1>3, <1>10, <2>1, <2>2, NoncedDigitsDetermine
  <2>4. v.opens <=> t.signed = BucketOfPrice(t.price, m)
    <3> HIDE DEF own, theirs
    <3>1. NoncedDigits(own, m, t.signed) = NoncedDigits(own, m, BucketOfPrice(t.price, m))
            => t.signed = BucketOfPrice(t.price, m)
      BY <1>2, <1>3, <1>10, <1>11, NoncedDigitsDetermine
    <3> QED BY <1>4, <1>8, <3>1
  <2>5. v.opens \in BOOLEAN
    BY DEF v, PerformPresigned, Opens
  <2> QED BY <2>1, <2>2, <2>3, <2>4, <2>5
<1>14. ASSUME t.checked = t.signed, t.under = "this", t.msg = "settle" PROVE v.accepted
  <2>1. theirs = own
    BY <1>14 DEF NonceOf
  <2> HIDE DEF own, theirs
  <2> QED BY <1>4, <1>5, <1>6, <1>7, <1>9, <1>14, <2>1
<1> QED BY <1>13, <1>14 DEF v

(***************************************************************************)
(* Settlements.  The order things are sorted in, first.                    *)
(***************************************************************************)
(* There is an order in which equal numbers keep theirs.                   *)
LEMMA StableOrderExists ==
  ASSUME NEW n \in Nat, NEW k \in [1 .. n -> Int]
  PROVE  \E p \in [1 .. n -> 1 .. n] : \A i, j \in 1 .. n : i < j => Before(k, p[i], p[j])
<1> DEFINE c == [i \in 1 .. n |-> k[i] * (n + 1) + i]
<1>1. \A i \in 1 .. n : k[i] \in Int /\ c[i] = k[i] * (n + 1) + i /\ c[i] \in Int
  OBVIOUS
<1>2. c \in [1 .. n -> Int]
  <2>1. \A i \in 1 .. n : k[i] * (n + 1) + i \in Int
    BY <1>1
  <2> QED BY <2>1
<1> HIDE DEF c
<1>3. PICK p : Reorders(p, n) /\ \A i, j \in 1 .. n : i < j => c[p[i]] <= c[p[j]]
  BY <1>2, SortingExists
<1>4. p \in [1 .. n -> 1 .. n] /\ \A i, j \in 1 .. n : p[i] = p[j] => i = j
  BY <1>3 DEF Reorders
<1>5. ASSUME NEW i \in 1 .. n, NEW j \in 1 .. n, i < j PROVE Before(k, p[i], p[j])
  <2> DEFINE a == p[i]
             b == p[j]
             x == k[a]
             y == k[b]
  <2>1. a \in 1 .. n /\ b \in 1 .. n /\ a # b
    BY <1>4, <1>5
  <2>2. c[a] <= c[b]
    BY <1>3, <1>5
  <2> HIDE DEF a, b
  <2>3. x \in Int /\ y \in Int /\ c[a] = x * (n + 1) + a /\ c[b] = y * (n + 1) + b
    BY <1>1, <2>1
  <2> HIDE DEF x, y
  <2>4. x * (n + 1) + a <= y * (n + 1) + b
    BY <2>2, <2>3
  <2>5. x <= y
    <3> SUFFICES ASSUME y < x PROVE FALSE
      BY <2>3
    <3>1. (y + 1) * (n + 1) <= x * (n + 1)
      BY <2>3
    <3>2. (y + 1) * (n + 1) = y * (n + 1) + n + 1
      BY <2>3
    <3> DEFINE u == x * (n + 1)
               v == y * (n + 1)
    <3>3. u \in Int /\ v \in Int /\ u + a <= v + b /\ v + n + 1 <= u
      BY <2>3, <2>4, <3>1, <3>2
    <3> HIDE DEF u, v
    <3> QED BY <2>1, <3>3
  <2>6. x = y => a < b
    <3> SUFFICES ASSUME x = y PROVE a < b
      OBVIOUS
    <3> DEFINE u == x * (n + 1)
    <3>1. u \in Int /\ u + a <= u + b
      BY <2>3, <2>4
    <3> HIDE DEF u
    <3> QED BY <2>1, <3>1
  <2>7. x < y \/ (x = y /\ a < b)
    BY <2>3, <2>5, <2>6
  <2> QED BY <2>7 DEF Before, x, y, a, b
<1> QED BY <1>4, <1>5

(* Such an order lists every index once, and the numbers from the lowest. *)
LEMMA OrderReorders ==
  ASSUME NEW n \in Nat, NEW k \in [1 .. n -> Int], NEW p \in [1 .. n -> 1 .. n],
         \A i, j \in 1 .. n : i < j => Before(k, p[i], p[j])
  PROVE  /\ Reorders(p, n)
         /\ \A i, j \in 1 .. n : i < j => k[p[i]] <= k[p[j]]
<1>1. \A i \in 1 .. n : p[i] \in 1 .. n /\ k[p[i]] \in Int
  OBVIOUS
<1>2. ASSUME NEW i \in 1 .. n, NEW j \in 1 .. n, i < j PROVE p[i] # p[j] /\ k[p[i]] <= k[p[j]]
  <2> DEFINE a == p[i]
             b == p[j]
  <2>1. Before(k, a, b)
    BY <1>2
  <2>2. a \in 1 .. n /\ b \in 1 .. n /\ k[a] \in Int /\ k[b] \in Int
    BY <1>1
  <2> HIDE DEF a, b
  <2> DEFINE x == k[a]
             y == k[b]
  <2>3. x < y \/ (x = y /\ a < b)
    BY <2>1 DEF Before
  <2>4. x \in Int /\ y \in Int /\ a \in Int /\ b \in Int /\ (a = b => x = y)
    BY <2>2
  <2> HIDE DEF x, y
  <2>5. a # b /\ x <= y
    BY <2>3, <2>4
  <2> QED BY <2>5 DEF a, b, x, y
<1>3. \A i, j \in 1 .. n : p[i] = p[j] => i = j
  <2> SUFFICES ASSUME NEW i \in 1 .. n, NEW j \in 1 .. n, i # j PROVE p[i] # p[j]
    OBVIOUS
  <2>1. i < j \/ j < i
    OBVIOUS
  <2> QED BY <1>2, <2>1
<1> DEFINE T == {p[i] : i \in 1 .. n}
<1>4. IsFiniteSet(1 .. n) /\ Cardinality(1 .. n) = n
  BY FS_Interval
<1>5. Cardinality(T) = n /\ T \subseteq 1 .. n
  <2>1. T \subseteq 1 .. n
    BY <1>1
  <2>2. Cardinality(T) = Cardinality(1 .. n)
    <3> DEFINE D == 1 .. n
    <3>1. IsFiniteSet(D) /\ \A i, j \in D : p[i] = p[j] => i = j
      BY <1>3, <1>4
    <3> HIDE DEF D
    <3>2. Cardinality({p[i] : i \in D}) = Cardinality(D)
      BY <3>1, ImagesAreAsMany
    <3> QED BY <3>2 DEF D
  <2> QED BY <1>4, <2>1, <2>2
<1>6. T = 1 .. n
  <2> HIDE DEF T
  <2> QED BY <1>4, <1>5, FS_Subset
<1>7. \A v \in 1 .. n : \E i \in 1 .. n : p[i] = v
  BY <1>6
<1>8. Reorders(p, n)
  BY <1>3, <1>7 DEF Reorders
<1> QED BY <1>2, <1>8

(* So does the one the model chooses. *)
LEMMA OrderIsStable ==
  ASSUME NEW n \in Nat, NEW k \in [1 .. n -> Int]
  PROVE  /\ Reorders(StableOrder(k), n)
         /\ \A i, j \in 1 .. n : i < j => /\ Before(k, StableOrder(k)[i], StableOrder(k)[j])
                                        /\ k[StableOrder(k)[i]] <= k[StableOrder(k)[j]]
<1> DEFINE Chain(p) == \A i, j \in 1 .. n : i < j => Before(k, p[i], p[j])
           o == CHOOSE p \in [1 .. n -> 1 .. n] : Chain(p)
<1>1. o \in [1 .. n -> 1 .. n] /\ Chain(o)
  <2>1. \E p \in [1 .. n -> 1 .. n] : Chain(p)
    BY StableOrderExists
  <2> HIDE DEF Chain
  <2> QED BY <2>1
<1>2. StableOrder(k) = o
  BY DEF StableOrder
<1> HIDE DEF o
<1>3. Reorders(o, n) /\ \A i, j \in 1 .. n : i < j => k[o[i]] <= k[o[j]]
  BY <1>1, OrderReorders
<1> QED BY <1>1, <1>2, <1>3

(* The lower median lies among the prices of any majority. *)
LEMMA MedianAmongMost ==
  ASSUME NEW n \in Nat \ {0}, NEW s \in [1..n -> Nat], NEW M \in SUBSET (1..n),
         2 * Cardinality(M) > n
  PROVE  /\ RawMedian(s) \in Nat
         /\ \E i \in M : s[i] <= RawMedian(s)
         /\ \E i \in M : RawMedian(s) <= s[i]
<1> DEFINE p == StableOrder(s)
           h == (n - 1) \div 2 + 1
<1>1. /\ DOMAIN s = 1..n /\ Len(s) = n /\ s \in [1..n -> Int]
      /\ \A i \in 1..n : s[i] \in Nat
  OBVIOUS
<1>3. h \in 1..n /\ n \in Nat /\ 2 * h <= n + 1 /\ n <= 2 * h
  OBVIOUS
<1>4. RawMedian(s) = s[p[h]]
  <2>1. [i \in DOMAIN s |-> s[i]] = s
    OBVIOUS
  <2>2. SortedBy(s, LAMBDA v : v) = [i \in DOMAIN s |-> s[p[i]]]
    BY <2>1 DEF SortedBy
  <2>3. RawMedian(s) = SortedBy(s, LAMBDA v : v)[h]
    BY <1>1 DEF RawMedian
  <2> HIDE DEF p, h
  <2> QED BY <1>1, <1>3, <2>2, <2>3
<1> HIDE DEF p, h
<1>5. Reorders(p, n) /\ \A i, j \in 1..n : i < j => s[p[i]] <= s[p[j]]
  BY <1>1, OrderIsStable DEF p
<1>6. /\ \A i \in 1..n : p[i] \in 1..n /\ s[p[i]] \in Nat
      /\ \A i, j \in 1..n : p[i] = p[j] => i = j
      /\ \A v \in 1..n : \E i \in 1..n : p[i] = v
  BY <1>1, <1>5 DEF Reorders
<1> DEFINE N == {i \in 1..n : p[i] \in M}
<1>7. IsFiniteSet(N) /\ N \in SUBSET (1..n) /\ Cardinality(N) = Cardinality(M)
  <2>1. N \in SUBSET (1..n) /\ \A i, j \in N : p[i] = p[j] => i = j
    BY <1>6
  <2>2. {p[i] : i \in N} = M
    <3>1. ASSUME NEW v \in M PROVE \E i \in N : p[i] = v
      BY <1>6
    <3>2. \A i \in N : p[i] \in M
      OBVIOUS
    <3> HIDE DEF N
    <3> QED BY <3>1, <3>2
  <2>3. IsFiniteSet(1..n)
    BY <1>3, FS_Interval
  <2> HIDE DEF N
  <2>4. IsFiniteSet(N)
    BY <2>1, <2>3, FS_Subset
  <2>5. Cardinality({p[i] : i \in N}) = Cardinality(N)
    BY <2>1, <2>4, ImagesAreAsMany
  <2> QED BY <2>1, <2>2, <2>4, <2>5
<1>8. \A i \in N : i \in 1..n /\ p[i] \in M
  OBVIOUS
<1>9. Cardinality(N) \in Nat /\ 2 * Cardinality(N) > n
  BY <1>7, FS_CardinalityType
<1> HIDE DEF N
<1>10. \E i \in N : i <= h
  <2> SUFFICES ASSUME \A i \in N : ~(i <= h) PROVE FALSE
    OBVIOUS
  <2> DEFINE T == h + 1..n
  <2>1. N \subseteq T
    BY <1>3, <1>8
  <2>2. IsFiniteSet(T) /\ Cardinality(T) = n - h
    <3>1. h + 1 \in Int /\ n \in Int
      BY <1>3
    <3>2. \A a, b \in Int : IsFiniteSet(a..b) /\ Cardinality(a..b) = IF a > b THEN 0 ELSE b - a + 1
      BY FS_Interval
    <3>3. IsFiniteSet(T) /\ Cardinality(T) = IF h + 1 > n THEN 0 ELSE n - (h + 1) + 1
      BY <3>1, <3>2
    <3> QED BY <1>3, <3>3
  <2> HIDE DEF T
  <2>3. Cardinality(N) <= n - h
    BY <2>1, <2>2, FS_Subset
  <2> QED BY <1>3, <1>9, <2>3
<1>11. \E i \in N : h <= i
  <2> SUFFICES ASSUME \A i \in N : ~(h <= i) PROVE FALSE
    OBVIOUS
  <2> DEFINE T == 1..h - 1
  <2>1. N \subseteq T
    BY <1>3, <1>8
  <2>2. IsFiniteSet(T) /\ Cardinality(T) = h - 1
    <3>1. h - 1 \in Int /\ 1 \in Int
      BY <1>3
    <3>2. \A a, b \in Int : IsFiniteSet(a..b) /\ Cardinality(a..b) = IF a > b THEN 0 ELSE b - a + 1
      BY FS_Interval
    <3>3. IsFiniteSet(T) /\ Cardinality(T) = IF 1 > h - 1 THEN 0 ELSE (h - 1) - 1 + 1
      BY <3>1, <3>2
    <3> QED BY <1>3, <3>3
  <2> HIDE DEF T
  <2>3. Cardinality(N) <= h - 1
    BY <2>1, <2>2, FS_Subset
  <2> QED BY <1>3, <1>9, <2>3
<1>12. \A i, j \in 1..n : i <= j => s[p[i]] <= s[p[j]]
  <2> SUFFICES ASSUME NEW i \in 1..n, NEW j \in 1..n, i <= j PROVE s[p[i]] <= s[p[j]]
    OBVIOUS
  <2>1. CASE i = j
    <3>1. s[p[i]] \in Nat
      BY <1>6
    <3> QED BY <2>1, <3>1
  <2>2. CASE i < j
    BY <1>5, <2>2
  <2> QED BY <2>1, <2>2
<1>13. \E i \in M : s[i] <= s[p[h]]
  <2>1. PICK j \in N : j <= h
    BY <1>10
  <2>2. p[j] \in M /\ j \in 1..n
    BY <1>8
  <2>3. s[p[j]] <= s[p[h]]
    BY <1>3, <1>12, <2>1, <2>2
  <2> QED BY <2>2, <2>3
<1>14. \E i \in M : s[p[h]] <= s[i]
  <2>1. PICK j \in N : h <= j
    BY <1>11
  <2>2. p[j] \in M /\ j \in 1..n
    BY <1>8
  <2>3. s[p[h]] <= s[p[j]]
    BY <1>3, <1>12, <2>1, <2>2
  <2> QED BY <2>2, <2>3
<1>15. s[p[h]] \in Nat
  BY <1>3, <1>6
<1> QED BY <1>4, <1>13, <1>14, <1>15

-----------------------------------------------------------------------------
(* The price of the market: the points within the band, their volume and   *)
(* the prices at which half of it is reached.                              *)
KeptPoints(points) ==
    LET median == RawMedian([i \in DOMAIN points |-> points[i].price])
    IN {i \in DOMAIN points : Apart(points[i].price, median) <= BpsOf(median, TRIM_BPS)}
VolumeOf(points, S) == SumFunctionOnSet([i \in DOMAIN points |-> points[i].volume], S)
KeptUpTo(points, p) == {i \in KeptPoints(points) : points[i].price <= p}
PricesReached(points) ==
    {points[i].price : i \in {j \in KeptPoints(points) :
        VolumeOf(points, KeptUpTo(points, points[j].price))
            >= (VolumeOf(points, KeptPoints(points)) + 1) \div 2}}

(* What is kept of the points, and up to a price. *)
LEMMA PointsAreNumbers ==
  ASSUME NEW n \in Nat, NEW points \in [1 .. n -> [price : Nat, volume : Nat]]
  PROVE  /\ DOMAIN points = 1 .. n /\ Len(points) = n
         /\ \A i \in 1 .. n : points[i].price \in Nat /\ points[i].volume \in Nat
         /\ KeptPoints(points) \in SUBSET (1 .. n)
         /\ \A p : KeptUpTo(points, p) \in SUBSET KeptPoints(points)
<1>1. DOMAIN points = 1 .. n /\ Len(points) = n
  OBVIOUS
<1>2. \A i \in 1 .. n : points[i] \in [price : Nat, volume : Nat]
  OBVIOUS
<1>3. \A i \in 1 .. n : points[i].price \in Nat /\ points[i].volume \in Nat
  BY <1>2
<1> QED BY <1>1, <1>3 DEF KeptPoints, KeptUpTo

(* The volume of the points is that of a part and of the rest. *)
LEMMA VolumeOfParts ==
  ASSUME NEW n \in Nat, NEW points \in [1 .. n -> [price : Nat, volume : Nat]],
         NEW T \in SUBSET (1 .. n), NEW Q \in SUBSET T
  PROVE  /\ VolumeOf(points, Q) \in Nat /\ VolumeOf(points, T \ Q) \in Nat
         /\ VolumeOf(points, T) = VolumeOf(points, Q) + VolumeOf(points, T \ Q)
         /\ TotalOf([i \in T |-> points[i].volume]) = VolumeOf(points, T)
<1> DEFINE f == [i \in DOMAIN points |-> points[i].volume]
           g == [i \in T |-> points[i].volume]
<1>1. /\ DOMAIN points = 1 .. n
      /\ \A i \in 1 .. n : points[i].volume \in Nat
  BY PointsAreNumbers
<1>2. IsFiniteSet(T)
  <2>1. IsFiniteSet(1 .. n)
    BY FS_Interval
  <2> QED BY <2>1, FS_Subset
<1>3. /\ \A i \in T : f[i] \in Nat /\ f[i] \in Int
      /\ DOMAIN g = T /\ \A i \in T : g[i] = f[i]
  BY <1>1
<1>4. SumFunctionOnSet(f, Q) \in Nat /\ SumFunctionOnSet(f, T \ Q) \in Nat
      /\ SumFunctionOnSet(f, T) = SumFunctionOnSet(f, Q) + SumFunctionOnSet(f, T \ Q)
  <2>1. \A i \in T : f[i] \in Nat
    BY <1>3
  <2>2. Q \in SUBSET T
    OBVIOUS
  <2> HIDE DEF f, g
  <2> QED BY <1>2, <2>1, <2>2, SumOfPart
<1>5. SumFunctionOnSet(g, T) = SumFunctionOnSet(f, T)
  <2> HIDE DEF f, g
  <2> QED BY <1>2, <1>3, SumAgrees
<1>6. TotalOf(g) = SumFunctionOnSet(g, T)
  <2> HIDE DEF g
  <2> QED BY <1>3 DEF TotalOf
<1> QED BY <1>4, <1>5, <1>6 DEF VolumeOf

(* The price is the least at which half of the volume kept is reached. *)
LEMMA TwapIsReached ==
  ASSUME NEW n \in Nat, NEW points \in [1 .. n -> [price : Nat, volume : Nat]],
         NEW minVolume \in Nat, InternalTwap(points, minVolume) # Refused
  PROVE  /\ InternalTwap(points, minVolume) = <<Min(PricesReached(points))>>
         /\ VolumeOf(points, KeptPoints(points)) # 0
         /\ n # 0
<1> DEFINE vol(S) == TotalOf([i \in S |-> points[i].volume])
           left == KeptPoints(points)
           reached == {points[i].price : i \in {j \in left :
                          vol({i \in left : points[i].price <= points[j].price})
                              >= (vol(left) + 1) \div 2}}
<1>1. /\ InternalTwap(points, minVolume) = <<Min(reached)>>
      /\ vol(left) # 0 /\ n # 0
  <2>1. InternalTwap(points, minVolume) =
          IF points = <<>> THEN Refused
          ELSE IF vol(left) < minVolume \/ vol(left) = 0 THEN Refused
          ELSE <<Min(reached)>>
    BY DEF InternalTwap, KeptPoints
  <2>2. n = 0 => points = <<>>
    OBVIOUS
  <2> HIDE DEF vol, left, reached
  <2> QED BY <2>1, <2>2
<1>2. \A S \in SUBSET (1 .. n) : vol(S) = VolumeOf(points, S)
  <2> HIDE DEF vol
  <2>1. ASSUME NEW S \in SUBSET (1 .. n) PROVE vol(S) = VolumeOf(points, S)
    <3>1. {} \in SUBSET S
      OBVIOUS
    <3> QED BY <3>1, VolumeOfParts DEF vol
  <2> QED BY <2>1
<1>3. /\ left \in SUBSET (1 .. n)
      /\ \A p : KeptUpTo(points, p) = {i \in left : points[i].price <= p}
      /\ \A p : KeptUpTo(points, p) \in SUBSET (1 .. n)
  BY PointsAreNumbers DEF KeptUpTo
<1>4. vol(left) = VolumeOf(points, left)
  <2> HIDE DEF vol, left
  <2> QED BY <1>2, <1>3
<1>5. \A p : vol({i \in left : points[i].price <= p}) = VolumeOf(points, KeptUpTo(points, p))
  <2> HIDE DEF vol, left
  <2> QED BY <1>2, <1>3
<1>6. reached = PricesReached(points)
  <2> HIDE DEF vol
  <2> QED BY <1>4, <1>5 DEF PricesReached
<1> QED BY <1>1, <1>4, <1>6

(* Such prices are finitely many, and numbers. *)
LEMMA ReachedArePrices ==
  ASSUME NEW n \in Nat, NEW points \in [1 .. n -> [price : Nat, volume : Nat]]
  PROVE  IsFiniteSet(PricesReached(points)) /\ PricesReached(points) \subseteq Nat
<1> DEFINE D == 1 .. n
           f == [i \in D |-> points[i].price]
           T == {f[i] : i \in D}
<1>1. T \subseteq Nat /\ PricesReached(points) \subseteq T
  <2>1. /\ KeptPoints(points) \in SUBSET D
        /\ \A i \in D : f[i] = points[i].price /\ points[i].price \in Nat
    BY PointsAreNumbers
  <2> QED BY <2>1 DEF PricesReached
<1>2. IsFiniteSet(T)
  <2>1. IsFiniteSet(D)
    BY FS_Interval
  <2> HIDE DEF D, f
  <2> QED BY <2>1, ImageIsFinite
<1> HIDE DEF T
<1>3. IsFiniteSet(PricesReached(points))
  BY <1>1, <1>2, FS_Subset
<1> QED BY <1>1, <1>3

(* The price of the market is one of its points'.                          *)
LEMMA TwapIsAPrice ==
  ASSUME NEW n \in Nat, NEW points \in [1 .. n -> [price : Nat, volume : Nat]],
         NEW minVolume \in Nat, InternalTwap(points, minVolume) # Refused
  PROVE  InternalTwap(points, minVolume)[1] \in Nat
<1> DEFINE K == KeptPoints(points)
           f == [i \in 1 .. n |-> points[i].price]
           P == {f[i] : i \in K}
           total == VolumeOf(points, K)
<1>1. /\ K \in SUBSET (1 .. n) /\ DOMAIN points = 1 .. n
      /\ \A i \in 1 .. n : f[i] = points[i].price /\ points[i].price \in Nat /\ f[i] \in Nat
  BY PointsAreNumbers
<1>2. total \in Nat /\ total # 0
  <2>1. K \in SUBSET K
    OBVIOUS
  <2> HIDE DEF K
  <2>2. VolumeOf(points, K) \in Nat
    BY <1>1, <2>1, VolumeOfParts
  <2>3. VolumeOf(points, K) # 0
    BY TwapIsReached DEF K
  <2> QED BY <2>2, <2>3
<1> HIDE DEF f
<1>3. K # {}
  <2> SUFFICES ASSUME K = {} PROVE FALSE
    OBVIOUS
  <2>1. SumFunctionOnSet([i \in DOMAIN points |-> points[i].volume], {}) = 0
    BY SumOfNothing
  <2>2. total = 0
    BY <2>1 DEF VolumeOf
  <2> QED BY <1>2, <2>2
<1> HIDE DEF K
<1>4. IsFiniteSet(P) /\ P # {} /\ P \subseteq Int
  <2>1. IsFiniteSet(K)
    <3>1. IsFiniteSet(1 .. n)
      BY FS_Interval
    <3> QED BY <1>1, <3>1, FS_Subset
  <2>2. IsFiniteSet(P)
    BY <2>1, ImageIsFinite
  <2>3. P \subseteq Int
    BY <1>1
  <2>4. P # {}
    BY <1>3
  <2> QED BY <2>2, <2>3, <2>4
<1>5. PICK top \in P : \A y \in P : y <= top
  <2> HIDE DEF P
  <2> QED BY <1>4, FiniteSetHasExtremes
<1>6. PICK i \in K : top = points[i].price
  BY <1>1, <1>5
<1>7. KeptUpTo(points, points[i].price) = K
  <2>1. \A j \in K : points[j].price <= points[i].price
    BY <1>1, <1>5, <1>6
  <2> QED BY <2>1 DEF KeptUpTo, K
<1>8. total >= (total + 1) \div 2
  <2> HIDE DEF total
  <2> QED BY <1>2
<1>9. points[i].price \in PricesReached(points)
  BY <1>6, <1>7, <1>8 DEF PricesReached, K
<1>10. Min(PricesReached(points)) \in Nat
  <2>1. IsFiniteSet(PricesReached(points)) /\ PricesReached(points) \subseteq Nat
    BY ReachedArePrices
  <2>2. PricesReached(points) # {} /\ PricesReached(points) \subseteq Int
    BY <1>9, <2>1
  <2> QED BY <2>1, <2>2, MinAndMax
<1> QED BY <1>10, TwapIsReached

(* Less than half of the points and volume do not move the price of the *)
(* market out of the prices of the others. *)
LEMMA MarketResists ==
  ASSUME NEW n \in Nat, NEW points \in [1..n -> [price : Nat, volume : Nat]],
         NEW minVolume \in Nat, InternalTwap(points, minVolume) # Refused,
         NEW honest \in SUBSET DOMAIN points, HonestMarket(points, honest),
         LET prices == {points[i].price : i \in honest}
         IN  Max(prices) - Min(prices) <= BpsOf(Min(prices), TRIM_BPS)
  PROVE  LET prices == {points[i].price : i \in honest}
         IN  InternalTwap(points, minVolume)[1] \in Min(prices)..Max(prices)
<1> DEFINE D == 1 .. n
           P == {points[i].price : i \in honest}
           lo == Min(P)
           hi == Max(P)
           ps == [i \in D |-> points[i].price]
           median == RawMedian(ps)
           kept == KeptPoints(points)
           Sum(S) == VolumeOf(points, S)
           total == Sum(kept)
           upTo(p) == KeptUpTo(points, p)
           crossing == PricesReached(points)
           half == (total + 1) \div 2
<1>1. /\ DOMAIN points = D /\ Len(points) = n /\ honest \in SUBSET D
      /\ IsFiniteSet(D) /\ ps \in [D -> Nat] /\ TRIM_BPS \in Nat
      /\ \A i \in D : points[i].price \in Nat /\ ps[i] = points[i].price
      /\ kept \in SUBSET D /\ \A p : upTo(p) \in SUBSET kept
  <2>1. IsFiniteSet(D)
    BY FS_Interval
  <2>2. /\ DOMAIN points = D /\ Len(points) = n
        /\ \A i \in D : points[i].price \in Nat
        /\ kept \in SUBSET D /\ \A p : upTo(p) \in SUBSET kept
    BY PointsAreNumbers
  <2> QED BY <2>1, <2>2, AnchoringAssumption
<1>2. kept = {i \in D : Apart(points[i].price, median) <= BpsOf(median, TRIM_BPS)}
  BY <1>1 DEF KeptPoints
<1>10. \A T \in SUBSET D : \A Q \in SUBSET T :
         /\ Sum(Q) \in Nat /\ Sum(T \ Q) \in Nat
         /\ Sum(T) = Sum(Q) + Sum(T \ Q)
  BY VolumeOfParts
<1>3. 2 * Cardinality(honest) > n /\ 2 * Sum(honest) > Sum(D)
  <2>1. /\ 2 * Cardinality(honest) > Len(points)
        /\ 2 * TotalOf([i \in honest |-> points[i].volume])
             > TotalOf([i \in DOMAIN points |-> points[i].volume])
    BY DEF HonestMarket
  <2>2. \A S \in SUBSET D : TotalOf([i \in S |-> points[i].volume]) = VolumeOf(points, S)
    <3> SUFFICES ASSUME NEW S \in SUBSET D
                 PROVE  TotalOf([i \in S |-> points[i].volume]) = VolumeOf(points, S)
      OBVIOUS
    <3>1. {} \in SUBSET S
      OBVIOUS
    <3> QED BY <3>1, VolumeOfParts
  <2> HIDE DEF D
  <2> QED BY <1>1, <2>1, <2>2
<1>4. InternalTwap(points, minVolume) = <<Min(crossing)>> /\ n # 0
  BY TwapIsReached
<1>6. /\ lo \in P /\ hi \in P /\ \A y \in P : lo <= y /\ y <= hi
      /\ P \subseteq Nat /\ honest # {}
      /\ hi - lo <= BpsOf(lo, TRIM_BPS)
  <2>1. IsFiniteSet(honest)
    BY <1>1, FS_Subset
  <2>2. honest # {}
    <3> SUFFICES ASSUME honest = {} PROVE FALSE
      OBVIOUS
    <3>1. Cardinality(honest) = 0
      BY FS_EmptySet
    <3> QED BY <1>3, <3>1
  <2>3. P = {ps[i] : i \in honest}
    BY <1>1
  <2>4. IsFiniteSet(P)
    <3> HIDE DEF P, ps
    <3> QED BY <2>1, <2>3, ImageIsFinite
  <2>5. P # {} /\ P \subseteq Nat /\ P \subseteq Int
    <3>1. \A i \in honest : points[i].price \in Nat
      BY <1>1
    <3>2. P \subseteq Nat
      BY <3>1
    <3>3. P # {}
      BY <2>2
    <3> HIDE DEF P
    <3> QED BY <3>2, <3>3
  <2>6. hi - lo <= BpsOf(lo, TRIM_BPS)
    OBVIOUS
  <2> HIDE DEF P
  <2> QED BY <2>2, <2>4, <2>5, <2>6, MinAndMax
<1>7. median \in Nat /\ lo <= median /\ median <= hi
  <2>1. n \in Nat \ {0} /\ ps \in [1 .. n -> Nat] /\ honest \in SUBSET (1 .. n)
    BY <1>1, <1>4
  <2> DEFINE m == RawMedian(ps)
  <2>2. /\ m \in Nat
        /\ \E i \in honest : ps[i] <= m
        /\ \E i \in honest : m <= ps[i]
    <3> HIDE DEF ps, m, D
    <3> QED BY <1>3, <2>1, MedianAmongMost DEF m
  <2>3. \A i \in honest : ps[i] \in P /\ ps[i] \in Nat
    BY <1>1
  <2> HIDE DEF P, m, ps, lo, hi
  <2>4. lo \in Nat /\ hi \in Nat
    BY <1>6
  <2>7. \A y \in P : lo <= y /\ y <= hi
    BY <1>6
  <2>5. lo <= m
    <3>1. PICK i \in honest : ps[i] <= m
      BY <2>2
    <3>2. lo <= ps[i] /\ ps[i] \in Nat
      BY <2>3, <2>7, <3>1
    <3>3. ps[i] <= m /\ m \in Nat /\ lo \in Nat
      BY <2>2, <2>4, <3>1
    <3> QED BY <3>2, <3>3
  <2>6. m <= hi
    <3>1. PICK i \in honest : m <= ps[i]
      BY <2>2
    <3>2. ps[i] <= hi /\ ps[i] \in Nat
      BY <2>3, <2>7, <3>1
    <3>3. m <= ps[i] /\ m \in Nat /\ hi \in Nat
      BY <2>2, <2>4, <3>1
    <3> QED BY <3>2, <3>3
  <2> QED BY <2>2, <2>5, <2>6 DEF m
<1> HIDE DEF lo, hi, median
<1>8. BpsOf(lo, TRIM_BPS) <= BpsOf(median, TRIM_BPS)
      /\ BpsOf(lo, TRIM_BPS) \in Int /\ BpsOf(median, TRIM_BPS) \in Int
  <2>1. lo \in Nat /\ median \in Nat /\ lo <= median /\ TRIM_BPS \in Nat
    BY <1>1, <1>6, <1>7
  <2>2. lo * TRIM_BPS <= median * TRIM_BPS /\ lo * TRIM_BPS \in Nat /\ median * TRIM_BPS \in Nat
    BY <2>1
  <2> DEFINE x == lo * TRIM_BPS
             y == median * TRIM_BPS
  <2>3. x \in Nat /\ y \in Nat /\ x <= y
    BY <2>2
  <2> HIDE DEF x, y
  <2>4. x \div 10000 <= y \div 10000 /\ x \div 10000 \in Int /\ y \div 10000 \in Int
    BY <2>3
  <2> QED BY <2>4 DEF BpsOf, x, y
<1>9. honest \in SUBSET kept /\ kept \in SUBSET D
  <2> SUFFICES ASSUME NEW i \in honest PROVE Apart(points[i].price, median) <= BpsOf(median, TRIM_BPS)
    BY <1>1, <1>2
  <2> DEFINE x == points[i].price
  <2>1. x \in Nat /\ lo <= x /\ x <= hi
    BY <1>1, <1>6
  <2>2. lo \in Nat /\ hi \in Nat
    BY <1>6
  <2> HIDE DEF x
  <2>3. Apart(x, median) <= hi - lo
    BY <1>7, <2>1, <2>2 DEF Apart
  <2>4. Apart(x, median) \in Int
    BY <1>7, <2>1 DEF Apart
  <2> QED BY <1>6, <1>8, <2>2, <2>3, <2>4 DEF x
<1> HIDE DEF kept
<1>11. /\ total \in Nat /\ Sum(honest) \in Nat /\ Sum(kept \ honest) \in Nat
       /\ total = Sum(honest) + Sum(kept \ honest)
       /\ 2 * Sum(kept \ honest) < total
  <2>1. /\ Sum(honest) \in Nat /\ Sum(kept \ honest) \in Nat
        /\ total = Sum(honest) + Sum(kept \ honest)
    BY <1>9, <1>10
  <2>2. Sum(D) = total + Sum(D \ kept) /\ Sum(D \ kept) \in Nat /\ total \in Nat
    BY <1>9, <1>10
  <2> DEFINE a == Sum(honest)
             b == Sum(kept \ honest)
             c == Sum(D \ kept)
             s == Sum(D)
  <2>3. /\ a \in Nat /\ b \in Nat /\ c \in Nat /\ total \in Nat
        /\ total = a + b /\ s = total + c /\ 2 * a > s
    BY <1>3, <2>1, <2>2
  <2> HIDE DEF a, b, c, s, total
  <2>4. 2 * b < total
    BY <2>3
  <2> QED BY <2>1, <2>2, <2>4 DEF b, total
<1>12. half \in Nat /\ 2 * half <= total + 1 /\ total <= 2 * half
  <2> HIDE DEF total
  <2> QED BY <1>11
<1>13. \A p : upTo(p) \in SUBSET kept /\ upTo(p) \in SUBSET D
  BY <1>1
<1>14. hi \in crossing
  <2>1. PICK i \in honest : hi = points[i].price
    BY <1>6
  <2>2. honest \in SUBSET upTo(points[i].price)
    <3>1. ASSUME NEW j \in honest PROVE points[j].price <= points[i].price
      BY <1>6, <2>1
    <3> QED BY <1>9, <3>1 DEF KeptUpTo, kept
  <2>3. Sum(upTo(points[i].price)) = Sum(honest) + Sum(upTo(points[i].price) \ honest)
        /\ Sum(upTo(points[i].price) \ honest) \in Nat
    <3> HIDE DEF upTo, D, Sum
    <3> QED BY <1>10, <1>13, <2>2
  <2>4. Sum(upTo(points[i].price)) >= half
    <3> DEFINE a == Sum(honest)
               b == Sum(kept \ honest)
               c == Sum(upTo(points[i].price) \ honest)
               u == Sum(upTo(points[i].price))
    <3>1. /\ a \in Nat /\ b \in Nat /\ c \in Nat /\ u = a + c /\ total \in Nat
          /\ total = a + b /\ 2 * b < total
      BY <1>11, <2>3
    <3> HIDE DEF a, b, c, u, total, half
    <3>2. u >= half
      BY <1>12, <3>1
    <3> QED BY <3>2 DEF u
  <2> QED BY <1>9, <2>1, <2>4 DEF PricesReached, kept
<1>15. IsFiniteSet(crossing) /\ crossing \subseteq Int /\ crossing \subseteq Nat
  <2>1. IsFiniteSet(crossing) /\ crossing \subseteq Nat
    BY ReachedArePrices
  <2> QED BY <2>1
<1> DEFINE v == Min(crossing)
<1>16. v \in crossing /\ \A y \in crossing : v <= y
  <2> HIDE DEF crossing
  <2> QED BY <1>14, <1>15, MinAndMax
<1> HIDE DEF v
<1>17. v <= hi /\ v \in Nat /\ lo \in Nat /\ hi \in Nat
  <2> HIDE DEF crossing
  <2> QED BY <1>6, <1>14, <1>15, <1>16
<1>18. lo <= v
  <2> SUFFICES ASSUME v < lo PROVE FALSE
    BY <1>17
  <2>1. upTo(v) \in SUBSET (kept \ honest) /\ kept \ honest \in SUBSET D
    <3>1. ASSUME NEW i \in upTo(v) PROVE i \in kept \ honest
      <4>1. i \in kept /\ points[i].price <= v /\ points[i].price \in Nat
        BY <1>1, <1>9 DEF KeptUpTo, kept
      <4>2. i \notin honest
        <5> SUFFICES ASSUME i \in honest PROVE FALSE
          OBVIOUS
        <5>1. lo <= points[i].price
          BY <1>6
        <5> QED BY <1>17, <4>1, <5>1
      <4> QED BY <4>1, <4>2
    <3> HIDE DEF upTo
    <3> QED BY <1>9, <3>1
  <2>2. Sum(kept \ honest) = Sum(upTo(v)) + Sum((kept \ honest) \ upTo(v))
        /\ Sum((kept \ honest) \ upTo(v)) \in Nat /\ Sum(upTo(v)) \in Nat
    <3> HIDE DEF upTo, D, Sum
    <3> QED BY <1>10, <2>1
  <2>3. Sum(upTo(v)) >= half
    <3> QED BY <1>16 DEF PricesReached, kept
  <2> DEFINE b == Sum(kept \ honest)
             c == Sum((kept \ honest) \ upTo(v))
             u == Sum(upTo(v))
  <2>4. /\ b \in Nat /\ c \in Nat /\ u \in Nat /\ b = u + c /\ u >= half
        /\ total \in Nat /\ 2 * b < total
    BY <1>11, <2>2, <2>3
  <2> HIDE DEF b, c, u, total, half
  <2> QED BY <1>12, <2>4
<1>19. InternalTwap(points, minVolume)[1] = v
  <2> HIDE DEF crossing
  <2> QED BY <1>4 DEF v
<1> HIDE DEF P
<1>20. v \in lo .. hi
  BY <1>17, <1>18
<1> QED BY <1>19, <1>20 DEF lo, hi, P

(* The bounds of the marker. *)
LEMMA MarkerHolds ==
  ASSUME NEW e \in Nat, NEW internal, internal = Refused \/ internal[1] \in Nat,
         NEW b \in [weight : Nat, clip : Nat, halt : Nat]
  PROVE  LET marker == AdaptiveMarker(e, internal, b) IN
         /\ marker # Invalid =>
             /\ Apart(marker[1], e) <= BpsOf(e, b.clip)
             /\ internal # Refused => Apart(internal[1], e) <= BpsOf(e, b.halt)
         /\ marker = Invalid => internal # Refused
<1> DEFINE clip == BpsOf(e, b.clip)
           w == Min({b.weight, 10000})
           blended == (w * internal[1] + (10000 - w) * e) \div 10000
           marker == AdaptiveMarker(e, internal, b)
           low == Max({0, e - clip})
           high == Min({e + clip, blended})
<1>1. b.weight \in Nat /\ b.clip \in Nat /\ b.halt \in Nat
  OBVIOUS
<1>2. clip \in Nat
  <2> DEFINE x == e * b.clip
  <2>1. x \in Nat
    BY <1>1
  <2> HIDE DEF x
  <2>2. x \div 10000 \in Nat
    BY <2>1
  <2> QED BY <2>2 DEF BpsOf, x
<1>3. marker = IF internal = Refused THEN <<e>>
               ELSE IF Apart(internal[1], e) > BpsOf(e, b.halt) THEN Invalid
               ELSE <<Max({low, high})>>
  BY DEF AdaptiveMarker
<1> HIDE DEF clip, marker, low, high
<1>4. CASE internal = Refused
  <2>1. marker = <<e>> /\ marker # Invalid /\ marker[1] = e
    BY <1>3, <1>4 DEF Invalid
  <2>2. Apart(e, e) <= clip
    BY <1>2 DEF Apart
  <2> QED BY <1>4, <2>1, <2>2 DEF marker, clip
<1>5. CASE internal # Refused
  <2>1. CASE Apart(internal[1], e) > BpsOf(e, b.halt)
    <3>1. marker = Invalid
      BY <1>3, <1>5, <2>1
    <3> QED BY <1>5, <3>1 DEF marker
  <2>2. CASE ~(Apart(internal[1], e) > BpsOf(e, b.halt))
    <3>1. marker = <<Max({low, high})>> /\ marker # Invalid
      BY <1>3, <1>5, <2>2 DEF Invalid
    <3>2. w \in Nat /\ w <= 10000
      <4>1. w = IF b.weight <= 10000 THEN b.weight ELSE 10000
        BY <1>1, LeastOfTwo
      <4> QED BY <1>1, <4>1
    <3>3. blended \in Nat
      <4> HIDE DEF w
      <4> DEFINE x == w * internal[1] + (10000 - w) * e
      <4>1. x \in Nat
        <5>1. w * internal[1] \in Nat
          BY <1>5, <3>2
        <5>2. (10000 - w) * e \in Nat
          BY <3>2
        <5> QED BY <5>1, <5>2
      <4> HIDE DEF x
      <4>2. x \div 10000 \in Nat
        BY <4>1
      <4> QED BY <4>2 DEF x
    <3> HIDE DEF blended
    <3>4. low \in Nat /\ low >= e - clip /\ low <= e
      <4>1. low = IF 0 >= e - clip THEN 0 ELSE e - clip
        <5>1. e - clip \in Int
          BY <1>2
        <5> QED BY <5>1, LeastOfTwo DEF low
      <4> QED BY <1>2, <4>1
    <3>5. high \in Nat /\ high <= e + clip
      <4>1. high = IF e + clip <= blended THEN e + clip ELSE blended
        <5>1. e + clip \in Int /\ blended \in Int
          BY <1>2, <3>3
        <5> QED BY <5>1, LeastOfTwo DEF high
      <4> QED BY <1>2, <3>3, <4>1
    <3>6. Max({low, high}) = IF low >= high THEN low ELSE high
      BY <3>4, <3>5, LeastOfTwo
    <3>7. /\ Max({low, high}) \in Nat
          /\ e - clip <= Max({low, high}) /\ Max({low, high}) <= e + clip
      BY <1>2, <3>4, <3>5, <3>6
    <3>8. Apart(Max({low, high}), e) <= clip
      BY <1>2, <3>7 DEF Apart
    <3>9. Apart(marker[1], e) <= BpsOf(e, b.clip)
      BY <3>1, <3>8 DEF clip
    <3>10. Apart(internal[1], e) <= BpsOf(e, b.halt)
      <4>1. internal[1] \in Nat /\ BpsOf(e, b.halt) \in Int
        <5> DEFINE x == e * b.halt
        <5>1. x \in Nat
          BY <1>1
        <5> HIDE DEF x
        <5>2. x \div 10000 \in Int
          BY <5>1
        <5> QED BY <1>5, <5>2 DEF BpsOf, x
      <4>2. Apart(internal[1], e) \in Int
        BY <4>1 DEF Apart
      <4> QED BY <2>2, <4>1, <4>2
    <3> QED BY <3>1, <3>9, <3>10 DEF marker
  <2> QED BY <2>1, <2>2
<1> QED BY <1>4, <1>5

(* The numbers of tasks are numbers. *)
LEMMA NumbersOfTasks ==
    /\ QuotePrices \subseteq Nat /\ QuoteAmounts \subseteq Nat
    /\ Points \subseteq [price : Nat, volume : Nat] /\ MaxPoints \in Nat
    /\ Blends \subseteq [weight : Nat, clip : Nat, halt : Nat] /\ ExternalPrices \subseteq Nat
    /\ Positions \subseteq [rail : Nat, retained : Nat, stake : Nat] /\ MaxPositions \in Nat
    /\ Reserves \subseteq Nat
BY SettlementAssumption

(* Verdicts on the marker. *)
LEMMA MarkerTask ==
  ASSUME NEW t \in MarkerTasks
  PROVE  /\ t.external \in Nat /\ t.minVolume \in Nat
         /\ t.blend \in [weight : Nat, clip : Nat, halt : Nat]
         /\ \E n \in Nat : t.points \in [1 .. n -> [price : Nat, volume : Nat]]
<1>1. t.points \in SeqOf(Points, MaxPoints) /\ t.minVolume \in {0, 4}
      /\ t.external \in ExternalPrices /\ t.blend \in Blends
  BY DEF MarkerTasks
<1>2. PICK n \in 0 .. MaxPoints : t.points \in [1 .. n -> Points]
  BY <1>1 DEF SeqOf
<1>3. t.points \in [1 .. n -> [price : Nat, volume : Nat]]
  <2>1. Points \subseteq [price : Nat, volume : Nat]
    BY NumbersOfTasks
  <2> QED BY <1>2, <2>1
<1>4. t.external \in Nat /\ t.minVolume \in Nat /\ t.blend \in [weight : Nat, clip : Nat, halt : Nat]
  <2>1. t.minVolume \in {0, 4} /\ t.external \in ExternalPrices /\ t.blend \in Blends
    BY <1>1
  <2>2. t.minVolume \in Nat
    BY <2>1
  <2>3. t.external \in Nat /\ t.blend \in [weight : Nat, clip : Nat, halt : Nat]
    BY <2>1, NumbersOfTasks
  <2> QED BY <2>2, <2>3
<1>5. n \in Nat
  BY <1>2
<1> QED BY <1>3, <1>4, <1>5

(* The verdict on a marker keeps the bounds and resists the few. *)
LEMMA MarkerVerdict ==
  ASSUME NEW t \in MarkerTasks
  PROVE  LET internal == PerformMarker(t).internal
             marker == PerformMarker(t).marker IN
         /\ internal # Refused =>
                \A honest \in SUBSET DOMAIN t.points :
                    LET prices == {t.points[i].price : i \in honest} IN
                    /\ HonestMarket(t.points, honest)
                    /\ Max(prices) - Min(prices) <= BpsOf(Min(prices), TRIM_BPS)
                    => internal[1] \in Min(prices) .. Max(prices)
         /\ marker # Invalid =>
             /\ Apart(marker[1], t.external) <= BpsOf(t.external, t.blend.clip)
             /\ internal # Refused => Apart(internal[1], t.external) <= BpsOf(t.external, t.blend.halt)
         /\ marker = Invalid => internal # Refused
<1> DEFINE internal == InternalTwap(t.points, t.minVolume)
           marker == AdaptiveMarker(t.external, internal, t.blend)
<1>1. PerformMarker(t).internal = internal /\ PerformMarker(t).marker = marker
  BY DEF PerformMarker
<1>2. PICK n \in Nat : t.points \in [1 .. n -> [price : Nat, volume : Nat]]
  BY MarkerTask
<1>3. t.external \in Nat /\ t.minVolume \in Nat /\ t.blend \in [weight : Nat, clip : Nat, halt : Nat]
  BY MarkerTask
<1>4. internal = Refused \/ internal[1] \in Nat
  BY <1>2, <1>3, TwapIsAPrice
<1>5. /\ marker # Invalid =>
          /\ Apart(marker[1], t.external) <= BpsOf(t.external, t.blend.clip)
          /\ internal # Refused => Apart(internal[1], t.external) <= BpsOf(t.external, t.blend.halt)
      /\ marker = Invalid => internal # Refused
  <2> HIDE DEF internal
  <2> QED BY <1>3, <1>4, MarkerHolds
<1>6. ASSUME internal # Refused, NEW honest \in SUBSET DOMAIN t.points, HonestMarket(t.points, honest),
             LET prices == {t.points[i].price : i \in honest}
             IN  Max(prices) - Min(prices) <= BpsOf(Min(prices), TRIM_BPS)
      PROVE  LET prices == {t.points[i].price : i \in honest}
             IN  internal[1] \in Min(prices) .. Max(prices)
  BY <1>2, <1>3, <1>6, MarketResists
<1> HIDE DEF internal, marker
<1> QED BY <1>1, <1>5, <1>6

(* What ends a conversion. *)
LEMMA PhasesEnd ==
  ASSUME NEW t \in PhaseTasks, PerformPhases(t)
  PROVE  /\ \A i \in DOMAIN t.walk : IsTerminal(t.walk[i]) => i = Len(t.walk)
         /\ t.collapsed => ToSet(t.walk) \subseteq {"quote", "settle"}
         /\ Len(t.walk) = (IF t.collapsed THEN 2 ELSE 3) => IsTerminal(Last(t.walk))
<1> DEFINE w == t.walk
<1>1. w \in SeqOf({"quote", "lock", "settle", "refund"}, 4) /\ t.collapsed \in BOOLEAN
  BY DEF PhaseTasks
<1>2. PICK n \in 0 .. 4 : w \in [1 .. n -> {"quote", "lock", "settle", "refund"}]
  BY <1>1 DEF SeqOf
<1>3. DOMAIN w = 1 .. n /\ Len(w) = n /\ n \in Nat
  BY <1>2
<1>4. /\ w # <<>> => w[1] = "quote"
      /\ \A i \in 2 .. n : MayTransition(w[i - 1], w[i], t.collapsed)
  BY <1>3 DEF PerformPhases
<1> HIDE DEF w
<1>5. \A i \in 2 .. n : /\ ~IsTerminal(w[i - 1])
                        /\ w[i] # "quote"
                        /\ w[i - 1] = "lock" => IsTerminal(w[i])
                        /\ t.collapsed => w[i - 1] = "quote" /\ w[i] = "settle"
                        /\ ~t.collapsed => w[i - 1] \in {"quote", "lock"}
                        /\ ~t.collapsed /\ w[i - 1] = "quote" => w[i] = "lock"
  <2> SUFFICES ASSUME NEW i \in 2 .. n
               PROVE  /\ ~IsTerminal(w[i - 1])
                      /\ w[i] # "quote"
                      /\ w[i - 1] = "lock" => IsTerminal(w[i])
                      /\ t.collapsed => w[i - 1] = "quote" /\ w[i] = "settle"
                      /\ ~t.collapsed => w[i - 1] \in {"quote", "lock"}
                      /\ ~t.collapsed /\ w[i - 1] = "quote" => w[i] = "lock"
    OBVIOUS
  <2> DEFINE x == w[i - 1]
             y == w[i]
  <2>1. MayTransition(x, y, t.collapsed)
    BY <1>4
  <2> HIDE DEF x, y
  <2>2. \/ x = "quote" /\ y = "settle" /\ t.collapsed
        \/ x = "quote" /\ y = "lock" /\ ~t.collapsed
        \/ x = "lock" /\ y \in {"settle", "refund"} /\ ~t.collapsed
    BY <2>1 DEF MayTransition
  <2> QED BY <2>2 DEF IsTerminal, x, y
<1>6. n > 0 => w[1] = "quote"
  BY <1>2, <1>4
<1>7. ASSUME NEW i \in 1 .. n, IsTerminal(w[i]) PROVE i = n
  <2> SUFFICES ASSUME i # n PROVE FALSE
    OBVIOUS
  <2>1. i + 1 \in 2 .. n /\ (i + 1) - 1 = i
    BY <1>3
  <2>2. ~IsTerminal(w[i])
    BY <1>5, <2>1
  <2> QED BY <1>7, <2>2
<1>8. ASSUME t.collapsed, NEW i \in 1 .. n PROVE w[i] \in {"quote", "settle"}
  <2>1. CASE i = 1
    BY <1>6, <2>1
  <2>2. CASE i \in 2 .. n
    BY <1>5, <1>8, <2>2
  <2> QED BY <1>3, <2>1, <2>2
<1>9. ASSUME n = (IF t.collapsed THEN 2 ELSE 3) PROVE IsTerminal(w[n])
  <2>1. CASE t.collapsed
    <3>1. n \in 2 .. n /\ n = 2
      BY <1>9, <2>1
    <3>2. w[n] = "settle"
      BY <1>5, <2>1, <3>1
    <3> QED BY <3>2 DEF IsTerminal
  <2>2. CASE ~t.collapsed
    <3>1. n = 3 /\ 2 \in 2 .. n /\ 3 \in 2 .. n /\ n > 0
      BY <1>9, <2>2
    <3>2. w[1] = "quote"
      BY <1>6, <3>1
    <3>3. w[2] = "lock"
      BY <1>5, <2>2, <3>1, <3>2
    <3>4. IsTerminal(w[3])
      <4>1. w[3 - 1] = "lock" => IsTerminal(w[3])
        BY <1>5, <3>1
      <4> QED BY <3>3, <4>1
    <3> QED BY <3>1, <3>4
  <2> QED BY <2>1, <2>2
<1> QED BY <1>3, <1>7, <1>8, <1>9 DEF ToSet, Last, w

(***************************************************************************)
(* The allotment.                                                          *)
(***************************************************************************)
RailPosition == [rail : Nat, retained : Nat, stake : Nat]
ByRail(s) == SortedBy(s, LAMBDA p : p.rail)

(* The positions are listed by rail, the lowest first, each of them once. *)
LEMMA ByRailSorts ==
  ASSUME NEW n \in Nat, NEW s \in [1 .. n -> RailPosition],
         \A i, j \in 1 .. n : i # j => s[i].rail # s[j].rail
  PROVE  /\ ByRail(s) \in [1 .. n -> RailPosition]
         /\ \A i \in 1 .. n : \E j \in 1 .. n : ByRail(s)[i] = s[j]
         /\ \A j \in 1 .. n : \E i \in 1 .. n : ByRail(s)[i] = s[j]
         /\ \A i, j \in 1 .. n : i < j => ByRail(s)[i].rail < ByRail(s)[j].rail
<1> DEFINE k == [i \in 1 .. n |-> s[i].rail]
           p == StableOrder(k)
           b == ByRail(s)
<1>1. \A i \in 1 .. n : s[i] \in RailPosition /\ s[i].rail \in Nat /\ k[i] = s[i].rail
  BY DEF RailPosition
<1>2. k \in [1 .. n -> Int]
  BY <1>1
<1>3. b = [i \in 1 .. n |-> s[p[i]]]
  BY DEF ByRail, SortedBy
<1> HIDE DEF k, b
<1>4. Reorders(p, n) /\ \A i, j \in 1 .. n : i < j => k[p[i]] <= k[p[j]]
  BY <1>2, OrderIsStable
<1> HIDE DEF p
<1>5. /\ \A i \in 1 .. n : p[i] \in 1 .. n
      /\ \A i, j \in 1 .. n : p[i] = p[j] => i = j
      /\ \A v \in 1 .. n : \E i \in 1 .. n : p[i] = v
  BY <1>4 DEF Reorders
<1>6. \A i \in 1 .. n : b[i] = s[p[i]] /\ b[i] \in RailPosition
  BY <1>1, <1>3, <1>5
<1>7. b \in [1 .. n -> RailPosition]
  BY <1>1, <1>3, <1>5
<1>8. ASSUME NEW i \in 1 .. n, NEW j \in 1 .. n, i < j PROVE b[i].rail < b[j].rail
  <2>1. p[i] # p[j] /\ p[i] \in 1 .. n /\ p[j] \in 1 .. n /\ k[p[i]] <= k[p[j]]
    BY <1>4, <1>5, <1>8
  <2>2. s[p[i]].rail # s[p[j]].rail
    BY <2>1
  <2>3. k[p[i]] = s[p[i]].rail /\ k[p[j]] = s[p[j]].rail /\ k[p[i]] \in Nat /\ k[p[j]] \in Nat
    BY <1>1, <2>1
  <2>4. k[p[i]] < k[p[j]]
    BY <2>1, <2>2, <2>3
  <2> QED BY <1>6, <2>3, <2>4
<1>9. \A i \in 1 .. n : \E j \in 1 .. n : b[i] = s[j]
  BY <1>5, <1>6
<1>10. \A j \in 1 .. n : \E i \in 1 .. n : b[i] = s[j]
  <2> SUFFICES ASSUME NEW j \in 1 .. n PROVE \E i \in 1 .. n : b[i] = s[j]
    OBVIOUS
  <2>1. PICK i \in 1 .. n : p[i] = j
    BY <1>5
  <2> QED BY <1>6, <2>1
<1> QED BY <1>7, <1>8, <1>9, <1>10 DEF b

(* The order in which positions are listed makes no difference. *)
LEMMA ByRailEitherWay ==
  ASSUME NEW n \in Nat, NEW s \in [1 .. n -> RailPosition],
         \A i, j \in 1 .. n : i # j => s[i].rail # s[j].rail
  PROVE  ByRail(Reverse(s)) = ByRail(s)
<1> DEFINE r == Reverse(s)
           a == ByRail(s)
           b == ByRail(r)
           x == [i \in 1 .. n |-> a[i].rail]
           y == [i \in 1 .. n |-> b[i].rail]
<1>1. \A i \in 1 .. n : (n - i) + 1 \in 1 .. n /\ r[i] = s[(n - i) + 1]
  BY DEF Reverse
<1>2. r \in [1 .. n -> RailPosition]
  <2>1. r = [i \in 1 .. n |-> s[(n - i) + 1]]
    BY DEF Reverse
  <2> HIDE DEF r
  <2> QED BY <1>1, <2>1
<1> HIDE DEF r
<1>3. \A i, j \in 1 .. n : i # j => r[i].rail # r[j].rail
  <2> SUFFICES ASSUME NEW i \in 1 .. n, NEW j \in 1 .. n, i # j PROVE r[i].rail # r[j].rail
    OBVIOUS
  <2>1. (n - i) + 1 # (n - j) + 1
    OBVIOUS
  <2> QED BY <1>1, <2>1
<1>4. /\ a \in [1 .. n -> RailPosition]
      /\ \A i \in 1 .. n : \E j \in 1 .. n : a[i] = s[j]
      /\ \A j \in 1 .. n : \E i \in 1 .. n : a[i] = s[j]
      /\ \A i, j \in 1 .. n : i < j => a[i].rail < a[j].rail
  BY ByRailSorts
<1>5. /\ b \in [1 .. n -> RailPosition]
      /\ \A i \in 1 .. n : \E j \in 1 .. n : b[i] = r[j]
      /\ \A j \in 1 .. n : \E i \in 1 .. n : b[i] = r[j]
      /\ \A i, j \in 1 .. n : i < j => b[i].rail < b[j].rail
  BY <1>2, <1>3, ByRailSorts
<1> HIDE DEF a, b
<1>6. \A i \in 1 .. n : \E j \in 1 .. n : b[i] = s[j]
  <2> SUFFICES ASSUME NEW i \in 1 .. n PROVE \E j \in 1 .. n : b[i] = s[j]
    OBVIOUS
  <2>1. PICK l \in 1 .. n : b[i] = r[l]
    BY <1>5
  <2> QED BY <1>1, <2>1
<1>7. \A j \in 1 .. n : \E i \in 1 .. n : b[i] = s[j]
  <2> SUFFICES ASSUME NEW j \in 1 .. n PROVE \E i \in 1 .. n : b[i] = s[j]
    OBVIOUS
  <2>1. (n - j) + 1 \in 1 .. n /\ (n - ((n - j) + 1)) + 1 = j
    OBVIOUS
  <2> DEFINE l == (n - j) + 1
  <2>2. r[l] = s[j]
    BY <1>1, <2>1
  <2>3. l \in 1 .. n
    BY <2>1
  <2> HIDE DEF l
  <2>4. PICK i \in 1 .. n : b[i] = r[l]
    BY <1>5, <2>3
  <2> QED BY <2>2, <2>4
<1>8. \A i \in 1 .. n : x[i] = a[i].rail /\ y[i] = b[i].rail /\ x[i] \in Int /\ y[i] \in Int
  BY <1>4, <1>5 DEF RailPosition
<1>9. x \in [1 .. n -> Int] /\ y \in [1 .. n -> Int]
  BY <1>8
<1> HIDE DEF x, y
<1>10. {x[i] : i \in 1 .. n} = {y[i] : i \in 1 .. n}
  <2>1. ASSUME NEW i \in 1 .. n PROVE \E j \in 1 .. n : y[j] = x[i]
    <3>1. PICK l \in 1 .. n : a[i] = s[l]
      BY <1>4
    <3>2. PICK j \in 1 .. n : b[j] = s[l]
      BY <1>7
    <3> QED BY <1>8, <3>1, <3>2
  <2>2. ASSUME NEW i \in 1 .. n PROVE \E j \in 1 .. n : x[j] = y[i]
    <3>1. PICK l \in 1 .. n : b[i] = s[l]
      BY <1>6
    <3>2. PICK j \in 1 .. n : a[j] = s[l]
      BY <1>4
    <3> QED BY <1>8, <3>1, <3>2
  <2>3. \A i \in 1 .. n : x[i] \in {y[j] : j \in 1 .. n} /\ y[i] \in {x[j] : j \in 1 .. n}
    <3> SUFFICES ASSUME NEW i \in 1 .. n
                 PROVE  x[i] \in {y[j] : j \in 1 .. n} /\ y[i] \in {x[j] : j \in 1 .. n}
      OBVIOUS
    <3>1. PICK j \in 1 .. n : y[j] = x[i]
      BY <2>1
    <3>2. PICK l \in 1 .. n : x[l] = y[i]
      BY <2>2
    <3> QED BY <3>1, <3>2
  <2> QED BY <2>3
<1>11. x = y
  <2>1. ASSUME NEW i \in 1 .. n, NEW j \in 1 .. n, i < j PROVE x[i] < x[j]
    <3>1. x[i] = a[i].rail /\ x[j] = a[j].rail
      BY <1>8
    <3>2. a[i].rail < a[j].rail
      BY <1>4, <2>1
    <3> QED BY <3>1, <3>2
  <2>2. ASSUME NEW i \in 1 .. n, NEW j \in 1 .. n, i < j PROVE y[i] < y[j]
    <3>1. y[i] = b[i].rail /\ y[j] = b[j].rail
      BY <1>8
    <3>2. b[i].rail < b[j].rail
      BY <1>5, <2>2
    <3> QED BY <3>1, <3>2
  <2> QED BY <1>9, <1>10, <2>1, <2>2, RisingIsUnique
<1>12. ASSUME NEW i \in 1 .. n PROVE b[i] = a[i]
  <2>1. PICK l \in 1 .. n : a[i] = s[l]
    BY <1>4
  <2>2. PICK m \in 1 .. n : b[i] = s[m]
    BY <1>6
  <2>3. s[l].rail = s[m].rail
    BY <1>8, <1>11, <2>1, <2>2
  <2>4. l = m
    BY <2>3
  <2> QED BY <2>1, <2>2, <2>4
<1>13. b = a
  <2>1. a = [i \in 1 .. n |-> a[i]]
    BY <1>4
  <2>2. b = [i \in 1 .. n |-> b[i]]
    BY <1>5
  <2>3. [i \in 1 .. n |-> b[i]] = [i \in 1 .. n |-> a[i]]
    BY <1>12
  <2> QED BY <2>1, <2>2, <2>3
<1> QED BY <1>13 DEF a, b, r

(* A rail is listed twice when there are fewer rails than positions. *)
LEMMA DuplicatesAreFewer ==
  ASSUME NEW n \in Nat, NEW s \in [1 .. n -> RailPosition]
  PROVE  DuplicateRail(s) = (Cardinality({s[i].rail : i \in DOMAIN s}) < Len(s))
<1> DEFINE D == 1 .. n
           f == [i \in D |-> s[i].rail]
           T == {f[i] : i \in D}
<1>1. DOMAIN s = D /\ Len(s) = n /\ IsFiniteSet(D) /\ Cardinality(D) = n
  BY FS_Interval
<1>2. \A i \in D : f[i] = s[i].rail
  OBVIOUS
<1>3. T = {s[i].rail : i \in DOMAIN s}
  BY <1>1
<1>4. f \in Surjection(D, T)
  <2>1. f \in [D -> T]
    OBVIOUS
  <2>2. \A y \in T : \E i \in D : f[i] = y
    OBVIOUS
  <2> HIDE DEF f, T, D
  <2> QED BY <2>1, <2>2 DEF Surjection
<1> HIDE DEF f, T, D
<1>5. /\ Cardinality(T) \in Nat /\ Cardinality(T) <= n
      /\ Cardinality(T) = n <=> f \in Injection(D, T)
  <2>1. /\ IsFiniteSet(T) /\ Cardinality(T) <= Cardinality(D)
        /\ Cardinality(T) = Cardinality(D) <=> f \in Injection(D, T)
    BY <1>1, <1>4, FS_Surjection
  <2> QED BY <1>1, <2>1, FS_CardinalityType
<1>6. f \in Injection(D, T) <=> \A i, j \in D : f[i] = f[j] => i = j
  BY <1>4 DEF Injection, Surjection, IsInjective
<1>7. DuplicateRail(s) <=> ~(\A i, j \in D : f[i] = f[j] => i = j)
  BY <1>1, <1>2 DEF DuplicateRail
<1>8. DuplicateRail(s) <=> Cardinality(T) < n
  BY <1>5, <1>6, <1>7
<1>9. DuplicateRail(s) \in BOOLEAN
  BY DEF DuplicateRail
<1> QED BY <1>1, <1>3, <1>8, <1>9

(* What the rails are allotted. *)
CapacityOf(p) == Capacity(p.retained, p.stake)
CapacitiesOf(s) == [i \in DOMAIN s |-> CapacityOf(s[i])]
SharesOf(s, reserve) ==
    [i \in DOMAIN s |-> Scaled(CapacityOf(s[i]), reserve, TotalOf(CapacitiesOf(s)))]

(* An allotment by the capacities of the positions and their shares. *)
LEMMA AllotIs ==
  ASSUME NEW input
  PROVE  LET s == ByRail(input.positions)
             plan == Allot(input) IN
         /\ plan.reserve = input.reserve
         /\ plan.tranches = [i \in DOMAIN s |-> [rail |-> s[i].rail, capacity |-> CapacitiesOf(s)[i],
                                                 sats |-> SharesOf(s, input.reserve)[i]]]
         /\ plan.unallocated = Max({0, input.reserve - TotalOf(SharesOf(s, input.reserve))})
<1> DEFINE s == ByRail(input.positions)
           caps == CapacitiesOf(s)
           total == TotalOf(caps)
           shares == SharesOf(s, input.reserve)
<1>1. caps = [i \in DOMAIN s |-> Capacity(s[i].retained, s[i].stake)]
  BY DEF CapacitiesOf, CapacityOf
<1>2. shares = [i \in DOMAIN s |-> Scaled(Capacity(s[i].retained, s[i].stake), input.reserve, total)]
  BY DEF SharesOf, CapacityOf
<1>3. Allot(input) =
        [input |-> AllotmentInputHash(input), epoch |-> input.epoch, reserve |-> input.reserve,
         tranches |-> [i \in DOMAIN s |->
             [rail |-> s[i].rail, capacity |-> Capacity(s[i].retained, s[i].stake),
              sats |-> Scaled(Capacity(s[i].retained, s[i].stake), input.reserve,
                              TotalOf([j \in DOMAIN s |-> Capacity(s[j].retained, s[j].stake)]))]],
         unallocated |-> Max({0, input.reserve - TotalOf([i \in DOMAIN s |->
             Scaled(Capacity(s[i].retained, s[i].stake), input.reserve,
                    TotalOf([j \in DOMAIN s |-> Capacity(s[j].retained, s[j].stake)]))])})]
  BY DEF Allot, ByRail
<1>4. \A i \in DOMAIN s : /\ caps[i] = Capacity(s[i].retained, s[i].stake)
                          /\ shares[i] = Scaled(Capacity(s[i].retained, s[i].stake), input.reserve, total)
  BY <1>1, <1>2
<1> HIDE DEF s, caps, shares, total
<1>5. Allot(input).tranches = [i \in DOMAIN s |-> [rail |-> s[i].rail, capacity |-> caps[i],
                                                   sats |-> shares[i]]]
  <2>1. total = TotalOf([j \in DOMAIN s |-> Capacity(s[j].retained, s[j].stake)])
    BY <1>1 DEF total
  <2>2. Allot(input).tranches =
          [i \in DOMAIN s |->
             [rail |-> s[i].rail, capacity |-> Capacity(s[i].retained, s[i].stake),
              sats |-> Scaled(Capacity(s[i].retained, s[i].stake), input.reserve, total)]]
    BY <1>3, <2>1
  <2> QED BY <1>4, <2>2
<1>6. Allot(input).unallocated = Max({0, input.reserve - TotalOf(shares)})
  BY <1>1, <1>2, <1>3 DEF total
<1>7. Allot(input).reserve = input.reserve
  BY <1>3
<1> QED BY <1>5, <1>6, <1>7 DEF s, caps, shares

(* The shares fit in the reserve and leave less than a unit for each. *)
LEMMA SharesFit ==
  ASSUME NEW n \in Nat, NEW s \in [1 .. n -> RailPosition], NEW reserve \in Nat
  PROVE  LET caps == CapacitiesOf(s)
             shares == SharesOf(s, reserve) IN
         /\ \A i \in 1 .. n : caps[i] \in Nat /\ shares[i] \in Nat /\ shares[i] <= caps[i]
         /\ TotalOf(shares) \in Nat /\ TotalOf(shares) <= reserve
         /\ \A i \in 1 .. n : shares[i] < caps[i] => reserve - TotalOf(shares) < n
<1> DEFINE D == 1 .. n
           caps == CapacitiesOf(s)
           total == TotalOf(caps)
           shares == SharesOf(s, reserve)
           given == TotalOf(shares)
<1>1. IsFiniteSet(D) /\ Cardinality(D) = n /\ DOMAIN s = D
  BY FS_Interval
<1>2. \A i \in D : CapacityOf(s[i]) \in Nat
  <2> SUFFICES ASSUME NEW i \in D PROVE CapacityOf(s[i]) \in Nat
    OBVIOUS
  <2> DEFINE x == s[i].retained + s[i].stake
  <2>1. x \in Nat
    BY DEF RailPosition
  <2> HIDE DEF x
  <2>2. x \div 2 \in Nat
    BY <2>1
  <2> QED BY <2>2 DEF CapacityOf, Capacity, x
<1>3. /\ DOMAIN caps = D /\ DOMAIN shares = D
      /\ \A i \in D : caps[i] \in Nat /\ shares[i] = Scaled(caps[i], reserve, total)
  BY <1>1, <1>2 DEF CapacitiesOf, SharesOf
<1> HIDE DEF caps, shares, D
<1>4. total = SumFunctionOnSet(caps, D) /\ given = SumFunctionOnSet(shares, D)
  BY <1>3 DEF TotalOf
<1>5. total \in Nat
  <2>1. D \in SUBSET D
    OBVIOUS
  <2>2. \A i \in D : caps[i] \in Nat
    BY <1>3
  <2>3. SumFunctionOnSet(caps, D) \in Nat
    BY <1>1, <2>1, <2>2, SumOfPart
  <2> HIDE DEF total
  <2> QED BY <1>4, <2>3
<1> HIDE DEF total, given
<1>6. CASE total <= reserve \/ total = 0
  <2>1. \A i \in D : shares[i] = caps[i]
    BY <1>3, <1>6 DEF Scaled
  <2>2. given = total
    <3>1. \A i \in D : shares[i] = caps[i] /\ caps[i] \in Int
      BY <1>3, <2>1
    <3>2. SumFunctionOnSet(shares, D) = SumFunctionOnSet(caps, D)
      BY <1>1, <3>1, SumAgrees
    <3> QED BY <1>4, <3>2
  <2>3. \A i \in D : caps[i] \in Nat /\ shares[i] \in Nat /\ shares[i] <= caps[i] /\ ~(shares[i] < caps[i])
    BY <1>3, <2>1
  <2> QED BY <1>5, <1>6, <2>2, <2>3 DEF caps, shares, given, D
<1>7. CASE ~(total <= reserve \/ total = 0)
  <2>1. total \in Nat \ {0} /\ reserve < total
    BY <1>5, <1>7
  <2>2. \A i \in D : /\ shares[i] \in Nat
                     /\ total * shares[i] <= reserve * caps[i]
                     /\ reserve * caps[i] <= total * shares[i] + (total - 1)
                     /\ shares[i] <= caps[i]
    <3> SUFFICES ASSUME NEW i \in D
                 PROVE  /\ shares[i] \in Nat
                        /\ total * shares[i] <= reserve * caps[i]
                        /\ reserve * caps[i] <= total * shares[i] + (total - 1)
                        /\ shares[i] <= caps[i]
      OBVIOUS
    <3> DEFINE c == caps[i]
               q == (c * reserve) \div total
    <3>1. c \in Nat /\ shares[i] = q
      BY <1>3, <1>7 DEF Scaled
    <3> HIDE DEF c
    <3>2. c * reserve \in Nat /\ c * reserve = reserve * c
      BY <3>1
    <3>3. q \in Nat /\ q * total <= c * reserve /\ c * reserve < (q + 1) * total
      BY <2>1, <3>2, FloorOf
    <3> HIDE DEF q
    <3>4. q * total = total * q /\ (q + 1) * total = total * q + total /\ total * q \in Nat
      BY <2>1, <3>3
    <3>5. total * q <= reserve * c /\ reserve * c <= total * q + (total - 1)
      <4> DEFINE u == total * q
                 v == reserve * c
      <4>1. u \in Nat /\ v \in Nat /\ u <= v /\ v < u + total
        BY <3>2, <3>3, <3>4
      <4> HIDE DEF u, v
      <4>2. u <= v /\ v <= u + (total - 1)
        BY <2>1, <4>1
      <4> QED BY <4>2 DEF u, v
    <3>6. q <= c
      <4> SUFFICES ASSUME q > c PROVE FALSE
        BY <3>1, <3>3
      <4>1. PICK k \in Nat : q = c + 1 + k
        BY <3>1, <3>3
      <4>2. q * total = c * total + total + k * total /\ k * total \in Nat /\ c * total \in Nat
        BY <2>1, <3>1, <4>1
      <4>3. c * total >= c * reserve
        BY <2>1, <3>1
      <4> QED BY <2>1, <3>2, <3>3, <4>2, <4>3
    <3> QED BY <3>1, <3>3, <3>5, <3>6 DEF c
  <2>3. given \in Nat
    <3>1. D \in SUBSET D /\ \A i \in D : shares[i] \in Nat
      BY <2>2
    <3> QED BY <1>1, <1>4, <3>1, SumOfPart
  <2>4. total * given <= reserve * total /\ reserve * total <= total * given + (total - 1) * n
    <3>1. total \in Nat /\ total - 1 \in Nat
      BY <2>1
    <3>2. \A i \in D : shares[i] \in Int /\ caps[i] \in Int
      BY <1>3, <2>2
    <3>3. /\ total * SumFunctionOnSet(shares, D) <= reserve * SumFunctionOnSet(caps, D)
          /\ reserve * SumFunctionOnSet(caps, D)
                <= total * SumFunctionOnSet(shares, D) + (total - 1) * Cardinality(D)
      BY <1>1, <2>2, <3>1, <3>2, SumInProportion
    <3> QED BY <1>1, <1>4, <3>3
  <2>5. given <= reserve
    <3> SUFFICES ASSUME given > reserve PROVE FALSE
      BY <2>3
    <3>1. PICK k \in Nat : given = reserve + 1 + k
      BY <2>3
    <3>2. total * given = total * reserve + total + total * k /\ total * k \in Nat
          /\ total * reserve = reserve * total /\ total * reserve \in Nat
      BY <2>1, <3>1
    <3> QED BY <2>1, <2>4, <3>2
  <2>6. n > 0 => reserve - given < n
    <3> SUFFICES ASSUME n > 0, reserve - given >= n PROVE FALSE
      BY <2>3
    <3>1. PICK k \in Nat : reserve = given + n + k
      <4>1. (reserve - given) - n \in Nat /\ reserve = given + n + ((reserve - given) - n)
        BY <2>3
      <4> QED BY <4>1
    <3>2. reserve * total = total * given + total * n + total * k /\ total * k \in Nat
          /\ (total - 1) * n = total * n - n /\ total * n \in Nat /\ total * given \in Nat
      BY <2>1, <2>3, <3>1
    <3> QED BY <2>1, <2>4, <3>2
  <2>7. \A i \in D : shares[i] < caps[i] => n > 0
    BY DEF D
  <2> QED BY <1>3, <2>2, <2>3, <2>5, <2>6, <2>7 DEF caps, shares, given, D
<1> QED BY <1>6, <1>7

(* Verdicts on the allotment. *)
LEMMA AllotVerdict ==
  ASSUME NEW t \in AllotTasks
  PROVE  LET v == PerformAllot(t) IN
         /\ v.refused = (Cardinality({t.positions[i].rail : i \in DOMAIN t.positions}) < Len(t.positions))
         /\ ~v.refused =>
             LET plan == v.plan
                 allotted == TotalOf([i \in DOMAIN plan.tranches |-> plan.tranches[i].sats]) IN
             /\ allotted + plan.unallocated = plan.reserve
             /\ \A i \in DOMAIN plan.tranches :
                 /\ plan.tranches[i].sats <= plan.tranches[i].capacity
                 /\ plan.tranches[i].sats < plan.tranches[i].capacity =>
                     plan.unallocated < Len(plan.tranches)
             /\ v.otherWay = PlanHash(plan)
<1> DEFINE p == t.positions
           v == PerformAllot(t)
           input == AllotInput(p, t)
           plan == Allot(input)
<1>1. /\ t.reserve \in Nat
      /\ \E n \in Nat : p \in [1 .. n -> RailPosition]
  <2>1. p \in SeqOf(Positions, MaxPositions) /\ t.reserve \in Reserves
    BY DEF AllotTasks
  <2>2. PICK n \in 0 .. MaxPositions : p \in [1 .. n -> Positions]
    BY <2>1 DEF SeqOf
  <2>3. Positions \subseteq RailPosition /\ Reserves \subseteq Nat
    BY NumbersOfTasks DEF RailPosition
  <2>4. n \in Nat /\ p \in [1 .. n -> RailPosition]
    BY <2>2, <2>3
  <2> QED BY <2>1, <2>3, <2>4
<1>2. PICK n \in Nat : p \in [1 .. n -> RailPosition]
  BY <1>1
<1>3. DuplicateRail(p) = (Cardinality({p[i].rail : i \in DOMAIN p}) < Len(p))
  <2> HIDE DEF p
  <2> QED BY <1>2, DuplicatesAreFewer
<1>4. v = IF DuplicateRail(p) THEN [refused |-> TRUE]
          ELSE [refused |-> FALSE, plan |-> plan, otherWay |-> PlanHash(Allot(AllotInput(Reverse(p), t)))]
  BY DEF PerformAllot
<1>5. DuplicateRail(p) \in BOOLEAN
  BY DEF DuplicateRail
<1>6. v.refused = DuplicateRail(p)
  <2> HIDE DEF p, v, plan
  <2>1. CASE DuplicateRail(p)
    BY <1>4, <2>1
  <2>2. CASE ~DuplicateRail(p)
    BY <1>4, <1>5, <2>2
  <2> QED BY <2>1, <2>2
<1>7. ASSUME ~DuplicateRail(p)
      PROVE  /\ TotalOf([i \in DOMAIN plan.tranches |-> plan.tranches[i].sats]) + plan.unallocated
                    = plan.reserve
             /\ \A i \in DOMAIN plan.tranches :
                 /\ plan.tranches[i].sats <= plan.tranches[i].capacity
                 /\ plan.tranches[i].sats < plan.tranches[i].capacity =>
                     plan.unallocated < Len(plan.tranches)
             /\ v.otherWay = PlanHash(plan) /\ v.plan = plan
  <2> DEFINE s == ByRail(p)
             caps == CapacitiesOf(s)
             shares == SharesOf(s, t.reserve)
  <2>1. /\ DOMAIN p = 1 .. n
        /\ \A i, j \in 1 .. n : i # j => p[i].rail # p[j].rail
    <3>1. DOMAIN p = 1 .. n
      BY <1>2
    <3> HIDE DEF p
    <3> QED BY <1>7, <3>1 DEF DuplicateRail
  <2>2. input.positions = p /\ input.reserve = t.reserve
    BY DEF AllotInput
  <2>3. /\ plan.reserve = t.reserve
        /\ plan.tranches = [i \in DOMAIN s |-> [rail |-> s[i].rail, capacity |-> caps[i],
                                                sats |-> shares[i]]]
        /\ plan.unallocated = Max({0, t.reserve - TotalOf(shares)})
    <3> HIDE DEF p
    <3>1. /\ plan.reserve = input.reserve
          /\ plan.tranches = [i \in DOMAIN ByRail(input.positions) |->
                [rail |-> ByRail(input.positions)[i].rail,
                 capacity |-> CapacitiesOf(ByRail(input.positions))[i],
                 sats |-> SharesOf(ByRail(input.positions), input.reserve)[i]]]
          /\ plan.unallocated =
                Max({0, input.reserve - TotalOf(SharesOf(ByRail(input.positions), input.reserve))})
      BY AllotIs
    <3> HIDE DEF plan, input
    <3> QED BY <2>2, <3>1
  <2> HIDE DEF p, plan, v
  <2>4. s \in [1 .. n -> RailPosition]
    BY <1>2, <2>1, ByRailSorts
  <2>5. ByRail(Reverse(p)) = s
    BY <1>2, <2>1, ByRailEitherWay
  <2> HIDE DEF s
  <2>6. /\ \A i \in 1 .. n : caps[i] \in Nat /\ shares[i] \in Nat /\ shares[i] <= caps[i]
        /\ TotalOf(shares) \in Nat /\ TotalOf(shares) <= t.reserve
        /\ \A i \in 1 .. n : shares[i] < caps[i] => t.reserve - TotalOf(shares) < n
    BY <1>1, <2>4, SharesFit
  <2>7. DOMAIN s = 1 .. n /\ DOMAIN shares = 1 .. n /\ shares = [i \in 1 .. n |-> shares[i]]
    BY <2>4 DEF SharesOf
  <2> HIDE DEF caps, shares
  <2>8. /\ DOMAIN plan.tranches = 1 .. n /\ Len(plan.tranches) = n
        /\ \A i \in 1 .. n : plan.tranches[i].sats = shares[i] /\ plan.tranches[i].capacity = caps[i]
    BY <2>3, <2>7
  <2>9. [i \in DOMAIN plan.tranches |-> plan.tranches[i].sats] = shares
    BY <2>7, <2>8
  <2>10. plan.unallocated = t.reserve - TotalOf(shares)
    <3>1. t.reserve - TotalOf(shares) \in Int /\ t.reserve - TotalOf(shares) >= 0
      BY <1>1, <2>6
    <3> QED BY <2>3, <3>1, FromZero
  <2>11. TotalOf([i \in DOMAIN plan.tranches |-> plan.tranches[i].sats]) + plan.unallocated = plan.reserve
    BY <1>1, <2>3, <2>6, <2>9, <2>10
  <2>12. \A i \in DOMAIN plan.tranches :
                 /\ plan.tranches[i].sats <= plan.tranches[i].capacity
                 /\ plan.tranches[i].sats < plan.tranches[i].capacity =>
                     plan.unallocated < Len(plan.tranches)
    BY <2>6, <2>8, <2>10
  <2>13. Allot(AllotInput(Reverse(p), t)) = plan
    <3> DEFINE other == AllotInput(Reverse(p), t)
    <3>1. other.positions = Reverse(p) /\ other.reserve = input.reserve /\ other.epoch = input.epoch
      BY DEF AllotInput
    <3>2. ByRail(other.positions) = ByRail(input.positions)
      BY <2>2, <2>5, <3>1 DEF s
    <3> HIDE DEF other, input
    <3>3. AllotmentInputHash(other) = AllotmentInputHash(input)
      BY <3>1, <3>2 DEF AllotmentInputHash, ByRail
    <3>4. Allot(other) = Allot(input)
      BY <3>1, <3>2, <3>3 DEF Allot, ByRail
    <3> QED BY <3>4 DEF plan, other
  <2>14. v = [refused |-> FALSE, plan |-> plan, otherWay |-> PlanHash(plan)]
    BY <1>4, <1>7, <2>13
  <2>15. v.plan = plan /\ v.otherWay = PlanHash(plan)
    BY <2>14
  <2> QED BY <2>11, <2>12, <2>15
<1> HIDE DEF v, plan, p
<1>8. CASE DuplicateRail(p)
  BY <1>3, <1>6, <1>8 DEF v, p
<1>9. CASE ~DuplicateRail(p)
  BY <1>3, <1>6, <1>7, <1>9 DEF v, p
<1> QED BY <1>5, <1>8, <1>9

(***************************************************************************)
(* Encodings.                                                              *)
(***************************************************************************)
(* The weights are defined from the one before. *)
LEMMA WeightIs == Weight = [k \in 0 .. 8 |-> IF k = 0 THEN 1 ELSE Byte * Weight[k - 1]]
<1> DEFINE w1 == Byte
           w2 == Byte * w1
           w3 == Byte * w2
           w4 == Byte * w3
           w5 == Byte * w4
           w6 == Byte * w5
           w7 == Byte * w6
           w8 == Byte * w7
           F(f) == [k \in 0 .. 8 |-> IF k = 0 THEN 1 ELSE Byte * f[k - 1]]
           g == [k \in 0 .. 8 |-> IF k = 0 THEN 1
                                  ELSE IF k = 1 THEN w1 ELSE IF k = 2 THEN w2
                                  ELSE IF k = 3 THEN w3 ELSE IF k = 4 THEN w4
                                  ELSE IF k = 5 THEN w5 ELSE IF k = 6 THEN w6
                                  ELSE IF k = 7 THEN w7 ELSE w8]
<1>1. Byte * 1 = Byte
  BY WireAssumption
<1> HIDE DEF w1, w2, w3, w4, w5, w6, w7, w8
<1>2. /\ g[0] = 1 /\ g[1] = w1 /\ g[2] = w2 /\ g[3] = w3 /\ g[4] = w4
      /\ g[5] = w5 /\ g[6] = w6 /\ g[7] = w7 /\ g[8] = w8
      /\ g = [k \in 0 .. 8 |-> g[k]]
  OBVIOUS
<1> HIDE DEF g
<1>3. \A k \in 0 .. 8 : g[k] = IF k = 0 THEN 1 ELSE Byte * g[k - 1]
  <2> SUFFICES ASSUME NEW k \in 0 .. 8 PROVE g[k] = IF k = 0 THEN 1 ELSE Byte * g[k - 1]
    OBVIOUS
  <2>1. CASE k = 0
    BY <1>2, <2>1
  <2>2. CASE k = 1
    <3>1. k - 1 = 0
      BY <2>2
    <3> QED BY <1>1, <1>2, <2>2, <3>1 DEF w1
  <2>3. CASE k = 2
    <3>1. k - 1 = 1
      BY <2>3
    <3> QED BY <1>2, <2>3, <3>1 DEF w2
  <2>4. CASE k = 3
    <3>1. k - 1 = 2
      BY <2>4
    <3> QED BY <1>2, <2>4, <3>1 DEF w3
  <2>5. CASE k = 4
    <3>1. k - 1 = 3
      BY <2>5
    <3> QED BY <1>2, <2>5, <3>1 DEF w4
  <2>6. CASE k = 5
    <3>1. k - 1 = 4
      BY <2>6
    <3> QED BY <1>2, <2>6, <3>1 DEF w5
  <2>7. CASE k = 6
    <3>1. k - 1 = 5
      BY <2>7
    <3> QED BY <1>2, <2>7, <3>1 DEF w6
  <2>8. CASE k = 7
    <3>1. k - 1 = 6
      BY <2>8
    <3> QED BY <1>2, <2>8, <3>1 DEF w7
  <2>9. CASE k = 8
    <3>1. k - 1 = 7
      BY <2>9
    <3> QED BY <1>2, <2>9, <3>1 DEF w8
  <2> QED BY <2>1, <2>2, <2>3, <2>4, <2>5, <2>6, <2>7, <2>8, <2>9
<1>4. g = F(g)
  BY <1>2, <1>3
<1>5. \E f : f = F(f)
  BY <1>4
<1>6. Weight = CHOOSE f : f = F(f)
  BY DEF Weight
<1> HIDE DEF F
<1>7. Weight = F(Weight)
  BY <1>5, <1>6
<1> QED BY <1>7 DEF F

(* The weights are positive, and all but the first at least the first byte's. *)
LEMMA WeightFacts ==
  /\ \A k \in 0 .. 8 : Weight[k] \in Nat \ {0}
  /\ Weight[0] = 1 /\ Weight[1] = Byte /\ Weight[2] = Byte * Byte
  /\ \A k \in 1 .. 8 : Weight[k] >= Byte
<1>1. Byte \in Nat \ {0} /\ Byte * 1 = Byte
  BY WireAssumption
<1>2. Weight[0] = 1 /\ \A k \in 1 .. 8 : Weight[k] = Byte * Weight[k - 1]
  <2>1. \A k \in 0 .. 8 : Weight[k] = IF k = 0 THEN 1 ELSE Byte * Weight[k - 1]
    <3> DEFINE W == Weight
    <3>1. W = [k \in 0 .. 8 |-> IF k = 0 THEN 1 ELSE Byte * W[k - 1]]
      BY WeightIs
    <3> HIDE DEF W
    <3>2. \A k \in 0 .. 8 : W[k] = IF k = 0 THEN 1 ELSE Byte * W[k - 1]
      BY <3>1
    <3> QED BY <3>2 DEF W
  <2> QED BY <2>1
<1> DEFINE Good == {k \in 0 .. 8 : Weight[k] \in Nat \ {0}}
<1>3. 0 \in Good
  BY <1>2
<1>4. ASSUME NEW k \in 1 .. 8, k - 1 \in Good PROVE k \in Good
  <2> DEFINE x == Weight[k - 1]
  <2>1. x \in Nat \ {0} /\ Weight[k] = Byte * x
    BY <1>2, <1>4
  <2> HIDE DEF x
  <2>2. Byte * x \in Nat /\ Byte * x # 0
    BY <1>1, <2>1
  <2> QED BY <2>1, <2>2
<1>5. \A k \in 0 .. 8 : k \in Good
  <2> HIDE DEF Good
  <2> QED BY <1>3, <1>4, IntervalInduction
<1>6. Weight[1] = Byte /\ Weight[2] = Byte * Byte
  <2>1. 1 \in 1 .. 8 /\ 2 \in 1 .. 8 /\ 1 - 1 = 0 /\ 2 - 1 = 1
    OBVIOUS
  <2> QED BY <1>1, <1>2, <2>1
<1>7. ASSUME NEW k \in 1 .. 8 PROVE Weight[k] >= Byte
  <2> DEFINE x == Weight[k - 1]
  <2>1. k - 1 \in 0 .. 8
    OBVIOUS
  <2>2. x \in Nat \ {0} /\ Weight[k] = Byte * x
    BY <1>2, <1>5, <2>1
  <2> HIDE DEF x
  <2>3. Byte * x >= Byte
    BY <1>1, <2>2
  <2> QED BY <2>2, <2>3
<1> QED BY <1>2, <1>5, <1>6, <1>7

(* What is written of a number is a sequence of numbers. *)
LEMMA BytesAreNumbers ==
  ASSUME NEW v \in Int, NEW w \in 0 .. 8
  PROVE  BigEndian(v, w) \in Seq(Int) /\ Len(BigEndian(v, w)) = w
<1>1. \A i \in 1 .. w : (v \div Weight[w - i]) % Byte \in Int
  <2> SUFFICES ASSUME NEW i \in 1 .. w PROVE (v \div Weight[w - i]) % Byte \in Int
    OBVIOUS
  <2> DEFINE x == Weight[w - i]
  <2>1. w - i \in 0 .. 8
    OBVIOUS
  <2>2. x \in Nat \ {0} /\ Byte \in Nat \ {0}
    BY <2>1, WeightFacts, WireAssumption
  <2> HIDE DEF x
  <2>3. v \div x \in Int
    BY <2>2
  <2>4. (v \div x) % Byte \in Int
    BY <2>2, <2>3
  <2> QED BY <2>4 DEF x
<1> QED BY <1>1 DEF BigEndian

(* Two bytes tell the two fees apart. *)
LEMMA U16Differs ==
  ASSUME NEW v \in Nat \ {0}, v < Weight[2]
  PROVE  U16(v) # U16(0)
<1> SUFFICES ASSUME U16(v) = U16(0) PROVE FALSE
  OBVIOUS
<1>1. Byte \in Nat /\ Byte >= 8 /\ v < Byte * Byte
  BY WireAssumption, WeightFacts
<1>2. \A x \in Nat : U16(x)[1] = (x \div Byte) % Byte /\ U16(x)[2] = (x \div 1) % Byte
  <2>1. \A x \in Nat : U16(x) = [i \in 1 .. 2 |-> (x \div Weight[2 - i]) % Byte]
    BY DEF U16, BigEndian
  <2>2. 1 \in 1 .. 2 /\ 2 \in 1 .. 2 /\ 2 - 1 = 1 /\ 2 - 2 = 0
    OBVIOUS
  <2> QED BY <2>1, <2>2, WeightFacts
<1> DEFINE q == v \div Byte
<1>3. q \in Nat /\ q * Byte <= v /\ v < (q + 1) * Byte
  BY <1>1, FloorOf
<1>4. v \div 1 = v /\ 0 \div 1 = 0 /\ 0 \div Byte = 0 /\ 0 % Byte = 0
  BY <1>1
<1>5. q % Byte = 0 /\ v % Byte = 0
  BY <1>2, <1>4
<1> HIDE DEF q
<1>6. q < Byte
  <2> SUFFICES ASSUME q >= Byte PROVE FALSE
    BY <1>1, <1>3
  <2>1. q * Byte >= Byte * Byte
    BY <1>1, <1>3
  <2> QED BY <1>1, <1>3, <2>1
<1>7. q = 0
  BY <1>1, <1>3, <1>5, <1>6
<1>8. v < Byte
  BY <1>1, <1>3, <1>7
<1>9. v % Byte = v
  BY <1>1, <1>8
<1> QED BY <1>5, <1>9

(* Two sequences joined. *)
LEMMA FlattenTwo ==
  ASSUME NEW s, s = [i \in 1 .. 2 |-> s[i]]
  PROVE  FlattenSeq(s) = s[1] \o s[2]
<1> DEFINE F(f) == [i \in 1 .. Len(s) |-> IF i = 1 THEN s[i] ELSE f[i - 1] \o s[i]]
           g == [i \in 1 .. 2 |-> IF i = 1 THEN s[1] ELSE s[1] \o s[2]]
           c == CHOOSE f : f = F(f)
<1>1. Len(s) = 2
  <2>1. DOMAIN s = 1 .. 2
    OBVIOUS
  <2> DEFINE S == {s[i] : i \in 1 .. 2}
  <2>2. s \in [1 .. 2 -> S]
    OBVIOUS
  <2> HIDE DEF S
  <2> QED BY <2>1, <2>2
<1>2. g[1] = s[1] /\ g[2] = s[1] \o s[2] /\ g = [i \in 1 .. 2 |-> g[i]]
  OBVIOUS
<1> HIDE DEF g
<1>3. g = F(g)
  <2>1. ASSUME NEW i \in 1 .. 2 PROVE g[i] = IF i = 1 THEN s[i] ELSE g[i - 1] \o s[i]
    <3>1. CASE i = 1
      BY <1>2, <3>1
    <3>2. CASE i = 2
      <4>1. i - 1 = 1
        BY <3>2
      <4> QED BY <1>2, <3>2, <4>1
    <3> QED BY <3>1, <3>2
  <2> QED BY <1>1, <1>2, <2>1
<1>4. \E f : f = F(f)
  BY <1>3
<1>5. FlattenSeq(s) = c[Len(s)]
  BY <1>1 DEF FlattenSeq
<1>6. c = F(c)
  <2> HIDE DEF F
  <2> QED BY <1>4
<1> HIDE DEF c
<1>7. c[1] = s[1] /\ c[2] = c[1] \o s[2]
  <2>1. \A i \in 1 .. 2 : c[i] = IF i = 1 THEN s[i] ELSE c[i - 1] \o s[i]
    BY <1>1, <1>6
  <2>2. 2 - 1 = 1 /\ 1 \in 1 .. 2 /\ 2 \in 1 .. 2
    OBVIOUS
  <2> QED BY <2>1, <2>2
<1> QED BY <1>1, <1>5, <1>7

(* One sequence of numbers begins with another. *)
Begins(a, b) ==
    /\ a \in Seq(Int) /\ b \in Seq(Int) /\ Len(a) <= Len(b)
    /\ \A i \in 1 .. Len(a) : b[i] = a[i]

(* What a sequence begins with it still begins with when it grows. *)
LEMMA BeginsOn ==
  ASSUME NEW a, NEW b, Begins(a, b), NEW c \in Seq(Int)
  PROVE  Begins(a, b \o c)
<1>1. a \in Seq(Int) /\ b \in Seq(Int) /\ Len(a) <= Len(b) /\ Len(a) \in Nat /\ Len(b) \in Nat
      /\ \A i \in 1 .. Len(a) : b[i] = a[i]
  BY DEF Begins
<1>2. b \o c \in Seq(Int) /\ Len(b \o c) = Len(b) + Len(c) /\ Len(c) \in Nat
  BY <1>1
<1>3. \A i \in 1 .. Len(b) : (b \o c)[i] = b[i]
  BY <1>1
<1>4. \A i \in 1 .. Len(a) : (b \o c)[i] = a[i]
  BY <1>1, <1>3
<1> QED BY <1>1, <1>2, <1>4 DEF Begins

(* Where to find what comes after the head. *)
LEMMA BeginsAt ==
  ASSUME NEW h \in Seq(Int), NEW u \in Seq(Int), NEW e, Begins(h \o u, e), NEW i \in 1 .. Len(u)
  PROVE  e[Len(h) + i] = u[i]
<1>1. Len(h \o u) = Len(h) + Len(u) /\ Len(h) \in Nat /\ Len(u) \in Nat
  OBVIOUS
<1>2. (h \o u)[Len(h) + i] = u[i]
  OBVIOUS
<1>3. Len(h) + i \in 1 .. Len(h \o u)
  BY <1>1
<1> QED BY <1>2, <1>3 DEF Begins

(* The manifest of the runs with another fee. *)
RailOf(s) ==
    [version |-> 1, direction |-> 1, asset |-> [i \in 1 .. KeyLen |-> 1],
     oracle |-> [class |-> "none"], settle |-> 0, maxSize |-> 120, term |-> 5,
     retain |-> 30, service |-> s, fixed |-> 1, devBound |-> 50, validity |-> 6,
     window |-> 6, refundDelta |-> 0, stake |-> 9, slash |-> <<>>,
     hook |-> [i \in 1 .. KeyLen |-> 0], escape |-> [class |-> "none"],
     tiers |-> << <<1, 2>>, <<3, 2>> >>]

(* The manifest that these knobs make. *)
LEMMA RailOfIs ==
  ASSUME NEW p,
         p.asset = [i \in 1 .. KeyLen |-> 1] /\ p.maxSize = 120 /\ p.term = 5 /\ p.retain = 30,
         p.fixed = 1 /\ p.devBound = 50 /\ p.validity = 6 /\ p.stake = 9 /\ p.slash = <<>>
  PROVE  Rail0Manifest(p)[1] = RailOf(p.service)
<1>1. /\ Directions.mint = 1 /\ Primitives.atomicSwap = 0
      /\ Transitions.settle = 1 /\ Transitions.dispute = 3 /\ Tiers.anyoneCanAct = 2
  BY DEF Directions, Primitives, Transitions, Tiers
<1>2. Rail0Manifest(p)[1] =
           [version |-> 1, direction |-> Directions.mint, asset |-> p.asset,
            oracle |-> [class |-> "none"], settle |-> Primitives.atomicSwap,
            maxSize |-> p.maxSize, term |-> p.term,
            retain |-> p.retain, service |-> p.service, fixed |-> p.fixed,
            devBound |-> p.devBound, validity |-> p.validity, window |-> p.validity,
            refundDelta |-> 0, stake |-> p.stake, slash |-> p.slash,
            hook |-> [i \in 1 .. KeyLen |-> 0], escape |-> [class |-> "none"],
            tiers |-> << <<Transitions.settle, Tiers.anyoneCanAct>>,
                         <<Transitions.dispute, Tiers.anyoneCanAct>> >>]
  <2>1. p.devBound # 0
    OBVIOUS
  <2> QED BY <2>1 DEF Rail0Manifest
<1> QED BY <1>1, <1>2 DEF RailOf

(* The two manifests of the runs. *)
LEMMA RailsAre == Rail = RailOf(100) /\ OtherRail = RailOf(0)
<1>1. /\ Knobs.asset = [i \in 1 .. KeyLen |-> 1] /\ Knobs.maxSize = 120 /\ Knobs.term = 5
      /\ Knobs.retain = 30 /\ Knobs.fixed = 1 /\ Knobs.devBound = 50 /\ Knobs.validity = 6
      /\ Knobs.stake = 9 /\ Knobs.slash = <<>> /\ Knobs.service = 100
  BY DEF Knobs
<1> DEFINE p == [Knobs EXCEPT !.service = 0]
<1>2. /\ p.asset = [i \in 1 .. KeyLen |-> 1] /\ p.maxSize = 120 /\ p.term = 5
      /\ p.retain = 30 /\ p.fixed = 1 /\ p.devBound = 50 /\ p.validity = 6
      /\ p.stake = 9 /\ p.slash = <<>> /\ p.service = 0
  BY DEF Knobs
<1>3. Rail = Rail0Manifest(Knobs)[1] /\ OtherRail = Rail0Manifest(p)[1]
  BY DEF Rail, OtherRail
<1> HIDE DEF p
<1>4. Rail0Manifest(Knobs)[1] = RailOf(100)
  <2> DEFINE k == Knobs
  <2>1. /\ k.asset = [i \in 1 .. KeyLen |-> 1] /\ k.maxSize = 120 /\ k.term = 5 /\ k.retain = 30
        /\ k.fixed = 1 /\ k.devBound = 50 /\ k.validity = 6 /\ k.stake = 9 /\ k.slash = <<>>
        /\ k.service = 100
    BY <1>1
  <2> HIDE DEF k
  <2>2. Rail0Manifest(k)[1] = RailOf(k.service)
    BY <2>1, RailOfIs
  <2> QED BY <2>1, <2>2 DEF k
<1>5. Rail0Manifest(p)[1] = RailOf(0)
  BY <1>2, RailOfIs
<1> QED BY <1>3, <1>4, <1>5

(* The bytes of the two tiers. *)
TierBytes(tiers) ==
    [i \in DOMAIN tiers |-> LET t == SortedBy(tiers, LAMBDA tier : tier[1])[i] IN U8(t[1]) \o U8(t[2])]

LEMMA TiersAreBytes == Joined(TierBytes(<< <<1, 2>>, <<3, 2>> >>)) \in Seq(Int)
<1> DEFINE tiers == << <<1, 2>>, <<3, 2>> >>
           k == [i \in DOMAIN tiers |-> tiers[i][1]]
           p == StableOrder(k)
           b == TierBytes(tiers)
<1>1. DOMAIN tiers = 1 .. 2 /\ tiers[1] = <<1, 2>> /\ tiers[2] = <<3, 2>>
  OBVIOUS
<1>2. \A i \in 1 .. 2 : tiers[i][1] \in Int /\ tiers[i][2] \in Int
  <2> SUFFICES ASSUME NEW i \in 1 .. 2 PROVE tiers[i][1] \in Int /\ tiers[i][2] \in Int
    OBVIOUS
  <2>1. i = 1 \/ i = 2
    OBVIOUS
  <2> QED BY <1>1, <2>1
<1>3. SortedBy(tiers, LAMBDA tier : tier[1]) = [i \in DOMAIN tiers |-> tiers[p[i]]]
  <2> HIDE DEF tiers
  <2> QED BY DEF SortedBy
<1> HIDE DEF tiers, p
<1>4. k \in [1 .. 2 -> Int]
  BY <1>1, <1>2
<1>5. \A i \in 1 .. 2 : p[i] \in 1 .. 2
  <2>1. Reorders(p, 2)
    <3>1. \A n \in Nat : \A f \in [1 .. n -> Int] : Reorders(StableOrder(f), n)
      BY OrderIsStable
    <3> HIDE DEF k
    <3> QED BY <1>4, <3>1 DEF p
  <2> QED BY <2>1 DEF Reorders
<1>6. \A i \in 1 .. 2 : b[i] = U8(tiers[p[i]][1]) \o U8(tiers[p[i]][2])
  BY <1>1, <1>3 DEF TierBytes
<1>11. \A v \in Int : U8(v) \in Seq(Int)
  BY BytesAreNumbers DEF U8
<1>12. \A u, v \in Seq(Int) : u \o v \in Seq(Int)
  OBVIOUS
<1>7. \A i \in 1 .. 2 : b[i] \in Seq(Int)
  <2> SUFFICES ASSUME NEW i \in 1 .. 2 PROVE b[i] \in Seq(Int)
    OBVIOUS
  <2>1. tiers[p[i]][1] \in Int /\ tiers[p[i]][2] \in Int
    BY <1>2, <1>5
  <2>2. U8(tiers[p[i]][1]) \in Seq(Int) /\ U8(tiers[p[i]][2]) \in Seq(Int)
    BY <1>11, <2>1
  <2> QED BY <1>6, <1>12, <2>2
<1>8. b = [i \in 1 .. 2 |-> b[i]]
  BY <1>1 DEF TierBytes
<1> HIDE DEF b
<1>9. FlattenSeq(b) = b[1] \o b[2]
  BY <1>8, FlattenTwo
<1>10. b[1] \o b[2] \in Seq(Int)
  BY <1>7
<1> QED BY <1>9, <1>10 DEF Joined, b, tiers

(* Short lengths are written in one byte. *)
LEMMA SmallSizes == BigSize(0) \in Seq(Int) /\ BigSize(2) \in Seq(Int)
<1>1. Least(2) = Byte - 3
  BY DEF Least
<1>2. 0 < Least(2) /\ 2 < Least(2)
  BY <1>1, WireAssumption
<1>5. /\ Least(4) = Weight[2] /\ Least(8) = Weight[4]
      /\ Weight[2] \in Nat /\ Weight[4] \in Nat /\ Weight[2] > 2 /\ Weight[4] > 2
  <2>1. Least(4) = Weight[2] /\ Least(8) = Weight[4]
    BY DEF Least
  <2>2. 2 \in 1 .. 8 /\ 4 \in 1 .. 8 /\ 2 \in 0 .. 8 /\ 4 \in 0 .. 8
    OBVIOUS
  <2>3. Weight[2] \in Nat /\ Weight[4] \in Nat /\ Weight[2] >= Byte /\ Weight[4] >= Byte
    BY <2>2, WeightFacts
  <2> QED BY <2>1, <2>3, WireAssumption
<1>3. \A v \in {0, 2} : BigSize(v) = U8(v)
  <2> SUFFICES ASSUME NEW v \in {0, 2} PROVE BigSize(v) = U8(v)
    OBVIOUS
  <2>1. v < Least(2)
    BY <1>2
  <2>2. v \notin Least(2) .. Least(4) - 1 /\ v \notin Least(4) .. Least(8) - 1 /\ ~(v >= Least(8))
    BY <1>1, <1>5, <2>1, WireAssumption
  <2> QED BY <2>1, <2>2 DEF BigSize
<1>4. U8(0) \in Seq(Int) /\ U8(2) \in Seq(Int)
  BY BytesAreNumbers DEF U8
<1> QED BY <1>3, <1>4

(* What is written of a manifest before its fee. *)
BeforeFee ==
    U16(1) \o U8(1) \o [i \in 1 .. KeyLen |-> 1] \o OracleSpec([class |-> "none"]) \o U8(0)
        \o U64(120) \o U32(5) \o U16(30)

(* The manifest's bytes hold the fee after the same head. *)
LEMMA FeeIsWritten ==
  ASSUME NEW s \in Nat
  PROVE  Begins(BeforeFee \o U16(s), CanonicalEncode(RailOf(s))) /\ BeforeFee \in Seq(Int)
<1> DEFINE m == RailOf(s)
           x0 == BeforeFee \o U16(s)
           x1 == x0 \o U64(m.fixed)
           x2 == x1 \o U16(m.devBound)
           x3 == x2 \o U32(m.validity)
           x4 == x3 \o U32(m.window)
           x5 == x4 \o U32(m.refundDelta)
           x6 == x5 \o U64(m.stake)
           x7 == x6 \o BigSize(Len(m.slash))
           x8 == x7 \o Joined(m.slash)
           x9 == x8 \o m.hook
           x10 == x9 \o LivenessEscape(m.escape)
           x11 == x10 \o BigSize(Len(m.tiers))
           x12 == x11 \o Joined(TierBytes(m.tiers))
<1>1. /\ m.version = 1 /\ m.direction = 1 /\ m.asset = [i \in 1 .. KeyLen |-> 1]
      /\ m.oracle = [class |-> "none"] /\ m.settle = 0 /\ m.maxSize = 120 /\ m.term = 5
      /\ m.retain = 30 /\ m.service = s /\ m.fixed = 1 /\ m.devBound = 50 /\ m.validity = 6
      /\ m.window = 6 /\ m.refundDelta = 0 /\ m.stake = 9 /\ m.slash = <<>>
      /\ m.hook = [i \in 1 .. KeyLen |-> 0] /\ m.escape = [class |-> "none"]
      /\ m.tiers = << <<1, 2>>, <<3, 2>> >>
  BY DEF RailOf
<1> HIDE DEF m
<1>2. CanonicalEncode(m) = x12
  BY <1>1 DEF CanonicalEncode, BeforeFee, TierBytes
<1>3. \A v \in Int : /\ U8(v) \in Seq(Int) /\ U16(v) \in Seq(Int)
                     /\ U32(v) \in Seq(Int) /\ U64(v) \in Seq(Int)
  BY BytesAreNumbers DEF U8, U16, U32, U64
<1>4. OracleSpec(m.oracle) \in Seq(Int) /\ LivenessEscape(m.escape) \in Seq(Int)
  BY <1>1, <1>3 DEF OracleSpec, LivenessEscape
<1>5. /\ Joined(m.slash) \in Seq(Int) /\ BigSize(Len(m.slash)) \in Seq(Int)
      /\ BigSize(Len(m.tiers)) \in Seq(Int) /\ Joined(TierBytes(m.tiers)) \in Seq(Int)
  <2>1. Len(m.slash) = 0 /\ Len(m.tiers) = 2
    BY <1>1
  <2>2. Joined(m.slash) = <<>>
    BY <1>1, <2>1 DEF Joined, FlattenSeq
  <2>3. <<>> \in Seq(Int)
    OBVIOUS
  <2> QED BY <1>1, <2>1, <2>2, <2>3, SmallSizes, TiersAreBytes
<1>6. m.asset \in Seq(Int) /\ m.hook \in Seq(Int)
  <2>1. KeyLen \in Nat
    BY WireAssumption
  <2> QED BY <1>1, <2>1
<1>7. BeforeFee \in Seq(Int)
  <2>1. /\ U16(1) \in Seq(Int) /\ U8(1) \in Seq(Int) /\ U8(0) \in Seq(Int) /\ U64(120) \in Seq(Int)
        /\ U32(5) \in Seq(Int) /\ U16(30) \in Seq(Int)
        /\ [i \in 1 .. KeyLen |-> 1] \in Seq(Int) /\ OracleSpec([class |-> "none"]) \in Seq(Int)
    <3>1. /\ U16(1) \in Seq(Int) /\ U8(1) \in Seq(Int) /\ U8(0) \in Seq(Int)
          /\ U64(120) \in Seq(Int) /\ U32(5) \in Seq(Int) /\ U16(30) \in Seq(Int)
      BY <1>3
    <3>2. [i \in 1 .. KeyLen |-> 1] \in Seq(Int)
      BY <1>1, <1>6
    <3>3. OracleSpec([class |-> "none"]) \in Seq(Int)
      BY <1>1, <1>4
    <3> QED BY <3>1, <3>2, <3>3
  <2>2. \A a, b \in Seq(Int) : a \o b \in Seq(Int)
    OBVIOUS
  <2> QED BY <2>1, <2>2 DEF BeforeFee
<1>8. Begins(x0, x0)
  <2>1. U16(s) \in Seq(Int)
    BY <1>3
  <2>2. x0 \in Seq(Int)
    BY <1>7, <2>1
  <2> HIDE DEF x0
  <2> QED BY <2>2 DEF Begins
<1>9. /\ U64(m.fixed) \in Seq(Int) /\ U16(m.devBound) \in Seq(Int) /\ U32(m.validity) \in Seq(Int)
      /\ U32(m.window) \in Seq(Int) /\ U32(m.refundDelta) \in Seq(Int) /\ U64(m.stake) \in Seq(Int)
  <2>1. /\ m.fixed \in Int /\ m.devBound \in Int /\ m.validity \in Int
        /\ m.window \in Int /\ m.refundDelta \in Int /\ m.stake \in Int
    BY <1>1
  <2>2. U64(m.fixed) \in Seq(Int) /\ U64(m.stake) \in Seq(Int)
    BY <1>3, <2>1
  <2>3. U16(m.devBound) \in Seq(Int)
    BY <1>3, <2>1
  <2>4. /\ U32(m.validity) \in Seq(Int) /\ U32(m.window) \in Seq(Int)
        /\ U32(m.refundDelta) \in Seq(Int)
    BY <1>3, <2>1
  <2> QED BY <2>2, <2>3, <2>4
<1>10. \A b : \A c \in Seq(Int) : Begins(x0, b) => Begins(x0, b \o c)
  <2> HIDE DEF x0
  <2> QED BY BeginsOn
<1> HIDE DEF x0
<1>11. Begins(x0, x3)
  BY <1>8, <1>9, <1>10
<1> HIDE DEF x1, x2, x3
<1>12. Begins(x0, x6)
  BY <1>9, <1>10, <1>11
<1> HIDE DEF x4, x5, x6
<1>13. Begins(x0, x9)
  BY <1>5, <1>6, <1>10, <1>12
<1> HIDE DEF x7, x8, x9
<1>14. Begins(x0, x12)
  BY <1>4, <1>5, <1>10, <1>13
<1> QED BY <1>2, <1>7, <1>14 DEF x0, m

(* Two rails of different fees have different identities. *)
LEMMA RailsDiffer == RailId(Rail) # RailId(OtherRail)
<1> SUFFICES ASSUME RailId(Rail) = RailId(OtherRail) PROVE FALSE
  OBVIOUS
<1> DEFINE e == CanonicalEncode(RailOf(100))
           h == BeforeFee
<1>1. e = CanonicalEncode(RailOf(0))
  <2>1. RailId(Rail)[2] = CanonicalEncode(Rail) /\ RailId(OtherRail)[2] = CanonicalEncode(OtherRail)
    BY DEF RailId
  <2> QED BY <2>1, RailsAre
<1>2. Begins(h \o U16(100), e) /\ Begins(h \o U16(0), e) /\ h \in Seq(Int)
  BY <1>1, FeeIsWritten
<1> HIDE DEF e, h
<1>3. \A v \in {0, 100} : U16(v) \in Seq(Int) /\ Len(U16(v)) = 2
  BY BytesAreNumbers DEF U16
<1>4. \A v \in {0, 100} : \A i \in 1 .. 2 : U16(v)[i] = e[Len(h) + i]
  <2> SUFFICES ASSUME NEW v \in {0, 100}, NEW i \in 1 .. 2 PROVE U16(v)[i] = e[Len(h) + i]
    OBVIOUS
  <2>1. U16(v) \in Seq(Int) /\ i \in 1 .. Len(U16(v)) /\ Begins(h \o U16(v), e) /\ h \in Seq(Int)
    BY <1>2, <1>3
  <2> QED BY <2>1, BeginsAt
<1>5. U16(100) = U16(0)
  <2>1. \A i \in 1 .. 2 : U16(100)[i] = U16(0)[i]
    BY <1>4
  <2>2. U16(100) = [i \in 1 .. 2 |-> U16(100)[i]] /\ U16(0) = [i \in 1 .. 2 |-> U16(0)[i]]
    BY DEF U16, BigEndian
  <2> QED BY <2>1, <2>2
<1>6. 100 < Weight[2]
  BY KnobsAssumption DEF Knobs
<1> QED BY <1>5, <1>6, U16Differs

(***************************************************************************)
(* The settlement.                                                         *)
(***************************************************************************)
(* Every slot has a key, and their indexes count from 0.                   *)
IndexesOf(s) == {s[i].index[1] : i \in {j \in 1 .. Len(s) : s[j].index # Missing}}
SlotsCount(s) == IndexesOf(s) = 0 .. Len(s) - 1 /\ \A i \in 1 .. Len(s) : s[i].key # Missing

(* Slots that count from 0 with a key each are put in order, no others. *)
LEMMA SlotsAreSorted ==
  ASSUME NEW n \in Nat, NEW s, s = [i \in 1 .. n |-> s[i]], Len(s) = n,
         \A i \in 1 .. n : s[i].index \in {Missing} \cup [1 .. 1 -> Nat],
         NEW v, v.outputs = s
  PROVE  /\ AnchorOutputs(v) # Refused <=> SlotsCount(s)
         /\ SlotsCount(s) =>
              \E slots : /\ AnchorOutputs(v) = <<slots>>
                         /\ DOMAIN slots = 1 .. n
                         /\ \A i \in 1 .. n : /\ s[i].index[1] \in 0 .. n - 1
                                              /\ slots[s[i].index[1] + 1] = s[i]
<1> DEFINE D == 1 .. n
           k == [i \in D |-> s[i].index[1]]
           p == StableOrder(k)
           sorted == [i \in D |-> s[p[i]]]
           incomplete == \E i \in D : s[i].index = Missing \/ s[i].key = Missing
           gaps == \E i \in D : sorted[i].index[1] # i - 1
<1>1. DOMAIN s = D /\ IsFiniteSet(D) /\ Cardinality(D) = n
  BY FS_Interval
<1>2. AnchorOutputs(v) = IF incomplete THEN Refused ELSE IF gaps THEN Refused ELSE <<sorted>>
  <2>1. SortedBy(s, LAMBDA out : out.index[1]) = sorted
    BY <1>1 DEF SortedBy
  <2>2. DOMAIN sorted = D
    OBVIOUS
  <2> HIDE DEF sorted, D
  <2> QED BY <1>1, <2>1, <2>2 DEF AnchorOutputs
<1>3. IsFiniteSet(0 .. n - 1) /\ Cardinality(0 .. n - 1) = n
  <2>1. n - 1 \in Int /\ 0 \in Int
    OBVIOUS
  <2>2. \A a, b \in Int : IsFiniteSet(a .. b) /\ Cardinality(a .. b) = IF a > b THEN 0 ELSE b - a + 1
    BY FS_Interval
  <2>3. IsFiniteSet(0 .. n - 1) /\ Cardinality(0 .. n - 1) = IF 0 > n - 1 THEN 0 ELSE (n - 1) - 0 + 1
    BY <2>1, <2>2
  <2> QED BY <2>3
<1>4. CASE incomplete
  <2>1. AnchorOutputs(v) = Refused
    BY <1>2, <1>4
  <2>2. ~SlotsCount(s)
    <3> SUFFICES ASSUME SlotsCount(s) PROVE FALSE
      OBVIOUS
    <3>1. IndexesOf(s) = 0 .. n - 1 /\ \A i \in D : s[i].key # Missing
      BY DEF SlotsCount
    <3>2. PICK h \in D : s[h].index = Missing
      BY <1>4, <3>1
    <3> DEFINE J == {j \in D : s[j].index # Missing}
               f == [j \in J |-> s[j].index[1]]
    <3>3. IsFiniteSet(J) /\ Cardinality(J) <= n /\ Cardinality(J) # n /\ Cardinality(J) \in Nat
      <4>1. J \subseteq D /\ h \notin J
        BY <3>2
      <4> HIDE DEF J, D
      <4>2. IsFiniteSet(J) /\ Cardinality(J) <= Cardinality(D) /\ (Cardinality(J) = Cardinality(D) => J = D)
        BY <1>1, <4>1, FS_Subset
      <4>3. Cardinality(J) \in Nat
        BY <4>2, FS_CardinalityType
      <4> QED BY <1>1, <3>2, <4>1, <4>2, <4>3
    <3>4. f \in Surjection(J, 0 .. n - 1)
      <4>1. IndexesOf(s) = {s[j].index[1] : j \in J}
        BY DEF IndexesOf
      <4>2. \A j \in J : f[j] \in IndexesOf(s)
        BY <4>1
      <4>3. \A y \in IndexesOf(s) : \E j \in J : f[j] = y
        BY <4>1
      <4> HIDE DEF J
      <4>4. f \in [J -> IndexesOf(s)]
        BY <4>2
      <4>5. f \in Surjection(J, IndexesOf(s))
        BY <4>3, <4>4 DEF Surjection
      <4> QED BY <3>1, <4>5
    <3> HIDE DEF J, f
    <3>5. Cardinality(0 .. n - 1) <= Cardinality(J)
      BY <3>3, <3>4, FS_Surjection
    <3> QED BY <1>3, <3>3, <3>5
  <2> QED BY <2>1, <2>2
<1>5. CASE ~incomplete
  <2>1. \A i \in D : s[i].index \in [1 .. 1 -> Nat] /\ s[i].key # Missing /\ s[i].index # Missing
    BY <1>5
  <2>2. \A i \in D : k[i] = s[i].index[1] /\ k[i] \in Nat
    <3> SUFFICES ASSUME NEW i \in D PROVE k[i] = s[i].index[1] /\ k[i] \in Nat
      OBVIOUS
    <3>1. s[i].index \in [1 .. 1 -> Nat] /\ 1 \in 1 .. 1
      BY <2>1
    <3> QED BY <3>1
  <2>3. k \in [D -> Int] /\ k \in [D -> Nat]
    BY <2>2
  <2> HIDE DEF k
  <2>4. Reorders(p, n) /\ \A i, j \in 1 .. n : i < j => k[p[i]] <= k[p[j]]
    BY <2>3, OrderIsStable
  <2> HIDE DEF p
  <2>5. /\ \A i \in D : p[i] \in D
        /\ \A i, j \in D : p[i] = p[j] => i = j
        /\ \A w \in D : \E i \in D : p[i] = w
    BY <2>4 DEF Reorders
  <2>6. \A i \in D : sorted[i] = s[p[i]] /\ sorted[i].index[1] = k[p[i]] /\ k[p[i]] \in Nat
    BY <2>2, <2>5
  <2>7. DOMAIN sorted = D
    OBVIOUS
  <2> HIDE DEF sorted
  <2>8. IndexesOf(s) = {k[i] : i \in D}
    <3>1. IndexesOf(s) = {s[i].index[1] : i \in D}
      BY <2>1 DEF IndexesOf
    <3> QED BY <2>2, <3>1
  <2>9. SlotsCount(s) <=> {k[i] : i \in D} = 0 .. n - 1
    BY <2>1, <2>8 DEF SlotsCount
  <2>10. gaps <=> \E i \in D : k[p[i]] # i - 1
    BY <2>6
  <2>11. ASSUME ~gaps PROVE {k[i] : i \in D} = 0 .. n - 1
    <3>1. \A i \in D : k[p[i]] = i - 1
      BY <2>10, <2>11
    <3>2. ASSUME NEW i \in D PROVE k[i] \in 0 .. n - 1
      <4>1. PICK l \in D : p[l] = i
        BY <2>5
      <4> QED BY <3>1, <4>1
    <3>3. ASSUME NEW y \in 0 .. n - 1 PROVE \E i \in D : k[i] = y
      <4>1. y + 1 \in D /\ (y + 1) - 1 = y
        OBVIOUS
      <4>2. p[y + 1] \in D /\ k[p[y + 1]] = y
        BY <2>5, <3>1, <4>1
      <4> QED BY <4>2
    <3> HIDE DEF D
    <3> QED BY <3>2, <3>3
  <2>12. ASSUME {k[i] : i \in D} = 0 .. n - 1 PROVE ~gaps
    <3>1. k \in Surjection(D, 0 .. n - 1)
      <4>1. \A i \in D : k[i] \in 0 .. n - 1
        BY <2>12
      <4>2. \A y \in 0 .. n - 1 : \E i \in D : k[i] = y
        BY <2>12
      <4>3. k \in [D -> 0 .. n - 1]
        BY <2>3, <4>1
      <4> QED BY <4>2, <4>3 DEF Surjection
    <3>2. k \in Injection(D, 0 .. n - 1)
      <4> HIDE DEF D
      <4> QED BY <1>1, <1>3, <3>1, FS_Surjection
    <3>3. \A i, j \in D : k[i] = k[j] => i = j
      BY <3>2 DEF Injection, IsInjective
    <3> DEFINE x == [i \in D |-> k[p[i]]]
               y == [i \in D |-> i - 1]
    <3>4. \A i \in D : x[i] = k[p[i]] /\ x[i] \in Int /\ y[i] = i - 1 /\ y[i] \in Int
      BY <2>6
    <3>5. x \in [D -> Int] /\ y \in [D -> Int]
      BY <3>4
    <3>6. x = [i \in D |-> x[i]]
      OBVIOUS
    <3> HIDE DEF x, y
    <3>7. \A i, j \in D : i < j => x[i] < x[j]
      <4> SUFFICES ASSUME NEW i \in D, NEW j \in D, i < j PROVE x[i] < x[j]
        OBVIOUS
      <4>1. p[i] # p[j] /\ p[i] \in D /\ p[j] \in D /\ k[p[i]] <= k[p[j]]
        <5>1. i # j /\ k[p[i]] <= k[p[j]]
          BY <2>4
        <5> QED BY <2>5, <5>1
      <4>2. k[p[i]] # k[p[j]]
        BY <3>3, <4>1
      <4> QED BY <3>4, <4>1, <4>2
    <3>8. \A i, j \in D : i < j => y[i] < y[j]
      BY <3>4
    <3>9. {x[i] : i \in D} = {y[i] : i \in D}
      <4>1. {y[i] : i \in D} = 0 .. n - 1
        <5>1. ASSUME NEW i \in D PROVE y[i] \in 0 .. n - 1
          BY <3>4
        <5>2. ASSUME NEW z \in 0 .. n - 1 PROVE \E i \in D : y[i] = z
          <6>1. z + 1 \in D /\ (z + 1) - 1 = z
            OBVIOUS
          <6> QED BY <3>4, <6>1
        <5> HIDE DEF D
        <5> QED BY <5>1, <5>2
      <4>2. {x[i] : i \in D} = {k[i] : i \in D}
        <5>1. ASSUME NEW i \in D PROVE \E j \in D : k[j] = x[i]
          BY <2>5, <3>4
        <5>2. ASSUME NEW i \in D PROVE \E j \in D : x[j] = k[i]
          <6>1. PICK j \in D : p[j] = i
            BY <2>5
          <6> QED BY <3>4, <6>1
        <5>3. \A i \in D : x[i] \in {k[j] : j \in D}
          BY <5>1
        <5>4. \A i \in D : k[i] \in {x[j] : j \in D}
          BY <5>2
        <5>5. {x[i] : i \in D} \subseteq {k[i] : i \in D}
          BY <5>3
        <5>6. {k[i] : i \in D} \subseteq {x[i] : i \in D}
          BY <5>4
        <5> QED BY <5>5, <5>6
      <4> QED BY <2>12, <4>1, <4>2
    <3>10. x = y
      BY <3>5, <3>7, <3>8, <3>9, RisingIsUnique
    <3> QED BY <2>10, <3>4, <3>10
  <2>13. AnchorOutputs(v) # Refused <=> ~gaps
    <3>1. AnchorOutputs(v) = IF gaps THEN Refused ELSE <<sorted>>
      BY <1>2, <1>5
    <3>2. <<sorted>> # Refused
      BY DEF Refused
    <3> HIDE DEF gaps
    <3> QED BY <3>1, <3>2
  <2>14. ASSUME ~gaps
         PROVE  /\ AnchorOutputs(v) = <<sorted>>
                /\ \A i \in D : s[i].index[1] \in 0 .. n - 1 /\ sorted[s[i].index[1] + 1] = s[i]
    <3>1. AnchorOutputs(v) = <<sorted>>
      BY <1>2, <1>5, <2>14
    <3>2. ASSUME NEW i \in D PROVE k[i] \in 0 .. n - 1 /\ sorted[k[i] + 1] = s[i]
      <4>1. PICK l \in D : p[l] = i
        BY <2>5
      <4>2. k[i] = l - 1
        BY <2>10, <2>14, <4>1
      <4>3. k[i] + 1 = l /\ k[i] \in 0 .. n - 1
        BY <4>2
      <4> QED BY <2>6, <4>1, <4>3
    <3> QED BY <2>2, <3>1, <3>2
  <2> HIDE DEF gaps, D
  <2>15. SlotsCount(s) <=> ~gaps
    BY <2>9, <2>11, <2>12
  <2> QED BY <2>7, <2>13, <2>14, <2>15 DEF D
<1> QED BY <1>4, <1>5

(* What is at which place of two sequences joined. *)
LEMMA JoinedIs ==
  ASSUME NEW m \in Nat, NEW k \in Nat, NEW a, NEW b,
         a = [i \in 1 .. m |-> a[i]], b = [i \in 1 .. k |-> b[i]]
  PROVE  /\ a \o b = [i \in 1 .. m + k |-> (a \o b)[i]]
         /\ \A i \in 1 .. m : (a \o b)[i] = a[i]
         /\ \A i \in 1 .. k : (a \o b)[m + i] = b[i]
<1> DEFINE S == {a[i] : i \in 1 .. m} \cup {b[i] : i \in 1 .. k}
<1>1. a \in [1 .. m -> S] /\ b \in [1 .. k -> S]
  <2>1. \A i \in 1 .. m : a[i] \in S
    OBVIOUS
  <2>2. \A i \in 1 .. k : b[i] \in S
    OBVIOUS
  <2> HIDE DEF S
  <2> QED BY <2>1, <2>2
<1> HIDE DEF S
<1>2. a \in Seq(S) /\ b \in Seq(S) /\ Len(a) = m /\ Len(b) = k
  BY <1>1
<1>3. a \o b \in Seq(S) /\ Len(a \o b) = m + k
  BY <1>2
<1>4. a \o b = [i \in 1 .. m + k |-> (a \o b)[i]]
  <2> DEFINE c == a \o b
  <2>1. c \in Seq(S) /\ Len(c) = m + k
    BY <1>3
  <2> HIDE DEF c
  <2>2. c = [i \in 1 .. m + k |-> c[i]]
    BY <2>1
  <2> QED BY <2>2 DEF c
<1>5. \A i \in 1 .. m : (a \o b)[i] = a[i]
  BY <1>2
<1>6. \A i \in 1 .. k : (a \o b)[m + i] = b[i]
  BY <1>2
<1> QED BY <1>4, <1>5, <1>6

(* The transaction the builder makes. *)
LEMMA TransactionIs ==
  ASSUME NEW t \in SettlementTasks
  PROVE  LET n == Len(t.slots)
             made == SignCommit(Funded(Utxo, t.slots), TemplateFor(t), 3)
             txn == made[1] IN
         /\ made # Refused <=> SlotsCount(t.slots)
         /\ SlotsCount(t.slots) =>
             /\ txn.inputs[1].spends = [txid |-> Utxo.txid, vout |-> Utxo.vout]
             /\ DOMAIN txn.outputs = 1 .. n + 3
             /\ \A i \in 1 .. n :
                 /\ t.slots[i].index[1] \in 0 .. n - 1
                 /\ txn.outputs[t.slots[i].index[1] + 1].script
                     = <<"commitment", t.slots[i].key[1], t.slots[i].index[1]>>
             /\ \A j \in 1 .. n : \E key : txn.outputs[j].script = <<"commitment", key, j - 1>>
             /\ txn.outputs[n + 1].script = t.to
             /\ txn.outputs[n + 1].sats = PlanOf(Rail, QuoteFor(t)).user + t.off
             /\ txn.outputs[n + 2].script = <<"lp">>
             /\ txn.outputs[n + 3].script = <<"change">>
<1> DEFINE s == t.slots
           n == Len(s)
           v == Funded(Utxo, s)
           tmp == TemplateFor(t)
           made == SignCommit(v, tmp, 3)
           in == AnchorInput(v)
<1>1. /\ s \in Slots /\ n \in Nat /\ s = [i \in 1 .. n |-> s[i]]
      /\ \A i \in 1 .. n : s[i].index \in {Missing} \cup [1 .. 1 -> Nat]
  <2>1. s \in Slots
    BY DEF SettlementTasks
  <2>2. /\ s \in Seq(ToSet(s))
        /\ \A i \in DOMAIN s : s[i].index \in {Missing} \cup [1 .. 1 -> Nat]
    BY <2>1, SettlementAssumption
  <2> DEFINE S == ToSet(s)
  <2> HIDE DEF s, S
  <2>3. s \in Seq(S)
    BY <2>2 DEF S
  <2>4. n \in Nat /\ s = [i \in 1 .. n |-> s[i]] /\ DOMAIN s = 1 .. n
    BY <2>3
  <2> QED BY <2>1, <2>2, <2>4
<1>2. v.outputs = s /\ v.inputs = <<v.inputs[1]>>
      /\ v.inputs[1] = [prev |-> <<[txid |-> Utxo.txid, vout |-> Utxo.vout]>>,
                        value |-> <<Utxo.value>>, script |-> <<Utxo.script>>,
                        key |-> <<Utxo.key>>, root |-> <<Utxo.root>>]
  BY DEF Funded
<1>3. in = <<v.inputs[1]>>
  <2> DEFINE first == v.inputs[1]
  <2>1. v.inputs # <<>> /\ Head(v.inputs) = first
    BY <1>2
  <2>2. first.prev # Missing /\ first.value # Missing /\ first.script # Missing /\ first.key # Missing
    BY <1>2 DEF Missing
  <2> HIDE DEF v, first
  <2>3. ~\E f \in {"prev", "value", "script", "key"} : first[f] = Missing
    BY <2>2
  <2> QED BY <2>1, <2>3 DEF AnchorInput
<1> HIDE DEF s, v, in
<1>4. /\ AnchorOutputs(v) # Refused <=> SlotsCount(s)
      /\ SlotsCount(s) =>
              \E slots : /\ AnchorOutputs(v) = <<slots>>
                         /\ DOMAIN slots = 1 .. n
                         /\ \A i \in 1 .. n : /\ s[i].index[1] \in 0 .. n - 1
                                              /\ slots[s[i].index[1] + 1] = s[i]
  BY <1>1, <1>2, SlotsAreSorted
<1>5. made # Refused <=> SlotsCount(s)
  <2>1. in # Refused
    BY <1>3 DEF Refused
  <2>2. made = IF in = Refused \/ AnchorOutputs(v) = Refused THEN Refused
               ELSE <<Committed(AnchorTemplate(tmp, in[1], AnchorOutputs(v)[1]), AnchorOutputs(v)[1], 3)>>
    BY DEF SignCommit, in
  <2>3. <<Committed(AnchorTemplate(tmp, in[1], AnchorOutputs(v)[1]), AnchorOutputs(v)[1], 3)>> # Refused
    BY DEF Refused
  <2> HIDE DEF made, tmp
  <2> QED BY <1>4, <2>1, <2>2, <2>3
<1>6. ASSUME SlotsCount(s)
      PROVE  LET txn == made[1] IN
             /\ txn.inputs[1].spends = [txid |-> Utxo.txid, vout |-> Utxo.vout]
             /\ DOMAIN txn.outputs = 1 .. n + 3
             /\ \A i \in 1 .. n :
                 /\ s[i].index[1] \in 0 .. n - 1
                 /\ txn.outputs[s[i].index[1] + 1].script
                     = <<"commitment", s[i].key[1], s[i].index[1]>>
             /\ \A j \in 1 .. n : \E key : txn.outputs[j].script = <<"commitment", key, j - 1>>
             /\ txn.outputs[n + 1].script = t.to
             /\ txn.outputs[n + 1].sats = PlanOf(Rail, QuoteFor(t)).user + t.off
             /\ txn.outputs[n + 2].script = <<"lp">>
             /\ txn.outputs[n + 3].script = <<"change">>
  <2>1. PICK slots : /\ AnchorOutputs(v) = <<slots>>
                     /\ DOMAIN slots = 1 .. n
                     /\ \A i \in 1 .. n : /\ s[i].index[1] \in 0 .. n - 1
                                          /\ slots[s[i].index[1] + 1] = s[i]
    BY <1>4, <1>6
  <2> DEFINE A == [i \in DOMAIN slots |->
                     [sats |-> ANCHOR_DUST_SATS, script |-> Nums,
                      key |-> slots[i].key, origin |-> slots[i].origin]]
             B == <<[sats |-> tmp.payout.sats, script |-> tmp.payout.script,
                       key |-> tmp.payoutKey, origin |-> tmp.payoutOrigin]>>
             C == [i \in DOMAIN tmp.extra |->
                       [sats |-> tmp.extra[i].sats, script |-> tmp.extra[i].script,
                        key |-> Missing, origin |-> Missing]]
             o == (A \o B) \o C
             template == AnchorTemplate(tmp, in[1], slots)
             E == [i \in DOMAIN o |->
                     IF i \in DOMAIN slots
                     THEN [o[i] EXCEPT !.script = <<"commitment", slots[i].key[1], i - 1>>]
                     ELSE o[i]]
             F == <<[sats |-> 3, script |-> <<"change">>, key |-> Missing, origin |-> Missing]>>
             txn == made[1]
  <2>2. made = <<Committed(template, slots, 3)>>
    <3>1. in # Refused /\ AnchorOutputs(v) # Refused /\ AnchorOutputs(v)[1] = slots
      BY <1>3, <2>1 DEF Refused
    <3> HIDE DEF tmp, template
    <3> QED BY <3>1 DEF SignCommit, in, template
  <2>3. template.outputs = o /\ template.inputs[1].spends = in[1].prev[1]
    <3> HIDE DEF tmp, A, B, C
    <3>1. template = [inputs |-> template.inputs, outputs |-> o]
      BY DEF AnchorTemplate, A, B, C
    <3> QED BY <3>1 DEF AnchorTemplate
  <2>4. txn.outputs = E \o F /\ txn.inputs = template.inputs
    <3>1. txn = Committed(template, slots, 3)
      BY <2>2
    <3>2. \E f : template = [inputs |-> f, outputs |-> o]
      <4> HIDE DEF tmp, A, B, C
      <4> QED BY DEF AnchorTemplate, A, B, C
    <3> HIDE DEF txn, template, o
    <3>3. Committed(template, slots, 3) = [template EXCEPT !.outputs = E \o F]
      BY <2>3 DEF Committed
    <3> HIDE DEF E, F
    <3> QED BY <3>1, <3>2, <3>3
  <2>5. txn.inputs[1].spends = [txid |-> Utxo.txid, vout |-> Utxo.vout]
    <3>1. in[1].prev[1] = [txid |-> Utxo.txid, vout |-> Utxo.vout]
      BY <1>2, <1>3
    <3> HIDE DEF txn, template
    <3> QED BY <2>3, <2>4, <3>1
  <2>6. /\ tmp.payout.sats = PlanOf(Rail, QuoteFor(t)).user + t.off /\ tmp.payout.script = t.to
        /\ tmp.extra = <<[sats |-> 7, script |-> <<"lp">>]>>
    BY DEF TemplateFor
  <2> HIDE DEF tmp, made, template, txn
  <2>7. /\ A = [i \in 1 .. n |-> A[i]] /\ B = [i \in 1 .. 1 |-> B[i]]
        /\ C = [i \in 1 .. 1 |-> C[i]] /\ F = [i \in 1 .. 1 |-> F[i]]
        /\ C[1].script = <<"lp">> /\ F[1].script = <<"change">>
        /\ B[1].script = t.to /\ B[1].sats = PlanOf(Rail, QuoteFor(t)).user + t.off
    <3>1. DOMAIN tmp.extra = 1 .. 1 /\ tmp.extra[1].script = <<"lp">>
      BY <2>6
    <3>2. C = [i \in 1 .. 1 |-> C[i]] /\ C[1].script = <<"lp">>
      BY <3>1
    <3>3. A = [i \in 1 .. n |-> A[i]]
      BY <2>1
    <3>4. B = [i \in 1 .. 1 |-> B[i]] /\ B[1].script = t.to /\ B[1].sats = PlanOf(Rail, QuoteFor(t)).user + t.off
      BY <2>6
    <3>5. F = [i \in 1 .. 1 |-> F[i]] /\ F[1].script = <<"change">>
      OBVIOUS
    <3> QED BY <3>2, <3>3, <3>4, <3>5
  <2>8. \A i \in 1 .. n : \A x : [A[i] EXCEPT !.script = x].script = x
    BY <2>1
  <2> HIDE DEF A, B, C, F
  <2>9. /\ A \o B = [i \in 1 .. n + 1 |-> (A \o B)[i]]
        /\ \A i \in 1 .. n : (A \o B)[i] = A[i]
        /\ (A \o B)[n + 1] = B[1]
    <3>1. \A i \in 1 .. 1 : (A \o B)[n + i] = B[i]
      BY <1>1, <2>7, JoinedIs
    <3> QED BY <1>1, <2>7, <3>1, JoinedIs
  <2> DEFINE G == A \o B
  <2>10. /\ o = [i \in 1 .. n + 2 |-> o[i]]
         /\ \A i \in 1 .. n + 1 : o[i] = G[i]
         /\ o[n + 2] = C[1]
    <3>1. n + 1 \in Nat /\ G = [i \in 1 .. n + 1 |-> G[i]]
      BY <1>1, <2>9
    <3> HIDE DEF G
    <3>2. /\ G \o C = [i \in 1 .. (n + 1) + 1 |-> (G \o C)[i]]
          /\ \A i \in 1 .. n + 1 : (G \o C)[i] = G[i]
          /\ \A i \in 1 .. 1 : (G \o C)[(n + 1) + i] = C[i]
      BY <2>7, <3>1, JoinedIs
    <3>3. (n + 1) + 1 = n + 2
      BY <1>1
    <3>4. o = G \o C
      BY DEF G
    <3>5. 1 \in 1 .. 1
      OBVIOUS
    <3> HIDE DEF o
    <3> QED BY <3>2, <3>3, <3>4, <3>5
  <2>11. /\ DOMAIN o = 1 .. n + 2
         /\ \A i \in 1 .. n : o[i] = A[i]
         /\ o[n + 1] = B[1] /\ o[n + 2] = C[1]
    <3>1. \A i \in 1 .. n : i \in 1 .. n + 1
      BY <1>1
    <3>2. n + 1 \in 1 .. n + 1
      BY <1>1
    <3> HIDE DEF o
    <3> QED BY <2>9, <2>10, <3>1, <3>2 DEF G
  <2> HIDE DEF o, G
  <2>12. /\ E = [i \in 1 .. n + 2 |-> E[i]]
         /\ \A i \in 1 .. n : E[i].script = <<"commitment", slots[i].key[1], i - 1>>
         /\ E[n + 1] = B[1] /\ E[n + 2] = C[1]
    <3>1. \A i \in 1 .. n : i \in 1 .. n + 2 /\ i \in DOMAIN slots
      BY <1>1, <2>1
    <3>2. n + 1 \in 1 .. n + 2 /\ n + 2 \in 1 .. n + 2 /\ n + 1 \notin DOMAIN slots /\ n + 2 \notin DOMAIN slots
      BY <1>1, <2>1
    <3>3. \A i \in 1 .. n : E[i] = [A[i] EXCEPT !.script = <<"commitment", slots[i].key[1], i - 1>>]
      BY <2>11, <3>1
    <3>4. E[n + 1] = B[1] /\ E[n + 2] = C[1]
      BY <2>11, <3>2
    <3>5. E = [i \in 1 .. n + 2 |-> E[i]]
      BY <2>11
    <3> HIDE DEF E
    <3>6. \A i \in 1 .. n : E[i].script = <<"commitment", slots[i].key[1], i - 1>>
      <4> TAKE i \in 1 .. n
      <4> DEFINE k == <<"commitment", slots[i].key[1], i - 1>>
      <4> HIDE DEF k
      <4>1. E[i] = [A[i] EXCEPT !.script = k]
        BY <3>3 DEF k
      <4>2. [A[i] EXCEPT !.script = k].script = k
        BY <2>8
      <4>3. E[i].script = k
        BY <4>1, <4>2
      <4> QED BY <4>3 DEF k
    <3> QED BY <3>4, <3>5, <3>6
  <2> HIDE DEF E
  <2>13. /\ DOMAIN txn.outputs = 1 .. n + 3
         /\ \A i \in 1 .. n + 2 : txn.outputs[i] = E[i]
         /\ txn.outputs[n + 3] = F[1]
    <3>1. n + 2 \in Nat /\ (n + 2) + 1 = n + 3
      BY <1>1
    <3>2. /\ E \o F = [i \in 1 .. (n + 2) + 1 |-> (E \o F)[i]]
          /\ \A i \in 1 .. n + 2 : (E \o F)[i] = E[i]
          /\ \A i \in 1 .. 1 : (E \o F)[(n + 2) + i] = F[i]
      BY <2>7, <2>12, <3>1, JoinedIs
    <3>3. (E \o F)[n + 3] = F[1] /\ DOMAIN (E \o F) = 1 .. n + 3
      BY <3>1, <3>2
    <3> QED BY <2>4, <3>2, <3>3
  <2>14. /\ \A i \in 1 .. n : txn.outputs[i].script = <<"commitment", slots[i].key[1], i - 1>>
         /\ txn.outputs[n + 1] = B[1] /\ txn.outputs[n + 2] = C[1]
    <3>1. n + 1 \in 1 .. n + 2 /\ n + 2 \in 1 .. n + 2 /\ \A i \in 1 .. n : i \in 1 .. n + 2
      BY <1>1
    <3> QED BY <2>12, <2>13, <3>1
  <2>15. \A i \in 1 .. n :
           /\ s[i].index[1] \in 0 .. n - 1
           /\ txn.outputs[s[i].index[1] + 1].script = <<"commitment", s[i].key[1], s[i].index[1]>>
    <3> SUFFICES ASSUME NEW i \in 1 .. n
                 PROVE  /\ s[i].index[1] \in 0 .. n - 1
                        /\ txn.outputs[s[i].index[1] + 1].script
                            = <<"commitment", s[i].key[1], s[i].index[1]>>
      OBVIOUS
    <3> DEFINE j == s[i].index[1]
    <3>1. j \in 0 .. n - 1 /\ slots[j + 1] = s[i]
      BY <2>1
    <3> HIDE DEF j
    <3>2. j + 1 \in 1 .. n /\ (j + 1) - 1 = j
      BY <1>1, <3>1
    <3>3. txn.outputs[j + 1].script = <<"commitment", slots[j + 1].key[1], (j + 1) - 1>>
      BY <2>14, <3>2
    <3> QED BY <3>1, <3>2, <3>3 DEF j
  <2>16. \A j \in 1 .. n : \E key : txn.outputs[j].script = <<"commitment", key, j - 1>>
    BY <2>14
  <2> QED BY <2>5, <2>7, <2>13, <2>14, <2>15, <2>16 DEF txn
<1> HIDE DEF made
<1> QED BY <1>5, <1>6 DEF made, s, v

(* What a plan that passes says of the payout. *)
LEMMA PlanPays ==
  ASSUME NEW q, q.price \in Nat, q.amount \in Nat, PlanError(Rail, q) = "none"
  PROVE  LET gross == (q.price * q.amount) \div UNIT
             user == PlanOf(Rail, q).user IN
         /\ q.rail = RailId(Rail) /\ gross \in Nat /\ user \in Int
         /\ user >= DUST_FLOOR_SATS /\ gross <= Rail.maxSize
         /\ 2 * Apart((gross - user - Rail.fixed) * 10000, gross * Rail.service) <= 10000
<1> DEFINE x == (q.amount * q.price) \div UNIT
           g == Gross(q)
           fee == RoundHalfUp(g, Rail.service)
           user == g - fee - Rail.fixed
<1>1. /\ Rail.service = 100 /\ Rail.fixed = 1 /\ Rail.maxSize = 120
      /\ Rail.oracle.class = "none" /\ Rail.settle = Primitives.atomicSwap
  BY RailsAre DEF RailOf, Primitives
<1>2. q.rail = RailId(Rail) /\ ~(g > Rail.maxSize) /\ ~(user < DUST_FLOOR_SATS)
  <2> HIDE DEF g
  <2>1. PlanError(Rail, q) =
          IF Rail.oracle.class # "none" \/ Rail.settle # Primitives.atomicSwap THEN "NotRail0"
          ELSE IF q.rail # RailId(Rail) THEN "RailIdMismatch"
          ELSE IF g > Rail.maxSize THEN "OverMaxSize"
          ELSE IF user < DUST_FLOOR_SATS THEN "DustPayout"
          ELSE "none"
    BY DEF PlanError, g
  <2> HIDE DEF user
  <2> QED BY <2>1
<1>3. PlanOf(Rail, q).user = user
  BY DEF PlanOf
<1>4. x \in Nat /\ x = (q.price * q.amount) \div UNIT
  <2>1. q.amount * q.price \in Nat /\ q.amount * q.price = q.price * q.amount
    OBVIOUS
  <2>2. UNIT \in Nat \ {0}
    BY RailsAssumption
  <2> QED BY <2>1, <2>2, FloorOf
<1>5. MaxU64 \in Nat /\ 120 < MaxU64
  BY RailsAssumption, KnobsAssumption DEF Knobs
<1> HIDE DEF x
<1>6. g \in Nat /\ g = x /\ g <= 120
  <2>1. g = Min({x, MaxU64})
    BY DEF Gross, x
  <2> HIDE DEF g
  <2>2. g = IF x <= MaxU64 THEN x ELSE MaxU64
    BY <1>4, <1>5, <2>1, LeastOfTwo
  <2> QED BY <1>1, <1>2, <1>4, <1>5, <2>2
<1> HIDE DEF g
<1>7. fee \in Int /\ fee * 10000 <= g * 100 + 5000 /\ g * 100 + 5000 < fee * 10000 + 10000
  <2>1. fee = (g * 100 + 5000) \div 10000
    BY <1>1 DEF RoundHalfUp
  <2> HIDE DEF fee
  <2> QED BY <1>6, <2>1
<1> HIDE DEF fee
<1>8. user \in Int /\ user = g - fee - 1
  BY <1>1, <1>6, <1>7
<1> HIDE DEF user
<1>9. 2 * Apart((g - user - 1) * 10000, g * 100) <= 10000
  BY <1>6, <1>7, <1>8 DEF Apart
<1>10. user >= DUST_FLOOR_SATS
  BY <1>2, <1>8, RailsAssumption
<1> QED BY <1>1, <1>2, <1>3, <1>4, <1>6, <1>8, <1>9, <1>10

(* What the quote of a task says. *)
LEMMA QuoteIs ==
  ASSUME NEW t \in SettlementTasks
  PROVE  LET q == QuoteFor(t) IN
         /\ q.rail = RailId(Rail) /\ q.price = t.price /\ q.amount = t.amount
         /\ t.price \in Nat /\ t.amount \in Nat
         /\ t.committed = t.amount =>
                q.commitment = LockTemplateCommitment(PlanOf(Rail, q))
<1>1. t.price \in Nat /\ t.amount \in Nat
  BY SettlementAssumption DEF SettlementTasks
<1> DEFINE r == RailId(Rail)
           q == QuoteFor(t)
           made(amount, c) == [rail |-> r, price |-> t.price, amount |-> amount,
                               expiry |-> 9, commitment |-> c]
           other == made(t.committed, Missing)
<1>2. q = made(t.amount, LockTemplateCommitment(PlanOf(Rail, other)))
  BY DEF QuoteFor
<1> HIDE DEF r
<1>3. q.rail = r /\ q.price = t.price /\ q.amount = t.amount
      /\ q.commitment = LockTemplateCommitment(PlanOf(Rail, other))
  <2> HIDE DEF other, q
  <2> QED BY <1>2
<1>4. ASSUME t.committed = t.amount PROVE PlanOf(Rail, q) = PlanOf(Rail, other)
  <2>1. other.rail = q.rail /\ other.amount = q.amount /\ other.price = q.price
    BY <1>3, <1>4
  <2> HIDE DEF other, q
  <2>2. Gross(q) = Gross(other)
    BY <2>1 DEF Gross
  <2> QED BY <2>1, <2>2 DEF PlanOf
<1> HIDE DEF other, q
<1> QED BY <1>1, <1>3, <1>4 DEF r, q

(* The slots of a settlement, its payout and what is read off it. *)
SlotsAreKept(t, v) ==
    LET n == Len(t.slots) IN
    /\ v.made = SlotsCount(t.slots)
    /\ v.made =>
        /\ v.tx.inputs[1].spends = [txid |-> Utxo.txid, vout |-> Utxo.vout]
        /\ \A i \in 1 .. n :
            v.tx.outputs[t.slots[i].index[1] + 1].script
                = <<"commitment", t.slots[i].key[1], t.slots[i].index[1]>>
        /\ v.tx.outputs[n + 1].script = t.to

OwnPayout(t) == t.on = Rail /\ t.off = 0 /\ t.to = <<"user">>

CountsAsPaid(t, point, paid) ==
    LET q == QuoteFor(t)
        gross == (t.price * t.amount) \div UNIT IN
    /\ OwnPayout(t)
    /\ point[1] = [price |-> t.price, volume |-> t.amount]
    /\ MatchesSettlement(PlanOf(Rail, q), t.amount, paid)
    /\ paid >= DUST_FLOOR_SATS /\ gross <= Rail.maxSize
    /\ 2 * Apart((gross - paid - Rail.fixed) * 10000, gross * Rail.service) <= 10000

(* The verdict on a settlement. *)
LEMMA SettlementVerdict ==
  ASSUME NEW t \in SettlementTasks
  PROVE  LET v == PerformSettlement(t) IN
         /\ SlotsAreKept(t, v)
         /\ v.made =>
             /\ v.point # Refused => CountsAsPaid(t, v.point, v.tx.outputs[Len(t.slots) + 1].sats)
             /\ OwnPayout(t) /\ t.committed = t.amount /\ PlanError(Rail, QuoteFor(t)) = "none"
                    => v.point # Refused
<1> DEFINE v == PerformSettlement(t)
           s == t.slots
           n == Len(s)
           built == SignCommit(Funded(Utxo, s), TemplateFor(t), 3)
           txn == built[1]
           q == QuoteFor(t)
           plan == PlanOf(Rail, q)
           point == VerifySettlement(t.on, q, <<"user">>, txn)
           gross == (t.price * t.amount) \div UNIT
           own == t.on = Rail /\ t.off = 0 /\ t.to = <<"user">>
<1>1. /\ t.on \in {Rail, OtherRail} /\ t.off \in {-1, 0, 1} /\ t.to \in {<<"user">>, <<"lp">>}
      /\ n \in Nat
  <2>1. s \in Slots /\ t.on \in {Rail, OtherRail} /\ t.off \in {-1, 0, 1} /\ t.to \in {<<"user">>, <<"lp">>}
    BY DEF SettlementTasks
  <2>2. s \in Seq(ToSet(s))
    BY <2>1, SettlementAssumption
  <2> DEFINE S == ToSet(s)
  <2> HIDE DEF S, s
  <2> QED BY <2>1, <2>2 DEF S
<1>2. /\ built # Refused <=> SlotsCount(s)
      /\ SlotsCount(s) =>
           /\ txn.inputs[1].spends = [txid |-> Utxo.txid, vout |-> Utxo.vout]
           /\ DOMAIN txn.outputs = 1 .. n + 3
           /\ \A i \in 1 .. n :
               /\ s[i].index[1] \in 0 .. n - 1
               /\ txn.outputs[s[i].index[1] + 1].script
                   = <<"commitment", s[i].key[1], s[i].index[1]>>
           /\ \A j \in 1 .. n : \E key : txn.outputs[j].script = <<"commitment", key, j - 1>>
           /\ txn.outputs[n + 1].script = t.to
           /\ txn.outputs[n + 1].sats = plan.user + t.off
           /\ txn.outputs[n + 2].script = <<"lp">>
           /\ txn.outputs[n + 3].script = <<"change">>
  BY TransactionIs
<1>3. v = IF built = Refused THEN [made |-> FALSE]
          ELSE [made |-> TRUE, tx |-> txn, point |-> point]
  BY DEF PerformSettlement
<1>4. /\ q.rail = RailId(Rail) /\ q.price = t.price /\ q.amount = t.amount
      /\ t.price \in Nat /\ t.amount \in Nat
      /\ t.committed = t.amount => q.commitment = LockTemplateCommitment(plan)
  BY QuoteIs
<1> HIDE DEF q
<1>5. point = IF \/ q.rail # RailId(t.on) \/ PlanError(t.on, q) # "none"
                 \/ q.commitment # LockTemplateCommitment(PlanOf(t.on, q))
              THEN Refused
              ELSE IF \E i \in DOMAIN txn.outputs :
                    txn.outputs[i].sats = PlanOf(t.on, q).user /\ txn.outputs[i].script = <<"user">>
              THEN <<[price |-> q.price, volume |-> q.amount]>>
              ELSE Refused
  <2> HIDE DEF txn
  <2> QED BY DEF VerifySettlement
<1>6. t.on # Rail => q.rail # RailId(t.on)
  BY <1>1, <1>4, RailsDiffer
<1>7. PlanError(Rail, q) = "none" =>
          /\ gross \in Nat /\ plan.user \in Int
          /\ plan.user >= DUST_FLOOR_SATS /\ gross <= Rail.maxSize
          /\ 2 * Apart((gross - plan.user - Rail.fixed) * 10000, gross * Rail.service) <= 10000
  BY <1>4, PlanPays
<1>8. \A x \in Nat : <<[price |-> x, volume |-> t.amount]>> # Refused
  BY DEF Refused
<1> HIDE DEF v, s, built, txn, point, plan, gross
<1>9. ASSUME SlotsCount(s), NEW i \in DOMAIN txn.outputs, txn.outputs[i].script = <<"user">>
      PROVE  i = n + 1 /\ t.to = <<"user">>
  <2>1. i \in 1 .. n \/ i = n + 1 \/ i = n + 2 \/ i = n + 3
    BY <1>1, <1>2, <1>9
  <2>2. CASE i \in 1 .. n
    <3>1. PICK key : txn.outputs[i].script = <<"commitment", key, i - 1>>
      BY <1>2, <1>9, <2>2
    <3>2. Len(<<"commitment", key, i - 1>>) = 3 /\ Len(<<"user">>) = 1
      OBVIOUS
    <3> QED BY <1>9, <3>1, <3>2
  <2>3. <<"user">> # <<"lp">> /\ <<"user">> # <<"change">>
    OBVIOUS
  <2> QED BY <1>2, <1>9, <2>1, <2>2, <2>3
<1>10. v.made <=> SlotsCount(s)
  BY <1>2, <1>3
<1>11. v.made \in BOOLEAN
  BY <1>3
<1>12. SlotsCount(s) => v.tx = txn /\ v.point = point
  BY <1>2, <1>3
<1>13. ASSUME SlotsCount(s), point # Refused
       PROVE  /\ own /\ point[1] = [price |-> t.price, volume |-> t.amount]
              /\ MatchesSettlement(plan, t.amount, txn.outputs[n + 1].sats)
              /\ txn.outputs[n + 1].sats = plan.user
              /\ PlanError(Rail, q) = "none"
  <2>1. t.on = Rail /\ PlanError(Rail, q) = "none"
    BY <1>5, <1>6, <1>13
  <2>2. PICK i \in DOMAIN txn.outputs :
          txn.outputs[i].sats = plan.user /\ txn.outputs[i].script = <<"user">>
    BY <1>5, <1>13, <2>1 DEF plan
  <2>3. point[1] = [price |-> t.price, volume |-> t.amount]
    BY <1>4, <1>5, <1>13
  <2>4. i = n + 1 /\ t.to = <<"user">>
    BY <1>9, <1>13, <2>2
  <2>5. plan.user \in Int /\ plan.user = plan.user + t.off
    BY <1>2, <1>7, <1>13, <2>1, <2>2, <2>4
  <2>6. t.off = 0
    BY <1>1, <2>5
  <2>7. plan.burn = t.amount
    BY <1>4 DEF plan, PlanOf
  <2> QED BY <2>1, <2>2, <2>3, <2>4, <2>6, <2>7 DEF MatchesSettlement
<1>14. ASSUME SlotsCount(s), own, t.committed = t.amount, PlanError(Rail, q) = "none"
       PROVE  point # Refused
  <2>1. t.on = Rail /\ q.commitment = LockTemplateCommitment(PlanOf(t.on, q))
    BY <1>4, <1>14 DEF plan
  <2>2. plan.user \in Int /\ txn.outputs[n + 1].sats = plan.user
        /\ txn.outputs[n + 1].script = <<"user">> /\ n + 1 \in DOMAIN txn.outputs
    <3>1. plan.user \in Int /\ t.off = 0
      BY <1>7, <1>14
    <3>2. n + 1 \in 1 .. n + 3
      BY <1>1
    <3> QED BY <1>2, <1>14, <3>1, <3>2
  <2>3. \E i \in DOMAIN txn.outputs :
          txn.outputs[i].sats = PlanOf(t.on, q).user /\ txn.outputs[i].script = <<"user">>
    BY <2>1, <2>2 DEF plan
  <2>4. point = <<[price |-> q.price, volume |-> q.amount]>>
    BY <1>4, <1>5, <1>14, <2>1, <2>3
  <2> QED BY <1>4, <1>8, <2>4
<1>15. v.made = SlotsCount(s)
  BY <1>10, <1>11 DEF SlotsCount
<1>16. SlotsCount(s) =>
             /\ v.tx.inputs[1].spends = [txid |-> Utxo.txid, vout |-> Utxo.vout]
             /\ \A i \in 1 .. n :
                 v.tx.outputs[s[i].index[1] + 1].script
                     = <<"commitment", s[i].key[1], s[i].index[1]>>
             /\ v.tx.outputs[n + 1].script = t.to
  BY <1>2, <1>12
<1>17. SlotsAreKept(t, v)
  BY <1>10, <1>15, <1>16 DEF SlotsAreKept, s
<1>18. SlotsCount(s) /\ v.point # Refused =>
          CountsAsPaid(t, v.point, v.tx.outputs[n + 1].sats)
  <2> SUFFICES ASSUME SlotsCount(s), v.point # Refused
               PROVE  CountsAsPaid(t, v.point, v.tx.outputs[n + 1].sats)
    OBVIOUS
  <2>1. /\ own /\ v.point[1] = [price |-> t.price, volume |-> t.amount]
        /\ MatchesSettlement(plan, t.amount, v.tx.outputs[n + 1].sats)
        /\ v.tx.outputs[n + 1].sats = plan.user
        /\ PlanError(Rail, q) = "none"
    BY <1>12, <1>13
  <2>2. /\ v.tx.outputs[n + 1].sats >= DUST_FLOOR_SATS /\ gross <= Rail.maxSize
        /\ 2 * Apart((gross - v.tx.outputs[n + 1].sats - Rail.fixed) * 10000,
                     gross * Rail.service) <= 10000
    BY <1>7, <2>1
  <2> QED BY <2>1, <2>2 DEF CountsAsPaid, OwnPayout, plan, q, gross
<1>19. SlotsCount(s) /\ OwnPayout(t) /\ t.committed = t.amount /\ PlanError(Rail, q) = "none"
          => v.point # Refused
  BY <1>12, <1>14 DEF OwnPayout
<1> QED BY <1>10, <1>17, <1>18, <1>19 DEF v, s, q

(* A verdict on a vault, a settlement, the marker or the allotment is that of its task. *)
TaskVerdicts ==
    /\ task.about = "backing" => task \in BackingTasks
    /\ task.about = "spend" => task \in SpendTasks
    /\ task.about = "presigned" => task \in PresignTasks
    /\ task.about = "crash" => task \in CrashTasks
    /\ task.about = "phases" => task \in PhaseTasks
    /\ task.about = "settlement" => task \in SettlementTasks
    /\ task.about = "marker" => task \in MarkerTasks
    /\ task.about = "allot" => task \in AllotTasks
    /\ verdict # <<>> /\ task.about = "backing" => verdict = <<PerformBacking(task)>>
    /\ verdict # <<>> /\ task.about = "spend" => verdict = <<PerformSpend(task)>>
    /\ verdict # <<>> /\ task.about = "presigned" => verdict = <<PerformPresigned(task)>>
    /\ verdict # <<>> /\ task.about = "crash" => verdict = <<PerformCrash(task)>>
    /\ verdict # <<>> /\ task.about = "phases" => verdict = <<PerformPhases(task)>>
    /\ verdict # <<>> /\ task.about = "settlement" => verdict = <<PerformSettlement(task)>>
    /\ verdict # <<>> /\ task.about = "marker" => verdict = <<PerformMarker(task)>>
    /\ verdict # <<>> /\ task.about = "allot" => verdict = <<PerformAllot(task)>>

OfTheseTasks ==
    {"backing", "spend", "presigned", "crash", "phases", "settlement", "marker", "allot"}

(* It always is. *)
LEMMA TaskVerdictsAlways == Spec => []TaskVerdicts
<1>1. Init => TaskVerdicts
  <2> SUFFICES ASSUME Init PROVE TaskVerdicts
    OBVIOUS
  <2>1. verdict = <<>>
    BY DEF Init
  <2>2. CASE task \in BackingTasks \/ task \in SpendTasks \/ task \in CrashTasks
    BY <2>1, <2>2 DEF TaskVerdicts, BackingTasks, SpendTasks, CrashTasks
  <2>3. CASE task \in PresignTasks
    <3>1. task.about = "presigned"
      BY <2>3 DEF PresignTasks
    <3> QED BY <2>1, <2>3, <3>1 DEF TaskVerdicts
  <2>4. CASE task \in SizeTasks \/ task \in ByteTasks \/ task \in IdentityTasks
    <3>1. task.about \in {"size", "bytes", "identity"}
      BY <2>4 DEF SizeTasks, ByteTasks, IdentityTasks
    <3> QED BY <2>1, <3>1 DEF TaskVerdicts
  <2>5. CASE task \in MessageTasks
    <3>1. task.about \in {"attestation", "announcement"}
      <4>1. \/ \E a \in Attestations :
                    task \in Alterations("attestation", a, Len(OracleAttestation(a)))
            \/ \E a \in Announcements :
                    task \in Alterations("announcement", a, Len(OracleAnnouncement(a)))
        BY <2>5 DEF MessageTasks
      <4>2. \A kind, a, n : task \in Alterations(kind, a, n) => task.about = kind
        BY DEF Alterations
      <4> QED BY <4>1, <4>2
    <3> QED BY <2>1, <3>1 DEF TaskVerdicts
  <2>6. CASE task \in QuoteTasks \/ task \in BurnTasks
    <3>1. task.about \in {"quotes", "burn"}
      BY <2>6 DEF QuoteTasks, BurnTasks
    <3> QED BY <2>1, <3>1 DEF TaskVerdicts
  <2>7. CASE task \in SettlementTasks
    <3>1. task.about = "settlement"
      BY <2>7 DEF SettlementTasks
    <3> QED BY <2>1, <2>7, <3>1 DEF TaskVerdicts
  <2>8. CASE task \in PhaseTasks \/ task \in MarkerTasks \/ task \in AllotTasks
    <3>1. /\ task \in PhaseTasks => task.about = "phases"
          /\ task \in MarkerTasks => task.about = "marker"
          /\ task \in AllotTasks => task.about = "allot"
      BY DEF PhaseTasks, MarkerTasks, AllotTasks
    <3> QED BY <2>1, <2>8, <3>1 DEF TaskVerdicts
  <2> QED BY <2>2, <2>3, <2>4, <2>5, <2>6, <2>7, <2>8 DEF Init
<1>2. TaskVerdicts /\ [Next]_<<task, verdict>> => TaskVerdicts'
  <2> SUFFICES ASSUME TaskVerdicts, [Next]_<<task, verdict>> PROVE TaskVerdicts'
    OBVIOUS
  <2>1. CASE UNCHANGED <<task, verdict>>
    BY <2>1 DEF TaskVerdicts
  <2>2. CASE RunBacking
    BY <2>2 DEF TaskVerdicts, RunBacking, Done
  <2>3. CASE RunSpend
    BY <2>3 DEF TaskVerdicts, RunSpend, Done
  <2>4. CASE RunPresigned
    BY <2>4 DEF TaskVerdicts, RunPresigned, Done
  <2>5. CASE RunCrash
    BY <2>5 DEF TaskVerdicts, RunCrash, Done
  <2>6. CASE RunPhases
    BY <2>6 DEF TaskVerdicts, RunPhases, Done
  <2>7. CASE RunSettlement
    BY <2>7 DEF TaskVerdicts, RunSettlement, Done
  <2>8. CASE RunMarker
    BY <2>8 DEF TaskVerdicts, RunMarker, Done
  <2>9. CASE RunAllot
    BY <2>9 DEF TaskVerdicts, RunAllot, Done
  <2>10. ASSUME task' = task, task.about \notin OfTheseTasks PROVE TaskVerdicts'
    BY <2>10 DEF TaskVerdicts, OfTheseTasks
  <2>11. CASE RunSize \/ RunBytes \/ RunMessage \/ RunIdentity \/ RunQuotes \/ RunBurn
    BY <2>10, <2>11 DEF RunSize, RunBytes, RunMessage, RunIdentity, RunQuotes, RunBurn, Done,
                        OfTheseTasks
  <2> QED BY <2>1, <2>2, <2>3, <2>4, <2>5, <2>6, <2>7, <2>8, <2>9, <2>11 DEF Next
<1> QED BY <1>1, <1>2, PTL DEF Spec


(* A position that verifies is backed until it matures. *)
THEOREM PositionsStayBacked == Spec => []BackedToMaturity
<1>1. TaskVerdicts => BackedToMaturity
  <2> SUFFICES ASSUME TaskVerdicts PROVE BackedToMaturity
    OBVIOUS
  <2>1. VerifiedIsBacked
    <3> SUFFICES ASSUME Finished({"backing"})
                 PROVE  /\ verdict[1] = "none" =>
                            /\ task.of = "it" /\ task.sats = 0
                            /\ task.terms.collateral * task.price * MICRO_PER_USD * 10000
                                    >= task.terms.opening * task.terms.mint * SATS_PER_BTC
                            /\ task.terms.liq < task.terms.opening /\ task.terms.mint > 0
                                    => task.price > CrashPriceCeiling(task.terms)
                        /\ task.of = "it" /\ task.sats = 0 /\ OpeningOk(task.terms, task.price)
                                => verdict[1] = "none"
      BY DEF VerifiedIsBacked
    <3>1. task \in BackingTasks /\ verdict[1] = PerformBacking(task)
      BY DEF TaskVerdicts, Finished
    <3> QED BY <3>1, BackingHolds
  <2>2. SpentByBoth
    <3> SUFFICES ASSUME Finished({"spend"})
                 PROVE  /\ verdict[1].key \/ verdict[1].leaf => "H" \in task.signers
                        /\ (verdict[1].key \/ verdict[1].leaf) /\ task.age < 2
                                => task.signers = {"H", "L"}
                        /\ task.holderOnly /\ task.age >= 2 /\ "H" \in task.signers
                                => verdict[1].leaf
      BY DEF SpentByBoth
    <3>1. task \in SpendTasks /\ verdict[1] = PerformSpend(task)
      BY DEF TaskVerdicts, Finished
    <3> QED BY <3>1, SpendHolds
  <2>3. OpenedByItsBucket
    <3> SUFFICES ASSUME Finished({"presigned"})
                 PROVE  /\ verdict[1].accepted =>
                            /\ task.checked = task.signed /\ task.under # "other"
                            /\ task.msg = "settle"
                            /\ verdict[1].opens = (BucketOfPrice(task.price, task.m) = task.checked)
                        /\ task.checked = task.signed /\ task.under = "this" /\ task.msg = "settle"
                            => verdict[1].accepted
      BY DEF OpenedByItsBucket
    <3>1. task \in PresignTasks /\ verdict[1] = PerformPresigned(task)
      BY DEF TaskVerdicts, Finished
    <3> QED BY <3>1, PresignedHolds
  <2>4. CASE ~Finished({"crash"})
    BY <2>1, <2>2, <2>3, <2>4
       DEF BackedToMaturity, CrashHasOneBucket, CrashSharesAll, LegsShareAll
  <2>5. CASE Finished({"crash"})
    <3> DEFINE t == task
               v == verdict[1]
               s == CrashSchedule(t.terms, t.params)
    <3>1. t \in CrashTasks /\ v = PerformCrash(t)
      BY <2>5 DEF TaskVerdicts, Finished
    <3>2. /\ v.schedule = s /\ v.ceiling = CrashPriceCeiling(t.terms)
          /\ v.ratio = CrBps(t.terms.collateral, t.terms.mint, t.price)
          /\ t.price # 0 => v.legs = PayoutAt(t.terms, t.price)
      BY <3>1 DEF PerformCrash
    <3>3. t.terms \in Terms /\ t.params \in Params /\ t.price \in Nat
      BY <3>1, NumbersAreNat DEF CrashTasks
    <3>4. /\ t.terms.collateral \in Nat /\ t.terms.collateral <= MaxSats /\ t.terms.mint \in Nat
          /\ t.terms.m \in 1..PriceDigits
      BY <3>3, TermsTypes
    <3> HIDE DEF t, v
    <3>5. CrashHasOneBucket
      <4>1. /\ t.price < CrashPriceCeiling(t.terms) /\ t.price < 2 ^ PriceDigits =>
                Cardinality({n \in DOMAIN s : t.price >= s[n].bucket.lo /\ t.price < s[n].bucket.hi}) = 1
            /\ \A n \in DOMAIN s :
                    t.price >= s[n].bucket.lo /\ t.price < s[n].bucket.hi
                        => BucketOfPrice(t.price, t.terms.m) = s[n].bucket.index
        BY <3>3, CrashBuckets
      <4> HIDE DEF s
      <4> QED BY <3>2, <4>1 DEF CrashHasOneBucket, t, v
    <3>6. CrashSharesAll
      <4>1. ASSUME NEW n \in DOMAIN s
            PROVE  /\ s[n].payout.reserve + s[n].payout.broadcaster + s[n].payout.minter
                            = Max({0, t.terms.collateral - t.params.fee})
                   /\ s[n].payout.broadcaster <= t.params.cap
                   /\ s[n].payout.minter > 0 => ReserveShortfall(s[n].payout, t.terms, s[n].price) = 0
        <5>1. \A i \in DOMAIN s : /\ s[i].price \in Nat
                                 /\ s[i].payout = CrashPayout(t.terms, s[i].price, t.params)
          BY <3>4, ScheduleIs
        <5>2. s[n].price \in Nat /\ s[n].payout = CrashPayout(t.terms, s[n].price, t.params)
          BY <4>1, <5>1
        <5>3. SharesAll(CrashPayout(t.terms, s[n].price, t.params), t.terms, s[n].price, t.params)
          BY <3>3, <3>4, <5>2, PayoutShares
        <5> HIDE DEF s
        <5> QED BY <5>2, <5>3 DEF SharesAll
      <4> HIDE DEF s
      <4> QED BY <3>2, <4>1 DEF CrashSharesAll, t, v
    <3>7. LegsShareAll
      <4> SUFFICES ASSUME t.price > 0
                   PROVE  /\ v.legs[1] + v.legs[2] = t.terms.collateral
                          /\ v.legs[1] <= (t.terms.mint * SATS_PER_BTC) \div (t.price * MICRO_PER_USD)
                          /\ v.ratio >= 10000 =>
                                v.legs[1] = (t.terms.mint * SATS_PER_BTC) \div (t.price * MICRO_PER_USD)
        BY DEF LegsShareAll, t, v
      <4>1. t.price \in Nat \ {0} /\ v.legs = PayoutAt(t.terms, t.price)
        BY <3>2, <3>3
      <4> QED BY <3>2, <3>4, <4>1, LegsShare
    <3> QED BY <2>1, <2>2, <2>3, <3>5, <3>6, <3>7 DEF BackedToMaturity
  <2> QED BY <2>4, <2>5
<1> QED BY <1>1, TaskVerdictsAlways, PTL

(* Everyone is held to what was quoted. *)
THEOREM SettlementsStayBound == Spec => []SettlementsBind
<1>1. TaskVerdicts => SettlementsBind
  <2> SUFFICES ASSUME TaskVerdicts PROVE SettlementsBind
    OBVIOUS
  <2>1. ConversionsEndOnce
    <3> SUFFICES ASSUME Finished({"phases"}), verdict[1]
                 PROVE  /\ \A i \in DOMAIN task.walk :
                                IsTerminal(task.walk[i]) => i = Len(task.walk)
                        /\ task.collapsed => ToSet(task.walk) \subseteq {"quote", "settle"}
                        /\ Len(task.walk) = (IF task.collapsed THEN 2 ELSE 3)
                                => IsTerminal(Last(task.walk))
      BY DEF ConversionsEndOnce
    <3>1. verdict # <<>> /\ task.about = "phases"
      BY DEF Finished
    <3>2. task \in PhaseTasks /\ verdict = <<PerformPhases(task)>>
      BY <3>1 DEF TaskVerdicts
    <3>3. PerformPhases(task)
      <4> DEFINE p == PerformPhases(task)
      <4>1. p \in BOOLEAN
        BY DEF PerformPhases
      <4> HIDE DEF p
      <4>2. verdict = <<p>>
        BY <3>2 DEF p
      <4>3. <<p>>[1] = p
        OBVIOUS
      <4>4. p
        BY <4>1, <4>2, <4>3
      <4> QED BY <4>4 DEF p
    <3> QED BY <3>2, <3>3, PhasesEnd
  <2>2. SlotsKeepTheirKeys /\ SettlementsPayTheQuote
    <3> DEFINE v == verdict[1]
    <3>1. CASE ~Finished({"settlement"})
      <4>1. SlotsKeepTheirKeys
        BY <3>1 DEF SlotsKeepTheirKeys
      <4>2. SettlementsPayTheQuote
        BY <3>1 DEF SettlementsPayTheQuote
      <4> QED BY <4>1, <4>2
    <3>2. CASE Finished({"settlement"})
      <4>1. task \in SettlementTasks /\ v = PerformSettlement(task)
        BY <3>2 DEF TaskVerdicts, Finished
      <4>2. /\ SlotsAreKept(task, v)
            /\ v.made =>
                /\ v.point # Refused =>
                    CountsAsPaid(task, v.point, v.tx.outputs[Len(task.slots) + 1].sats)
                /\ OwnPayout(task) /\ task.committed = task.amount
                        /\ PlanError(Rail, QuoteFor(task)) = "none" => v.point # Refused
        BY <4>1, SettlementVerdict
      <4>3. SlotsKeepTheirKeys
        BY <4>2 DEF SlotsKeepTheirKeys, SlotsAreKept, SlotsCount, IndexesOf
      <4>4. SettlementsPayTheQuote
        BY <4>2 DEF SettlementsPayTheQuote, CountsAsPaid, OwnPayout
      <4> QED BY <4>3, <4>4
    <3> QED BY <3>1, <3>2
  <2>3. MarketPriceIsHonest
    <3> SUFFICES ASSUME Finished({"marker"}), verdict[1].internal # Refused,
                        NEW honest \in SUBSET DOMAIN task.points
                 PROVE  LET prices == {task.points[i].price : i \in honest} IN
                        /\ HonestMarket(task.points, honest)
                        /\ Max(prices) - Min(prices) <= BpsOf(Min(prices), TRIM_BPS)
                        => verdict[1].internal[1] \in Min(prices) .. Max(prices)
      BY DEF MarketPriceIsHonest
    <3>1. task \in MarkerTasks /\ verdict[1] = PerformMarker(task)
      BY DEF TaskVerdicts, Finished
    <3> QED BY <3>1, MarkerVerdict
  <2>4. MarkerStaysInItsBand
    <3> SUFFICES ASSUME Finished({"marker"})
                 PROVE  LET internal == verdict[1].internal
                            marker == verdict[1].marker IN
                        /\ marker # Invalid =>
                            /\ Apart(marker[1], task.external) <= BpsOf(task.external, task.blend.clip)
                            /\ internal # Refused =>
                                Apart(internal[1], task.external)
                                    <= BpsOf(task.external, task.blend.halt)
                        /\ marker = Invalid => internal # Refused
      BY DEF MarkerStaysInItsBand
    <3>1. task \in MarkerTasks /\ verdict[1] = PerformMarker(task)
      BY DEF TaskVerdicts, Finished
    <3> QED BY <3>1, MarkerVerdict
  <2>5. AllotmentsFitTheReserve
    <3>1. CASE ~Finished({"allot"})
      BY <3>1 DEF AllotmentsFitTheReserve
    <3>2. CASE Finished({"allot"})
      <4>1. task \in AllotTasks /\ verdict[1] = PerformAllot(task)
        BY <3>2 DEF TaskVerdicts, Finished
      <4> QED BY <4>1, AllotVerdict DEF AllotmentsFitTheReserve
    <3> QED BY <3>1, <3>2
  <2> QED BY <2>1, <2>2, <2>3, <2>4, <2>5 DEF SettlementsBind
<1> QED BY <1>1, TaskVerdictsAlways, PTL

=============================================================================
