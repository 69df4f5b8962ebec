--------------------------- MODULE SignatureRuns ----------------------------
(***************************************************************************)
(* Tasks that put the algorithms of Signatures to use the way the rails    *)
(* do, from the keys to a signature on chain, and what must come out.      *)
(***************************************************************************)
EXTENDS Signatures

CONSTANTS Dealings,   \* the members' dealing seeds, sequences of length N
          Ticks, Prices,
          Quorums,    \* sequences of members, T or more, without repetition
          Lengths,   \* how many digits make a bucket
          Parties,    \* the two secret keys of a vault
          Messages

ASSUME RunsAssumption ==
    /\ Ticks \cup Prices \cup Messages \subseteq Nat
    /\ Lengths \subseteq 1..NbDigits
    /\ Parties \subseteq (1..Q - 1) \X (1..Q - 1)
    /\ Dealings \subseteq [1..N -> Nat]
    /\ \A q \in Quorums : q \in Seq(1..N) /\ Len(q) >= T /\ IsInjective(q)

VARIABLES task, outcome

(* Whoever attests gives the key, the announced nonces, the signatures.    *)
Attestation(px, price, nonces, sigs) ==
    [key |-> px, price |-> price, digits |-> Digits(price), nonces |-> nonces, sigs |-> sigs]

OracleAttests(seed, ts, price) ==
    Attestation(EvenY(OracleKey(seed)), price, Announce(seed, ts), Attest(seed, ts, price))

CohortKeys(seeds) ==
    LET dealt == [i \in 1..N |-> Dealt(seeds[i], i)] IN
    [i \in 1..N |-> FinalizeKey(dealt, i)]

CohortAttests(seeds, ts, price, quorum) ==
    LET keys == CohortKeys(seeds)
        own(p) == MemberSeed(seeds[quorum[p]], quorum[p])
        des(i) == [p \in DOMAIN quorum |-> NoncePair(own(p), ts, i)]
        shares(i) == [p \in DOMAIN quorum |->
            SigShare(keys[quorum[p]], own(p), ts, i, Digits(price)[i], quorum, des(i), p)] IN
    Attestation(keys[1].group, price,
                [i \in 1..NbDigits |-> AggregateNonce(ts, i, quorum, des(i))],
                [i \in 1..NbDigits |-> AggregateSignature(ts, i, quorum, des(i), shares(i))])

(* A cohort attests one price, a single oracle two of the same tick.       *)
CohortTasks == [by : {"cohort"}, seeds : Dealings, ts : Ticks, price : Prices, quorum : Quorums]
OracleTasks == [by : {"oracle"}, seed : Ticks, ts : Ticks, price : Prices, other : Prices]

(* A settlement is pre-signed for a bucket by the LP alone or by both      *)
(* parties of a vault, and opened with the attestation of a price.         *)
OpeningTasks ==
    UNION {[by : {"rail1", "vault"}, m : {m}, bucket : 0..2 ^ m - 1, price : Prices,
            ts : Ticks, party : Parties, msg : Messages] : m \in Lengths}

Presigned(t) ==
    LET ann == Announce(1, t.ts)
        px == EvenY(OracleKey(1))
        point == BucketAdaptorPoint(ann, px, t.m, t.bucket)
        att == OracleAttests(1, t.ts, t.price)
        secret == BucketSecret(att.sigs, t.price, t.m, t.bucket)
        pre == IF t.by = "rail1" THEN Presign(t.party[1], t.msg, t.msg, point)
               ELSE CosignKeyspendAdaptor(t.party, t.msg, t.msg, point)
        key == IF t.by = "rail1" THEN EvenY(t.party[1]) ELSE AggregateQ(t.party, t.msg) IN
    [key |-> key, point |-> point, secret |-> secret, pre |-> pre,
     sound |-> IF t.by = "rail1" THEN VerifyPresig(pre, key, t.msg, point)
               ELSE VerifyKeyspendAdaptor(pre, key, t.msg, point),
     final |-> IF t.by = "rail1" THEN Decrypt(pre, secret) ELSE AdaptKeyspend(pre, secret),
     joint |-> CosignKeyspend(t.party, t.msg, t.msg)]

Perform(t) ==
    CASE t.by = "cohort" -> CohortAttests(t.seeds, t.ts, t.price, t.quorum)
      [] t.by = "oracle" -> <<OracleAttests(t.seed, t.ts, t.price),
                              OracleAttests(t.seed, t.ts, t.other)>>
      [] OTHER -> Presigned(t)

Init == task \in CohortTasks \cup OracleTasks \cup OpeningTasks /\ outcome = <<>>

Run == outcome = <<>> /\ outcome' = Perform(task) /\ UNCHANGED task

Spec == Init /\ [][Run]_<<task, outcome>>

(***************************************************************************)
(* Properties.                                                             *)
(***************************************************************************)
Finished(by) == outcome /= <<>> /\ task.by \in by
Failed(sigs) == \E i \in DOMAIN sigs : sigs[i].s = 0 \/ sigs[i].r = 0

(* Any quorum of the members that dealt together signs like one oracle:    *)
(* all of them compute one group key, whose secret any quorum's shares     *)
(* interpolate to, and each digit's sum of shares is a BIP-340 signature   *)
(* of that key with the announced nonce, whatever the parities of key and  *)
(* nonce.                                                                  *)
CohortSignsAsOne ==
    Finished({"cohort"}) =>
        LET keys == CohortKeys(task.seeds)
            q == task.quorum IN
        \/ \E i \in 1..N : keys[i] = NoKey
        \/ Failed(outcome.sigs)
        \/ /\ \A i \in 1..N : keys[i].group = outcome.key
           /\ EvenY(Total([p \in DOMAIN q |-> Mul(LagrangeAtZero(q[p], q), keys[q[p]].x)]))
                \in {0, outcome.key}
           /\ \A i \in 1..NbDigits :
                /\ outcome.sigs[i].r = outcome.nonces[i]
                /\ Verify(outcome.key, outcome.digits[i], outcome.sigs[i])

(* Two attestations of one tick give the oracle's key to anyone exactly    *)
(* when they disagree on a digit.                                          *)
ConflictRevealsKey ==
    Finished({"oracle"}) =>
        LET a == outcome[1]
            b == outcome[2]
            d == VerifyEquivocation(a, b, a.key) IN
        \/ Failed(a.sigs) \/ Failed(b.sigs)
        \/ /\ d = 0
           /\ \/ Clamped(task.price) = Clamped(task.other)
              \/ \E i \in Conflicts(a, b) : Challenge(a.nonces[i], a.key, 0)
                                              = Challenge(a.nonces[i], a.key, 1)
        \/ d = EvenY(OracleKey(task.seed)) /\ Clamped(task.price) /= Clamped(task.other)

(* What a party checks before it locks coins is true of what was           *)
(* pre-signed, and the attestation of a price then opens the settlement of *)
(* that price's bucket to a valid signature, and no other bucket's.  What  *)
(* both parties of a vault sign without an attestation is valid at once.   *)
AttestationOpensItsBucket ==
    Finished({"rail1", "vault"}) =>
        \/ outcome.point = 0 \/ outcome.pre.s = 0
        \/ /\ outcome.sound
           /\ task.by = "vault" /\ outcome.joint.s /= 0
                => Verify(outcome.key, task.msg, outcome.joint)
           /\ IF BucketOf(task.price, task.m) = task.bucket
              THEN \/ outcome.secret = 0 \/ outcome.final.s = 0
                   \/ /\ Verify(outcome.key, task.msg, outcome.final)
                      /\ task.by = "rail1"
                            => RecoverT(outcome.pre, outcome.final) = outcome.secret
              ELSE outcome.secret = 0 /\ ~Verify(outcome.key, task.msg, outcome.final)
=============================================================================
