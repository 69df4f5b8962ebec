----------------------------- MODULE Signatures -----------------------------
(***************************************************************************)
(* The signature algorithms of the second generation, in a small group:    *)
(* BIP-340 with a nonce committed in advance (schnorr.rs), the oracle that *)
(* signs digits with it (oracle.rs), the threshold cohort (frost.rs), the  *)
(* adaptor signatures of the settlement transactions (adaptor.rs), their   *)
(* buckets (cet.rs) and the two-party signatures of the vault (musig.rs).  *)
(*                                                                         *)
(* A scalar is a number modulo the prime Q and the point s.G is s itself.  *)
(* 0 is no valid key, scalar or point to the library, whose operations     *)
(* fail on it: here it stands for that failure, and every operation        *)
(* returns 0 when given 0.  The y coordinate of p is odd when p > Q/2, so  *)
(* that p and -p have different parities; an x-only key is the even one of *)
(* the two.                                                                *)
(***************************************************************************)
EXTENDS Naturals, SequencesExt

CONSTANTS Q, Width,    \* order of the group, a prime, and its bits
          N, T,        \* cohort: participants, threshold
          NbDigits,    \* binary digits of an outcome
          Hash(_, _)   \* tagged_hash: tag, sequence of numbers -> 1..Q-1

ASSUME SignatureAssumption ==
    /\ Q \in Nat /\ Q > 2 /\ \A a, b \in 2..Q - 1 : a * b /= Q
    /\ Width \in Nat /\ Q < 2 ^ Width
    /\ N \in Nat /\ T \in 2..N /\ N < Q
    /\ NbDigits \in Nat \ {0}

(* What the proofs take of the hash: it gives a scalar that is not 0.  The *)
(* code reduces a challenge modulo the order and refuses a key or a nonce  *)
(* that exceeds it, the library refuses 0: either once in 2^128 calls.     *)
HashTags == {"challenge", "key", "nonce", "seed", "coeff", "pok", "pok-nonce", "hiding",
             "binding", "rho", "presign", "keyagg", "taptweak", "musig", "noncecoef"}
HashGivesScalars == \A tag \in HashTags, args \in Seq(Nat) : Hash(tag, args) \in 1..Q - 1

(***************************************************************************)
(* Scalars and points.                                                     *)
(***************************************************************************)
Add(a, b) == IF a = 0 \/ b = 0 THEN 0 ELSE (a + b) % Q
Mul(a, b) == (a * b) % Q
Neg(a) == (Q - a) % Q

(* A sum in the order of the code, which fails at any partial sum of 0.    *)
Total(s) == FoldLeft(Add, Head(s), Tail(s))

(* Bit i of a number of that width, the most significant first.            *)
Bit(v, width, i) == (v \div 2 ^ (width - i)) % 2

(* Square and multiply; invert_mod_n is Fermat's a^(Q-2).                  *)
Power(a, k) ==
    FoldLeft(LAMBDA acc, b : Mul(Mul(acc, acc), IF Bit(k, Width, b) = 1 THEN a ELSE 1),
             1, [b \in 1..Width |-> b])
Invert(a) == Power(a, Q - 2)
Sub(a, b) == Add(a, Neg(b))

Odd(p) == p > Q \div 2
EvenY(p) == IF Odd(p) THEN Neg(p) ELSE p

(***************************************************************************)
(* BIP-340.                                                                *)
(***************************************************************************)
Challenge(r, px, m) == Hash("challenge", <<r, px, m>>)

SignWithNonce(sk, k, m) ==
    LET e == Challenge(EvenY(k), EvenY(sk), m) IN
    [r |-> EvenY(k), s |-> Add(EvenY(k), Mul(EvenY(sk), e))]

(* The library's verifier.                                                 *)
Verify(px, m, sig) ==
    /\ sig.r /= 0 /\ sig.s /= 0
    /\ sig.s = (sig.r + Challenge(sig.r, px, m) * px) % Q

AnticipationPoint(rx, px, m) == Add(rx, Mul(px, Challenge(rx, px, m)))

(* Mutant of ScalarDifference: the signatures are exchanged.               *)
ScalarDifferenceSwapped(a, b) == Sub(b.s, a.s)

ScalarDifference(a, b) == Sub(a.s, b.s)

(* Two signatures with one nonce; 0 when they do not give the key of px.   *)
ExtractSecret(a, b, ma, mb, px) ==
    LET de == Sub(Challenge(a.r, px, ma), Challenge(a.r, px, mb))
        d == Mul(ScalarDifference(a, b), Invert(de)) IN
    IF a.r /= b.r \/ ma = mb \/ de = 0 \/ EvenY(d) /= px THEN 0 ELSE d

(***************************************************************************)
(* A single oracle.                                                        *)
(***************************************************************************)
MaxOutcome == 2 ^ NbDigits - 1
Clamped(price) == IF price > MaxOutcome THEN MaxOutcome ELSE price
Digits(price) == [i \in 1..NbDigits |-> Bit(Clamped(price), NbDigits, i)]

OracleKey(seed) == Hash("key", <<seed>>)
Nonce(seed, ts, i) == Hash("nonce", <<seed, ts, i>>)

Announce(seed, ts) == [i \in 1..NbDigits |-> EvenY(Nonce(seed, ts, i))]
Attest(seed, ts, price) ==
    [i \in 1..NbDigits |->
        SignWithNonce(OracleKey(seed), Nonce(seed, ts, i), Digits(price)[i])]

(* verify_equivocation: the key, from the first digit that differs.        *)
Conflicts(a, b) == {i \in 1..NbDigits : a.digits[i] /= b.digits[i]}
VerifyEquivocation(a, b, px) ==
    LET i == Min(Conflicts(a, b)) IN
    IF /\ Conflicts(a, b) /= {}
       /\ Verify(px, a.digits[i], a.sigs[i]) /\ Verify(px, b.digits[i], b.sigs[i])
    THEN ExtractSecret(a.sigs[i], b.sigs[i], a.digits[i], b.digits[i], px)
    ELSE 0

(***************************************************************************)
(* The threshold cohort.                                                   *)
(***************************************************************************)

(* Dealer::new: seed, polynomial and commitment, which is Poly again.      *)
MemberSeed(seed, i) == Hash("seed", <<seed, i>>)
Poly(seed) == [k \in 1..T |-> Hash("coeff", <<seed, k>>)]
PokMessage(i, c0) == Hash("pok", <<i, c0>>)

Dealt(seed, i) ==
    LET own == MemberSeed(seed, i) IN
    [poly |-> Poly(own),
     pok |-> SignWithNonce(Poly(own)[1], Hash("pok-nonce", <<own>>),
                           PokMessage(i, Poly(own)[1]))]

(* poly_eval is Horner's rule, eval_commitment adds the powers up.         *)
PolyEval(poly, x) ==
    FoldLeft(LAMBDA acc, c : Add(Mul(acc, x), c), Last(poly), Reverse(Front(poly)))
EvalCommitment(poly, x) ==
    Total([k \in DOMAIN poly |-> IF k = 1 THEN poly[1] ELSE Mul(poly[k], Power(x, k - 1))])

VerifyRound1(i, d) == Verify(EvenY(d.poly[1]), PokMessage(i, d.poly[1]), d.pok)
VerifyRound2Share(share, poly, i) == share /= 0 /\ share = EvalCommitment(poly, i)

(* finalize_key of member i; NoKey when a check or a sum fails.            *)
NoKey == [x |-> 0, group |-> 0, odd |-> FALSE]
FinalizeKey(dealt, i) ==
    LET x == Total([j \in 1..N |-> PolyEval(dealt[j].poly, i)])
        pk == Total([j \in 1..N |-> dealt[j].poly[1]]) IN
    IF /\ x /= 0 /\ pk /= 0
       /\ \A j \in 1..N :
            /\ VerifyRound1(j, dealt[j])
            /\ VerifyRound2Share(PolyEval(dealt[j].poly, i), dealt[j].poly, i)
    THEN [x |-> x, group |-> EvenY(pk), odd |-> Odd(pk)]
    ELSE NoKey

(* The product of the factors of the others, in one loop that skips j.     *)
OthersProduct(j, quorum, factor) ==
    FoldLeft(LAMBDA acc, p : IF quorum[p] = j THEN acc ELSE Mul(acc, factor[p]),
             1, [p \in DOMAIN quorum |-> p])

LagrangeAtZero(j, quorum) ==
    Mul(OthersProduct(j, quorum, quorum),
        Invert(OthersProduct(j, quorum, [p \in DOMAIN quorum |-> Sub(quorum[p], j)])))

(* The pair of nonces of a member for a digit of a tick, (d, e).           *)
NoncePair(seed, ts, i) == <<Hash("hiding", <<seed, ts, i>>), Hash("binding", <<seed, ts, i>>)>>

CommitmentSet(ts, i, quorum, des) ==
    <<ts, i>> \o FlattenSeq([m \in DOMAIN quorum |-> <<quorum[m], des[m][1], des[m][2]>>])
BindingFactor(j, ts, i, quorum, des) == Hash("rho", <<j>> \o CommitmentSet(ts, i, quorum, des))

(* nonce_session: the sum of all D + rho.E.                                *)
Rhos(ts, i, quorum, des) ==
    [m \in DOMAIN quorum |-> BindingFactor(quorum[m], ts, i, quorum, des)]
SessionNonce(ts, i, quorum, des) ==
    LET rho == Rhos(ts, i, quorum, des) IN
    Total([m \in DOMAIN quorum |-> Add(des[m][1], Mul(des[m][2], rho[m]))])

Signed(odd, v) == IF odd THEN Neg(v) ELSE v

(* Mutant of KeyPart: the parity of the group key is forgotten.            *)
KeyPartUnsigned(key, lambda, e) == Mul(Mul(lambda, key.x), e)

(* e.lambda.x, negated when the group key has an odd y.                    *)
KeyPart(key, lambda, e) == Signed(key.odd, Mul(Mul(lambda, key.x), e))

(* The share of the member at position p of the quorum, for digit i.       *)
SigShare(key, seed, ts, i, digit, quorum, des, p) ==
    LET r == SessionNonce(ts, i, quorum, des)
        own == NoncePair(seed, ts, i)
        nonce == Add(own[1], Mul(own[2], Rhos(ts, i, quorum, des)[p]))
        e == Challenge(EvenY(r), key.group, digit) IN
    Add(Signed(Odd(r), nonce), KeyPart(key, LagrangeAtZero(quorum[p], quorum), e))

(* aggregate_announcement and aggregate_attestation for one digit.         *)
AggregateNonce(ts, i, quorum, des) == EvenY(SessionNonce(ts, i, quorum, des))
AggregateSignature(ts, i, quorum, des, shares) ==
    [r |-> AggregateNonce(ts, i, quorum, des), s |-> Total(shares)]

(***************************************************************************)
(* Buckets of outcomes and adaptor signatures.                             *)
(***************************************************************************)
BucketOf(price, m) == Clamped(price) \div 2 ^ (NbDigits - m)

BucketAdaptorPoint(ann, px, m, bucket) ==
    Total([i \in 1..m |-> AnticipationPoint(ann[i], px, Bit(bucket, m, i))])

(* Mutant of BucketSecret: every digit's scalar is added.                  *)
BucketSecretAll(att, price, m, bucket) ==
    IF BucketOf(price, m) /= bucket THEN 0 ELSE Total([i \in 1..NbDigits |-> att[i].s])

(* 0 when the price is in another bucket.                                  *)
BucketSecret(att, price, m, bucket) ==
    IF BucketOf(price, m) /= bucket THEN 0 ELSE Total([i \in 1..m |-> att[i].s])

(* presign tries nonces until R + T has an even y; it fails after 256.     *)
MaxAttempts == 256
NonceCandidate(base, i) == Hash("presign", <<base, i>>)
EvenAttempts(base, t) ==
    {i \in 0..MaxAttempts - 1 : ~Odd(Add(NonceCandidate(base, i), t))}

Presign(sk, base, m, t) ==
    LET k == NonceCandidate(base, Min(EvenAttempts(base, t)))
        c == Add(k, t) IN
    IF EvenAttempts(base, t) = {} THEN [combined |-> 0, r |-> 0, s |-> 0]
    ELSE [combined |-> c, r |-> k,
          s |-> IF c = 0 THEN 0 ELSE Add(k, Mul(EvenY(sk), Challenge(c, EvenY(sk), m)))]

VerifyPresig(pre, px, m, t) ==
    LET c == Add(pre.r, t) IN
    /\ c /= 0 /\ ~Odd(c) /\ c = pre.combined
    /\ pre.s /= 0 /\ pre.s = Add(pre.r, Mul(px, Challenge(c, px, m)))

Decrypt(pre, t) == [r |-> pre.combined, s |-> Add(pre.s, t)]
RecoverT(pre, sig) == Sub(sig.s, pre.s)

(***************************************************************************)
(* The vault's two-party key and its adaptor signatures.  What the musig2  *)
(* library does is external; the tweak, the nonce seeds and the order of   *)
(* the two signers, minter and reserve, are musig.rs's.                    *)
(***************************************************************************)
KeyCoeff(pks, i) == Hash("keyagg", pks \o <<i>>)
Aggregated(pks) == Total([i \in 1..2 |-> Mul(pks[i], KeyCoeff(pks, i))])

InternalKey(pks) == EvenY(Aggregated(pks))
Tweak(pks, root) == Hash("taptweak", <<InternalKey(pks), root>>)
TweakedKey(pks, root) == Add(InternalKey(pks), Tweak(pks, root))
AggregateQ(pks, root) == EvenY(TweakedKey(pks, root))

(* Seeds bound to root, message and adaptor point; two nonces each.        *)
MusigNonce(i, root, m, t) ==
    <<Hash("musig", <<i, root, m, t, 1>>), Hash("musig", <<i, root, m, t, 2>>)>>

(* The library: both signers' parts of one signature encrypted to t; a     *)
(* plain signature has no t to add.                                        *)
Cosign(sks, root, m, t, encrypted) ==
    LET nonce == [i \in 1..2 |-> MusigNonce(i, root, m, t)]
        q == TweakedKey(sks, root)
        b == Hash("noncecoef", <<Total([i \in 1..2 |-> nonce[i][1]]),
                                 Total([i \in 1..2 |-> nonce[i][2]]), EvenY(q), m>>)
        each == [i \in 1..2 |-> Add(nonce[i][1], Mul(nonce[i][2], b))]
        full == IF encrypted THEN Add(Total(each), t) ELSE Total(each)
        e == Challenge(EvenY(full), EvenY(q), m)
        part(i) == Add(Signed(Odd(full), each[i]),
                       Signed(Odd(q) /= Odd(Aggregated(sks)),
                              Mul(e, Mul(KeyCoeff(sks, i), sks[i]))))
        tweak == Signed(Odd(q), Mul(e, Tweak(sks, root)))
        s == Add(Add(part(1), part(2)), tweak) IN
    [r |-> Total(each), s |-> IF full = 0 \/ q = 0 THEN 0 ELSE s]

CosignKeyspend(sks, root, m) ==
    LET sig == Cosign(sks, root, m, 0, FALSE) IN [sig EXCEPT !.r = EvenY(@)]
CosignKeyspendAdaptor(sks, root, m, t) == Cosign(sks, root, m, t, TRUE)

(* adaptor::verify_single and adapt.                                       *)
VerifyKeyspendAdaptor(sig, qx, m, t) ==
    LET full == Add(sig.r, t) IN
    /\ full /= 0 /\ sig.s /= 0
    /\ sig.s = (Signed(Odd(full), sig.r) + Challenge(EvenY(full), qx, m) * qx) % Q

AdaptKeyspend(sig, t) ==
    LET full == Add(sig.r, t) IN
    [r |-> EvenY(full), s |-> Add(sig.s, Signed(Odd(full), t))]
=============================================================================
