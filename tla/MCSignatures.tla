---------------------------- MODULE MCSignatures ----------------------------
(***************************************************************************)
(* An instance of the signature tasks for TLC: a group of 127 elements, in  *)
(* which some sums do fail, three members of whom two sign, three digits.  *)
(***************************************************************************)
EXTENDS SignatureRuns, TLC

Tags == <<"challenge", "key", "nonce", "seed", "coeff", "pok", "pok-nonce", "hiding",
          "binding", "rho", "presign", "keyagg", "taptweak", "musig", "noncecoef">>

TagNumber == [tag \in HashTags |-> CHOOSE n \in DOMAIN Tags : Tags[n] = tag]

(* A deterministic function that spreads its arguments over 1..Q-1.        *)
Scatter(tag, args) ==
    1 + (FoldLeft(LAMBDA acc, x : (acc * acc + 137 * x + 11) % 9973,
                  (TagNumber[tag] * 611) % 9973, args) % (Q - 1))

TwoOrThree == {<<1, 2>>, <<3, 1>>, <<2, 3>>, <<2, 3, 1>>, <<1, 2, 3>>}
DealtBy == {<<a, b, c>> : a \in 1..3, b \in 1..3, c \in {5, 6}}
Pairs == {<<5, 77>>, <<64, 33>>, <<101, 45>>}
=============================================================================
