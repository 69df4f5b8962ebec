-------------------------- MODULE Signatures_proofs --------------------------
(***************************************************************************)
(* What two attestations of one tick reveal, what an attestation opens,    *)
(* and that a quorum of a cohort signs like one oracle, for every prime    *)
(* order of the group and every hash that gives scalars.                   *)
(***************************************************************************)
EXTENDS SignatureRuns, FiniteTotals

-----------------------------------------------------------------------------
(* Congruence modulo Q.                                                    *)
Field == 0 .. Q - 1
Unit == 1 .. Q - 1
Cong(a, b) == \E k \in Int : a = b + k * Q

LEMMA Order == Q \in Nat /\ Q > 2
BY SignatureAssumption

LEMMA CongEqual == ASSUME NEW a \in Field, NEW b \in Field, Cong(a, b) PROVE a = b
<1>1. PICK k \in Int : a = b + k * Q
  BY DEF Cong
<1>2. k * Q < Q /\ k * Q > -Q
  BY <1>1, Order DEF Field
<1>3. k < 1 /\ k > -1
  <2>1. k >= 1 => k * Q >= Q
    BY Order
  <2>2. k <= -1 => k * Q <= -Q
    BY Order
  <2> QED BY <1>2, <2>1, <2>2, Order
<1>4. k = 0
  BY <1>3
<1> QED BY <1>1, <1>4, Order DEF Field

LEMMA CongMod == ASSUME NEW a \in Int PROVE a % Q \in Field /\ Cong(a % Q, a)
<1>1. a % Q \in Field /\ a = Q * (a \div Q) + (a % Q) /\ a \div Q \in Int
  BY Order DEF Field
<1> DEFINE d == a \div Q
           r == a % Q
<1>2. r \in Int /\ d \in Int /\ a = Q * d + r
  BY <1>1, Order DEF Field
<1> HIDE DEF d, r
<1>3. r = a + (-d) * Q /\ -d \in Int
  BY <1>2, Order
<1>4. Cong(r, a)
  BY <1>3 DEF Cong
<1> QED BY <1>1, <1>4 DEF r

LEMMA CongRefl == ASSUME NEW a \in Int PROVE Cong(a, a)
<1>1. a = a + 0 * Q
  BY Order
<1> QED BY <1>1 DEF Cong

LEMMA CongSym == ASSUME NEW a \in Int, NEW b \in Int, Cong(a, b) PROVE Cong(b, a)
<1>1. PICK k \in Int : a = b + k * Q
  BY DEF Cong
<1>2. b = a + (-k) * Q /\ -k \in Int
  BY <1>1, Order
<1> QED BY <1>2 DEF Cong

LEMMA CongTrans ==
  ASSUME NEW a \in Int, NEW b \in Int, NEW c \in Int, Cong(a, b), Cong(b, c)
  PROVE  Cong(a, c)
<1>1. PICK k \in Int : a = b + k * Q
  BY DEF Cong
<1>2. PICK l \in Int : b = c + l * Q
  BY DEF Cong
<1>3. a = c + (k + l) * Q /\ k + l \in Int
  BY <1>1, <1>2, Order
<1> QED BY <1>3 DEF Cong

LEMMA CongAdd ==
  ASSUME NEW a \in Int, NEW b \in Int, NEW c \in Int, NEW d \in Int, Cong(a, b), Cong(c, d)
  PROVE  Cong(a + c, b + d) /\ Cong(a - c, b - d)
<1>1. PICK k \in Int : a = b + k * Q
  BY DEF Cong
<1>2. PICK l \in Int : c = d + l * Q
  BY DEF Cong
<1>3. a + c = (b + d) + (k + l) * Q /\ a - c = (b - d) + (k - l) * Q
  BY <1>1, <1>2, Order
<1>4. k + l \in Int /\ k - l \in Int
  OBVIOUS
<1> QED BY <1>3, <1>4 DEF Cong

LEMMA CongTimes ==
  ASSUME NEW a \in Int, NEW b \in Int, NEW c \in Int, NEW d \in Int, Cong(a, b), Cong(c, d)
  PROVE  Cong(a * c, b * d)
<1>1. PICK k \in Int : a = b + k * Q
  BY DEF Cong
<1>2. PICK l \in Int : c = d + l * Q
  BY DEF Cong
<1>3. a * c = b * d + (b * l + k * d + k * l * Q) * Q
  BY <1>1, <1>2, Order
<1>4. b * l + k * d + k * l * Q \in Int
  BY Order
<1> QED BY <1>3, <1>4 DEF Cong

LEMMA CongNeg ==
  ASSUME NEW a \in Int, NEW b \in Int, Cong(a, b) PROVE Cong(-a, -b)
<1>1. Cong(0 - a, 0 - b)
  BY CongAdd, CongRefl
<1> QED BY <1>1

-----------------------------------------------------------------------------
(* The operations of the field.                                            *)
LEMMA AddCong ==
  ASSUME NEW a \in Field, NEW b \in Field
  PROVE  /\ Add(a, b) \in Field
         /\ Add(a, b) # 0 => a \in Unit /\ b \in Unit
         /\ a # 0 /\ b # 0 => Cong(Add(a, b), a + b)
         /\ Add(a, b) # 0 => Cong(Add(a, b), a + b)
         /\ a # 0 /\ b # 0 => Add(a, b) = (a + b) % Q
<1>1. a + b \in Int
  BY Order DEF Field
<1>2. (a + b) % Q \in Field /\ Cong((a + b) % Q, a + b)
  BY <1>1, CongMod
<1>3. 0 \in Field
  BY Order DEF Field
<1> QED BY <1>2, <1>3, Order DEF Add, Field, Unit

LEMMA MulCong ==
  ASSUME NEW a \in Int, NEW b \in Int
  PROVE  Mul(a, b) \in Field /\ Cong(Mul(a, b), a * b)
BY CongMod DEF Mul

LEMMA NegCong ==
  ASSUME NEW a \in Field
  PROVE  /\ Neg(a) \in Field
         /\ Cong(Neg(a), -a)
         /\ a = 0 => Neg(a) = 0
         /\ a # 0 => Neg(a) = Q - a
<1>1. Q - a \in Int
  BY Order DEF Field
<1>2. Neg(a) \in Field /\ Cong(Neg(a), Q - a)
  BY <1>1, CongMod DEF Neg
<1>3. Q - a = -a + 1 * Q
  BY Order DEF Field
<1>4. Cong(Q - a, -a)
  BY <1>3 DEF Cong
<1>5. Cong(Neg(a), -a)
  BY <1>1, <1>2, <1>4, CongTrans, Order DEF Field
<1>6. a = 0 => Neg(a) = 0
  <2>1. 0 \in Field
    BY Order DEF Field
  <2>2. a = 0 => Cong(Neg(a), 0)
    BY <1>5 DEF Cong
  <2> QED BY <1>2, <2>1, <2>2, CongEqual
<1>7. a # 0 => Neg(a) = Q - a
  BY <1>2, CongEqual, Order DEF Field
<1> QED BY <1>2, <1>5, <1>6, <1>7

LEMMA MulLaws ==
  ASSUME NEW a \in Field, NEW b \in Field, NEW c \in Field
  PROVE  /\ Mul(a, b) \in Field
         /\ Mul(a, b) = Mul(b, a)
         /\ Mul(Mul(a, b), c) = Mul(a, Mul(b, c))
         /\ Mul(a, 1) = a
<1>1. a \in Int /\ b \in Int /\ c \in Int /\ 1 \in Int /\ a * b = b * a /\ a * 1 = a
  BY Order DEF Field
<1>2. Mul(a, b) \in Field /\ Mul(a, b) = Mul(b, a)
  BY <1>1, MulCong DEF Mul
<1>3. Mul(a, 1) = a
  <2>1. Mul(a, 1) \in Field /\ Cong(Mul(a, 1), a * 1)
    BY <1>1, MulCong
  <2> QED BY <1>1, <2>1, CongEqual
<1>4. Mul(Mul(a, b), c) = Mul(a, Mul(b, c))
  <2> DEFINE x == Mul(a, b)
             y == Mul(b, c)
  <2>1. x \in Field /\ y \in Field /\ Cong(x, a * b) /\ Cong(y, b * c)
    BY <1>1, MulCong
  <2>2. x \in Int /\ y \in Int /\ a * b \in Int /\ b * c \in Int
    BY <1>1, <2>1, Order DEF Field
  <2> HIDE DEF x, y
  <2>3. Cong(x * c, (a * b) * c) /\ Cong(a * y, a * (b * c))
    BY <1>1, <2>1, <2>2, CongTimes, CongRefl
  <2>4. (a * b) * c = a * (b * c) /\ x * c \in Int /\ a * y \in Int /\ a * (b * c) \in Int
    BY <1>1, <2>2
  <2>5. Mul(x, c) \in Field /\ Mul(a, y) \in Field
        /\ Cong(Mul(x, c), x * c) /\ Cong(Mul(a, y), a * y)
    BY <1>1, <2>2, MulCong
  <2>6. Mul(x, c) \in Int /\ Mul(a, y) \in Int
    BY <2>5, Order DEF Field
  <2>7. Cong(Mul(x, c), a * (b * c)) /\ Cong(Mul(a, y), a * (b * c))
    BY <2>3, <2>4, <2>5, <2>6, CongTrans
  <2>8. Cong(Mul(x, c), Mul(a, y))
    BY <2>4, <2>6, <2>7, CongTrans, CongSym
  <2> QED BY <2>5, <2>8, CongEqual DEF x, y
<1> QED BY <1>2, <1>3, <1>4

(* A prime divides no product of smaller numbers. *)
LEMMA NoZeroDivisors == ASSUME NEW a \in Unit, NEW b \in Unit PROVE Mul(a, b) \in Unit
<1> DEFINE Good == {i \in 0 .. Q - 1 : \A x \in Unit : x <= i => ~Cong(x * b, 0)}
<1>1. b \in Int /\ Q - 1 \in Nat
  BY Order DEF Unit
<1>2. 0 \in Good
  BY Order DEF Unit
<1>3. ASSUME NEW i \in 1 .. Q - 1, i - 1 \in Good
      PROVE  i \in Good
  <2>1. SUFFICES ASSUME Cong(i * b, 0) PROVE FALSE
    <3>1. ~Cong(i * b, 0) => \A x \in Unit : x <= i => ~Cong(x * b, 0)
      BY <1>3 DEF Unit
    <3> QED BY <2>1, <3>1, Order
  <2>2. i # 1
    <3>1. 1 * b = b /\ b \in Field /\ 0 \in Field /\ b # 0
      BY Order DEF Unit, Field
    <3> QED BY <2>1, <3>1, CongEqual
  <2> DEFINE q == Q \div i
             r == Q % i
  <2>3. q \in Nat /\ r \in 0 .. i - 1 /\ Q = i * q + r
    BY <1>3, Order
  <2> HIDE DEF q, r
  <2>4. Cong(r * b, 0)
    <3>1. PICK k \in Int : i * b = 0 + k * Q
      BY <2>1 DEF Cong
    <3>2. r * b = (Q - i * q) * b
      BY <2>3, Order
    <3>3. (Q - i * q) * b = Q * b - q * (i * b)
      BY <1>1, <2>3, Order
    <3>4. r * b = 0 + (b - q * k) * Q /\ b - q * k \in Int
      BY <1>1, <2>3, <3>1, <3>2, <3>3, Order
    <3> QED BY <3>4 DEF Cong
  <2>5. r = 0
    <3>1. r # 0 => r \in Unit /\ r <= i - 1
      BY <1>3, <2>3, Order DEF Unit
    <3> QED BY <1>3, <2>4, <3>1
  <2>6. Q = i * q /\ i \in 2 .. Q - 1
    BY <1>3, <2>2, <2>3, <2>5, Order
  <2>7. q \in 2 .. Q - 1
    <3>1. q # 0 /\ q # 1
      BY <2>6, Order
    <3>2. q < i * q
      BY <2>3, <2>6, <3>1
    <3> QED BY <2>3, <2>6, <3>1, <3>2
  <2> QED BY <2>6, <2>7, SignatureAssumption
<1>4. Q - 1 \in Good
  <2> HIDE DEF Good
  <2>1. \A i \in 0 .. Q - 1 : i \in Good
    BY <1>1, <1>2, <1>3, IntervalInduction
  <2> QED BY <1>1, <2>1
<1>5. ~Cong(a * b, 0)
  BY <1>4, Order DEF Unit
<1>6. a \in Int /\ b \in Int /\ a * b \in Int
  BY Order DEF Unit
<1>7. Mul(a, b) \in Field /\ Cong(Mul(a, b), a * b)
  BY <1>6, MulCong
<1>8. Mul(a, b) # 0
  <2>1. Cong(a * b, Mul(a, b))
    BY <1>6, <1>7, CongSym, Order DEF Field
  <2> QED BY <1>5, <2>1
<1> QED BY <1>7, <1>8, Order DEF Field, Unit

LEMMA Cancel ==
  ASSUME NEW a \in Unit, NEW b \in Field, NEW c \in Field, Mul(a, b) = Mul(a, c)
  PROVE  b = c
<1>1. a \in Int /\ b \in Int /\ c \in Int /\ a * b \in Int /\ a * c \in Int
  BY Order DEF Unit, Field
<1>2. Cong(a * b, a * c)
  <2>1. /\ Cong(Mul(a, b), a * b) /\ Cong(Mul(a, c), a * c)
        /\ Mul(a, b) \in Int /\ Mul(a, b) \in Field
    BY <1>1, MulCong, Order DEF Field
  <2>2. Cong(a * b, Mul(a, b))
    BY <1>1, <2>1, CongSym
  <2> QED BY <1>1, <2>1, <2>2, CongTrans
<1> DEFINE d == (b - c) % Q
<1>3. b - c \in Int /\ d \in Field /\ Cong(d, b - c)
  BY <1>1, CongMod
<1> HIDE DEF d
<1>4. Cong(a * d, 0)
  <2>1. Cong(a * b - a * c, a * c - a * c)
    BY <1>1, <1>2, CongAdd, CongRefl
  <2>2. a * b - a * c = a * (b - c) /\ a * c - a * c = 0
    BY <1>1
  <2>3. Cong(a * d, a * (b - c))
    BY <1>1, <1>3, CongTimes, CongRefl, Order DEF Field
  <2>4. a * d \in Int /\ a * (b - c) \in Int
    BY <1>1, <1>3, Order DEF Field
  <2>5. Cong(a * (b - c), 0)
    BY <2>1, <2>2
  <2> QED BY <2>3, <2>4, <2>5, CongTrans
<1>5. d = 0
  <2>1. SUFFICES ASSUME d \in Unit PROVE FALSE
    BY <1>3, <2>1, Order DEF Field, Unit
  <2>2. Mul(a, d) \in Unit
    BY <2>1, NoZeroDivisors
  <2>3. Cong(Mul(a, d), a * d) /\ a * d \in Int /\ Mul(a, d) \in Field
    <3>1. d \in Int /\ a * d \in Int
      BY <1>1, <1>3, Order DEF Field
    <3> QED BY <1>1, <3>1, MulCong
  <2>4. Cong(Mul(a, d), 0)
    BY <1>4, <2>3, CongTrans, Order DEF Field
  <2>5. Mul(a, d) = 0
    BY <2>3, <2>4, CongEqual, Order DEF Field
  <2> QED BY <2>2, <2>5, Order DEF Unit
<1>6. Cong(b, c)
  <2>1. Cong(b - c, 0)
    BY <1>3, <1>5, CongSym, Order
  <2>2. Cong((b - c) + c, 0 + c)
    BY <1>1, <1>3, <2>1, CongAdd, CongRefl
  <2> QED BY <1>1, <2>2
<1> QED BY <1>6, CongEqual

-----------------------------------------------------------------------------
(* Folding a sequence goes through the values of a chain.                  *)
LEMMA MaxOfInterval ==
  ASSUME NEW n \in Nat
  PROVE  /\ \A s \in SUBSET (1 .. n) : s # {} => Max(s) \in s
         /\ \A i \in 1 .. n : Max(1 .. i) = i /\ (1 .. i) \ {i} = 1 .. i - 1
<1> DEFINE Good == {i \in 0 .. n : \A s \in SUBSET (1 .. i) :
                                     s # {} => \E x \in s : \A y \in s : x >= y}
<1>1. 0 \in Good
  <2>1. \A s \in SUBSET (1 .. 0) : s = {}
    OBVIOUS
  <2>2. \A s \in SUBSET (1 .. 0) : s # {} => \E x \in s : \A y \in s : x >= y
    BY <2>1, Zenon
  <2>3. 0 \in 0 .. n
    OBVIOUS
  <2> QED BY <2>2, <2>3, Zenon
<1>2. ASSUME NEW i \in 1 .. n, i - 1 \in Good PROVE i \in Good
  <2>1. ASSUME NEW s \in SUBSET (1 .. i), s # {}
        PROVE  \E x \in s : \A y \in s : x >= y
    <3>1. CASE i \in s
      <4>1. \A y \in s : i >= y
        OBVIOUS
      <4> QED BY <3>1, <4>1
    <3>2. CASE i \notin s
      <4>1. s \in SUBSET (1 .. i - 1)
        BY <3>2
      <4> QED BY <1>2, <2>1, <4>1
    <3> QED BY <3>1, <3>2
  <2> QED BY <2>1
<1>3. n \in Good
  <2> HIDE DEF Good
  <2>1. \A i \in 0 .. n : i \in Good
    BY <1>1, <1>2, IntervalInduction
  <2> QED BY <2>1
<1>4. ASSUME NEW s \in SUBSET (1 .. n), s # {} PROVE Max(s) \in s
  <2>1. \E x \in s : \A y \in s : x >= y
    BY <1>3, <1>4
  <2> QED BY <2>1 DEF Max
<1>5. ASSUME NEW i \in 1 .. n PROVE Max(1 .. i) = i /\ (1 .. i) \ {i} = 1 .. i - 1
  <2> DEFINE x == CHOOSE x \in 1 .. i : \A y \in 1 .. i : x >= y
  <2>1. i \in 1 .. i /\ \A y \in 1 .. i : i >= y
    OBVIOUS
  <2>2. x \in 1 .. i /\ \A y \in 1 .. i : x >= y
    BY <2>1
  <2>3. x = Max(1 .. i)
    BY DEF Max
  <2> HIDE DEF x
  <2>4. x = i
    BY <2>1, <2>2
  <2>5. (1 .. i) \ {i} = 1 .. i - 1
    OBVIOUS
  <2> QED BY <2>3, <2>4, <2>5
<1> QED BY <1>4, <1>5

(* The function the library chooses, for sums and for powers.              *)
SumFrom(base, seq) == FoldLeft(Add, base, seq)
PartialSums(p, n, base, seq) ==
    /\ p \in [0 .. n -> Field] /\ p[0] = base
    /\ \A i \in 1 .. n : p[i] = Add(p[i - 1], seq[i])
    /\ SumFrom(base, seq) = p[n]

LEMMA AddChain ==
  ASSUME NEW n \in Nat, NEW base \in Field, NEW seq, DOMAIN seq = 1 .. n,
         \A i \in 1 .. n : seq[i] \in Field
  PROVE  \E p : PartialSums(p, n, base, seq)
<1> DEFINE S == 1 .. n
           Fold(h) == h = [s \in SUBSET S |->
                             IF s = {} THEN base
                             ELSE LET x == Max(s) IN Add(h[s \ {x}], seq[x])]
<1>1. SumFrom(base, seq) = (CHOOSE h : Fold(h))[S]
  BY DEF SumFrom, FoldLeft, MapThenFoldSet
<1>2. \E h : Fold(h)
  <2> DEFINE pick == [s \in SUBSET S |-> Max(s)]
             g == [xv \in S \X Field |-> Add(xv[2], seq[xv[1]])]
  <2>1. IsFiniteSet(S)
    BY FS_Interval
  <2>2. Picks(pick, S)
    BY MaxOfInterval DEF Picks
  <2>3. StaysIn(Field, g, S)
    BY AddCong DEF StaysIn
  <2>4. \A x \in S, v \in Field : g[<<x, v>>] = Add(v, seq[x])
    OBVIOUS
  <2>5. \A s \in SUBSET S : pick[s] = Max(s)
    OBVIOUS
  <2> HIDE DEF S, pick, g
  <2>6. PICK h : SolvesFold(h, S, Field, base, pick, g)
    BY <2>1, <2>2, <2>3, FoldSolution
  <2>7. ASSUME NEW s \in SUBSET S
        PROVE  h[s] = IF s = {} THEN base ELSE Add(h[s \ {Max(s)}], seq[Max(s)])
    <3>1. CASE s = {}
      BY <2>6, <3>1 DEF SolvesFold
    <3>2. CASE s # {}
      <4>1. pick[s] = Max(s) /\ Max(s) \in S /\ s \ {Max(s)} \in SUBSET S
        BY <2>2, <2>5, <3>2 DEF Picks
      <4>2. h[s] = g[<<Max(s), h[s \ {Max(s)}]>>] /\ h[s \ {Max(s)}] \in Field
        BY <2>6, <3>2, <4>1 DEF SolvesFold
      <4> QED BY <2>4, <3>2, <4>1, <4>2
    <3> QED BY <3>1, <3>2
  <2>8. h = [s \in SUBSET S |-> h[s]]
    BY <2>6 DEF SolvesFold
  <2>9. Fold(h)
    BY <2>7, <2>8
  <2> QED BY <2>9
<1>3. PICK h : Fold(h) /\ SumFrom(base, seq) = h[S]
  <2> HIDE DEF Fold
  <2> QED BY <1>1, <1>2
<1> DEFINE p == [i \in 0 .. n |-> h[1 .. i]]
<1>4. h[{}] = base /\ 1 .. 0 = {}
  BY <1>3
<1>5. ASSUME NEW i \in 1 .. n PROVE h[1 .. i] = Add(h[1 .. i - 1], seq[i])
  <2>1. 1 .. i \in SUBSET S /\ 1 .. i # {}
    <3>1. i \in 1 .. i /\ 1 .. i \subseteq S
      OBVIOUS
    <3> QED BY <3>1
  <2>2. Max(1 .. i) = i /\ (1 .. i) \ {i} = 1 .. i - 1
    BY MaxOfInterval
  <2>3. h[1 .. i] = Add(h[(1 .. i) \ {Max(1 .. i)}], seq[Max(1 .. i)])
    <3> HIDE DEF S
    <3> QED BY <1>3, <2>1
  <2> QED BY <2>2, <2>3
<1> HIDE DEF Fold
<1>6. p[0] = base /\ \A i \in 1 .. n : p[i] = Add(p[i - 1], seq[i])
  BY <1>4, <1>5
<1>7. \A i \in 0 .. n : p[i] \in Field
  <2> DEFINE Good == {i \in 0 .. n : p[i] \in Field}
  <2> HIDE DEF p
  <2>1. 0 \in Good
    BY <1>6
  <2>2. \A i \in 1 .. n : i - 1 \in Good => i \in Good
    BY <1>6, AddCong
  <2> HIDE DEF Good
  <2>3. \A i \in 0 .. n : i \in Good
    BY <2>1, <2>2, IntervalInduction
  <2> QED BY <2>3 DEF Good
<1>8. p \in [0 .. n -> Field] /\ p[n] = h[S]
  <2>1. p = [i \in 0 .. n |-> p[i]] /\ p[n] = h[S]
    OBVIOUS
  <2> HIDE DEF p
  <2> QED BY <1>7, <2>1
<1> HIDE DEF p
<1> QED BY <1>3, <1>6, <1>8 DEF PartialSums

Squared(a, k, acc, b) == Mul(Mul(acc, acc), IF Bit(k, Width, b) = 1 THEN a ELSE 1)

LEMMA SquaredType ==
  ASSUME NEW a \in Field, NEW k, NEW acc \in Field, NEW b
  PROVE  Squared(a, k, acc, b) \in Field
<1>1. 1 \in Field
  BY Order DEF Field
<1>2. Mul(acc, acc) \in Field
  BY <1>1, MulLaws
<1> QED BY <1>1, <1>2, MulLaws DEF Squared

LEMMA PowerChain ==
  ASSUME NEW a \in Field, NEW k
  PROVE  \E p \in [0 .. Width -> Field] :
            /\ p[0] = 1
            /\ \A i \in 1 .. Width : p[i] = Squared(a, k, p[i - 1], i)
            /\ Power(a, k) = p[Width]
<1> DEFINE n == Width
           S == 1 .. n
           seq == [b \in S |-> b]
           Fold(h) == h = [s \in SUBSET S |->
                             IF s = {} THEN 1
                             ELSE LET x == Max(s) IN Squared(a, k, h[s \ {x}], seq[x])]
<1>0. n \in Nat /\ 1 \in Field
  BY Order, SignatureAssumption DEF Field
<1>1. Power(a, k) = (CHOOSE h : Fold(h))[S]
  <2>1. DOMAIN seq = S
    OBVIOUS
  <2> QED BY <2>1 DEF Power, FoldLeft, MapThenFoldSet, Squared
<1>2. \E h : Fold(h)
  <2> DEFINE pick == [s \in SUBSET S |-> Max(s)]
             g == [xv \in S \X Field |-> Squared(a, k, xv[2], seq[xv[1]])]
  <2>1. IsFiniteSet(S)
    BY <1>0, FS_Interval
  <2>2. Picks(pick, S)
    BY <1>0, MaxOfInterval DEF Picks
  <2>3. StaysIn(Field, g, S)
    BY SquaredType DEF StaysIn
  <2>4. \A x \in S, v \in Field : g[<<x, v>>] = Squared(a, k, v, seq[x])
    OBVIOUS
  <2>5. \A s \in SUBSET S : pick[s] = Max(s)
    OBVIOUS
  <2> HIDE DEF S, pick, g, seq
  <2>6. PICK h : SolvesFold(h, S, Field, 1, pick, g)
    BY <1>0, <2>1, <2>2, <2>3, FoldSolution
  <2>7. ASSUME NEW s \in SUBSET S
        PROVE  h[s] = IF s = {} THEN 1 ELSE Squared(a, k, h[s \ {Max(s)}], seq[Max(s)])
    <3>1. CASE s = {}
      BY <2>6, <3>1 DEF SolvesFold
    <3>2. CASE s # {}
      <4>1. pick[s] = Max(s) /\ Max(s) \in S /\ s \ {Max(s)} \in SUBSET S
        BY <2>2, <2>5, <3>2 DEF Picks
      <4>2. h[s] = g[<<Max(s), h[s \ {Max(s)}]>>] /\ h[s \ {Max(s)}] \in Field
        BY <2>6, <3>2, <4>1 DEF SolvesFold
      <4> QED BY <2>4, <3>2, <4>1, <4>2
    <3> QED BY <3>1, <3>2
  <2>8. h = [s \in SUBSET S |-> h[s]]
    BY <2>6 DEF SolvesFold
  <2>9. Fold(h)
    BY <2>7, <2>8
  <2> QED BY <2>9
<1>3. PICK h : Fold(h) /\ Power(a, k) = h[S]
  <2> HIDE DEF Fold
  <2> QED BY <1>1, <1>2
<1> DEFINE p == [i \in 0 .. n |-> h[1 .. i]]
<1>4. h[{}] = 1 /\ 1 .. 0 = {}
  BY <1>3
<1>5. ASSUME NEW i \in 1 .. n PROVE h[1 .. i] = Squared(a, k, h[1 .. i - 1], i)
  <2>1. 1 .. i \in SUBSET S /\ 1 .. i # {}
    <3>1. i \in 1 .. i /\ 1 .. i \subseteq S
      BY <1>0
    <3> QED BY <3>1
  <2>2. Max(1 .. i) = i /\ (1 .. i) \ {i} = 1 .. i - 1
    BY <1>0, MaxOfInterval
  <2>3. h[1 .. i] = Squared(a, k, h[(1 .. i) \ {Max(1 .. i)}], seq[Max(1 .. i)])
    <3> HIDE DEF S, seq
    <3> QED BY <1>3, <2>1
  <2>4. seq[i] = i
    OBVIOUS
  <2> QED BY <2>2, <2>3, <2>4
<1> HIDE DEF Fold
<1>6. p[0] = 1 /\ \A i \in 1 .. n : p[i] = Squared(a, k, p[i - 1], i)
  BY <1>0, <1>4, <1>5
<1>7. \A i \in 0 .. n : p[i] \in Field
  <2> DEFINE Good == {i \in 0 .. n : p[i] \in Field}
  <2> HIDE DEF p, n
  <2>1. 0 \in Good
    BY <1>0, <1>6
  <2>2. \A i \in 1 .. n : i - 1 \in Good => i \in Good
    BY <1>0, <1>6, SquaredType
  <2> HIDE DEF Good
  <2>3. \A i \in 0 .. n : i \in Good
    BY <1>0, <2>1, <2>2, IntervalInduction
  <2> QED BY <2>3 DEF Good
<1>8. p \in [0 .. n -> Field] /\ p[n] = h[S]
  <2>1. p = [i \in 0 .. n |-> p[i]] /\ p[n] = h[S]
    BY <1>0
  <2> HIDE DEF p
  <2> QED BY <1>7, <2>1
<1> HIDE DEF p, S
<1> QED BY <1>3, <1>6, <1>8

SkipMul(j, quorum, factor, acc, p) == IF quorum[p] = j THEN acc ELSE Mul(acc, factor[p])

LEMMA SkipMulType ==
  ASSUME NEW n \in Nat, NEW j, NEW quorum, NEW factor \in [1 .. n -> Field],
         NEW acc \in Field, NEW p \in 1 .. n
  PROVE  SkipMul(j, quorum, factor, acc, p) \in Field
<1>1. factor[p] \in Field
  OBVIOUS
<1> QED BY <1>1, MulLaws, Order DEF SkipMul, Field

PartialProducts(p, n, j, quorum, factor) ==
    /\ p \in [0 .. n -> Field] /\ p[0] = 1
    /\ \A i \in 1 .. n : p[i] = SkipMul(j, quorum, factor, p[i - 1], i)
    /\ OthersProduct(j, quorum, factor) = p[n]

LEMMA OthersChain ==
  ASSUME NEW n \in Nat, NEW j, NEW quorum, DOMAIN quorum = 1 .. n,
         NEW factor \in [1 .. n -> Field]
  PROVE  \E p : PartialProducts(p, n, j, quorum, factor)
<1> DEFINE S == 1 .. n
           seq == [b \in S |-> b]
           Fold(h) == h = [s \in SUBSET S |->
                             IF s = {} THEN 1
                             ELSE LET x == Max(s) IN SkipMul(j, quorum, factor, h[s \ {x}], seq[x])]
<1>0. n \in Nat /\ 1 \in Field
  BY Order DEF Field
<1>1. OthersProduct(j, quorum, factor) = (CHOOSE h : Fold(h))[S]
  <2>1. DOMAIN seq = S
    OBVIOUS
  <2> QED BY <2>1 DEF OthersProduct, FoldLeft, MapThenFoldSet, SkipMul
<1>2. \E h : Fold(h)
  <2> DEFINE pick == [s \in SUBSET S |-> Max(s)]
             g == [xv \in S \X Field |-> SkipMul(j, quorum, factor, xv[2], seq[xv[1]])]
  <2>1. IsFiniteSet(S)
    BY <1>0, FS_Interval
  <2>2. Picks(pick, S)
    BY <1>0, MaxOfInterval DEF Picks
  <2>3. StaysIn(Field, g, S)
    BY SkipMulType DEF StaysIn
  <2>4. \A x \in S, v \in Field : g[<<x, v>>] = SkipMul(j, quorum, factor, v, seq[x])
    OBVIOUS
  <2>5. \A s \in SUBSET S : pick[s] = Max(s)
    OBVIOUS
  <2> HIDE DEF S, pick, g, seq
  <2>6. PICK h : SolvesFold(h, S, Field, 1, pick, g)
    BY <1>0, <2>1, <2>2, <2>3, FoldSolution
  <2>7. ASSUME NEW s \in SUBSET S
        PROVE  h[s] = IF s = {} THEN 1 ELSE SkipMul(j, quorum, factor, h[s \ {Max(s)}], seq[Max(s)])
    <3>1. CASE s = {}
      BY <2>6, <3>1 DEF SolvesFold
    <3>2. CASE s # {}
      <4>1. pick[s] = Max(s) /\ Max(s) \in S /\ s \ {Max(s)} \in SUBSET S
        BY <2>2, <2>5, <3>2 DEF Picks
      <4>2. h[s] = g[<<Max(s), h[s \ {Max(s)}]>>] /\ h[s \ {Max(s)}] \in Field
        BY <2>6, <3>2, <4>1 DEF SolvesFold
      <4> QED BY <2>4, <3>2, <4>1, <4>2
    <3> QED BY <3>1, <3>2
  <2>8. h = [s \in SUBSET S |-> h[s]]
    BY <2>6 DEF SolvesFold
  <2>9. Fold(h)
    BY <2>7, <2>8
  <2> QED BY <2>9
<1>3. PICK h : Fold(h) /\ OthersProduct(j, quorum, factor) = h[S]
  <2> HIDE DEF Fold
  <2> QED BY <1>1, <1>2
<1> DEFINE p == [i \in 0 .. n |-> h[1 .. i]]
<1>4. h[{}] = 1 /\ 1 .. 0 = {}
  BY <1>3
<1>5. ASSUME NEW i \in 1 .. n PROVE h[1 .. i] = SkipMul(j, quorum, factor, h[1 .. i - 1], i)
  <2>1. 1 .. i \in SUBSET S /\ 1 .. i # {}
    <3>1. i \in 1 .. i /\ 1 .. i \subseteq S
      BY <1>0
    <3> QED BY <3>1
  <2>2. Max(1 .. i) = i /\ (1 .. i) \ {i} = 1 .. i - 1
    BY <1>0, MaxOfInterval
  <2>3. h[1 .. i] = SkipMul(j, quorum, factor, h[(1 .. i) \ {Max(1 .. i)}], seq[Max(1 .. i)])
    <3> HIDE DEF S, seq
    <3> QED BY <1>3, <2>1
  <2>4. seq[i] = i
    OBVIOUS
  <2> QED BY <2>2, <2>3, <2>4
<1> HIDE DEF Fold
<1>6. p[0] = 1 /\ \A i \in 1 .. n : p[i] = SkipMul(j, quorum, factor, p[i - 1], i)
  BY <1>0, <1>4, <1>5
<1>7. \A i \in 0 .. n : p[i] \in Field
  <2> DEFINE Good == {i \in 0 .. n : p[i] \in Field}
  <2> HIDE DEF p
  <2>1. 0 \in Good
    BY <1>0, <1>6
  <2>2. \A i \in 1 .. n : i - 1 \in Good => i \in Good
    BY <1>0, <1>6, SkipMulType
  <2> HIDE DEF Good
  <2>3. \A i \in 0 .. n : i \in Good
    BY <1>0, <2>1, <2>2, IntervalInduction
  <2> QED BY <2>3 DEF Good
<1>8. p \in [0 .. n -> Field] /\ p[n] = h[S]
  <2>1. p = [i \in 0 .. n |-> p[i]] /\ p[n] = h[S]
    BY <1>0
  <2> HIDE DEF p
  <2> QED BY <1>7, <2>1
<1> HIDE DEF p, S
<1> QED BY <1>3, <1>6, <1>8 DEF PartialProducts

(* The powers of a, up to the last that matters.                           *)
PowersOf(pw, a) ==
    /\ pw \in [0 .. Q - 1 -> Field]
    /\ pw[0] = 1
    /\ \A i \in 1 .. Q - 1 : pw[i] = Mul(pw[i - 1], a)

LEMMA PowersExist == ASSUME NEW a \in Field PROVE \E pw : PowersOf(pw, a)
<1> DEFINE D == 0 .. Q - 1
           Upto(pw, n) == /\ pw \in [D -> Field] /\ pw[0] = 1
                          /\ \A i \in 1 .. n : pw[i] = Mul(pw[i - 1], a)
           Good == {n \in D : \E pw : Upto(pw, n)}
<1>1. 0 \in Good
  <2> DEFINE pw == [i \in D |-> 1]
  <2>1. Upto(pw, 0)
    BY Order DEF Field
  <2> HIDE DEF Upto
  <2> QED BY <2>1, Order
<1>2. ASSUME NEW n \in 1 .. Q - 1, n - 1 \in Good PROVE n \in Good
  <2>1. PICK pw : Upto(pw, n - 1)
    BY <1>2
  <2> DEFINE v == Mul(pw[n - 1], a)
             more == [pw EXCEPT ![n] = v]
  <2>2. v \in Field /\ n \in D
    BY <2>1, MulLaws, Order
  <2> HIDE DEF v
  <2>3. more \in [D -> Field] /\ more[0] = 1 /\ more[n] = v
    BY <2>1, <2>2, Order
  <2>4. \A i \in 0 .. n - 1 : more[i] = pw[i]
    BY <2>1, Order
  <2>5. \A i \in 1 .. n : more[i] = Mul(more[i - 1], a)
    <3> HIDE DEF more
    <3>1. ASSUME NEW i \in 1 .. n - 1 PROVE more[i] = Mul(more[i - 1], a)
      BY <2>1, <2>4, Order
    <3>2. more[n] = Mul(more[n - 1], a)
      BY <2>3, <2>4, Order DEF v
    <3> QED BY <3>1, <3>2, Order
  <2>6. Upto(more, n)
    <3> HIDE DEF more
    <3> QED BY <2>3, <2>5
  <2> HIDE DEF Upto, more
  <2> QED BY <2>2, <2>6
<1>3. Q - 1 \in Good
  <2> HIDE DEF Good
  <2>1. Q - 1 \in Nat
    BY Order
  <2>2. \A n \in 0 .. Q - 1 : n \in Good
    BY <1>1, <1>2, <2>1, IntervalInduction
  <2> QED BY <2>1, <2>2
<1> QED BY <1>3 DEF PowersOf

LEMMA PowersAdd ==
  ASSUME NEW a \in Field, NEW pw, PowersOf(pw, a), NEW i \in 0 .. Q - 1, NEW j \in 0 .. Q - 1,
         i + j <= Q - 1
  PROVE  pw[i + j] = Mul(pw[i], pw[j])
<1> DEFINE Good == {n \in 0 .. j : pw[i + n] = Mul(pw[i], pw[n])}
<1>0. \A n \in 0 .. Q - 1 : pw[n] \in Field
  BY DEF PowersOf
<1>1. 0 \in Good
  <2>1. pw[0] = 1 /\ i + 0 = i
    BY DEF PowersOf
  <2> QED BY <1>0, <2>1, MulLaws
<1>2. ASSUME NEW n \in 1 .. j, n - 1 \in Good PROVE n \in Good
  <2>1. /\ pw[i + n] = Mul(pw[i + n - 1], a)
        /\ pw[n] = Mul(pw[n - 1], a)
    BY Order DEF PowersOf
  <2>2. pw[i + n - 1] = Mul(pw[i], pw[n - 1])
    BY <1>2
  <2>3. Mul(Mul(pw[i], pw[n - 1]), a) = Mul(pw[i], Mul(pw[n - 1], a))
    BY <1>0, MulLaws, Order
  <2> QED BY <2>1, <2>2, <2>3
<1>3. j \in Good
  <2> HIDE DEF Good
  <2>1. \A n \in 0 .. j : n \in Good
    BY <1>1, <1>2, IntervalInduction
  <2> QED BY <2>1
<1> QED BY <1>3

(* Square and multiply computes the power. *)
LEMMA PowerIsPower ==
  ASSUME NEW a \in Field, NEW pw, PowersOf(pw, a), NEW k \in 0 .. Q - 1
  PROVE  Power(a, k) = pw[k]
<1>1. PICK p \in [0 .. Width -> Field] :
            /\ p[0] = 1
            /\ \A i \in 1 .. Width : p[i] = Squared(a, k, p[i - 1], i)
            /\ Power(a, k) = p[Width]
  BY PowerChain
<1> DEFINE Good == {i \in 0 .. Width : p[i] = pw[k \div 2 ^ (Width - i)]}
<1>2. Width \in Nat /\ k < 2 ^ Width /\ k \in Nat
  BY Order, SignatureAssumption, PowersOfTwo
<1>3. \A i \in 0 .. Q - 1 : pw[i] \in Field
  BY DEF PowersOf
<1>4. 0 \in Good
  <2>1. k \div 2 ^ Width = 0
    <3> DEFINE d == 2 ^ Width
    <3>1. d \in Nat \ {0} /\ k < d
      BY <1>2, PowersOfTwo
    <3> HIDE DEF d
    <3>2. k \div d = 0
      BY <1>2, <3>1
    <3> QED BY <3>2 DEF d
  <2> QED BY <1>1, <1>2, <2>1 DEF PowersOf
<1>5. ASSUME NEW i \in 1 .. Width, i - 1 \in Good PROVE i \in Good
  <2> DEFINE d == 2 ^ (Width - i)
             x == k \div d
             y == k \div (2 * d)
  <2>1. d \in Nat \ {0} /\ 2 ^ (Width - (i - 1)) = 2 * d
    <3>1. Width - i \in Nat /\ Width - (i - 1) = (Width - i) + 1
      BY <1>2
    <3> QED BY <3>1, PowersOfTwo
  <2>2. p[i - 1] = pw[y]
    BY <1>5, <2>1
  <2>3. Bit(k, Width, i) = x % 2
    BY DEF Bit
  <2> HIDE DEF d
  <2>4. x \in Nat /\ x <= k
    BY <1>2, <2>1
  <2>5. y = x \div 2
    <3>1. x \div 2 = k \div (d * 2)
      BY <1>2, <2>1, QuotientOfQuotient
    <3>2. d * 2 = 2 * d
      BY <2>1
    <3> QED BY <3>1, <3>2
  <2> HIDE DEF x, y
  <2>6. y \in Nat /\ x % 2 \in {0, 1} /\ x = y + y + (x % 2)
    BY <2>4, <2>5
  <2>7. y \in 0 .. Q - 1 /\ y + y \in 0 .. Q - 1 /\ x \in 0 .. Q - 1
    <3>1. y + y <= x
      BY <2>4, <2>6
    <3>2. k <= Q - 1
      OBVIOUS
    <3> QED BY <1>2, <2>4, <2>6, <3>1, <3>2, Order
  <2>8. pw[y + y] = Mul(pw[y], pw[y]) /\ pw[y + y] \in Field
    BY <1>3, <2>7, PowersAdd
  <2>9. pw[x] = Squared(a, k, pw[y], i)
    <3>1. CASE x % 2 = 0
      <4>1. Squared(a, k, pw[y], i) = Mul(pw[y + y], 1)
        BY <2>3, <2>8, <3>1 DEF Squared
      <4>2. x = y + y
        BY <2>6, <3>1
      <4> QED BY <2>8, <4>1, <4>2, MulLaws
    <3>2. CASE x % 2 = 1
      <4>1. Squared(a, k, pw[y], i) = Mul(pw[y + y], a)
        BY <2>3, <2>8, <3>2 DEF Squared
      <4>2. x = y + y + 1 /\ x \in 1 .. Q - 1 /\ x - 1 = y + y
        BY <2>6, <2>7, <3>2
      <4>3. pw[x] = Mul(pw[x - 1], a)
        BY <4>2 DEF PowersOf
      <4> QED BY <4>1, <4>2, <4>3
    <3> QED BY <2>6, <3>1, <3>2
  <2>10. p[i] = pw[x]
    BY <1>1, <2>2, <2>9
  <2> QED BY <2>10 DEF x, d
<1>6. Width \in Good
  <2> HIDE DEF Good
  <2>1. \A i \in 0 .. Width : i \in Good
    BY <1>2, <1>4, <1>5, IntervalInduction
  <2> QED BY <1>2, <2>1
<1>7. p[Width] = pw[k \div 1]
  <2>1. Width - Width = 0
    BY <1>2
  <2> QED BY <1>6, <2>1, PowersOfTwo
<1> QED BY <1>1, <1>2, <1>7

-----------------------------------------------------------------------------
(* Fermat: multiplying by a only permutes what is not 0, so that the       *)
(* product of it all is its own multiple by a^(Q-1).                       *)
ProductOf(h) ==
    /\ h \in [SUBSET Unit -> Field]
    /\ h[{}] = 1
    /\ \A s \in SUBSET Unit : \A x \in s : h[s] = Mul(x, h[s \ {x}])

LEMMA UnitsFinite ==
    /\ IsFiniteSet(Unit) /\ Cardinality(Unit) = Q - 1 /\ Unit \subseteq Field
    /\ \A s \in SUBSET Unit : IsFiniteSet(s) /\ Cardinality(s) \in 0 .. Q - 1
<1>1. IsFiniteSet(Unit) /\ Cardinality(Unit) = Q - 1
  BY Order, FS_Interval DEF Unit
<1>2. \A s \in SUBSET Unit : IsFiniteSet(s) /\ Cardinality(s) \in 0 .. Q - 1
  BY <1>1, FS_Subset, FS_CardinalityType, Order
<1> QED BY <1>1, <1>2, Order DEF Unit, Field

(* The product of a function over a part of its domain, in any order.      *)
Products(h, f, D) ==
    /\ h \in [SUBSET D -> Field]
    /\ h[{}] = 1
    /\ \A s \in SUBSET D : \A x \in s : h[s] = Mul(f[x], h[s \ {x}])

LEMMA ProductsExist ==
  ASSUME NEW D, IsFiniteSet(D), NEW f \in [D -> Field] PROVE \E h : Products(h, f, D)
<1> DEFINE g == [xv \in D \X Field |-> Mul(f[xv[1]], xv[2])]
<1>1. \A x \in D, v \in Field : g[<<x, v>>] = Mul(f[x], v) /\ f[x] \in Field
  OBVIOUS
<1> HIDE DEF g
<1>2. StaysIn(Field, g, D)
  <2>1. ASSUME NEW x \in D, NEW v \in Field PROVE g[<<x, v>>] \in Field
    <3>1. g[<<x, v>>] = Mul(f[x], v) /\ f[x] \in Field
      BY <1>1
    <3>2. \A a \in Field : Mul(a, v) \in Field
      BY MulLaws
    <3> QED BY <3>1, <3>2
  <2> QED BY <2>1 DEF StaysIn
<1>3. Commutes(Field, g, D)
  <2> SUFFICES ASSUME NEW x \in D, NEW y \in D, NEW v \in Field
               PROVE  g[<<x, g[<<y, v>>]>>] = g[<<y, g[<<x, v>>]>>]
    BY DEF Commutes
  <2> DEFINE a == f[x]
             b == f[y]
  <2>1. g[<<y, v>>] = Mul(b, v) /\ g[<<x, v>>] = Mul(a, v) /\ a \in Field /\ b \in Field
    BY <1>1
  <2>2. Mul(b, v) \in Field /\ Mul(a, v) \in Field
    BY <2>1, MulLaws
  <2>3. g[<<x, Mul(b, v)>>] = Mul(a, Mul(b, v)) /\ g[<<y, Mul(a, v)>>] = Mul(b, Mul(a, v))
    BY <1>1, <2>2
  <2> HIDE DEF a, b
  <2>4. /\ Mul(a, Mul(b, v)) = Mul(Mul(a, b), v) /\ Mul(b, Mul(a, v)) = Mul(Mul(b, a), v)
        /\ Mul(a, b) = Mul(b, a)
    BY <2>1, MulLaws
  <2> QED BY <2>1, <2>3, <2>4
<1>4. PICK h : AnyOrder(h, D, Field, 1, g)
  <2>1. 1 \in Field
    BY Order DEF Field
  <2> QED BY <1>2, <1>3, <2>1, FoldInAnyOrder
<1>5. ASSUME NEW s \in SUBSET D, NEW x \in s PROVE h[s] = Mul(f[x], h[s \ {x}])
  <2>1. h[s] = g[<<x, h[s \ {x}]>>] /\ h[s \ {x}] \in Field /\ x \in D
    BY <1>4 DEF AnyOrder
  <2> QED BY <1>1, <2>1
<1> QED BY <1>4, <1>5 DEF AnyOrder, Products

LEMMA ProductExists == \E h : ProductOf(h)
<1> DEFINE f == [x \in Unit |-> x]
<1>1. f \in [Unit -> Field] /\ \A x \in Unit : f[x] = x
  BY UnitsFinite
<1> HIDE DEF f
<1>2. PICK h : Products(h, f, Unit)
  BY <1>1, UnitsFinite, ProductsExist
<1>3. ASSUME NEW s \in SUBSET Unit, NEW x \in s PROVE h[s] = Mul(x, h[s \ {x}])
  <2>1. x \in Unit /\ f[x] = x
    BY <1>1
  <2> QED BY <1>2, <2>1 DEF Products
<1> QED BY <1>2, <1>3 DEF Products, ProductOf

LEMMA ProductIsUnit ==
  ASSUME NEW h, ProductOf(h), NEW s \in SUBSET Unit PROVE h[s] \in Unit
<1> DEFINE Good == {r \in SUBSET s : h[r] \in Unit}
<1>1. {} \in Good
  BY Order DEF ProductOf, Unit
<1>2. ASSUME NEW r \in SUBSET s, r # {}, \A x \in r : r \ {x} \in Good PROVE r \in Good
  <2>1. PICK x \in r : TRUE
    BY <1>2
  <2>2. h[r] = Mul(x, h[r \ {x}]) /\ h[r \ {x}] \in Unit /\ x \in Unit
    BY <1>2, <2>1 DEF ProductOf
  <2> QED BY <2>2, NoZeroDivisors
<1>3. IsFiniteSet(s)
  BY UnitsFinite
<1> HIDE DEF Good
<1>4. s \in Good
  BY <1>1, <1>2, <1>3, SubsetInduction
<1> QED BY <1>4 DEF Good

Multiples(a, s) == {Mul(a, x) : x \in s}

LEMMA ProductOfMultiples ==
  ASSUME NEW h, ProductOf(h), NEW a \in Unit, NEW pw, PowersOf(pw, a), NEW s \in SUBSET Unit
  PROVE  /\ Multiples(a, s) \in SUBSET Unit
         /\ h[Multiples(a, s)] = Mul(pw[Cardinality(s)], h[s])
<1> DEFINE M(r) == Multiples(a, r)
           Good == {r \in SUBSET s : h[M(r)] = Mul(pw[Cardinality(r)], h[r])}
<1>1. \A r \in SUBSET Unit : M(r) \in SUBSET Unit
  BY NoZeroDivisors DEF Multiples
<1>2. {} \in Good
  <2>1. M({}) = {} /\ Cardinality({}) = 0 /\ h[{}] = 1 /\ pw[0] = 1 /\ 1 \in Field
    BY FS_EmptySet, Order DEF Multiples, ProductOf, PowersOf, Field
  <2> QED BY <2>1, MulLaws
<1>3. ASSUME NEW r \in SUBSET s, r # {}, \A x \in r : r \ {x} \in Good PROVE r \in Good
  <2>1. PICK x \in r : TRUE
    BY <1>3
  <2> DEFINE q == r \ {x}
             n == Cardinality(q)
             y == Mul(a, x)
  <2>2. Cardinality(r) = n + 1 /\ n \in 0 .. Q - 2
    <3>1. Cardinality(r) \in 0 .. Q - 1 /\ n \in 0 .. Q - 1 /\ IsFiniteSet(r)
      BY UnitsFinite
    <3>2. n = Cardinality(r) - 1
      BY <2>1, <3>1, FS_RemoveElement
    <3> QED BY <3>1, <3>2, Order
  <2>3. x \in Unit /\ q \in SUBSET Unit /\ y \in Unit
    BY <2>1, NoZeroDivisors
  <2>4. y \in M(r) /\ M(r) \ {y} = M(q)
    <3>1. \A z \in Unit : Mul(a, z) = y => z = x
      BY <2>3, Cancel, UnitsFinite
    <3>2. y \in M(r)
      BY <2>1 DEF Multiples
    <3>3. M(q) \subseteq M(r) \ {y}
      BY <2>3, <3>1 DEF Multiples
    <3>4. M(r) \ {y} \subseteq M(q)
      BY DEF Multiples
    <3> QED BY <3>2, <3>3, <3>4
  <2>5. h[M(r)] = Mul(y, h[M(q)])
    <3>1. M(r) \in SUBSET Unit
      BY <1>1
    <3> QED BY <2>4, <3>1 DEF ProductOf
  <2>6. h[M(q)] = Mul(pw[n], h[q])
    BY <1>3, <2>1
  <2>7. h[r] = Mul(x, h[q])
    BY <2>1 DEF ProductOf
  <2>8. pw[n + 1] = Mul(pw[n], a)
    BY <2>2, Order DEF PowersOf
  <2>9. a \in Field /\ x \in Field /\ h[q] \in Field /\ pw[n] \in Field
    <3>1. h[q] \in Unit
      BY <2>3, ProductIsUnit
    <3>2. pw[n] \in Field
      BY <2>2, Order DEF PowersOf
    <3> QED BY <2>3, <3>1, <3>2, UnitsFinite
  <2> HIDE DEF q, n
  <2>10. Mul(Mul(a, x), Mul(pw[n], h[q])) = Mul(Mul(pw[n], a), Mul(x, h[q]))
    <3> DEFINE p == pw[n]
               w == h[q]
    <3>1. p \in Field /\ w \in Field
      BY <2>9
    <3> HIDE DEF p, w
    <3>2. Mul(a, x) \in Field /\ Mul(p, a) \in Field /\ Mul(x, w) \in Field
      BY <2>9, <3>1, MulLaws
    <3>3. Mul(Mul(a, x), Mul(p, w)) = Mul(Mul(Mul(a, x), p), w)
      BY <2>9, <3>1, <3>2, MulLaws
    <3>4. Mul(Mul(p, a), Mul(x, w)) = Mul(Mul(Mul(p, a), x), w)
      BY <2>9, <3>1, <3>2, MulLaws
    <3>5. Mul(Mul(a, x), p) = Mul(p, Mul(a, x)) /\ Mul(Mul(p, a), x) = Mul(p, Mul(a, x))
      BY <2>9, <3>1, <3>2, MulLaws
    <3> QED BY <3>3, <3>4, <3>5 DEF p, w
  <2>11. h[M(r)] = Mul(pw[Cardinality(r)], h[r])
    BY <2>2, <2>5, <2>6, <2>7, <2>8, <2>10
  <2> QED BY <2>11
<1>4. IsFiniteSet(s)
  BY UnitsFinite
<1>5. s \in Good
  <2> HIDE DEF Good
  <2> QED BY <1>2, <1>3, <1>4, SubsetInduction
<1> QED BY <1>1, <1>5

LEMMA Fermat == ASSUME NEW a \in Unit, NEW pw, PowersOf(pw, a) PROVE pw[Q - 1] = 1
<1>1. PICK h : ProductOf(h)
  BY ProductExists
<1> DEFINE M == Multiples(a, Unit)
           f == [x \in Unit |-> Mul(a, x)]
<1>2. M \in SUBSET Unit /\ h[M] = Mul(pw[Q - 1], h[Unit])
  BY <1>1, ProductOfMultiples, UnitsFinite
<1>3. M = Unit
  <2>1. f \in Bijection(Unit, M)
    <3>1. f \in [Unit -> M] /\ \A x \in Unit : f[x] = Mul(a, x)
      BY DEF Multiples
    <3>2. \A x, y \in Unit : f[x] = f[y] => x = y
      BY <3>1, Cancel, UnitsFinite
    <3>3. \A y \in M : \E x \in Unit : f[x] = y
      BY <3>1 DEF Multiples
    <3> HIDE DEF f, M
    <3> QED BY <3>1, <3>2, <3>3 DEF Bijection, Injection, Surjection, IsInjective
  <2> HIDE DEF f, M
  <2>2. ExistsBijection(Unit, M)
    BY <2>1 DEF ExistsBijection
  <2>3. IsFiniteSet(M) /\ Cardinality(M) = Cardinality(Unit)
    BY <2>2, UnitsFinite, FS_Bijection
  <2> QED BY <1>2, <2>3, UnitsFinite, FS_Subset
<1>4. h[Unit] \in Unit /\ pw[Q - 1] \in Field /\ 1 \in Field
  BY <1>1, ProductIsUnit, Order DEF PowersOf, Field
<1>5. Mul(h[Unit], pw[Q - 1]) = Mul(h[Unit], 1)
  <2> DEFINE w == h[Unit]
             p == pw[Q - 1]
  <2>1. w \in Field /\ p \in Field /\ w = Mul(p, w)
    BY <1>2, <1>3, <1>4, UnitsFinite
  <2> HIDE DEF w, p
  <2>2. Mul(w, p) = Mul(w, 1)
    BY <2>1, MulLaws
  <2> QED BY <2>2 DEF w, p
<1> QED BY <1>4, <1>5, Cancel

(* So square and multiply of a^(Q-2) is the inverse.                       *)
LEMMA InvertInverts ==
  ASSUME NEW a \in Unit PROVE Invert(a) \in Field /\ Mul(a, Invert(a)) = 1
<1>1. PICK pw : PowersOf(pw, a)
  BY PowersExist, UnitsFinite
<1>2. Invert(a) = pw[Q - 2]
  BY <1>1, PowerIsPower, UnitsFinite, Order DEF Invert
<1>3. pw[Q - 1] = Mul(pw[Q - 2], a) /\ pw[Q - 2] \in Field
  <2>1. Q - 1 \in 1 .. Q - 1 /\ (Q - 1) - 1 = Q - 2 /\ Q - 2 \in 0 .. Q - 1
    BY Order
  <2> QED BY <1>1, <2>1 DEF PowersOf
<1> QED BY <1>1, <1>2, <1>3, Fermat, MulLaws, UnitsFinite

-----------------------------------------------------------------------------
(* Scalars, parities, digits.                                              *)
LEMMA Basic ==
  /\ Field \subseteq Nat /\ Unit \subseteq Field /\ Unit \subseteq Nat
  /\ Field \subseteq Int /\ Unit \subseteq Int
  /\ 0 \in Field /\ 1 \in Field /\ 0 \notin Unit
  /\ \A a \in Field : a # 0 => a \in Unit
BY Order DEF Field, Unit

LEMMA EvenYFacts ==
  ASSUME NEW a \in Field
  PROVE  /\ EvenY(a) \in Field /\ ~Odd(EvenY(a))
         /\ a \in Unit => EvenY(a) \in Unit
         /\ EvenY(a) = 0 <=> a = 0
         /\ ~Odd(a) => EvenY(a) = a
         /\ EvenY(EvenY(a)) = EvenY(a)
         /\ EvenY(a) = Signed(Odd(a), a)
<1>1. a # 0 => Neg(a) = Q - a
  BY NegCong
<1>2. a = 0 => Neg(a) = 0 /\ ~Odd(a)
  BY NegCong, Order DEF Odd
<1> DEFINE h == Q \div 2
<1>3. h \in Nat /\ 2 * h <= Q /\ Q <= 2 * h + 1
  BY Order
<1>4. Odd(a) <=> a > h
  BY DEF Odd
<1>5. Odd(EvenY(a)) <=> EvenY(a) > h
  BY DEF Odd
<1> HIDE DEF h
<1>6. EvenY(a) = IF a > h THEN Q - a ELSE a
  BY <1>1, <1>2, <1>3, <1>4, Order DEF EvenY, Field
<1>7. EvenY(a) \in Field /\ EvenY(a) <= h /\ (EvenY(a) = 0 <=> a = 0)
  BY <1>3, <1>6, Order DEF Field
<1>8. a \in Unit => EvenY(a) \in Unit
  BY <1>7, Basic
<1>9. ~Odd(EvenY(a))
  BY <1>3, <1>5, <1>7, Order DEF Field
<1> QED BY <1>4, <1>6, <1>7, <1>8, <1>9 DEF Signed, EvenY

LEMMA SubCong ==
  ASSUME NEW a \in Unit, NEW b \in Unit
  PROVE  Sub(a, b) \in Field /\ Cong(Sub(a, b), a - b) /\ (Sub(a, b) = 0 <=> a = b)
<1>1. /\ a \in Field /\ b \in Field /\ a \in Int /\ b \in Int /\ a # 0 /\ b # 0
      /\ Neg(b) \in Field /\ Neg(b) = Q - b /\ Neg(b) # 0 /\ Cong(Neg(b), -b)
  BY NegCong, Order DEF Field, Unit
<1>2. Sub(a, b) \in Field /\ Cong(Sub(a, b), a + Neg(b))
  BY <1>1, AddCong DEF Sub
<1>3. Cong(a + Neg(b), a + (-b))
  BY <1>1, CongAdd, CongRefl, Order DEF Field
<1>4. Sub(a, b) \in Int /\ a + Neg(b) \in Int /\ a + (-b) = a - b /\ a - b \in Int
  BY <1>1, <1>2, Order DEF Field
<1>5. Cong(Sub(a, b), a - b)
  BY <1>2, <1>3, <1>4, CongTrans
<1>6. Sub(a, b) = 0 => a = b
  <2> SUFFICES ASSUME Sub(a, b) = 0 PROVE a = b
    OBVIOUS
  <2>1. Cong(a - b, 0)
    BY <1>4, <1>5, CongSym
  <2>2. Cong((a - b) + b, 0 + b)
    BY <1>1, <1>4, <2>1, CongAdd, CongRefl
  <2>3. (a - b) + b = a /\ 0 + b = b
    BY <1>1
  <2> QED BY <1>1, <2>2, <2>3, CongEqual
<1>7. a = b => Sub(a, b) = 0
  <2> SUFFICES ASSUME a = b PROVE Sub(a, b) = 0
    OBVIOUS
  <2>1. a - b = 0
    BY <1>1
  <2> QED BY <1>2, <1>5, <2>1, CongEqual, Basic
<1> QED BY <1>2, <1>5, <1>6, <1>7

LEMMA LeastExists ==
  ASSUME NEW n \in Nat, NEW s \in SUBSET (0 .. n), s # {}
  PROVE  Min(s) \in s
<1> DEFINE Good == {i \in 0 .. n : (\E x \in s : x <= i) => \E x \in s : \A y \in s : x <= y}
<1>1. 0 \in Good
  OBVIOUS
<1>2. ASSUME NEW i \in 1 .. n, i - 1 \in Good PROVE i \in Good
  <2>1. SUFFICES ASSUME NEW x \in s, x <= i
                 PROVE  \E z \in s : \A y \in s : z <= y
    BY <2>1
  <2>2. CASE \E y \in s : y <= i - 1
    BY <1>2, <2>2
  <2>3. CASE ~\E y \in s : y <= i - 1
    <3>1. \A y \in s : x <= y
      BY <2>1, <2>3
    <3> QED BY <3>1
  <2> QED BY <2>2, <2>3
<1>3. n \in Good
  <2> HIDE DEF Good
  <2>1. \A i \in 0 .. n : i \in Good
    BY <1>1, <1>2, IntervalInduction
  <2> QED BY <2>1
<1>4. \E x \in s : \A y \in s : x <= y
  <2>1. \E x \in s : x <= n
    <3>1. PICK x \in s : TRUE
      OBVIOUS
    <3>2. x <= n
      OBVIOUS
    <3> QED BY <3>2
  <2> QED BY <1>3, <2>1
<1> QED BY <1>4 DEF Min

LEMMA BitType == ASSUME NEW v \in Nat, NEW w \in Nat, NEW i \in 1 .. w
                 PROVE  Bit(v, w, i) \in {0, 1}
<1> DEFINE d == 2 ^ (w - i)
<1>1. d \in Nat \ {0}
  BY PowersOfTwo
<1> HIDE DEF d
<1>2. v \div d \in Nat
  BY <1>1
<1> QED BY <1>2 DEF Bit, d

LEMMA ClampedType == ASSUME NEW p \in Nat
                     PROVE  Clamped(p) \in Nat /\ Clamped(p) < 2 ^ NbDigits
<1> DEFINE d == 2 ^ NbDigits
<1>1. d \in Nat \ {0}
  BY PowersOfTwo, SignatureAssumption
<1>2. Clamped(p) = IF p > d - 1 THEN d - 1 ELSE p
  BY DEF Clamped, MaxOutcome
<1> HIDE DEF d
<1> QED BY <1>1, <1>2 DEF d

LEMMA DigitsType == ASSUME NEW p \in Nat
                    PROVE  /\ Digits(p) \in [1 .. NbDigits -> {0, 1}]
                           /\ \A i \in 1 .. NbDigits :
                                Digits(p)[i] = Bit(Clamped(p), NbDigits, i)
BY BitType, ClampedType, SignatureAssumption DEF Digits

LEMMA DigitsGivePrice ==
  ASSUME NEW p \in Nat, NEW q \in Nat,
         \A i \in 1 .. NbDigits : Digits(p)[i] = Digits(q)[i]
  PROVE  Clamped(p) = Clamped(q)
<1> DEFINE n == NbDigits
           x == Clamped(p)
           y == Clamped(q)
<1>1. x \in Nat /\ y \in Nat /\ x < 2 ^ n /\ y < 2 ^ n /\ n \in Nat
  BY ClampedType, SignatureAssumption
<1>2. ASSUME NEW k \in 0 .. n - 1 PROVE (x \div 2 ^ k) % 2 = (y \div 2 ^ k) % 2
  <2>1. n - k \in 1 .. n /\ n - (n - k) = k
    BY <1>1
  <2>2. Bit(x, n, n - k) = Bit(y, n, n - k)
    BY <2>1, DigitsType
  <2> QED BY <2>1, <2>2 DEF Bit
<1> HIDE DEF x, y, n
<1>3. x = y
  BY <1>1, <1>2, DigitsDetermine
<1> QED BY <1>3 DEF x, y

(* Hashes. *)
LEMMA HashFacts ==
  ASSUME HashGivesScalars
  PROVE  /\ \A r, px, m \in Nat : Challenge(r, px, m) \in Unit
         /\ \A seed \in Nat : OracleKey(seed) \in Unit
         /\ \A seed, ts, i \in Nat : Nonce(seed, ts, i) \in Unit
         /\ \A base, i \in Nat : NonceCandidate(base, i) \in Unit
<1>1. \A tag \in HashTags, args \in Seq(Nat) : Hash(tag, args) \in Unit
  BY DEF HashGivesScalars, Unit
<1>2. {"challenge", "key", "nonce", "presign"} \subseteq HashTags
  BY DEF HashTags
<1>3. ASSUME NEW a \in Nat, NEW b \in Nat, NEW c \in Nat
      PROVE  <<a>> \in Seq(Nat) /\ <<a, b>> \in Seq(Nat) /\ <<a, b, c>> \in Seq(Nat)
  OBVIOUS
<1>4. \A r, px, m \in Nat : Challenge(r, px, m) \in Unit
  BY <1>1, <1>2, <1>3 DEF Challenge
<1>5. \A seed \in Nat : OracleKey(seed) \in Unit
  BY <1>1, <1>2, <1>3 DEF OracleKey
<1>6. \A seed, ts, i \in Nat : Nonce(seed, ts, i) \in Unit
  BY <1>1, <1>2, <1>3 DEF Nonce
<1>7. \A base, i \in Nat : NonceCandidate(base, i) \in Unit
  BY <1>1, <1>2, <1>3 DEF NonceCandidate
<1> QED BY <1>4, <1>5, <1>6, <1>7

(* A signature with the nonce r of the key px, unless the sum failed.      *)
IsSignature(sig, r, px, m) ==
    /\ sig.r = r /\ sig.s \in Field
    /\ sig.s # 0 => /\ Cong(sig.s, r + px * Challenge(r, px, m))
                    /\ Verify(px, m, sig)

LEMMA SumVerifies ==
  ASSUME NEW r \in Field, NEW px \in Field, NEW m, NEW s \in Field, NEW sig,
         sig.r = r, sig.s = s, r # 0, s # 0, Challenge(r, px, m) \in Field,
         Cong(s, r + px * Challenge(r, px, m))
  PROVE  Verify(px, m, sig)
<1> DEFINE e == Challenge(r, px, m)
           x == r + e * px
<1>1. e \in Int /\ r \in Int /\ px \in Int /\ e \in Field
  BY Order DEF Field
<1> HIDE DEF e
<1>2. x \in Int /\ r + px * e = x
  BY <1>1
<1>3. Cong(s, x)
  BY <1>2 DEF e
<1> HIDE DEF x
<1>4. x % Q \in Field /\ Cong(x, x % Q)
  BY <1>2, CongMod, CongSym, Order DEF Field
<1>5. s = x % Q
  BY <1>2, <1>3, <1>4, CongTrans, CongEqual, Order DEF Field
<1> QED BY <1>5 DEF Verify, x, e

LEMMA SignedWithNonce ==
  ASSUME HashGivesScalars, NEW sk \in Unit, NEW k \in Unit, NEW m \in Nat
  PROVE  IsSignature(SignWithNonce(sk, k, m), EvenY(k), EvenY(sk), m)
<1> DEFINE r == EvenY(k)
           px == EvenY(sk)
           e == Challenge(r, px, m)
           s == Add(r, Mul(px, e))
           sig == SignWithNonce(sk, k, m)
<1>1. sig.r = r /\ sig.s = s
  BY DEF SignWithNonce
<1>2. r \in Unit /\ px \in Unit
  BY EvenYFacts, Basic
<1> HIDE DEF r, px, sig
<1>3. e \in Unit
  BY <1>2, HashFacts, Basic
<1> HIDE DEF e
<1>4. /\ r \in Int /\ px * e \in Int /\ px \in Int /\ e \in Int
      /\ r \in Field /\ px \in Field /\ e \in Field /\ r # 0
  BY <1>2, <1>3, Basic
<1>5. Mul(px, e) \in Unit /\ Cong(Mul(px, e), px * e)
  BY <1>2, <1>3, <1>4, NoZeroDivisors, MulCong
<1>6. s \in Field /\ Cong(s, r + Mul(px, e))
  BY <1>4, <1>5, AddCong, Basic
<1>7. Cong(r + Mul(px, e), r + px * e)
  <2>1. Mul(px, e) \in Int
    BY <1>5, Basic
  <2> QED BY <1>4, <1>5, <2>1, CongAdd, CongRefl
<1>8. Cong(s, r + px * e)
  <2>1. s \in Int /\ r + Mul(px, e) \in Int /\ r + px * e \in Int
    <3>1. s \in Int /\ Mul(px, e) \in Int
      BY <1>5, <1>6, Basic
    <3> HIDE DEF s
    <3> QED BY <1>4, <3>1
  <2> HIDE DEF s
  <2> QED BY <1>6, <1>7, <2>1, CongTrans
<1> HIDE DEF s
<1>9. s # 0 => Verify(px, m, sig)
  BY <1>1, <1>4, <1>6, <1>8, SumVerifies DEF e
<1> QED BY <1>1, <1>6, <1>8, <1>9 DEF IsSignature, e, r, px, sig

-----------------------------------------------------------------------------
(* The tasks.                                                              *)
RunInv ==
    /\ task \in CohortTasks \cup OracleTasks \cup OpeningTasks
    /\ outcome = <<>> \/ outcome = Perform(task)

LEMMA RunInvariant == Spec => []RunInv
<1>1. Init => RunInv
  BY DEF Init, RunInv
<1>2. RunInv /\ [Run]_<<task, outcome>> => RunInv'
  <2> SUFFICES ASSUME RunInv, [Run]_<<task, outcome>> PROVE RunInv'
    OBVIOUS
  <2>1. CASE Run
    BY <2>1 DEF Run, RunInv
  <2>2. CASE UNCHANGED <<task, outcome>>
    BY <2>2 DEF RunInv
  <2> QED BY <2>1, <2>2
<1> QED BY <1>1, <1>2, PTL DEF Spec

(* What an oracle attests.                                                 *)
OracleMade(a, seed, ts, price, px) ==
    /\ a.key = px /\ px \in Unit /\ EvenY(px) = px
    /\ a.price = price /\ a.digits = Digits(price) /\ a.nonces = Announce(seed, ts)
    /\ DOMAIN a.sigs = 1 .. NbDigits
    /\ \A i \in 1 .. NbDigits :
         /\ a.nonces[i] = EvenY(Nonce(seed, ts, i)) /\ a.nonces[i] \in Unit
         /\ IsSignature(a.sigs[i], a.nonces[i], px, a.digits[i])

LEMMA OracleSigns ==
  ASSUME HashGivesScalars, NEW seed \in Nat, NEW ts \in Nat, NEW price \in Nat
  PROVE  OracleMade(OracleAttests(seed, ts, price), seed, ts, price, EvenY(OracleKey(seed)))
<1> DEFINE a == OracleAttests(seed, ts, price)
           sk == OracleKey(seed)
           px == EvenY(sk)
<1>1. sk \in Unit /\ px \in Unit /\ EvenY(px) = px
  BY HashFacts, EvenYFacts, Basic
<1>2. /\ a.key = px /\ a.price = price /\ a.digits = Digits(price)
      /\ a.nonces = Announce(seed, ts) /\ a.sigs = Attest(seed, ts, price)
  BY DEF OracleAttests, Attestation
<1>3. DOMAIN a.sigs = 1 .. NbDigits
  BY <1>2 DEF Attest
<1>4. ASSUME NEW i \in 1 .. NbDigits
      PROVE  /\ a.nonces[i] = EvenY(Nonce(seed, ts, i)) /\ a.nonces[i] \in Unit
             /\ IsSignature(a.sigs[i], a.nonces[i], px, a.digits[i])
  <2>1. a.nonces[i] = EvenY(Nonce(seed, ts, i))
    BY <1>2 DEF Announce
  <2>2. a.sigs[i] = SignWithNonce(sk, Nonce(seed, ts, i), a.digits[i])
    BY <1>2 DEF Attest
  <2>3. a.digits[i] \in Nat
    <3>1. Digits(price)[i] \in {0, 1}
      BY DigitsType
    <3> HIDE DEF a
    <3> QED BY <1>2, <3>1
  <2>4. Nonce(seed, ts, i) \in Unit
    <3>1. i \in Nat
      BY SignatureAssumption
    <3> QED BY <3>1, HashFacts
  <2>5. EvenY(Nonce(seed, ts, i)) \in Unit
    BY <2>4, EvenYFacts, Basic
  <2> HIDE DEF a, sk
  <2> QED BY <1>1, <2>1, <2>2, <2>3, <2>4, <2>5, SignedWithNonce
<1> HIDE DEF a, sk
<1>5. OracleMade(a, seed, ts, price, px)
  BY <1>1, <1>2, <1>3, <1>4 DEF OracleMade
<1> QED BY <1>5 DEF a, sk

(* Two signatures with one nonce and different challenges give the key.    *)
LEMMA TwoSignaturesGiveKey ==
  ASSUME NEW r \in Unit, NEW px \in Unit, EvenY(px) = px, NEW ma, NEW mb, ma # mb,
         Challenge(r, px, ma) \in Unit, Challenge(r, px, mb) \in Unit,
         NEW a, NEW b, IsSignature(a, r, px, ma), IsSignature(b, r, px, mb),
         a.s # 0, b.s # 0
  PROVE  ExtractSecret(a, b, ma, mb, px)
           = IF Challenge(r, px, ma) = Challenge(r, px, mb) THEN 0 ELSE px
<1> DEFINE ea == Challenge(r, px, ma)
           eb == Challenge(r, px, mb)
           de == Sub(ea, eb)
           ds == Sub(a.s, b.s)
           d == Mul(ds, Invert(de))
<1>1. /\ a.s \in Unit /\ b.s \in Unit /\ a.r = r /\ b.r = r
      /\ Cong(a.s, r + px * ea) /\ Cong(b.s, r + px * eb)
  BY Basic DEF IsSignature
<1>2. ea \in Unit /\ eb \in Unit
  OBVIOUS
<1>3. ExtractSecret(a, b, ma, mb, px) = IF de = 0 \/ EvenY(d) /= px THEN 0 ELSE d
  BY <1>1 DEF ExtractSecret, ScalarDifference
<1> HIDE DEF ea, eb
<1>4. /\ de \in Field /\ Cong(de, ea - eb) /\ (de = 0 <=> ea = eb)
      /\ ds \in Field /\ Cong(ds, a.s - b.s)
  BY <1>1, <1>2, SubCong
<1>5. CASE ea = eb
  BY <1>3, <1>4, <1>5 DEF ea, eb
<1>6. CASE ea # eb
  <2>1. de \in Unit
    BY <1>4, <1>6, Basic
  <2>2. /\ ea \in Int /\ eb \in Int /\ a.s \in Int /\ b.s \in Int /\ px \in Int /\ r \in Int
        /\ de \in Int /\ ds \in Int
    BY <1>1, <1>2, <1>4, Basic
  <2> HIDE DEF de, ds
  <2>3. Cong(ds, px * de)
    <3>1. r + px * ea \in Int /\ r + px * eb \in Int /\ a.s - b.s \in Int
          /\ ea - eb \in Int /\ px * (ea - eb) \in Int /\ px * de \in Int
      BY <2>2
    <3>2. Cong(a.s - b.s, (r + px * ea) - (r + px * eb))
      BY <1>1, <2>2, <3>1, CongAdd
    <3>3. (r + px * ea) - (r + px * eb) = px * (ea - eb)
      BY <2>2
    <3>4. Cong(px * (ea - eb), px * de)
      <4>1. Cong(ea - eb, de)
        BY <1>4, <2>2, <3>1, CongSym
      <4> QED BY <2>2, <3>1, <4>1, CongTimes, CongRefl
    <3>5. Cong(ds, px * (ea - eb))
      BY <1>4, <2>2, <3>1, <3>2, <3>3, CongTrans
    <3> QED BY <2>2, <3>1, <3>4, <3>5, CongTrans
  <2>4. ds = Mul(px, de)
    <3>1. px \in Int /\ px * de \in Int
      BY <2>2
    <3>2. Mul(px, de) \in Field /\ Cong(Mul(px, de), px * de)
      BY <2>2, MulCong
    <3>3. Cong(px * de, Mul(px, de)) /\ Mul(px, de) \in Int
      BY <3>1, <3>2, CongSym, Basic
    <3> QED BY <1>4, <2>2, <2>3, <3>1, <3>2, <3>3, CongTrans, CongEqual
  <2>5. d = px
    <3>1. Invert(de) \in Field /\ Mul(de, Invert(de)) = 1
      BY <2>1, InvertInverts
    <3>2. px \in Field /\ de \in Field
      BY <2>1, Basic
    <3> QED BY <2>4, <3>1, <3>2, MulLaws
  <2> HIDE DEF d
  <2> QED BY <1>3, <1>4, <1>6, <2>5 DEF ea, eb
<1> QED BY <1>5, <1>6

(* Two attestations of one tick give the oracle's key to anyone who reads  *)
(* them exactly when they disagree on a digit, unless the two challenges   *)
(* of that digit collide (verify_equivocation and extract_secret), for any *)
(* prime group order and any hash into its scalars.                        *)
THEOREM ConflictsRevealKeys ==
  ASSUME HashGivesScalars PROVE Spec => []ConflictRevealsKey
<1>1. RunInv => ConflictRevealsKey
  <2> SUFFICES ASSUME RunInv, Finished({"oracle"})
               PROVE  LET a == outcome[1]
                          b == outcome[2]
                          d == VerifyEquivocation(a, b, a.key) IN
                      \/ Failed(a.sigs) \/ Failed(b.sigs)
                      \/ /\ d = 0
                         /\ \/ Clamped(task.price) = Clamped(task.other)
                            \/ \E i \in Conflicts(a, b) :
                                  Challenge(a.nonces[i], a.key, 0)
                                    = Challenge(a.nonces[i], a.key, 1)
                      \/ /\ d = EvenY(OracleKey(task.seed))
                         /\ Clamped(task.price) /= Clamped(task.other)
    BY DEF ConflictRevealsKey
  <2>1. task \in OracleTasks /\ outcome = Perform(task) /\ task.by = "oracle"
    <3>1. \A t \in CohortTasks \cup OpeningTasks : t.by # "oracle"
      BY DEF CohortTasks, OpeningTasks
    <3> QED BY <3>1 DEF RunInv, Finished
  <2> DEFINE a == OracleAttests(task.seed, task.ts, task.price)
             b == OracleAttests(task.seed, task.ts, task.other)
             px == EvenY(OracleKey(task.seed))
             C == Conflicts(a, b)
             d == VerifyEquivocation(a, b, px)
             n == Announce(task.seed, task.ts)
  <2>2. outcome[1] = a /\ outcome[2] = b
    BY <2>1 DEF Perform
  <2>3. task.seed \in Nat /\ task.ts \in Nat /\ task.price \in Nat /\ task.other \in Nat
    BY <2>1, RunsAssumption DEF OracleTasks
  <2>4. /\ a.key = px /\ px \in Unit /\ EvenY(px) = px
        /\ a.digits = Digits(task.price) /\ b.digits = Digits(task.other)
        /\ a.nonces = n
        /\ DOMAIN a.sigs = 1 .. NbDigits /\ DOMAIN b.sigs = 1 .. NbDigits
        /\ \A i \in 1 .. NbDigits :
             /\ n[i] \in Unit
             /\ IsSignature(a.sigs[i], n[i], px, a.digits[i])
             /\ IsSignature(b.sigs[i], n[i], px, b.digits[i])
    <3>1. OracleMade(a, task.seed, task.ts, task.price, px)
      BY <2>3, OracleSigns
    <3>2. OracleMade(b, task.seed, task.ts, task.other, px)
      BY <2>3, OracleSigns
    <3>3. n = Announce(task.seed, task.ts)
      OBVIOUS
    <3> HIDE DEF a, b, px, n
    <3> QED BY <3>1, <3>2, <3>3 DEF OracleMade
  <2> HIDE DEF a, b, px, n
  <2>5. SUFFICES ASSUME ~Failed(a.sigs), ~Failed(b.sigs)
        PROVE  \/ /\ d = 0
                  /\ \/ Clamped(task.price) = Clamped(task.other)
                     \/ \E i \in C : Challenge(n[i], px, 0) = Challenge(n[i], px, 1)
               \/ d = px /\ Clamped(task.price) # Clamped(task.other)
    BY <2>2, <2>4, <2>5 DEF px
  <2>6. CASE C = {}
    <3>1. \A i \in 1 .. NbDigits : Digits(task.price)[i] = Digits(task.other)[i]
      BY <2>4, <2>6 DEF Conflicts
    <3>2. Clamped(task.price) = Clamped(task.other)
      BY <2>3, <3>1, DigitsGivePrice
    <3>3. d = 0
      BY <2>6 DEF VerifyEquivocation
    <3> QED BY <3>2, <3>3
  <2>7. CASE C # {}
    <3> DEFINE i == Min(C)
    <3>1. i \in C /\ i \in 1 .. NbDigits /\ a.digits[i] # b.digits[i]
      <4>1. C \subseteq 1 .. NbDigits /\ C \subseteq 0 .. NbDigits
        BY DEF Conflicts
      <4>2. i \in C
        BY <2>7, <4>1, LeastExists, SignatureAssumption
      <4> HIDE DEF i
      <4> QED BY <4>1, <4>2 DEF Conflicts
    <3> HIDE DEF i
    <3> DEFINE ma == a.digits[i]
               mb == b.digits[i]
    <3>2. /\ IsSignature(a.sigs[i], n[i], px, ma) /\ IsSignature(b.sigs[i], n[i], px, mb)
          /\ n[i] \in Unit /\ a.sigs[i].s # 0 /\ b.sigs[i].s # 0
      BY <2>4, <2>5, <3>1 DEF Failed
    <3>3. ma \in {0, 1} /\ mb \in {0, 1} /\ ma # mb
      BY <2>3, <2>4, <3>1, DigitsType
    <3>4. Verify(px, ma, a.sigs[i]) /\ Verify(px, mb, b.sigs[i])
      BY <3>2 DEF IsSignature
    <3>5. d = ExtractSecret(a.sigs[i], b.sigs[i], ma, mb, px)
      BY <2>7, <3>4 DEF VerifyEquivocation, i
    <3> HIDE DEF ma, mb, d
    <3>6. Challenge(n[i], px, ma) \in Unit /\ Challenge(n[i], px, mb) \in Unit
      <4>1. n[i] \in Nat /\ px \in Nat /\ ma \in Nat /\ mb \in Nat
        BY <2>4, <3>2, <3>3, Basic
      <4> QED BY <4>1, HashFacts
    <3>7. d = IF Challenge(n[i], px, ma) = Challenge(n[i], px, mb) THEN 0 ELSE px
      BY <2>4, <3>2, <3>3, <3>5, <3>6, TwoSignaturesGiveKey
    <3>8. Clamped(task.price) # Clamped(task.other)
      <4>1. Digits(task.price) # Digits(task.other)
        BY <2>4, <3>1
      <4> QED BY <4>1 DEF Digits
    <3> QED BY <3>1, <3>3, <3>7, <3>8
  <2> QED BY <2>6, <2>7
<1> QED BY <1>1, RunInvariant, PTL

-----------------------------------------------------------------------------
(* Sums of sequences.                                                      *)
LEMMA TotalInField ==
  ASSUME NEW s \in Seq(Field), Len(s) > 0 PROVE Total(s) \in Field
<1> DEFINE n == Len(Tail(s))
           t == Tail(s)
           base == Head(s)
<1>1. t \in Seq(Field) /\ base \in Field
  <2>1. s # <<>>
    OBVIOUS
  <2> QED BY <2>1
<1>2. n \in Nat /\ DOMAIN t = 1 .. n /\ \A i \in 1 .. n : t[i] \in Field
  BY <1>1
<1>3. Total(s) = SumFrom(base, t)
  BY DEF Total, SumFrom
<1> HIDE DEF n, t, base
<1>4. PICK p : PartialSums(p, n, base, t)
  BY <1>1, <1>2, AddChain
<1> QED BY <1>2, <1>3, <1>4 DEF PartialSums

LEMMA TotalOfTwo ==
  ASSUME NEW s \in Seq(Field), Len(s) = 2 PROVE Total(s) = Add(s[1], s[2])
<1> DEFINE t == Tail(s)
           base == Head(s)
           n == 1
<1>1. base = s[1] /\ s[1] \in Field /\ s[2] \in Field
  <2>1. s # <<>> /\ DOMAIN s = 1 .. 2
    OBVIOUS
  <2> QED BY <2>1
<1>2. DOMAIN t = 1 .. n /\ t[1] = s[2]
  <2>1. s # <<>> /\ Len(t) = 1 /\ t \in Seq(Field)
    OBVIOUS
  <2>2. t[1] = s[1 + 1]
    BY <2>1
  <2>3. DOMAIN t = 1 .. Len(t) /\ 1 + 1 = 2
    BY <2>1
  <2> HIDE DEF t
  <2> QED BY <2>1, <2>2, <2>3
<1>3. Total(s) = SumFrom(base, t)
  BY DEF Total, SumFrom
<1>4. \A i \in 1 .. n : t[i] \in Field
  <2>1. \A i \in 1 .. n : i = 1
    OBVIOUS
  <2> HIDE DEF t
  <2> QED BY <1>1, <1>2, <2>1
<1>5. n \in Nat /\ n = 1 /\ base \in Field
  BY <1>1
<1> HIDE DEF t, base, n
<1>6. PICK p : PartialSums(p, n, base, t)
  BY <1>2, <1>4, <1>5, AddChain
<1>7. p[0] = base /\ p[1] = Add(p[1 - 1], t[1]) /\ SumFrom(base, t) = p[1]
  BY <1>5, <1>6 DEF PartialSums
<1> QED BY <1>1, <1>2, <1>3, <1>7

(* The sign of a parity, and what Signed does.                             *)
Sign(odd) == IF odd THEN -1 ELSE 1

LEMMA SignedCong ==
  ASSUME NEW odd \in BOOLEAN, NEW a \in Field
  PROVE  /\ Signed(odd, a) \in Field
         /\ Sign(odd) \in Int
         /\ Cong(Signed(odd, a), Sign(odd) * a)
         /\ Signed(odd, a) = 0 <=> a = 0
<1>1. a \in Int /\ Neg(a) \in Field /\ Cong(Neg(a), -a) /\ (Neg(a) = 0 <=> a = 0)
  BY NegCong, Order DEF Field
<1>2. CASE odd
  <2>1. Signed(odd, a) = Neg(a) /\ Sign(odd) = -1
    BY <1>2 DEF Signed, Sign
  <2>2. (-1) * a = -a
    BY <1>1
  <2> QED BY <1>1, <2>1, <2>2
<1>3. CASE ~odd
  <2>1. Signed(odd, a) = a /\ Sign(odd) = 1
    BY <1>3 DEF Signed, Sign
  <2>2. 1 * a = a /\ Cong(a, a)
    BY <1>1, CongRefl
  <2> QED BY <1>1, <2>1, <2>2
<1> QED BY <1>2, <1>3

-----------------------------------------------------------------------------
(* The point of a bucket and the secret an attestation makes of it.        *)
LEMMA PrefixDigits ==
  ASSUME NEW price \in Nat, NEW m \in 1 .. NbDigits, NEW i \in 1 .. m
  PROVE  Bit(BucketOf(price, m), m, i) = Digits(price)[i]
<1> DEFINE x == Clamped(price)
           b == 2 ^ (NbDigits - m)
           c == 2 ^ (m - i)
<1>1. x \in Nat /\ b \in Nat \ {0} /\ c \in Nat \ {0} /\ NbDigits \in Nat
  BY ClampedType, PowersOfTwo, SignatureAssumption
<1>2. b * c = 2 ^ (NbDigits - i)
  <2>1. NbDigits - m \in Nat /\ m - i \in Nat /\ (NbDigits - m) + (m - i) = NbDigits - i
    BY <1>1
  <2>2. 2 ^ ((NbDigits - m) + (m - i)) = 2 ^ (NbDigits - m) * 2 ^ (m - i)
    BY <2>1, PowerOfSum
  <2> QED BY <2>1, <2>2
<1>3. (x \div b) \div c = x \div 2 ^ (NbDigits - i)
  <2> HIDE DEF x, b, c
  <2> QED BY <1>1, <1>2, QuotientOfQuotient
<1>4. Bit(BucketOf(price, m), m, i) = ((x \div b) \div c) % 2
  BY DEF Bit, BucketOf
<1>5. Digits(price)[i] = (x \div 2 ^ (NbDigits - i)) % 2
  <2>1. i \in 1 .. NbDigits
    BY <1>1
  <2> QED BY <2>1, DigitsType DEF Bit
<1> QED BY <1>3, <1>4, <1>5

LEMMA AnticipationInField ==
  ASSUME HashGivesScalars, NEW rx \in Field, NEW px \in Field, NEW d \in Nat
  PROVE  AnticipationPoint(rx, px, d) \in Field
<1>1. Challenge(rx, px, d) \in Int
  BY HashFacts, Basic
<1>2. Mul(px, Challenge(rx, px, d)) \in Field
  BY <1>1, MulCong, Basic
<1> QED BY <1>2, AddCong DEF AnticipationPoint

LEMMA BucketOpens ==
  ASSUME HashGivesScalars, NEW ts \in Nat, NEW price \in Nat, NEW m \in 1 .. NbDigits,
         NEW bucket \in Nat
  PROVE  LET px == EvenY(OracleKey(1))
             point == BucketAdaptorPoint(Announce(1, ts), px, m, bucket)
             att == OracleAttests(1, ts, price)
         IN  /\ point \in Field
             /\ BucketSecret(att.sigs, price, m, bucket)
                  = IF BucketOf(price, m) = bucket THEN point ELSE 0
<1> DEFINE px == EvenY(OracleKey(1))
           ann == Announce(1, ts)
           point == BucketAdaptorPoint(ann, px, m, bucket)
           att == OracleAttests(1, ts, price)
           points == [i \in 1 .. m |-> AnticipationPoint(ann[i], px, Bit(bucket, m, i))]
           secrets == [i \in 1 .. m |-> att.sigs[i].s]
<1>1. px \in Field /\ m \in Nat /\ 1 .. m \subseteq 1 .. NbDigits
  <2>1. OracleKey(1) \in Unit
    BY HashFacts
  <2>2. px \in Field
    BY <2>1, EvenYFacts, Basic
  <2>3. m \in Nat /\ 1 .. m \subseteq 1 .. NbDigits
    BY SignatureAssumption
  <2> QED BY <2>2, <2>3
<1>2. ASSUME NEW i \in 1 .. m PROVE ann[i] = EvenY(Nonce(1, ts, i)) /\ ann[i] \in Field
  <2>1. i \in 1 .. NbDigits /\ i \in Nat
    BY <1>1
  <2>2. EvenY(Nonce(1, ts, i)) \in Field
    BY <2>1, HashFacts, EvenYFacts, Basic
  <2> QED BY <2>1, <2>2 DEF Announce
<1>3. points \in Seq(Field) /\ Len(points) > 0
  <2>1. ASSUME NEW i \in 1 .. m PROVE points[i] \in Field
    <3>1. Bit(bucket, m, i) \in Nat
      BY <1>1, BitType
    <3> HIDE DEF px, ann
    <3> QED BY <1>1, <1>2, <3>1, AnticipationInField
  <2>2. points \in [1 .. m -> Field]
    <3>1. points = [i \in 1 .. m |-> points[i]]
      OBVIOUS
    <3> HIDE DEF points
    <3> QED BY <2>1, <3>1
  <2> HIDE DEF points
  <2> QED BY <1>1, <2>2
<1>4. point \in Field
  <2>1. point = Total(points)
    BY DEF BucketAdaptorPoint
  <2> HIDE DEF point, points
  <2> QED BY <1>3, <2>1, TotalInField
<1>5. ASSUME BucketOf(price, m) = bucket PROVE secrets = points
  <2>1. ASSUME NEW i \in 1 .. m PROVE att.sigs[i].s = points[i]
    <3>1. Bit(bucket, m, i) = Digits(price)[i]
      BY <1>5, PrefixDigits
    <3>2. att.sigs[i] = SignWithNonce(OracleKey(1), Nonce(1, ts, i), Digits(price)[i])
      BY <1>1 DEF OracleAttests, Attestation, Attest
    <3>3. att.sigs[i].s = AnticipationPoint(EvenY(Nonce(1, ts, i)), px, Digits(price)[i])
      BY <3>2 DEF SignWithNonce, AnticipationPoint
    <3> QED BY <1>2, <3>1, <3>3
  <2> HIDE DEF att
  <2> QED BY <2>1
<1>6. BucketSecret(att.sigs, price, m, bucket)
         = IF BucketOf(price, m) = bucket THEN point ELSE 0
  <2>1. BucketSecret(att.sigs, price, m, bucket)
           = IF BucketOf(price, m) /= bucket THEN 0 ELSE Total(secrets)
    BY DEF BucketSecret
  <2>2. point = Total(points)
    BY DEF BucketAdaptorPoint
  <2> HIDE DEF point, points, secrets, att
  <2> QED BY <1>5, <2>1, <2>2
<1> QED BY <1>4, <1>6

-----------------------------------------------------------------------------
(* Sums and products follow their congruences.                             *)
LEMMA AddTo ==
  ASSUME NEW a \in Field, NEW b \in Field, NEW x \in Int, NEW y \in Int,
         Cong(a, x), Cong(b, y), Add(a, b) # 0
  PROVE  Add(a, b) \in Unit /\ a \in Unit /\ b \in Unit /\ Cong(Add(a, b), x + y)
<1> DEFINE s == Add(a, b)
<1>1. s \in Field /\ a \in Unit /\ b \in Unit /\ Cong(s, a + b) /\ s # 0
  BY AddCong
<1> HIDE DEF s
<1>2. s \in Int /\ a \in Int /\ b \in Int /\ a + b \in Int /\ x + y \in Int
  BY <1>1, Basic
<1>3. Cong(a + b, x + y)
  BY <1>2, CongAdd
<1>4. Cong(s, x + y) /\ s \in Unit
  BY <1>1, <1>2, <1>3, CongTrans, Basic
<1> QED BY <1>1, <1>4 DEF s

LEMMA MulTo ==
  ASSUME NEW a \in Int, NEW b \in Int, NEW x \in Int, NEW y \in Int, Cong(a, x), Cong(b, y)
  PROVE  Mul(a, b) \in Field /\ Cong(Mul(a, b), x * y)
<1> DEFINE p == Mul(a, b)
<1>1. p \in Field /\ Cong(p, a * b)
  BY MulCong
<1> HIDE DEF p
<1>2. p \in Int /\ a * b \in Int /\ x * y \in Int
  BY <1>1, Basic
<1>3. Cong(a * b, x * y)
  BY CongTimes
<1>4. Cong(p, x * y)
  BY <1>1, <1>2, <1>3, CongTrans
<1> QED BY <1>1, <1>4 DEF p

LEMMA SignedTo ==
  ASSUME NEW odd \in BOOLEAN, NEW a \in Field, NEW x \in Int, Cong(a, x)
  PROVE  Signed(odd, a) \in Field /\ Sign(odd) \in Int /\ Cong(Signed(odd, a), Sign(odd) * x)
<1> DEFINE p == Signed(odd, a)
           g == Sign(odd)
<1>1. p \in Field /\ g \in Int /\ Cong(p, g * a)
  BY SignedCong
<1> HIDE DEF p, g
<1>2. p \in Int /\ a \in Int /\ g * a \in Int /\ g * x \in Int
  BY <1>1, Basic
<1>3. Cong(g * a, g * x)
  BY <1>1, <1>2, CongTimes, CongRefl
<1>4. Cong(p, g * x)
  BY <1>1, <1>2, <1>3, CongTrans
<1> QED BY <1>1, <1>4 DEF p, g

LEMMA AddNothing ==
  ASSUME NEW a PROVE Add(a, 0) = 0 /\ \A odd \in BOOLEAN : Signed(odd, 0) = 0
BY NegCong, Basic DEF Add, Signed

-----------------------------------------------------------------------------
(* A pre-signature of the LP alone.                                        *)
LEMMA RailOpens ==
  ASSUME HashGivesScalars, NEW sk \in Unit, NEW base \in Nat, NEW m \in Nat, NEW t \in Unit,
         Presign(sk, base, m, t).s # 0
  PROVE  LET pre == Presign(sk, base, m, t)
             f == Decrypt(pre, t)
         IN  /\ VerifyPresig(pre, EvenY(sk), m, t)
             /\ f.s # 0 => Verify(EvenY(sk), m, f) /\ RecoverT(pre, f) = t
<1> DEFINE E == EvenAttempts(base, t)
           k == NonceCandidate(base, Min(E))
           c == Add(k, t)
           px == EvenY(sk)
           e == Challenge(c, px, m)
           pre == Presign(sk, base, m, t)
           f == Decrypt(pre, t)
<1>1. E # {} /\ c # 0 /\ pre = [combined |-> c, r |-> k, s |-> Add(k, Mul(px, e))]
  BY DEF Presign
<1>2. Min(E) \in 0 .. 255 /\ ~Odd(c)
  <2>1. E \subseteq 0 .. 255 /\ \A i \in E : ~Odd(Add(NonceCandidate(base, i), t))
    BY DEF EvenAttempts, MaxAttempts
  <2>2. Min(E) \in E
    <3>1. PICK n : n = 255 /\ n \in Nat
      OBVIOUS
    <3>2. E \in SUBSET (0 .. n) /\ E # {}
      BY <1>1, <2>1, <3>1
    <3> HIDE DEF E
    <3> QED BY <3>1, <3>2, LeastExists
  <2> QED BY <2>1, <2>2
<1>3. k \in Unit
  <2>1. Min(E) \in Nat
    BY <1>2
  <2> QED BY <2>1, HashFacts
<1>4. px \in Unit
  BY EvenYFacts, Basic
<1>5. pre.combined = c /\ pre.r = k /\ pre.s = Add(k, Mul(px, e)) /\ pre.s # 0
  BY <1>1
<1>6. f.r = pre.combined /\ f.s = Add(pre.s, t) /\ RecoverT(pre, f) = Sub(f.s, pre.s)
  BY DEF Decrypt, RecoverT
<1> HIDE DEF E, k, px, pre, f
<1>7. c \in Unit /\ Cong(c, k + t)
  BY <1>1, <1>3, AddCong, Basic
<1> HIDE DEF c
<1>8. e \in Unit
  BY <1>4, <1>7, HashFacts, Basic
<1> HIDE DEF e
<1>9. VerifyPresig(pre, px, m, t)
  BY <1>1, <1>2, <1>5 DEF VerifyPresig, c, e
<1>10. /\ k \in Int /\ t \in Int /\ px \in Int /\ e \in Int /\ c \in Int /\ px * e \in Int
       /\ k \in Field /\ t \in Field /\ px \in Field /\ e \in Field /\ c \in Field
  BY <1>3, <1>4, <1>7, <1>8, Basic
<1> DEFINE w == px * e
           u == Mul(px, e)
<1>11. w \in Int /\ u \in Field /\ Cong(u, w)
  BY <1>10, MulCong
<1> HIDE DEF w, u
<1>12. /\ pre.s \in Unit /\ Cong(pre.s, k + w) /\ k + w \in Int
       /\ pre.s \in Field /\ pre.s \in Int
  <2>1. pre.s = Add(k, u)
    BY <1>5 DEF u
  <2>2. pre.s \in Unit /\ Cong(pre.s, k + w)
    BY <1>5, <1>10, <1>11, <2>1, AddTo, CongRefl
  <2>3. k + w \in Int
    BY <1>10, <1>11
  <2>4. pre.s \in Field /\ pre.s \in Int
    BY <2>2, Basic, Zenon
  <2> QED BY <2>2, <2>3, <2>4
<1>13. ASSUME f.s # 0 PROVE Verify(px, m, f) /\ RecoverT(pre, f) = t
  <2> DEFINE x == k + w
             a == f.s
             b == pre.s
  <2>1. x \in Int /\ b \in Field /\ b \in Int /\ b \in Unit /\ Cong(b, x)
    BY <1>12
  <2>2. a = Add(b, t) /\ a # 0
    BY <1>6, <1>13
  <2> HIDE DEF x, a, b
  <2>3. a \in Unit /\ Cong(a, x + t) /\ a \in Field /\ a \in Int
    <3>1. a \in Unit /\ Cong(a, x + t)
      BY <1>10, <2>1, <2>2, AddTo, CongRefl
    <3> QED BY <3>1, Basic
  <2>4. Cong(a, c + w)
    <3>1. x + t = (k + t) + w /\ k + t \in Int /\ (k + t) + w \in Int /\ c + w \in Int
      BY <1>10, <1>11 DEF x
    <3>2. Cong(k + t, c)
      BY <1>7, <1>10, <3>1, CongSym
    <3>3. Cong((k + t) + w, c + w)
      BY <1>10, <1>11, <3>1, <3>2, CongRefl, CongAdd
    <3> QED BY <2>3, <3>1, <3>3, CongTrans
  <2>5. Verify(px, m, f)
    <3>1. f.r = c /\ f.s = a /\ c # 0 /\ Challenge(c, px, m) \in Field
      BY <1>1, <1>5, <1>6, <1>10 DEF a, e, c
    <3>2. Cong(a, c + px * Challenge(c, px, m))
      BY <2>4 DEF w, e
    <3> QED BY <1>10, <2>2, <2>3, <3>1, <3>2, SumVerifies
  <2>6. RecoverT(pre, f) = t
    <3> DEFINE d == Sub(a, b)
    <3>1. d \in Field /\ Cong(d, a - b)
      BY <2>1, <2>3, SubCong
    <3> HIDE DEF d
    <3>2. x + t \in Int /\ a - b \in Int /\ d \in Int /\ (x + t) - x = t
      BY <1>10, <2>1, <2>3, <3>1, Basic
    <3>3. Cong(a - b, (x + t) - x)
      BY <2>1, <2>3, <3>2, CongAdd
    <3>4. d = t
      BY <1>10, <3>1, <3>2, <3>3, CongTrans, CongEqual
    <3> QED BY <1>6, <3>4 DEF a, b, d
  <2> QED BY <2>5, <2>6
<1> QED BY <1>9, <1>13 DEF pre, f, px

-----------------------------------------------------------------------------
(* The two-party signature: each partial signature, and the sum of both    *)
(* and of the tweak, follows the congruence of the tweaked key.            *)
LEMMA MusigHashes ==
  ASSUME HashGivesScalars
  PROVE  /\ \A pks \in Unit \X Unit, i \in Nat : KeyCoeff(pks, i) \in Unit
         /\ \A pks : \A root \in Nat : InternalKey(pks) \in Nat => Tweak(pks, root) \in Unit
         /\ \A i, root, m, t \in Nat : /\ MusigNonce(i, root, m, t)[1] \in Unit
                                       /\ MusigNonce(i, root, m, t)[2] \in Unit
         /\ \A a, b, c, d \in Nat : Hash("noncecoef", <<a, b, c, d>>) \in Unit
<1>1. \A tag \in HashTags, args \in Seq(Nat) : Hash(tag, args) \in Unit
  BY DEF HashGivesScalars, Unit
<1>2. {"keyagg", "taptweak", "musig", "noncecoef"} \subseteq HashTags
  BY DEF HashTags
<1>3. ASSUME NEW pks \in Unit \X Unit, NEW i \in Nat PROVE KeyCoeff(pks, i) \in Unit
  <2>1. pks \in Seq(Nat) /\ <<i>> \in Seq(Nat)
    <3>1. PICK a \in Unit, b \in Unit : pks = <<a, b>>
      OBVIOUS
    <3>2. a \in Nat /\ b \in Nat
      BY Basic, Zenon
    <3> QED BY <3>1, <3>2
  <2>2. pks \o <<i>> \in Seq(Nat)
    BY <2>1
  <2> QED BY <1>1, <1>2, <2>2 DEF KeyCoeff
<1>4. ASSUME NEW pks, NEW root \in Nat, InternalKey(pks) \in Nat PROVE Tweak(pks, root) \in Unit
  <2>1. <<InternalKey(pks), root>> \in Seq(Nat)
    BY <1>4
  <2> QED BY <1>1, <1>2, <2>1 DEF Tweak
<1>5. ASSUME NEW i \in Nat, NEW root \in Nat, NEW m \in Nat, NEW t \in Nat, NEW j \in Nat
      PROVE  Hash("musig", <<i, root, m, t, j>>) \in Unit
  <2>1. <<i, root, m, t, j>> \in Seq(Nat)
    OBVIOUS
  <2> QED BY <1>1, <1>2, <2>1
<1>6. ASSUME NEW i \in Nat, NEW root \in Nat, NEW m \in Nat, NEW t \in Nat
      PROVE  MusigNonce(i, root, m, t)[1] \in Unit /\ MusigNonce(i, root, m, t)[2] \in Unit
  BY <1>5 DEF MusigNonce
<1>7. ASSUME NEW a \in Nat, NEW b \in Nat, NEW c \in Nat, NEW d \in Nat
      PROVE  Hash("noncecoef", <<a, b, c, d>>) \in Unit
  <2>1. <<a, b, c, d>> \in Seq(Nat)
    OBVIOUS
  <2> QED BY <1>1, <1>2, <2>1
<1> QED BY <1>3, <1>4, <1>6, <1>7

LEMMA ListOf ==
  ASSUME NEW n \in Nat, NEW S, NEW s \in [1 .. n -> S] PROVE s \in Seq(S) /\ Len(s) = n
OBVIOUS

LEMMA PairTotal ==
  ASSUME NEW s \in [1 .. 2 -> Field]
  PROVE  Total(s) \in Field /\ Total(s) = Add(s[1], s[2])
<1>1. s \in Seq(Field) /\ Len(s) = 2
  BY ListOf
<1>2. Len(s) > 0
  BY <1>1
<1> QED BY <1>1, <1>2, TotalInField, TotalOfTwo

(* The parity of a product of signs.                                       *)
LEMMA SignsMultiply ==
  ASSUME NEW a \in BOOLEAN, NEW b \in BOOLEAN
  PROVE  /\ Sign(a /= b) = Sign(a) * Sign(b) /\ Sign(a) \in Int
         /\ Sign(a) * Sign(a) = 1
<1>1. (a => Sign(a) = -1) /\ (~a => Sign(a) = 1)
  BY DEF Sign
<1>2. (b => Sign(b) = -1) /\ (~b => Sign(b) = 1)
  BY DEF Sign
<1>3. /\ a /\ b => Sign(a /= b) = 1
      /\ ~a /\ ~b => Sign(a /= b) = 1
      /\ a /\ ~b => Sign(a /= b) = -1
      /\ ~a /\ b => Sign(a /= b) = -1
  BY DEF Sign
<1>4. (-1) * (-1) = 1 /\ (-1) * 1 = -1 /\ 1 * (-1) = -1 /\ 1 * 1 = 1
  OBVIOUS
<1> DEFINE p == Sign(a)
           q == Sign(b)
           r == Sign(a /= b)
<1> HIDE DEF p, q, r
<1>5. r = p * q /\ p \in Int /\ p * p = 1
  BY <1>1, <1>2, <1>3, <1>4 DEF p, q, r
<1> QED BY <1>5 DEF p, q, r

LEMMA JointSum ==
  ASSUME NEW f \in Int, NEW h \in Int, NEW k \in Int, NEW e \in Int, NEW w \in Int,
         NEW r1 \in Int, NEW r2 \in Int, NEW y1 \in Int, NEW y2 \in Int
  PROVE  ((f * r1 + (h * k) * (e * y1)) + (f * r2 + (h * k) * (e * y2))) + h * (e * w)
           = f * (r1 + r2) + e * (h * (k * (y1 + y2) + w))
<1>1. f * r1 + f * r2 = f * (r1 + r2)
  OBVIOUS
<1>2. (h * k) * (e * y1) = e * (h * (k * y1)) /\ (h * k) * (e * y2) = e * (h * (k * y2))
  OBVIOUS
<1>3. h * (e * w) = e * (h * w)
  OBVIOUS
<1>4. h * (k * (y1 + y2) + w) = h * (k * y1) + h * (k * y2) + h * w
  OBVIOUS
<1> DEFINE a == h * (k * y1)
           b == h * (k * y2)
           c == h * w
<1>5. a \in Int /\ b \in Int /\ c \in Int
  OBVIOUS
<1> HIDE DEF a, b, c
<1>6. e * (a + b + c) = e * a + e * b + e * c
  BY <1>5
<1> QED BY <1>1, <1>2, <1>3, <1>4, <1>5, <1>6 DEF a, b, c

LEMMA CosignSound ==
  ASSUME HashGivesScalars, NEW sks \in Unit \X Unit, NEW root \in Nat, NEW m \in Nat,
         NEW t \in Field, NEW enc \in BOOLEAN
  PROVE  LET sig == Cosign(sks, root, m, t, enc)
             full == IF enc THEN Add(sig.r, t) ELSE sig.r
             qx == AggregateQ(sks, root)
         IN  sig.s # 0 =>
               /\ sig.r \in Unit /\ full \in Unit /\ qx \in Unit /\ sig.s \in Unit
               /\ Cong(sig.s, Signed(Odd(full), sig.r) + Challenge(EvenY(full), qx, m) * qx)
<1> DEFINE nonce == [i \in 1 .. 2 |-> MusigNonce(i, root, m, t)]
           q == TweakedKey(sks, root)
           qx == EvenY(q)
           n1 == [i \in 1 .. 2 |-> nonce[i][1]]
           n2 == [i \in 1 .. 2 |-> nonce[i][2]]
           b == Hash("noncecoef", <<Total(n1), Total(n2), qx, m>>)
           each == [i \in 1 .. 2 |-> Add(nonce[i][1], Mul(nonce[i][2], b))]
           R == Total(each)
           full == IF enc THEN Add(R, t) ELSE R
           e == Challenge(EvenY(full), qx, m)
           A == Aggregated(sks)
           y == [i \in 1 .. 2 |-> Mul(sks[i], KeyCoeff(sks, i))]
           tw == Tweak(sks, root)
           neg == Odd(q) /= Odd(A)
           p1 == Add(Signed(Odd(full), each[1]),
                     Signed(neg, Mul(e, Mul(KeyCoeff(sks, 1), sks[1]))))
           p2 == Add(Signed(Odd(full), each[2]),
                     Signed(neg, Mul(e, Mul(KeyCoeff(sks, 2), sks[2]))))
           twk == Signed(Odd(q), Mul(e, tw))
           s == Add(Add(p1, p2), twk)
           sig == Cosign(sks, root, m, t, enc)
<1>1. sig = [r |-> R, s |-> IF full = 0 \/ q = 0 THEN 0 ELSE s]
  BY DEF Cosign
<1>2. AggregateQ(sks, root) = qx /\ A = Total(y) /\ q = Add(EvenY(A), tw)
  BY DEF AggregateQ, Aggregated, TweakedKey, InternalKey
<1>3. /\ sks[1] \in Unit /\ sks[2] \in Unit
      /\ KeyCoeff(sks, 1) \in Unit /\ KeyCoeff(sks, 2) \in Unit
  BY MusigHashes
<1>4. /\ y[1] = Mul(KeyCoeff(sks, 1), sks[1]) /\ y[2] = Mul(KeyCoeff(sks, 2), sks[2])
      /\ y[1] \in Field /\ y[2] \in Field /\ y \in [1 .. 2 -> Field]
  <2>1. /\ Mul(KeyCoeff(sks, 1), sks[1]) \in Field /\ Mul(KeyCoeff(sks, 2), sks[2]) \in Field
        /\ Mul(KeyCoeff(sks, 1), sks[1]) = Mul(sks[1], KeyCoeff(sks, 1))
        /\ Mul(KeyCoeff(sks, 2), sks[2]) = Mul(sks[2], KeyCoeff(sks, 2))
    BY <1>3, MulLaws, Basic
  <2>2. y[1] = Mul(sks[1], KeyCoeff(sks, 1)) /\ y[2] = Mul(sks[2], KeyCoeff(sks, 2))
    OBVIOUS
  <2>3. \A i \in 1 .. 2 : i = 1 \/ i = 2
    OBVIOUS
  <2>4. \A i \in 1 .. 2 : y[i] \in Field
    BY <2>1, <2>2, <2>3
  <2>5. y = [i \in 1 .. 2 |-> y[i]]
    OBVIOUS
  <2> HIDE DEF y
  <2> QED BY <2>1, <2>2, <2>4, <2>5
<1>5. A \in Field /\ A = Add(y[1], y[2])
  <2> HIDE DEF y
  <2> QED BY <1>2, <1>4, PairTotal
<1>6. EvenY(A) \in Field /\ tw \in Unit /\ q \in Field /\ qx \in Field
  <2>1. EvenY(A) \in Field /\ InternalKey(sks) = EvenY(A)
    BY <1>5, EvenYFacts DEF InternalKey
  <2>2. tw \in Unit
    BY <2>1, MusigHashes, Basic
  <2>3. q \in Field
    BY <1>2, <2>1, <2>2, AddCong, Basic
  <2> QED BY <2>1, <2>2, <2>3, EvenYFacts
<1>7. each \in [1 .. 2 -> Field] /\ each[1] \in Field /\ each[2] \in Field
  <2>1. \A i \in 1 .. 2 : nonce[i][1] \in Unit /\ nonce[i][2] \in Unit
    <3>1. \A i \in 1 .. 2 : i \in Nat /\ t \in Nat
      BY Basic
    <3> QED BY <3>1, MusigHashes
  <2> HIDE DEF nonce
  <2>2. n1 \in [1 .. 2 -> Field] /\ n2 \in [1 .. 2 -> Field]
    BY <2>1, Basic
  <2>3. Total(n1) \in Nat /\ Total(n2) \in Nat /\ qx \in Nat
    <3> HIDE DEF n1, n2, qx
    <3> QED BY <1>6, <2>2, PairTotal, Basic
  <2>4. b \in Unit
    <3> HIDE DEF n1, n2, qx
    <3> QED BY <2>3, MusigHashes
  <2> HIDE DEF b
  <2>5. \A i \in 1 .. 2 : each[i] \in Field
    <3>1. ASSUME NEW i \in 1 .. 2 PROVE each[i] \in Field
      <4>1. nonce[i][1] \in Field /\ nonce[i][2] \in Int /\ b \in Int
        BY <2>1, <2>4, Basic
      <4>2. Mul(nonce[i][2], b) \in Field
        BY <4>1, MulCong
      <4> QED BY <4>1, <4>2, AddCong
    <3> QED BY <3>1
  <2>6. each = [i \in 1 .. 2 |-> each[i]]
    OBVIOUS
  <2> HIDE DEF each
  <2> QED BY <2>5, <2>6
<1> HIDE DEF each, y, A, q, tw, nonce
<1>8. R \in Field /\ R = Add(each[1], each[2])
  BY <1>7, PairTotal
<1> HIDE DEF R
<1>9. SUFFICES ASSUME full # 0, q # 0, s # 0, sig.r = R, sig.s = s
               PROVE  /\ R \in Unit /\ full \in Unit /\ qx \in Unit /\ s \in Unit
                      /\ Cong(s, Signed(Odd(full), R) + e * qx)
  BY <1>1, <1>2
<1>10. R \in Unit /\ full \in Unit /\ qx \in Unit /\ EvenY(full) \in Unit
  <2>1. R \in Unit /\ full \in Unit
    <3>1. CASE enc
      BY <1>8, <1>9, <3>1, AddCong, Basic
    <3>2. CASE ~enc
      BY <1>8, <1>9, <3>2, Basic
    <3> QED BY <3>1, <3>2
  <2>2. qx \in Unit
    BY <1>6, <1>9, EvenYFacts, Basic
  <2> HIDE DEF full
  <2> QED BY <2>1, <2>2, EvenYFacts, Basic
<1>11. e \in Unit
  BY <1>10, HashFacts, Basic
<1> DEFINE f == Sign(Odd(full))
           h == Sign(Odd(q))
           k == Sign(Odd(A))
           Y == y[1] + y[2]
           Z == k * Y + tw
<1>12. /\ Odd(full) \in BOOLEAN /\ Odd(q) \in BOOLEAN /\ Odd(A) \in BOOLEAN
       /\ neg \in BOOLEAN
  BY DEF Odd
<1>13. f \in Int /\ h \in Int /\ k \in Int /\ Sign(neg) = h * k
  BY <1>12, SignsMultiply
<1> HIDE DEF full, e, qx, f, h, k, neg
<1>14. /\ y[1] \in Int /\ y[2] \in Int /\ tw \in Int /\ e \in Int /\ qx \in Int
       /\ each[1] \in Int /\ each[2] \in Int /\ Y \in Int /\ Z \in Int
  <2>1. /\ y[1] \in Int /\ y[2] \in Int /\ tw \in Int /\ e \in Int /\ qx \in Int
        /\ each[1] \in Int /\ each[2] \in Int
    BY <1>4, <1>6, <1>7, <1>11, Basic
  <2> QED BY <1>13, <2>1
<1>15. Cong(qx, h * Z)
  <2>1. EvenY(A) # 0 /\ A # 0
    <3>1. EvenY(A) # 0
      BY <1>2, <1>9 DEF Add
    <3> QED BY <1>5, <3>1, EvenYFacts
  <2>2. Cong(A, Y)
    BY <1>4, <1>5, <2>1, AddCong
  <2>3. Cong(EvenY(A), k * Y)
    BY <1>5, <1>12, <1>14, <2>2, EvenYFacts, SignedTo DEF k
  <2>4. k * Y \in Int /\ tw \in Field /\ Cong(tw, tw)
    BY <1>6, <1>13, <1>14, CongRefl, Basic
  <2>5. Cong(q, k * Y + tw)
    <3> HIDE DEF Y
    <3> QED BY <1>2, <1>6, <1>9, <1>14, <2>3, <2>4, AddTo
  <2>6. Cong(Signed(Odd(q), q), h * Z)
    BY <1>6, <1>12, <1>14, <2>5, SignedTo DEF h
  <2> QED BY <1>6, <2>6, EvenYFacts DEF qx
<1>16. Cong(Signed(Odd(full), R), f * (each[1] + each[2]))
  <2>1. Cong(R, each[1] + each[2])
    BY <1>7, <1>8, <1>10, AddCong, Basic
  <2>2. each[1] + each[2] \in Int
    BY <1>14
  <2> QED BY <1>8, <1>12, <2>1, <2>2, SignedTo DEF f
<1>17. ASSUME NEW r \in Field, NEW v \in Field, NEW p,
              p = Add(Signed(Odd(full), r), Signed(neg, Mul(e, v))), p # 0
       PROVE  p \in Field /\ Cong(p, f * r + (h * k) * (e * v))
  <2>1. r \in Int /\ v \in Int /\ Cong(r, r) /\ Cong(v, v) /\ Cong(e, e)
    BY <1>14, CongRefl, Basic
  <2>2. e * v \in Int /\ f * r \in Int /\ h * k \in Int
    BY <1>13, <1>14, <2>1
  <2>3. (h * k) * (e * v) \in Int
    <3> DEFINE g == h * k
               ev == e * v
    <3>1. g \in Int /\ ev \in Int
      BY <2>2
    <3> HIDE DEF g, ev
    <3>2. g * ev \in Int
      BY <3>1
    <3> QED BY <3>2 DEF g, ev
  <2>4. Signed(Odd(full), r) \in Field /\ Cong(Signed(Odd(full), r), f * r)
    BY <1>12, <2>1, SignedTo DEF f
  <2>5. Mul(e, v) \in Field /\ Cong(Mul(e, v), e * v)
    BY <1>14, <2>1, MulCong
  <2>6. Signed(neg, Mul(e, v)) \in Field
        /\ Cong(Signed(neg, Mul(e, v)), (h * k) * (e * v))
    BY <1>12, <1>13, <2>2, <2>5, SignedTo
  <2> DEFINE a == Signed(Odd(full), r)
             c == Signed(neg, Mul(e, v))
             x == f * r
             z == (h * k) * (e * v)
  <2>7. /\ p = Add(a, c) /\ a \in Field /\ c \in Field /\ x \in Int /\ z \in Int
        /\ Cong(a, x) /\ Cong(c, z)
    BY <1>17, <2>2, <2>3, <2>4, <2>6
  <2> HIDE DEF a, c, x, z
  <2>8. p \in Unit /\ Cong(p, x + z)
    BY <1>17, <2>7, AddTo
  <2> QED BY <2>8, Basic DEF x, z
<1> DEFINE g1 == f * each[1] + (h * k) * (e * y[1])
           g2 == f * each[2] + (h * k) * (e * y[2])
           g3 == h * (e * tw)
<1>18. p1 \in Unit /\ p2 \in Unit /\ twk \in Unit /\ Add(p1, p2) \in Unit
  <2>1. twk \in Field
    <3>1. Mul(e, tw) \in Field
      BY <1>14, MulCong
    <3> QED BY <1>12, <3>1, SignedCong
  <2>2. p1 \in Field /\ p2 \in Field
    <3>1. ASSUME NEW r \in Field, NEW v \in Field
          PROVE  Add(Signed(Odd(full), r), Signed(neg, Mul(e, v))) \in Field
      <4>1. Mul(e, v) \in Field
        BY <1>14, MulCong, Basic
      <4>2. Signed(Odd(full), r) \in Field /\ Signed(neg, Mul(e, v)) \in Field
        BY <1>12, <4>1, SignedCong
      <4> QED BY <4>2, AddCong
    <3> QED BY <1>4, <1>7, <3>1
  <2> HIDE DEF p1, p2, twk
  <2> QED BY <1>9, <2>1, <2>2, AddCong, Basic
<1>19. Cong(p1, g1) /\ Cong(p2, g2)
  <2>1. p1 # 0 /\ p2 # 0
    BY <1>18, Basic
  <2> QED BY <1>4, <1>7, <1>17, <2>1
<1>20. Cong(twk, g3)
  <2>1. Mul(e, tw) \in Field /\ Cong(Mul(e, tw), e * tw)
    BY <1>14, MulCong
  <2>2. e * tw \in Int
    BY <1>14
  <2> QED BY <1>12, <2>1, <2>2, SignedTo DEF h
<1>21. g1 \in Int /\ g2 \in Int /\ g3 \in Int
  <2>1. \A a, b1, c \in Int : a * b1 + (h * k) * (e * c) \in Int
    <3>1. \A c \in Int : e * c \in Int
      BY <1>14
    <3>2. h * k \in Int
      BY <1>13
    <3> DEFINE hk == h * k
    <3> HIDE DEF hk
    <3>3. \A a, b1, c \in Int : a * b1 + hk * c \in Int
      BY <3>2 DEF hk
    <3> QED BY <3>1, <3>3 DEF hk
  <2>2. e * tw \in Int /\ h * (e * tw) \in Int
    BY <1>13, <1>14
  <2> QED BY <1>13, <1>14, <2>1, <2>2
<1>22. (g1 + g2) + g3 = f * (each[1] + each[2]) + e * (h * Z)
  <2> DEFINE r1 == each[1]
             r2 == each[2]
             v1 == y[1]
             v2 == y[2]
  <2>1. /\ f \in Int /\ h \in Int /\ k \in Int /\ e \in Int /\ tw \in Int
        /\ r1 \in Int /\ r2 \in Int /\ v1 \in Int /\ v2 \in Int
    BY <1>13, <1>14
  <2>2. /\ g1 = f * r1 + (h * k) * (e * v1) /\ g2 = f * r2 + (h * k) * (e * v2)
        /\ g3 = h * (e * tw) /\ Z = k * (v1 + v2) + tw
    OBVIOUS
  <2> HIDE DEF r1, r2, v1, v2, g1, g2, g3, Z
  <2>3. ((f * r1 + (h * k) * (e * v1)) + (f * r2 + (h * k) * (e * v2))) + h * (e * tw)
           = f * (r1 + r2) + e * (h * (k * (v1 + v2) + tw))
    BY <2>1, JointSum
  <2>4. (g1 + g2) + g3 = f * (r1 + r2) + e * (h * Z)
    BY <2>2, <2>3
  <2> QED BY <2>4 DEF r1, r2
<1>23. s \in Unit /\ Cong(s, (g1 + g2) + g3)
  <2> HIDE DEF p1, p2, twk, g1, g2, g3
  <2> DEFINE p == Add(p1, p2)
  <2>1. p # 0 /\ p1 \in Field /\ p2 \in Field /\ twk \in Field
    BY <1>18, Basic
  <2>2. p \in Field /\ Cong(p, g1 + g2)
    BY <1>18, <1>19, <1>21, <2>1, AddTo, Basic
  <2>3. g1 + g2 \in Int /\ Add(p, twk) # 0
    BY <1>9, <1>21
  <2> HIDE DEF p
  <2>4. Add(p, twk) \in Unit /\ Cong(Add(p, twk), (g1 + g2) + g3)
    BY <1>20, <1>21, <2>1, <2>2, <2>3, AddTo
  <2> QED BY <2>4 DEF p
<1> HIDE DEF s, g1, g2, g3
<1> DEFINE u == Signed(Odd(full), R)
           x == f * (each[1] + each[2])
           z == h * Z
<1>24. u \in Field /\ Cong(u, x) /\ x \in Int /\ z \in Int /\ Cong(qx, z)
  <2>1. u \in Field
    BY <1>8, <1>12, SignedCong
  <2>2. each[1] + each[2] \in Int
    BY <1>14
  <2>3. x \in Int
    BY <1>13, <2>2
  <2>4. z \in Int
    BY <1>13, <1>14
  <2> QED BY <1>15, <1>16, <2>1, <2>3, <2>4
<1>25. (g1 + g2) + g3 = x + e * z
  BY <1>22
<1> HIDE DEF u, x, z
<1>26. Cong(s, u + e * qx)
  <2>1. u \in Int /\ s \in Int
    BY <1>23, <1>24, Basic
  <2>2. e * z \in Int /\ e * qx \in Int /\ Cong(e * z, e * qx) /\ Cong(x, u)
    <3>1. e * z \in Int /\ e * qx \in Int /\ Cong(z, qx)
      BY <1>14, <1>24, CongSym
    <3> QED BY <1>14, <1>24, <2>1, <3>1, CongTimes, CongRefl, CongSym
  <2> DEFINE ez == e * z
             eq == e * qx
  <2> HIDE DEF ez, eq
  <2>3. Cong(x + ez, u + eq) /\ x + ez \in Int /\ u + eq \in Int
    <3>1. ez \in Int /\ eq \in Int /\ Cong(ez, eq) /\ Cong(x, u) /\ x \in Int /\ u \in Int
      BY <1>24, <2>1, <2>2 DEF ez, eq
    <3>2. x + ez \in Int /\ u + eq \in Int
      BY <3>1
    <3> QED BY <3>1, <3>2, CongAdd
  <2>4. Cong(s, x + ez)
    BY <1>23, <1>25 DEF ez
  <2>5. Cong(s, u + eq)
    BY <2>1, <2>3, <2>4, CongTrans
  <2> QED BY <2>5 DEF eq
<1> QED BY <1>10, <1>23, <1>26 DEF u

(* What is congruent to a remainder's argument and in the field is it.     *)
LEMMA ReducedIs ==
  ASSUME NEW s \in Field, NEW x \in Int, Cong(s, x) PROVE s = x % Q
<1> DEFINE r == x % Q
<1>1. r \in Field /\ Cong(r, x)
  BY CongMod
<1> HIDE DEF r
<1>2. Cong(x, r) /\ s \in Int /\ r \in Int
  BY <1>1, CongSym, Basic
<1>3. s = r
  BY <1>1, <1>2, CongTrans, CongEqual
<1> QED BY <1>3 DEF r

LEMMA JointVerifies ==
  ASSUME HashGivesScalars, NEW sks \in Unit \X Unit, NEW root \in Nat, NEW m \in Nat,
         CosignKeyspend(sks, root, m).s # 0
  PROVE  Verify(AggregateQ(sks, root), m, CosignKeyspend(sks, root, m))
<1> DEFINE cos == Cosign(sks, root, m, 0, FALSE)
           sig == CosignKeyspend(sks, root, m)
           qx == AggregateQ(sks, root)
           r == EvenY(cos.r)
           e == Challenge(r, qx, m)
<1>1. sig.r = r /\ sig.s = cos.s
  BY DEF CosignKeyspend, Cosign
<1>2. /\ cos.r \in Unit /\ qx \in Unit /\ cos.s \in Unit
      /\ Cong(cos.s, Signed(Odd(cos.r), cos.r) + e * qx)
  BY <1>1, CosignSound, Basic
<1> HIDE DEF cos, sig, qx
<1>3. r \in Unit /\ r = Signed(Odd(cos.r), cos.r)
  BY <1>2, EvenYFacts, Basic
<1>4. e \in Unit
  BY <1>2, <1>3, HashFacts, Basic
<1>5. e * qx = qx * e
  <2>1. e \in Int /\ qx \in Int
    BY <1>2, <1>4, Basic
  <2> HIDE DEF e
  <2> QED BY <2>1
<1>6. Cong(cos.s, r + qx * e)
  BY <1>2, <1>3, <1>5
<1>7. r \in Field /\ qx \in Field /\ cos.s \in Field /\ e \in Field /\ r # 0 /\ cos.s # 0
  BY <1>2, <1>3, <1>4, Basic
<1> HIDE DEF r
<1>8. Verify(qx, m, sig)
  BY <1>1, <1>6, <1>7, SumVerifies DEF e
<1> QED BY <1>8 DEF qx, sig

LEMMA VaultOpens ==
  ASSUME HashGivesScalars, NEW sks \in Unit \X Unit, NEW root \in Nat, NEW m \in Nat,
         NEW t \in Unit, CosignKeyspendAdaptor(sks, root, m, t).s # 0
  PROVE  LET pre == CosignKeyspendAdaptor(sks, root, m, t)
             qx == AggregateQ(sks, root)
             f == AdaptKeyspend(pre, t)
         IN  /\ VerifyKeyspendAdaptor(pre, qx, m, t)
             /\ f.s # 0 => Verify(qx, m, f)
<1> DEFINE pre == CosignKeyspendAdaptor(sks, root, m, t)
           qx == AggregateQ(sks, root)
           full == Add(pre.r, t)
           r == EvenY(full)
           e == Challenge(r, qx, m)
           odd == Odd(full)
           u == Signed(odd, pre.r)
           v == Signed(odd, t)
           w == e * qx
           f == AdaptKeyspend(pre, t)
<1>1. /\ pre.r \in Unit /\ full \in Unit /\ qx \in Unit /\ pre.s \in Unit
      /\ Cong(pre.s, u + w)
  BY CosignSound, Basic DEF CosignKeyspendAdaptor
<1>2. f.r = r /\ f.s = Add(pre.s, v)
  BY DEF AdaptKeyspend
<1> HIDE DEF pre, qx, f
<1>3. r \in Unit /\ r = Signed(odd, full) /\ odd \in BOOLEAN
  <2>1. odd \in BOOLEAN
    BY DEF Odd
  <2> HIDE DEF full
  <2> QED BY <1>1, <2>1, EvenYFacts, Basic
<1>4. e \in Unit
  BY <1>1, <1>3, HashFacts, Basic
<1>5. w \in Int /\ w = qx * e
  <2>1. e \in Int /\ qx \in Int
    BY <1>1, <1>4, Basic
  <2> HIDE DEF e
  <2> QED BY <2>1
<1>6. /\ u \in Field /\ v \in Field /\ v \in Int /\ u \in Int /\ pre.s \in Field
      /\ pre.r \in Int /\ t \in Int /\ full \in Int
  BY <1>1, <1>3, SignedCong, Basic
<1>7. VerifyKeyspendAdaptor(pre, qx, m, t)
  <2>1. u + w \in Int
    <3> HIDE DEF u, w
    <3> QED BY <1>5, <1>6
  <2>2. pre.s = (u + w) % Q
    BY <1>1, <1>6, <2>1, ReducedIs
  <2>3. full # 0 /\ pre.s # 0
    BY <1>1, Basic
  <2> QED BY <2>2, <2>3 DEF VerifyKeyspendAdaptor
<1>8. ASSUME f.s # 0 PROVE Verify(qx, m, f)
  <2> DEFINE g == Sign(odd)
  <2>1. g \in Int /\ Cong(u, g * pre.r) /\ Cong(v, g * t) /\ Cong(r, g * full)
    <3>1. pre.r \in Field /\ t \in Field /\ full \in Field
      BY <1>1, Basic
    <3> HIDE DEF full, odd
    <3> QED BY <1>3, <3>1, SignedCong
  <2>2. Cong(u + v, r)
    <3>1. g * pre.r \in Int /\ g * t \in Int /\ g * full \in Int /\ g * (pre.r + t) \in Int
      <4> HIDE DEF g, full
      <4> QED BY <1>6, <2>1
    <3>2. g * pre.r + g * t = g * (pre.r + t)
      <4> HIDE DEF g
      <4> QED BY <1>6, <2>1
    <3>3. Cong(u + v, g * (pre.r + t))
      BY <1>6, <2>1, <3>1, <3>2, CongAdd
    <3>4. Cong(pre.r + t, full)
      <4>1. Cong(full, pre.r + t) /\ pre.r + t \in Int
        BY <1>1, <1>6, AddCong, Basic
      <4> QED BY <1>6, <4>1, CongSym
    <3>5. Cong(g * (pre.r + t), g * full) /\ pre.r + t \in Int
      <4>1. pre.r + t \in Int
        BY <1>6
      <4> HIDE DEF full, g
      <4> QED BY <1>6, <2>1, <3>4, <4>1, CongTimes, CongRefl
    <3>6. Cong(g * full, r) /\ r \in Int
      BY <1>3, <2>1, <3>1, CongSym, Basic
    <3>7. u + v \in Int
      <4> HIDE DEF u, v
      <4> QED BY <1>6
    <3>8. Cong(u + v, g * full)
      BY <3>1, <3>3, <3>5, <3>7, CongTrans
    <3> QED BY <3>1, <3>6, <3>7, <3>8, CongTrans
  <2> HIDE DEF u, v, w, r, g, full
  <2>3. f.s \in Unit /\ Cong(f.s, (u + w) + v)
    <3> DEFINE b == pre.s
               x == u + w
    <3>1. x \in Int /\ Cong(v, v) /\ Cong(b, x) /\ b \in Field
      BY <1>1, <1>5, <1>6, CongRefl
    <3>2. f.s = Add(b, v) /\ Add(b, v) # 0
      BY <1>2, <1>8
    <3> HIDE DEF b, x
    <3>3. Add(b, v) \in Unit /\ Cong(Add(b, v), x + v)
      BY <1>6, <3>1, <3>2, AddTo
    <3> QED BY <3>2, <3>3 DEF x
  <2>4. Cong(f.s, r + w)
    <3>1. (u + w) + v = (u + v) + w /\ u + v \in Int /\ (u + v) + w \in Int
      BY <1>5, <1>6
    <3>2. r \in Int /\ f.s \in Int
      BY <1>3, <2>3, Basic
    <3>3. Cong((u + v) + w, r + w) /\ r + w \in Int
      <4>1. r + w \in Int /\ Cong(w, w)
        BY <1>5, <3>2, CongRefl
      <4> QED BY <1>5, <2>2, <3>1, <3>2, <4>1, CongAdd
    <3> QED BY <2>3, <3>1, <3>2, <3>3, CongTrans
  <2>5. /\ r \in Field /\ qx \in Field /\ e \in Field /\ f.s \in Field /\ r # 0
    BY <1>1, <1>3, <1>4, <2>3, Basic
  <2>6. Cong(f.s, r + qx * e)
    BY <1>5, <2>4
  <2> QED BY <1>2, <1>8, <2>5, <2>6, SumVerifies DEF e
<1> QED BY <1>7, <1>8 DEF pre, f, qx

LEMMA TaskParts ==
  ASSUME RunInv, Finished({"rail1", "vault"})
  PROVE  /\ outcome = Presigned(task) /\ task.by \in {"rail1", "vault"}
         /\ task.m \in 1 .. NbDigits /\ task.bucket \in Nat /\ task.price \in Nat
         /\ task.ts \in Nat /\ task.party \in Unit \X Unit /\ task.msg \in Nat
<1>1. \A x \in CohortTasks \cup OracleTasks : x.by \notin {"rail1", "vault"}
  BY DEF CohortTasks, OracleTasks
<1>2. task \in OpeningTasks /\ outcome = Perform(task) /\ task.by \in {"rail1", "vault"}
  BY <1>1 DEF RunInv, Finished
<1>3. outcome = Presigned(task)
  BY <1>2 DEF Perform
<1>4. PICK m \in Lengths :
         task \in [by : {"rail1", "vault"}, m : {m}, bucket : 0 .. 2 ^ m - 1, price : Prices,
                   ts : Ticks, party : Parties, msg : Messages]
  BY <1>2 DEF OpeningTasks
<1>5. /\ task.m = m /\ task.bucket \in 0 .. 2 ^ m - 1 /\ task.price \in Prices
      /\ task.ts \in Ticks /\ task.party \in Parties /\ task.msg \in Messages
  BY <1>4
<1>6. task.bucket \in Nat
  <2>1. m \in Nat
    BY RunsAssumption, SignatureAssumption
  <2>2. 2 ^ m \in Nat
    BY <2>1, PowersOfTwo
  <2> QED BY <1>5, <2>2
<1> QED BY <1>2, <1>3, <1>5, <1>6, RunsAssumption DEF Unit

(* What a party checks before it locks coins is true of what was           *)
(* pre-signed, and the attestation of a price opens the settlement of that *)
(* price's bucket to a valid signature and no other bucket's, for the LP   *)
(* alone (presign, decrypt) and for both parties of a vault (the joint     *)
(* signature is valid at once), whatever the keys, the digits and the      *)
(* parities of nonces and points.                                          *)
THEOREM AttestationsOpenBuckets ==
  ASSUME HashGivesScalars PROVE Spec => []AttestationOpensItsBucket
<1>1. RunInv => AttestationOpensItsBucket
  <2> SUFFICES ASSUME RunInv, Finished({"rail1", "vault"}),
                      outcome.point # 0, outcome.pre.s # 0
               PROVE  /\ outcome.sound
                      /\ task.by = "vault" /\ outcome.joint.s /= 0
                           => Verify(outcome.key, task.msg, outcome.joint)
                      /\ IF BucketOf(task.price, task.m) = task.bucket
                         THEN \/ outcome.secret = 0 \/ outcome.final.s = 0
                              \/ /\ Verify(outcome.key, task.msg, outcome.final)
                                 /\ task.by = "rail1"
                                       => RecoverT(outcome.pre, outcome.final)
                                             = outcome.secret
                         ELSE /\ outcome.secret = 0
                              /\ ~Verify(outcome.key, task.msg, outcome.final)
    BY DEF AttestationOpensItsBucket
  <2>1. /\ outcome = Presigned(task) /\ task.by \in {"rail1", "vault"}
        /\ task.m \in 1 .. NbDigits /\ task.bucket \in Nat /\ task.price \in Nat
        /\ task.ts \in Nat /\ task.party \in Unit \X Unit /\ task.msg \in Nat
    BY TaskParts
  <2> DEFINE px == EvenY(OracleKey(1))
             point == BucketAdaptorPoint(Announce(1, task.ts), px, task.m, task.bucket)
             att == OracleAttests(1, task.ts, task.price)
             secret == BucketSecret(att.sigs, task.price, task.m, task.bucket)
             sks == task.party
             msg == task.msg
  <2>2. /\ outcome.point = point /\ outcome.secret = secret
        /\ outcome.joint = CosignKeyspend(sks, msg, msg)
        /\ task.by = "rail1" =>
              /\ outcome.pre = Presign(sks[1], msg, msg, point)
              /\ outcome.key = EvenY(sks[1])
              /\ outcome.sound = VerifyPresig(outcome.pre, outcome.key, msg, point)
              /\ outcome.final = Decrypt(outcome.pre, secret)
        /\ task.by = "vault" =>
              /\ outcome.pre = CosignKeyspendAdaptor(sks, msg, msg, point)
              /\ outcome.key = AggregateQ(sks, msg)
              /\ outcome.sound = VerifyKeyspendAdaptor(outcome.pre, outcome.key, msg, point)
              /\ outcome.final = AdaptKeyspend(outcome.pre, secret)
    BY <2>1 DEF Presigned
  <2>3. /\ point \in Field
        /\ secret = IF BucketOf(task.price, task.m) = task.bucket THEN point ELSE 0
    BY <2>1, BucketOpens
  <2> HIDE DEF px, point, att, secret
  <2>4. point \in Unit
    BY <2>2, <2>3, Basic
  <2>5. sks[1] \in Unit /\ sks \in Unit \X Unit /\ msg \in Nat
    BY <2>1
  <2> HIDE DEF sks, msg
  <2>6. /\ outcome.sound
        /\ task.by = "vault" /\ outcome.joint.s /= 0
             => Verify(outcome.key, msg, outcome.joint)
    <3>1. CASE task.by = "rail1"
      BY <2>2, <2>4, <2>5, <3>1, RailOpens
    <3>2. CASE task.by = "vault"
      <4>1. outcome.sound
        BY <2>2, <2>4, <2>5, <3>2, VaultOpens
      <4>2. outcome.joint.s /= 0 => Verify(outcome.key, msg, outcome.joint)
        BY <2>2, <2>5, <3>2, JointVerifies
      <4> QED BY <4>1, <4>2
    <3> QED BY <2>1, <3>1, <3>2
  <2>7. CASE BucketOf(task.price, task.m) # task.bucket
    <3>1. secret = 0
      BY <2>3, <2>7
    <3>2. outcome.final.s = 0
      <4>1. CASE task.by = "rail1"
        BY <2>2, <3>1, <4>1, AddNothing DEF Decrypt
      <4>2. CASE task.by = "vault"
        <5>1. Odd(Add(outcome.pre.r, 0)) \in BOOLEAN
          BY DEF Odd
        <5> QED BY <2>2, <3>1, <4>2, <5>1, AddNothing DEF AdaptKeyspend
      <4> QED BY <2>1, <4>1, <4>2
    <3>3. ~Verify(outcome.key, msg, outcome.final)
      BY <3>2 DEF Verify
    <3> QED BY <2>2, <2>6, <2>7, <3>1, <3>3 DEF msg
  <2>8. CASE BucketOf(task.price, task.m) = task.bucket
    <3>1. secret = point
      BY <2>3, <2>8
    <3>2. ASSUME outcome.final.s # 0
          PROVE  /\ Verify(outcome.key, msg, outcome.final)
                 /\ task.by = "rail1" => RecoverT(outcome.pre, outcome.final) = secret
      <4>1. CASE task.by = "rail1"
        BY <2>2, <2>4, <2>5, <3>1, <3>2, <4>1, RailOpens
      <4>2. CASE task.by = "vault"
        BY <2>2, <2>4, <2>5, <3>1, <3>2, <4>2, VaultOpens
      <4> QED BY <2>1, <4>1, <4>2
    <3> QED BY <2>2, <2>6, <2>8, <3>2 DEF msg
  <2> QED BY <2>7, <2>8
<1> QED BY <1>1, RunInvariant, PTL

-----------------------------------------------------------------------------
(* Products over parts of a set, and sums that follow congruences.         *)
Pi(f, s) == (CHOOSE h : Products(h, f, DOMAIN f))[s]

LEMMA PiFacts ==
  ASSUME NEW D, IsFiniteSet(D), NEW f \in [D -> Field]
  PROVE  /\ Pi(f, {}) = 1
         /\ \A s \in SUBSET D : /\ Pi(f, s) \in Field
                                /\ \A x \in s : Pi(f, s) = Mul(f[x], Pi(f, s \ {x}))
<1> DEFINE c == CHOOSE h : Products(h, f, DOMAIN f)
<1>1. DOMAIN f = D
  OBVIOUS
<1>2. Products(c, f, D)
  BY <1>1, ProductsExist
<1>3. \A s : Pi(f, s) = c[s]
  BY DEF Pi
<1> HIDE DEF c
<1> QED BY <1>2, <1>3 DEF Products

LEMMA PiUnit ==
  ASSUME NEW D, IsFiniteSet(D), NEW f \in [D -> Field], NEW s \in SUBSET D,
         \A x \in s : f[x] \in Unit
  PROVE  Pi(f, s) \in Unit
<1> DEFINE Good == {r \in SUBSET s : Pi(f, r) \in Unit}
<1>1. {} \in Good
  <2>1. Pi(f, {}) = 1
    BY PiFacts
  <2> QED BY <2>1, Order DEF Unit
<1>2. ASSUME NEW r \in SUBSET s, r # {}, \A x \in r : r \ {x} \in Good PROVE r \in Good
  <2>1. PICK x \in r : TRUE
    BY <1>2
  <2>2. r \in SUBSET D /\ x \in s
    OBVIOUS
  <2>3. Pi(f, r) = Mul(f[x], Pi(f, r \ {x}))
    BY <2>1, <2>2, PiFacts
  <2>4. Pi(f, r \ {x}) \in Unit /\ f[x] \in Unit
    BY <1>2, <2>1, <2>2
  <2> QED BY <2>3, <2>4, NoZeroDivisors
<1>3. IsFiniteSet(s)
  BY FS_Subset
<1> HIDE DEF Good
<1>4. s \in Good
  BY <1>1, <1>2, <1>3, SubsetInduction
<1> QED BY <1>4 DEF Good

LEMMA SumsCombine ==
  ASSUME NEW D, IsFiniteSet(D), NEW u \in [D -> Int], NEW v \in [D -> Int],
         NEW w \in [D -> Int], NEW c \in Int, NEW d \in Int, NEW s \in SUBSET D,
         \A x \in s : Cong(u[x], c * v[x] + d * w[x])
  PROVE  Cong(Sigma(u, s), c * Sigma(v, s) + d * Sigma(w, s))
<1> DEFINE Good == {r \in SUBSET s : Cong(Sigma(u, r), c * Sigma(v, r) + d * Sigma(w, r))}
<1>1. {} \in Good
  <2>1. Sigma(u, {}) = 0 /\ Sigma(v, {}) = 0 /\ Sigma(w, {}) = 0
    BY SigmaFacts
  <2>2. c * 0 + d * 0 = 0
    OBVIOUS
  <2>3. Cong(0, 0)
    BY CongRefl
  <2> QED BY <2>1, <2>2, <2>3
<1>2. ASSUME NEW r \in SUBSET s, r # {}, \A x \in r : r \ {x} \in Good PROVE r \in Good
  <2>1. PICK x \in r : TRUE
    BY <1>2
  <2> DEFINE q == r \ {x}
             a1 == u[x]
             b1 == v[x]
             c1 == w[x]
             a2 == Sigma(u, q)
             b2 == Sigma(v, q)
             c2 == Sigma(w, q)
  <2>2. r \in SUBSET D /\ q \in SUBSET D /\ x \in D /\ x \in s
    BY <2>1
  <2>3. Sigma(u, r) = a1 + a2 /\ Sigma(v, r) = b1 + b2 /\ Sigma(w, r) = c1 + c2
    BY <2>1, <2>2, SigmaFacts
  <2>4. /\ a1 \in Int /\ b1 \in Int /\ c1 \in Int
    BY <2>2
  <2>5. /\ a2 \in Int /\ b2 \in Int /\ c2 \in Int
    BY <2>2, SigmaFacts
  <2>6. Cong(a1, c * b1 + d * c1) /\ Cong(a2, c * b2 + d * c2)
    BY <1>2, <2>1, <2>2
  <2> HIDE DEF q, a1, a2, b1, b2, c1, c2
  <2>7. c * (b1 + b2) + d * (c1 + c2) = (c * b1 + d * c1) + (c * b2 + d * c2)
    BY <2>4, <2>5
  <2>8. Cong(a1 + a2, (c * b1 + d * c1) + (c * b2 + d * c2))
    <3>1. c * b1 + d * c1 \in Int /\ c * b2 + d * c2 \in Int
      BY <2>4, <2>5
    <3> QED BY <2>4, <2>5, <2>6, <3>1, CongAdd
  <2> QED BY <2>3, <2>7, <2>8
<1>3. IsFiniteSet(s)
  BY FS_Subset
<1> HIDE DEF Good
<1>4. s \in Good
  BY <1>1, <1>2, <1>3, SubsetInduction
<1> QED BY <1>4 DEF Good

LEMMA SigmaStep ==
  ASSUME NEW D, IsFiniteSet(D), NEW f \in [D -> Int], NEW r \in SUBSET D, NEW x \in r
  PROVE  /\ Sigma(f, r) = f[x] + Sigma(f, r \ {x})
         /\ Sigma(f, r) \in Int /\ f[x] \in Int /\ Sigma(f, r \ {x}) \in Int
<1>1. f[x] \in Int /\ r \ {x} \in SUBSET D
  OBVIOUS
<1> QED BY <1>1, SigmaFacts

LEMMA PrefixSigma ==
  ASSUME NEW n \in Nat, NEW f, f \in [1 .. n -> Int], NEW i \in Nat, i + 1 \in 1 .. n
  PROVE  /\ Sigma(f, 1 .. i + 1) = f[i + 1] + Sigma(f, 1 .. i)
         /\ Sigma(f, 1 .. i) \in Int /\ Sigma(f, 1 .. i + 1) \in Int
<1>1. PICK D, g, r, x : D = 1 .. n /\ g = f /\ r = 1 .. i + 1 /\ x = i + 1
  OBVIOUS
<1>2. IsFiniteSet(D)
  BY <1>1, FS_Interval
<1>3. g \in [D -> Int]
  BY <1>1
<1>4. r \in SUBSET D /\ x \in r
  BY <1>1
<1>5. Sigma(g, r) = g[x] + Sigma(g, r \ {x}) /\ Sigma(g, r) \in Int /\ Sigma(g, r \ {x}) \in Int
  BY <1>2, <1>3, <1>4, SigmaStep, SMTT(60)
<1>6. r \ {x} = 1 .. i
  BY <1>1
<1> QED BY <1>1, <1>5, <1>6

(* A sum that did not fail is the sum.                                     *)
LEMMA TotalIsSum ==
  ASSUME NEW n \in Nat, n > 0, NEW s \in [1 .. n -> Field], Total(s) # 0
  PROVE  /\ Total(s) \in Unit /\ \A i \in 1 .. n : s[i] \in Unit
         /\ Cong(Total(s), Sigma(s, 1 .. n))
<1> DEFINE m == n - 1
           t == Tail(s)
           base == Head(s)
<1>1. /\ m \in Nat /\ base = s[1] /\ base \in Field /\ DOMAIN t = 1 .. m
      /\ \A i \in 1 .. m : t[i] = s[i + 1] /\ t[i] \in Field
  <2>1. s \in Seq(Field) /\ Len(s) = n /\ s # <<>>
    BY ListOf
  <2>2. t \in Seq(Field) /\ Len(t) = m /\ base = s[1] /\ base \in Field
    BY <2>1
  <2>3. DOMAIN t = 1 .. m
    <3> HIDE DEF t
    <3> QED BY <2>2
  <2>4. ASSUME NEW i \in 1 .. m PROVE t[i] = s[i + 1] /\ t[i] \in Field
    <3>1. t[i] = s[i + 1]
      BY <2>1, <2>2
    <3>2. i + 1 \in 1 .. n
      OBVIOUS
    <3> QED BY <3>1, <3>2
  <2> QED BY <2>2, <2>3, <2>4
<1>2. Total(s) = SumFrom(base, t)
  BY DEF Total, SumFrom
<1>3. s \in [1 .. n -> Int] /\ IsFiniteSet(1 .. n)
  <2>1. IsFiniteSet(1 .. n)
    BY FS_Interval
  <2>2. Field \subseteq Int
    BY Basic
  <2>3. s \in [1 .. n -> Int]
    BY <2>2
  <2> QED BY <2>1, <2>3
<1> HIDE DEF m, t, base
<1>4. PICK p : PartialSums(p, m, base, t)
  BY <1>1, AddChain
<1>5. /\ p \in [0 .. m -> Field] /\ p[0] = base /\ Total(s) = p[m]
      /\ \A i \in 1 .. m : p[i] = Add(p[i - 1], t[i])
  BY <1>2, <1>4 DEF PartialSums
<1>6. \A i \in 0 .. m : i + 1 \in 1 .. n
  BY DEF m
<1> DEFINE Good == {i \in 0 .. m :
                      p[i] # 0 => /\ \A k \in 1 .. i + 1 : s[k] \in Unit
                                  /\ Cong(p[i], Sigma(s, 1 .. i + 1))}
<1>7. 0 \in Good
  <2>1. 1 \in 1 .. n /\ 1 .. 0 + 1 = {1} /\ {1} \ {1} = {} /\ {1} \in SUBSET (1 .. n)
    <3>1. 0 \in 0 .. m
      BY <1>1
    <3>2. 0 + 1 \in 1 .. n
      BY <1>6, <3>1
    <3> QED BY <3>2
  <2>2. Sigma(s, {1}) = s[1] + 0
    BY <1>3, <2>1, SigmaFacts
  <2>3. s[1] + 0 = s[1] /\ Cong(s[1], s[1]) /\ (s[1] # 0 => s[1] \in Unit)
    <3>1. s[1] \in Field
      BY <1>1
    <3>2. s[1] \in Int
      BY <3>1, Basic
    <3> QED BY <3>1, <3>2, CongRefl, Basic
  <2>4. 0 \in 0 .. m
    BY <1>1
  <2>5. p[0] = s[1]
    BY <1>1, <1>5
  <2>6. \A k \in 1 .. 0 + 1 : k = 1
    BY <2>1
  <2> QED BY <2>1, <2>2, <2>3, <2>4, <2>5, <2>6
<1>8. ASSUME NEW i \in 1 .. m, i - 1 \in Good PROVE i \in Good
  <2> SUFFICES ASSUME p[i] # 0
               PROVE  /\ \A k \in 1 .. i + 1 : s[k] \in Unit
                      /\ Cong(p[i], Sigma(s, 1 .. i + 1))
    OBVIOUS
  <2> DEFINE a == p[i - 1]
             b == s[i + 1]
             r == 1 .. i
  <2>1. i - 1 \in 0 .. m /\ i \in 0 .. m /\ (i - 1) + 1 = i /\ i + 1 \in 1 .. n
    BY <1>1, <1>6
  <2>2. a \in Field /\ b \in Field /\ p[i] = Add(a, b)
    BY <1>1, <1>5, <2>1
  <2>3. /\ a # 0 => /\ \A k \in 1 .. i : s[k] \in Unit
                    /\ Cong(a, Sigma(s, 1 .. i))
    BY <1>8, <2>1
  <2>4. a \in Unit /\ b \in Unit /\ Cong(p[i], a + b)
    BY <2>2, AddCong
  <2>5. Cong(a, Sigma(s, r)) /\ \A k \in 1 .. i : s[k] \in Unit
    BY <2>3, <2>4, Basic
  <2>6. 1 .. i + 1 \in SUBSET (1 .. n) /\ (1 .. i + 1) \ {i + 1} = r /\ i + 1 \in 1 .. i + 1
        /\ r \in SUBSET (1 .. n)
    BY <2>1
  <2>7. Sigma(s, 1 .. i + 1) = b + Sigma(s, r) /\ Sigma(s, r) \in Int
    <3>1. Sigma(s, 1 .. i + 1) = s[i + 1] + Sigma(s, 1 .. i) /\ Sigma(s, 1 .. i) \in Int
      <4>1. PICK g, k : g = s /\ k = i
        OBVIOUS
      <4>2. g \in [1 .. n -> Int] /\ k \in Nat /\ k + 1 \in 1 .. n
        BY <1>1, <1>3, <2>1, <4>1
      <4>3. Sigma(g, 1 .. k + 1) = g[k + 1] + Sigma(g, 1 .. k) /\ Sigma(g, 1 .. k) \in Int
        BY <4>2, PrefixSigma
      <4> QED BY <4>1, <4>3
    <3> QED BY <3>1
  <2> DEFINE z == Sigma(s, r)
  <2>8. a \in Int /\ b \in Int /\ p[i] \in Int /\ z \in Int /\ Cong(a, z) /\ Cong(b, b)
    <3>1. p[i] \in Field
      BY <1>5, <2>1
    <3>2. a \in Int /\ b \in Int /\ p[i] \in Int
      BY <2>4, <3>1, Basic
    <3> QED BY <2>5, <2>7, <3>2, CongRefl
  <2>9. Cong(p[i], Sigma(s, 1 .. i + 1))
    <3> HIDE DEF a, b, z, r
    <3> DEFINE y == p[i]
    <3>1. y \in Int /\ Cong(y, a + b)
      BY <2>4, <2>8
    <3> HIDE DEF y
    <3>2. Cong(a + b, z + b) /\ a + b \in Int /\ z + b \in Int /\ z + b = b + z
      <4>1. a + b \in Int /\ z + b \in Int /\ z + b = b + z
        BY <2>8
      <4> QED BY <2>8, <4>1, CongAdd
    <3>3. Cong(y, b + z)
      BY <3>1, <3>2, CongTrans
    <3> QED BY <2>7, <3>3 DEF y, z
  <2>10. ASSUME NEW k \in 1 .. i + 1 PROVE s[k] \in Unit
    <3>1. k = i + 1 \/ k \in 1 .. i
      BY <2>1
    <3> QED BY <2>4, <2>5, <3>1
  <2> QED BY <2>9, <2>10
<1>9. m \in Good
  <2> HIDE DEF Good
  <2>1. \A i \in 0 .. m : i \in Good
    BY <1>1, <1>7, <1>8, IntervalInduction
  <2> QED BY <1>1, <2>1
<1>10. m + 1 = n /\ m \in 0 .. m
  BY <1>1 DEF m
<1>11. Total(s) \in Unit
  <2>1. p[m] \in Field
    BY <1>5, <1>10
  <2> QED BY <1>5, <2>1, Basic
<1> QED BY <1>5, <1>9, <1>10, <1>11

-----------------------------------------------------------------------------
(* Interpolation at 0 from the points of s: the weight of each point, and  *)
(* what adding a point does to it.                                         *)
Distinct(a, D) ==
    /\ IsFiniteSet(D) /\ a \in [D -> Unit]
    /\ \A x, y \in D : a[x] = a[y] => x = y

Gaps(a, p) == [m \in DOMAIN a |-> Sub(a[m], a[p])]
Weight(a, s, p) == Mul(Pi(a, s \ {p}), Invert(Pi(Gaps(a, p), s \ {p})))

LEMMA GapFacts ==
  ASSUME NEW D, NEW a, Distinct(a, D), NEW p \in D
  PROVE  /\ Gaps(a, p) \in [D -> Field]
         /\ \A m \in D : /\ Gaps(a, p)[m] = Sub(a[m], a[p])
                         /\ Cong(Gaps(a, p)[m], a[m] - a[p])
                         /\ m # p => Gaps(a, p)[m] \in Unit
<1>1. DOMAIN a = D /\ \A m \in D : a[m] \in Unit
  BY DEF Distinct
<1>2. ASSUME NEW m \in D
      PROVE  /\ Sub(a[m], a[p]) \in Field /\ Cong(Sub(a[m], a[p]), a[m] - a[p])
             /\ m # p => Sub(a[m], a[p]) \in Unit
  <2>1. a[m] \in Unit /\ a[p] \in Unit
    BY <1>1
  <2>2. Sub(a[m], a[p]) \in Field /\ Cong(Sub(a[m], a[p]), a[m] - a[p])
        /\ (Sub(a[m], a[p]) = 0 <=> a[m] = a[p])
    BY <2>1, SubCong
  <2>3. m # p => a[m] # a[p]
    BY DEF Distinct
  <2> QED BY <2>2, <2>3, Basic
<1> QED BY <1>1, <1>2 DEF Gaps

LEMMA WeightParts ==
  ASSUME NEW D, NEW a, Distinct(a, D), NEW s \in SUBSET D, NEW p \in D
  PROVE  /\ Pi(a, s \ {p}) \in Field /\ Pi(Gaps(a, p), s \ {p}) \in Unit
         /\ Invert(Pi(Gaps(a, p), s \ {p})) \in Field
         /\ Mul(Pi(Gaps(a, p), s \ {p}), Invert(Pi(Gaps(a, p), s \ {p}))) = 1
         /\ Weight(a, s, p) \in Field
         /\ s = {p} => Weight(a, s, p) = 1
<1> DEFINE r == s \ {p}
           g == Gaps(a, p)
           u == Pi(a, r)
           v == Pi(g, r)
<1>1. r \in SUBSET D /\ p \notin r
  OBVIOUS
<1>2. a \in [D -> Field] /\ IsFiniteSet(D) /\ g \in [D -> Field] /\ \A x \in r : g[x] \in Unit
  <2>1. a \in [D -> Unit] /\ IsFiniteSet(D)
    BY DEF Distinct
  <2>2. a \in [D -> Field]
    BY <2>1, Basic
  <2> QED BY <2>1, <2>2, <1>1, GapFacts
<1> HIDE DEF r, g
<1>3. u \in Field
  BY <1>1, <1>2, PiFacts
<1>4. v \in Unit
  BY <1>1, <1>2, PiUnit
<1> HIDE DEF u, v
<1>5. Invert(v) \in Field /\ Mul(v, Invert(v)) = 1
  BY <1>4, InvertInverts
<1>6. Mul(u, Invert(v)) \in Field
  BY <1>3, <1>5, MulLaws
<1>7. s = {p} => Mul(u, Invert(v)) = 1
  <2> SUFFICES ASSUME s = {p} PROVE Mul(u, Invert(v)) = 1
    OBVIOUS
  <2>1. r = {}
    BY DEF r
  <2>2. u = 1
    BY <1>2, <2>1, PiFacts DEF u
  <2>3. v = 1
    BY <1>2, <2>1, PiFacts DEF v
  <2> QED BY <1>5, <2>2, <2>3
<1>8. Weight(a, s, p) = Mul(u, Invert(v))
  BY DEF Weight, u, v, g, r
<1> QED BY <1>3, <1>4, <1>5, <1>6, <1>7, <1>8 DEF u, v, g, r

LEMMA WeightStep ==
  ASSUME NEW D, NEW a, Distinct(a, D), NEW s \in SUBSET D, NEW p \in s, NEW b \in s, b # p
  PROVE  Cong(Weight(a, s, p) * (a[b] - a[p]), a[b] * Weight(a, s \ {b}, p))
<1> DEFINE r == s \ {p}
           t == (s \ {b}) \ {p}
           g == Gaps(a, p)
           x == a[b]
           d == g[b]
           u == Pi(a, r)
           v == Pi(g, r)
           u1 == Pi(a, t)
           v1 == Pi(g, t)
           w == Weight(a, s, p)
           w1 == Weight(a, s \ {b}, p)
<1>1. p \in D /\ b \in D /\ b \in r /\ r \in SUBSET D /\ r \ {b} = t /\ s \ {b} \in SUBSET D
  OBVIOUS
<1>2. a \in [D -> Field] /\ IsFiniteSet(D) /\ g \in [D -> Field] /\ x \in Unit /\ d \in Unit
      /\ Cong(d, a[b] - a[p]) /\ a[p] \in Unit
  <2>1. a \in [D -> Unit] /\ IsFiniteSet(D)
    BY DEF Distinct
  <2>2. a \in [D -> Field]
    BY <2>1, Basic
  <2> QED BY <2>1, <2>2, <1>1, GapFacts
<1>3. /\ u \in Field /\ v \in Unit /\ Invert(v) \in Field /\ Mul(v, Invert(v)) = 1
      /\ w \in Field /\ w = Mul(u, Invert(v))
  BY <1>1, WeightParts DEF Weight
<1>4. /\ u1 \in Field /\ v1 \in Unit /\ Invert(v1) \in Field /\ Mul(v1, Invert(v1)) = 1
      /\ w1 \in Field /\ w1 = Mul(u1, Invert(v1))
  BY <1>1, WeightParts DEF Weight
<1> HIDE DEF g, r, t
<1>5. u = Mul(x, u1)
  BY <1>1, <1>2, PiFacts
<1>6. v = Mul(d, v1)
  BY <1>1, <1>2, PiFacts
<1> DEFINE i == Invert(v)
           i1 == Invert(v1)
<1>7. x \in Field /\ d \in Field /\ v \in Field /\ v1 \in Field /\ i \in Field /\ i1 \in Field
  BY <1>2, <1>3, <1>4, Basic
<1> HIDE DEF x, d, u, v, u1, v1, w, w1, i, i1
<1>8. Mul(v1, Mul(w, d)) = u
  <2>1. Mul(w, d) = Mul(d, w) /\ Mul(d, w) \in Field
    BY <1>3, <1>7, MulLaws
  <2>2. Mul(v1, Mul(d, w)) = Mul(Mul(v1, d), w)
    BY <1>3, <1>7, MulLaws
  <2>3. Mul(v1, d) = v
    BY <1>6, <1>7, MulLaws
  <2>4. Mul(v, Mul(u, i)) = Mul(v, Mul(i, u)) /\ Mul(v, Mul(i, u)) = Mul(Mul(v, i), u)
    BY <1>3, <1>7, MulLaws
  <2>5. Mul(1, u) = u
    BY <1>3, Basic, MulLaws
  <2>6. w = Mul(u, i) /\ Mul(v, i) = 1
    BY <1>3 DEF i
  <2> QED BY <2>1, <2>2, <2>3, <2>4, <2>5, <2>6
<1>9. Mul(v1, Mul(x, w1)) = u
  <2>1. Mul(x, w1) = Mul(w1, x)
    BY <1>4, <1>7, MulLaws
  <2>2. Mul(v1, Mul(w1, x)) = Mul(Mul(v1, w1), x)
    BY <1>4, <1>7, MulLaws
  <2>3. Mul(u1, i1) = Mul(i1, u1) /\ Mul(v1, Mul(i1, u1)) = Mul(Mul(v1, i1), u1)
    BY <1>4, <1>7, MulLaws
  <2>4. Mul(1, u1) = u1 /\ Mul(u1, x) = Mul(x, u1)
    BY <1>4, <1>7, Basic, MulLaws
  <2>5. w1 = Mul(u1, i1) /\ Mul(v1, i1) = 1
    BY <1>4 DEF i1
  <2> QED BY <1>5, <2>1, <2>2, <2>3, <2>4, <2>5
<1>10. Mul(w, d) = Mul(x, w1)
  <2>1. Mul(w, d) \in Field /\ Mul(x, w1) \in Field
    BY <1>3, <1>4, <1>7, MulLaws
  <2> QED BY <1>4, <1>8, <1>9, <2>1, Cancel
<1>11. /\ w \in Int /\ d \in Int /\ x \in Int /\ w1 \in Int /\ a[b] \in Int /\ a[p] \in Int
       /\ a[b] = x
  BY <1>2, <1>3, <1>4, <1>7, Basic DEF x
<1>12. Cong(w * d, x * w1)
  <2> DEFINE c == Mul(w, d)
  <2>1. Cong(c, w * d) /\ Cong(c, x * w1) /\ c \in Field
    BY <1>10, <1>11, MulCong
  <2> HIDE DEF c
  <2>2. c \in Int /\ w * d \in Int /\ x * w1 \in Int
    BY <1>11, <2>1, Basic
  <2> QED BY <2>1, <2>2, CongSym, CongTrans
<1>13. Cong(w * (a[b] - a[p]), w * d)
  <2> DEFINE y == a[b] - a[p]
  <2>1. y \in Int /\ Cong(d, y)
    BY <1>2, <1>11
  <2> HIDE DEF y
  <2>2. Cong(y, d)
    BY <1>11, <2>1, CongSym
  <2>3. Cong(w * y, w * d)
    BY <1>11, <2>1, <2>2, CongTimes, CongRefl
  <2> QED BY <2>3 DEF y
<1>14. Cong(w * (a[b] - a[p]), x * w1)
  <2>1. w * (a[b] - a[p]) \in Int /\ w * d \in Int /\ x * w1 \in Int
    BY <1>11
  <2> QED BY <1>12, <1>13, <2>1, CongTrans
<1> QED BY <1>14 DEF w, x, w1

-----------------------------------------------------------------------------
(* The interpolation of f at 0.                                            *)
Weighted(a, f, s) == [p \in DOMAIN a |-> Weight(a, s, p) * f[p]]
Interp(a, f, s) == Sigma(Weighted(a, f, s), s)
Scaled(a, f) == [p \in DOMAIN a |-> a[p] * f[p]]

LEMMA InterpType ==
  ASSUME NEW D, NEW a, Distinct(a, D), NEW f \in [D -> Int], NEW s \in SUBSET D
  PROVE  /\ Weighted(a, f, s) \in [D -> Int] /\ Interp(a, f, s) \in Int
         /\ \A p \in D : /\ Weighted(a, f, s)[p] = Weight(a, s, p) * f[p]
                         /\ Weight(a, s, p) \in Int /\ f[p] \in Int /\ a[p] \in Int
<1>1. DOMAIN a = D /\ IsFiniteSet(D) /\ \A p \in D : a[p] \in Unit
  BY DEF Distinct
<1>2. \A p \in D : Weight(a, s, p) \in Field
  BY WeightParts
<1>3. \A p \in D : Weight(a, s, p) \in Int /\ f[p] \in Int /\ a[p] \in Int
  BY <1>1, <1>2, Basic
<1>4. \A p \in D : Weight(a, s, p) * f[p] \in Int
  BY <1>3
<1>5. Weighted(a, f, s) \in [D -> Int]
      /\ \A p \in D : Weighted(a, f, s)[p] = Weight(a, s, p) * f[p]
  BY <1>1, <1>4 DEF Weighted
<1>6. Interp(a, f, s) \in Int
  BY <1>1, <1>5, SigmaFacts DEF Interp
<1> QED BY <1>3, <1>5, <1>6

LEMMA InterpCombine ==
  ASSUME NEW D, NEW a, Distinct(a, D), NEW f \in [D -> Int], NEW g \in [D -> Int],
         NEW h \in [D -> Int], NEW c \in Int, NEW d \in Int, NEW s \in SUBSET D,
         \A p \in s : Cong(f[p], c * g[p] + d * h[p])
  PROVE  Cong(Interp(a, f, s), c * Interp(a, g, s) + d * Interp(a, h, s))
<1> DEFINE u == Weighted(a, f, s)
           v == Weighted(a, g, s)
           z == Weighted(a, h, s)
<1>1. IsFiniteSet(D) /\ u \in [D -> Int] /\ v \in [D -> Int] /\ z \in [D -> Int]
  BY InterpType DEF Distinct
<1>2. ASSUME NEW p \in s PROVE Cong(u[p], c * v[p] + d * z[p])
  <2> DEFINE w == Weight(a, s, p)
             x == f[p]
             y == g[p]
             t == h[p]
  <2>1. /\ u[p] = w * x /\ v[p] = w * y /\ z[p] = w * t
        /\ w \in Int /\ x \in Int /\ y \in Int /\ t \in Int
    <3>1. p \in D
      OBVIOUS
    <3>2. u[p] = w * x
      BY <3>1, InterpType
    <3>5. w \in Int /\ x \in Int
      BY <3>1, InterpType
    <3>3. v[p] = w * y /\ y \in Int
      BY <3>1, InterpType
    <3>4. z[p] = w * t /\ t \in Int
      BY <3>1, InterpType
    <3> QED BY <3>2, <3>3, <3>4, <3>5
  <2>2. Cong(x, c * y + d * t)
    OBVIOUS
  <2> HIDE DEF w, x, y, t, u, v, z
  <2>3. c * y + d * t \in Int
    BY <2>1
  <2>4. Cong(w * x, w * (c * y + d * t))
    BY <2>1, <2>2, <2>3, CongTimes, CongRefl
  <2>5. w * (c * y + d * t) = c * (w * y) + d * (w * t)
    BY <2>1
  <2> QED BY <2>1, <2>4, <2>5
<1> HIDE DEF u, v, z
<1>3. Cong(Sigma(u, s), c * Sigma(v, s) + d * Sigma(z, s))
  BY <1>1, <1>2, SumsCombine
<1> QED BY <1>3 DEF Interp, u, v, z

LEMMA InterpShift ==
  ASSUME NEW D, NEW a, Distinct(a, D), NEW f \in [D -> Int], NEW s \in SUBSET D, NEW x \in s
  PROVE  Cong(a[x] * Interp(a, f, s) - Interp(a, Scaled(a, f), s),
              a[x] * Interp(a, f, s \ {x}))
<1> DEFINE q == s \ {x}
           g == Scaled(a, f)
           u == Weighted(a, f, s)
           v == Weighted(a, g, s)
           z == Weighted(a, f, q)
           b == a[x]
           bz == [p \in D |-> b * z[p]]
<1>1. x \in D /\ q \in SUBSET D /\ IsFiniteSet(D) /\ DOMAIN a = D
  BY DEF Distinct
<1>2. g \in [D -> Int] /\ \A p \in D : g[p] = a[p] * f[p]
  <2>1. \A p \in D : a[p] \in Int /\ f[p] \in Int
    BY InterpType
  <2>2. \A p \in D : a[p] * f[p] \in Int
    BY <2>1
  <2> QED BY <1>1, <2>2 DEF Scaled
<1> HIDE DEF q, g
<1>3. /\ u \in [D -> Int] /\ \A p \in D : u[p] = Weight(a, s, p) * f[p]
      /\ \A p \in D : f[p] \in Int /\ a[p] \in Int /\ Weight(a, s, p) \in Int
  <2>1. u \in [D -> Int]
    BY InterpType
  <2>2. \A p \in D : u[p] = Weight(a, s, p) * f[p]
    BY InterpType
  <2>3. \A p \in D : f[p] \in Int /\ a[p] \in Int /\ Weight(a, s, p) \in Int
    BY InterpType
  <2> QED BY <2>1, <2>2, <2>3
<1>4. v \in [D -> Int] /\ \A p \in D : v[p] = Weight(a, s, p) * g[p]
  BY <1>2, InterpType
<1>5. /\ z \in [D -> Int] /\ \A p \in D : z[p] = Weight(a, q, p) * f[p]
      /\ \A p \in D : Weight(a, q, p) \in Int
  BY <1>1, InterpType
<1> HIDE DEF u, v, z, b
<1>6. b \in Int /\ bz \in [D -> Int] /\ \A p \in D : bz[p] = b * z[p]
  <2>1. b \in Int
    BY <1>1, <1>3 DEF b
  <2>2. \A p \in D : b * z[p] \in Int
    BY <1>5, <2>1
  <2> QED BY <2>1, <2>2
<1> HIDE DEF bz
<1>7. ASSUME NEW p \in q PROVE Cong(bz[p], b * u[p] + (-1) * v[p])
  <2> DEFINE w == Weight(a, s, p)
             w1 == Weight(a, q, p)
             y == f[p]
             c == a[p]
  <2>1. p \in D /\ p \in s /\ p # x
    BY DEF q
  <2>2. /\ u[p] = w * y /\ v[p] = w * (c * y) /\ bz[p] = b * (w1 * y)
        /\ w \in Int /\ w1 \in Int /\ y \in Int /\ c \in Int
    BY <1>2, <1>3, <1>4, <1>5, <1>6, <2>1
  <2>3. Cong(w * (b - c), b * w1)
    BY <2>1, WeightStep DEF b, q
  <2> HIDE DEF w, w1, y, c
  <2>4. w * (b - c) \in Int /\ b * w1 \in Int
    BY <1>6, <2>2
  <2>5. Cong((b * w1) * y, (w * (b - c)) * y)
    BY <2>2, <2>3, <2>4, CongSym, CongTimes, CongRefl
  <2>6. (b * w1) * y = b * (w1 * y)
    BY <1>6, <2>2
  <2>7. (w * (b - c)) * y = b * (w * y) + (-1) * (w * (c * y))
    BY <1>6, <2>2
  <2> QED BY <2>2, <2>5, <2>6, <2>7
<1>8. Cong(Sigma(bz, q), b * Sigma(u, q) + (-1) * Sigma(v, q))
  <2> DEFINE n == -1
  <2>1. n \in Int /\ IsFiniteSet(D) /\ q \in SUBSET D
    BY <1>1
  <2>2. \A p \in q : Cong(bz[p], b * u[p] + n * v[p])
    BY <1>7
  <2>3. bz \in [D -> Int] /\ u \in [D -> Int] /\ v \in [D -> Int] /\ b \in Int
    BY <1>3, <1>4, <1>6
  <2> HIDE DEF n
  <2>4. Cong(Sigma(bz, q), b * Sigma(u, q) + n * Sigma(v, q))
    BY <2>1, <2>2, <2>3, SumsCombine
  <2> QED BY <2>4 DEF n
<1>9. Cong(Sigma(bz, q), b * Sigma(z, q) + 0 * Sigma(z, q))
  <2>1. ASSUME NEW p \in q PROVE Cong(bz[p], b * z[p] + 0 * z[p])
    <3>1. p \in D
      BY <1>1
    <3>2. bz[p] = b * z[p] /\ z[p] \in Int /\ bz[p] \in Int
      BY <1>5, <1>6, <3>1
    <3>3. b * z[p] + 0 * z[p] = bz[p]
      BY <1>6, <3>2
    <3> QED BY <3>2, <3>3, CongRefl
  <2> DEFINE n == 0
  <2>2. n \in Int /\ IsFiniteSet(D) /\ q \in SUBSET D /\ b \in Int
    BY <1>1, <1>6
  <2>3. \A p \in q : Cong(bz[p], b * z[p] + n * z[p])
    BY <2>1
  <2>4. bz \in [D -> Int] /\ z \in [D -> Int]
    BY <1>5, <1>6
  <2> HIDE DEF n
  <2>5. Cong(Sigma(bz, q), b * Sigma(z, q) + n * Sigma(z, q))
    BY <2>2, <2>3, <2>4, SumsCombine
  <2> QED BY <2>5 DEF n
<1>10. /\ Sigma(u, s) = u[x] + Sigma(u, q) /\ Sigma(u, q) \in Int
       /\ Sigma(v, s) = v[x] + Sigma(v, q) /\ Sigma(v, q) \in Int
       /\ Sigma(z, q) \in Int /\ Sigma(bz, q) \in Int
  BY <1>1, <1>3, <1>4, <1>5, <1>6, SigmaFacts DEF q
<1>11. v[x] = b * u[x] /\ u[x] \in Int
  <2>1. /\ v[x] = Weight(a, s, x) * (b * f[x]) /\ u[x] = Weight(a, s, x) * f[x]
        /\ Weight(a, s, x) \in Int /\ f[x] \in Int
    BY <1>1, <1>2, <1>3, <1>4 DEF b
  <2> QED BY <1>6, <2>1
<1> DEFINE A == Sigma(u, q)
           B == Sigma(v, q)
           C == Sigma(z, q)
           E == Sigma(bz, q)
           U == u[x]
<1>12. b * Sigma(u, s) - Sigma(v, s) = b * (U + A) - (b * U + B)
  BY <1>10, <1>11
<1>13. A \in Int /\ B \in Int /\ C \in Int /\ E \in Int /\ U \in Int
       /\ Cong(E, b * A + (-1) * B) /\ Cong(E, b * C + 0 * C)
  BY <1>8, <1>9, <1>10, <1>11
<1> HIDE DEF A, B, C, E, U
<1>14. b * (U + A) - (b * U + B) = b * A + (-1) * B /\ b * C + 0 * C = b * C
       /\ b * A + (-1) * B \in Int /\ b * C \in Int
  BY <1>6, <1>13
<1>15. Cong(b * A + (-1) * B, b * C)
  BY <1>13, <1>14, CongSym, CongTrans
<1>16. Cong(b * Sigma(u, s) - Sigma(v, s), b * Sigma(z, q))
  BY <1>12, <1>14, <1>15 DEF C
<1> QED BY <1>16 DEF Interp, u, v, z, g, q, b

LEMMA CongCancel ==
  ASSUME NEW x \in Unit, NEW y \in Unit, x # y, NEW i \in Int, NEW k \in Int,
         Cong((x - y) * i, (x - y) * k)
  PROVE  Cong(i, k)
<1> DEFINE g == Sub(x, y)
           e == x - y
           i1 == i % Q
           k1 == k % Q
<1>1. g \in Unit /\ Cong(g, e) /\ e \in Int /\ g \in Int
  <2>1. g \in Field /\ Cong(g, e) /\ g # 0
    BY SubCong
  <2>2. x \in Int /\ y \in Int
    BY Basic
  <2>3. e \in Int
    BY <2>2
  <2> HIDE DEF g, e
  <2> QED BY <2>1, <2>3, Basic
<1>2. i1 \in Field /\ Cong(i1, i) /\ k1 \in Field /\ Cong(k1, k)
  BY CongMod
<1>3. i1 \in Int /\ k1 \in Int
  BY <1>2, Basic
<1> HIDE DEF g, i1, k1
<1>4. Cong(e * i, e * k)
  OBVIOUS
<1> HIDE DEF e
<1> DEFINE m == Mul(g, i1)
           n == Mul(g, k1)
<1>5. m \in Field /\ Cong(m, e * i)
  BY <1>1, <1>2, <1>3, MulTo
<1>6. n \in Field /\ Cong(n, e * k)
  BY <1>1, <1>2, <1>3, MulTo
<1>7. m = n
  <2> HIDE DEF m, n
  <2>1. m \in Int /\ n \in Int /\ e * i \in Int /\ e * k \in Int
    BY <1>1, <1>5, <1>6, Basic
  <2>2. Cong(m, e * k)
    BY <1>4, <1>5, <2>1, CongTrans
  <2>3. Cong(m, n)
    BY <1>6, <2>1, <2>2, CongSym, CongTrans
  <2> QED BY <1>5, <1>6, <2>3, CongEqual
<1>8. i1 = k1
  BY <1>1, <1>2, <1>7, Cancel
<1> QED BY <1>2, <1>3, <1>8, CongSym, CongTrans

-----------------------------------------------------------------------------
(* The weights add up to 1, and interpolate a power to 0 when there are    *)
(* more points than the power is high.                                     *)
LEMMA InterpOne ==
  ASSUME NEW D, NEW a, Distinct(a, D), NEW f \in [D -> Int], \A p \in D : f[p] = 1,
         NEW s \in SUBSET D, s # {}
  PROVE  Cong(Interp(a, f, s), 1)
<1> DEFINE Good == {r \in SUBSET s : r # {} => Cong(Interp(a, f, r), 1)}
<1>1. {} \in Good
  OBVIOUS
<1>2. ASSUME NEW r \in SUBSET s, r # {}, \A x \in r : r \ {x} \in Good PROVE r \in Good
  <2>1. PICK x \in r : TRUE
    BY <1>2
  <2>2. x \in D /\ r \in SUBSET D
    OBVIOUS
  <2>3. CASE r = {x}
    <3> DEFINE w == Weighted(a, f, r)
    <3>1. w \in [D -> Int] /\ w[x] = Weight(a, r, x) * f[x] /\ IsFiniteSet(D)
      <4>1. w \in [D -> Int]
        BY <2>2, InterpType
      <4>2. w[x] = Weight(a, r, x) * f[x]
        BY <2>2, InterpType
      <4> QED BY <4>1, <4>2 DEF Distinct
    <3>2. Weight(a, r, x) = 1 /\ f[x] = 1
      BY <2>2, <2>3, WeightParts
    <3> HIDE DEF w
    <3>3. Sigma(w, r) = w[x] + Sigma(w, r \ {x}) /\ Sigma(w, {}) = 0
      BY <2>2, <3>1, SigmaFacts
    <3>4. r \ {x} = {}
      BY <2>3
    <3>5. Sigma(w, r) = 1
      <4>1. w[x] = 1 * 1
        BY <3>1, <3>2
      <4>2. Sigma(w, r) = w[x] + 0
        BY <3>3, <3>4
      <4> QED BY <4>1, <4>2
    <3>6. Cong(1, 1)
      BY CongRefl
    <3> QED BY <3>5, <3>6 DEF w, Interp
  <2>4. CASE r # {x}
    <3>1. PICK y \in r : y # x
      BY <2>1, <2>4
    <3> DEFINE b == a[x]
               c == a[y]
               i == Interp(a, f, r)
               j == Interp(a, Scaled(a, f), r)
               ix == Interp(a, f, r \ {x})
               iy == Interp(a, f, r \ {y})
    <3>2. y \in D /\ b \in Unit /\ c \in Unit /\ b # c
      BY <2>2, <3>1 DEF Distinct
    <3>3. i \in Int /\ ix \in Int /\ iy \in Int
      BY <2>2, InterpType
    <3>4. j \in Int
      <4> DEFINE g == Scaled(a, f)
      <4>1. g \in [D -> Int]
        <5>1. \A p \in D : a[p] \in Int /\ f[p] \in Int
          BY InterpType
        <5>2. DOMAIN a = D /\ \A p \in D : a[p] * f[p] \in Int
          BY <5>1 DEF Distinct
        <5> QED BY <5>2 DEF Scaled
      <4> HIDE DEF g
      <4>2. Interp(a, g, r) \in Int
        BY <2>2, <4>1, InterpType
      <4> QED BY <4>2 DEF g
    <3>5. Cong(b * i - j, b * ix) /\ Cong(c * i - j, c * iy)
      BY <2>1, <2>2, <3>1, InterpShift
    <3>6. Cong(ix, 1) /\ Cong(iy, 1)
      <4>1. r \ {x} # {} /\ r \ {y} # {}
        BY <2>1, <3>1
      <4> QED BY <1>2, <2>1, <3>1, <4>1
    <3> HIDE DEF b, c, i, j, ix, iy
    <3>7. b \in Int /\ c \in Int
      BY <3>2, Basic
    <3>8. ASSUME NEW d \in Int, NEW k \in Int, Cong(d * i - j, d * k), Cong(k, 1)
          PROVE  Cong(d * i - j, d)
      <4>1. Cong(d * k, d * 1) /\ d * 1 = d
        BY <3>8, CongTimes, CongRefl
      <4>2. d * k \in Int /\ d * i - j \in Int
        BY <3>3, <3>4
      <4> QED BY <3>8, <4>1, <4>2, CongTrans
    <3>9. Cong(b * i - j, b)
      BY <3>3, <3>5, <3>6, <3>7, <3>8
    <3>10. Cong(c * i - j, c)
      BY <3>3, <3>5, <3>6, <3>7, <3>8
    <3>11. Cong((b * i - j) - (c * i - j), b - c)
      <4>1. b * i - j \in Int /\ c * i - j \in Int
        BY <3>3, <3>4, <3>7
      <4> QED BY <3>7, <3>9, <3>10, <4>1, CongAdd
    <3>12. (b * i - j) - (c * i - j) = (b - c) * i /\ b - c = (b - c) * 1
      BY <3>3, <3>4, <3>7
    <3>13. Cong((b - c) * i, (b - c) * 1)
      BY <3>11, <3>12
    <3>14. Cong(i, 1)
      BY <3>2, <3>3, <3>13, CongCancel
    <3> QED BY <3>14 DEF i
  <2> QED BY <2>3, <2>4
<1>3. IsFiniteSet(s)
  BY FS_Subset DEF Distinct
<1> HIDE DEF Good
<1>4. s \in Good
  BY <1>1, <1>2, <1>3, SubsetInduction
<1> QED BY <1>4 DEF Good

LEMMA InterpSame ==
  ASSUME NEW D, NEW a, Distinct(a, D), NEW f \in [D -> Int], NEW g \in [D -> Int],
         NEW c \in Int, NEW s \in SUBSET D, \A p \in s : Cong(f[p], c * g[p])
  PROVE  Cong(Interp(a, f, s), c * Interp(a, g, s))
<1> DEFINE z == 0
<1>1. z \in Int
  OBVIOUS
<1>2. ASSUME NEW p \in s PROVE Cong(f[p], c * g[p] + z * g[p])
  <2>1. p \in D /\ g[p] \in Int
    OBVIOUS
  <2>2. c * g[p] + z * g[p] = c * g[p]
    BY <2>1
  <2> QED BY <2>2
<1> HIDE DEF z
<1>3. Cong(Interp(a, f, s), c * Interp(a, g, s) + z * Interp(a, g, s))
  BY <1>1, <1>2, InterpCombine
<1>4. Interp(a, g, s) \in Int
  BY InterpType
<1>5. c * Interp(a, g, s) + z * Interp(a, g, s) = c * Interp(a, g, s)
  BY <1>4 DEF z
<1> QED BY <1>3, <1>5

PowerAt(D, pw, k) == [p \in D |-> pw[p][k]]
Unity(k) == IF k = 0 THEN 1 ELSE 0

LEMMA InterpPowers ==
  ASSUME NEW D, NEW a, Distinct(a, D), NEW pw, \A p \in D : PowersOf(pw[p], a[p])
  PROVE  \A k \in 0 .. Q - 1 : \A s \in SUBSET D :
            Cardinality(s) > k => Cong(Interp(a, PowerAt(D, pw, k), s), Unity(k))
<1> DEFINE Good == {k \in 0 .. Q - 1 : \A s \in SUBSET D :
                      Cardinality(s) > k => Cong(Interp(a, PowerAt(D, pw, k), s), Unity(k))}
<1>1. /\ IsFiniteSet(D) /\ DOMAIN a = D /\ \A p \in D : a[p] \in Unit /\ a[p] \in Int
      /\ Q - 1 \in Nat
  <2>1. IsFiniteSet(D) /\ DOMAIN a = D /\ \A p \in D : a[p] \in Unit
    BY DEF Distinct
  <2>2. \A p \in D : a[p] \in Int
    BY <2>1, Basic
  <2>3. Q - 1 \in Nat
    BY Order
  <2> QED BY <2>1, <2>2, <2>3
<1>2. ASSUME NEW k \in 0 .. Q - 1
      PROVE  /\ PowerAt(D, pw, k) \in [D -> Int]
             /\ \A p \in D : PowerAt(D, pw, k)[p] = pw[p][k] /\ pw[p][k] \in Int
  <2>1. \A p \in D : pw[p][k] \in Field
    BY DEF PowersOf
  <2>2. \A p \in D : pw[p][k] \in Int
    BY <2>1, Basic
  <2> QED BY <2>2 DEF PowerAt
<1>3. 0 \in Good
  <2>1. ASSUME NEW s \in SUBSET D, Cardinality(s) > 0
        PROVE  Cong(Interp(a, PowerAt(D, pw, 0), s), 1)
    <3> DEFINE f == PowerAt(D, pw, 0)
    <3>1. f \in [D -> Int] /\ \A p \in D : f[p] = 1
      <4>1. \A p \in D : pw[p][0] = 1
        BY DEF PowersOf
      <4>2. 0 \in 0 .. Q - 1
        BY <1>1
      <4> QED BY <1>2, <4>1, <4>2
    <3>2. s # {}
      BY <2>1, FS_EmptySet
    <3> HIDE DEF f
    <3>3. Cong(Interp(a, f, s), 1)
      BY <3>1, <3>2, InterpOne
    <3> QED BY <3>3 DEF f
  <2>2. 0 \in 0 .. Q - 1 /\ Unity(0) = 1
    BY <1>1 DEF Unity
  <2> QED BY <2>1, <2>2
<1>4. ASSUME NEW k \in 1 .. Q - 1, k - 1 \in Good PROVE k \in Good
  <2> DEFINE f == PowerAt(D, pw, k)
             g == PowerAt(D, pw, k - 1)
             h == Scaled(a, g)
             e == Unity(k - 1)
  <2>1. k \in 0 .. Q - 1 /\ k - 1 \in 0 .. Q - 1 /\ e \in Int /\ k \in Nat
    BY <1>1 DEF Unity
  <2>2. /\ f \in [D -> Int] /\ \A p \in D : f[p] = pw[p][k] /\ pw[p][k] \in Int
        /\ g \in [D -> Int] /\ \A p \in D : g[p] = pw[p][k - 1] /\ pw[p][k - 1] \in Int
    BY <1>2, <2>1
  <2>3. h \in [D -> Int] /\ \A p \in D : h[p] = a[p] * g[p]
    <3> HIDE DEF g
    <3>1. \A p \in D : a[p] * g[p] \in Int
      BY <1>1, <2>2
    <3> QED BY <1>1, <3>1 DEF Scaled
  <2>4. \A s \in SUBSET D : Cardinality(s) > k - 1 => Cong(Interp(a, g, s), e)
    BY <1>4
  <2> HIDE DEF g, e
  <2>5. ASSUME NEW s \in SUBSET D, Cardinality(s) > k PROVE Cong(Interp(a, f, s), 0)
    <3>1. IsFiniteSet(s) /\ Cardinality(s) \in Nat
      BY <1>1, FS_Subset, FS_CardinalityType
    <3>2. PICK x \in s : TRUE
      <4>1. s # {}
        BY <2>1, <2>5, FS_EmptySet
      <4> QED BY <4>1
    <3>3. Cardinality(s \ {x}) > k - 1 /\ Cardinality(s) > k - 1 /\ s \ {x} \in SUBSET D
      <4>1. Cardinality(s \ {x}) = Cardinality(s) - 1
        BY <3>1, <3>2, FS_RemoveElement
      <4> QED BY <2>1, <2>5, <3>1, <4>1
    <3> DEFINE b == a[x]
               i == Interp(a, g, s)
               j == Interp(a, h, s)
               l == Interp(a, g, s \ {x})
               m == Interp(a, f, s)
               one == 1
    <3>4. Cong(i, e) /\ Cong(l, e)
      BY <2>4, <3>3
    <3>5. Cong(b * i - j, b * l)
      BY <2>2, <3>2, InterpShift
    <3>6. b \in Int
      BY <1>1, <3>2
    <3>7. i \in Int /\ l \in Int
      BY <2>2, <3>3, InterpType
    <3> HIDE DEF h
    <3>8. j \in Int
      BY <2>3, <3>3, InterpType
    <3>9. Cong(m, one * j) /\ m \in Int
      <4>1. ASSUME NEW p \in s PROVE Cong(f[p], one * h[p])
        <5> DEFINE u == pw[p][k]
                   v == pw[p][k - 1]
                   c == a[p]
        <5>1. p \in D /\ f[p] = u /\ h[p] = c * v /\ c \in Unit /\ c \in Int
          BY <1>1, <2>2, <2>3
        <5>2. u = Mul(v, c) /\ v \in Int /\ u \in Int
          BY <2>1, <2>2, <5>1 DEF PowersOf
        <5> HIDE DEF u, v, c
        <5>3. Cong(u, v * c)
          BY <5>1, <5>2, MulCong
        <5>4. v * c = 1 * (c * v)
          BY <5>1, <5>2
        <5> QED BY <5>1, <5>3, <5>4
      <4>2. one \in Int
        OBVIOUS
      <4> HIDE DEF one, f
      <4>3. Cong(m, one * j)
        BY <2>2, <2>3, <4>1, <4>2, InterpSame
      <4>4. m \in Int
        BY <2>2, InterpType
      <4> QED BY <4>3, <4>4
    <3> HIDE DEF b, i, j, l, m
    <3>10. Cong(b * i, b * e) /\ Cong(b * l, b * e)
      BY <2>1, <3>4, <3>6, <3>7, CongTimes, CongRefl
    <3>11. b * i \in Int /\ b * e \in Int /\ b * l \in Int
      BY <2>1, <3>6, <3>7
    <3> DEFINE u == b * i
               v == b * e
               z == b * l
    <3> HIDE DEF u, v, z
    <3>12. Cong(u, v) /\ Cong(z, v) /\ Cong(u - j, z) /\ u \in Int /\ v \in Int /\ z \in Int
      BY <3>5, <3>10, <3>11 DEF u, v, z
    <3>13. Cong(u - j, v) /\ u - j \in Int
      BY <3>8, <3>12, CongTrans
    <3>14. Cong(u - (u - j), v - v) /\ u - (u - j) = j /\ v - v = 0
      BY <3>8, <3>12, <3>13, CongAdd
    <3>15. Cong(m, j)
      <4>1. one * j = j
        BY <3>8
      <4> QED BY <3>9, <4>1
    <3>16. Cong(m, 0)
      BY <3>8, <3>9, <3>14, <3>15, CongTrans
    <3> QED BY <3>16 DEF m
  <2>6. Unity(k) = 0
    BY DEF Unity
  <2> QED BY <2>1, <2>5, <2>6
<1>5. ASSUME NEW k \in 0 .. Q - 1 PROVE k \in Good
  <2> HIDE DEF Good
  <2> QED BY <1>1, <1>3, <1>4, IntervalInduction
<1> QED BY <1>5

-----------------------------------------------------------------------------
(* Interpolation commutes with sums, of coefficients and of dealers.       *)
Column(D, M, i) == [p \in D |-> M[p][i]]
RowSums(D, M, r) == [p \in D |-> Sigma(M[p], r)]

LEMMA InterpSums ==
  ASSUME NEW D, NEW a, Distinct(a, D), NEW R, IsFiniteSet(R), NEW M \in [D -> [R -> Int]],
         NEW v \in [R -> Int], NEW s \in SUBSET D,
         \A i \in R : Cong(Interp(a, Column(D, M, i), s), v[i])
  PROVE  RowSums(D, M, R) \in [D -> Int] /\ Cong(Interp(a, RowSums(D, M, R), s), Sigma(v, R))
<1>1. ASSUME NEW p \in D
      PROVE  /\ Sigma(M[p], {}) = 0
             /\ \A r \in SUBSET R : /\ Sigma(M[p], r) \in Int
                                    /\ \A x \in r : Sigma(M[p], r) = M[p][x] + Sigma(M[p], r \ {x})
  <2> DEFINE m == M[p]
  <2>1. m \in [R -> Int]
    OBVIOUS
  <2> HIDE DEF m
  <2>2. /\ Sigma(m, {}) = 0
        /\ \A r \in SUBSET R : /\ Sigma(m, r) \in Int
                               /\ \A x \in r : Sigma(m, r) = m[x] + Sigma(m, r \ {x})
    BY <2>1, SigmaFacts
  <2> QED BY <2>2 DEF m
<1>2. ASSUME NEW r \in SUBSET R
      PROVE  /\ RowSums(D, M, r) \in [D -> Int]
             /\ \A p \in D : RowSums(D, M, r)[p] = Sigma(M[p], r)
  BY <1>1 DEF RowSums
<1>3. ASSUME NEW x \in R
      PROVE  /\ Column(D, M, x) \in [D -> Int]
             /\ \A p \in D : Column(D, M, x)[p] = M[p][x] /\ M[p][x] \in Int
  BY DEF Column
<1> DEFINE Good == {r \in SUBSET R : Cong(Interp(a, RowSums(D, M, r), s), Sigma(v, r))}
<1>4. {} \in Good
  <2> DEFINE f == RowSums(D, M, {})
             z == 0
  <2>1. f \in [D -> Int] /\ z \in Int /\ \A p \in D : f[p] = 0
    BY <1>1, <1>2
  <2>2. ASSUME NEW p \in s PROVE Cong(f[p], z * f[p])
    <3>1. p \in D /\ f[p] = 0 /\ z * 0 = 0
      BY <2>1
    <3>2. Cong(0, 0)
      BY CongRefl
    <3> QED BY <3>1, <3>2
  <2> HIDE DEF f, z
  <2>3. Cong(Interp(a, f, s), z * Interp(a, f, s)) /\ Interp(a, f, s) \in Int
    BY <2>1, <2>2, InterpSame, InterpType
  <2>4. z * Interp(a, f, s) = 0
    BY <2>3 DEF z
  <2>5. Sigma(v, {}) = 0
    BY SigmaFacts
  <2> QED BY <2>3, <2>4, <2>5 DEF f
<1>5. ASSUME NEW r \in SUBSET R, r # {}, \A x \in r : r \ {x} \in Good PROVE r \in Good
  <2>1. PICK x \in r : TRUE
    BY <1>5
  <2> DEFINE t == r \ {x}
             f == RowSums(D, M, r)
             g == RowSums(D, M, t)
             h == Column(D, M, x)
             one == 1
             i == Interp(a, f, s)
             j == Interp(a, g, s)
             k == Interp(a, h, s)
  <2>2. x \in R /\ r \in SUBSET R /\ t \in SUBSET R
    OBVIOUS
  <2>3. f \in [D -> Int] /\ \A p \in D : f[p] = Sigma(M[p], r)
    BY <1>2, <2>2
  <2>4. g \in [D -> Int] /\ \A p \in D : g[p] = Sigma(M[p], t) /\ g[p] \in Int
    BY <1>2, <2>2
  <2>5. h \in [D -> Int] /\ \A p \in D : h[p] = M[p][x] /\ h[p] \in Int
    BY <1>3, <2>2
  <2> HIDE DEF f, g, h
  <2>6. ASSUME NEW p \in s PROVE Cong(f[p], one * h[p] + one * g[p])
    <3>1. p \in D /\ f[p] = h[p] + g[p] /\ h[p] \in Int /\ g[p] \in Int
      BY <1>1, <2>1, <2>2, <2>3, <2>4, <2>5
    <3>2. one * h[p] + one * g[p] = f[p] /\ f[p] \in Int
      BY <3>1
    <3> QED BY <3>2, CongRefl
  <2>7. Cong(i, one * k + one * j) /\ i \in Int /\ j \in Int /\ k \in Int
    <3>1. one \in Int
      OBVIOUS
    <3> HIDE DEF one
    <3>2. Cong(i, one * k + one * j)
      BY <2>3, <2>4, <2>5, <2>6, <3>1, InterpCombine
    <3>3. i \in Int
      BY <2>3, InterpType
    <3>4. j \in Int
      BY <2>4, InterpType
    <3>5. k \in Int
      BY <2>5, InterpType
    <3> QED BY <3>2, <3>3, <3>4, <3>5
  <2>8. Cong(k, v[x]) /\ v[x] \in Int
    BY <2>2 DEF h
  <2>9. Cong(j, Sigma(v, t))
    BY <1>5, <2>1 DEF g
  <2>10. Sigma(v, r) = v[x] + Sigma(v, t) /\ Sigma(v, t) \in Int
    BY <2>1, <2>2, SigmaFacts
  <2> DEFINE b == v[x]
             c == Sigma(v, t)
  <2> HIDE DEF i, j, k, b, c
  <2>11. Cong(k + j, b + c) /\ k + j \in Int /\ b + c \in Int /\ one * k + one * j = k + j
    <3>1. Cong(k, b) /\ Cong(j, c) /\ b \in Int /\ c \in Int
      BY <2>8, <2>9, <2>10 DEF b, c
    <3>2. k + j \in Int /\ b + c \in Int /\ one * k + one * j = k + j
      BY <2>7, <3>1
    <3> QED BY <2>7, <3>1, <3>2, CongAdd
  <2>12. Cong(i, b + c)
    BY <2>7, <2>11, CongTrans
  <2> QED BY <2>10, <2>12 DEF i, f, b, c
<1> HIDE DEF Good
<1>6. R \in Good
  BY <1>4, <1>5, SubsetInduction
<1> QED BY <1>2, <1>6 DEF Good

RowTotals(D, M) == [p \in D |-> Total(M[p])]

LEMMA InterpTotals ==
  ASSUME NEW D, NEW a, Distinct(a, D), NEW n \in Nat, n > 0,
         NEW M \in [D -> [1 .. n -> Field]], NEW v \in [1 .. n -> Int],
         \A p \in D : Total(M[p]) # 0,
         \A i \in 1 .. n : Cong(Interp(a, Column(D, M, i), D), v[i])
  PROVE  /\ RowTotals(D, M) \in [D -> Field] /\ \A p \in D : RowTotals(D, M)[p] \in Unit
         /\ Cong(Interp(a, RowTotals(D, M), D), Sigma(v, 1 .. n))
<1> DEFINE f == RowTotals(D, M)
<1>1. ASSUME NEW p \in D
      PROVE  f[p] \in Unit /\ Cong(f[p], Sigma(M[p], 1 .. n)) /\ M[p] \in [1 .. n -> Int]
  <2> DEFINE m == M[p]
  <2>1. m \in [1 .. n -> Field] /\ Total(m) # 0 /\ f[p] = Total(m)
    BY DEF RowTotals
  <2> HIDE DEF m
  <2>2. Total(m) \in Unit /\ Cong(Total(m), Sigma(m, 1 .. n))
    BY <2>1, TotalIsSum
  <2>3. m \in [1 .. n -> Int]
    BY <2>1, Basic
  <2> QED BY <2>1, <2>2, <2>3 DEF m
<1>2. f \in [D -> Field] /\ f \in [D -> Int] /\ \A p \in D : f[p] \in Unit
  <2>1. \A p \in D : f[p] \in Unit /\ f[p] \in Field /\ f[p] \in Int
    BY <1>1, Basic
  <2> QED BY <2>1 DEF RowTotals
<1>3. PICK R : R = 1 .. n
  OBVIOUS
<1>4. IsFiniteSet(R)
  BY <1>3, FS_Interval
<1>5. PICK W : W = M
  OBVIOUS
<1>6. W \in [D -> [R -> Int]]
  <2>1. \A p \in D : W[p] \in [R -> Int]
    BY <1>1, <1>3, <1>5
  <2>2. W = [p \in D |-> W[p]]
    BY <1>5
  <2> QED BY <2>1, <2>2
<1>7. PICK u : u = v
  OBVIOUS
<1>8. u \in [R -> Int] /\ D \in SUBSET D
  BY <1>3, <1>7
<1>9. \A i \in R : Cong(Interp(a, Column(D, W, i), D), u[i])
  BY <1>3, <1>5, <1>7
<1> DEFINE g == RowSums(D, W, R)
<1>10. g \in [D -> Int] /\ Cong(Interp(a, g, D), Sigma(u, R))
  <2>1. D \in SUBSET D
    OBVIOUS
  <2>2. u \in [R -> Int]
    BY <1>8
  <2> HIDE DEF g
  <2>3. RowSums(D, W, R) \in [D -> Int] /\ Cong(Interp(a, RowSums(D, W, R), D), Sigma(u, R))
    BY <1>4, <1>6, <1>9, <2>1, <2>2, InterpSums
  <2> QED BY <2>3 DEF g
<1> DEFINE one == 1
<1>11. ASSUME NEW p \in D PROVE Cong(f[p], one * g[p])
  <2>1. g[p] = Sigma(W[p], R) /\ g[p] \in Int
    BY <1>10 DEF RowSums
  <2>2. Cong(f[p], g[p])
    BY <1>1, <1>3, <1>5, <2>1
  <2>3. one * g[p] = g[p]
    BY <2>1
  <2> QED BY <2>2, <2>3
<1>12. one \in Int
  OBVIOUS
<1> HIDE DEF g, one
<1>13. Cong(Interp(a, f, D), one * Interp(a, g, D))
  BY <1>2, <1>8, <1>10, <1>11, <1>12, InterpSame
<1>14. Interp(a, f, D) \in Int /\ Interp(a, g, D) \in Int
  <2>1. Interp(a, f, D) \in Int
    BY <1>2, <1>8, InterpType
  <2>2. Interp(a, g, D) \in Int
    BY <1>8, <1>10, InterpType
  <2> QED BY <2>1, <2>2
<1>15. Sigma(u, R) \in Int
  BY <1>4, <1>8, SigmaFacts
<1>16. one * Interp(a, g, D) = Interp(a, g, D)
  BY <1>14 DEF one
<1>17. Cong(Interp(a, f, D), Sigma(u, R))
  BY <1>10, <1>13, <1>14, <1>15, <1>16, CongTrans
<1> QED BY <1>2, <1>3, <1>7, <1>17

LEMMA SigmaOfOne ==
  ASSUME NEW D, IsFiniteSet(D), NEW v \in [D -> Int], NEW x \in D,
         \A y \in D : y # x => v[y] = 0
  PROVE  Sigma(v, D) = v[x]
<1> DEFINE Good == {r \in SUBSET D : Sigma(v, r) = IF x \in r THEN v[x] ELSE 0}
<1>1. {} \in Good
  BY SigmaFacts
<1>2. ASSUME NEW r \in SUBSET D, r # {}, \A y \in r : r \ {y} \in Good PROVE r \in Good
  <2>1. PICK y \in r : TRUE
    BY <1>2
  <2>2. Sigma(v, r) = v[y] + Sigma(v, r \ {y})
    BY <2>1, SigmaFacts
  <2>3. Sigma(v, r \ {y}) = IF x \in r \ {y} THEN v[x] ELSE 0
    BY <1>2, <2>1
  <2>4. v[x] \in Int /\ v[y] \in Int /\ (y # x => v[y] = 0)
    BY <2>1
  <2> DEFINE b == v[x]
             c == v[y]
             t == Sigma(v, r \ {y})
  <2>5. CASE y = x
    <3>1. t = 0 /\ c = b /\ c + 0 = c
      BY <2>3, <2>4, <2>5
    <3> QED BY <2>1, <2>2, <2>5, <3>1
  <2>6. CASE y # x
    <3>1. c = 0 /\ t = IF x \in r THEN b ELSE 0
      BY <2>3, <2>4, <2>6
    <3>2. t \in Int
      BY <2>4, <3>1
    <3>3. 0 + t = t
      BY <3>2
    <3> QED BY <2>2, <3>1, <3>3
  <2> QED BY <2>5, <2>6
<1> HIDE DEF Good
<1>3. D \in Good
  BY <1>1, <1>2, SubsetInduction
<1> QED BY <1>3 DEF Good

-----------------------------------------------------------------------------
(* The shares of a dealer interpolate to its constant coefficient, and     *)
(* what the members add up to the secret of the group.                     *)
Terms(poly, x) == [k \in 1 .. T |-> IF k = 1 THEN poly[1] ELSE Mul(poly[k], Power(x, k - 1))]

LEMMA Members == T \in Nat /\ N \in Nat /\ T >= 2 /\ T <= N /\ N < Q /\ \A i \in 1 .. N : i \in Unit
BY SignatureAssumption, Order DEF Unit

SharesOf(D, a, poly) == [p \in D |-> EvalCommitment(poly, a[p])]

LEMMA SharesInterpolate ==
  ASSUME NEW D, NEW a, Distinct(a, D), Cardinality(D) >= T,
         NEW poly, poly \in [1 .. T -> Unit], \A p \in D : SharesOf(D, a, poly)[p] # 0
  PROVE  /\ SharesOf(D, a, poly) \in [D -> Field]
         /\ Cong(Interp(a, SharesOf(D, a, poly), D), poly[1])
<1> DEFINE f == SharesOf(D, a, poly)
<1>1. /\ \A p \in D : a[p] \in Field
      /\ \A k \in 1 .. T : poly[k] \in Unit /\ poly[k] \in Field /\ poly[k] \in Int
      /\ D \in SUBSET D
  <2>1. \A p \in D : a[p] \in Unit
    BY DEF Distinct
  <2> QED BY <2>1, Basic
<1> DEFINE pw == [p \in D |-> CHOOSE h : PowersOf(h, a[p])]
<1>2. \A p \in D : PowersOf(pw[p], a[p])
  <2> SUFFICES ASSUME NEW p \in D PROVE PowersOf(CHOOSE h : PowersOf(h, a[p]), a[p])
    OBVIOUS
  <2>1. \E h : PowersOf(h, a[p])
    BY <1>1, PowersExist
  <2> QED BY <2>1
<1> HIDE DEF pw
<1> DEFINE M == [p \in D |-> Terms(poly, a[p])]
           v == [k \in 1 .. T |-> poly[k] * Unity(k - 1)]
<1>3. ASSUME NEW p \in D, NEW k \in 1 .. T
      PROVE  /\ M[p][k] = IF k = 1 THEN poly[1] ELSE Mul(poly[k], pw[p][k - 1])
             /\ k - 1 \in 0 .. Q - 1 /\ pw[p][k - 1] \in Field /\ pw[p][0] = 1
  <2>1. k - 1 \in 0 .. Q - 1
    BY Members, Order
  <2>2. pw[p][k - 1] \in Field /\ pw[p][0] = 1
    BY <1>2, <2>1 DEF PowersOf
  <2>3. Power(a[p], k - 1) = pw[p][k - 1]
    BY <1>1, <1>2, <2>1, PowerIsPower
  <2> QED BY <2>1, <2>2, <2>3 DEF Terms
<1>4. \A p \in D, k \in 1 .. T : M[p][k] \in Field
  <2> SUFFICES ASSUME NEW p \in D, NEW k \in 1 .. T PROVE M[p][k] \in Field
    OBVIOUS
  <2>1. poly[k] \in Field /\ pw[p][k - 1] \in Field /\ poly[1] \in Field
    <3>1. 1 \in 1 .. T
      BY Members
    <3>2. pw[p][k - 1] \in Field
      BY <1>3
    <3> QED BY <1>1, <3>1, <3>2
  <2>2. Mul(poly[k], pw[p][k - 1]) \in Field
    BY <2>1, MulLaws
  <2> QED BY <1>3, <2>1, <2>2
<1>5. M \in [D -> [1 .. T -> Field]]
  <2>1. ASSUME NEW p \in D PROVE Terms(poly, a[p]) \in [1 .. T -> Field]
    <3>1. \A k \in 1 .. T : Terms(poly, a[p])[k] \in Field
      BY <1>4
    <3> QED BY <3>1 DEF Terms
  <2> QED BY <2>1
<1>6. v \in [1 .. T -> Int] /\ \A k \in 1 .. T : v[k] = poly[k] * Unity(k - 1)
  <2>1. \A k \in 1 .. T : poly[k] * Unity(k - 1) \in Int
    BY <1>1 DEF Unity
  <2> QED BY <2>1
<1>7. f = RowTotals(D, M) /\ \A p \in D : Total(M[p]) # 0
  <2>1. ASSUME NEW p \in D PROVE EvalCommitment(poly, a[p]) = Total(M[p])
    BY DEF EvalCommitment, Terms
  <2>2. \A p \in D : f[p] = Total(M[p]) /\ f[p] # 0
    BY <2>1 DEF SharesOf
  <2> QED BY <2>1, <2>2 DEF RowTotals, SharesOf
<1> HIDE DEF f
<1>8. ASSUME NEW k \in 1 .. T PROVE Cong(Interp(a, Column(D, M, k), D), v[k])
  <2> DEFINE c == poly[k]
             g == Column(D, M, k)
             h == PowerAt(D, pw, k - 1)
             i == Interp(a, g, D)
             j == Interp(a, h, D)
             e == Unity(k - 1)
  <2>1. g \in [D -> Int] /\ \A p \in D : g[p] = M[p][k] /\ M[p][k] \in Int
    <3>1. \A p \in D : M[p][k] \in Int
      BY <1>4, Basic
    <3> QED BY <3>1 DEF Column
  <2>2. h \in [D -> Int] /\ \A p \in D : h[p] = pw[p][k - 1] /\ pw[p][k - 1] \in Int
    <3>1. \A p \in D : pw[p][k - 1] \in Int
      BY <1>3, Basic
    <3> QED BY <3>1 DEF PowerAt
  <2>3. ASSUME NEW p \in D PROVE Cong(g[p], c * h[p])
    <3> DEFINE x == pw[p][k - 1]
    <3>1. g[p] = M[p][k] /\ h[p] = x /\ x \in Int /\ c \in Int
      BY <1>1, <2>1, <2>2
    <3>2. CASE k = 1
      <4>1. g[p] = c /\ x = 1 /\ c * 1 = c
        BY <1>3, <3>1, <3>2
      <4> QED BY <3>1, <4>1, CongRefl
    <3>3. CASE k # 1
      <4>1. g[p] = Mul(c, x)
        BY <1>3, <3>1, <3>3
      <4> QED BY <3>1, <4>1, MulCong
    <3> QED BY <3>2, <3>3
  <2>4. c \in Int /\ e \in Int
    BY <1>1 DEF Unity
  <2>5. Cong(j, e)
    <3>1. k - 1 \in 0 .. Q - 1
      BY Members, Order
    <3>2. IsFiniteSet(D)
      BY DEF Distinct
    <3>3. Cardinality(D) \in Nat
      BY <3>2, FS_CardinalityType
    <3>4. Cardinality(D) > k - 1
      BY <3>3, Members
    <3> QED BY <1>1, <1>2, <3>1, <3>4, InterpPowers
  <2> HIDE DEF g, h, c, e
  <2>6. Cong(i, c * j)
    BY <1>1, <2>1, <2>2, <2>3, <2>4, InterpSame
  <2>7. i \in Int
    BY <1>1, <2>1, InterpType
  <2>8. j \in Int
    BY <1>1, <2>2, InterpType
  <2> HIDE DEF i, j
  <2>9. Cong(c * j, c * e) /\ c * j \in Int /\ c * e \in Int
    <3>1. c * j \in Int /\ c * e \in Int
      BY <2>4, <2>8
    <3> QED BY <2>4, <2>5, <2>8, <3>1, CongTimes, CongRefl
  <2>10. Cong(i, c * e)
    BY <2>6, <2>7, <2>9, CongTrans
  <2> QED BY <1>6, <2>10 DEF i, g, c, e
<1> HIDE DEF M, v
<1>9. PICK n : n = T
  OBVIOUS
<1>10. n \in Nat /\ n > 0
  BY <1>9, Members
<1>11. f \in [D -> Field] /\ (\A p \in D : f[p] \in Unit) /\ Cong(Interp(a, f, D), Sigma(v, 1 .. n))
  <2>1. M \in [D -> [1 .. n -> Field]] /\ v \in [1 .. n -> Int]
    BY <1>5, <1>6, <1>9
  <2>2. \A k \in 1 .. n : Cong(Interp(a, Column(D, M, k), D), v[k])
    BY <1>8, <1>9
  <2> QED BY <1>7, <1>10, <2>1, <2>2, InterpTotals
<1>12. Sigma(v, 1 .. n) = poly[1]
  <2>1. PICK E, x : E = 1 .. n /\ x = 1
    OBVIOUS
  <2>2. IsFiniteSet(E)
    BY <1>10, <2>1, FS_Interval
  <2>3. x \in E
    BY <1>10, <2>1
  <2>4. v \in [E -> Int]
    BY <1>6, <1>9, <2>1
  <2>5. \A y \in E : y # x => v[y] = 0
    <3>1. ASSUME NEW y \in 1 .. n, y # 1 PROVE v[y] = 0
      <4>1. y \in 1 .. T /\ y - 1 # 0
        BY <1>9, <1>10, <3>1
      <4>2. v[y] = poly[y] * 0 /\ poly[y] \in Int
        BY <1>1, <1>6, <4>1 DEF Unity
      <4> QED BY <4>2
    <3> QED BY <2>1, <3>1
  <2>6. Sigma(v, E) = v[x]
    BY <2>2, <2>3, <2>4, <2>5, SigmaOfOne
  <2>7. v[1] = poly[1]
    <3>1. 1 \in 1 .. T /\ 1 - 1 = 0
      BY Members
    <3>2. v[1] = poly[1] * 1 /\ poly[1] \in Int
      BY <1>1, <1>6, <3>1 DEF Unity
    <3> QED BY <3>2
  <2> QED BY <2>1, <2>6, <2>7
<1> QED BY <1>11, <1>12 DEF f

ShareTable(D, a, polys) == [p \in D |-> [j \in 1 .. N |-> EvalCommitment(polys[j], a[p])]]
Constants(polys) == [j \in 1 .. N |-> polys[j][1]]

LEMMA KeysInterpolate ==
  ASSUME NEW D, NEW a, Distinct(a, D), Cardinality(D) >= T,
         NEW polys, polys \in [1 .. N -> [1 .. T -> Unit]],
         \A p \in D, j \in 1 .. N : EvalCommitment(polys[j], a[p]) # 0,
         Total(Constants(polys)) # 0,
         \A p \in D : RowTotals(D, ShareTable(D, a, polys))[p] # 0
  PROVE  /\ RowTotals(D, ShareTable(D, a, polys)) \in [D -> Field]
         /\ Total(Constants(polys)) \in Unit
         /\ Cong(Interp(a, RowTotals(D, ShareTable(D, a, polys)), D), Total(Constants(polys)))
<1> DEFINE M == ShareTable(D, a, polys)
           c == Constants(polys)
           f == RowTotals(D, M)
<1>0. /\ M = [p \in D |-> [j \in 1 .. N |-> EvalCommitment(polys[j], a[p])]]
      /\ c = [j \in 1 .. N |-> polys[j][1]]
      /\ \A p \in D, j \in 1 .. N : M[p][j] # 0 /\ M[p][j] = EvalCommitment(polys[j], a[p])
      /\ \A j \in 1 .. N : c[j] = polys[j][1]
      /\ Total(c) # 0
  BY DEF ShareTable, Constants
<1> HIDE DEF M, c
<1>1. ASSUME NEW j \in 1 .. N
      PROVE  /\ \A p \in D : M[p][j] \in Field
             /\ Cong(Interp(a, Column(D, M, j), D), c[j])
             /\ c[j] \in Unit
  <2> DEFINE poly == polys[j]
             g == SharesOf(D, a, poly)
  <2>1. poly \in [1 .. T -> Unit] /\ c[j] = poly[1] /\ poly[1] \in Unit
    <3>1. c[j] = poly[1]
      BY <1>0
    <3>2. poly \in [1 .. T -> Unit]
      OBVIOUS
    <3>3. 1 \in 1 .. T
      BY Members
    <3> HIDE DEF poly
    <3>4. poly[1] \in Unit
      BY <3>2, <3>3
    <3> QED BY <3>1, <3>2, <3>4 DEF poly
  <2>2. \A p \in D : g[p] = M[p][j] /\ g[p] # 0
    BY <1>0 DEF SharesOf
  <2>3. g = Column(D, M, j)
    BY <1>0 DEF Column, SharesOf
  <2> HIDE DEF poly
  <2>4. g \in [D -> Field] /\ Cong(Interp(a, g, D), poly[1])
    BY <2>1, <2>2, SharesInterpolate
  <2> QED BY <2>1, <2>2, <2>3, <2>4
<1>2. PICK n : n = N
  OBVIOUS
<1>3. n \in Nat /\ n > 0
  BY <1>2, Members
<1>4. M \in [D -> [1 .. n -> Field]]
  <2>1. ASSUME NEW p \in D PROVE M[p] \in [1 .. n -> Field]
    <3>1. M[p] = [j \in 1 .. n |-> EvalCommitment(polys[j], a[p])]
      BY <1>0, <1>2
    <3>2. \A j \in 1 .. n : M[p][j] \in Field
      BY <1>1, <1>2
    <3> QED BY <3>1, <3>2
  <2> QED BY <1>0, <2>1
<1>5. c \in [1 .. n -> Field] /\ c \in [1 .. n -> Int]
  <2>1. \A j \in 1 .. n : c[j] \in Field /\ c[j] \in Int
    BY <1>1, <1>2, Basic
  <2> QED BY <1>0, <1>2, <2>1
<1>6. \A j \in 1 .. n : Cong(Interp(a, Column(D, M, j), D), c[j])
  BY <1>1, <1>2
<1>7. \A p \in D : Total(M[p]) # 0
  BY DEF RowTotals, M
<1>8. PICK W, u, g : W = M /\ u = c /\ g = f
  OBVIOUS
<1>9. /\ W \in [D -> [1 .. n -> Field]] /\ u \in [1 .. n -> Int] /\ g = RowTotals(D, W)
      /\ \A p \in D : Total(W[p]) # 0
      /\ \A j \in 1 .. n : Cong(Interp(a, Column(D, W, j), D), u[j])
  BY <1>4, <1>5, <1>6, <1>7, <1>8
<1>10. /\ g \in [D -> Field] /\ \A p \in D : g[p] \in Unit
       /\ Cong(Interp(a, g, D), Sigma(u, 1 .. n))
  <2>1. W \in [D -> [1 .. n -> Field]]
    BY <1>9
  <2>2. u \in [1 .. n -> Int]
    BY <1>9
  <2>3. g = RowTotals(D, W)
    BY <1>9
  <2>4. \A p \in D : Total(W[p]) # 0
    BY <1>9
  <2>5. \A j \in 1 .. n : Cong(Interp(a, Column(D, W, j), D), u[j])
    BY <1>9
  <2> QED BY <1>3, <2>1, <2>2, <2>3, <2>4, <2>5, InterpTotals
<1>11. u \in [1 .. n -> Field] /\ Total(u) # 0
  BY <1>0, <1>5, <1>8
<1>12. Total(u) \in Unit /\ Cong(Total(u), Sigma(u, 1 .. n))
  BY <1>3, <1>11, TotalIsSum
<1>13. Cong(Interp(a, g, D), Total(u))
  <2> DEFINE i == Interp(a, g, D)
             k == Total(u)
             l == Sigma(u, 1 .. n)
  <2>1. i \in Int
    <3>1. g \in [D -> Int]
      BY <1>10, Basic
    <3>2. D \in SUBSET D
      OBVIOUS
    <3> QED BY <3>1, <3>2, InterpType
  <2>2. k \in Int
    BY <1>12, Basic
  <2>3. l \in Int
    <3>1. PICK E : E = 1 .. n
      OBVIOUS
    <3>2. IsFiniteSet(E)
      BY <1>3, <3>1, FS_Interval
    <3>3. u \in [E -> Int]
      BY <1>9, <3>1
    <3>4. Sigma(u, E) \in Int
      BY <3>2, <3>3, SigmaFacts
    <3> QED BY <3>1, <3>4
  <2>4. Cong(i, l) /\ Cong(k, l)
    BY <1>10, <1>12
  <2> HIDE DEF i, k, l
  <2>5. Cong(i, k)
    BY <2>1, <2>2, <2>3, <2>4, CongSym, CongTrans
  <2> QED BY <2>5 DEF i, k
<1> QED BY <1>8, <1>10, <1>12, <1>13 DEF M, c

-----------------------------------------------------------------------------
(* The coefficient of a member of a quorum is its weight among the points  *)
(* of the quorum.                                                          *)
LEMMA QuorumFacts ==
  ASSUME NEW q \in Quorums
  PROVE  /\ Len(q) \in Nat /\ DOMAIN q = 1 .. Len(q) /\ Distinct(q, 1 .. Len(q))
         /\ Cardinality(1 .. Len(q)) >= T /\ Len(q) > 0
         /\ \A p \in 1 .. Len(q) : q[p] \in 1 .. N /\ q[p] \in Unit
<1>1. q \in Seq(1 .. N) /\ Len(q) >= T /\ IsInjective(q)
  BY RunsAssumption
<1>2. /\ Len(q) \in Nat /\ DOMAIN q = 1 .. Len(q) /\ q \in [1 .. Len(q) -> 1 .. N]
      /\ \A p \in 1 .. Len(q) : q[p] \in 1 .. N
  <2>1. PICK S : S = 1 .. N
    OBVIOUS
  <2>2. q \in Seq(S)
    BY <1>1, <2>1
  <2>3. Len(q) \in Nat /\ q \in [1 .. Len(q) -> S]
    BY <2>2
  <2> QED BY <2>1, <2>3
<1>3. \A x, y \in 1 .. Len(q) : q[x] = q[y] => x = y
  BY <1>1, <1>2 DEF IsInjective
<1>4. 1 .. N \subseteq Unit
  BY Members
<1>5. q \in [1 .. Len(q) -> Unit]
  BY <1>2, <1>4
<1>6. IsFiniteSet(1 .. Len(q)) /\ Cardinality(1 .. Len(q)) = Len(q)
  <2>1. PICK n : n = Len(q)
    OBVIOUS
  <2>2. n \in Nat
    BY <1>2, <2>1
  <2>3. IsFiniteSet(1 .. n) /\ Cardinality(1 .. n) = n
    BY <2>2, FS_Interval
  <2> QED BY <2>1, <2>3
<1> QED BY <1>1, <1>2, <1>3, <1>4, <1>5, <1>6, Members DEF Distinct

LEMMA OthersIsPi ==
  ASSUME NEW n \in Nat, NEW q, Distinct(q, 1 .. n), NEW p \in 1 .. n,
         NEW f \in [1 .. n -> Field]
  PROVE  OthersProduct(q[p], q, f) = Pi(f, (1 .. n) \ {p})
<1>1. DOMAIN q = 1 .. n /\ \A x, y \in 1 .. n : q[x] = q[y] => x = y
  BY DEF Distinct
<1>2. PICK c : PartialProducts(c, n, q[p], q, f)
  BY <1>1, OthersChain
<1>3. PICK D, g : D = 1 .. n /\ g = f
  OBVIOUS
<1>4. IsFiniteSet(D) /\ g \in [D -> Field]
  BY <1>3, FS_Interval
<1>5. /\ Pi(g, {}) = 1
      /\ \A s \in SUBSET D : Pi(g, s) \in Field /\ \A x \in s : Pi(g, s) = Mul(g[x], Pi(g, s \ {x}))
  BY <1>4, PiFacts
<1> DEFINE Good == {i \in 0 .. n : c[i] = Pi(g, (1 .. i) \ {p})}
<1>6. 0 \in Good
  <2>1. (1 .. 0) \ {p} = {} /\ 0 \in 0 .. n
    OBVIOUS
  <2>2. c[0] = 1
    BY <1>2 DEF PartialProducts
  <2> QED BY <1>5, <2>1, <2>2
<1>7. ASSUME NEW i \in 1 .. n, i - 1 \in Good PROVE i \in Good
  <2> DEFINE s == (1 .. i) \ {p}
             t == (1 .. i - 1) \ {p}
  <2>1. c[i] = SkipMul(q[p], q, f, c[i - 1], i) /\ c[i - 1] = Pi(g, t) /\ i \in 0 .. n
    BY <1>2, <1>7 DEF PartialProducts
  <2>2. CASE i = p
    <3>1. s = t
      BY <2>2
    <3>2. c[i] = c[i - 1]
      BY <2>1, <2>2 DEF SkipMul
    <3> QED BY <2>1, <3>1, <3>2
  <2>3. CASE i # p
    <3>1. i \in s /\ s \ {i} = t
      BY <2>3
    <3>2. s \in SUBSET D /\ t \in SUBSET D
      BY <1>3
    <3>3. q[i] # q[p]
      BY <1>1, <2>3
    <3>4. c[i] = Mul(Pi(g, t), f[i])
      BY <2>1, <3>3 DEF SkipMul
    <3>5. Pi(g, s) = Mul(g[i], Pi(g, t)) /\ Pi(g, t) \in Field
      BY <1>5, <3>1, <3>2
    <3>6. g[i] = f[i] /\ f[i] \in Field
      BY <1>3
    <3>7. Mul(Pi(g, t), f[i]) = Mul(f[i], Pi(g, t))
      BY <3>5, <3>6, MulLaws
    <3> QED BY <2>1, <3>4, <3>5, <3>6, <3>7
  <2> QED BY <2>2, <2>3
<1>8. n \in Good
  <2> HIDE DEF Good
  <2>1. \A i \in 0 .. n : i \in Good
    BY <1>6, <1>7, IntervalInduction
  <2> QED BY <2>1
<1>9. OthersProduct(q[p], q, f) = c[n]
  BY <1>2 DEF PartialProducts
<1> QED BY <1>3, <1>8, <1>9

LEMMA LambdaIsWeight ==
  ASSUME NEW n \in Nat, NEW q, Distinct(q, 1 .. n), NEW p \in 1 .. n
  PROVE  LagrangeAtZero(q[p], q) = Weight(q, 1 .. n, p)
<1>1. DOMAIN q = 1 .. n /\ \A x \in 1 .. n : q[x] \in Unit
  BY DEF Distinct
<1>2. q \in [1 .. n -> Field]
  <2>1. \A x \in 1 .. n : q[x] \in Field
    BY <1>1, Basic
  <2>2. q \in [1 .. n -> Unit]
    BY DEF Distinct
  <2> QED BY <2>1, <2>2
<1>3. Gaps(q, p) \in [1 .. n -> Field]
  BY GapFacts
<1>4. OthersProduct(q[p], q, q) = Pi(q, (1 .. n) \ {p})
  BY <1>2, OthersIsPi
<1>5. OthersProduct(q[p], q, Gaps(q, p)) = Pi(Gaps(q, p), (1 .. n) \ {p})
  BY <1>3, OthersIsPi
<1> QED BY <1>4, <1>5 DEF LagrangeAtZero, Weight, Gaps

-----------------------------------------------------------------------------
(* The hashes of the cohort, whose argument is a list of any length.       *)
Joined(f, k, seqs) ==
    \A i \in 1 .. k : f[i] = IF i = 1 THEN seqs[i] ELSE f[i - 1] \o seqs[i]

LEMMA JoinType == \A a, b \in Seq(Nat) : a \o b \in Seq(Nat)
OBVIOUS

LEMMA FlattenType ==
  ASSUME NEW n \in Nat, n > 0, NEW seqs \in [1 .. n -> Seq(Nat)]
  PROVE  FlattenSeq(seqs) \in Seq(Nat)
<1> DEFINE Lists == Seq(Nat)
           D == 1 .. n
           Flat(f) == f = [i \in D |-> IF i = 1 THEN seqs[i] ELSE f[i - 1] \o seqs[i]]
           Good == {k \in 0 .. n : \E f \in [D -> Lists] : Joined(f, k, seqs)}
<1>1. Len(seqs) = n /\ \A i \in D : seqs[i] \in Lists
  <2>1. seqs \in Seq(Seq(Nat)) /\ Len(seqs) = n
    BY ListOf
  <2> QED BY <2>1
<1> HIDE DEF Lists
<1>2. 0 \in Good
  <2> DEFINE f == seqs
  <2>1. seqs \in [D -> Lists]
    BY DEF Lists
  <2>2. Joined(seqs, 0, seqs)
    BY DEF Joined
  <2> QED BY <2>1, <2>2
<1>3. ASSUME NEW k \in 1 .. n, k - 1 \in Good PROVE k \in Good
  <2>1. PICK f \in [D -> Lists] : Joined(f, k - 1, seqs)
    BY <1>3
  <2> DEFINE v == IF k = 1 THEN seqs[k] ELSE f[k - 1] \o seqs[k]
             g == [f EXCEPT ![k] = v]
  <2>2. v \in Lists
    <3>1. CASE k = 1
      BY <1>1, <3>1
    <3>2. CASE k # 1
      <4>1. k - 1 \in D
        BY <3>2
      <4>2. f[k - 1] \in Lists /\ seqs[k] \in Lists
        BY <1>1, <4>1
      <4> QED BY <3>2, <4>2, JoinType DEF Lists
    <3> QED BY <3>1, <3>2
  <2> HIDE DEF v
  <2>3. /\ g \in [D -> Lists] /\ g[k] = v /\ \A i \in 1 .. k - 1 : g[i] = f[i]
    BY <2>2
  <2> HIDE DEF g
  <2>4. Joined(g, k, seqs)
    <3>1. ASSUME NEW i \in 1 .. k
          PROVE  g[i] = IF i = 1 THEN seqs[i] ELSE g[i - 1] \o seqs[i]
      <4>1. CASE i = k
        <5>1. k # 1 => g[k - 1] = f[k - 1]
          BY <2>3
        <5>2. g[k] = IF k = 1 THEN seqs[k] ELSE f[k - 1] \o seqs[k]
          BY <2>3 DEF v
        <5> QED BY <4>1, <5>1, <5>2
      <4>2. CASE i # k
        <5>1. i \in 1 .. k - 1 /\ (i # 1 => i - 1 \in 1 .. k - 1)
          BY <4>2
        <5>2. f[i] = IF i = 1 THEN seqs[i] ELSE f[i - 1] \o seqs[i]
          BY <2>1, <5>1 DEF Joined
        <5> QED BY <2>3, <5>1, <5>2
      <4> QED BY <4>1, <4>2
    <3> QED BY <3>1 DEF Joined
  <2> QED BY <2>3, <2>4
<1>4. n \in Good
  <2> HIDE DEF Good
  <2>1. \A k \in 0 .. n : k \in Good
    BY <1>2, <1>3, IntervalInduction
  <2> QED BY <2>1
<1>5. PICK f \in [D -> Lists] : Joined(f, n, seqs)
  BY <1>4
<1>6. Flat(f)
  <2>1. \A i \in D : f[i] = IF i = 1 THEN seqs[i] ELSE f[i - 1] \o seqs[i]
    BY <1>5 DEF Joined
  <2> HIDE DEF D
  <2> QED BY <2>1
<1> DEFINE c == CHOOSE h : Flat(h)
<1>7. Flat(c)
  <2> HIDE DEF Flat
  <2> QED BY <1>6
<1>8. FlattenSeq(seqs) = c[n]
  BY <1>1 DEF FlattenSeq
<1> HIDE DEF c
<1>9. ASSUME NEW i \in 1 .. n PROVE c[i] = IF i = 1 THEN seqs[i] ELSE c[i - 1] \o seqs[i]
  BY <1>7
<1> DEFINE Typed == {k \in 0 .. n : k > 0 => c[k] \in Lists}
<1>10. 0 \in Typed
  OBVIOUS
<1>11. ASSUME NEW k \in 1 .. n, k - 1 \in Typed PROVE k \in Typed
  <2>1. seqs[k] \in Lists
    BY <1>1
  <2>2. k # 1 => c[k - 1] \in Lists
    BY <1>11
  <2>3. k # 1 => c[k - 1] \o seqs[k] \in Lists
    BY <2>1, <2>2, JoinType DEF Lists
  <2>4. c[k] \in Lists
    BY <1>9, <2>1, <2>3
  <2> QED BY <2>4
<1>12. n \in Typed
  <2> HIDE DEF Typed
  <2>1. \A k \in 0 .. n : k \in Typed
    BY <1>10, <1>11, IntervalInduction
  <2> QED BY <2>1
<1> QED BY <1>8, <1>12 DEF Lists

-----------------------------------------------------------------------------
(* Hashes that give scalars, and what members hold that accepted every    *)
(* dealing.                                                                *)
LEMMA CohortHashes ==
  ASSUME HashGivesScalars
  PROVE  /\ \A seed, i \in Nat : MemberSeed(seed, i) \in Unit
         /\ \A seed \in Nat : Poly(seed) \in [1 .. T -> Unit]
         /\ \A seed, ts, i \in Nat : /\ NoncePair(seed, ts, i)[1] \in Unit
                                     /\ NoncePair(seed, ts, i)[2] \in Unit
<1>1. \A tag \in HashTags, args \in Seq(Nat) : Hash(tag, args) \in Unit
  BY DEF HashGivesScalars, Unit
<1>2. {"seed", "coeff", "hiding", "binding"} \subseteq HashTags
  BY DEF HashTags
<1>3. ASSUME NEW a \in Nat, NEW b \in Nat, NEW c \in Nat
      PROVE  <<a, b>> \in Seq(Nat) /\ <<a, b, c>> \in Seq(Nat)
  OBVIOUS
<1>4. \A seed, i \in Nat : MemberSeed(seed, i) \in Unit
  BY <1>1, <1>2, <1>3 DEF MemberSeed
<1>5. ASSUME NEW seed \in Nat PROVE Poly(seed) \in [1 .. T -> Unit]
  <2>1. \A k \in 1 .. T : k \in Nat
    BY Members
  <2>2. \A k \in 1 .. T : Hash("coeff", <<seed, k>>) \in Unit
    BY <1>1, <1>2, <1>3, <2>1
  <2> QED BY <2>2 DEF Poly
<1>6. \A seed, ts, i \in Nat : /\ NoncePair(seed, ts, i)[1] \in Unit
                               /\ NoncePair(seed, ts, i)[2] \in Unit
  BY <1>1, <1>2, <1>3 DEF NoncePair
<1> QED BY <1>4, <1>5, <1>6

LEMMA BindingType ==
  ASSUME HashGivesScalars, NEW n \in Nat, n > 0, NEW q, DOMAIN q = 1 .. n, NEW des,
         \A m \in 1 .. n : q[m] \in Nat /\ des[m][1] \in Nat /\ des[m][2] \in Nat,
         NEW j \in Nat, NEW ts \in Nat, NEW i \in Nat
  PROVE  BindingFactor(j, ts, i, q, des) \in Unit
<1> DEFINE seqs == [m \in DOMAIN q |-> <<q[m], des[m][1], des[m][2]>>]
           set == FlattenSeq(seqs)
<1>1. seqs \in [1 .. n -> Seq(Nat)]
  <2>1. ASSUME NEW m \in 1 .. n PROVE <<q[m], des[m][1], des[m][2]>> \in Seq(Nat)
    OBVIOUS
  <2> QED BY <2>1
<1> HIDE DEF seqs
<1>2. set \in Seq(Nat)
  BY <1>1, FlattenType
<1> HIDE DEF set
<1>3. <<ts, i>> \o set \in Seq(Nat)
  <2>1. <<ts, i>> \in Seq(Nat)
    OBVIOUS
  <2> QED BY <1>2, <2>1, JoinType
<1>4. <<j>> \o (<<ts, i>> \o set) \in Seq(Nat)
  <2>1. <<j>> \in Seq(Nat)
    OBVIOUS
  <2> QED BY <1>3, <2>1, JoinType
<1>5. BindingFactor(j, ts, i, q, des) = Hash("rho", <<j>> \o (<<ts, i>> \o set))
  BY DEF BindingFactor, CommitmentSet, set, seqs
<1> QED BY <1>4, <1>5 DEF HashGivesScalars, HashTags, Unit

(* What members that accepted every dealing hold.                          *)
Polys(seeds) == [j \in 1 .. N |-> Poly(MemberSeed(seeds[j], j))]

LEMMA KeyFacts ==
  ASSUME HashGivesScalars, NEW seeds \in Dealings,
         \A i \in 1 .. N : CohortKeys(seeds)[i] # NoKey
  PROVE  /\ Polys(seeds) \in [1 .. N -> [1 .. T -> Unit]]
         /\ Total(Constants(Polys(seeds))) # 0
         /\ \A i \in 1 .. N :
              /\ CohortKeys(seeds)[i].x # 0
              /\ CohortKeys(seeds)[i].x
                   = Total([j \in 1 .. N |-> EvalCommitment(Polys(seeds)[j], i)])
              /\ CohortKeys(seeds)[i].group = EvenY(Total(Constants(Polys(seeds))))
              /\ CohortKeys(seeds)[i].odd = Odd(Total(Constants(Polys(seeds))))
              /\ \A j \in 1 .. N : EvalCommitment(Polys(seeds)[j], i) # 0
<1> DEFINE dealt == [i \in 1 .. N |-> Dealt(seeds[i], i)]
           polys == Polys(seeds)
           pk == Total(Constants(polys))
<1>1. seeds \in [1 .. N -> Nat]
  BY RunsAssumption
<1>2. \A j \in 1 .. N : dealt[j].poly = polys[j]
  BY DEF Dealt, Polys
<1>3. polys \in [1 .. N -> [1 .. T -> Unit]]
  <2>1. ASSUME NEW j \in 1 .. N PROVE Poly(MemberSeed(seeds[j], j)) \in [1 .. T -> Unit]
    <3>1. seeds[j] \in Nat /\ j \in Nat
      BY <1>1, Members
    <3>2. MemberSeed(seeds[j], j) \in Nat
      BY <3>1, CohortHashes, Basic
    <3> QED BY <3>2, CohortHashes
  <2> QED BY <2>1 DEF Polys
<1> HIDE DEF polys
<1>4. [j \in 1 .. N |-> dealt[j].poly[1]] = Constants(polys)
  BY <1>2 DEF Constants
<1>5. ASSUME NEW i \in 1 .. N
      PROVE  /\ CohortKeys(seeds)[i].x # 0
             /\ CohortKeys(seeds)[i].x = Total([j \in 1 .. N |-> EvalCommitment(polys[j], i)])
             /\ CohortKeys(seeds)[i].group = EvenY(pk)
             /\ CohortKeys(seeds)[i].odd = Odd(pk)
             /\ pk # 0
             /\ \A j \in 1 .. N : EvalCommitment(polys[j], i) # 0
  <2> DEFINE x == Total([j \in 1 .. N |-> PolyEval(dealt[j].poly, i)])
             p == Total([j \in 1 .. N |-> dealt[j].poly[1]])
             Fine == /\ x # 0 /\ p # 0
                     /\ \A j \in 1 .. N :
                          /\ VerifyRound1(j, dealt[j])
                          /\ VerifyRound2Share(PolyEval(dealt[j].poly, i), dealt[j].poly, i)
  <2>1. CohortKeys(seeds)[i] = FinalizeKey(dealt, i)
    BY DEF CohortKeys
  <2> HIDE DEF dealt
  <2>2. FinalizeKey(dealt, i)
          = IF Fine THEN [x |-> x, group |-> EvenY(p), odd |-> Odd(p)] ELSE NoKey
    BY DEF FinalizeKey
  <2>3. p = pk
    BY <1>4
  <2> HIDE DEF p, x
  <2>4. Fine
    BY <2>1, <2>2
  <2>5. CohortKeys(seeds)[i] = [x |-> x, group |-> EvenY(p), odd |-> Odd(p)]
    BY <2>1, <2>2, <2>4
  <2>6. \A j \in 1 .. N : PolyEval(dealt[j].poly, i) = EvalCommitment(polys[j], i)
                          /\ EvalCommitment(polys[j], i) # 0
    BY <1>2, <2>4 DEF VerifyRound2Share
  <2>7. x = Total([j \in 1 .. N |-> EvalCommitment(polys[j], i)])
    BY <2>6 DEF x
  <2> QED BY <2>3, <2>4, <2>5, <2>6, <2>7
<1>6. pk # 0
  <2>1. 1 \in 1 .. N
    BY Members
  <2> QED BY <1>5, <2>1
<1> QED BY <1>3, <1>5, <1>6 DEF polys

LEMMA QuorumInterpolates ==
  ASSUME HashGivesScalars, NEW seeds \in Dealings,
         \A i \in 1 .. N : CohortKeys(seeds)[i] # NoKey,
         NEW q \in Quorums, NEW f, f = [p \in 1 .. Len(q) |-> CohortKeys(seeds)[q[p]].x]
  PROVE  /\ f \in [1 .. Len(q) -> Field] /\ \A p \in 1 .. Len(q) : f[p] \in Unit
         /\ Total(Constants(Polys(seeds))) \in Unit
         /\ Cong(Interp(q, f, 1 .. Len(q)), Total(Constants(Polys(seeds))))
<1>1. PICK D : D = 1 .. Len(q)
  OBVIOUS
<1>2. Distinct(q, D) /\ Cardinality(D) >= T /\ \A p \in D : q[p] \in 1 .. N
  BY <1>1, QuorumFacts
<1> DEFINE polys == Polys(seeds)
           M == ShareTable(D, q, polys)
<1>3. /\ polys \in [1 .. N -> [1 .. T -> Unit]] /\ Total(Constants(polys)) # 0
      /\ \A i \in 1 .. N :
           /\ CohortKeys(seeds)[i].x # 0
           /\ CohortKeys(seeds)[i].x = Total([j \in 1 .. N |-> EvalCommitment(polys[j], i)])
           /\ \A j \in 1 .. N : EvalCommitment(polys[j], i) # 0
  BY KeyFacts
<1> HIDE DEF polys
<1>4. \A p \in D, j \in 1 .. N : EvalCommitment(polys[j], q[p]) # 0
  BY <1>2, <1>3
<1>5. \A p \in D : f[p] # 0 /\ f[p] = Total(M[p])
  BY <1>1, <1>2, <1>3 DEF ShareTable
<1>6. f = RowTotals(D, M)
  BY <1>1, <1>5 DEF RowTotals
<1>7. /\ RowTotals(D, M) \in [D -> Field] /\ Total(Constants(polys)) \in Unit
      /\ Cong(Interp(q, RowTotals(D, M), D), Total(Constants(polys)))
  <2>1. \A p \in D : RowTotals(D, M)[p] # 0
    BY <1>5, <1>6
  <2> QED BY <1>2, <1>3, <1>4, <2>1, KeysInterpolate
<1>8. f \in [D -> Field]
  BY <1>6, <1>7
<1>9. \A p \in D : f[p] \in Unit
  BY <1>5, <1>8, Basic
<1> QED BY <1>1, <1>6, <1>7, <1>8, <1>9 DEF polys

-----------------------------------------------------------------------------
(* The sum of the shares of a quorum.                                      *)
LEMMA SigmaType ==
  ASSUME NEW n \in Nat, NEW f, f \in [1 .. n -> Field] PROVE Sigma(f, 1 .. n) \in Int
<1>1. PICK D, g : D = 1 .. n /\ g = f
  OBVIOUS
<1>2. IsFiniteSet(D)
  BY <1>1, FS_Interval
<1>3. g \in [D -> Int]
  BY <1>1, Basic
<1>4. Sigma(g, D) \in Int
  BY <1>2, <1>3, SigmaFacts
<1> QED BY <1>1, <1>4

PartsOf(nn, L, odd, kodd, e) ==
    [p \in DOMAIN nn |-> Add(Signed(odd, nn[p]), Signed(kodd, Mul(L[p], e)))]

LEMMA ShareSum ==
  ASSUME NEW n \in Nat, n > 0, NEW nn, nn \in [1 .. n -> Field], NEW L, L \in [1 .. n -> Field],
         NEW pk \in Unit, Cong(Sigma(L, 1 .. n), pk), NEW e \in Unit, Total(nn) # 0,
         Total(PartsOf(nn, L, Odd(Total(nn)), Odd(pk), e)) # 0
  PROVE  /\ Total(nn) \in Unit
         /\ Total(PartsOf(nn, L, Odd(Total(nn)), Odd(pk), e)) \in Unit
         /\ Cong(Total(PartsOf(nn, L, Odd(Total(nn)), Odd(pk), e)),
                 EvenY(Total(nn)) + EvenY(pk) * e)
<1> DEFINE r == Total(nn)
           sh == PartsOf(nn, L, Odd(r), Odd(pk), e)
           odd == Odd(r)
           kodd == Odd(pk)
           f == Sign(odd)
           g == Sign(kodd)
           s == Total(sh)
           c == g * e
<1>1. /\ DOMAIN nn = 1 .. n /\ \A p \in 1 .. n : nn[p] \in Field /\ L[p] \in Field
      /\ odd \in BOOLEAN /\ kodd \in BOOLEAN
  BY DEF Odd
<1>2. r \in Unit /\ Cong(r, Sigma(nn, 1 .. n)) /\ Sigma(nn, 1 .. n) \in Int /\ Sigma(L, 1 .. n) \in Int
  BY TotalIsSum, SigmaType
<1>3. e \in Field /\ e \in Int /\ pk \in Field /\ pk \in Int /\ r \in Field /\ r \in Int
  BY <1>2, Basic
<1>4. sh = [p \in 1 .. n |-> Add(Signed(odd, nn[p]), Signed(kodd, Mul(L[p], e)))]
  BY <1>1 DEF PartsOf
<1> HIDE DEF r, odd, kodd
<1>5. f \in Int /\ g \in Int /\ c \in Int
  <2>1. f \in Int /\ g \in Int
    BY DEF Sign
  <2> HIDE DEF f, g
  <2> QED BY <1>3, <2>1
<1>6. ASSUME NEW p \in 1 .. n
      PROVE  /\ sh[p] \in Field
             /\ sh[p] # 0 => Cong(sh[p], f * nn[p] + c * L[p])
  <2> DEFINE a == nn[p]
             l == L[p]
             m == Mul(l, e)
             x == Signed(odd, a)
             y == Signed(kodd, m)
  <2>1. a \in Field /\ l \in Field /\ a \in Int /\ l \in Int /\ sh[p] = Add(x, y)
    BY <1>1, <1>4, Basic
  <2> HIDE DEF a, l
  <2>2. m \in Field /\ Cong(m, l * e) /\ l * e \in Int
    BY <1>3, <2>1, MulCong
  <2>3. x \in Field /\ Cong(x, f * a) /\ f * a \in Int
    BY <1>1, <1>5, <2>1, SignedCong
  <2> HIDE DEF m
  <2>4. y \in Field /\ Cong(y, g * (l * e)) /\ g * (l * e) \in Int
    BY <1>1, <1>5, <2>2, SignedTo
  <2> HIDE DEF x, y, f, g
  <2>5. Add(x, y) \in Field
    BY <2>3, <2>4, AddCong
  <2>6. Add(x, y) # 0 => Cong(Add(x, y), f * a + g * (l * e))
    BY <2>3, <2>4, AddTo
  <2>7. g * (l * e) = (g * e) * l
    BY <1>3, <1>5, <2>1
  <2> QED BY <2>1, <2>5, <2>6, <2>7 DEF a, l
<1>7. sh \in [1 .. n -> Field]
  BY <1>4, <1>6
<1>8. s \in Unit /\ (\A p \in 1 .. n : sh[p] \in Unit) /\ Cong(s, Sigma(sh, 1 .. n))
  <2>1. Total(sh) # 0
    BY DEF r, odd, kodd
  <2> HIDE DEF sh
  <2> QED BY <1>7, <2>1, TotalIsSum
<1> HIDE DEF sh, f, g, c, s
<1>9. Cong(Sigma(sh, 1 .. n), f * Sigma(nn, 1 .. n) + c * Sigma(L, 1 .. n))
  <2>1. PICK D, u, v, w : D = 1 .. n /\ u = sh /\ v = nn /\ w = L
    OBVIOUS
  <2>2. IsFiniteSet(D)
    BY <2>1, FS_Interval
  <2>3. u \in [D -> Int]
    BY <1>7, <2>1, Basic
  <2>4. v \in [D -> Int]
    BY <2>1, Basic
  <2>5. w \in [D -> Int]
    BY <2>1, Basic
  <2>6. D \in SUBSET D
    OBVIOUS
  <2>7. \A p \in D : Cong(u[p], f * v[p] + c * w[p])
    BY <1>6, <1>8, <2>1, Basic
  <2>8. Cong(Sigma(u, D), f * Sigma(v, D) + c * Sigma(w, D))
    BY <1>5, <2>2, <2>3, <2>4, <2>5, <2>6, <2>7, SumsCombine
  <2> QED BY <2>1, <2>8
<1> DEFINE A == Sigma(sh, 1 .. n)
           B == Sigma(nn, 1 .. n)
           C == Sigma(L, 1 .. n)
           R1 == EvenY(r)
           P1 == EvenY(pk)
<1>10. A \in Int /\ B \in Int /\ C \in Int /\ s \in Int /\ Cong(s, A) /\ Cong(r, B) /\ Cong(C, pk)
  BY <1>2, <1>7, <1>8, SigmaType, Basic
<1>11. R1 \in Int /\ Cong(R1, f * r) /\ P1 \in Int /\ Cong(P1, g * pk)
  <2>1. R1 = Signed(odd, r) /\ P1 = Signed(kodd, pk)
    BY <1>3, EvenYFacts DEF odd, kodd
  <2>2. Signed(odd, r) \in Field /\ Cong(Signed(odd, r), f * r)
    BY <1>1, <1>3, SignedCong DEF f
  <2>3. Signed(kodd, pk) \in Field /\ Cong(Signed(kodd, pk), g * pk)
    BY <1>1, <1>3, SignedCong DEF g
  <2> QED BY <2>1, <2>2, <2>3, Basic
<1>12. Cong(A, f * B + c * C)
  BY <1>9
<1> HIDE DEF A, B, C, R1, P1
<1>13. Cong(f * B, R1)
  <2>1. Cong(f * B, f * r)
    BY <1>3, <1>5, <1>10, CongTimes, CongRefl, CongSym
  <2>2. f * B \in Int /\ f * r \in Int
    BY <1>3, <1>5, <1>10
  <2> QED BY <1>11, <2>1, <2>2, CongSym, CongTrans
<1>14. Cong(c * C, P1 * e)
  <2>1. Cong(c * C, c * pk)
    BY <1>3, <1>5, <1>10, CongTimes, CongRefl
  <2>2. Cong((g * pk) * e, P1 * e)
    <3>1. g * pk \in Int
      BY <1>3, <1>5
    <3>2. Cong(g * pk, P1)
      BY <1>11, <3>1, CongSym
    <3> QED BY <1>3, <1>11, <3>1, <3>2, CongTimes, CongRefl
  <2>3. (g * pk) * e = c * pk
    BY <1>3, <1>5 DEF c
  <2>4. c * C \in Int /\ c * pk \in Int /\ P1 * e \in Int
    BY <1>3, <1>5, <1>10, <1>11
  <2> QED BY <2>1, <2>2, <2>3, <2>4, CongTrans
<1>15. Cong(s, R1 + P1 * e)
  <2> DEFINE x == f * B
             y == c * C
             z == P1 * e
  <2>1. x \in Int /\ y \in Int /\ z \in Int /\ Cong(x, R1) /\ Cong(y, z) /\ Cong(A, x + y)
    BY <1>3, <1>5, <1>10, <1>11, <1>12, <1>13, <1>14
  <2> HIDE DEF x, y, z
  <2>2. Cong(x + y, R1 + z) /\ x + y \in Int /\ R1 + z \in Int
    BY <1>11, <2>1, CongAdd
  <2>3. Cong(A, R1 + z)
    BY <1>10, <2>1, <2>2, CongTrans
  <2>4. Cong(s, R1 + z)
    BY <1>10, <2>2, <2>3, CongTrans
  <2> QED BY <2>4 DEF z
<1> QED BY <1>2, <1>8, <1>15 DEF r, s, sh, R1, P1, odd, kodd

(* The weighted keys of a quorum sum to the secret of the group.           *)
WeightedKeys(q, f) == [p \in DOMAIN q |-> Mul(LagrangeAtZero(q[p], q), f[p])]

LEMMA LambdaSum ==
  ASSUME NEW n \in Nat, NEW q, Distinct(q, 1 .. n), NEW f, f \in [1 .. n -> Field],
         NEW pk \in Unit, Cong(Interp(q, f, 1 .. n), pk)
  PROVE  /\ WeightedKeys(q, f) \in [1 .. n -> Field]
         /\ Cong(Sigma(WeightedKeys(q, f), 1 .. n), pk)
<1>1. PICK D, g, L : D = 1 .. n /\ g = f /\ L = WeightedKeys(q, f)
  OBVIOUS
<1>2. IsFiniteSet(D)
  BY <1>1, FS_Interval
<1>3. Distinct(q, D) /\ D \in SUBSET D
  BY <1>1
<1>4. g \in [D -> Int]
  BY <1>1, Basic
<1> DEFINE w == Weighted(q, g, D)
<1>5. w \in [D -> Int] /\ Interp(q, g, D) \in Int
  BY <1>3, <1>4, InterpType
<1>6. \A p \in D : w[p] = Weight(q, D, p) * g[p]
  BY <1>3, <1>4, InterpType
<1>7. \A p \in D : Weight(q, D, p) \in Int /\ g[p] \in Int
  BY <1>3, <1>4, InterpType
<1>8. ASSUME NEW p \in D PROVE L[p] \in Field /\ L[p] \in Int /\ Cong(L[p], w[p])
  <2>1. LagrangeAtZero(q[p], q) = Weight(q, D, p)
    BY <1>1, LambdaIsWeight
  <2>2. DOMAIN q = D
    BY <1>3 DEF Distinct
  <2>3. L[p] = Mul(Weight(q, D, p), g[p])
    BY <1>1, <2>1, <2>2 DEF WeightedKeys
  <2>4. L[p] \in Field /\ Cong(L[p], w[p])
    BY <1>6, <1>7, <2>3, MulCong
  <2> QED BY <2>4, Basic
<1>9. L \in [D -> Field] /\ L \in [D -> Int]
  <2>1. DOMAIN q = D
    BY <1>3 DEF Distinct
  <2>2. L = [p \in D |-> L[p]]
    BY <1>1, <2>1 DEF WeightedKeys
  <2> QED BY <1>8, <2>2
<1> HIDE DEF w
<1>10. Cong(Sigma(L, D), Sigma(w, D)) /\ Sigma(L, D) \in Int /\ Sigma(w, D) \in Int
  <2> DEFINE one == 1
             z == 0
  <2>1. one \in Int /\ z \in Int
    OBVIOUS
  <2>2. ASSUME NEW p \in D PROVE Cong(L[p], one * w[p] + z * w[p])
    <3>1. w[p] \in Int
      BY <1>5
    <3>2. one * w[p] + z * w[p] = w[p]
      BY <3>1
    <3> QED BY <1>8, <3>2
  <2> HIDE DEF one, z
  <2>3. Cong(Sigma(L, D), one * Sigma(w, D) + z * Sigma(w, D))
    BY <1>2, <1>3, <1>5, <1>9, <2>1, <2>2, SumsCombine
  <2>4. Sigma(L, D) \in Int /\ Sigma(w, D) \in Int
    BY <1>2, <1>3, <1>5, <1>9, SigmaFacts
  <2>5. one * Sigma(w, D) + z * Sigma(w, D) = Sigma(w, D)
    BY <2>4 DEF one, z
  <2> QED BY <2>3, <2>4, <2>5
<1>11. Cong(Sigma(w, D), pk) /\ pk \in Int
  BY <1>1, Basic DEF Interp, w
<1>12. Cong(Sigma(L, D), pk)
  BY <1>10, <1>11, CongTrans
<1> QED BY <1>1, <1>9, <1>12

-----------------------------------------------------------------------------
(* A session of a quorum of members that accepted every dealing.           *)
GroupSecret(seeds) == Total(Constants(Polys(seeds)))
KeysOf(seeds, q) == [p \in 1 .. Len(q) |-> CohortKeys(seeds)[q[p]].x]
NoncesOf(seeds, ts, i, q) ==
    [p \in DOMAIN q |-> NoncePair(MemberSeed(seeds[q[p]], q[p]), ts, i)]
NonceParts(ts, i, q, des) ==
    [m \in DOMAIN q |-> Add(des[m][1], Mul(des[m][2], Rhos(ts, i, q, des)[m]))]

LEMMA NoncePartsType ==
  ASSUME HashGivesScalars, NEW seeds \in Dealings, NEW q \in Quorums,
         NEW ts \in Nat, NEW i \in Nat
  PROVE  NonceParts(ts, i, q, NoncesOf(seeds, ts, i, q)) \in [1 .. Len(q) -> Field]
<1> DEFINE des == NoncesOf(seeds, ts, i, q)
           rho == Rhos(ts, i, q, des)
           n == Len(q)
<1>1. n \in Nat /\ DOMAIN q = 1 .. n /\ n > 0 /\ \A p \in 1 .. n : q[p] \in 1 .. N /\ q[p] \in Unit
  BY QuorumFacts
<1> HIDE DEF n
<1>2. \A m \in 1 .. n : des[m] = NoncePair(MemberSeed(seeds[q[m]], q[m]), ts, i)
  BY <1>1 DEF NoncesOf
<1> HIDE DEF des
<1>3. ASSUME NEW m \in 1 .. n PROVE q[m] \in Nat /\ des[m][1] \in Unit /\ des[m][2] \in Unit
  <2>1. q[m] \in Nat /\ q[m] \in 1 .. N
    BY <1>1, Basic
  <2>2. seeds[q[m]] \in Nat
    BY <2>1, RunsAssumption
  <2>3. MemberSeed(seeds[q[m]], q[m]) \in Nat
    BY <2>1, <2>2, CohortHashes, Basic
  <2> QED BY <1>2, <2>1, <2>3, CohortHashes
<1>4. \A m \in 1 .. n : q[m] \in Nat /\ des[m][1] \in Nat /\ des[m][2] \in Nat
  BY <1>3, Basic
<1>5. ASSUME NEW m \in 1 .. n PROVE rho[m] \in Unit
  <2>1. rho[m] = BindingFactor(q[m], ts, i, q, des)
    BY <1>1 DEF Rhos
  <2>2. q[m] \in Nat
    BY <1>4
  <2> QED BY <1>1, <1>4, <2>1, <2>2, BindingType
<1> HIDE DEF rho
<1>6. ASSUME NEW m \in 1 .. n PROVE Add(des[m][1], Mul(des[m][2], rho[m])) \in Field
  <2>1. des[m][1] \in Unit /\ des[m][2] \in Unit /\ rho[m] \in Unit
    BY <1>3, <1>5
  <2>2. Mul(des[m][2], rho[m]) \in Unit
    BY <2>1, NoZeroDivisors
  <2> QED BY <2>1, <2>2, AddCong, Basic
<1>7. NonceParts(ts, i, q, des) = [m \in 1 .. n |-> Add(des[m][1], Mul(des[m][2], rho[m]))]
  BY <1>1 DEF NonceParts, rho
<1> QED BY <1>6, <1>7 DEF des, n

(* The sum of the shares of one digit.                                     *)
LEMMA QuorumSigns ==
  ASSUME HashGivesScalars, NEW seeds \in Dealings,
         \A i \in 1 .. N : CohortKeys(seeds)[i] # NoKey,
         NEW q \in Quorums, NEW nn \in [1 .. Len(q) -> Field], Total(nn) # 0,
         NEW digit \in Nat, NEW shares,
         shares = PartsOf(nn, WeightedKeys(q, KeysOf(seeds, q)), Odd(Total(nn)),
                          Odd(GroupSecret(seeds)),
                          Challenge(EvenY(Total(nn)), EvenY(GroupSecret(seeds)), digit)),
         Total(shares) # 0, NEW sig, sig.r = EvenY(Total(nn)), sig.s = Total(shares)
  PROVE  Verify(EvenY(GroupSecret(seeds)), digit, sig)
<1> DEFINE n == Len(q)
           f == KeysOf(seeds, q)
           L == WeightedKeys(q, f)
           pk == GroupSecret(seeds)
           r == Total(nn)
           e == Challenge(EvenY(r), EvenY(pk), digit)
<1>1. n \in Nat /\ n > 0 /\ Distinct(q, 1 .. n)
  BY QuorumFacts
<1>2. f \in [1 .. n -> Field] /\ pk \in Unit /\ Cong(Interp(q, f, 1 .. n), pk)
  BY QuorumInterpolates DEF KeysOf, GroupSecret
<1> HIDE DEF n, f, pk
<1>3. L \in [1 .. n -> Field] /\ Cong(Sigma(L, 1 .. n), pk)
  BY <1>1, <1>2, LambdaSum
<1>4. r \in Unit /\ nn \in [1 .. n -> Field]
  <2>1. nn \in [1 .. n -> Field]
    BY DEF n
  <2> QED BY <1>1, <2>1, TotalIsSum
<1>5. EvenY(r) \in Unit /\ EvenY(pk) \in Unit
  BY <1>2, <1>4, EvenYFacts, Basic
<1>6. e \in Unit
  BY <1>5, HashFacts, Basic
<1>7. shares = PartsOf(nn, L, Odd(r), Odd(pk), e) /\ r # 0
  BY DEF f, pk
<1> HIDE DEF L
<1>8. Total(PartsOf(nn, L, Odd(Total(nn)), Odd(pk), e)) # 0
  BY <1>7
<1> DEFINE ch == e
<1>9. ch \in Unit /\ Total(nn) # 0 /\ Total(PartsOf(nn, L, Odd(Total(nn)), Odd(pk), ch)) # 0
  BY <1>6, <1>8
<1> HIDE DEF e
<1>10. /\ Total(shares) \in Unit
       /\ Cong(Total(shares), EvenY(r) + EvenY(pk) * ch)
  <2> HIDE DEF ch
  <2> QED BY <1>1, <1>2, <1>3, <1>4, <1>7, <1>9, ShareSum DEF ch
<1>11. /\ sig.r = EvenY(r) /\ sig.s = Total(shares) /\ EvenY(r) \in Field /\ EvenY(pk) \in Field
       /\ EvenY(r) # 0 /\ Total(shares) \in Field /\ ch \in Field
  BY <1>5, <1>6, <1>10, Basic
<1>12. Verify(EvenY(pk), digit, sig)
  BY <1>10, <1>11, SumVerifies DEF e
<1> QED BY <1>12 DEF pk

(* The weighted keys add up to the group's secret, if the sum does not     *)
(* fail.                                                                   *)
LEMMA QuorumHoldsKey ==
  ASSUME HashGivesScalars, NEW seeds \in Dealings,
         \A i \in 1 .. N : CohortKeys(seeds)[i] # NoKey, NEW q \in Quorums
  PROVE  EvenY(Total(WeightedKeys(q, KeysOf(seeds, q)))) \in {0, EvenY(GroupSecret(seeds))}
<1> DEFINE n == Len(q)
           f == KeysOf(seeds, q)
           L == WeightedKeys(q, f)
           pk == GroupSecret(seeds)
<1>1. n \in Nat /\ n > 0 /\ Distinct(q, 1 .. n)
  BY QuorumFacts
<1>2. f \in [1 .. n -> Field] /\ pk \in Unit /\ Cong(Interp(q, f, 1 .. n), pk)
  BY QuorumInterpolates DEF KeysOf, GroupSecret
<1> HIDE DEF n, f, pk
<1>3. L \in [1 .. n -> Field] /\ Cong(Sigma(L, 1 .. n), pk)
  BY <1>1, <1>2, LambdaSum
<1> HIDE DEF L
<1>4. CASE Total(L) = 0
  <2>1. EvenY(Total(L)) = 0
    BY <1>4, EvenYFacts, Basic
  <2> QED BY <2>1 DEF L, f
<1>5. CASE Total(L) # 0
  <2>1. Total(L) \in Unit /\ Cong(Total(L), Sigma(L, 1 .. n)) /\ Sigma(L, 1 .. n) \in Int
    BY <1>1, <1>3, <1>5, TotalIsSum, SigmaType
  <2>2. Total(L) \in Int /\ pk \in Int /\ Total(L) \in Field /\ pk \in Field
    BY <1>2, <2>1, Basic
  <2>3. Cong(Total(L), pk)
    BY <1>3, <2>1, <2>2, CongTrans
  <2>4. Total(L) = pk
    BY <2>2, <2>3, CongEqual
  <2> QED BY <2>4 DEF L, f, pk
<1> QED BY <1>4, <1>5

(* Any quorum of the members that dealt together signs like one oracle:    *)
(* all of them compute one group key, whose secret the keys of any quorum  *)
(* interpolate to, and each digit's sum of shares is a BIP-340 signature   *)
(* of that key with the announced nonce, for every number of members, every *)
(* threshold and quorum, and whatever the parities of key and nonce.       *)
THEOREM CohortsSignAsOne ==
  ASSUME HashGivesScalars PROVE Spec => []CohortSignsAsOne
<1>1. RunInv => CohortSignsAsOne
  <2> DEFINE seeds == task.seeds
             q == task.quorum
             keys == CohortKeys(seeds)
             pk == GroupSecret(seeds)
             L == WeightedKeys(q, KeysOf(seeds, q))
  <2> SUFFICES ASSUME RunInv, Finished({"cohort"}), \A i \in 1 .. N : keys[i] # NoKey,
                      ~Failed(outcome.sigs)
               PROVE  /\ \A i \in 1 .. N : keys[i].group = outcome.key
                      /\ EvenY(Total([p \in DOMAIN q |->
                                        Mul(LagrangeAtZero(q[p], q), keys[q[p]].x)]))
                           \in {0, outcome.key}
                      /\ \A i \in 1 .. NbDigits :
                           /\ outcome.sigs[i].r = outcome.nonces[i]
                           /\ Verify(outcome.key, outcome.digits[i], outcome.sigs[i])
    BY DEF CohortSignsAsOne
  <2>1. task \in CohortTasks /\ outcome = Perform(task) /\ task.by = "cohort"
    <3>1. \A t \in OracleTasks \cup OpeningTasks : t.by # "cohort"
      BY DEF OracleTasks, OpeningTasks
    <3> QED BY <3>1 DEF RunInv, Finished
  <2>2. seeds \in Dealings /\ q \in Quorums /\ task.ts \in Nat /\ task.price \in Nat
    BY <2>1, RunsAssumption DEF CohortTasks
  <2>3. outcome = CohortAttests(seeds, task.ts, task.price, q)
    BY <2>1 DEF Perform
  <2> DEFINE ts == task.ts
             price == task.price
             des(i) == NoncesOf(seeds, ts, i, q)
             nn(i) == NonceParts(ts, i, q, des(i))
             shares(i) == [p \in DOMAIN q |->
                SigShare(keys[q[p]], MemberSeed(seeds[q[p]], q[p]), ts, i, Digits(price)[i],
                         q, des(i), p)]
  <2>4. /\ outcome.key = keys[1].group /\ outcome.digits = Digits(price)
        /\ outcome.nonces = [i \in 1 .. NbDigits |-> AggregateNonce(ts, i, q, des(i))]
        /\ outcome.sigs =
             [i \in 1 .. NbDigits |-> AggregateSignature(ts, i, q, des(i), shares(i))]
    BY <2>3 DEF CohortAttests, Attestation, NoncesOf
  <2>5. \A i \in 1 .. N : keys[i].group = EvenY(pk) /\ keys[i].odd = Odd(pk)
    BY <2>2, KeyFacts DEF GroupSecret
  <2>6. outcome.key = EvenY(pk) /\ \A i \in 1 .. N : keys[i].group = outcome.key
    <3>1. 1 \in 1 .. N
      BY Members
    <3> QED BY <2>4, <2>5, <3>1
  <2>7. DOMAIN q = 1 .. Len(q) /\ \A p \in 1 .. Len(q) : q[p] \in 1 .. N
    BY <2>2, QuorumFacts
  <2>8. L = [p \in DOMAIN q |-> Mul(LagrangeAtZero(q[p], q), keys[q[p]].x)]
    BY <2>7 DEF WeightedKeys, KeysOf
  <2>9. EvenY(Total(L)) \in {0, EvenY(pk)}
    BY <2>2, QuorumHoldsKey
  <2>10. ASSUME NEW i \in 1 .. NbDigits
         PROVE  /\ outcome.sigs[i].r = outcome.nonces[i]
                /\ Verify(EvenY(pk), Digits(price)[i], outcome.sigs[i])
    <3> DEFINE r == Total(nn(i))
               e == Challenge(EvenY(r), EvenY(pk), Digits(price)[i])
    <3>1. SessionNonce(ts, i, q, des(i)) = r
      BY DEF SessionNonce, NonceParts
    <3>2. outcome.nonces[i] = EvenY(r)
      BY <2>4, <3>1 DEF AggregateNonce
    <3>3. outcome.sigs[i].r = EvenY(r) /\ outcome.sigs[i].s = Total(shares(i))
      BY <2>4, <3>1 DEF AggregateSignature, AggregateNonce
    <3>4. outcome.sigs[i].r # 0 /\ outcome.sigs[i].s # 0
      BY <2>4 DEF Failed
    <3>5. ASSUME NEW p \in 1 .. Len(q)
          PROVE  shares(i)[p] = Add(Signed(Odd(r), nn(i)[p]), Signed(Odd(pk), Mul(L[p], e)))
      <4> DEFINE key == keys[q[p]]
                 own == NoncePair(MemberSeed(seeds[q[p]], q[p]), ts, i)
                 nonce == Add(own[1], Mul(own[2], Rhos(ts, i, q, des(i))[p]))
      <4>1. key.group = EvenY(pk) /\ key.odd = Odd(pk)
        BY <2>5, <2>7
      <4>2. nn(i)[p] = nonce
        BY <2>7 DEF NonceParts, NoncesOf
      <4>3. L[p] = Mul(LagrangeAtZero(q[p], q), key.x)
        BY <2>7, <2>8
      <4>4. shares(i)[p] = SigShare(key, MemberSeed(seeds[q[p]], q[p]), ts, i,
                                    Digits(price)[i], q, des(i), p)
        BY <2>7
      <4> HIDE DEF key, nn, des, shares, L, pk, r, keys
      <4>5. SigShare(key, MemberSeed(seeds[q[p]], q[p]), ts, i, Digits(price)[i], q, des(i), p)
              = Add(Signed(Odd(r), nonce),
                    KeyPart(key, LagrangeAtZero(q[p], q),
                            Challenge(EvenY(r), key.group, Digits(price)[i])))
        BY <3>1 DEF SigShare
      <4> QED BY <4>1, <4>2, <4>3, <4>4, <4>5 DEF KeyPart
    <3>6. i \in Nat /\ Digits(price)[i] \in Nat
      <4>1. Digits(price)[i] \in {0, 1}
        BY <2>2, DigitsType
      <4> QED BY <4>1, SignatureAssumption
    <3>7. nn(i) \in [1 .. Len(q) -> Field]
      BY <2>2, <3>6, NoncePartsType
    <3>8. shares(i) = PartsOf(nn(i), L, Odd(r), Odd(pk), e)
      <4>1. DOMAIN nn(i) = 1 .. Len(q)
        BY <3>7
      <4>2. shares(i) = [p \in 1 .. Len(q) |-> shares(i)[p]]
        BY <2>7
      <4> HIDE DEF nn, shares, L, pk, r, e
      <4> QED BY <3>5, <4>1, <4>2 DEF PartsOf
    <3>9. Total(nn(i)) # 0
      BY <3>3, <3>4, EvenYFacts, Basic
    <3> DEFINE v == nn(i)
               w == shares(i)
               digit == Digits(price)[i]
    <3>10. /\ v \in [1 .. Len(q) -> Field] /\ Total(v) # 0 /\ digit \in Nat
           /\ w = PartsOf(v, L, Odd(Total(v)), Odd(pk),
                          Challenge(EvenY(Total(v)), EvenY(pk), digit))
           /\ Total(w) # 0 /\ outcome.sigs[i].r = EvenY(Total(v))
           /\ outcome.sigs[i].s = Total(w)
      BY <3>3, <3>4, <3>6, <3>7, <3>8, <3>9
    <3> HIDE DEF v, w, digit
    <3>11. Verify(EvenY(pk), digit, outcome.sigs[i])
      BY <2>2, <3>10, QuorumSigns
    <3> QED BY <3>2, <3>3, <3>11 DEF digit
  <2> QED BY <2>4, <2>6, <2>8, <2>9, <2>10
<1> QED BY <1>1, RunInvariant, PTL

=============================================================================
