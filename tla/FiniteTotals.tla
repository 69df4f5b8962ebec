---------------------------- MODULE FiniteTotals ----------------------------
(***************************************************************************)
(* The total of an integer function over a finite set, as a relation: t is *)
(* the last of the running totals along some enumeration of the set.  The  *)
(* relation is what a proof can carry from one state to the next, and the  *)
(* sum that the library folds, in an order of its choosing, is shown to be *)
(* that total, so that what is proved holds of the sums of the TLC runs.   *)
(*                                                                         *)
(* Induction is stated for sets, of numbers and of subsets, rather than    *)
(* for predicates: such a lemma can be cited with a set as its argument.   *)
(***************************************************************************)
EXTENDS FiniteSetsExt, FiniteSetTheorems, TLAPS

-----------------------------------------------------------------------------
(* Induction along the naturals up to n, for a set of numbers.             *)
LEMMA IntervalInduction ==
  ASSUME NEW n \in Nat, NEW Good, 0 \in Good,
         \A i \in 1 .. n : i - 1 \in Good => i \in Good
  PROVE  \A i \in 0 .. n : i \in Good
<1> DEFINE Bad == {i \in 0 .. n : i \notin Good}
           R == OpToRel(<, Nat)
<1>1. SUFFICES ASSUME Bad # {} PROVE FALSE
  BY <1>1
<1>2. PICK i \in Bad : \A j \in Bad : ~ (<<j, i>> \in R)
  <2>1. Bad \subseteq Nat
    OBVIOUS
  <2>2. IsWellFoundedOn(R, Nat)
    BY NatLessThanWellFounded
  <2> HIDE DEF Bad, R
  <2> QED BY <1>1, <2>1, <2>2, WFMin
<1>3. i \in 1 .. n /\ i - 1 \in Bad
  <2> HIDE DEF R
  <2> QED BY <1>2
<1>4. <<i - 1, i>> \in R
  <2>1. <<i - 1, i>> \in {ss \in Nat \X Nat : ss[1] < ss[2]}
    BY <1>3
  <2> QED BY <2>1 DEF OpToRel
<1> HIDE DEF Bad, R
<1> QED BY <1>2, <1>3, <1>4

(* Induction over the subsets of a finite set, for a set of subsets. *)
LEMMA SubsetInduction ==
  ASSUME NEW S, IsFiniteSet(S), NEW Good, {} \in Good,
         \A s \in SUBSET S :
            s # {} /\ (\A x \in s : s \ {x} \in Good) => s \in Good
  PROVE  S \in Good
<1> DEFINE Bad == {s \in SUBSET S : s \notin Good}
           R == StrictSubsetOrdering(S)
<1>1. SUFFICES ASSUME Bad # {} PROVE FALSE
  BY <1>1
<1>2. PICK s \in Bad : \A r \in Bad : ~ (<<r, s>> \in R)
  <2>1. Bad \subseteq FiniteSubsetsOf(S)
    BY FS_Subset DEF FiniteSubsetsOf
  <2>2. IsWellFoundedOn(R, FiniteSubsetsOf(S))
    BY FS_StrictSubsetOrderingWellFounded
  <2> HIDE DEF Bad, R
  <2> QED BY <1>1, <2>1, <2>2, WFMin
<1>3. PICK x \in s : s \ {x} \in Bad
  <2> HIDE DEF R
  <2> QED BY <1>2
<1>4. <<s \ {x}, s>> \in R
  BY <1>2, <1>3 DEF StrictSubsetOrdering
<1> HIDE DEF Bad, R
<1> QED BY <1>2, <1>3, <1>4

-----------------------------------------------------------------------------
(* e lists S without repetition. *)
Enumerates(e, n, S) ==
    /\ e \in [1 .. n -> S]
    /\ \A i, j \in 1 .. n : e[i] = e[j] => i = j
    /\ \A s \in S : \E i \in 1 .. n : e[i] = s

(* p[i] is the total of f over the first i elements of e. *)
RunningTotals(p, e, n, f) ==
    /\ p \in [0 .. n -> Int]
    /\ p[0] = 0
    /\ \A i \in 1 .. n : p[i] = p[i - 1] + f[e[i]]

IsTotal(t, f, S) ==
    \E n \in Nat : \E e : \E p :
        Enumerates(e, n, S) /\ RunningTotals(p, e, n, f) /\ t = p[n]

-----------------------------------------------------------------------------
(* A function that is zero everywhere has total zero. *)
LEMMA ZeroHasTotalZero ==
  ASSUME NEW S, IsFiniteSet(S)
  PROVE  IsTotal(0, [s \in S |-> 0], S)
<1>1. PICK n \in Nat : ExistsBijection(1 .. n, S)
  BY FS_NatBijection
<1>2. PICK e : Enumerates(e, n, S)
  <2>1. PICK e \in Bijection(1 .. n, S) : TRUE
    BY <1>1 DEF ExistsBijection
  <2>2. Enumerates(e, n, S)
    BY <2>1 DEF Bijection, Injection, IsInjective, Surjection, Enumerates
  <2> QED BY <2>2
<1> DEFINE p == [i \in 0 .. n |-> 0]
<1>3. RunningTotals(p, e, n, [s \in S |-> 0])
  BY <1>2 DEF Enumerates, RunningTotals
<1> QED BY <1>2, <1>3 DEF IsTotal

(* Changing the function at one point moves the total by the difference. *)
LEMMA TotalMoves ==
  ASSUME NEW S, NEW f \in [S -> Int], NEW t \in Int, IsTotal(t, f, S),
         NEW c \in S, NEW x \in Int
  PROVE  IsTotal(t + (x - f[c]), [f EXCEPT ![c] = x], S)
<1>0. PICK n \in Nat : \E e : \E p :
        Enumerates(e, n, S) /\ RunningTotals(p, e, n, f) /\ t = p[n]
  BY DEF IsTotal
<1>1. PICK e, p :
        Enumerates(e, n, S) /\ RunningTotals(p, e, n, f) /\ t = p[n]
  BY <1>0
<1>2. PICK k \in 1 .. n : e[k] = c
  BY <1>1 DEF Enumerates
<1> DEFINE g == [f EXCEPT ![c] = x]
           q == [i \in 0 .. n |-> IF i < k THEN p[i] ELSE p[i] + (x - f[c])]
<1>3. q \in [0 .. n -> Int] /\ q[0] = 0
  BY <1>1 DEF RunningTotals
<1>4. ASSUME NEW i \in 1 .. n
      PROVE  q[i] = q[i - 1] + g[e[i]]
  <2>1. /\ i - 1 \in 0 .. n /\ i \in 0 .. n /\ e[i] \in S
        /\ p[i] = p[i - 1] + f[e[i]]
        /\ p[i] \in Int /\ p[i - 1] \in Int /\ f[c] \in Int
    <3>1. i - 1 \in 0 .. n /\ i \in 0 .. n
      OBVIOUS
    <3>2. e[i] \in S
      BY <1>1 DEF Enumerates
    <3>3. p \in [0 .. n -> Int] /\ p[i] = p[i - 1] + f[e[i]]
      BY <1>1 DEF RunningTotals
    <3>4. p[i] \in Int /\ p[i - 1] \in Int /\ f[c] \in Int
      BY <3>1, <3>3
    <3> QED BY <3>1, <3>2, <3>3, <3>4
  <2>2. CASE i = k
    <3>1. g[e[i]] = x /\ e[i] = c
      BY <1>2, <2>2
    <3>2. q[i] = p[i] + (x - f[c]) /\ q[i - 1] = p[i - 1]
      BY <2>1, <2>2
    <3>3. p[i] = p[i - 1] + f[c]
      BY <2>1, <3>1
    <3> HIDE DEF g, q
    <3> QED BY <2>1, <3>1, <3>2, <3>3
  <2>3. CASE i # k
    <3>1. e[i] # c
      BY <1>1, <1>2, <2>3 DEF Enumerates
    <3>2. g[e[i]] = f[e[i]]
      BY <3>1, <2>1
    <3> QED BY <2>1, <2>3, <3>2
  <2> QED BY <2>2, <2>3
<1>5. RunningTotals(q, e, n, g)
  BY <1>3, <1>4 DEF RunningTotals
<1>6. q[n] = t + (x - f[c])
  BY <1>1
<1> QED BY <1>1, <1>5, <1>6 DEF IsTotal

(* The total of a function that is zero everywhere is zero, along whatever *)
(* enumeration it was taken: no running total leaves zero.                 *)
LEMMA TotalOfZeros ==
  ASSUME NEW S, NEW f \in [S -> Int], NEW t, IsTotal(t, f, S),
         \A s \in S : f[s] = 0
  PROVE  t = 0
<1>0. PICK n \in Nat : \E e, p : Enumerates(e, n, S) /\ RunningTotals(p, e, n, f) /\ t = p[n]
  BY DEF IsTotal
<1>1. PICK e, p : Enumerates(e, n, S) /\ RunningTotals(p, e, n, f) /\ t = p[n]
  BY <1>0
<1> DEFINE Good == {i \in 0 .. n : p[i] = 0}
<1>2. 0 \in Good /\ \A i \in 1 .. n : i - 1 \in Good => i \in Good
  BY <1>1 DEF RunningTotals, Enumerates
<1>3. n \in Good
  <2> HIDE DEF Good
  <2> QED BY <1>2, IntervalInduction
<1> QED BY <1>1, <1>3

(* The total of a function that is nowhere negative is not negative.       *)
LEMMA TotalNotNegative ==
  ASSUME NEW S, NEW f \in [S -> Nat], NEW t, IsTotal(t, f, S)
  PROVE  t >= 0
<1>0. PICK n \in Nat : \E e, p : Enumerates(e, n, S) /\ RunningTotals(p, e, n, f) /\ t = p[n]
  BY DEF IsTotal
<1>1. PICK e, p : Enumerates(e, n, S) /\ RunningTotals(p, e, n, f) /\ t = p[n]
  BY <1>0
<1> DEFINE Good == {i \in 0 .. n : p[i] >= 0}
<1>2. 0 \in Good
  BY <1>1 DEF RunningTotals
<1>3. ASSUME NEW i \in 1 .. n, i - 1 \in Good
      PROVE  i \in Good
  <2>1. /\ p[i] = p[i - 1] + f[e[i]] /\ f[e[i]] \in Nat
        /\ p[i] \in Int /\ p[i - 1] \in Int
    BY <1>1 DEF RunningTotals, Enumerates
  <2> QED BY <1>3, <2>1
<1>4. n \in Good
  <2> HIDE DEF Good
  <2> QED BY <1>2, <1>3, IntervalInduction
<1> QED BY <1>1, <1>4

(* No part of such a total exceeds it. *)
LEMMA TotalCoversEach ==
  ASSUME NEW S, NEW f \in [S -> Nat], NEW t \in Int, IsTotal(t, f, S),
         NEW c \in S
  PROVE  f[c] <= t
<1> DEFINE g == [f EXCEPT ![c] = 0]
<1>1. IsTotal(t + (0 - f[c]), g, S)
  <2>1. f \in [S -> Int] /\ 0 \in Int
    OBVIOUS
  <2> QED BY <2>1, TotalMoves
<1>2. g \in [S -> Nat]
  OBVIOUS
<1> HIDE DEF g
<1>3. t + (0 - f[c]) >= 0
  BY <1>1, <1>2, TotalNotNegative
<1> QED BY <1>3

-----------------------------------------------------------------------------
(* One more element adds its value. *)
LEMMA TotalGrows ==
  ASSUME NEW S, NEW f, NEW t \in Int, IsTotal(t, f, S), NEW x, x \notin S, f[x] \in Int
  PROVE  IsTotal(t + f[x], f, S \cup {x})
<1>0. PICK n \in Nat : \E e, p : Enumerates(e, n, S) /\ RunningTotals(p, e, n, f) /\ t = p[n]
  BY DEF IsTotal
<1>1. PICK e, p : Enumerates(e, n, S) /\ RunningTotals(p, e, n, f) /\ t = p[n]
  BY <1>0
<1> DEFINE d == [i \in 1 .. n + 1 |-> IF i = n + 1 THEN x ELSE e[i]]
           q == [i \in 0 .. n + 1 |-> IF i = n + 1 THEN t + f[x] ELSE p[i]]
<1>2. Enumerates(d, n + 1, S \cup {x})
  <2>1. d \in [1 .. n + 1 -> S \cup {x}]
    BY <1>1 DEF Enumerates
  <2>2. \A i, j \in 1 .. n + 1 : d[i] = d[j] => i = j
    BY <1>1 DEF Enumerates
  <2>3. \A s \in S \cup {x} : \E i \in 1 .. n + 1 : d[i] = s
    <3>1. d[n + 1] = x /\ n + 1 \in 1 .. n + 1
      OBVIOUS
    <3>2. \A i \in 1 .. n : d[i] = e[i] /\ i \in 1 .. n + 1
      OBVIOUS
    <3> QED BY <1>1, <3>1, <3>2 DEF Enumerates
  <2> QED BY <2>1, <2>2, <2>3 DEF Enumerates
<1>3. RunningTotals(q, d, n + 1, f)
  <2>1. q \in [0 .. n + 1 -> Int] /\ q[0] = 0
    BY <1>1 DEF RunningTotals
  <2>2. ASSUME NEW i \in 1 .. n + 1
        PROVE  q[i] = q[i - 1] + f[d[i]]
    BY <1>1 DEF RunningTotals
  <2> QED BY <2>1, <2>2 DEF RunningTotals
<1>4. q[n + 1] = t + f[x]
  OBVIOUS
<1> QED BY <1>2, <1>3, <1>4 DEF IsTotal

(* Nothing has total zero. *)
LEMMA EmptyTotal == ASSUME NEW f PROVE IsTotal(0, f, {})
<1> DEFINE e == [i \in 1 .. 0 |-> 0]
           p == [i \in 0 .. 0 |-> 0]
<1>1. Enumerates(e, 0, {}) /\ RunningTotals(p, e, 0, f) /\ p[0] = 0
  BY DEF Enumerates, RunningTotals
<1> HIDE DEF e, p
<1> QED BY <1>1 DEF IsTotal

(* Every finite set of integers has a total. *)
LEMMA TotalExists ==
  ASSUME NEW S, IsFiniteSet(S), NEW f, \A s \in S : f[s] \in Int
  PROVE  \E t \in Int : IsTotal(t, f, S)
<1> DEFINE Good == {s \in SUBSET S : \E t \in Int : IsTotal(t, f, s)}
<1>1. {} \in Good
  BY EmptyTotal
<1>2. ASSUME NEW s \in SUBSET S, s # {}, \A x \in s : s \ {x} \in Good
      PROVE  s \in Good
  <2>1. PICK x \in s : TRUE
    BY <1>2
  <2> DEFINE r == s \ {x}
  <2>2. PICK t \in Int : IsTotal(t, f, r)
    BY <1>2, <2>1
  <2>3. x \notin r /\ f[x] \in Int /\ r \cup {x} = s
    BY <2>1
  <2> HIDE DEF Good, r
  <2>4. IsTotal(t + f[x], f, r \cup {x})
    BY <2>2, <2>3, TotalGrows
  <2>5. t + f[x] \in Int
    BY <2>3
  <2> QED BY <2>3, <2>4, <2>5 DEF Good
<1>3. S \in Good
  <2> HIDE DEF Good
  <2> QED BY <1>1, <1>2, SubsetInduction
<1> QED BY <1>3

(* A set has one total, whatever the order of its elements: taking the     *)
(* elements off one by one in any other order leaves nothing.              *)
LEMMA TotalUnique ==
  ASSUME NEW S, NEW f, \A s \in S : f[s] \in Int,
         NEW t \in Int, IsTotal(t, f, S), NEW u \in Int, IsTotal(u, f, S)
  PROVE  t = u
<1>0. PICK n \in Nat : \E e, p : Enumerates(e, n, S) /\ RunningTotals(p, e, n, f) /\ u = p[n]
  BY DEF IsTotal
<1>1. PICK e, p : Enumerates(e, n, S) /\ RunningTotals(p, e, n, f) /\ u = p[n]
  BY <1>0
<1> DEFINE Left(i) == [c \in S |-> IF \E j \in 1 .. i : e[j] = c THEN 0 ELSE f[c]]
           Good == {i \in 0 .. n : IsTotal(t - p[i], Left(i), S)}
<1>2. 0 \in Good
  <2>1. IsTotal(t, Left(0), S)
    <3>1. PICK m, d, q :
            m \in Nat /\ Enumerates(d, m, S) /\ RunningTotals(q, d, m, f) /\ t = q[m]
      BY DEF IsTotal
    <3>2. RunningTotals(q, d, m, Left(0))
      BY <3>1 DEF RunningTotals, Enumerates
    <3> HIDE DEF Left
    <3> QED BY <3>1, <3>2 DEF IsTotal
  <2>2. p[0] = 0 /\ t - 0 = t
    BY <1>1 DEF RunningTotals
  <2> HIDE DEF Left
  <2> QED BY <2>1, <2>2
<1>3. ASSUME NEW i \in 1 .. n, i - 1 \in Good
      PROVE  i \in Good
  <2> DEFINE g == Left(i - 1)
  <2>1. /\ e[i] \in S /\ f[e[i]] \in Int
        /\ p[i] = p[i - 1] + f[e[i]] /\ p[i] \in Int /\ p[i - 1] \in Int
    BY <1>1 DEF Enumerates, RunningTotals
  <2>2. g \in [S -> Int] /\ 0 \in Int
    OBVIOUS
  <2>3. g[e[i]] = f[e[i]]
    BY <1>1, <2>1 DEF Enumerates
  <2>4. Left(i) = [g EXCEPT ![e[i]] = 0]
    <3>1. \A c \in S : (\E j \in 1 .. i : e[j] = c)
                          <=> (c = e[i] \/ \E j \in 1 .. i - 1 : e[j] = c)
      OBVIOUS
    <3> QED BY <2>1, <3>1
  <2>5. IsTotal(t - p[i - 1], g, S) /\ t - p[i - 1] \in Int
    BY <1>3, <2>1
  <2> HIDE DEF g
  <2>6. IsTotal((t - p[i - 1]) + (0 - g[e[i]]), [g EXCEPT ![e[i]] = 0], S)
    BY <2>1, <2>2, <2>5, TotalMoves
  <2>7. (t - p[i - 1]) + (0 - g[e[i]]) = t - p[i]
    BY <2>1, <2>3
  <2>8. IsTotal(t - p[i], Left(i), S)
    BY <2>4, <2>6, <2>7
  <2> HIDE DEF Left
  <2> QED BY <2>8
<1>4. n \in Good
  <2> HIDE DEF Good
  <2> QED BY <1>2, <1>3, IntervalInduction
<1>5. Left(n) \in [S -> Int] /\ \A c \in S : Left(n)[c] = 0
  BY <1>1 DEF Enumerates
<1>6. t - p[n] = 0
  <2>1. IsTotal(t - p[n], Left(n), S)
    BY <1>4
  <2> HIDE DEF Left
  <2> QED BY <1>5, <2>1, TotalOfZeros
<1> QED BY <1>1, <1>6

-----------------------------------------------------------------------------
(* The sum the library folds in an order of its choosing is the total.     *)
First(s) == CHOOSE x \in s : TRUE
IsFoldOf(h, f, S) ==
    h = [s \in SUBSET S |-> IF s = {} THEN 0 ELSE f[First(s)] + h[s \ {First(s)}]]

(* The equation the library's fold is chosen by has a solution. *)
LEMMA FoldExists ==
  ASSUME NEW S, IsFiniteSet(S), NEW f, \A s \in S : f[s] \in Int
  PROVE  \E h : IsFoldOf(h, f, S)
<1> DEFINE h == [s \in SUBSET S |-> CHOOSE t \in Int : IsTotal(t, f, s)]
<1>1. ASSUME NEW s \in SUBSET S
      PROVE  h[s] \in Int /\ IsTotal(h[s], f, s)
  BY FS_Subset, TotalExists
<1>2. h[{}] = 0
  BY <1>1, EmptyTotal, TotalUnique
<1>3. ASSUME NEW s \in SUBSET S, s # {}
      PROVE  h[s] = f[First(s)] + h[s \ {First(s)}]
  <2> DEFINE x == First(s)
             r == s \ {x}
  <2>1. x \in s /\ f[x] \in Int
    BY <1>3 DEF First
  <2> HIDE DEF x
  <2>2. r \in SUBSET S /\ x \notin r /\ r \cup {x} = s
    BY <2>1
  <2>3. h[r] \in Int /\ IsTotal(h[r], f, r)
    BY <1>1, <2>2
  <2> HIDE DEF h, r
  <2>4. IsTotal(h[r] + f[x], f, s)
    BY <2>1, <2>2, <2>3, TotalGrows
  <2>5. h[r] + f[x] \in Int /\ h[s] \in Int /\ IsTotal(h[s], f, s)
    BY <1>1, <2>1, <2>3
  <2>6. h[r] + f[x] = h[s]
    BY <2>4, <2>5, TotalUnique
  <2> QED BY <2>1, <2>3, <2>6 DEF x, r
<1>4. h = [s \in SUBSET S |-> IF s = {} THEN 0 ELSE f[First(s)] + h[s \ {First(s)}]]
  <2>1. \A s \in SUBSET S :
          h[s] = IF s = {} THEN 0 ELSE f[First(s)] + h[s \ {First(s)}]
    <3> HIDE DEF h
    <3> QED BY <1>2, <1>3
  <2>2. h = [s \in SUBSET S |-> h[s]]
    OBVIOUS
  <2> HIDE DEF h
  <2> QED BY <2>1, <2>2
<1> HIDE DEF h
<1> QED BY <1>4 DEF IsFoldOf

(* The sum is that fold. *)
LEMMA SumIsFold ==
  ASSUME NEW S, IsFiniteSet(S), NEW f, \A s \in S : f[s] \in Int
  PROVE  \E h : IsFoldOf(h, f, S) /\ SumFunctionOnSet(f, S) = h[S]
<1> DEFINE Fold(h) ==
      h = [s \in SUBSET S |-> IF s = {} THEN 0
                              ELSE LET x == CHOOSE x \in s : TRUE
                                   IN  f[x] + h[s \ {x}]]
<1>1. \A h : IsFoldOf(h, f, S) <=> Fold(h)
  BY DEF IsFoldOf, First
<1>2. SumFunctionOnSet(f, S) = (CHOOSE h : Fold(h))[S]
  BY DEF SumFunctionOnSet, FoldFunctionOnSet, MapThenFoldSet
<1>3. Fold(CHOOSE h : Fold(h))
  <2>1. PICK h : IsFoldOf(h, f, S)
    BY FoldExists
  <2> HIDE DEF Fold
  <2>2. Fold(h)
    BY <1>1, <2>1
  <2> QED BY <2>2
<1> HIDE DEF Fold
<1> QED BY <1>1, <1>2, <1>3

(* And it is the total. *)
LEMMA SumIsTotal ==
  ASSUME NEW S, IsFiniteSet(S), NEW f, \A s \in S : f[s] \in Int
  PROVE  SumFunctionOnSet(f, S) \in Int /\ IsTotal(SumFunctionOnSet(f, S), f, S)
<1>1. PICK h : IsFoldOf(h, f, S) /\ SumFunctionOnSet(f, S) = h[S]
  BY SumIsFold
<1> DEFINE Good == {s \in SUBSET S : h[s] \in Int /\ IsTotal(h[s], f, s)}
<1>2. h[{}] = 0
  BY <1>1 DEF IsFoldOf
<1>3. {} \in Good
  BY <1>2, EmptyTotal
<1>4. ASSUME NEW s \in SUBSET S, s # {}, \A x \in s : s \ {x} \in Good
      PROVE  s \in Good
  <2> DEFINE x == First(s)
             r == s \ {x}
  <2>1. h[s] = f[x] + h[r]
    BY <1>1, <1>4 DEF IsFoldOf
  <2>2. x \in s /\ f[x] \in Int
    BY <1>4 DEF First
  <2> HIDE DEF x
  <2>3. r \cup {x} = s /\ x \notin r
    BY <2>2
  <2>4. h[r] \in Int /\ IsTotal(h[r], f, r)
    BY <1>4, <2>2
  <2> HIDE DEF Good, r
  <2>5. IsTotal(h[r] + f[x], f, s)
    BY <2>2, <2>3, <2>4, TotalGrows
  <2>6. h[r] + f[x] = h[s] /\ h[s] \in Int
    BY <2>1, <2>2, <2>4
  <2>7. IsTotal(h[s], f, s)
    BY <2>5, <2>6
  <2> QED BY <2>6, <2>7 DEF Good
<1>5. S \in Good
  <2> HIDE DEF Good
  <2> QED BY <1>3, <1>4, SubsetInduction
<1> QED BY <1>1, <1>5

(* How sums change with the set and the function. *)
LEMMA SumOfNothing == ASSUME NEW f PROVE SumFunctionOnSet(f, {}) = 0
<1>1. IsFiniteSet({}) /\ \A s \in {} : f[s] \in Int
  BY FS_EmptySet
<1>2. SumFunctionOnSet(f, {}) \in Int /\ IsTotal(SumFunctionOnSet(f, {}), f, {})
  BY <1>1, SumIsTotal
<1> QED BY <1>1, <1>2, EmptyTotal, TotalUnique

LEMMA SumGrows ==
  ASSUME NEW S, IsFiniteSet(S), NEW f, \A s \in S : f[s] \in Int,
         NEW x, x \notin S, f[x] \in Int
  PROVE  SumFunctionOnSet(f, S \cup {x}) = SumFunctionOnSet(f, S) + f[x]
<1> DEFINE t == SumFunctionOnSet(f, S)
           R == S \cup {x}
<1>1. t \in Int /\ IsTotal(t, f, S)
  BY SumIsTotal
<1>2. IsFiniteSet(R) /\ \A s \in R : f[s] \in Int
  BY FS_AddElement
<1> HIDE DEF t
<1>3. IsTotal(t + f[x], f, R)
  BY <1>1, TotalGrows
<1> HIDE DEF R
<1>4. SumFunctionOnSet(f, R) \in Int /\ IsTotal(SumFunctionOnSet(f, R), f, R)
  BY <1>2, SumIsTotal
<1>5. t + f[x] \in Int
  BY <1>1
<1>6. SumFunctionOnSet(f, R) = t + f[x]
  BY <1>2, <1>3, <1>4, <1>5, TotalUnique
<1> QED BY <1>6 DEF R, t

LEMMA SumMoves ==
  ASSUME NEW S, IsFiniteSet(S), NEW f \in [S -> Int], NEW c \in S, NEW x \in Int
  PROVE  SumFunctionOnSet([f EXCEPT ![c] = x], S) = SumFunctionOnSet(f, S) + (x - f[c])
<1> DEFINE t == SumFunctionOnSet(f, S)
           g == [f EXCEPT ![c] = x]
<1>1. t \in Int /\ IsTotal(t, f, S)
  BY SumIsTotal
<1>2. g \in [S -> Int]
  OBVIOUS
<1> HIDE DEF t
<1>3. IsTotal(t + (x - f[c]), g, S)
  BY <1>1, TotalMoves
<1> HIDE DEF g
<1>4. SumFunctionOnSet(g, S) \in Int /\ IsTotal(SumFunctionOnSet(g, S), g, S)
  BY <1>2, SumIsTotal
<1>5. t + (x - f[c]) \in Int
  BY <1>1
<1>6. SumFunctionOnSet(g, S) = t + (x - f[c])
  BY <1>2, <1>3, <1>4, <1>5, TotalUnique
<1> QED BY <1>6 DEF g, t

LEMMA SumAgrees ==
  ASSUME NEW S, IsFiniteSet(S), NEW f, \A s \in S : f[s] \in Int,
         NEW g, \A s \in S : g[s] = f[s]
  PROVE  SumFunctionOnSet(g, S) = SumFunctionOnSet(f, S)
<1>1. SumFunctionOnSet(g, S) \in Int /\ IsTotal(SumFunctionOnSet(g, S), g, S)
  BY SumIsTotal
<1>2. IsTotal(SumFunctionOnSet(g, S), f, S)
  <2>1. PICK n, e, p :
          /\ n \in Nat /\ Enumerates(e, n, S) /\ RunningTotals(p, e, n, g)
          /\ SumFunctionOnSet(g, S) = p[n]
    BY <1>1 DEF IsTotal
  <2>2. RunningTotals(p, e, n, f)
    BY <2>1 DEF RunningTotals, Enumerates
  <2> QED BY <2>1, <2>2 DEF IsTotal
<1>3. SumFunctionOnSet(f, S) \in Int /\ IsTotal(SumFunctionOnSet(f, S), f, S)
  BY SumIsTotal
<1> QED BY <1>1, <1>2, <1>3, TotalUnique

(* Two disjoint sets.                                                      *)
LEMMA SumOfUnion ==
  ASSUME NEW S, IsFiniteSet(S), NEW f, \A s \in S : f[s] \in Int,
         NEW R, IsFiniteSet(R), \A s \in R : f[s] \in Int, S \cap R = {}
  PROVE  SumFunctionOnSet(f, S \cup R) = SumFunctionOnSet(f, S) + SumFunctionOnSet(f, R)
<1> DEFINE Adds(A) == /\ IsFiniteSet(S \cup A) /\ IsFiniteSet(A)
                      /\ SumFunctionOnSet(f, S \cup A)
                           = SumFunctionOnSet(f, S) + SumFunctionOnSet(f, A)
           Good == {A \in SUBSET R : Adds(A)}
<1>1. SumFunctionOnSet(f, S) \in Int
  BY SumIsTotal
<1>2. Adds({})
  <2>1. S \cup {} = S /\ IsFiniteSet({})
    BY FS_EmptySet
  <2> QED BY <1>1, <2>1, SumOfNothing
<1>3. ASSUME NEW A \in SUBSET R, A # {}, \A x \in A : A \ {x} \in Good
      PROVE  Adds(A)
  <2>1. PICK x \in A : TRUE
    BY <1>3
  <2> DEFINE Q == A \ {x}
             U == S \cup Q
  <2>2. Adds(Q)
    BY <1>3, <2>1
  <2>3. /\ x \notin Q /\ Q \cup {x} = A /\ x \notin U /\ U \cup {x} = S \cup A
        /\ f[x] \in Int /\ (\A s \in Q : f[s] \in Int) /\ (\A s \in U : f[s] \in Int)
    BY <2>1
  <2>4. IsFiniteSet(Q) /\ IsFiniteSet(U)
    BY <2>2
  <2>5. SumFunctionOnSet(f, U) = SumFunctionOnSet(f, S) + SumFunctionOnSet(f, Q)
    BY <2>2
  <2> HIDE DEF Q, U
  <2>6. SumFunctionOnSet(f, Q \cup {x}) = SumFunctionOnSet(f, Q) + f[x]
    BY <2>3, <2>4, SumGrows
  <2>7. SumFunctionOnSet(f, U \cup {x}) = SumFunctionOnSet(f, U) + f[x]
    BY <2>3, <2>4, SumGrows
  <2>8. SumFunctionOnSet(f, Q) \in Int
    BY <2>3, <2>4, SumIsTotal
  <2>9. SumFunctionOnSet(f, S \cup A) = SumFunctionOnSet(f, S) + SumFunctionOnSet(f, A)
    <3>1. SumFunctionOnSet(f, S \cup A) = SumFunctionOnSet(f, U) + f[x]
      BY <2>3, <2>7
    <3>2. SumFunctionOnSet(f, A) = SumFunctionOnSet(f, Q) + f[x]
      BY <2>3, <2>6
    <3> QED BY <1>1, <2>3, <2>5, <2>8, <3>1, <3>2
  <2>10. IsFiniteSet(S \cup A) /\ IsFiniteSet(A)
    BY <2>3, <2>4, FS_AddElement
  <2> QED BY <2>9, <2>10
<1>4. R \in Good
  <2>1. {} \in Good
    BY <1>2
  <2>2. \A A \in SUBSET R : A # {} /\ (\A x \in A : A \ {x} \in Good) => A \in Good
    <3> HIDE DEF Adds
    <3> QED BY <1>3
  <2> HIDE DEF Good
  <2> QED BY <2>1, <2>2, SubsetInduction
<1> QED BY <1>4

(* A set joined by the images of another under a renaming.                 *)
LEMMA SumJoins ==
  ASSUME NEW S, IsFiniteSet(S), NEW f, \A s \in S : f[s] \in Int,
         NEW B, IsFiniteSet(B), NEW g, NEW r,
         \A b \in B : g[b] \in Int /\ g[b] = f[r[b]] /\ r[b] \notin S,
         \A b, c \in B : r[b] = r[c] => b = c
  PROVE  SumFunctionOnSet(f, S \cup {r[b] : b \in B})
           = SumFunctionOnSet(f, S) + SumFunctionOnSet(g, B)
<1> DEFINE Joined(A) == S \cup {r[b] : b \in A}
           Good == {A \in SUBSET B :
                      /\ IsFiniteSet(Joined(A))
                      /\ SumFunctionOnSet(f, Joined(A))
                           = SumFunctionOnSet(f, S) + SumFunctionOnSet(g, A)}
<1>0. SumFunctionOnSet(f, S) \in Int
  BY SumIsTotal
<1>1. {} \in Good
  <2>1. Joined({}) = S
    OBVIOUS
  <2> QED BY <1>0, <2>1, SumOfNothing
<1>2. ASSUME NEW A \in SUBSET B, A # {}, \A x \in A : A \ {x} \in Good
      PROVE  A \in Good
  <2>1. PICK x \in A : TRUE
    BY <1>2
  <2> DEFINE C == A \ {x}
             T == Joined(C)
  <2>2. /\ IsFiniteSet(T)
        /\ SumFunctionOnSet(f, T) = SumFunctionOnSet(f, S) + SumFunctionOnSet(g, C)
    BY <1>2, <2>1
  <2>3. /\ C \cup {x} = A /\ x \notin C
        /\ Joined(A) = T \cup {r[x]} /\ r[x] \notin T
        /\ \A s \in T : f[s] \in Int
        /\ g[x] \in Int /\ f[r[x]] = g[x]
    BY <2>1
  <2>4. IsFiniteSet(C) /\ \A s \in C : g[s] \in Int
    BY FS_Subset
  <2> HIDE DEF C, T, Joined
  <2>5. SumFunctionOnSet(f, T \cup {r[x]}) = SumFunctionOnSet(f, T) + f[r[x]]
    BY <2>2, <2>3, SumGrows
  <2>6. SumFunctionOnSet(g, C \cup {x}) = SumFunctionOnSet(g, C) + g[x]
    BY <2>3, <2>4, SumGrows
  <2>7. SumFunctionOnSet(g, C) \in Int
    BY <2>4, SumIsTotal
  <2> HIDE DEF Good
  <2>8. SumFunctionOnSet(f, Joined(A)) = SumFunctionOnSet(f, S) + SumFunctionOnSet(g, A)
    <3>1. /\ SumFunctionOnSet(f, Joined(A)) = SumFunctionOnSet(f, T) + g[x]
          /\ SumFunctionOnSet(g, A) = SumFunctionOnSet(g, C) + g[x]
          /\ g[x] \in Int
      BY <2>3, <2>5, <2>6, Zenon
    <3> QED BY <1>0, <2>2, <2>7, <3>1
  <2>9. IsFiniteSet(Joined(A))
    BY <2>2, <2>3, FS_AddElement
  <2> QED BY <2>8, <2>9 DEF Good
<1>3. B \in Good
  <2> HIDE DEF Good
  <2> QED BY <1>1, <1>2, SubsetInduction
<1> QED BY <1>3
-----------------------------------------------------------------------------
(* What the library folds is chosen by an equation.  Whatever is folded,   *)
(* by a function g of an element and the fold of the others, and in        *)
(* whatever order, by a function that picks the next, it has a solution.   *)
Picks(pick, S) == \A s \in SUBSET S : s # {} => pick[s] \in s
StaysIn(V, g, S) == \A x \in S, v \in V : g[<<x, v>>] \in V
SolvesFold(h, S, V, base, pick, g) ==
    /\ h \in [SUBSET S -> V]
    /\ h[{}] = base
    /\ \A s \in SUBSET S : s # {} => h[s] = g[<<pick[s], h[s \ {pick[s]}]>>]

LEMMA FoldSolution ==
  ASSUME NEW S, IsFiniteSet(S), NEW V, NEW base \in V,
         NEW pick, Picks(pick, S), NEW g, StaysIn(V, g, S)
  PROVE  \E h : SolvesFold(h, S, V, base, pick, g)
<1> USE DEF Picks, StaysIn
<1> DEFINE n == Cardinality(S)
           Small(k) == {s \in SUBSET S : Cardinality(s) <= k}
           Solves(h, k) ==
             /\ h[{}] = base
             /\ \A s \in Small(k) : s # {} => h[s] = g[<<pick[s], h[s \ {pick[s]}]>>]
           Good == {k \in 0 .. n : \E h \in [SUBSET S -> V] : Solves(h, k)}
<1>1. n \in Nat /\ \A s \in SUBSET S : IsFiniteSet(s) /\ Cardinality(s) \in 0 .. n
  BY FS_Subset, FS_CardinalityType
<1>2. 0 \in Good
  <2> DEFINE h == [s \in SUBSET S |-> base]
  <2>1. \A s \in Small(0) : s = {}
    BY <1>1, FS_EmptySet
  <2>2. h \in [SUBSET S -> V] /\ h[{}] = base
    OBVIOUS
  <2> HIDE DEF h, Small, n
  <2>3. Solves(h, 0)
    BY <2>1, <2>2
  <2> QED BY <1>1, <2>2, <2>3
<1>3. ASSUME NEW k \in 1 .. n, k - 1 \in Good
      PROVE  k \in Good
  <2>1. PICK h \in [SUBSET S -> V] : Solves(h, k - 1)
    BY <1>3
  <2> DEFINE more == [s \in SUBSET S |-> IF s \in Small(k - 1) THEN h[s]
                                        ELSE g[<<pick[s], h[s \ {pick[s]}]>>]]
  <2>2. ASSUME NEW s \in Small(k), s # {}
        PROVE  pick[s] \in S /\ s \ {pick[s]} \in Small(k - 1)
    <3>1. s \in SUBSET S /\ pick[s] \in s /\ IsFiniteSet(s)
      BY <1>1, <2>2
    <3>2. Cardinality(s \ {pick[s]}) = Cardinality(s) - 1
      <4>1. PICK x \in s : x = pick[s]
        BY <3>1
      <4>2. Cardinality(s \ {x}) = Cardinality(s) - 1
        BY <3>1, FS_RemoveElement
      <4> QED BY <4>1, <4>2
    <3>3. Cardinality(s) \in Nat /\ Cardinality(s) <= k
      BY <1>1, <2>2
    <3>4. s \ {pick[s]} \in SUBSET S /\ Cardinality(s \ {pick[s]}) <= k - 1
      BY <3>1, <3>2, <3>3
    <3> QED BY <3>1, <3>4
  <2>3. {} \in Small(k - 1)
    BY FS_EmptySet, <1>1
  <2>4. more \in [SUBSET S -> V]
    <3>1. ASSUME NEW s \in SUBSET S PROVE more[s] \in V
      <4>1. CASE s \in Small(k - 1)
        BY <4>1
      <4>2. CASE s \notin Small(k - 1)
        <5>1. s # {} /\ pick[s] \in S /\ h[s \ {pick[s]}] \in V
          BY <4>2, <2>3
        <5> HIDE DEF Small
        <5> QED BY <4>2, <5>1
      <4> QED BY <4>1, <4>2
    <3>2. more = [s \in SUBSET S |-> more[s]]
      OBVIOUS
    <3> HIDE DEF more
    <3> QED BY <3>1, <3>2
  <2>5. \A s \in Small(k - 1) : more[s] = h[s]
    OBVIOUS
  <2>6. ASSUME NEW s \in Small(k), s # {}
        PROVE  more[s] = g[<<pick[s], more[s \ {pick[s]}]>>]
    <3>1. more[s \ {pick[s]}] = h[s \ {pick[s]}]
      <4> HIDE DEF more, Small
      <4> QED BY <2>2, <2>5, <2>6
    <3>2. more[s] = g[<<pick[s], h[s \ {pick[s]}]>>]
      <4>1. CASE s \in Small(k - 1)
        <5>1. more[s] = h[s]
          BY <4>1, <2>5
        <5> HIDE DEF more, Small
        <5> QED BY <4>1, <5>1, <2>1, <2>6
      <4>2. CASE s \notin Small(k - 1)
        BY <4>2
      <4> QED BY <4>1, <4>2
    <3> HIDE DEF more
    <3> QED BY <3>1, <3>2
  <2>7. Solves(more, k)
    <3> HIDE DEF more, Small
    <3> QED BY <2>1, <2>3, <2>5, <2>6
  <2> HIDE DEF more, Solves, n
  <2> QED BY <2>4, <2>7
<1>4. n \in Good
  <2> HIDE DEF Good, n
  <2>1. \A k \in 0 .. n : k \in Good
    BY <1>1, <1>2, <1>3, IntervalInduction
  <2> QED BY <1>1, <2>1
<1>5. PICK h \in [SUBSET S -> V] : Solves(h, n)
  BY <1>4
<1>6. \A s \in SUBSET S : s \in Small(n)
  BY <1>1
<1> HIDE DEF Small, n
<1> QED BY <1>5, <1>6 DEF SolvesFold

(* When the elements commute the order does not matter.                    *)
AnyOrder(h, S, V, base, g) ==
    /\ h \in [SUBSET S -> V]
    /\ h[{}] = base
    /\ \A s \in SUBSET S : \A x \in s : h[s] = g[<<x, h[s \ {x}]>>]

Commutes(V, g, S) ==
    \A x, y \in S : \A v \in V : g[<<x, g[<<y, v>>]>>] = g[<<y, g[<<x, v>>]>>]

LEMMA FoldInAnyOrder ==
  ASSUME NEW S, IsFiniteSet(S), NEW V, NEW base \in V,
         NEW g, StaysIn(V, g, S), Commutes(V, g, S)
  PROVE  \E h : AnyOrder(h, S, V, base, g)
<1> DEFINE pick == [s \in SUBSET S |-> CHOOSE x \in s : TRUE]
<1>1. Picks(pick, S)
  BY DEF Picks
<1> HIDE DEF pick
<1>2. PICK h : SolvesFold(h, S, V, base, pick, g)
  BY <1>1, FoldSolution
<1>3. /\ h \in [SUBSET S -> V] /\ h[{}] = base
      /\ \A s \in SUBSET S : s # {} => /\ pick[s] \in s
                                       /\ h[s] = g[<<pick[s], h[s \ {pick[s]}]>>]
  BY <1>1, <1>2 DEF SolvesFold, Picks
<1> DEFINE Good == {s \in SUBSET S : \A x \in s : h[s] = g[<<x, h[s \ {x}]>>]}
<1>4. {} \in Good
  OBVIOUS
<1>5. ASSUME NEW s \in SUBSET S, s # {}, \A x \in s : s \ {x} \in Good
      PROVE  s \in Good
  <2>1. ASSUME NEW x \in s PROVE h[s] = g[<<x, h[s \ {x}]>>]
    <3> DEFINE y == pick[s]
               r == (s \ {y}) \ {x}
    <3>1. y \in s /\ h[s] = g[<<y, h[s \ {y}]>>]
      BY <1>3, <1>5
    <3> HIDE DEF y
    <3>2. CASE x = y
      BY <3>1, <3>2
    <3>3. CASE x # y
      <4>1. x \in s \ {y} /\ y \in s \ {x} /\ r = (s \ {x}) \ {y}
        BY <3>1, <3>3
      <4>2. h[s \ {y}] = g[<<x, h[r]>>]
        BY <1>5, <3>1, <4>1
      <4>3. h[s \ {x}] = g[<<y, h[r]>>]
        BY <1>5, <4>1
      <4>4. x \in S /\ y \in S /\ h[r] \in V
        BY <1>3, <3>1
      <4> HIDE DEF r
      <4>5. g[<<y, g[<<x, h[r]>>]>>] = g[<<x, g[<<y, h[r]>>]>>]
        BY <4>4 DEF Commutes
      <4> QED BY <3>1, <4>2, <4>3, <4>5
    <3> QED BY <3>2, <3>3
  <2> QED BY <2>1
<1>6. \A s \in SUBSET S : s \in Good
  <2> SUFFICES ASSUME NEW s \in SUBSET S PROVE s \in Good
    OBVIOUS
  <2> HIDE DEF Good
  <2>1. IsFiniteSet(s)
    BY FS_Subset
  <2>2. \A r \in SUBSET s : r # {} /\ (\A x \in r : r \ {x} \in Good) => r \in Good
    BY <1>5
  <2> QED BY <1>4, <2>1, <2>2, SubsetInduction
<1> HIDE DEF Good
<1>7. \A s \in SUBSET S : \A x \in s : h[s] = g[<<x, h[s \ {x}]>>]
  BY <1>6 DEF Good
<1> QED
  <2>1. h \in [SUBSET S -> V] /\ h[{}] = base
    BY <1>3
  <2> QED BY <1>7, <2>1 DEF AnyOrder

-----------------------------------------------------------------------------
(* The sum of an integer function over a part of its finite domain.        *)
Sums(h, f) ==
    /\ h \in [SUBSET DOMAIN f -> Int]
    /\ h[{}] = 0
    /\ \A s \in SUBSET DOMAIN f : \A x \in s : h[s] = f[x] + h[s \ {x}]

Sigma(f, s) == (CHOOSE h : Sums(h, f))[s]

LEMMA SigmaFacts ==
  ASSUME NEW S, IsFiniteSet(S), NEW f \in [S -> Int]
  PROVE  /\ Sigma(f, {}) = 0
         /\ \A s \in SUBSET S : /\ Sigma(f, s) \in Int
                                /\ \A x \in s : Sigma(f, s) = f[x] + Sigma(f, s \ {x})
<1> DEFINE g == [xv \in S \X Int |-> f[xv[1]] + xv[2]]
<1>1. \A x \in S, v \in Int : g[<<x, v>>] = f[x] + v /\ f[x] \in Int
  OBVIOUS
<1> HIDE DEF g
<1>2. StaysIn(Int, g, S)
  <2>1. ASSUME NEW x \in S, NEW v \in Int PROVE g[<<x, v>>] \in Int
    <3>1. g[<<x, v>>] = f[x] + v /\ f[x] \in Int
      BY <1>1
    <3> QED BY <3>1
  <2> QED BY <2>1 DEF StaysIn
<1>3. Commutes(Int, g, S)
  <2> SUFFICES ASSUME NEW x \in S, NEW y \in S, NEW v \in Int
               PROVE  g[<<x, g[<<y, v>>]>>] = g[<<y, g[<<x, v>>]>>]
    BY DEF Commutes
  <2>1. g[<<y, v>>] = f[y] + v /\ g[<<x, v>>] = f[x] + v /\ f[x] \in Int /\ f[y] \in Int
    BY <1>1
  <2>2. f[y] + v \in Int /\ f[x] + v \in Int
    BY <2>1
  <2>3. g[<<x, f[y] + v>>] = f[x] + (f[y] + v) /\ g[<<y, f[x] + v>>] = f[y] + (f[x] + v)
    BY <1>1, <2>2
  <2> QED BY <2>1, <2>3
<1>4. PICK h : AnyOrder(h, S, Int, 0, g)
  BY <1>2, <1>3, FoldInAnyOrder
<1>5. Sums(h, f)
  <2>1. h \in [SUBSET S -> Int] /\ DOMAIN f = S /\ h[{}] = 0
    BY <1>4 DEF AnyOrder
  <2>2. ASSUME NEW s \in SUBSET S, NEW x \in s PROVE h[s] = f[x] + h[s \ {x}]
    <3>1. h[s] = g[<<x, h[s \ {x}]>>] /\ h[s \ {x}] \in Int /\ x \in S
      BY <1>4 DEF AnyOrder
    <3> QED BY <1>1, <3>1
  <2> QED BY <2>1, <2>2 DEF Sums
<1> DEFINE c == CHOOSE k : Sums(k, f)
<1>6. Sums(c, f) /\ \A s : Sigma(f, s) = c[s]
  BY <1>5 DEF Sigma
<1> HIDE DEF c
<1> QED BY <1>6 DEF Sums

-----------------------------------------------------------------------------
(* Lowest and highest of a finite set of numbers.                          *)
LEMMA FiniteSetHasExtremes ==
  ASSUME NEW S, IsFiniteSet(S), S # {}, S \subseteq Int
  PROVE  /\ \E x \in S : \A y \in S : x <= y
         /\ \E x \in S : \A y \in S : y <= x
<1> DEFINE Has(s) == s # {} => /\ \E x \in s : \A y \in s : x <= y
                               /\ \E x \in s : \A y \in s : y <= x
           Good == {s \in SUBSET S : Has(s)}
<1>1. {} \in Good
  <2>1. Has({})
    OBVIOUS
  <2> HIDE DEF Has
  <2> QED BY <2>1
<1>2. ASSUME NEW s \in SUBSET S, s # {}, \A x \in s : s \ {x} \in Good
      PROVE  s \in Good
  <2>1. PICK e \in s : TRUE
    BY <1>2
  <2>2. CASE s \ {e} = {}
    <3>1. s = {e} /\ e \in Int
      BY <2>1, <2>2
    <3> QED BY <3>1
  <2>3. CASE s \ {e} # {}
    <3>1. Has(s \ {e})
      BY <1>2, <2>1
    <3>2. PICK a \in s \ {e} : \A y \in s \ {e} : a <= y
      BY <2>3, <3>1
    <3>3. PICK b \in s \ {e} : \A y \in s \ {e} : y <= b
      BY <2>3, <3>1
    <3>4. a \in Int /\ b \in Int /\ e \in Int /\ s \subseteq Int
      BY <2>1, <3>2, <3>3
    <3>5. \E x \in s : \A y \in s : x <= y
      <4>1. CASE a <= e
        BY <3>2, <3>4, <4>1
      <4>2. CASE ~(a <= e)
        <5>1. \A y \in s : e <= y
          BY <3>2, <3>4, <4>2
        <5> QED BY <2>1, <5>1
      <4> QED BY <4>1, <4>2
    <3>6. \E x \in s : \A y \in s : y <= x
      <4>1. CASE e <= b
        BY <3>3, <3>4, <4>1
      <4>2. CASE ~(e <= b)
        <5>1. \A y \in s : y <= e
          BY <3>3, <3>4, <4>2
        <5> QED BY <2>1, <5>1
      <4> QED BY <4>1, <4>2
    <3> QED BY <3>5, <3>6
  <2> QED BY <2>2, <2>3
<1> HIDE DEF Good
<1>3. S \in Good
  BY <1>1, <1>2, SubsetInduction
<1> QED BY <1>3 DEF Good

(* The image of a finite set.                                              *)
LEMMA ImageIsFinite ==
  ASSUME NEW S, IsFiniteSet(S), NEW f
  PROVE  IsFiniteSet({f[x] : x \in S})
<1> DEFINE T == {f[x] : x \in S}
           g == [x \in S |-> f[x]]
<1>1. g \in Surjection(S, T)
  BY DEF Surjection
<1> HIDE DEF g, T
<1>2. IsFiniteSet(T)
  BY <1>1, FS_Surjection
<1> QED BY <1>2 DEF T

-----------------------------------------------------------------------------
(* Powers of two and binary digits. *)

(* A set has twice as many subsets with one element more. *)
LEMMA PowersOfTwo ==
    /\ 2 ^ 0 = 1
    /\ \A n \in Nat : 2 ^ n \in Nat \ {0} /\ 2 ^ (n + 1) = 2 * 2 ^ n
<1>1. 2 ^ 0 = 1
  <2>1. Cardinality(SUBSET {}) = 2 ^ Cardinality({})
    BY FS_EmptySet, FS_SUBSET
  <2>2. SUBSET {} = {{}}
    OBVIOUS
  <2> QED BY <2>1, <2>2, FS_EmptySet, FS_Singleton
<1>2. ASSUME NEW n \in Nat
      PROVE  2 ^ n \in Nat \ {0} /\ 2 ^ (n + 1) = 2 * 2 ^ n
  <2> DEFINE S == 1 .. n
             Old == SUBSET S
             New == {s \cup {n + 1} : s \in Old}
             f == [s \in Old |-> s \cup {n + 1}]
  <2>1. /\ IsFiniteSet(S) /\ Cardinality(S) = n
        /\ IsFiniteSet(1 .. n + 1) /\ Cardinality(1 .. n + 1) = n + 1
    BY FS_Interval
  <2>2. /\ IsFiniteSet(Old) /\ Cardinality(Old) = 2 ^ n
        /\ Cardinality(SUBSET (1 .. n + 1)) = 2 ^ (n + 1)
    BY <2>1, FS_SUBSET
  <2>3. SUBSET (1 .. n + 1) = Old \cup New
    <3>1. ASSUME NEW s \in SUBSET (1 .. n + 1) PROVE s \in Old \cup New
      <4>1. CASE n + 1 \notin s
        BY <4>1
      <4>2. CASE n + 1 \in s
        <5>1. s \ {n + 1} \in Old
          OBVIOUS
        <5>2. s = (s \ {n + 1}) \cup {n + 1}
          BY <4>2
        <5> QED BY <5>1, <5>2
      <4> QED BY <4>1, <4>2
    <3>2. ASSUME NEW s \in Old
          PROVE  s \in SUBSET (1 .. n + 1) /\ s \cup {n + 1} \in SUBSET (1 .. n + 1)
      <4>1. S \subseteq 1 .. n + 1 /\ n + 1 \in 1 .. n + 1
        OBVIOUS
      <4> QED BY <4>1
    <3>3. Old \cup New \subseteq SUBSET (1 .. n + 1)
      <4> HIDE DEF Old
      <4> QED BY <3>2
    <3> HIDE DEF Old, New
    <3> QED BY <3>1, <3>3
  <2>4. Old \cap New = {}
    <3>1. \A s \in Old : n + 1 \notin s
      OBVIOUS
    <3> QED BY <3>1
  <2>5. IsFiniteSet(New) /\ Cardinality(New) = Cardinality(Old)
    <3>1. \A s, t \in Old : s \cup {n + 1} = t \cup {n + 1} => s = t
      <4>1. \A s \in Old : n + 1 \notin s
        OBVIOUS
      <4> QED BY <4>1
    <3>2. f \in Bijection(Old, New)
      <4>1. f \in [Old -> New] /\ \A s \in Old : f[s] = s \cup {n + 1}
        OBVIOUS
      <4>2. \A t \in New : \E s \in Old : f[s] = t
        BY <4>1
      <4> HIDE DEF f, Old, New
      <4> QED BY <3>1, <4>1, <4>2 DEF Bijection, Injection, Surjection, IsInjective
    <3>3. ExistsBijection(Old, New)
      BY <3>2 DEF ExistsBijection
    <3> HIDE DEF Old, New
    <3> QED BY <2>2, <3>3, FS_Bijection
  <2>6. Cardinality(Old) \in Nat /\ Cardinality(Old) # 0
    <3>1. Old # {}
      OBVIOUS
    <3> HIDE DEF Old
    <3> QED BY <2>2, <3>1, FS_CardinalityType, FS_EmptySet
  <2>7. Cardinality(Old \cup New) = Cardinality(Old) + Cardinality(New)
    <3> HIDE DEF Old, New
    <3>1. Cardinality(Old \cup New) =
            Cardinality(Old) + Cardinality(New) - Cardinality(Old \cap New)
      BY <2>2, <2>5, FS_Union
    <3>2. Cardinality(Old \cap New) = 0
      BY <2>4, FS_EmptySet
    <3> QED BY <2>5, <2>6, <3>1, <3>2
  <2>8. 2 ^ (n + 1) = Cardinality(Old) + Cardinality(Old)
    <3> HIDE DEF Old, New
    <3> QED BY <2>2, <2>3, <2>5, <2>7
  <2>9. 2 ^ n = Cardinality(Old)
    BY <2>2
  <2> HIDE DEF Old, New
  <2> QED BY <2>6, <2>8, <2>9
<1> QED BY <1>1, <1>2

(* Two numbers of as many binary digits are equal if their digits are. *)
LEMMA DigitsDetermine ==
    ASSUME NEW n \in Nat, NEW p \in Nat, NEW q \in Nat, p < 2 ^ n, q < 2 ^ n,
           \A k \in 0 .. n - 1 : (p \div 2 ^ k) % 2 = (q \div 2 ^ k) % 2
    PROVE  p = q
<1> DEFINE Good == {i \in 0 .. n : p \div 2 ^ (n - i) = q \div 2 ^ (n - i)}
<1>1. \A k \in Nat : 2 ^ k \in Nat /\ 2 ^ k > 0
  BY PowersOfTwo
<1>2. 0 \in Good
  <2>1. \A a, b \in Nat : a < b => a \div b = 0
    OBVIOUS
  <2> QED BY <1>1, <2>1
<1>3. ASSUME NEW i \in 1 .. n, i - 1 \in Good
      PROVE  i \in Good
  <2> DEFINE k == n - i
             d == 2 ^ k
             x == p \div d
             y == q \div d
  <2>1. k \in 0 .. n - 1 /\ n - (i - 1) = k + 1
    OBVIOUS
  <2>2. d \in Nat /\ d > 0 /\ 2 ^ (k + 1) = 2 * d
    BY <1>1, <2>1, PowersOfTwo
  <2>3. p \div (2 * d) = q \div (2 * d)
    BY <1>3, <2>1, <2>2
  <2>4. x % 2 = y % 2
    BY <2>1
  <2> HIDE DEF d, k
  <2>5. x \div 2 = p \div (2 * d) /\ y \div 2 = q \div (2 * d) /\ x \in Nat /\ y \in Nat
    BY <2>2
  <2>6. x = y
    <3> HIDE DEF x, y
    <3> QED BY <2>3, <2>4, <2>5
  <2> QED BY <2>6 DEF d, k
<1>4. n \in Good
  <2> HIDE DEF Good
  <2>1. \A i \in 0 .. n : i \in Good
    BY <1>2, <1>3, IntervalInduction
  <2> QED BY <2>1
<1>5. p \div 1 = q \div 1
  BY <1>4, PowersOfTwo
<1> QED BY <1>5

LEMMA PowerOfSum ==
  ASSUME NEW k \in Nat, NEW m \in Nat
  PROVE  2 ^ (k + m) = 2 ^ k * 2 ^ m
<1> DEFINE b == 2 ^ k
           Good == {n \in 0 .. m : 2 ^ (k + n) = b * 2 ^ n}
<1>1. b \in Nat
  BY PowersOfTwo
<1>2. 0 \in Good
  BY <1>1, PowersOfTwo
<1>3. ASSUME NEW n \in 1 .. m, n - 1 \in Good PROVE n \in Good
  <2> DEFINE p == 2 ^ (n - 1)
  <2>1. n - 1 \in Nat /\ (n - 1) + 1 = n /\ k + (n - 1) \in Nat /\ (k + (n - 1)) + 1 = k + n
    OBVIOUS
  <2>2. 2 ^ n = 2 * p /\ 2 ^ (k + n) = 2 * 2 ^ (k + (n - 1)) /\ p \in Nat
    BY <2>1, PowersOfTwo
  <2>3. b * p = 2 ^ (k + (n - 1))
    BY <1>3
  <2> HIDE DEF p, b
  <2>4. b * (2 * p) = 2 * (b * p)
    BY <1>1, <2>2
  <2> QED BY <2>2, <2>3, <2>4
<1>4. \A n \in 0 .. m : n \in Good
  <2> HIDE DEF Good
  <2> QED BY <1>2, <1>3, IntervalInduction
<1> QED BY <1>4

(* Dividing twice is dividing by the product. *)
LEMMA QuotientOfQuotient ==
  ASSUME NEW a \in Nat, NEW b \in Nat \ {0}, NEW c \in Nat \ {0}
  PROVE  (a \div b) \div c = a \div (b * c)
<1> DEFINE x == a \div b
           y == x \div c
<1>1. x \in Nat /\ x * b <= a /\ a < (x + 1) * b
  OBVIOUS
<1> HIDE DEF x
<1>2. y \in Nat /\ y * c <= x /\ x + 1 <= (y + 1) * c
  BY <1>1
<1> HIDE DEF y
<1>3. (y * c) * b <= x * b /\ (x + 1) * b <= ((y + 1) * c) * b
  BY <1>1, <1>2
<1>4. b * c \in Nat \ {0} /\ y * (b * c) <= a /\ a < (y + 1) * (b * c)
  BY <1>1, <1>2, <1>3
<1>5. a \div (b * c) = y
  <2> DEFINE d == b * c
  <2>1. d \in Nat \ {0} /\ y * d <= a /\ a < (y + 1) * d
    BY <1>4
  <2> HIDE DEF d
  <2>2. a \div d = y
    BY <2>1, <1>2
  <2> QED BY <2>2 DEF d
<1> QED BY <1>5 DEF x, y

(* What the least and the greatest element are.                            *)
LEMMA MinAndMax ==
  ASSUME NEW S, IsFiniteSet(S), S # {}, S \subseteq Int
  PROVE  /\ Min(S) \in S /\ \A y \in S : Min(S) <= y
         /\ Max(S) \in S /\ \A y \in S : y <= Max(S)
<1>1. Min(S) \in S /\ \A y \in S : Min(S) <= y
  <2>1. PICK x \in S : \A y \in S : x <= y
    BY FiniteSetHasExtremes
  <2> QED BY <2>1 DEF Min
<1>2. Max(S) \in S /\ \A y \in S : y <= Max(S)
  <2>1. PICK x \in S : \A y \in S : y <= x
    BY FiniteSetHasExtremes
  <2>2. \A y \in S : x >= y
    BY <2>1
  <2>3. Max(S) \in S /\ \A y \in S : Max(S) >= y
    BY <2>2 DEF Max
  <2> QED BY <2>3
<1> QED BY <1>1, <1>2

-----------------------------------------------------------------------------
(* Sorting.  p lists the numbers from 1 to n in another order.             *)
Reorders(p, n) ==
    /\ p \in [1 .. n -> 1 .. n]
    /\ \A i, j \in 1 .. n : p[i] = p[j] => i = j
    /\ \A v \in 1 .. n : \E i \in 1 .. n : p[i] = v

(* Numbers can be listed from the lowest to the highest.                   *)
LEMMA SortingExists ==
  ASSUME NEW n \in Nat, NEW k \in [1 .. n -> Int]
  PROVE  \E p : Reorders(p, n) /\ \A i, j \in 1 .. n : i < j => k[p[i]] <= k[p[j]]
<1> DEFINE Sorts(p, m) == Reorders(p, m) /\ \A i, j \in 1 .. m : i < j => k[p[i]] <= k[p[j]]
           Good == {m \in 0 .. n : \E p : Sorts(p, m)}
<1>1. 0 \in Good
  <2>1. Sorts([i \in 1 .. 0 |-> i], 0)
    BY DEF Reorders
  <2> HIDE DEF Sorts
  <2> QED BY <2>1
<1>2. ASSUME NEW m \in 1 .. n, m - 1 \in Good
      PROVE  m \in Good
  <2>1. PICK p : Sorts(p, m - 1)
    BY <1>2
  <2>2. /\ p \in [1 .. m - 1 -> 1 .. m - 1]
        /\ \A i, j \in 1 .. m - 1 : p[i] = p[j] => i = j
        /\ \A v \in 1 .. m - 1 : \E i \in 1 .. m - 1 : p[i] = v
        /\ \A i, j \in 1 .. m - 1 : i < j => k[p[i]] <= k[p[j]]
    BY <2>1 DEF Reorders
  <2>3. /\ \A i \in 1 .. m - 1 : p[i] \in 1 .. m - 1 /\ p[i] # m /\ k[p[i]] \in Int
        /\ k[m] \in Int
    <3>1. \A i \in 1 .. n : k[i] \in Int
      OBVIOUS
    <3>2. \A i \in 1 .. m - 1 : p[i] \in 1 .. m - 1
      BY <2>2
    <3>3. \A i \in 1 .. m - 1 : i \in 1 .. n /\ i # m
      OBVIOUS
    <3> QED BY <3>1, <3>2, <3>3
  <2>10. \A i, j \in 1 .. m - 1 : i < j => p[i] # p[j] /\ k[p[i]] <= k[p[j]]
    <3> SUFFICES ASSUME NEW i \in 1 .. m - 1, NEW j \in 1 .. m - 1, i < j
                 PROVE  p[i] # p[j] /\ k[p[i]] <= k[p[j]]
      OBVIOUS
    <3>1. i # j
      OBVIOUS
    <3> QED BY <2>2, <3>1
  <2>4. PICK q \in 1 .. m : /\ \A i \in 1 .. m - 1 : i < q => k[p[i]] <= k[m]
                            /\ \A i \in 1 .. m - 1 : i >= q => k[m] <= k[p[i]]
    <3> DEFINE Above == {i \in 1 .. m - 1 : k[p[i]] > k[m]}
    <3>1. CASE Above = {}
      <4>1. \A i \in 1 .. m - 1 : k[p[i]] <= k[m]
        <5> SUFFICES ASSUME NEW i \in 1 .. m - 1 PROVE k[p[i]] <= k[m]
          OBVIOUS
        <5>1. k[p[i]] \in Int /\ k[m] \in Int /\ ~(k[p[i]] > k[m])
          BY <2>3, <3>1
        <5> QED BY <5>1
      <4> QED BY <4>1
    <3>2. CASE Above # {}
      <4>1. IsFiniteSet(Above) /\ Above \subseteq Int
        <5>1. IsFiniteSet(1 .. m - 1) /\ Above \subseteq 1 .. m - 1
          BY FS_Interval
        <5> QED BY <5>1, FS_Subset
      <4>2. PICK q \in Above : \A y \in Above : q <= y
        <5> HIDE DEF Above
        <5> QED BY <3>2, <4>1, FiniteSetHasExtremes
      <4>3. ASSUME NEW i \in 1 .. m - 1, i < q PROVE k[p[i]] <= k[m]
        <5>1. k[p[i]] \in Int /\ k[m] \in Int /\ i \notin Above
          BY <2>3, <4>2, <4>3
        <5> QED BY <5>1
      <4>4. ASSUME NEW i \in 1 .. m - 1, i >= q PROVE k[m] <= k[p[i]]
        <5>1. q \in 1 .. m - 1 /\ k[p[i]] \in Int /\ k[m] \in Int /\ k[p[q]] \in Int /\ k[m] < k[p[q]]
          BY <2>3, <4>2
        <5>2. k[p[q]] <= k[p[i]]
          <6>1. CASE i = q
            BY <5>1, <6>1
          <6>2. CASE q < i
            BY <2>2, <5>1, <6>2
          <6> QED BY <4>4, <5>1, <6>1, <6>2
        <5> QED BY <5>1, <5>2
      <4>5. q \in 1 .. m
        BY <4>2
      <4> HIDE DEF Above
      <4> QED BY <4>3, <4>4, <4>5
    <3> QED BY <3>1, <3>2
  <2> DEFINE r == [i \in 1 .. m |-> IF i < q THEN p[i] ELSE IF i = q THEN m ELSE p[i - 1]]
  <2>5. \A i \in 1 .. m : /\ i < q => i \in 1 .. m - 1 /\ r[i] = p[i]
                          /\ i = q => r[i] = m
                          /\ i > q => i - 1 \in 1 .. m - 1 /\ r[i] = p[i - 1]
    OBVIOUS
  <2>6. r \in [1 .. m -> 1 .. m]
    <3>1. ASSUME NEW i \in 1 .. m PROVE r[i] \in 1 .. m
      <4>1. CASE i < q
        BY <2>3, <2>5, <4>1
      <4>2. CASE i = q
        BY <2>5, <4>2
      <4>3. CASE i > q
        <5>1. r[i] = p[i - 1] /\ i - 1 \in 1 .. m - 1
          BY <2>5, <4>3
        <5> QED BY <2>3, <5>1
      <4> QED BY <4>1, <4>2, <4>3
    <3>2. r = [i \in 1 .. m |-> r[i]]
      OBVIOUS
    <3> HIDE DEF r
    <3> QED BY <3>1, <3>2
  <2> HIDE DEF r
  <2>7. ASSUME NEW i \in 1 .. m, NEW j \in 1 .. m, i < j
        PROVE  r[i] # r[j] /\ k[r[i]] <= k[r[j]]
    <3>1. CASE j < q
      <4>1. r[i] = p[i] /\ r[j] = p[j] /\ i \in 1 .. m - 1 /\ j \in 1 .. m - 1
        BY <2>5, <2>7, <3>1
      <4> QED BY <2>7, <2>10, <4>1
    <3>2. CASE j = q
      <4>1. r[i] = p[i] /\ r[j] = m /\ i \in 1 .. m - 1 /\ i < q
        BY <2>5, <2>7, <3>2
      <4> QED BY <2>3, <2>4, <4>1
    <3>3. CASE j > q /\ i < q
      <4>1. r[i] = p[i] /\ r[j] = p[j - 1] /\ i \in 1 .. m - 1 /\ j - 1 \in 1 .. m - 1 /\ i < j - 1
        BY <2>5, <2>7, <3>3
      <4> QED BY <2>10, <4>1
    <3>4. CASE j > q /\ i = q
      <4>1. r[i] = m /\ r[j] = p[j - 1] /\ j - 1 \in 1 .. m - 1 /\ j - 1 >= q
        BY <2>5, <2>7, <3>4
      <4> QED BY <2>3, <2>4, <4>1
    <3>5. CASE j > q /\ i > q
      <4>1. r[i] = p[i - 1] /\ r[j] = p[j - 1] /\ i - 1 \in 1 .. m - 1 /\ j - 1 \in 1 .. m - 1 /\ i - 1 < j - 1
        BY <2>5, <2>7, <3>5
      <4> QED BY <2>10, <4>1
    <3> QED BY <3>1, <3>2, <3>3, <3>4, <3>5
  <2>8. ASSUME NEW v \in 1 .. m PROVE \E i \in 1 .. m : r[i] = v
    <3>1. CASE v = m
      BY <2>5, <3>1
    <3>2. CASE v \in 1 .. m - 1
      <4>1. PICK i \in 1 .. m - 1 : p[i] = v
        BY <2>2, <3>2
      <4>2. CASE i < q
        BY <2>5, <4>1, <4>2
      <4>3. CASE i >= q
        <5>1. i + 1 \in 1 .. m /\ i + 1 > q /\ (i + 1) - 1 = i
          BY <4>3
        <5>2. r[i + 1] = p[i]
          BY <2>5, <5>1
        <5> QED BY <4>1, <5>1, <5>2
      <4> QED BY <4>2, <4>3
    <3> QED BY <3>1, <3>2
  <2>9. Sorts(r, m)
    <3>1. \A i, j \in 1 .. m : r[i] = r[j] => i = j
      BY <2>7
    <3> QED BY <2>6, <2>7, <2>8, <3>1 DEF Reorders
  <2> HIDE DEF Sorts
  <2> QED BY <2>9
<1>3. n \in Good
  <2> HIDE DEF Good
  <2>1. \A m \in 0 .. n : m \in Good
    BY <1>1, <1>2, IntervalInduction
  <2> QED BY <2>1
<1> QED BY <1>3

(* Two rising lists of the same numbers are one.                           *)
LEMMA RisingIsUnique ==
  ASSUME NEW n \in Nat, NEW a \in [1 .. n -> Int], NEW b \in [1 .. n -> Int],
         \A i, j \in 1 .. n : i < j => a[i] < a[j],
         \A i, j \in 1 .. n : i < j => b[i] < b[j],
         {a[i] : i \in 1 .. n} = {b[i] : i \in 1 .. n}
  PROVE  a = b
<1> DEFINE Good == {m \in 0 .. n : \A i \in 1 .. m : a[i] = b[i]}
<1>1. 0 \in Good
  OBVIOUS
<1>0. /\ \A i \in 1 .. n : a[i] \in Int /\ b[i] \in Int
      /\ \A i \in 1 .. n : \E j \in 1 .. n : a[i] = b[j]
      /\ \A i \in 1 .. n : \E j \in 1 .. n : b[i] = a[j]
  <2>1. \A i \in 1 .. n : a[i] \in Int /\ b[i] \in Int
    OBVIOUS
  <2>2. \A i \in 1 .. n : a[i] \in {b[j] : j \in 1 .. n}
    OBVIOUS
  <2>3. \A i \in 1 .. n : b[i] \in {a[j] : j \in 1 .. n}
    OBVIOUS
  <2> QED BY <2>1, <2>2, <2>3
<1>2. ASSUME NEW m \in 1 .. n, m - 1 \in Good
      PROVE  m \in Good
  <2>1. \A i \in 1 .. m - 1 : a[i] = b[i]
    BY <1>2
  <2>2. PICK j \in 1 .. n : a[m] = b[j]
    BY <1>0
  <2>3. PICK l \in 1 .. n : b[m] = a[l]
    BY <1>0
  <2>4. j >= m
    <3> SUFFICES ASSUME j < m PROVE FALSE
      OBVIOUS
    <3>1. j \in 1 .. m - 1 /\ a[j] = a[m] /\ a[j] < a[m]
      BY <2>1, <2>2
    <3> QED BY <1>0, <3>1
  <2>5. l >= m
    <3> SUFFICES ASSUME l < m PROVE FALSE
      OBVIOUS
    <3>1. l \in 1 .. m - 1 /\ b[l] = b[m] /\ b[l] < b[m]
      BY <2>1, <2>3
    <3> QED BY <1>0, <3>1
  <2>6. b[m] <= a[m]
    <3>1. CASE j = m
      BY <1>0, <2>2, <3>1
    <3>2. CASE j > m
      <4>1. b[m] < b[j]
        BY <3>2
      <4>2. b[m] \in Int /\ b[j] \in Int
        BY <1>0
      <4> QED BY <2>2, <4>1, <4>2
    <3> QED BY <2>4, <3>1, <3>2
  <2>7. a[m] <= b[m]
    <3>1. CASE l = m
      BY <1>0, <2>3, <3>1
    <3>2. CASE l > m
      <4>1. a[m] < a[l]
        BY <3>2
      <4>2. a[m] \in Int /\ a[l] \in Int
        BY <1>0
      <4> QED BY <2>3, <4>1, <4>2
    <3> QED BY <2>5, <3>1, <3>2
  <2>8. a[m] = b[m]
    BY <1>0, <2>6, <2>7
  <2>9. ASSUME NEW i \in 1 .. m PROVE a[i] = b[i]
    <3>1. i = m \/ i \in 1 .. m - 1
      OBVIOUS
    <3> QED BY <2>1, <2>8, <3>1
  <2> QED BY <2>9
<1>3. n \in Good
  <2> HIDE DEF Good
  <2>1. \A m \in 0 .. n : m \in Good
    BY <1>1, <1>2, IntervalInduction
  <2> QED BY <2>1
<1> QED BY <1>3

-----------------------------------------------------------------------------
(* The sum of numbers is that of a part and that of the rest.              *)
LEMMA SumOfPart ==
  ASSUME NEW S, IsFiniteSet(S), NEW f, \A s \in S : f[s] \in Nat, NEW P \in SUBSET S
  PROVE  /\ SumFunctionOnSet(f, P) \in Nat /\ SumFunctionOnSet(f, S \ P) \in Nat
         /\ SumFunctionOnSet(f, S) = SumFunctionOnSet(f, P) + SumFunctionOnSet(f, S \ P)
<1>1. ASSUME NEW T \in SUBSET S PROVE IsFiniteSet(T) /\ SumFunctionOnSet(f, T) \in Nat
  <2> DEFINE g == [s \in T |-> f[s]]
  <2>1. IsFiniteSet(T) /\ g \in [T -> Nat] /\ \A s \in T : f[s] \in Int
    BY FS_Subset
  <2>2. \A s \in T : f[s] = g[s]
    OBVIOUS
  <2> HIDE DEF g
  <2>3. SumFunctionOnSet(g, T) \in Int /\ IsTotal(SumFunctionOnSet(g, T), g, T)
    BY <2>1, <2>2, SumIsTotal
  <2>4. SumFunctionOnSet(g, T) >= 0
    BY <2>1, <2>3, TotalNotNegative
  <2>5. SumFunctionOnSet(f, T) = SumFunctionOnSet(g, T)
    BY <2>1, <2>2, SumAgrees
  <2> QED BY <2>1, <2>3, <2>4, <2>5
<1> DEFINE R == S \ P
<1>2. P \cup R = S /\ P \cap R = {} /\ R \in SUBSET S
  OBVIOUS
<1>3. (\A s \in P : f[s] \in Int) /\ (\A s \in R : f[s] \in Int)
  OBVIOUS
<1>4. IsFiniteSet(P) /\ IsFiniteSet(R)
  BY <1>1, <1>2
<1> HIDE DEF R
<1>5. SumFunctionOnSet(f, P \cup R) = SumFunctionOnSet(f, P) + SumFunctionOnSet(f, R)
  BY <1>2, <1>3, <1>4, SumOfUnion
<1> QED BY <1>1, <1>2, <1>5 DEF R

(* Numbers that are each in some proportion to others are so together, up  *)
(* to what each may miss.                                                  *)
LEMMA SumInProportion ==
  ASSUME NEW S, IsFiniteSet(S), NEW f, NEW g, NEW a \in Nat, NEW b \in Nat, NEW c \in Nat,
         \A s \in S : /\ f[s] \in Int /\ g[s] \in Int
                      /\ a * f[s] <= b * g[s] /\ b * g[s] <= a * f[s] + c
  PROVE  /\ a * SumFunctionOnSet(f, S) <= b * SumFunctionOnSet(g, S)
         /\ b * SumFunctionOnSet(g, S) <= a * SumFunctionOnSet(f, S) + c * Cardinality(S)
<1> DEFINE F(A) == SumFunctionOnSet(f, A)
           G(A) == SumFunctionOnSet(g, A)
           Fits(A) == /\ IsFiniteSet(A)
                      /\ a * F(A) <= b * G(A)
                      /\ b * G(A) <= a * F(A) + c * Cardinality(A)
           Good == {A \in SUBSET S : Fits(A)}
<1>1. {} \in Good
  <2>1. F({}) = 0 /\ G({}) = 0 /\ IsFiniteSet({}) /\ Cardinality({}) = 0
    BY SumOfNothing, FS_EmptySet
  <2>2. a * 0 = 0 /\ b * 0 = 0 /\ c * 0 = 0
    OBVIOUS
  <2> HIDE DEF F, G
  <2> QED BY <2>1, <2>2
<1>2. ASSUME NEW A \in SUBSET S, A # {}, \A x \in A : A \ {x} \in Good
      PROVE  A \in Good
  <2>1. PICK x \in A : TRUE
    BY <1>2
  <2> DEFINE Q == A \ {x}
  <2>2. Fits(Q)
    BY <1>2, <2>1
  <2>3. /\ Q \cup {x} = A /\ x \notin Q
        /\ (\A s \in Q : f[s] \in Int) /\ (\A s \in Q : g[s] \in Int)
        /\ f[x] \in Int /\ g[x] \in Int
        /\ a * f[x] <= b * g[x] /\ b * g[x] <= a * f[x] + c
    BY <2>1
  <2> HIDE DEF Q
  <2>4. IsFiniteSet(Q) /\ Cardinality(Q) \in Nat /\ IsFiniteSet(A)
        /\ Cardinality(A) = Cardinality(Q) + 1
    BY <2>2, <2>3, FS_CardinalityType, FS_AddElement
  <2>5. F(A) = F(Q) + f[x]
    BY <2>3, <2>4, SumGrows
  <2>6. G(A) = G(Q) + g[x]
    BY <2>3, <2>4, SumGrows
  <2>7. F(Q) \in Int /\ G(Q) \in Int
    BY <2>3, <2>4, SumIsTotal
  <2>8. a * F(Q) <= b * G(Q) /\ b * G(Q) <= a * F(Q) + c * Cardinality(Q)
    BY <2>2
  <2> HIDE DEF F, G
  <2> DEFINE u == F(Q)
             v == G(Q)
             m == Cardinality(Q)
  <2>9. /\ a * (u + f[x]) = a * u + a * f[x] /\ b * (v + g[x]) = b * v + b * g[x]
        /\ c * (m + 1) = c * m + c
        /\ a * u \in Int /\ b * v \in Int /\ c * m \in Int /\ a * f[x] \in Int /\ b * g[x] \in Int
    <3>1. u \in Int /\ v \in Int /\ m \in Int /\ f[x] \in Int /\ g[x] \in Int
      BY <2>3, <2>4, <2>7
    <3> HIDE DEF u, v, m
    <3> QED BY <3>1
  <2>10. a * F(A) <= b * G(A) /\ b * G(A) <= a * F(A) + c * Cardinality(A)
    BY <2>3, <2>4, <2>5, <2>6, <2>8, <2>9
  <2> QED BY <2>4, <2>10
<1>3. S \in Good
  <2> HIDE DEF Good
  <2> QED BY <1>1, <1>2, SubsetInduction
<1> HIDE DEF F, G
<1>4. Fits(S)
  BY <1>3
<1> QED BY <1>4 DEF F, G

-----------------------------------------------------------------------------
(* The images of a set under a renaming are as many.                       *)
LEMMA ImagesAreAsMany ==
  ASSUME NEW S, IsFiniteSet(S), NEW f, \A x, y \in S : f[x] = f[y] => x = y
  PROVE  IsFiniteSet({f[x] : x \in S}) /\ Cardinality({f[x] : x \in S}) = Cardinality(S)
<1> DEFINE T == {f[x] : x \in S}
           g == [x \in S |-> f[x]]
<1>1. g \in [S -> T] /\ \A x \in S : g[x] = f[x]
  OBVIOUS
<1>2. \A y \in T : \E x \in S : g[x] = y
  BY <1>1
<1> HIDE DEF g, T
<1>3. g \in Bijection(S, T)
  BY <1>1, <1>2 DEF Bijection, Injection, Surjection, IsInjective
<1>4. ExistsBijection(S, T)
  BY <1>3 DEF ExistsBijection
<1>5. IsFiniteSet(T) /\ Cardinality(T) = Cardinality(S)
  BY <1>4, FS_Bijection
<1> QED BY <1>5 DEF T

=============================================================================
