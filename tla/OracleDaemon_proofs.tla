------------------------ MODULE OracleDaemon_proofs ------------------------
(***************************************************************************)
(* What the oracle daemon does across ticks, kills and restarts, for every *)
(* cadence, lead, window and number of starts.  The arithmetic of ticks    *)
(* comes first: a tick is a multiple of the cadence.  The median of the    *)
(* quotes and the digits of a price come last.                             *)
(***************************************************************************)
EXTENDS OracleDaemon, FiniteTotals

LEMMA MultipleOf ==
    ASSUME NEW c \in Nat \ {0}, NEW q \in Nat
    PROVE  (c * q) % c = 0
  OBVIOUS

LEMMA Multiple ==
    ASSUME NEW c \in Nat \ {0}, NEW x \in Nat
    PROVE  x % c = 0 <=> x = c * (x \div c)
<1>1. x = c * (x \div c) + (x % c) /\ x % c \in Nat /\ x \div c \in Nat
  OBVIOUS
<1> QED BY <1>1

LEMMA TickFacts ==
    ASSUME NEW c \in Nat \ {0}, NEW t \in Nat
    PROVE  /\ t - (t % c) \in Nat
           /\ t - (t % c) <= t
           /\ (t - (t % c)) % c = 0
<1>1. t = c * (t \div c) + (t % c) /\ t % c \in 0 .. c - 1 /\ t \div c \in Nat
  OBVIOUS
<1>2. t - (t % c) = c * (t \div c)
  BY <1>1
<1>3. (c * (t \div c)) % c = 0
  BY <1>1
<1>4. c * (t \div c) \in Nat
  BY <1>1
<1> QED BY <1>1, <1>2, <1>3, <1>4

LEMMA TickMono ==
    ASSUME NEW c \in Nat \ {0}, NEW x \in Nat, NEW y \in Nat, x <= y
    PROVE  x - (x % c) <= y - (y % c)
  OBVIOUS

LEMMA MultipleStep ==
    ASSUME NEW c \in Nat \ {0}, NEW x \in Nat, NEW y \in Nat,
           x % c = 0, y % c = 0, x < y
    PROVE  x + c <= y
<1> DEFINE p == x \div c
<1> DEFINE q == y \div c
<1>1. p \in Nat /\ q \in Nat /\ x = c * p /\ y = c * q
  BY Multiple
<1> HIDE DEF p, q
<1>2. p + 1 <= q
  BY <1>1
<1>3. c * p + c <= c * q
  BY <1>1, <1>2
<1> QED BY <1>1, <1>3

LEMMA MultipleTimes ==
    ASSUME NEW c \in Nat \ {0}, NEW x \in Nat, NEW k \in Nat, x % c = 0
    PROVE  (x + k * c) % c = 0
<1> DEFINE p == x \div c
<1>1. p \in Nat /\ x = c * p
  BY Multiple
<1> HIDE DEF p
<1>2. x + k * c = c * (p + k)
  BY <1>1
<1>3. (c * (p + k)) % c = 0
  BY <1>1
<1> QED BY <1>2, <1>3

LEMMA MultipleNext ==
    ASSUME NEW c \in Nat \ {0}, NEW x \in Nat, x % c = 0
    PROVE  (x + c) % c = 0 /\ (x >= c => (x - c) % c = 0)
<1> DEFINE p == x \div c
<1>1. p \in Nat /\ x = c * p
  BY Multiple
<1> HIDE DEF p
<1>2. x + c = c * (p + 1) /\ (c * (p + 1)) % c = 0
  BY <1>1
<1>3. ASSUME x >= c PROVE (x - c) % c = 0
  <2>1. p >= 1
    BY <1>1, <1>3
  <2>2. x - c = c * (p - 1) /\ p - 1 \in Nat
    BY <1>1, <2>1
  <2>3. (c * (p - 1)) % c = 0
    BY <2>2, MultipleOf, Zenon
  <2> QED BY <2>2, <2>3
<1> QED BY <1>2, <1>3

LEMMA TimesMono ==
    ASSUME NEW c \in Nat \ {0}, NEW k \in Nat, NEW l \in Nat, k <= l
    PROVE  k * c <= l * c /\ k * c \in Nat /\ l * c \in Nat
  OBVIOUS

-----------------------------------------------------------------------------
Aligned(x) == x % CADENCE = 0

LEMMA TickOfFacts ==
    \A t \in Nat : TickOf(t) \in Nat /\ TickOf(t) <= t /\ Aligned(TickOf(t))
  BY DaemonAssumption, TickFacts DEF TickOf, Aligned

LEMMA TickOfMono == \A t, u \in Nat : t <= u => TickOf(t) <= TickOf(u)
  BY DaemonAssumption, TickMono DEF TickOf

LEMMA AlignedStep ==
    \A x, y \in Nat : Aligned(x) /\ Aligned(y) /\ x < y => x + CADENCE <= y
  BY DaemonAssumption, MultipleStep DEF Aligned

LEMMA AlignedNext ==
    \A x \in Nat :
        Aligned(x) => Aligned(x + CADENCE) /\ (x >= CADENCE => Aligned(x - CADENCE))
  BY DaemonAssumption, MultipleNext DEF Aligned

LEMMA AlignedZero == Aligned(0)
  BY DaemonAssumption, MultipleOf DEF Aligned

-----------------------------------------------------------------------------
(* The inductive invariant.  A process counts upwards in multiples of the  *)
(* cadence from its first tick (Counters), has announced every tick from   *)
(* there to next_announce (Announced), and has published only ticks below  *)
(* the one in hand; what earlier processes published lies at or before its *)
(* first tick (History).                                                   *)
Running == pc # "down"
Signing == pc \in {"check", "att"}
Attesting == pc \in {"attest", "check", "att", "latest", "latest_write"}

Types ==
    /\ clock \in Nat /\ now \in Nat /\ next_announce \in Nat
    /\ last_attested \in Nat /\ life \in Nat /\ since \in Nat
    /\ pc \in {"down", "loop", "announce", "announcing", "attest", "check",
               "att", "latest", "latest_write"}
    /\ \A c \in cache : c.at \in Nat
    /\ \A a \in published :
          a.tick \in Nat /\ a.life \in Nat /\ a.since \in Nat /\ a.read_at \in Nat

Counters ==
    /\ now <= clock
    /\ Running =>
          /\ Aligned(since) /\ Aligned(next_announce) /\ Aligned(last_attested)
          /\ since <= last_attested + CADENCE /\ since <= next_announce
          /\ last_attested <= TickOf(clock)
    /\ pc \in {"check", "att", "latest", "latest_write"} =>
          since <= last_attested /\ last_attested <= TickOf(now)

Announced ==
    /\ Running => \A t \in Nat : Aligned(t) /\ since <= t /\ t < next_announce => t \in ann
    /\ Attesting => TickOf(now) + LEAD_TICKS * CADENCE < next_announce

Readings ==
    Signing =>
        /\ ~Late(last_attested)
        /\ \A h \in held : \A at \in h.fetched : at \in Nat /\ now <= at + STALE_S

History ==
    /\ \A a \in published :
          /\ a.life <= life /\ a.since <= a.tick /\ a.tick <= TickOf(clock)
          /\ a.life < life => a.tick <= since
          /\ a.life = life =>
                /\ a.since = since
                /\ Running => a.tick <= last_attested
                /\ Signing => a.tick < last_attested
    /\ \A a, b \in published :
          /\ a.life < b.life => a.tick <= b.since
          /\ a.life = b.life /\ a.tick = b.tick => a = b

DaemonInv == Types /\ Counters /\ Announced /\ Readings /\ History /\ PriceBelongsToTick

LEMMA DaemonInvariant == Spec => []DaemonInv
<1>1. Init => DaemonInv
  BY DEF Init, DaemonInv, Types, Counters, Announced, Readings, History,
         PriceBelongsToTick, Running, Signing, Attesting
<1>2. DaemonInv /\ [Next]_vars => DaemonInv'
  <2> SUFFICES ASSUME DaemonInv, [Next]_vars PROVE DaemonInv'
    OBVIOUS
  <2> USE DEF DaemonInv, fileVars, lifeVars, loopVars
  <2>1. ASSUME NEW arg \in PriceArgs, Start(arg) PROVE DaemonInv'
    <3>1. Types'
      BY <2>1, DaemonAssumption, TickOfFacts
      DEF Start, FirstLastAttested, Types
    <3>2. Counters'
      BY <2>1, DaemonAssumption, TickOfFacts, AlignedNext
      DEF Start, FirstLastAttested, Types, Counters
    <3>3. Announced'
      BY <2>1, TickOfFacts DEF Start, Types, Announced, Attesting
    <3>4. Readings' /\ History' /\ PriceBelongsToTick'
      BY <2>1 DEF Start, Readings, Signing, Types, History, PriceBelongsToTick
    <3> QED BY <3>1, <3>2, <3>3, <3>4
  <2>2. ASSUME Crash PROVE DaemonInv'
    <3>1. Readings'
      BY <2>2, DaemonAssumption, TickOfFacts DEF Crash, Late, Readings
    <3>2. Types' /\ Counters' /\ Announced' /\ History' /\ PriceBelongsToTick'
      BY <2>2 DEF Crash, Types, Counters, Running, Announced, Attesting,
                  History, Signing, PriceBelongsToTick
    <3> QED BY <3>1, <3>2
  <2>3. ASSUME Tick PROVE DaemonInv'
    <3>1. Counters'
      BY <2>3, TickOfFacts, TickOfMono DEF Tick, Types, Counters, Running
    <3>2. History'
      BY <2>3, TickOfFacts, TickOfMono
      DEF Tick, Types, History, Running, Signing
    <3>3. Types' /\ Announced' /\ Readings' /\ PriceBelongsToTick'
      BY <2>3 DEF Tick, Types, Announced, Running, Attesting, Late, Readings,
                  Signing, PriceBelongsToTick
    <3> QED BY <3>1, <3>2, <3>3
  <2>4. ASSUME Refresh PROVE DaemonInv'
    BY <2>4 DEF Refresh, Types, Counters, Running, Announced, Attesting, Late,
                Readings, Signing, History, PriceBelongsToTick
  <2>5. ASSUME Wake PROVE DaemonInv'
    BY <2>5 DEF Wake, Types, Counters, Running, Announced, Attesting,
                Readings, Signing, History, PriceBelongsToTick
  <2>6. ASSUME TruncateAnnouncement PROVE DaemonInv'
    BY <2>6 DEF TruncateAnnouncement, Types, Counters, Running, Announced,
                Attesting, Readings, Signing, History, PriceBelongsToTick
  <2>7. ASSUME FillAnnouncement PROVE DaemonInv'
    <3>1. Types'
      BY <2>7, DaemonAssumption DEF FillAnnouncement, Types
    <3>2. Counters'
      BY <2>7, DaemonAssumption, AlignedNext
      DEF FillAnnouncement, Types, Counters, Running
    <3>3. Announced'
      BY <2>7, AlignedStep DEF FillAnnouncement, Types, Counters, Announced,
                               Running, Attesting
    <3>4. Readings' /\ History' /\ PriceBelongsToTick'
      BY <2>7 DEF FillAnnouncement, Readings, Signing, History, Running,
                  PriceBelongsToTick
    <3> QED BY <3>1, <3>2, <3>3, <3>4
  <2>8. ASSUME AnnouncedAll PROVE DaemonInv'
    <3>1. Announced'
      BY <2>8, DaemonAssumption, TickOfFacts
      DEF AnnouncedAll, AnnounceDue, Horizon, Types, Announced, Running
    <3>2. Types' /\ Counters' /\ Readings' /\ History' /\ PriceBelongsToTick'
      BY <2>8 DEF AnnouncedAll, Types, Counters, Running, Readings, Signing,
                  History, PriceBelongsToTick
    <3> QED BY <3>1, <3>2
  <2>9. ASSUME TakeTick PROVE DaemonInv'
    <3>1. Types'
      BY <2>9, DaemonAssumption DEF TakeTick, TickDue, Types
    <3>2. Counters'
      BY <2>9, DaemonAssumption, TickOfFacts, TickOfMono, AlignedNext,
         AlignedStep DEF TakeTick, TickDue, Types, Counters, Running
    <3>3. History'
      BY <2>9, DaemonAssumption DEF TakeTick, TickDue, Types, History, Running
    <3>4. Announced' /\ Readings' /\ PriceBelongsToTick'
      BY <2>9 DEF TakeTick, Announced, Running, Attesting, Late, Reading,
                  Current, Types, Readings, Signing, PriceBelongsToTick
    <3> QED BY <3>1, <3>2, <3>3, <3>4
  <2>10. ASSUME CrossCheck PROVE DaemonInv'
    BY <2>10 DEF CrossCheck, WriteFirst, Types, Counters, Running, Announced,
                 Attesting, Late, Readings, Signing, History,
                 PriceBelongsToTick
  <2>11. ASSUME FillAttestation PROVE DaemonInv'
    <3>1. History'
      BY <2>11, TickOfFacts, TickOfMono
      DEF FillAttestation, Types, Counters, History, Signing
    <3>2. PriceBelongsToTick'
      BY <2>11, DaemonAssumption, TickOfFacts
      DEF FillAttestation, Late, Types, Counters, Readings,
          PriceBelongsToTick, Signing
    <3>3. Types' /\ Counters' /\ Announced' /\ Readings'
      BY <2>11 DEF FillAttestation, Types, Counters, Running, Announced,
                   Attesting, Readings, Signing
    <3> QED BY <3>1, <3>2, <3>3
  <2>12. ASSUME TruncateLatest PROVE DaemonInv'
    BY <2>12 DEF TruncateLatest, Types, Counters, Running, Announced,
                 Attesting, Readings, Signing, History, PriceBelongsToTick
  <2>13. ASSUME FillLatest PROVE DaemonInv'
    BY <2>13 DEF FillLatest, Types, Counters, Running, Announced, Attesting,
                 Readings, Signing, History, PriceBelongsToTick
  <2>14. ASSUME Sleep PROVE DaemonInv'
    BY <2>14 DEF Sleep, Types, Counters, Running, Announced, Attesting,
                 Readings, Signing, History, PriceBelongsToTick
  <2>15. CASE UNCHANGED vars
    BY <2>15 DEF vars, Types, Counters, Announced, Readings, History,
                 PriceBelongsToTick, Running, Signing, Attesting, Late
  <2> QED
    BY <2>1, <2>2, <2>3, <2>4, <2>5, <2>6, <2>7, <2>8, <2>9, <2>10, <2>11,
       <2>12, <2>13, <2>14, <2>15
    DEF Next, Iteration
<1> QED BY <1>1, <1>2, PTL DEF Spec

-----------------------------------------------------------------------------
(* A tick gets two attestations only from two processes, of which the      *)
(* later one was started within that tick, however often the daemon is     *)
(* killed and restarted: the counters main starts from reach no further    *)
(* back than the current tick.                                             *)
THEOREM OnlyRestartsEquivocate == Spec => []EquivocationNeedsRestart
<1>1. DaemonInv => EquivocationNeedsRestart
  <2> SUFFICES ASSUME DaemonInv,
                      NEW a \in published, NEW b \in published,
                      a.tick = b.tick, a # b
               PROVE  /\ a.life # b.life
                      /\ a.life < b.life => a.tick = b.since
    BY DEF EquivocationNeedsRestart
  <2>1. a.life # b.life
    BY DEF DaemonInv, History
  <2>2. ASSUME a.life < b.life PROVE a.tick = b.since
    BY <2>2 DEF DaemonInv, History, Types
  <2> QED BY <2>1, <2>2
<1> QED BY <1>1, DaemonInvariant, PTL

(* Whenever a tick is being attested, its announcement and those of every  *)
(* tick through the lead time are whole on disk.                           *)
THEOREM AnnouncementsLead == Spec => []AnnouncedAhead
<1>1. DaemonInv => AnnouncedAhead
  <2> SUFFICES ASSUME DaemonInv,
                      pc \in {"check", "att", "latest", "latest_write"},
                      NEW k \in 0 .. LEAD_TICKS
               PROVE  last_attested + k * CADENCE \in ann
    BY DEF AnnouncedAhead
  <2> DEFINE t == last_attested + k * CADENCE
  <2>1. /\ Running /\ Attesting /\ Aligned(last_attested)
        /\ since <= last_attested /\ last_attested <= TickOf(now)
        /\ last_attested \in Nat /\ since \in Nat /\ TickOf(now) \in Nat
    BY TickOfFacts DEF DaemonInv, Counters, Types, Running, Attesting
  <2>2. /\ k * CADENCE <= LEAD_TICKS * CADENCE
        /\ k * CADENCE \in Nat /\ LEAD_TICKS * CADENCE \in Nat
    BY DaemonAssumption, TimesMono
  <2>3. t \in Nat /\ since <= t /\ t < next_announce
    BY <2>1, <2>2 DEF DaemonInv, Announced, Types
  <2>4. Aligned(t)
    <3>1. CADENCE \in Nat \ {0} /\ k \in Nat /\ last_attested % CADENCE = 0
      BY <2>1, DaemonAssumption DEF Aligned
    <3> QED BY <2>1, <3>1, MultipleTimes DEF Aligned
  <2> QED BY <2>1, <2>3, <2>4 DEF DaemonInv, Announced
<1> QED BY <1>1, DaemonInvariant, PTL

(* No tick is attested past the catch-up window, and no live price older   *)
(* than STALE_S is attested.                                               *)
THEOREM PricesBelongToTicks == Spec => []PriceBelongsToTick
<1>1. DaemonInv => PriceBelongsToTick
  BY DEF DaemonInv
<1> QED BY <1>1, DaemonInvariant, PTL

-----------------------------------------------------------------------------
(* Prices and their digits.                                                *)

(* Finitely many numbers have a bound. *)
LEMMA Bounded ==
    ASSUME NEW S, IsFiniteSet(S), NEW f \in [S -> Nat]
    PROVE  \E n \in Nat : \A s \in S : f[s] <= n
<1> DEFINE Good == {r \in SUBSET S : \E n \in Nat : \A s \in r : f[s] <= n}
<1>1. {} \in Good
  OBVIOUS
<1>2. ASSUME NEW r \in SUBSET S, r # {}, \A x \in r : r \ {x} \in Good
      PROVE  r \in Good
  <2>1. PICK x \in r : r \ {x} \in Good
    BY <1>2
  <2>2. PICK n \in Nat : \A s \in r \ {x} : f[s] <= n
    BY <2>1
  <2>3. f[x] \in Nat
    BY <2>1
  <2>4. \A s \in r : f[s] <= n + f[x]
    BY <2>2, <2>3
  <2> QED BY <2>3, <2>4
<1>3. S \in Good
  <2> HIDE DEF Good
  <2> QED BY <1>1, <1>2, SubsetInduction
<1> QED BY <1>3

(* The lower median is a quote: the least number that more than half, or   *)
(* exactly the middle, of the quotes reach.                                *)
LEMMA MedianIsQuoted ==
    ASSUME NEW q \in Quotes, Cardinality(Answered(q)) >= 2
    PROVE  MedianUsd(q) \in {q[v] : v \in Answered(q)}
<1> DEFINE A == Answered(q)
           Below(n) == {v \in A : q[v] < n}
           UpTo(n) == {v \in A : q[v] <= n}
           mid == (Cardinality(A) - 1) \div 2
           Enough == {n \in Nat : mid < Cardinality(UpTo(n))}
<1>1. A \subseteq Venue /\ q \in [Venue -> Nat] /\ \A v \in A : q[v] \in Nat \ {0}
  <2>1. q \in [Venue -> Price \cup {0}] /\ Price \cup {0} \subseteq Nat
    BY DaemonAssumption DEF Quotes
  <2>2. q \in [Venue -> Nat]
    BY <2>1
  <2> QED BY <2>2 DEF Answered
<1>2. IsFiniteSet(A) /\ Cardinality(A) \in Nat /\ mid \in Nat /\ mid < Cardinality(A)
  <2>1. IsFiniteSet(A)
    BY <1>1, DaemonAssumption, FS_Subset
  <2> HIDE DEF A
  <2>2. Cardinality(A) \in Nat /\ Cardinality(A) >= 2
    BY <2>1, FS_CardinalityType DEF A
  <2> QED BY <2>1, <2>2
<1>3. PICK p \in Enough : \A n \in Enough : p <= n
  <2>1. Enough # {}
    <3>1. PICK n \in Nat : \A v \in Venue : q[v] <= n
      BY <1>1, DaemonAssumption, Bounded
    <3>2. UpTo(n) = A
      BY <1>1, <3>1
    <3> HIDE DEF A, UpTo
    <3> QED BY <1>2, <3>2
  <2>2. Enough \subseteq Nat
    OBVIOUS
  <2>3. IsWellFoundedOn(OpToRel(<, Nat), Nat)
    BY NatLessThanWellFounded
  <2> HIDE DEF Enough
  <2>4. PICK p \in Enough : \A n \in Enough : ~(<<n, p>> \in OpToRel(<, Nat))
    BY <2>1, <2>2, <2>3, WFMin
  <2>5. ASSUME NEW n \in Enough, n < p PROVE FALSE
    <3>1. <<n, p>> \in {ss \in Nat \X Nat : ss[1] < ss[2]}
      BY <2>2, <2>5
    <3> QED BY <2>4, <3>1 DEF OpToRel
  <2> QED BY <2>2, <2>5
<1>4. p \in Nat /\ mid < Cardinality(UpTo(p))
  BY <1>3
<1>5. ~(mid < Cardinality(Below(p)))
  <2> SUFFICES ASSUME mid < Cardinality(Below(p)) PROVE FALSE
    OBVIOUS
  <2>1. CASE p = 0
    <3>1. Below(p) = {}
      BY <1>1, <2>1
    <3> HIDE DEF Below
    <3> QED BY <1>2, <3>1, FS_EmptySet
  <2>2. CASE p > 0
    <3>1. p - 1 \in Nat /\ Below(p) = UpTo(p - 1)
      BY <1>1, <1>4, <2>2
    <3>2. p - 1 \in Enough
      <4> HIDE DEF Below, UpTo, mid
      <4> QED BY <3>1
    <3> HIDE DEF Enough
    <3> QED BY <1>3, <1>4, <3>2
  <2> QED BY <1>4, <2>1, <2>2
<1>6. \E v \in A : q[v] = p
  <2> SUFFICES ASSUME \A v \in A : q[v] # p PROVE FALSE
    OBVIOUS
  <2>1. UpTo(p) = Below(p)
    BY <1>1, <1>4
  <2> HIDE DEF UpTo, Below, mid
  <2> QED BY <1>4, <1>5, <2>1
<1>7. Cardinality(Below(p)) <= mid
  <2>1. IsFiniteSet(Below(p))
    <3>1. Below(p) \in SUBSET A
      OBVIOUS
    <3> HIDE DEF A, Below
    <3> QED BY <1>2, <3>1, FS_Subset
  <2>2. Cardinality(Below(p)) \in Nat
    BY <2>1, FS_CardinalityType
  <2> HIDE DEF Below, mid
  <2> QED BY <1>2, <1>5, <2>2
<1>8. \E r \in {q[v] : v \in A} :
        /\ Cardinality({v \in A : q[v] < r}) <= mid
        /\ mid < Cardinality({v \in A : q[v] <= r})
  <2>1. p \in {q[v] : v \in A}
    BY <1>6
  <2> QED BY <1>4, <1>7, <2>1
<1> QED BY <1>8 DEF MedianUsd

-----------------------------------------------------------------------------
(* Whatever is attested is a price: one given, or a median of quotes. *)
PriceInv ==
    /\ \A p \in fixed_price : p \in Nat
    /\ \A c \in cache : c.price \in Nat
    /\ \A h \in held : h.price \in Nat
    /\ \A a \in published : a.price \in Nat

LEMMA PriceInvariant == Spec => []PriceInv
<1>1. Init => PriceInv
  BY DEF Init, PriceInv
<1>2. PriceInv /\ [Next]_vars => PriceInv'
  <2> SUFFICES ASSUME PriceInv, [Next]_vars PROVE PriceInv'
    OBVIOUS
  <2> USE DEF PriceInv
  <2>1. ASSUME NEW arg \in PriceArgs, Start(arg) PROVE PriceInv'
    <3>1. arg \subseteq Nat
      BY DaemonAssumption
    <3> QED BY <2>1, <3>1 DEF Start, fileVars
  <2>2. CASE Crash
    BY <2>2 DEF Crash, fileVars, lifeVars
  <2>3. CASE Refresh
    <3>1. PICK m \in Polls : cache' = {[at |-> clock, price |-> m]}
      BY <2>3 DEF Refresh
    <3>2. m \in Price
      <4>1. PICK q \in Quotes : Cardinality(Answered(q)) >= 2 /\ m = MedianUsd(q)
        BY DEF Polls
      <4>2. m \in {q[v] : v \in Answered(q)}
        BY <4>1, MedianIsQuoted
      <4> QED BY <4>2, DaemonAssumption DEF Quotes, Answered
    <3>3. m \in Nat
      BY <3>2, DaemonAssumption
    <3>4. \A c \in cache' : c.price = m
      BY <3>1
    <3>5. UNCHANGED <<fixed_price, held, published>>
      BY <2>3 DEF Refresh, loopVars, fileVars, lifeVars
    <3> QED BY <3>3, <3>4, <3>5
  <2>4. CASE TakeTick
    <3>1. \A r \in Reading : r.price \in Nat
      BY DEF Reading, Current
    <3> QED BY <2>4, <3>1 DEF TakeTick, fileVars, lifeVars
  <2>5. CASE CrossCheck
    BY <2>5 DEF CrossCheck, lifeVars
  <2>6. CASE FillAttestation
    <3>1. PICK h \in held :
            published' = published \cup
                {[tick |-> last_attested, price |-> h.price, fetched |-> h.fetched,
                  read_at |-> now, life |-> life, since |-> since]}
      BY <2>6 DEF FillAttestation
    <3> QED BY <2>6, <3>1 DEF FillAttestation, lifeVars
  <2>7. CASE Tick \/ Wake \/ TruncateAnnouncement \/ FillAnnouncement \/ AnnouncedAll
             \/ TruncateLatest \/ FillLatest \/ Sleep \/ UNCHANGED vars
    BY <2>7 DEF Tick, Wake, TruncateAnnouncement, FillAnnouncement, AnnouncedAll,
                TruncateLatest, FillLatest, Sleep, vars, loopVars, fileVars, lifeVars
  <2> QED BY <2>1, <2>2, <2>3, <2>4, <2>5, <2>6, <2>7 DEF Next, Iteration
<1> QED BY <1>1, <1>2, PTL DEF Spec

(* Two attestations convict the oracle exactly when they are of one tick   *)
(* and of two outcomes, for any number of digits: a price above the range  *)
(* is attested as the highest outcome, and below it no two prices have the *)
(* same digits, so that a convict always signed twice and whoever signed   *)
(* two outcomes can be convicted.                                          *)
THEOREM EvidenceConvicts == Spec => []EvidenceIsExact
<1>1. ASSUME NEW p \in Nat, NEW q \in Nat
      PROVE  Clamp(p) # Clamp(q) => \E i \in 1 .. NB_DIGITS : Digits(p)[i] # Digits(q)[i]
  <2> SUFFICES ASSUME \A i \in 1 .. NB_DIGITS : Digits(p)[i] = Digits(q)[i]
               PROVE  Clamp(p) = Clamp(q)
    OBVIOUS
  <2>1. NB_DIGITS \in Nat /\ NB_DIGITS > 0 /\ 2 ^ NB_DIGITS \in Nat /\ 2 ^ NB_DIGITS > 0
    BY DaemonAssumption, PowersOfTwo
  <2>2. /\ Clamp(p) \in Nat /\ Clamp(p) < 2 ^ NB_DIGITS
        /\ Clamp(q) \in Nat /\ Clamp(q) < 2 ^ NB_DIGITS
    BY <2>1 DEF Clamp, MaxOutcome
  <2>3. ASSUME NEW k \in 0 .. NB_DIGITS - 1
        PROVE  (Clamp(p) \div 2 ^ k) % 2 = (Clamp(q) \div 2 ^ k) % 2
    <3>1. NB_DIGITS - k \in 1 .. NB_DIGITS /\ NB_DIGITS - (NB_DIGITS - k) = k
      BY <2>1
    <3>2. Digits(p)[NB_DIGITS - k] = Digits(q)[NB_DIGITS - k]
      BY <3>1
    <3> QED BY <3>1, <3>2 DEF Digits, DigitsUnclamped
  <2> QED BY <2>1, <2>2, <2>3, DigitsDetermine
<1>2. ASSUME PriceInv PROVE EvidenceIsExact
  <2> SUFFICES ASSUME NEW a \in published, NEW b \in published
               PROVE  VerifyEquivocation(Attest(a.tick, a.price), Attest(b.tick, b.price))
                        <=> a.tick = b.tick /\ Clamp(a.price) # Clamp(b.price)
    BY DEF EvidenceIsExact
  <2>1. a.price \in Nat /\ b.price \in Nat
    BY <1>2 DEF PriceInv
  <2>2. VerifyEquivocation(Attest(a.tick, a.price), Attest(b.tick, b.price)) <=>
          /\ a.tick = b.tick
          /\ \E i \in 1 .. NB_DIGITS : Digits(a.price)[i] # Digits(b.price)[i]
    BY DEF VerifyEquivocation, Attest
  <2>3. Clamp(a.price) = Clamp(b.price) => Digits(a.price) = Digits(b.price)
    BY DEF Digits
  <2> QED BY <1>1, <2>1, <2>2, <2>3
<1> QED BY <1>2, PriceInvariant, PTL
=============================================================================
