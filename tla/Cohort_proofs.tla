---------------------------- MODULE Cohort_proofs ----------------------------
(***************************************************************************)
(* Whatever members deal again, are killed or rewrite, a key share fits    *)
(* the group key beside it, and shares that agree make an attestation that *)
(* verifies, for any number of members, seeds, ticks and aggregators.      *)
(***************************************************************************)
EXTENDS Cohort, SequenceTheorems, TLAPS

(* A share that any quorum can use: of a key that fits, for a quorum that  *)
(* was checked when the share was made.                                    *)
Fits(z) == z.key.x = z.key.group /\ QuorumOk(z.quorum)

(* A reader holds the packages it has read and the shares of the same      *)
(* dealers, but for the last package.                                      *)
Readers == \A i \in Member :
    node[i].at = "reading" =>
        /\ Len(node[i].pkgs) <= N
        /\ Len(node[i].dealt) <= Len(node[i].pkgs)
        /\ Len(node[i].pkgs) <= Len(node[i].dealt) + 1

Shares == \A ts \in Tick, i \in Member : \A z \in share[ts][i] : Fits(z)

(* An aggregator has read one share for each of the first of its quorum.   *)
Collectors == \A a \in Aggregator :
    agg[a].at = "collecting" =>
        /\ agg[a].quorum /= <<>>
        /\ Len(agg[a].shares) <= Len(agg[a].quorum)
        /\ \A m \in 1..Len(agg[a].shares) : Fits(agg[a].shares[m])

Attested == \A ts \in Tick : \A a \in att[ts] :
    /\ a.quorum /= <<>>
    /\ Len(a.shares) = Len(a.quorum)
    /\ \A m \in 1..Len(a.shares) : Fits(a.shares[m])

CohortInv ==
    CohortTypeOK /\ Readers /\ SharesFitKeys /\ Shares /\ Collectors /\ Attested

-----------------------------------------------------------------------------
(* What a command holds at each step.                                      *)
LEMMA NodeKinds ==
    ASSUME CohortTypeOK, NEW i \in Member
    PROVE  /\ node[i].at = "dealing" => node[i] \in Dealing
           /\ node[i].at = "reading" => node[i] \in Reading
<1>1. node[i] \in {Idle} \cup Dealing \cup Reading
  BY DEF CohortTypeOK
<1> QED BY <1>1 DEF Idle, Dealing, Reading

LEMMA AggKinds ==
    ASSUME CohortTypeOK, NEW a \in Aggregator
    PROVE  agg[a].at = "collecting" => agg[a] \in Collecting
<1>1. agg[a] \in {Idle} \cup Collecting
  BY DEF CohortTypeOK
<1> QED BY <1>1 DEF Idle, Collecting

(* A file written is the whole value or nothing.                           *)
LEMMA WrittenIsOption ==
    ASSUME NEW S, NEW v \in S, NEW f \in Written(v)
    PROVE  f \in Option(S) /\ f \subseteq {v}
BY DEF Written, Option

LEMMA OptionMembers ==
    ASSUME NEW S, NEW f \in Option(S)
    PROVE  f \subseteq S
BY DEF Option

(* A reader's record after one more file.                                  *)
LEMMA ReadingWith ==
    ASSUME NEW d \in Reading, NEW q \in Keys
    PROVE  /\ [d EXCEPT !.pkgs = q] \in Reading
           /\ [d EXCEPT !.pkgs = q].pkgs = q /\ [d EXCEPT !.pkgs = q].dealt = d.dealt
           /\ [d EXCEPT !.dealt = q] \in Reading
           /\ [d EXCEPT !.dealt = q].dealt = q /\ [d EXCEPT !.dealt = q].pkgs = d.pkgs
BY DEF Reading

-----------------------------------------------------------------------------
LEMMA CohortInit == Init => CohortInv
<1> SUFFICES ASSUME Init PROVE CohortInv
  OBVIOUS
<1>1. CohortTypeOK
  BY DEF Init, CohortTypeOK, Option, Idle
<1>2. Readers /\ Collectors
  BY DEF Init, Readers, Collectors, Idle
<1>3. SharesFitKeys /\ Shares /\ Attested
  BY DEF Init, SharesFitKeys, Shares, Attested
<1> QED BY <1>1, <1>2, <1>3 DEF CohortInv

LEMMA Round1Step ==
    ASSUME CohortInv, NEW i \in Member, NEW s \in Seeds[i], Round1(i, s)
    PROVE  CohortInv'
<1>1. /\ node' = [node EXCEPT ![i] = [at |-> "dealing", seed |-> s, to |-> 0]]
      /\ deals' = [deals EXCEPT ![i] = @ + 1]
      /\ UNCHANGED <<r1, r2, keyshare, printed, commit, share, ann, att, agg>>
  BY DEF Round1, signVars, outVars
<1>2. [at |-> "dealing", seed |-> s, to |-> 0] \in Dealing
  BY CohortAssumption DEF Dealing
<1>3. CohortTypeOK'
  BY <1>1, <1>2 DEF CohortInv, CohortTypeOK
<1>4. Readers'
  BY <1>1 DEF CohortInv, CohortTypeOK, Readers
<1> QED BY <1>1, <1>3, <1>4
        DEF CohortInv, SharesFitKeys, Shares, Collectors, Attested, Fits

LEMMA PublishStep ==
    ASSUME CohortInv, NEW i \in Member, Publish(i)
    PROVE  CohortInv'
<1> DEFINE d == node[i]
<1>1. d \in Dealing /\ d.seed \in Seed /\ d.to \in 0..N
  BY NodeKinds DEF CohortInv, Publish, Dealing
<1>2. PICK f \in Written(d.seed) :
        /\ IF d.to = 0
           THEN r1' = [r1 EXCEPT ![i] = f] /\ UNCHANGED r2
           ELSE r2' = [r2 EXCEPT ![i][d.to] = f] /\ UNCHANGED r1
        /\ node' = [node EXCEPT ![i] =
                IF f = {} \/ LastFile(d) THEN Idle ELSE [d EXCEPT !.to = @ + 1]]
  BY DEF Publish
<1>3. UNCHANGED <<keyshare, printed, deals, commit, share, ann, att, agg>>
  BY DEF Publish, signVars, outVars
<1>4. f \in Option(Seed)
  BY <1>1, <1>2, WrittenIsOption
<1>5. ~LastFile(d) => [d EXCEPT !.to = @ + 1] \in Dealing
  BY <1>1, CohortAssumption DEF LastFile, Dealing
<1>6. r1' \in [Member -> Option(Seed)] /\ r2' \in [Member -> [Member -> Option(Seed)]]
  <2>1. r1 \in [Member -> Option(Seed)] /\ r2 \in [Member -> [Member -> Option(Seed)]]
    BY DEF CohortInv, CohortTypeOK
  <2>2. CASE d.to = 0
    BY <1>2, <1>4, <2>1, <2>2
  <2>3. CASE d.to /= 0
    <3>1. d.to \in Member
      BY <1>1, <2>3, CohortAssumption DEF Member
    <3>2. r2' = [r2 EXCEPT ![i] = [r2[i] EXCEPT ![d.to] = f]] /\ UNCHANGED r1
      BY <1>2, <2>3
    <3> HIDE DEF d
    <3>3. [r2[i] EXCEPT ![d.to] = f] \in [Member -> Option(Seed)]
      BY <1>4, <2>1, <3>1
    <3> QED BY <2>1, <3>2, <3>3
  <2> QED BY <2>2, <2>3
<1>7. /\ node' \in [Member -> {Idle} \cup Dealing \cup Reading]
      /\ node'[i] \in {Idle} \cup Dealing /\ \A j \in Member \ {i} : node'[j] = node[j]
  BY <1>2, <1>5 DEF CohortInv, CohortTypeOK
<1>8. CohortTypeOK'
  BY <1>3, <1>6, <1>7 DEF CohortInv, CohortTypeOK
<1>9. Readers'
  BY <1>7 DEF CohortInv, Readers, Idle, Dealing
<1> QED BY <1>3, <1>8, <1>9
        DEF CohortInv, SharesFitKeys, Shares, Collectors, Attested, Fits

LEMMA FinalizeStep ==
    ASSUME CohortInv, NEW i \in Member, Finalize(i)
    PROVE  CohortInv'
<1> DEFINE d == [at |-> "reading", pkgs |-> <<>>, dealt |-> <<>>]
<1>1. /\ node' = [node EXCEPT ![i] = d]
      /\ UNCHANGED <<r1, r2, keyshare, printed, deals, commit, share, ann, att, agg>>
  BY DEF Finalize, keyVars, signVars, outVars
<1>2. d \in Reading /\ Len(d.pkgs) = 0 /\ Len(d.dealt) = 0
  BY DEF Reading, Keys
<1>3. CohortTypeOK'
  BY <1>1, <1>2 DEF CohortInv, CohortTypeOK
<1>4. Readers'
  BY <1>1, <1>2, CohortAssumption DEF CohortInv, CohortTypeOK, Readers
<1> QED BY <1>1, <1>3, <1>4
        DEF CohortInv, SharesFitKeys, Shares, Collectors, Attested, Fits

(* A read changes nothing but the reader.                                  *)
LEMMA ReadStep ==
    ASSUME CohortInv, NEW i \in Member, ReadPackage(i) \/ ReadShare(i)
    PROVE  CohortInv'
<1> DEFINE d == node[i]
<1>1. d \in Reading /\ d.pkgs \in Seq(Seed) /\ d.dealt \in Seq(Seed)
      /\ Len(d.pkgs) \in Nat /\ Len(d.dealt) \in Nat
  BY NodeKinds DEF CohortInv, ReadPackage, ReadShare, Reading, Keys
<1>2. UNCHANGED <<r1, r2, keyshare, printed, deals, commit, share, ann, att, agg>>
  BY DEF ReadPackage, ReadShare, keyVars, signVars, outVars
<1>3. /\ Len(d.pkgs) <= N /\ Len(d.dealt) <= Len(d.pkgs) /\ Len(d.pkgs) <= Len(d.dealt) + 1
  BY DEF CohortInv, Readers, ReadPackage, ReadShare
<1> DEFINE Next1(e) ==
        /\ e \in Reading
        /\ Len(e.pkgs) <= N /\ Len(e.dealt) <= Len(e.pkgs) /\ Len(e.pkgs) <= Len(e.dealt) + 1
<1>4. \E e : node' = [node EXCEPT ![i] = e] /\ (e = Idle \/ Next1(e))
  <2>1. CASE node' = [node EXCEPT ![i] = Idle]
    BY <2>1
  <2>2. CASE ReadPackage(i) /\ node' /= [node EXCEPT ![i] = Idle]
    <3>1. PICK s \in r1[Len(d.pkgs) + 1] : node' = [node EXCEPT ![i] = [d EXCEPT !.pkgs = Append(@, s)]]
      BY <2>2 DEF ReadPackage
    <3>2. Len(d.pkgs) + 1 \in Member /\ Len(d.pkgs) = Len(d.dealt) /\ Len(d.pkgs) + 1 <= N
      BY <1>1, <2>2, CohortAssumption DEF ReadPackage, Member
    <3>3. s \in Seed
      BY <3>1, <3>2, OptionMembers DEF CohortInv, CohortTypeOK
    <3>4. Append(d.pkgs, s) \in Seq(Seed) /\ Len(Append(d.pkgs, s)) = Len(d.pkgs) + 1
      BY <1>1, <3>3
    <3> DEFINE q == Append(d.pkgs, s)
               e == [d EXCEPT !.pkgs = q]
    <3>5. e \in Reading /\ e.pkgs = q /\ e.dealt = d.dealt
      BY <1>1, <3>4, ReadingWith DEF Keys
    <3> HIDE DEF e
    <3>6. Next1(e)
      BY <1>1, <3>2, <3>4, <3>5
    <3> QED BY <3>1, <3>6 DEF e
  <2>3. CASE ReadShare(i) /\ node' /= [node EXCEPT ![i] = Idle]
    <3>1. PICK s \in r2[Len(d.pkgs)][i] : node' = [node EXCEPT ![i] = [d EXCEPT !.dealt = Append(@, s)]]
      BY <2>3 DEF ReadShare
    <3>2. Len(d.pkgs) \in Member /\ Len(d.pkgs) = Len(d.dealt) + 1
      BY <1>1, <1>3, <2>3, CohortAssumption DEF ReadShare, Member
    <3>3. s \in Seed
      BY <3>1, <3>2, OptionMembers DEF CohortInv, CohortTypeOK
    <3>4. Append(d.dealt, s) \in Seq(Seed) /\ Len(Append(d.dealt, s)) = Len(d.dealt) + 1
      BY <1>1, <3>3
    <3> DEFINE q == Append(d.dealt, s)
               e == [d EXCEPT !.dealt = q]
    <3>5. e \in Reading /\ e.dealt = q /\ e.pkgs = d.pkgs
      BY <1>1, <3>4, ReadingWith DEF Keys
    <3> HIDE DEF e
    <3>6. Next1(e)
      BY <1>1, <1>3, <3>2, <3>4, <3>5
    <3> QED BY <3>1, <3>6 DEF e
  <2> QED BY <2>1, <2>2, <2>3
<1>5. PICK e : node' = [node EXCEPT ![i] = e] /\ (e = Idle \/ Next1(e))
  BY <1>4
<1>6. node'[i] = e /\ \A j \in Member \ {i} : node'[j] = node[j]
  BY <1>5 DEF CohortInv, CohortTypeOK
<1>7. CohortTypeOK'
  BY <1>2, <1>5, <1>6 DEF CohortInv, CohortTypeOK
<1>8. Readers'
  BY <1>5, <1>6 DEF CohortInv, Readers, Idle
<1> QED BY <1>2, <1>7, <1>8
        DEF CohortInv, SharesFitKeys, Shares, Collectors, Attested, Fits

(* The key share of a reader that has read everything fits, as every share *)
(* it sums is on the polynomial of its package.                            *)
LEMMA CombineStep ==
    ASSUME CohortInv, NEW i \in Member, Combine(i)
    PROVE  CohortInv'
<1> DEFINE d == node[i]
<1>1. /\ d \in Reading /\ d.pkgs \in Seq(Seed) /\ d.dealt \in Seq(Seed)
      /\ Len(d.pkgs) = N /\ Len(d.dealt) = N
  BY NodeKinds DEF CohortInv, Combine, Reading, Keys
<1>2. /\ node' = [node EXCEPT ![i] = Idle]
      /\ UNCHANGED <<r1, r2, deals, commit, share, ann, att, agg>>
  BY DEF Combine, signVars, outVars
<1>3. node' \in [Member -> {Idle} \cup Dealing \cup Reading] /\ Readers'
  BY <1>2 DEF CohortInv, CohortTypeOK, Readers, Idle
<1>4. \/ UNCHANGED <<keyshare, printed>>
      \/ /\ \A from \in Member : d.pkgs[from] = d.dealt[from]
         /\ \E f \in Written(FinalizedKey(d)) :
                /\ keyshare' = [keyshare EXCEPT ![i] = f]
                /\ printed' = printed \cup {k.group : k \in f}
  BY DEF Combine, ShareMatches
<1>5. CASE UNCHANGED <<keyshare, printed>>
  <2>1. CohortTypeOK'
    BY <1>2, <1>3, <1>5 DEF CohortInv, CohortTypeOK
  <2> QED BY <1>2, <1>3, <1>5, <2>1
          DEF CohortInv, SharesFitKeys, Shares, Collectors, Attested, Fits
<1>6. CASE /\ \A from \in Member : d.pkgs[from] = d.dealt[from]
           /\ \E f \in Written(FinalizedKey(d)) :
                  /\ keyshare' = [keyshare EXCEPT ![i] = f]
                  /\ printed' = printed \cup {k.group : k \in f}
  <2>1. PICK f \in Written(FinalizedKey(d)) :
            /\ keyshare' = [keyshare EXCEPT ![i] = f]
            /\ printed' = printed \cup {k.group : k \in f}
    BY <1>6
  <2>2. d.pkgs = d.dealt
    BY <1>1, <1>6, CohortAssumption DEF Member
  <2>3. \A k \in f : k \in KeyShare /\ k.x = k.group /\ Len(k.x) = N /\ k.group \in Keys
    BY <1>1, <2>1, <2>2 DEF Written, FinalizedKey, KeyShare, Keys
  <2>4. keyshare' \in [Member -> SUBSET KeyShare] /\ printed' \subseteq Keys
    BY <2>1, <2>3 DEF CohortInv, CohortTypeOK
  <2>5. SharesFitKeys'
    BY <2>1, <2>3 DEF CohortInv, CohortTypeOK, SharesFitKeys
  <2>6. CohortTypeOK'
    BY <1>2, <1>3, <2>4 DEF CohortInv, CohortTypeOK
  <2> QED BY <1>2, <1>3, <2>5, <2>6 DEF CohortInv, Shares, Collectors, Attested, Fits
<1> QED BY <1>4, <1>5, <1>6

LEMMA AnnounceStep ==
    ASSUME CohortInv, NEW i \in Member, NEW ts \in Tick, AnnounceCommit(i, ts)
    PROVE  CohortInv'
<1>1. PICK done \in {{i}, {}} : commit' = [commit EXCEPT ![ts] = (@ \ {i}) \cup done]
  BY DEF AnnounceCommit
<1>2. UNCHANGED <<r1, r2, keyshare, printed, deals, share, ann, att, agg, node>>
  BY DEF AnnounceCommit, keyVars, outVars
<1>3. commit' \in [Tick -> SUBSET Member]
  BY <1>1 DEF CohortInv, CohortTypeOK
<1>4. CohortTypeOK'
  BY <1>2, <1>3 DEF CohortInv, CohortTypeOK
<1> QED BY <1>2, <1>4
        DEF CohortInv, Readers, SharesFitKeys, Shares, Collectors, Attested, Fits

LEMMA AttestShareStep ==
    ASSUME CohortInv, NEW i \in Member, NEW ts \in Tick, NEW p \in Price, NEW q \in Quorums,
           AttestShare(i, ts, p, q)
    PROVE  CohortInv'
<1>0. PICK k \in keyshare[i] : \E f \in Written([key |-> k, price |-> p, quorum |-> q]) :
            share' = [share EXCEPT ![ts][i] = f]
  BY DEF AttestShare
<1>1. PICK f \in Written([key |-> k, price |-> p, quorum |-> q]) :
            share' = [share EXCEPT ![ts][i] = f]
  BY <1>0
<1>2. QuorumOk(q) /\ UNCHANGED <<r1, r2, keyshare, printed, deals, commit, ann, att, agg, node>>
  BY DEF AttestShare, keyVars, outVars
<1>3. k \in KeyShare /\ k.x = k.group
  BY <1>1 DEF CohortInv, CohortTypeOK, SharesFitKeys
<1>4. \A z \in f : z \in SigShare /\ Fits(z)
  BY <1>1, <1>2, <1>3 DEF Written, SigShare, Fits
<1>5. share' = [share EXCEPT ![ts] = [share[ts] EXCEPT ![i] = f]]
  BY <1>1
<1>6. share[ts] \in [Member -> SUBSET SigShare] /\ share \in [Tick -> [Member -> SUBSET SigShare]]
  BY DEF CohortInv, CohortTypeOK
<1>7. [share[ts] EXCEPT ![i] = f] \in [Member -> SUBSET SigShare]
  BY <1>4, <1>6
<1>8. share' \in [Tick -> [Member -> SUBSET SigShare]]
  BY <1>5, <1>6, <1>7
<1>9. Shares'
  <2> SUFFICES ASSUME NEW u \in Tick, NEW j \in Member, NEW z \in share'[u][j]
               PROVE  Fits(z)
    BY DEF Shares, Fits, QuorumOk, Members, Distinct
  <2>1. share'[u][j] = IF u = ts /\ j = i THEN f ELSE share[u][j]
    BY <1>5, <1>6
  <2> QED BY <1>4, <2>1 DEF CohortInv, Shares
<1>10. CohortTypeOK'
  BY <1>2, <1>8 DEF CohortInv, CohortTypeOK
<1> QED BY <1>2, <1>9, <1>10
        DEF CohortInv, Readers, SharesFitKeys, Collectors, Attested, Fits

LEMMA AggregateStep ==
    ASSUME CohortInv, NEW a \in Aggregator, NEW ts \in Tick, NEW p \in Price,
           NEW q \in Quorums, NEW g \in printed, Aggregate(a, ts, p, q, g)
    PROVE  CohortInv'
<1> DEFINE d == [at |-> "collecting", ts |-> ts, price |-> p, quorum |-> q,
                 group |-> g, shares |-> <<>>]
<1>1. PICK f \in Written(q) : /\ ann' = [ann EXCEPT ![ts] = f]
                              /\ agg' = [agg EXCEPT ![a] = IF f = {} THEN Idle ELSE d]
  BY DEF Aggregate
<1>2. q /= <<>> /\ UNCHANGED <<r1, r2, keyshare, printed, deals, commit, share, att, node>>
  BY DEF Aggregate, keyVars, signVars
<1>3. d \in Collecting /\ d.quorum = q /\ Len(d.shares) = 0
  BY DEF Collecting, CohortInv, CohortTypeOK
<1>4. ann' \in [Tick -> Option(Quorums)]
  BY <1>1, WrittenIsOption DEF CohortInv, CohortTypeOK
<1>5. q \in Seq(Member)
  BY CohortAssumption
<1> HIDE DEF d
<1>6. /\ agg' \in [Aggregator -> {Idle} \cup Collecting]
      /\ agg'[a] \in {Idle, d} /\ \A b \in Aggregator \ {a} : agg'[b] = agg[b]
  BY <1>1, <1>3 DEF CohortInv, CohortTypeOK
<1>7. Collectors'
  <2> SUFFICES ASSUME NEW b \in Aggregator, agg'[b].at = "collecting"
               PROVE  /\ agg'[b].quorum /= <<>>
                      /\ Len(agg'[b].shares) <= Len(agg'[b].quorum)
                      /\ \A m \in 1..Len(agg'[b].shares) : Fits(agg'[b].shares[m])
    BY DEF Collectors, Fits
  <2>1. CASE b # a
    BY <1>6, <2>1 DEF CohortInv, Collectors
  <2>2. CASE b = a
    <3>1. agg'[a] # Idle
      BY <2>2 DEF Idle
    <3>2. agg'[b] = d /\ Len(q) \in Nat
      BY <1>5, <1>6, <2>2, <3>1
    <3>3. 1..Len(d.shares) = {}
      BY <1>3
    <3> QED BY <1>2, <1>3, <3>2, <3>3
  <2> QED BY <2>1, <2>2
<1>8. CohortTypeOK'
  BY <1>2, <1>4, <1>6 DEF CohortInv, CohortTypeOK
<1> QED BY <1>2, <1>7, <1>8
        DEF CohortInv, Readers, SharesFitKeys, Shares, Attested, Fits

LEMMA CollectStep ==
    ASSUME CohortInv, NEW a \in Aggregator, Collect(a)
    PROVE  CohortInv'
<1> DEFINE d == agg[a]
<1>1. /\ d \in Collecting /\ d.shares \in Seq(SigShare) /\ d.quorum \in Seq(Member)
      /\ d.ts \in Tick /\ d.quorum \in Quorums
  BY AggKinds, CohortAssumption DEF CohortInv, Collect, Collecting
<1>2. UNCHANGED <<r1, r2, keyshare, printed, deals, commit, share, ann, att, node>>
  BY DEF Collect, keyVars, signVars
<1>3. /\ d.quorum /= <<>> /\ Len(d.shares) < Len(d.quorum)
      /\ \A m \in 1..Len(d.shares) : Fits(d.shares[m])
  BY DEF CohortInv, Collectors, Collect
<1> DEFINE Grown(e) ==
        /\ e \in Collecting /\ e.quorum = d.quorum
        /\ Len(e.shares) <= Len(d.quorum)
        /\ \A m \in 1..Len(e.shares) : Fits(e.shares[m])
<1>4. \E e : agg' = [agg EXCEPT ![a] = e] /\ (e = Idle \/ Grown(e))
  <2>1. CASE agg' = [agg EXCEPT ![a] = Idle]
    BY <2>1
  <2>2. CASE agg' /= [agg EXCEPT ![a] = Idle]
    <3>1. PICK z \in share[d.ts][d.quorum[Len(d.shares) + 1]] :
              agg' = [agg EXCEPT ![a] = [d EXCEPT !.shares = Append(@, z)]]
      BY <2>2 DEF Collect
    <3>2. d.quorum[Len(d.shares) + 1] \in Member
      BY <1>1, <1>3
    <3>3. z \in SigShare /\ Fits(z)
      BY <1>1, <3>1, <3>2 DEF CohortInv, CohortTypeOK, Shares
    <3> DEFINE q == Append(d.shares, z)
               e == [d EXCEPT !.shares = q]
    <3>4. /\ q \in Seq(SigShare) /\ Len(q) = Len(d.shares) + 1
          /\ \A m \in 1..Len(q) : q[m] = IF m = Len(d.shares) + 1 THEN z ELSE d.shares[m]
      BY <1>1, <3>3
    <3> HIDE DEF q
    <3>5. e \in Collecting /\ e.shares = q /\ e.quorum = d.quorum
      BY <1>1, <3>4 DEF Collecting
    <3>6. \A m \in 1..Len(q) : Fits(q[m])
      BY <1>1, <1>3, <3>3, <3>4
    <3>7. Len(q) <= Len(d.quorum)
      BY <1>1, <1>3, <3>4
    <3> HIDE DEF e
    <3>8. Grown(e)
      BY <3>5, <3>6, <3>7
    <3> QED BY <3>1, <3>8 DEF e, q
  <2> QED BY <2>1, <2>2
<1>5. PICK e : agg' = [agg EXCEPT ![a] = e] /\ (e = Idle \/ Grown(e))
  BY <1>4
<1>6. /\ agg' \in [Aggregator -> {Idle} \cup Collecting]
      /\ agg'[a] = e /\ \A b \in Aggregator \ {a} : agg'[b] = agg[b]
  BY <1>5 DEF CohortInv, CohortTypeOK
<1>7. Collectors'
  <2> SUFFICES ASSUME NEW b \in Aggregator, agg'[b].at = "collecting"
               PROVE  /\ agg'[b].quorum /= <<>>
                      /\ Len(agg'[b].shares) <= Len(agg'[b].quorum)
                      /\ \A m \in 1..Len(agg'[b].shares) : Fits(agg'[b].shares[m])
    BY DEF Collectors, Fits
  <2>1. CASE b # a
    BY <1>6, <2>1 DEF CohortInv, Collectors
  <2>2. CASE b = a
    <3>1. agg'[a] # Idle
      BY <2>2 DEF Idle
    <3>2. Grown(agg'[b])
      BY <1>5, <1>6, <2>2, <3>1
    <3> QED BY <1>3, <3>2
  <2> QED BY <2>1, <2>2
<1>8. CohortTypeOK'
  BY <1>2, <1>6 DEF CohortInv, CohortTypeOK
<1> QED BY <1>2, <1>7, <1>8
        DEF CohortInv, Readers, SharesFitKeys, Shares, Attested, Fits

(* An aggregator that ends leaves the others as they are.                  *)
LEMMA AggregatorEnds ==
    ASSUME CohortInv, NEW a \in Aggregator, agg' = [agg EXCEPT ![a] = Idle]
    PROVE  agg' \in [Aggregator -> {Idle} \cup Collecting] /\ Collectors'
<1>1. /\ agg' \in [Aggregator -> {Idle} \cup Collecting]
      /\ agg'[a] = Idle /\ \A b \in Aggregator \ {a} : agg'[b] = agg[b]
  BY DEF CohortInv, CohortTypeOK
<1>2. ASSUME NEW b \in Aggregator, agg'[b].at = "collecting"
      PROVE  /\ agg'[b].quorum /= <<>>
             /\ Len(agg'[b].shares) <= Len(agg'[b].quorum)
             /\ \A m \in 1..Len(agg'[b].shares) : Fits(agg'[b].shares[m])
  <2>1. b \in Aggregator \ {a}
    BY <1>1, <1>2 DEF Idle
  <2> QED BY <1>1, <1>2, <2>1 DEF CohortInv, Collectors
<1> QED BY <1>1, <1>2 DEF Collectors, Fits, QuorumOk, Members, Distinct

(* What is written has one share for each of the quorum, all of them fit.  *)
LEMMA WriteAttStep ==
    ASSUME CohortInv, NEW a \in Aggregator, WriteAtt(a)
    PROVE  CohortInv'
<1> DEFINE d == agg[a]
           v == [price |-> d.price, quorum |-> d.quorum, group |-> d.group, shares |-> d.shares]
<1>1. d \in Collecting /\ d.ts \in Tick
  BY AggKinds DEF CohortInv, WriteAtt, Collecting
<1>2. /\ agg' = [agg EXCEPT ![a] = Idle]
      /\ UNCHANGED <<r1, r2, keyshare, printed, deals, commit, share, ann, node>>
  BY DEF WriteAtt, keyVars, signVars
<1>3. PICK f \in Written(v) : att' = [att EXCEPT ![d.ts] = f]
  BY DEF WriteAtt
<1>4. /\ d.quorum /= <<>> /\ Len(d.shares) = Len(d.quorum)
      /\ \A m \in 1..Len(d.shares) : Fits(d.shares[m])
  BY DEF CohortInv, Collectors, WriteAtt
<1>5. v \in Attestation /\ v.quorum = d.quorum /\ v.shares = d.shares
  BY <1>1 DEF Collecting, Attestation
<1> HIDE DEF v
<1>6. \A z \in f : z = v
  BY <1>3 DEF Written
<1> HIDE DEF d
<1>7. /\ att' \in [Tick -> SUBSET Attestation]
      /\ \A ts \in Tick : att'[ts] \in {f, att[ts]}
  BY <1>1, <1>3, <1>5, <1>6 DEF CohortInv, CohortTypeOK
<1>8. Attested'
  <2> SUFFICES ASSUME NEW ts \in Tick, NEW z \in att'[ts]
               PROVE  /\ z.quorum /= <<>> /\ Len(z.shares) = Len(z.quorum)
                      /\ \A m \in 1..Len(z.shares) : Fits(z.shares[m])
    BY DEF Attested, Fits, QuorumOk, Members, Distinct
  <2>1. CASE z \in f
    BY <1>4, <1>5, <1>6, <2>1
  <2>2. CASE z \in att[ts]
    BY <2>2 DEF CohortInv, Attested
  <2> QED BY <1>7, <2>1, <2>2
<1>9. agg' \in [Aggregator -> {Idle} \cup Collecting] /\ Collectors'
  BY <1>2, AggregatorEnds
<1>10. CohortTypeOK'
  BY <1>2, <1>7, <1>9 DEF CohortInv, CohortTypeOK
<1> QED BY <1>2, <1>8, <1>9, <1>10
        DEF CohortInv, Readers, SharesFitKeys, Shares, Fits

LEMMA CrashStep ==
    ASSUME CohortInv, Crash
    PROVE  CohortInv'
<1>1. UNCHANGED <<r1, r2, keyshare, printed, deals, commit, share, ann, att>>
  BY DEF Crash, keyVars, signVars
<1>2. CASE \E i \in Member : node' = [node EXCEPT ![i] = Idle] /\ UNCHANGED agg
  <2>1. node' \in [Member -> {Idle} \cup Dealing \cup Reading] /\ Readers'
    BY <1>2 DEF CohortInv, CohortTypeOK, Readers, Idle
  <2> QED BY <1>1, <1>2, <2>1
          DEF CohortInv, CohortTypeOK, SharesFitKeys, Shares, Collectors, Attested, Fits
<1>3. CASE \E a \in Aggregator : agg' = [agg EXCEPT ![a] = Idle] /\ UNCHANGED node
  <2>1. agg' \in [Aggregator -> {Idle} \cup Collecting] /\ Collectors'
    BY <1>3, AggregatorEnds
  <2> QED BY <1>1, <1>3, <2>1
          DEF CohortInv, CohortTypeOK, Readers, SharesFitKeys, Shares, Attested, Fits
<1> QED BY <1>2, <1>3 DEF Crash

LEMMA CohortStep == CohortInv /\ [Next]_vars => CohortInv'
<1> SUFFICES ASSUME CohortInv, [Next]_vars PROVE CohortInv'
  OBVIOUS
<1>1. ASSUME NEW i \in Member, KeyStep(i) PROVE CohortInv'
  BY <1>1, Round1Step, PublishStep, FinalizeStep, ReadStep, CombineStep DEF KeyStep
<1>2. ASSUME NEW i \in Member, NEW ts \in Tick, SignStep(i, ts) PROVE CohortInv'
  BY <1>2, AnnounceStep, AttestShareStep DEF SignStep
<1>3. ASSUME NEW a \in Aggregator, AggregatorStep(a) PROVE CohortInv'
  BY <1>3, AggregateStep, CollectStep, WriteAttStep DEF AggregatorStep
<1>4. CASE UNCHANGED vars
  BY <1>4 DEF vars, keyVars, signVars, outVars, CohortInv, CohortTypeOK, Readers,
              SharesFitKeys, Shares, Collectors, Attested, Fits
<1> QED BY <1>1, <1>2, <1>3, <1>4, CrashStep DEF Next

LEMMA CohortInvariant == Spec => []CohortInv
  BY CohortInit, CohortStep, PTL DEF Spec

-----------------------------------------------------------------------------
(* The files cohortd writes and the commands that are running keep their   *)
(* types, for any number of members and however often each deals.          *)
THEOREM CohortTypeCorrect == Spec => []CohortTypeOK
<1>1. CohortInv => CohortTypeOK
  BY DEF CohortInv
<1> QED BY <1>1, CohortInvariant, PTL

(* dkg_finalize never writes a key share that its group key does not fit,  *)
(* whenever dealers start over between its reads.                          *)
THEOREM KeySharesFit == Spec => []SharesFitKeys
<1>1. CohortInv => SharesFitKeys
  BY DEF CohortInv
<1> QED BY <1>1, CohortInvariant, PTL

(* aggregate verifies nothing; when the shares it read agree with the key, *)
(* price and quorum it was given, what it writes verifies: the members     *)
(* checked the quorum and finalize the key.                                *)
THEOREM AgreementVerifies == Spec => []AgreedSharesVerify
<1>1. CohortInv => AgreedSharesVerify
  <2> SUFFICES ASSUME CohortInv, NEW ts \in Tick, NEW a \in att[ts],
                      \A m \in 1..Len(a.quorum) :
                        /\ a.shares[m].key.group = a.group
                        /\ a.shares[m].price = a.price /\ a.shares[m].quorum = a.quorum
               PROVE  Verifies(a)
    BY DEF AgreedSharesVerify
  <2>1. /\ a.quorum /= <<>> /\ Len(a.shares) = Len(a.quorum)
        /\ \A m \in 1..Len(a.quorum) : Fits(a.shares[m])
    BY DEF CohortInv, Attested
  <2>2. a.quorum \in Seq(Member)
    BY CohortAssumption DEF CohortInv, CohortTypeOK, Attestation
  <2>3. 1 \in 1..Len(a.quorum)
    BY <2>1, <2>2
  <2>4. QuorumOk(a.quorum)
    BY <2>1, <2>3 DEF Fits
  <2> QED BY <2>1, <2>4 DEF Verifies, Fits
<1> QED BY <1>1, CohortInvariant, PTL
=============================================================================
