------------------------------- MODULE Cohort -------------------------------
(***************************************************************************)
(* cohortd: the members of a threshold oracle, each a command run by hand  *)
(* or by a script, that talk through files in one directory: round1 and    *)
(* finalize make a group key; announce, attest and aggregate make one      *)
(* signature for a tick.                                                   *)
(*                                                                         *)
(* A file is an Option, a set of at most one element: absent, truncated    *)
(* and undecodable are the same to every reader, which then gives up.      *)
(* fs::write truncates and then writes; a reader in between gives up, as   *)
(* it may at any time, so a write is one step that may also be its first   *)
(* half only, after which the writer is dead (Written).                    *)
(*                                                                         *)
(* A polynomial is the seed it is derived from, a share of it is that seed *)
(* (whom it was dealt to is in the file's name), a group key is the        *)
(* sequence of its dealers' seeds, a secret x the seeds whose shares it    *)
(* sums, a nonce commitment its member: a member signs with one seed, and  *)
(* the threshold is the same in every command.  Signatures checks what     *)
(* these stand for in the group.                                           *)
(***************************************************************************)
EXTENDS Naturals, Sequences

CONSTANTS N, T,        \* participants and threshold
          Seed,        \* dealing seeds
          Seeds,       \* member -> the seeds its operator may deal with
          Tick, Price,
          Quorums,     \* quorum arguments, sequences of members
          Aggregator,  \* nodes that may run aggregate
          MaxDeals     \* member -> how often it may run round1; bound of a run

Member == 1..N

ASSUME CohortAssumption ==
    /\ N \in Nat \ {0}
    /\ T \in 1..N
    /\ Seeds \in [Member -> SUBSET Seed]
    /\ Quorums \subseteq Seq(Member)
    /\ MaxDeals \in [Member -> Nat]

VARIABLES r1,        \* r1-<i>.hex
          r2,        \* r2-<from>-<to>.hex
          keyshare,  \* keyshare-<i>.hex
          commit,    \* members with a whole commit-<ts>-<i>.hex
          share,     \* share-<ts>-<i>.hex
          ann, att,  \* ann-<ts>.hex, att-<ts>.hex
          node,      \* the command a member is running
          agg,       \* the aggregate command a node is running
          printed,   \* the group keys finalize has printed
          deals      \* how often round1 has been run

keyVars == <<r1, r2, keyshare, printed, deals>>
signVars == <<commit, share>>
outVars == <<ann, att, agg>>
vars == <<keyVars, signVars, outVars, node>>

Keys == Seq(Seed)
KeyShare == [x : Keys, group : Keys]
SigShare == [key : KeyShare, price : Price, quorum : Quorums]
Attestation == [price : Price, quorum : Quorums, group : Keys, shares : Seq(SigShare)]

Option(S) == {{}} \cup {{v} : v \in S}

Idle == [at |-> "idle"]
Dealing == [at : {"dealing"}, seed : Seed, to : 0..N]
Reading == [at : {"reading"}, pkgs : Keys, dealt : Keys]
Collecting == [at : {"collecting"}, ts : Tick, price : Price, quorum : Quorums,
               group : Keys, shares : Seq(SigShare)]

(* write_hex: the whole file, or a truncated one and the process is dead.  *)
Written(v) == {{v}, {}}

Init ==
    /\ r1 = [i \in Member |-> {}]
    /\ r2 = [i \in Member |-> [j \in Member |-> {}]]
    /\ keyshare = [i \in Member |-> {}]
    /\ commit = [ts \in Tick |-> {}]
    /\ share = [ts \in Tick |-> [i \in Member |-> {}]]
    /\ ann = [ts \in Tick |-> {}]
    /\ att = [ts \in Tick |-> {}]
    /\ node = [i \in Member |-> Idle]
    /\ agg = [a \in Aggregator |-> Idle]
    /\ printed = {}
    /\ deals = [i \in Member |-> 0]

(***************************************************************************)
(* Distributed key generation.                                             *)
(***************************************************************************)

(* dkg_round1: the dealer's polynomial follows from its seed.              *)
Round1(i, s) ==
    /\ node[i] = Idle
    /\ deals[i] < MaxDeals[i]
    /\ deals' = [deals EXCEPT ![i] = @ + 1]
    /\ node' = [node EXCEPT ![i] = [at |-> "dealing", seed |-> s, to |-> 0]]
    /\ UNCHANGED <<r1, r2, keyshare, printed, signVars, outVars>>

(* Mutant of LastFile: one recipient too many.                             *)
LastFileLate(d) == d.to = N + 1

LastFile(d) == d.to = N

(* Its next file: the package, then the shares in the recipients' order.   *)
Publish(i) ==
    LET d == node[i] IN
    /\ d.at = "dealing"
    /\ \E f \in Written(d.seed) :
        /\ IF d.to = 0
           THEN r1' = [r1 EXCEPT ![i] = f] /\ UNCHANGED r2
           ELSE r2' = [r2 EXCEPT ![i][d.to] = f] /\ UNCHANGED r1
        /\ node' = [node EXCEPT ![i] =
                IF f = {} \/ LastFile(d) THEN Idle ELSE [d EXCEPT !.to = @ + 1]]
    /\ UNCHANGED <<keyshare, printed, deals, signVars, outVars>>

Finalize(i) ==
    /\ node[i] = Idle
    /\ node' = [node EXCEPT ![i] = [at |-> "reading", pkgs |-> <<>>, dealt |-> <<>>]]
    /\ UNCHANGED <<keyVars, signVars, outVars>>

(* dkg_finalize reads a dealer's package, then the share it dealt, dealer  *)
(* after dealer, while any of them may be dealing again.                   *)
ReadPackage(i) ==
    LET d == node[i] IN
    /\ d.at = "reading" /\ Len(d.pkgs) = Len(d.dealt) /\ Len(d.pkgs) < N
    /\ LET f == r1[Len(d.pkgs) + 1] IN
       \/ f = {} /\ node' = [node EXCEPT ![i] = Idle]
       \/ \E s \in f : node' = [node EXCEPT ![i] = [d EXCEPT !.pkgs = Append(@, s)]]
    /\ UNCHANGED <<keyVars, signVars, outVars>>

ReadShare(i) ==
    LET d == node[i] IN
    /\ d.at = "reading" /\ Len(d.pkgs) = Len(d.dealt) + 1
    /\ LET f == r2[Len(d.pkgs)][i] IN
       \/ f = {} /\ node' = [node EXCEPT ![i] = Idle]
       \/ \E s \in f : node' = [node EXCEPT ![i] = [d EXCEPT !.dealt = Append(@, s)]]
    /\ UNCHANGED <<keyVars, signVars, outVars>>

(* Mutant of ShareMatches: the share is not checked.                       *)
ShareMatchesAny(pkg, dealt) == TRUE

(* verify_round2_share: the share lies on the committed polynomial.        *)
ShareMatches(pkg, dealt) == pkg = dealt

(* Mutant of FinalizedKey: the last dealer's share is not summed.          *)
FinalizedKeyShort(d) == [x |-> SubSeq(d.dealt, 1, N - 1), group |-> d.pkgs]

(* finalize_key: x sums the shares, the group key the packages.            *)
FinalizedKey(d) == [x |-> d.dealt, group |-> d.pkgs]

Combine(i) ==
    LET d == node[i] IN
    /\ d.at = "reading" /\ Len(d.pkgs) = N /\ Len(d.dealt) = N
    /\ node' = [node EXCEPT ![i] = Idle]
    /\ IF \A from \in Member : ShareMatches(d.pkgs[from], d.dealt[from])
       THEN \E f \in Written(FinalizedKey(d)) :
                /\ keyshare' = [keyshare EXCEPT ![i] = f]
                /\ printed' = printed \cup {k.group : k \in f}
       ELSE UNCHANGED <<keyshare, printed>>
    /\ UNCHANGED <<r1, r2, deals, signVars, outVars>>

(***************************************************************************)
(* Signing.                                                                *)
(***************************************************************************)

(* announce_commit: the nonces follow from the member's seed and the tick, *)
(* so that a repeated call changes nothing unless it is cut short.         *)
AnnounceCommit(i, ts) ==
    /\ node[i] = Idle /\ keyshare[i] /= {}
    /\ \E done \in {{i}, {}} : commit' = [commit EXCEPT ![ts] = (@ \ {i}) \cup done]
    /\ UNCHANGED <<keyVars, share, outVars, node>>

Members(q) == {q[m] : m \in 1..Len(q)}
Distinct(q) == \A m, l \in 1..Len(q) : q[m] = q[l] => m = l

(* check_quorum.                                                           *)
QuorumOk(q) == Len(q) >= T /\ Members(q) \subseteq Member /\ Distinct(q)

(* attest_share: read_commits, then sig_share under the member's key; a    *)
(* quorum of one has no Lagrange coefficient.                              *)
AttestShare(i, ts, p, q) ==
    /\ node[i] = Idle
    /\ Members(q) \subseteq commit[ts]
    /\ QuorumOk(q) /\ i \in Members(q) /\ Members(q) /= {i}
    /\ \E k \in keyshare[i] : \E f \in Written([key |-> k, price |-> p, quorum |-> q]) :
            share' = [share EXCEPT ![ts][i] = f]
    /\ UNCHANGED <<keyVars, commit, outVars, node>>

(* aggregate writes the announcement first, from the commitments; it does  *)
(* not check the quorum.                                                   *)
Aggregate(a, ts, p, q, g) ==
    /\ agg[a] = Idle
    /\ q /= <<>> /\ Members(q) \subseteq commit[ts]
    /\ \E f \in Written(q) :
        /\ ann' = [ann EXCEPT ![ts] = f]
        /\ agg' = [agg EXCEPT ![a] = IF f = {} THEN Idle ELSE
                [at |-> "collecting", ts |-> ts, price |-> p, quorum |-> q,
                 group |-> g, shares |-> <<>>]]
    /\ UNCHANGED <<keyVars, signVars, att, node>>

(* Then the shares, file by file, while members may be rewriting them.     *)
Collect(a) ==
    LET d == agg[a] IN
    /\ d.at = "collecting" /\ Len(d.shares) < Len(d.quorum)
    /\ LET f == share[d.ts][d.quorum[Len(d.shares) + 1]] IN
       \/ f = {} /\ agg' = [agg EXCEPT ![a] = Idle]
       \/ \E z \in f : agg' = [agg EXCEPT ![a] = [d EXCEPT !.shares = Append(@, z)]]
    /\ UNCHANGED <<keyVars, signVars, ann, att, node>>

(* aggregate_attestation sums what was read and verifies nothing.          *)
WriteAtt(a) ==
    LET d == agg[a] IN
    /\ d.at = "collecting" /\ Len(d.shares) = Len(d.quorum)
    /\ \E f \in Written([price |-> d.price, quorum |-> d.quorum,
                         group |-> d.group, shares |-> d.shares]) :
            att' = [att EXCEPT ![d.ts] = f]
    /\ agg' = [agg EXCEPT ![a] = Idle]
    /\ UNCHANGED <<keyVars, signVars, ann, node>>

(* A command is killed between two files.                                  *)
Crash ==
    /\ \/ /\ \E i \in Member : node[i] /= Idle /\ node' = [node EXCEPT ![i] = Idle]
          /\ UNCHANGED agg
       \/ /\ \E a \in Aggregator : agg[a] /= Idle /\ agg' = [agg EXCEPT ![a] = Idle]
          /\ UNCHANGED node
    /\ UNCHANGED <<keyVars, signVars, ann, att>>

KeyStep(i) ==
    \/ \E s \in Seeds[i] : Round1(i, s)
    \/ Publish(i) \/ Finalize(i) \/ ReadPackage(i) \/ ReadShare(i) \/ Combine(i)

SignStep(i, ts) ==
    \/ AnnounceCommit(i, ts)
    \/ \E p \in Price, q \in Quorums : AttestShare(i, ts, p, q)

AggregatorStep(a) ==
    \/ \E ts \in Tick, p \in Price, q \in Quorums, g \in printed : Aggregate(a, ts, p, q, g)
    \/ Collect(a) \/ WriteAtt(a)

Next ==
    \/ \E i \in Member : KeyStep(i)
    \/ \E i \in Member, ts \in Tick : SignStep(i, ts)
    \/ \E a \in Aggregator : AggregatorStep(a)
    \/ Crash

Spec == Init /\ [][Next]_vars

(***************************************************************************)
(* What a DLC client checks.                                               *)
(***************************************************************************)

(* s.G = R + e.P for every digit: the shares are of one session (its       *)
(* quorum fixes nonces and binding factors) and one challenge (key and     *)
(* price), and their secrets interpolate to the secret of that key.        *)
Verifies(a) ==
    /\ QuorumOk(a.quorum)
    /\ \A m \in 1..Len(a.quorum) :
        LET z == a.shares[m] IN
        /\ z.quorum = a.quorum /\ z.price = a.price
        /\ z.key.group = a.group /\ z.key.x = a.group

(***************************************************************************)
(* Properties.                                                             *)
(***************************************************************************)

(* Types of the files and of the commands that are running.                *)
CohortTypeOK ==
    /\ r1 \in [Member -> Option(Seed)]
    /\ r2 \in [Member -> [Member -> Option(Seed)]]
    /\ keyshare \in [Member -> SUBSET KeyShare]
    /\ commit \in [Tick -> SUBSET Member]
    /\ share \in [Tick -> [Member -> SUBSET SigShare]]
    /\ ann \in [Tick -> Option(Quorums)]
    /\ att \in [Tick -> SUBSET Attestation]
    /\ node \in [Member -> {Idle} \cup Dealing \cup Reading]
    /\ agg \in [Aggregator -> {Idle} \cup Collecting]
    /\ printed \subseteq Keys
    /\ deals \in [Member -> Nat]

(* A key share file holds shares of the very polynomials whose constants   *)
(* make the group key next to them, although a dealer may have started     *)
(* over with a new seed between the reads of its package and of its share. *)
SharesFitKeys ==
    \A i \in Member : \A k \in keyshare[i] : Len(k.x) = N /\ k.x = k.group

(* aggregate does not verify what it sums; still, when the members whose   *)
(* shares it read were given the group key, price and quorum it was given  *)
(* itself, the attestation verifies, whatever was dealt again, killed or   *)
(* rewritten meanwhile.                                                    *)
AgreedSharesVerify ==
    \A ts \in Tick : \A a \in att[ts] :
        (\A m \in 1..Len(a.quorum) :
            LET z == a.shares[m] IN
            z.key.group = a.group /\ z.price = a.price /\ z.quorum = a.quorum)
        => Verifies(a)
=============================================================================
