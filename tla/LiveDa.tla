-------------------------------- MODULE LiveDa --------------------------------
(***************************************************************************)
(* The Live DA of a reserve claim: the bundle of what the claim was        *)
(* verified from, whose root the state node puts into the claim, the       *)
(* mirror that keeps bundles by their roots, in memory, and the challenger *)
(* who fetches a bundle by the committed root and inspects it.             *)
(*                                                                         *)
(* Hashes do not collide, so a root is the sections it was computed from,  *)
(* and the bytes of a section are the form they were written in and what   *)
(* was written.                                                            *)
(***************************************************************************)
EXTENDS Naturals, Sequences

CONSTANTS Claim,
          Batch,    \* [Claim -> the burn proof files of its redemptions]
          Sound     \* proof files whose lineage verifies

VARIABLES committed,  \* [Claim -> live_da_root, once the node accepted it]
          mirror,     \* the roots the mirror has bytes for
          verdict     \* [Claim -> alerts of its latest inspection]

vars == <<committed, mirror, verdict>>

(* The sections the node writes. *)
BurnProofs == "universe_burn_proofs"
SectionIds == {"redeem_intents", "lock_records", "btc_payout_confirmations",
               "lock_finalizes", BurnProofs, "oracle_messages"}

(* The bytes of proof files written one after another, each behind its     *)
(* length; a bare proof file would have the form "file".                   *)
VarBytes(fs) == [form |-> "prefixed", files |-> fs]

(* live_da_root_for_claim *)
LiveDaRoot(c) == [id \in SectionIds |->
    IF id = BurnProofs THEN VarBytes(Batch[c])
    ELSE [form |-> id, files |-> Batch[c]]]

NotCommitted == <<>>
NotInspected == {"not inspected"}

Init ==
    /\ committed = [c \in Claim |-> NotCommitted]
    /\ mirror = {}
    /\ verdict = [c \in Claim |-> NotInspected]

(* The node verifies every burn proof of the batch and compares the        *)
(* claim's root with the one it computes.                                  *)
AcceptClaim(c) ==
    /\ committed[c] = NotCommitted
    /\ \A i \in DOMAIN Batch[c] : Batch[c][i] \in Sound
    /\ committed' = [committed EXCEPT ![c] = LiveDaRoot(c)]
    /\ UNCHANGED <<mirror, verdict>>

(* put_bundle: any bundle, stored under its own root or refused.           *)
PutBundle(bundle) ==
    /\ mirror' = mirror \cup {bundle}
    /\ UNCHANGED <<committed, verdict>>

(* The store is in memory. *)
MirrorRestart ==
    /\ mirror' = {}
    /\ UNCHANGED <<committed, verdict>>

(* recompute_lineage parses one proof.File and verifies it. *)
LineageVerifies(content) ==
    /\ content.form = "file"
    /\ content.files[1] \in Sound

Required == {"redeem_intents", "btc_payout_confirmations", BurnProofs,
             "oracle_messages"}

(* inspect, then recompute_lineage on the lineage section if there is one. *)
Alerts(root) ==
    IF root \notin mirror THEN {"da bundle missing"}
    ELSE {"missing " \o id : id \in Required \ DOMAIN root}
         \cup (IF /\ BurnProofs \in DOMAIN root
                  /\ ~LineageVerifies(root[BurnProofs])
               THEN {"lineage invalid"} ELSE {})

(* challenger_inspect with the root of an accepted claim.                  *)
Inspect(c) ==
    /\ committed[c] # NotCommitted
    /\ verdict' = [verdict EXCEPT ![c] = Alerts(committed[c])]
    /\ UNCHANGED <<committed, mirror>>

(* An operator uploads his bundle, or one without some section.            *)
Uploads(c) ==
    {LiveDaRoot(c)} \cup
    {[id \in SectionIds \ {gone} |-> LiveDaRoot(c)[id]] : gone \in SectionIds}

Next ==
    \/ MirrorRestart
    \/ \E c \in Claim :
         \/ AcceptClaim(c)
         \/ Inspect(c)
         \/ \E bundle \in Uploads(c) : PutBundle(bundle)

Spec == Init /\ [][Next]_vars

-----------------------------------------------------------------------------
(* The sections of the bundle are built so that "the genesis->burn lineage *)
(* the challenger re-runs travels in 0x07" (claim.rs).  A claim the node   *)
(* accepted, whose bundle the mirror has, is clean to the challenger, who  *)
(* else raises an alert on every claim.                                    *)
HonestClaimsAreClean == \A c \in Claim :
    verdict[c] \in {NotInspected, {"da bundle missing"}, {}}
=============================================================================
