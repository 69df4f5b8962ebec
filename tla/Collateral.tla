----------------------------- MODULE Collateral -----------------------------
(***************************************************************************)
(* The arithmetic of satusd-types/src/tier.rs and of the claim             *)
(* reimbursement: collateral ratio, emergency tier, gross payout.  The     *)
(* code's dimensional constants are parameters, so that TLC can use small  *)
(* integers: PPM stands for 10^6 and SCALE for 10^14 (the e8 price, sats   *)
(* and cents brought to one unit).  Every division is the code's integer   *)
(* division, which rounds down.                                            *)
(***************************************************************************)
EXTENDS Naturals

CONSTANTS PPM,      \* parts per million in the code: 1_000_000
          SCALE     \* 10^14 in the code

ASSUME ScaleAssumption ==
    /\ PPM \in Nat \ {0}
    /\ SCALE \in Nat \ {0}

(***************************************************************************)
(* tier::collateral_ratio_ppm for a positive supply; the code returns None *)
(* when the supply is zero and its callers treat that case on their own.   *)
(***************************************************************************)
CollateralRatio(reserve, supply, price) ==
    (reserve * price * PPM) \div (supply * SCALE)

Tiers == {"Healthy", "PauseMint", "Auction", "Settlement"}

(* tier::recompute_tier: thresholds at 150%, 130% and 110%. *)
RecomputeTier(reserve, supply, price) ==
    LET cr == CollateralRatio(reserve, supply, price)
    IN  IF supply = 0 \/ cr >= (15 * PPM) \div 10 THEN "Healthy"
        ELSE IF cr >= (13 * PPM) \div 10 THEN "PauseMint"
        ELSE IF cr >= (11 * PPM) \div 10 THEN "Auction"
        ELSE "Settlement"

(* mint::MIN_MINT_CR_PPM, the 200% a mint must leave behind. *)
MinMintRatio == 2 * PPM

(* The sats one redemption of `atoms` is reimbursed at `price`. *)
Gross(atoms, price) == (atoms * SCALE) \div price
=============================================================================
