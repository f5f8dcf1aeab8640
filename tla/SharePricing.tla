---------------------------- MODULE SharePricing ----------------------------
(***************************************************************************)
(* The share pricing of contracts/sovereignty-vault-v7.clar: what a        *)
(* deposit mints (compute-deposit-shares) and a redemption pays            *)
(* (compute-redeem-assets), as functions of a pool's share supply and of   *)
(* its total assets.  \div on naturals is Clarity's / on uints: floor.     *)
(***************************************************************************)
EXTENDS Naturals

(* The response is ok: every assertion of compute-deposit-shares holds. *)
DepositAccepted(supply, total, amount, minInitial) ==
  /\ amount > 0
  /\ IF supply = 0 THEN total = 0 /\ amount >= minInitial
                   ELSE total > 0 /\ (amount * supply) \div total > 0

(* Fault: rounds in the depositor's favour. *)
DepositSharesCeil(supply, total, amount) ==
  IF supply = 0 THEN amount ELSE (amount * supply + total - 1) \div total

(* Fault: the pool is credited before the shares are priced. *)
DepositSharesAfterCredit(supply, total, amount) ==
  IF supply = 0 THEN amount ELSE (amount * supply) \div (total + amount)

DepositShares(supply, total, amount) ==
  IF supply = 0 THEN amount ELSE (amount * supply) \div total

(* The response is ok: every assertion of compute-redeem-assets holds. *)
RedeemAccepted(shares, supply, total) ==
  /\ shares > 0
  /\ supply > 0
  /\ shares <= supply
  /\ (shares * total) \div supply > 0

(* Fault: rounds in the holder's favour. *)
RedeemAssetsCeil(shares, supply, total) ==
  (shares * total + supply - 1) \div supply

RedeemAssets(shares, supply, total) == (shares * total) \div supply

(* get-position: what a holding is entitled to, deployed assets included. *)
Claim(shares, supply, total) ==
  IF supply = 0 THEN 0 ELSE (shares * total) \div supply
=============================================================================
