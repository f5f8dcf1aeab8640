----------------------------- MODULE PoolPricing -----------------------------
(***************************************************************************)
(* One pool of the vault under deposits and redemptions, from any price.   *)
(* In the protocol as it stands the price is always one (PoolParity of     *)
(* ProtocolProperties), so the rounding of SharePricing never shows there; *)
(* here a pool may start with any supply and total, which is what the      *)
(* pricing functions are written for.                                      *)
(***************************************************************************)
EXTENDS SharePricing

CONSTANTS
  MinInitial,   \* the asset's minimum first deposit
  MaxUnits      \* bound: units and shares of a pool

ASSUME PricingAssumption == MinInitial \in Nat /\ MaxUnits \in Nat

VARIABLES supply, total

pool == <<supply, total>>

PricingTypeOK == supply \in Nat /\ total \in Nat

PricingInit ==
  \/ supply = 0 /\ total = 0
  \/ supply \in 1 .. MaxUnits /\ total \in 1 .. MaxUnits

PoolDeposit(amount) ==
  /\ DepositAccepted(supply, total, amount, MinInitial)
  /\ total' = total + amount
  /\ supply' = supply + DepositShares(supply, total, amount)

PoolRedeem(shares) ==
  /\ RedeemAccepted(shares, supply, total)
  /\ total' = total - RedeemAssets(shares, supply, total)
  /\ supply' = supply - shares

PricingNext ==
  \/ \E amount \in 1 .. MaxUnits : total + amount <= MaxUnits /\ PoolDeposit(amount)
  \/ \E shares \in 1 .. MaxUnits : PoolRedeem(shares)

PricingSpec == PricingInit /\ [][PricingNext]_pool

-----------------------------------------------------------------------------
(* The calculator of the home page (components/home/ShareCalculator.tsx)   *)
(* works out a deposit again, in the browser, for numbers that a visitor   *)
(* types; its texts say what the contract would do.  Ownership is in       *)
(* hundredths of a percent.                                                *)

(* Fault: the pool is credited before the shares are priced. *)
CalculateAfterCredit(s, t, amount) ==
  LET shares == DepositSharesAfterCredit(s, t, amount)
  IN IF amount = 0 THEN [kind |-> "zero"]
     ELSE IF (s = 0) # (t = 0) THEN [kind |-> "insolvent"]
     ELSE IF shares = 0 THEN [kind |-> "tiny"]
     ELSE [kind |-> "ok", shares |-> shares, ownership |-> (shares * 10000) \div (s + shares)]

Calculate(s, t, amount) ==
  IF amount = 0 THEN [kind |-> "zero"]
  ELSE IF s = 0
  THEN IF t = 0 THEN [kind |-> "ok", shares |-> amount, ownership |-> 10000]
                     ELSE [kind |-> "insolvent"]
  ELSE IF t = 0 THEN [kind |-> "insolvent"]
  ELSE LET shares == (amount * s) \div t
       IN IF shares = 0 THEN [kind |-> "tiny"]
          ELSE [kind |-> "ok", shares |-> shares,
                ownership |-> (shares * 10000) \div (s + shares)]

-----------------------------------------------------------------------------

(* Rounding is always in the pool's favour: no deposit and no redemption,  *)
(* at any price, lowers what a remaining share is worth.                   *)
PriceNeverFalls == [][total' * supply >= total * supply']_pool

(* Assets without owners and owners without assets do not arise: a pool    *)
(* has shares exactly when it has assets, so the insolvency errors of      *)
(* compute-deposit-shares stay unreachable and the last redemption empties *)
(* the pool.                                                               *)
OwnedExactlyWhenFunded == supply = 0 <=> total = 0

(* Rounding can never create free assets: redeeming at once what a deposit *)
(* minted never pays more than was deposited, at any price.                *)
RoundTripNeverGains ==
  \A amount \in 1 .. MaxUnits :
    DepositAccepted(supply, total, amount, MinInitial) =>
      LET minted == DepositShares(supply, total, amount)
      IN RedeemAssets(minted, supply + minted, total + amount) <= amount

(* Splitting a redemption never pays more than redeeming at once.          *)
SplittingNeverGains ==
  \A n, m \in 1 .. MaxUnits :
    n + m <= supply =>
      LET first == RedeemAssets(n, supply, total)
      IN first + RedeemAssets(m, supply - n, total - first) <= RedeemAssets(n + m, supply, total)

(* Nobody gains by rounding, in one step or in several. *)
NoRoundingGain == RoundTripNeverGains /\ SplittingNeverGains

(* The calculator's second implementation of the formula agrees with the   *)
(* contract's: a deposit is refused by both or by neither (the asset's     *)
(* minimum for a first deposit aside, which the calculator does not know), *)
(* mints the same, and the ownership it promises of the new pool is backed *)
(* by the depositor's claim, but for the floor of a unit.                  *)
CalculatorMatchesContract ==
  \A amount \in 0 .. MaxUnits :
    LET c == Calculate(supply, total, amount)
        minted == DepositShares(supply, total, amount)
    IN /\ c.kind = "ok" <=> DepositAccepted(supply, total, amount, 0)
       /\ c.kind = "ok" =>
            /\ c.shares = minted
            /\ c.ownership * (total + amount)
                 < 10000 * (Claim(minted, supply + minted, total + amount) + 1)
=============================================================================
