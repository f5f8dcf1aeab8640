---------------------------- MODULE PricingProofs ----------------------------
(***************************************************************************)
(* Proofs about the share pricing, for pools of every size and price.      *)
(***************************************************************************)
EXTENDS PoolPricing, NumberLemmas

(* A deposit mints a natural number of shares, at most its worth. *)
LEMMA Minted ==
  ASSUME NEW S \in Nat, NEW T \in Nat, NEW amount \in Nat, S = 0 <=> T = 0
  PROVE  /\ DepositShares(S, T, amount) \in Nat
         /\ S > 0 => DepositShares(S, T, amount) * T <= amount * S
<1>1. CASE S = 0
  BY <1>1 DEF DepositShares
<1>2. CASE S > 0
  <2>1. amount * S \in Nat /\ T > 0
    BY <1>2
  <2>2. QED
    BY <1>2, <2>1, Floor DEF DepositShares
<1>3. QED
  BY <1>1, <1>2

(* A redemption pays at most its worth, never more than the pool has, and  *)
(* all of it only for all the shares.                                      *)
LEMMA Payout ==
  ASSUME NEW S \in Nat, NEW T \in Nat, NEW n \in Nat, S > 0, n <= S
  PROVE  /\ RedeemAssets(n, S, T) \in Nat
         /\ RedeemAssets(n, S, T) * S <= n * T
         /\ RedeemAssets(n, S, T) <= T
         /\ (T > 0 /\ n < S) => RedeemAssets(n, S, T) < T
         /\ n = S => RedeemAssets(n, S, T) = T
<1> DEFINE p == RedeemAssets(n, S, T)
<1>1. n * T \in Nat /\ n * T <= S * T /\ S * T = T * S
  OBVIOUS
<1>2. p \in Nat /\ p * S <= n * T
  BY <1>1, Floor DEF RedeemAssets
<1>3. p <= T
  <2>1. p * S <= T * S
    BY <1>1, <1>2
  <2>2. QED
    BY <1>2, <2>1, Scale
<1>4. ASSUME T > 0, n < S
      PROVE  p < T
  <2>1. n * T < S * T
    BY <1>4
  <2>2. p * S < T * S
    BY <1>1, <1>2, <2>1
  <2>3. QED
    BY <1>2, <2>2, Scale
<1>5. ASSUME n = S
      PROVE  p = T
  <2>1. T <= (n * T) \div S
    BY <1>1, <1>5, FloorLargest
  <2>2. QED
    BY <1>2, <1>3, <2>1 DEF RedeemAssets
<1>6. QED
  BY <1>2, <1>3, <1>4, <1>5

-----------------------------------------------------------------------------
(* The inductive invariant: naturals, and no orphaned shares or assets. *)
PricingInv == PricingTypeOK /\ OwnedExactlyWhenFunded

LEMMA PricingInvInit == PricingInit => PricingInv
  BY PricingAssumption DEF PricingInit, PricingInv, PricingTypeOK, OwnedExactlyWhenFunded

LEMMA PricingInvDeposit ==
  ASSUME PricingInv, NEW amount \in Nat, PoolDeposit(amount)
  PROVE  PricingInv'
<1> DEFINE q == DepositShares(supply, total, amount)
<1>1. /\ supply \in Nat /\ total \in Nat
      /\ supply = 0 <=> total = 0
  BY DEF PricingInv, PricingTypeOK, OwnedExactlyWhenFunded
<1>2. q \in Nat
  BY <1>1, Minted
<1>3. amount > 0 /\ q > 0
  BY <1>1 DEF PoolDeposit, DepositAccepted, DepositShares
<1>4. total' = total + amount /\ supply' = supply + q
  BY DEF PoolDeposit
<1>5. QED
  BY <1>1, <1>2, <1>3, <1>4 DEF PricingInv, PricingTypeOK, OwnedExactlyWhenFunded

LEMMA PricingInvRedeem ==
  ASSUME PricingInv, NEW shares \in Nat, PoolRedeem(shares)
  PROVE  PricingInv'
<1> DEFINE p == RedeemAssets(shares, supply, total)
<1>1. /\ supply \in Nat /\ total \in Nat
      /\ supply = 0 <=> total = 0
  BY DEF PricingInv, PricingTypeOK, OwnedExactlyWhenFunded
<1>2. supply > 0 /\ shares <= supply /\ total > 0
  BY <1>1 DEF PoolRedeem, RedeemAccepted
<1>3. /\ p \in Nat /\ p <= total
      /\ shares < supply => p < total
      /\ shares = supply => p = total
  BY <1>1, <1>2, Payout
<1>4. total' = total - p /\ supply' = supply - shares
  BY DEF PoolRedeem
<1>5. QED
  BY <1>1, <1>2, <1>3, <1>4 DEF PricingInv, PricingTypeOK, OwnedExactlyWhenFunded

LEMMA PricingInvStep == PricingInv /\ [PricingNext]_pool => PricingInv'
<1> SUFFICES ASSUME PricingInv, [PricingNext]_pool
             PROVE  PricingInv'
  OBVIOUS
<1>1. CASE PricingNext
  <2>1. CASE \E amount \in 1 .. MaxUnits : PoolDeposit(amount)
    BY <2>1, PricingInvDeposit, PricingAssumption
  <2>2. CASE \E shares \in 1 .. MaxUnits : PoolRedeem(shares)
    BY <2>2, PricingInvRedeem, PricingAssumption
  <2>3. QED
    BY <1>1, <2>1, <2>2 DEF PricingNext
<1>2. CASE UNCHANGED pool
  BY <1>2 DEF pool, PricingInv, PricingTypeOK, OwnedExactlyWhenFunded
<1>3. QED
  BY <1>1, <1>2

LEMMA PricingInvariant == PricingSpec => []PricingInv
  BY PricingInvInit, PricingInvStep, PTL DEF PricingSpec

(* From any price and for any bounds, a pool has shares exactly when it    *)
(* has assets: ERR-VAULT-INSOLVENT of compute-deposit-shares is            *)
(* unreachable, and the last redemption leaves nothing behind.             *)
THEOREM NoOrphans == PricingSpec => []OwnedExactlyWhenFunded
<1>1. PricingInv => OwnedExactlyWhenFunded
  BY DEF PricingInv
<1>2. QED
  BY PricingInvariant, <1>1, PTL

-----------------------------------------------------------------------------

(* One deposit does not lower the price. *)
LEMMA DepositKeepsPrice ==
  ASSUME PricingInv, NEW amount \in Nat, PoolDeposit(amount)
  PROVE  total' * supply >= total * supply'
<1> DEFINE q == DepositShares(supply, total, amount)
<1>1. /\ supply \in Nat /\ total \in Nat
      /\ supply = 0 <=> total = 0
  BY DEF PricingInv, PricingTypeOK, OwnedExactlyWhenFunded
<1>2. q \in Nat /\ (supply > 0 => q * total <= amount * supply)
  BY <1>1, Minted
<1>3. total' = total + amount /\ supply' = supply + q
  BY DEF PoolDeposit
<1> HIDE DEF q
<1>4. /\ (total + amount) * supply = total * supply + amount * supply
      /\ total * (supply + q) = total * supply + q * total
  BY <1>1, <1>2
<1>5. q * total <= amount * supply
  BY <1>1, <1>2
<1>6. QED
  BY <1>1, <1>2, <1>3, <1>4, <1>5

(* One redemption does not lower the price. *)
LEMMA RedeemKeepsPrice ==
  ASSUME PricingInv, NEW shares \in Nat, PoolRedeem(shares)
  PROVE  total' * supply >= total * supply'
<1> DEFINE p == RedeemAssets(shares, supply, total)
<1>1. supply \in Nat /\ total \in Nat
  BY DEF PricingInv, PricingTypeOK
<1>2. supply > 0 /\ shares <= supply
  BY DEF PoolRedeem, RedeemAccepted
<1>3. p \in Nat /\ p * supply <= shares * total
  BY <1>1, <1>2, Payout
<1>4. total' = total - p /\ supply' = supply - shares
  BY DEF PoolRedeem
<1> HIDE DEF p
<1>5. /\ (total - p) * supply = total * supply - p * supply
      /\ total * (supply - shares) = total * supply - shares * total
  BY <1>1, <1>3
<1>6. QED
  BY <1>1, <1>2, <1>3, <1>4, <1>5

(* Rounding is in the pool's favour at every price: what a remaining share *)
(* is worth never falls.                                                   *)
THEOREM PriceMonotone == PricingSpec => PriceNeverFalls
<1>1. PricingInv /\ [PricingNext]_pool => [total' * supply >= total * supply']_pool
  <2> SUFFICES ASSUME PricingInv, PricingNext
               PROVE  total' * supply >= total * supply'
    OBVIOUS
  <2>1. CASE \E amount \in 1 .. MaxUnits : PoolDeposit(amount)
    BY <2>1, DepositKeepsPrice, PricingAssumption
  <2>2. CASE \E shares \in 1 .. MaxUnits : PoolRedeem(shares)
    BY <2>2, RedeemKeepsPrice, PricingAssumption
  <2>3. QED
    BY <2>1, <2>2 DEF PricingNext
<1>2. QED
  BY PricingInvariant, <1>1, PTL DEF PricingSpec, PriceNeverFalls

-----------------------------------------------------------------------------

LEMMA RoundTrip ==
  ASSUME NEW S \in Nat, NEW T \in Nat, S = 0 <=> T = 0,
         NEW amount \in Nat, amount > 0
  PROVE  LET q == DepositShares(S, T, amount)
         IN S + q > 0 => RedeemAssets(q, S + q, T + amount) <= amount
<1> DEFINE q == DepositShares(S, T, amount)
           p == RedeemAssets(q, S + q, T + amount)
<1> SUFFICES ASSUME S + q > 0
             PROVE  p <= amount
  OBVIOUS
<1>1. q \in Nat /\ (S > 0 => q * T <= amount * S)
  BY Minted
<1>2. S + q \in Nat /\ T + amount \in Nat /\ q <= S + q
  BY <1>1
<1>3. p \in Nat /\ p * (S + q) <= q * (T + amount)
  BY <1>1, <1>2, Payout
<1> HIDE DEF p, q
<1>4. q * T <= amount * S
  BY <1>1
<1>5. /\ q * (T + amount) = q * T + amount * q
      /\ amount * (S + q) = amount * S + amount * q
  BY <1>1
<1>6. p * (S + q) <= amount * (S + q)
  BY <1>1, <1>3, <1>4, <1>5
<1>7. p <= amount
  BY <1>2, <1>3, <1>6, Scale
<1>8. QED
  BY <1>7 DEF p

(* Rounding can never create free assets: at every price, redeeming at     *)
(* once what a deposit minted pays no more than was deposited.             *)
THEOREM RoundTripSafe == PricingSpec => []RoundTripNeverGains
<1>1. PricingInv => RoundTripNeverGains
  <2> SUFFICES ASSUME PricingInv, NEW amount \in 1 .. MaxUnits,
                      DepositAccepted(supply, total, amount, MinInitial)
               PROVE  LET q == DepositShares(supply, total, amount)
                      IN RedeemAssets(q, supply + q, total + amount) <= amount
    BY DEF RoundTripNeverGains
  <2> DEFINE q == DepositShares(supply, total, amount)
  <2>1. /\ supply \in Nat /\ total \in Nat
        /\ supply = 0 <=> total = 0
        /\ amount \in Nat /\ amount > 0
    BY PricingAssumption DEF PricingInv, PricingTypeOK, OwnedExactlyWhenFunded
  <2>2. q \in Nat
    BY <2>1, Minted
  <2>3. supply + q > 0
    BY <2>1, <2>2 DEF DepositAccepted, DepositShares
  <2>4. QED
    BY <2>1, <2>3, RoundTrip
<1>2. QED
  BY PricingInvariant, <1>1, PTL

(* Cross-multiplied: if the first part of a redemption paid at most its    *)
(* worth, and the second at most its worth in what is left, both together  *)
(* paid at most the worth of the whole.                                    *)
LEMMA PartsBelowWhole ==
  ASSUME NEW S \in Nat, NEW T \in Nat, NEW n \in Nat, NEW m \in Nat,
         n < S, n + m <= S,
         NEW p \in Nat, p * S <= n * T,
         NEW r \in Nat, r * (S - n) <= m * (T - p)
  PROVE  (p + r) * S <= (n + m) * T
<1> DEFINE c == S - n
           d == S - n - m
<1>1. c \in Nat /\ c > 0 /\ d \in Nat /\ c = d + m /\ S = d + m + n
  OBVIOUS
<1>2. (r * c) * S <= (m * (T - p)) * S
  <2>1. r * c \in Int /\ m * (T - p) \in Int /\ r * c <= m * (T - p)
    BY <1>1
  <2>2. QED
    BY <2>1, Scale
<1>3. (p * S) * d <= (n * T) * d
  <2>1. p * S \in Int /\ n * T \in Int
    OBVIOUS
  <2>2. QED
    BY <1>1, <2>1, Scale
<1> HIDE DEF c, d
<1>4. ((p + r) * S) * c = (p * S) * d + (p * S) * m + (r * c) * S
  <2>1. ((p + r) * S) * c = (p * S) * c + (r * S) * c
    BY <1>1
  <2>2. (p * S) * c = (p * S) * d + (p * S) * m
    BY <1>1
  <2>3. (r * S) * c = (r * c) * S
    BY <1>1
  <2>4. QED
    BY <2>1, <2>2, <2>3
<1>5. (m * (T - p)) * S = (m * T) * S - (p * S) * m
  OBVIOUS
<1>6. (n * T) * d + (m * T) * S = ((n + m) * T) * c
  <2>1. (m * T) * S = (m * T) * c + (m * T) * n
    BY <1>1
  <2>2. (n * T) * c = (n * T) * d + (n * T) * m
    BY <1>1
  <2>3. (m * T) * n = (n * T) * m
    OBVIOUS
  <2>4. ((n + m) * T) * c = (n * T) * c + (m * T) * c
    BY <1>1
  <2>5. QED
    BY <1>1, <2>1, <2>2, <2>3, <2>4
<1>7. ((p + r) * S) * c <= ((n + m) * T) * c
  <2>1. /\ (p * S) * d \in Int /\ (n * T) * d \in Int /\ (p * S) * m \in Int
        /\ (r * c) * S \in Int /\ (m * T) * S \in Int
    BY <1>1
  <2>2. QED
    BY <1>2, <1>3, <1>4, <1>5, <1>6, <2>1
<1>8. (p + r) * S \in Int /\ (n + m) * T \in Int
  OBVIOUS
<1>9. QED
  BY <1>1, <1>7, <1>8, Scale

(* Nobody gains by splitting a redemption: at every price, two redemptions *)
(* in a row pay at most what one of all the shares pays.                   *)
THEOREM SplittingSafe == PricingSpec => []SplittingNeverGains
<1>1. PricingInv => SplittingNeverGains
  <2> SUFFICES ASSUME PricingInv, NEW n \in 1 .. MaxUnits, NEW m \in 1 .. MaxUnits,
                      n + m <= supply
               PROVE  LET p == RedeemAssets(n, supply, total)
                      IN p + RedeemAssets(m, supply - n, total - p)
                           <= RedeemAssets(n + m, supply, total)
    BY DEF SplittingNeverGains
  <2> DEFINE p == RedeemAssets(n, supply, total)
             r == RedeemAssets(m, supply - n, total - p)
  <2>1. /\ supply \in Nat /\ total \in Nat /\ n \in Nat /\ m \in Nat
        /\ n > 0 /\ m > 0 /\ supply > 0 /\ n < supply /\ n <= supply
    BY PricingAssumption DEF PricingInv, PricingTypeOK
  <2>2. p \in Nat /\ p * supply <= n * total /\ p <= total
    BY <2>1, Payout
  <2>3. supply - n \in Nat /\ supply - n > 0 /\ m <= supply - n /\ total - p \in Nat
    BY <2>1, <2>2
  <2>4. r \in Nat /\ r * (supply - n) <= m * (total - p)
    BY <2>1, <2>3, Payout
  <2> HIDE DEF p, r
  <2>5. (p + r) * supply <= (n + m) * total
    BY <2>1, <2>2, <2>4, PartsBelowWhole
  <2>6. p + r <= ((n + m) * total) \div supply
    <3>1. (n + m) * total \in Nat /\ p + r \in Nat
      BY <2>1, <2>2, <2>4
    <3>2. QED
      BY <2>1, <2>5, <3>1, FloorLargest
  <2>7. QED
    BY <2>6 DEF RedeemAssets, p, r
<1>2. QED
  BY PricingInvariant, <1>1, PTL

(* Nobody gains by rounding, at any price. *)
THEOREM RoundingSafe == PricingSpec => []NoRoundingGain
<1>1. RoundTripNeverGains /\ SplittingNeverGains => NoRoundingGain
  BY DEF NoRoundingGain
<1>2. QED
  BY RoundTripSafe, SplittingSafe, <1>1, PTL

-----------------------------------------------------------------------------

(* The ownership shown, in hundredths of a percent, is below what the      *)
(* claim is worth plus one unit.                                           *)
LEMMA OwnershipCovered ==
  ASSUME NEW q \in Nat, NEW S \in Nat, S > 0, NEW T \in Nat
  PROVE  ((q * 10000) \div S) * T < 10000 * ((q * T) \div S + 1)
<1> DEFINE own == (q * 10000) \div S
           claim == (q * T) \div S
<1>1. own \in Nat /\ own * S <= q * 10000
  BY Floor
<1>2. claim \in Nat
  BY Floor
<1>3. q * T < (claim + 1) * S
  <2>1. q * T \in Nat /\ claim + 1 \in Nat
    BY <1>2
  <2>2. ~ ((claim + 1) * S <= q * T)
    <3> SUFFICES ASSUME (claim + 1) * S <= q * T
                 PROVE  FALSE
      OBVIOUS
    <3>1. claim + 1 <= claim
      BY <2>1, FloorLargest
    <3>2. QED
      BY <1>2, <3>1
  <2>3. (claim + 1) * S \in Int
    BY <2>1
  <2>4. QED
    BY <2>1, <2>2, <2>3
<1> HIDE DEF own, claim
<1>4. (own * T) * S <= 10000 * (q * T)
  <2>1. (own * S) * T <= (q * 10000) * T
    BY <1>1, Scale
  <2>2. (own * S) * T = (own * T) * S /\ (q * 10000) * T = 10000 * (q * T)
    BY <1>1
  <2>3. QED
    BY <2>1, <2>2
<1>5. 10000 * (q * T) < (10000 * (claim + 1)) * S
  <2>1. (10000 * (claim + 1)) * S = 10000 * ((claim + 1) * S)
    BY <1>2
  <2>2. (claim + 1) * S \in Int /\ q * T \in Int
    BY <1>2
  <2>3. QED
    BY <1>3, <2>1, <2>2
<1>6. (own * T) * S < (10000 * (claim + 1)) * S
  BY <1>1, <1>2, <1>4, <1>5
<1>7. own * T < 10000 * (claim + 1)
  BY <1>1, <1>2, <1>6, Scale
<1>8. QED
  BY <1>7 DEF own, claim

(* A first deposit. *)
LEMMA CalculatorFirst ==
  ASSUME NEW amount \in Nat
  PROVE  LET c == Calculate(0, 0, amount)
             minted == DepositShares(0, 0, amount)
         IN /\ c.kind = "ok" <=> DepositAccepted(0, 0, amount, 0)
            /\ c.kind = "ok" =>
                 /\ c.shares = minted
                 /\ c.ownership * (0 + amount)
                      < 10000 * (Claim(minted, 0 + minted, 0 + amount) + 1)
<1>1. CASE amount = 0
  BY <1>1 DEF Calculate, DepositAccepted
<1>2. CASE amount > 0
  <2>1. Calculate(0, 0, amount) = [kind |-> "ok", shares |-> amount, ownership |-> 10000]
    BY <1>2 DEF Calculate
  <2>2. DepositAccepted(0, 0, amount, 0) /\ DepositShares(0, 0, amount) = amount
    BY <1>2 DEF DepositAccepted, DepositShares
  <2>3. amount <= Claim(amount, amount, amount)
    <3>1. amount * amount \in Nat
      OBVIOUS
    <3>2. amount <= (amount * amount) \div amount
      BY <1>2, <3>1, FloorLargest
    <3>3. QED
      BY <1>2, <3>2 DEF Claim
  <2>4. Claim(amount, amount, amount) \in Nat
    BY <1>2, Floor DEF Claim
  <2>5. 10000 * amount < 10000 * (Claim(amount, amount, amount) + 1)
    BY <2>3, <2>4
  <2>6. QED
    BY <2>1, <2>2, <2>5
<1>3. QED
  BY <1>1, <1>2

(* A deposit in a pool that has shares and assets. *)
LEMMA CalculatorLater ==
  ASSUME NEW S \in Nat, S > 0, NEW T \in Nat, T > 0, NEW amount \in Nat
  PROVE  LET c == Calculate(S, T, amount)
             minted == DepositShares(S, T, amount)
         IN /\ c.kind = "ok" <=> DepositAccepted(S, T, amount, 0)
            /\ c.kind = "ok" =>
                 /\ c.shares = minted
                 /\ c.ownership * (T + amount) < 10000 * (Claim(minted, S + minted, T + amount) + 1)
<1> DEFINE q == (amount * S) \div T
<1>1. q \in Nat /\ q = DepositShares(S, T, amount)
  <2>1. amount * S \in Nat
    OBVIOUS
  <2>2. QED
    BY <2>1, Floor DEF DepositShares
<1>2. CASE amount = 0
  BY <1>2 DEF Calculate, DepositAccepted
<1>3. CASE amount > 0
  <2>1. DepositAccepted(S, T, amount, 0) <=> q > 0
    BY <1>3 DEF DepositAccepted
  <2>2. Calculate(S, T, amount) =
          IF q = 0 THEN [kind |-> "tiny"]
          ELSE [kind |-> "ok", shares |-> q, ownership |-> (q * 10000) \div (S + q)]
    BY <1>3 DEF Calculate
  <2> HIDE DEF q
  <2>3. CASE q = 0
    BY <2>1, <2>2, <2>3
  <2>4. CASE q > 0
    <3>1. S + q \in Nat /\ S + q > 0 /\ T + amount \in Nat
      BY <1>1
    <3>2. Claim(q, S + q, T + amount) = (q * (T + amount)) \div (S + q)
      BY <3>1 DEF Claim
    <3>3. ((q * 10000) \div (S + q)) * (T + amount) < 10000 * ((q * (T + amount)) \div (S + q) + 1)
      BY <1>1, <3>1, OwnershipCovered
    <3>4. QED
      BY <1>1, <2>1, <2>2, <2>4, <3>2, <3>3
  <2>5. QED
    BY <1>1, <2>3, <2>4
<1>4. QED
  BY <1>2, <1>3

(* For pools and deposits of every size the calculator of the home page    *)
(* works out what the contract would do.                                   *)
THEOREM CalculatorAgrees == PricingSpec => []CalculatorMatchesContract
<1>1. PricingInv => CalculatorMatchesContract
  <2> SUFFICES ASSUME PricingInv, NEW amount \in 0 .. MaxUnits
               PROVE  LET c == Calculate(supply, total, amount)
                          minted == DepositShares(supply, total, amount)
                      IN /\ c.kind = "ok" <=> DepositAccepted(supply, total, amount, 0)
                         /\ c.kind = "ok" =>
                              /\ c.shares = minted
                              /\ c.ownership * (total + amount)
                                   < 10000 * (Claim(minted, supply + minted, total + amount) + 1)
    BY DEF CalculatorMatchesContract
  <2>1. /\ supply \in Nat /\ total \in Nat /\ amount \in Nat
        /\ supply = 0 <=> total = 0
    BY PricingAssumption DEF PricingInv, PricingTypeOK, OwnedExactlyWhenFunded
  <2>2. CASE supply = 0
    BY <2>1, <2>2, CalculatorFirst
  <2>3. CASE supply > 0
    BY <2>1, <2>3, CalculatorLater
  <2>4. QED
    BY <2>1, <2>2, <2>3
<1>2. QED
  BY PricingInvariant, <1>1, PTL
=============================================================================
