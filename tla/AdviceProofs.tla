---------------------------- MODULE AdviceProofs ----------------------------
(***************************************************************************)
(* Proofs about the decision engine, the analysis of ecosystem protocols   *)
(* and the page of a recommendation beside the contracts, for pools and    *)
(* limits of every size and every number of strategies.                    *)
(***************************************************************************)
EXTENDS EcosystemAnalysis, RecommendationPage, BooksProofs

-----------------------------------------------------------------------------
(* The snapshot and its destination. *)

LEMMA SnapshotType ==
  ASSUME TypeOK, NEW v \in Analysed, NEW a \in Assets
  PROVE  SnapshotOf(v, a) \in Snapshot
<1>1. v \in VaultIds /\ vaults[v] \in Vault /\ vaultConfig[v] \in VaultConfig
  BY DEF Analysed, TypeOK, VaultTypeOK, GuardTypeOK
<1>2. height \in Nat /\ protocolPaused \in BOOLEAN
  BY DEF TypeOK, ChainTypeOK, AdminTypeOK
<1>3. ActiveStrategies \in [StrategyIds -> Strategy \cup {Absent}]
  BY DEF TypeOK, StrategyTypeOK, ActiveStrategies
<1>4. idleBalances[v][a] \in Nat /\ totalBalances[v][a] \in Nat
  BY <1>1 DEF TypeOK, VaultTypeOK
<1>5. [s \in StrategyIds |-> strategyAllocations[v][s][a]] \in [StrategyIds -> Nat]
  BY <1>1 DEF TypeOK, VaultTypeOK
<1>6. vaults[v].owner \in Principals /\ vaults[v].paused \in BOOLEAN
  BY <1>1 DEF Vault
<1>7. SupportsAsset(v, a) \in BOOLEAN /\ IsStrategyExecutionEnabled \in BOOLEAN
  <2>1. SupportsAsset(v, a) \in BOOLEAN
    BY Zenon DEF SupportsAsset
  <2>2. IsStrategyExecutionEnabled \in BOOLEAN
    BY Zenon DEF IsStrategyExecutionEnabled
  <2>3. QED
    BY <2>1, <2>2
<1>8. QED
  BY <1>1, <1>2, <1>3, <1>4, <1>5, <1>6, <1>7 DEF SnapshotOf, Snapshot

(* The engine picks one of the active strategies of the pool's asset. *)
LEMMA DestinationType ==
  ASSUME NEW s \in Snapshot, AssetStrategies(s) # {}
  PROVE  /\ Destination(s) \in StrategyIds
         /\ s.strategies[Destination(s)] # Absent
         /\ s.strategies[Destination(s)] \in Strategy
         /\ s.strategies[Destination(s)].asset = s.asset
<1>1. AssetStrategies(s) \subseteq StrategyIds /\ StrategyIds \subseteq Nat
  BY DEF AssetStrategies, StrategyIds
<1>2. \E i \in AssetStrategies(s) : \A j \in AssetStrategies(s) : i <= j
  BY <1>1, LeastElement
<1>3. Destination(s) \in AssetStrategies(s)
  BY <1>2, Zenon DEF Destination
<1>4. QED
  BY <1>3 DEF AssetStrategies, Snapshot

-----------------------------------------------------------------------------
(* The amount against the exact limits. *)

(* Everything the amount is computed from is a natural number. *)
LEMMA AmountInputs ==
  ASSUME NEW s \in Snapshot, AssetStrategies(s) # {}
  PROVE  /\ s.idle \in Nat /\ s.total \in Nat
         /\ s.allocations[Destination(s)] \in Nat
         /\ s.config.params.maxExposureBps \in Nat
         /\ s.config.params.minIdleBps \in Nat
         /\ s.config.params.maxTxAmount[s.asset] \in Nat
         /\ s.strategies[Destination(s)].maxAllocationBps \in Nat
<1>1. s.config.params \in RiskParams /\ s.asset \in Assets
  BY DEF Snapshot, VaultConfig
<1>2. /\ s.config.params.maxExposureBps \in Nat
      /\ s.config.params.minIdleBps \in Nat
      /\ s.config.params.maxTxAmount[s.asset] \in Nat
  BY <1>1 DEF RiskParams
<1>3. s.strategies[Destination(s)].maxAllocationBps \in Nat
  <2>1. s.strategies[Destination(s)] \in Strategy
    BY DestinationType
  <2>2. s.strategies[Destination(s)].maxAllocationBps \in 1 .. BPS
    BY <2>1 DEF Strategy
  <2>3. \A bps \in 1 .. BPS : bps \in Nat
    BY DEF BPS
  <2>4. QED
    BY <2>2, <2>3
<1>4. s.allocations[Destination(s)] \in Nat
  BY DestinationType DEF Snapshot
<1>5. s.idle \in Nat /\ s.total \in Nat
  BY DEF Snapshot
<1>6. QED
  BY <1>2, <1>3, <1>4, <1>5

(* A share of a pool, rounded down, holds the amounts the exact share      *)
(* holds, and the reserve, rounded up, those the exact reserve leaves.     *)
LEMMA ExactShare ==
  ASSUME NEW x \in Nat, NEW n \in Nat
  PROVE  /\ x \div BPS \in Nat
         /\ n <= x \div BPS <=> n * BPS <= x
         /\ (x + BPS - 1) \div BPS \in Nat
         /\ n >= (x + BPS - 1) \div BPS <=> n * BPS >= x
<1>1. x \div 10000 \in Nat /\ (n <= x \div 10000 <=> n * 10000 <= x)
  OBVIOUS
<1>2. /\ (x + 9999) \div 10000 \in Nat
      /\ n >= (x + 9999) \div 10000 <=> n * 10000 >= x
  OBVIOUS
<1>3. x + 10000 - 1 = x + 9999
  OBVIOUS
<1>4. QED
  BY <1>1, <1>2, <1>3 DEF BPS

LEMMA AmountWithin ==
  ASSUME NEW s \in Snapshot, CanAllocate(s), ~Overexposed(s), ProposedAmount(s) > 0
  PROVE  ProposedAmount(s) \in Nat /\ WithinLimits(s, ProposedAmount(s))
<1> DEFINE d == Destination(s)
           held == s.allocations[d]
           e == s.total * s.config.params.maxExposureBps
           c == s.total * s.strategies[d].maxAllocationBps
           m == s.total * s.config.params.minIdleBps
           n == ProposedAmount(s)
<1>1. /\ s.idle \in Nat /\ held \in Nat /\ s.config.params.maxTxAmount[s.asset] \in Nat
      /\ e \in Nat /\ c \in Nat /\ m \in Nat
  BY AmountInputs DEF CanAllocate
<1>2. /\ MaxExposureAmount(s) = e \div BPS
      /\ MaxProtocolAmount(s) = c \div BPS
      /\ MinLiquidityReserve(s) = (m + BPS - 1) \div BPS
  BY DEF MaxExposureAmount, MaxProtocolAmount, MinLiquidityReserve
<1>3. /\ e \div BPS \in Nat /\ c \div BPS \in Nat /\ (m + BPS - 1) \div BPS \in Nat
  BY <1>1, ExactShare
<1>4. held <= e \div BPS
  BY <1>1, <1>2, <1>3 DEF Overexposed
<1>5. /\ n \in Nat
      /\ n <= s.config.params.maxTxAmount[s.asset]
      /\ held + n <= e \div BPS
      /\ held + n <= c \div BPS
      /\ n <= s.idle /\ s.idle - n >= (m + BPS - 1) \div BPS
  <2> DEFINE top == e \div BPS
             cap == c \div BPS
             reserve == (m + BPS - 1) \div BPS
             limit == s.config.params.maxTxAmount[s.asset]
  <2>1. n = Lesser(Lesser(Excess(s.idle, reserve), top - held), Lesser(Excess(cap, held), limit))
    BY <1>2 DEF ProposedAmount
  <2>2. /\ s.idle \in Nat /\ held \in Nat /\ limit \in Nat /\ n > 0
        /\ top \in Nat /\ cap \in Nat /\ reserve \in Nat /\ held <= top
    BY <1>1, <1>3, <1>4
  <2> HIDE DEF top, cap, reserve, limit, held, n
  <2>3. /\ n \in Nat /\ n <= limit /\ held + n <= top /\ held + n <= cap
        /\ n <= s.idle /\ s.idle - n >= reserve
    BY <2>1, <2>2 DEF Lesser, Excess
  <2>4. QED
    BY <2>3 DEF top, cap, reserve, limit, held, n
<1>6. /\ (held + n) * BPS <= e
      /\ (held + n) * BPS <= c
  <2> DEFINE whole == held + n
  <2>1. /\ whole \in Nat /\ whole <= e \div BPS /\ whole <= c \div BPS
        /\ e \in Nat /\ c \in Nat
    BY <1>1, <1>5
  <2> HIDE DEF whole, e, c
  <2>2. whole * BPS <= e /\ whole * BPS <= c
    BY <2>1, ExactShare
  <2>3. QED
    BY <2>2 DEF whole
<1>7. (s.idle - n) * BPS >= m
  <2> DEFINE left == s.idle - n
  <2>1. left \in Nat /\ left >= (m + BPS - 1) \div BPS /\ m \in Nat
    BY <1>1, <1>5
  <2> HIDE DEF left, m
  <2>2. left * BPS >= m
    BY <2>1, ExactShare
  <2>3. QED
    BY <2>2 DEF left
<1>8. QED
  BY <1>5, <1>6, <1>7 DEF WithinLimits

LEMMA AmountLargest ==
  ASSUME NEW s \in Snapshot, CanAllocate(s), ~Overexposed(s),
         NEW n \in Nat, n > 0, WithinLimits(s, n)
  PROVE  n <= ProposedAmount(s)
<1> DEFINE d == Destination(s)
           held == s.allocations[d]
           e == s.total * s.config.params.maxExposureBps
           c == s.total * s.strategies[d].maxAllocationBps
           m == s.total * s.config.params.minIdleBps
<1>1. /\ s.idle \in Nat /\ held \in Nat /\ s.config.params.maxTxAmount[s.asset] \in Nat
      /\ e \in Nat /\ c \in Nat /\ m \in Nat
  BY AmountInputs DEF CanAllocate
<1>2. /\ MaxExposureAmount(s) = e \div BPS
      /\ MaxProtocolAmount(s) = c \div BPS
      /\ MinLiquidityReserve(s) = (m + BPS - 1) \div BPS
  BY DEF MaxExposureAmount, MaxProtocolAmount, MinLiquidityReserve
<1>3. /\ n <= s.idle /\ n <= s.config.params.maxTxAmount[s.asset]
      /\ (held + n) * BPS <= e
      /\ (held + n) * BPS <= c
      /\ (s.idle - n) * BPS >= m
  BY DEF WithinLimits
<1>4. held + n <= e \div BPS /\ held + n <= c \div BPS
  <2>1. held + n \in Nat
    BY <1>1
  <2>2. QED
    BY <1>1, <1>3, <2>1, ExactShare
<1>5. s.idle - n >= (m + BPS - 1) \div BPS
  <2>1. s.idle - n \in Nat
    BY <1>1, <1>3
  <2>2. QED
    BY <1>1, <1>3, <2>1, ExactShare
<1>6. e \div BPS \in Nat /\ c \div BPS \in Nat /\ (m + BPS - 1) \div BPS \in Nat
  BY <1>1, ExactShare
<1>7. QED
  BY <1>1, <1>2, <1>3, <1>4, <1>5, <1>6 DEF ProposedAmount, Lesser, Excess
-----------------------------------------------------------------------------
(* The contracts' checks on the amount, from the exact limits. *)

LEMMA ResultingShares ==
  ASSUME NEW held \in Nat, NEW idle \in Nat, NEW total \in Nat, total > 0,
         NEW n \in Nat, n <= idle, NEW max \in Nat, NEW min \in Nat
  PROVE  /\ (held + n) * BPS <= total * max => ResultingAllocationBps(held, n, total) <= max
         /\ (idle - n) * BPS >= total * min => ResultingIdleBps(idle, n, total) >= min
<1>1. ASSUME (held + n) * BPS <= total * max
      PROVE  ResultingAllocationBps(held, n, total) <= max
  <2>1. (held + n) * BPS \in Nat /\ total * max = max * total
    BY DEF BPS
  <2>2. ((held + n) * BPS) \div total <= max
    BY <1>1, <2>1, FloorBound
  <2>3. QED
    BY <2>2 DEF ResultingAllocationBps
<1>2. ASSUME (idle - n) * BPS >= total * min
      PROVE  ResultingIdleBps(idle, n, total) >= min
  <2>1. (idle - n) * BPS \in Nat /\ total * min = min * total /\ min * total \in Nat
    BY DEF BPS
  <2>2. min <= ((idle - n) * BPS) \div total
    BY <1>2, <2>1, FloorLargest
  <2>3. ((idle - n) * BPS) \div total \in Nat
    BY <2>1, Floor
  <2>4. QED
    BY <2>2, <2>3 DEF ResultingIdleBps
<1>3. QED
  BY <1>1, <1>2

LEMMA ProposalPasses ==
  ASSUME TypeOK, NEW v \in Analysed, NEW a \in Assets,
         Decision(SnapshotOf(v, a)) = "REBALANCE", CooldownOver(vaultConfig[v])
  PROVE  Evaluate(vaults[v].owner, BuildIntent(SnapshotOf(v, a)))
<1> DEFINE s == SnapshotOf(v, a)
           d == Destination(s)
           n == ProposedAmount(s)
           i == BuildIntent(s)
           params == vaultConfig[v].params
<1>1. s \in Snapshot
  BY SnapshotType
<1>2. CanAllocate(s) /\ ~Overexposed(s) /\ n > 0
  BY DEF Decision
<1>3. AssetStrategies(s) # {} /\ s.total > 0
  BY <1>2 DEF CanAllocate
<1>4. n \in Nat /\ WithinLimits(s, n)
  BY <1>1, <1>2, AmountWithin
<1>5. /\ i.vault = v /\ i.strategy = d /\ i.asset = a /\ i.amount = n
      /\ i.maxSlippageBps = params.maxSlippageBps
      /\ i.nonce = vaultConfig[v].lastUsedNonce + 1
      /\ i.deadline = height + IntentWindow
  BY DEF BuildIntent, SnapshotOf
<1>6. /\ s.idle = idleBalances[v][a] /\ s.total = totalBalances[v][a]
      /\ s.config = vaultConfig[v] /\ s.asset = a /\ s.strategies = ActiveStrategies
  BY DEF SnapshotOf
<1>7. /\ v \in VaultIds /\ vaults[v] # Absent /\ vaultConfig[v] # Absent
      /\ vaultConfig[v] \in VaultConfig
  BY DEF Analysed, TypeOK, GuardTypeOK
<1>8. d \in StrategyIds /\ ActiveStrategies[d] # Absent /\ ActiveStrategies[d].asset = a
  BY <1>1, <1>3, <1>6, DestinationType
<1>9. /\ d \in ProbedIds /\ ActiveStrategies[d] = strategies[d] /\ strategies[d].active
  BY <1>8 DEF ActiveStrategies
<1>10. d \in Nat /\ d >= 1
  BY <1>9 DEF ProbedIds, StrategyIds
<1>11. strategies[d] # Absent /\ IsStrategyActive(d) /\ TakesAsset(d, a)
  BY <1>8, <1>9, <1>10 DEF IsStrategyActive, TakesAsset
<1>12. MaxAllocationBps(d) = s.strategies[d].maxAllocationBps
  BY <1>6, <1>9, <1>10, <1>11 DEF MaxAllocationBps, IsIdle
<1>13. /\ ~protocolPaused /\ SupportsAsset(v, a) /\ ~vaults[v].paused
  BY <1>2 DEF CanAllocate, SnapshotOf
<1>14. s.allocations[d] = strategyAllocations[v][d][a]
  BY <1>8 DEF SnapshotOf
<1>15. /\ s.idle \in Nat /\ s.total \in Nat /\ s.allocations[d] \in Nat
       /\ params.maxExposureBps \in Nat /\ params.minIdleBps \in Nat
       /\ MaxAllocationBps(d) \in Nat
  BY <1>1, <1>3, <1>6, <1>12, AmountInputs
<1>16. /\ n <= s.idle /\ n <= params.maxTxAmount[a]
       /\ ResultingAllocationBps(s.allocations[d], n, s.total) <= params.maxExposureBps
       /\ ResultingAllocationBps(s.allocations[d], n, s.total) <= MaxAllocationBps(d)
       /\ ResultingIdleBps(s.idle, n, s.total) >= params.minIdleBps
  <2>1. /\ n <= s.idle /\ n <= params.maxTxAmount[a]
        /\ (s.allocations[d] + n) * BPS <= s.total * params.maxExposureBps
        /\ (s.allocations[d] + n) * BPS <= s.total * MaxAllocationBps(d)
        /\ (s.idle - n) * BPS >= s.total * params.minIdleBps
    BY <1>4, <1>6, <1>12 DEF WithinLimits
  <2>2. ResultingAllocationBps(s.allocations[d], n, s.total) <= params.maxExposureBps
    BY <1>3, <1>4, <1>15, <2>1, ResultingShares
  <2>3. ResultingAllocationBps(s.allocations[d], n, s.total) <= MaxAllocationBps(d)
    BY <1>3, <1>4, <1>15, <2>1, ResultingShares
  <2>4. ResultingIdleBps(s.idle, n, s.total) >= params.minIdleBps
    BY <1>3, <1>4, <1>15, <2>1, ResultingShares
  <2>5. QED
    BY <2>1, <2>2, <2>3, <2>4
<1>17. i.deadline >= height /\ NonceUnused(i.nonce, vaultConfig[v])
  BY <1>5, <1>7, WindowAssumption DEF NonceUnused, VaultConfig, TypeOK, ChainTypeOK
<1>18. params.maxSlippageBps <= params.maxSlippageBps
  <2>1. params.maxSlippageBps \in Nat
    BY <1>7 DEF VaultConfig, RiskParams
  <2>2. QED
    BY <2>1
<1>19. CallerIsOwner(vaults[v].owner, i)
  BY <1>5 DEF CallerIsOwner
<1> HIDE DEF s, d, n, i, params
<1>20. CheckIntent(i, CallerIsOwner(vaults[v].owner, i), idleBalances[v][a],
                   totalBalances[v][a], strategyAllocations[v][d][a], MaxAllocationBps(d))
  BY <1>2, <1>3, <1>5, <1>6, <1>7, <1>13, <1>14, <1>16, <1>17, <1>18, <1>19
  DEF CheckIntent, params
<1>21. Evaluate(vaults[v].owner, i)
  <2>1. i.vault = v /\ i.strategy = d /\ i.asset = a
    BY <1>5
  <2>2. d > 0 /\ ~vaults[v].paused
    BY <1>10, <1>13
  <2>3. QED
    BY <1>7, <1>11, <1>13, <1>19, <1>20, <2>1, <2>2 DEF Evaluate
<1>22. QED
  BY <1>21 DEF s, i

(* Whatever the chain's state, an intent the engine builds from an         *)
(* accurate snapshot passes every on-chain rule but the cooldown.          *)
THEOREM ProposalsAlwaysPass == Spec => []ProposalsPass
<1>1. TypeOK => ProposalsPass
  <2> SUFFICES ASSUME TypeOK, NEW v \in Analysed, NEW a \in Assets,
                      Decision(SnapshotOf(v, a)) = "REBALANCE",
                      CooldownOver(SnapshotOf(v, a).config)
               PROVE  Evaluate(SnapshotOf(v, a).owner, BuildIntent(SnapshotOf(v, a)))
    BY DEF ProposalsPass
  <2>1. /\ SnapshotOf(v, a).config = vaultConfig[v]
        /\ SnapshotOf(v, a).owner = vaults[v].owner
    BY DEF SnapshotOf
  <2>2. QED
    BY <2>1, ProposalPasses
<1>2. QED
  BY <1>1, TypeCorrect, PTL

(* No larger amount is within the limits of the owner and the registry.    *)
THEOREM ProposalsAlwaysLargest == Spec => []ProposalsAreLargest
<1>1. TypeOK => ProposalsAreLargest
  <2> SUFFICES ASSUME TypeOK, NEW v \in Analysed, NEW a \in Assets,
                      CanAllocate(SnapshotOf(v, a)), ~Overexposed(SnapshotOf(v, a)),
                      NEW n \in 1 .. SnapshotOf(v, a).total, WithinLimits(SnapshotOf(v, a), n)
               PROVE  n <= ProposedAmount(SnapshotOf(v, a))
    BY DEF ProposalsAreLargest
  <2>1. SnapshotOf(v, a) \in Snapshot
    BY SnapshotType
  <2>2. n \in Nat /\ n > 0
    BY <2>1 DEF Snapshot
  <2>3. QED
    BY <2>1, <2>2, AmountLargest
<1>2. QED
  BY <1>1, TypeCorrect, PTL

-----------------------------------------------------------------------------
(* The analysis of the ecosystem's protocols. *)

(* The limits of a pool are numbers whether or not a strategy takes it. *)
LEMMA PoolInputs ==
  ASSUME NEW s \in Snapshot
  PROVE  /\ s.idle \in Nat /\ s.total \in Nat /\ s.asset \in Assets
         /\ s.config.params.maxExposureBps \in Nat
         /\ s.config.params.minIdleBps \in Nat
         /\ s.config.params.maxTxAmount[s.asset] \in Nat
<1>1. s.config.params \in RiskParams /\ s.asset \in Assets
  BY DEF Snapshot, VaultConfig
<1>2. QED
  BY <1>1 DEF RiskParams, Snapshot

(* The size of a new position, as exact ratios. *)
LEMMA SizeWithin ==
  ASSUME NEW s \in Snapshot
  PROVE  LET n == SizeDeployable(s) IN
         /\ n \in Nat
         /\ n > 0 =>
              /\ n <= s.idle /\ n <= s.config.params.maxTxAmount[s.asset]
              /\ n <= MaxExposureAmount(s) /\ n <= Excess(s.idle, MinLiquidityReserve(s))
              /\ n * BPS <= s.total * s.config.params.maxExposureBps
              /\ (s.idle - n) * BPS >= s.total * s.config.params.minIdleBps
<1> DEFINE e == s.total * s.config.params.maxExposureBps
           m == s.total * s.config.params.minIdleBps
           t == s.config.params.maxTxAmount[s.asset]
           n == SizeDeployable(s)
<1>1. s.idle \in Nat /\ t \in Nat /\ e \in Nat /\ m \in Nat
  BY PoolInputs
<1>2. /\ MaxExposureAmount(s) = e \div BPS
      /\ MinLiquidityReserve(s) = (m + BPS - 1) \div BPS
  BY DEF MaxExposureAmount, MinLiquidityReserve
<1>3. e \div BPS \in Nat /\ (m + BPS - 1) \div BPS \in Nat
  BY <1>1, ExactShare
<1>4. n = Lesser(Excess(s.idle, (m + BPS - 1) \div BPS), Lesser(e \div BPS, t))
  BY <1>2 DEF SizeDeployable
<1>5. /\ n \in Nat
      /\ n <= t /\ n <= e \div BPS /\ n <= Excess(s.idle, (m + BPS - 1) \div BPS)
      /\ n > 0 => n <= s.idle /\ s.idle - n >= (m + BPS - 1) \div BPS
  <2> HIDE DEF e, m, t, n
  <2>1. QED
    BY <1>1, <1>3, <1>4 DEF Lesser, Excess
<1>6. ASSUME n > 0
      PROVE  n * BPS <= e /\ (s.idle - n) * BPS >= m
  <2>1. s.idle - n \in Nat
    BY <1>1, <1>5, <1>6
  <2>2. QED
    BY <1>1, <1>5, <1>6, <2>1, ExactShare
<1>7. QED
  BY <1>2, <1>5, <1>6

(* A strategy that is new to the pool would be proposed the same amount. *)
LEMMA SameProposal ==
  ASSUME NEW s \in Snapshot, SizeDeployable(s) > 0, CanAllocate(s),
         s.allocations[Destination(s)] = 0, MaxProtocolAmount(s) >= SizeDeployable(s)
  PROVE  Decision(s) = "REBALANCE" /\ ProposedAmount(s) = SizeDeployable(s)
<1> DEFINE n == SizeDeployable(s)
           t == s.config.params.maxTxAmount[s.asset]
           e == MaxExposureAmount(s)
           x == Excess(s.idle, MinLiquidityReserve(s))
           c == MaxProtocolAmount(s)
<1>1. n \in Nat /\ n > 0 /\ n <= s.idle /\ n <= e /\ n <= x /\ n <= t
  BY SizeWithin
<1>2. s.idle \in Nat /\ t \in Nat
  BY PoolInputs
<1>3. e \in Nat
  BY PoolInputs, ExactShare DEF MaxExposureAmount
<1>4. c \in Nat
  BY AmountInputs, ExactShare DEF CanAllocate, MaxProtocolAmount
<1>5. x \in Nat
  <2>1. MinLiquidityReserve(s) \in Nat
    BY PoolInputs, ExactShare DEF MinLiquidityReserve
  <2>2. QED
    BY <1>2, <2>1 DEF Excess
<1>6. n = Lesser(x, Lesser(e, t))
  BY DEF SizeDeployable
<1>7. ProposedAmount(s) = Lesser(Lesser(x, e - 0), Lesser(Excess(c, 0), t))
  BY DEF ProposedAmount
<1>8. ~Overexposed(s)
  BY <1>3 DEF Overexposed
<1>9. ProposedAmount(s) = n
  <2> HIDE DEF n, t, e, x, c
  <2>1. c >= n
    BY DEF n, c
  <2>2. QED
    BY <1>1, <1>2, <1>3, <1>4, <1>5, <1>6, <1>7, <2>1 DEF Lesser, Excess
<1>10. QED
  BY <1>1, <1>2, <1>8, <1>9 DEF Decision

LEMMA SuggestionsFollow == TypeOK => SuggestionsFollowRules
<1> SUFFICES ASSUME TypeOK, NEW v \in Analysed, NEW a \in Assets,
                    Deployable(SnapshotOf(v, a)) > 0
             PROVE  LET s == SnapshotOf(v, a)
                        n == Deployable(s)
                    IN /\ n <= s.idle /\ n <= s.config.params.maxTxAmount[a]
                       /\ n * BPS <= s.total * s.config.params.maxExposureBps
                       /\ (s.idle - n) * BPS >= s.total * s.config.params.minIdleBps
                       /\ (/\ CanAllocate(s) /\ s.allocations[Destination(s)] = 0
                           /\ MaxProtocolAmount(s) >= n)
                            => Decision(s) = "REBALANCE" /\ ProposedAmount(s) = n
  BY DEF SuggestionsFollowRules
<1> DEFINE s == SnapshotOf(v, a)
<1>1. s \in Snapshot /\ s.asset = a
  BY SnapshotType DEF SnapshotOf
<1> HIDE DEF s
<1>2. Deployable(s) = SizeDeployable(s) /\ SizeDeployable(s) > 0
  BY DEF Deployable, s
<1>3. /\ SizeDeployable(s) <= s.idle
      /\ SizeDeployable(s) <= s.config.params.maxTxAmount[a]
      /\ SizeDeployable(s) * BPS <= s.total * s.config.params.maxExposureBps
      /\ (s.idle - SizeDeployable(s)) * BPS >= s.total * s.config.params.minIdleBps
  BY <1>1, <1>2, SizeWithin
<1>4. (/\ CanAllocate(s) /\ s.allocations[Destination(s)] = 0
       /\ MaxProtocolAmount(s) >= SizeDeployable(s))
        => Decision(s) = "REBALANCE" /\ ProposedAmount(s) = SizeDeployable(s)
  BY <1>1, <1>2, SameProposal
<1>5. QED
  BY <1>2, <1>3, <1>4 DEF s

-----------------------------------------------------------------------------
(* The blockers. *)

(* A share that rounds down to at most the maximum is less than one basis  *)
(* point above it; an idle share that rounds down to at least the minimum  *)
(* leaves the exact reserve.                                               *)
LEMMA PassedShares ==
  ASSUME NEW held \in Nat, NEW idle \in Nat, NEW total \in Nat, total > 0,
         NEW n \in Nat, n <= idle, NEW max \in Nat, NEW min \in Nat
  PROVE  /\ ResultingAllocationBps(held, n, total) <= max => n * BPS < total * (max + 1)
         /\ ResultingIdleBps(idle, n, total) >= min => (idle - n) * BPS >= total * min
<1>1. ASSUME ResultingAllocationBps(held, n, total) <= max
      PROVE  n * BPS < total * (max + 1)
  <2>1. (held + n) * BPS \in Nat /\ n * BPS \in Nat /\ n * BPS <= (held + n) * BPS
    BY DEF BPS
  <2>2. SUFFICES ASSUME n * BPS >= total * (max + 1)
                 PROVE  FALSE
    BY <2>1
  <2>3. (max + 1) * total <= (held + n) * BPS
    BY <2>1, <2>2
  <2>4. max + 1 <= ((held + n) * BPS) \div total
    BY <2>1, <2>3, FloorLargest
  <2>5. ((held + n) * BPS) \div total \in Nat
    BY <2>1, Floor
  <2>6. QED
    BY <1>1, <2>4, <2>5 DEF ResultingAllocationBps
<1>2. ASSUME ResultingIdleBps(idle, n, total) >= min
      PROVE  (idle - n) * BPS >= total * min
  <2> DEFINE q == ((idle - n) * BPS) \div total
  <2>1. (idle - n) * BPS \in Nat
    BY DEF BPS
  <2>2. q \in Nat /\ q * total <= (idle - n) * BPS
    BY <2>1, Floor
  <2>3. min <= q
    BY <1>2 DEF ResultingIdleBps
  <2> HIDE DEF q
  <2>4. min * total <= q * total
    BY <2>2, <2>3, Scale
  <2>5. QED
    BY <2>1, <2>2, <2>4
<1>3. QED
  BY <1>1, <1>2

(* What the evaluation has checked of a move that passes it. *)
LEMMA PassedMove ==
  ASSUME TypeOK, NEW v \in Analysed, NEW a \in Assets, NEW i \in StrategyIds, NEW n \in Nat,
         Evaluate(vaults[v].owner, Move(v, a, i, n))
  PROVE  LET s == SnapshotOf(v, a) IN
         /\ Blocked(s) = {}
         /\ n > 0 /\ n <= s.idle /\ n <= s.config.params.maxTxAmount[a]
         /\ n * BPS < s.total * (s.config.params.maxExposureBps + 1)
         /\ (s.idle - n) * BPS >= s.total * s.config.params.minIdleBps
<1> DEFINE m == Move(v, a, i, n)
           p == vaultConfig[v].params
           s == SnapshotOf(v, a)
           held == strategyAllocations[v][i][a]
<1>1. m.vault = v /\ m.strategy = i /\ m.asset = a /\ m.amount = n
  BY DEF Move
<1>2. /\ SupportsAsset(v, a) /\ ~vaults[v].paused
      /\ CheckIntent(m, CallerIsOwner(vaults[v].owner, m), idleBalances[v][a],
                     totalBalances[v][a], held, MaxAllocationBps(i))
  BY <1>1 DEF Evaluate
<1>3. /\ ~protocolPaused /\ n > 0 /\ n <= p.maxTxAmount[a] /\ n <= idleBalances[v][a]
      /\ totalBalances[v][a] > 0
      /\ ResultingAllocationBps(held, n, totalBalances[v][a]) <= p.maxExposureBps
      /\ ResultingIdleBps(idleBalances[v][a], n, totalBalances[v][a]) >= p.minIdleBps
  BY <1>1, <1>2 DEF CheckIntent
<1>4. /\ s.idle = idleBalances[v][a] /\ s.total = totalBalances[v][a]
      /\ s.config = vaultConfig[v] /\ s.asset = a
      /\ s.protocolPaused = protocolPaused /\ s.supportsAsset = SupportsAsset(v, a)
      /\ s.paused = vaults[v].paused
  BY DEF SnapshotOf
<1>5. s \in Snapshot
  BY SnapshotType
<1>6. /\ s.idle \in Nat /\ s.total \in Nat /\ p.maxExposureBps \in Nat
      /\ p.minIdleBps \in Nat /\ held \in Nat
  <2>1. held \in Nat
    BY DEF TypeOK, VaultTypeOK, Analysed
  <2>2. QED
    BY <1>4, <1>5, <2>1, PoolInputs
<1> HIDE DEF s, held, p, m
<1>7. /\ n * BPS < s.total * (p.maxExposureBps + 1)
      /\ (s.idle - n) * BPS >= s.total * p.minIdleBps
  BY <1>3, <1>4, <1>6, PassedShares
<1>8. Blocked(s) = {}
  <2>1. ~s.protocolPaused /\ s.supportsAsset /\ ~s.paused /\ s.total # 0
    BY <1>2, <1>3, <1>4, <1>6
  <2>2. QED
    BY <2>1 DEF Blocked
<1>9. QED
  BY <1>3, <1>4, <1>7, <1>8 DEF s, p

(* Without room within the limits, only the rounding lets a move pass. *)
LEMMA NoRoom ==
  ASSUME NEW s \in Snapshot, SizeDeployable(s) = 0, NEW n \in Nat, n > 0,
         n <= s.idle, n <= s.config.params.maxTxAmount[s.asset],
         (s.idle - n) * BPS >= s.total * s.config.params.minIdleBps
  PROVE  n * BPS > s.total * s.config.params.maxExposureBps
<1> DEFINE e == s.total * s.config.params.maxExposureBps
           m == s.total * s.config.params.minIdleBps
           t == s.config.params.maxTxAmount[s.asset]
<1>1. s.idle \in Nat /\ t \in Nat /\ e \in Nat /\ m \in Nat
  BY PoolInputs
<1>2. SizeDeployable(s) = Lesser(Excess(s.idle, (m + BPS - 1) \div BPS), Lesser(e \div BPS, t))
  BY DEF SizeDeployable, MaxExposureAmount, MinLiquidityReserve
<1>3. e \div BPS \in Nat /\ (m + BPS - 1) \div BPS \in Nat
  BY <1>1, ExactShare
<1>4. s.idle - n >= (m + BPS - 1) \div BPS
  <2>1. s.idle - n \in Nat
    BY <1>1
  <2>2. QED
    BY <1>1, <2>1, ExactShare
<1>5. e \div BPS < n
  <2> HIDE DEF e, m, t
  <2>1. n <= t
    BY DEF t
  <2>2. QED
    BY <1>1, <1>2, <1>3, <1>4, <2>1 DEF Lesser, Excess
<1>6. ~(n <= e \div BPS)
  BY <1>3, <1>5
<1>7. ~(n * BPS <= e)
  BY <1>1, <1>6, ExactShare
<1>8. n * BPS \in Nat
  BY DEF BPS
<1> HIDE DEF e
<1>9. n * BPS > e
  BY <1>1, <1>7, <1>8
<1>10. QED
  BY <1>9 DEF e

LEMMA BlockersAreTrue == TypeOK => BlockersTrue
<1> SUFFICES ASSUME TypeOK, NEW v \in Analysed, NEW a \in Assets
             PROVE  LET s == SnapshotOf(v, a) IN
                    IF Blockers(s) # {}
                    THEN \A i \in StrategyIds, n \in 1 .. s.total :
                           Evaluate(s.owner, Move(v, a, i, n))
                             => Blocked(s) = {} /\ PassesByRounding(s, n)
                    ELSE Deployable(s) > 0
  BY DEF BlockersTrue
<1> DEFINE s == SnapshotOf(v, a)
<1>1. s \in Snapshot /\ s.asset = a /\ s.owner = vaults[v].owner
  BY SnapshotType DEF SnapshotOf
<1>2. ASSUME Blockers(s) # {}, NEW i \in StrategyIds, NEW n \in 1 .. s.total,
             Evaluate(s.owner, Move(v, a, i, n))
      PROVE  Blocked(s) = {} /\ PassesByRounding(s, n)
  <2>1. n \in Nat
    BY <1>1, PoolInputs
  <2>2. /\ Blocked(s) = {}
        /\ n > 0 /\ n <= s.idle /\ n <= s.config.params.maxTxAmount[a]
        /\ n * BPS < s.total * (s.config.params.maxExposureBps + 1)
        /\ (s.idle - n) * BPS >= s.total * s.config.params.minIdleBps
    BY <1>1, <1>2, <2>1, PassedMove
  <2> HIDE DEF s
  <2>3. SizeDeployable(s) = 0
    BY <1>2, <2>2 DEF Blockers, Deployable
  <2>4. n * BPS > s.total * s.config.params.maxExposureBps
    BY <1>1, <2>1, <2>2, <2>3, NoRoom
  <2>5. QED
    BY <2>2, <2>4 DEF PassesByRounding
<1>3. ASSUME Blockers(s) = {}
      PROVE  Deployable(s) > 0
  <2> HIDE DEF s
  <2>1. Blocked(s) = {} /\ Deployable(s) # 0
    BY <1>3 DEF Blockers
  <2>2. SizeDeployable(s) \in Nat
    BY <1>1, SizeWithin
  <2>3. QED
    BY <2>1, <2>2 DEF Deployable
<1>4. QED
  BY <1>2, <1>3

-----------------------------------------------------------------------------
(* The ranking. *)

LEMMA TierNat == \A p \in Listings : RiskTier(p) \in Nat
  BY DEF RiskTier, CategoryRisk

LEMMA ListingsFinite == IsFiniteSet(Listings) /\ Listings \subseteq Nat
<1>1. Listings = 1 .. 9
  BY DEF Listings, EcosystemProtocols
<1>2. IsFiniteSet(1 .. 9)
  <2>1. 1 \in Int /\ 9 \in Int
    OBVIOUS
  <2>2. QED
    BY <2>1, FS_Interval, Zenon
<1>3. QED
  BY <1>1, <1>2

(* What the services may answer of every protocol. *)
Answers == [Listings -> [live: BOOLEAN \cup {NotChecked}, tvl: Nat \cup {NotChecked}]]

LEMMA DepthInt ==
  ASSUME NEW checks \in Answers, NEW p \in Listings
  PROVE  TvlOrLess(checks[p]) \in Int /\ TvlOrLess(checks[p]) >= 0 - 1
<1>1. checks[p].tvl \in Nat \cup {NotChecked}
  BY DEF Answers
<1>2. CASE checks[p].tvl = NotChecked
  BY <1>2 DEF TvlOrLess
<1>3. CASE checks[p].tvl \in Nat /\ checks[p].tvl # NotChecked
  BY <1>3 DEF TvlOrLess
<1>4. QED
  BY <1>1, <1>2, <1>3

LEMMA CandidatesListed ==
  ASSUME NEW s, NEW checks, NEW T \in SUBSET Candidates(s, checks)
  PROVE  IsFiniteSet(T) /\ Cardinality(T) \in Nat /\ T \subseteq Listings
<1>1. T \subseteq Listings
  BY DEF Candidates
<1>2. QED
  BY <1>1, ListingsFinite, FS_Subset, FS_CardinalityType

(* Who is ahead of whom is a strict order of the candidates. *)
LEMMA AheadOrders ==
  ASSUME NEW checks \in Answers
  PROVE  /\ \A p \in Listings : ~Ahead(checks, p, p)
         /\ \A p, q \in Listings : p # q => Ahead(checks, p, q) \/ Ahead(checks, q, p)
         /\ \A p, q, r \in Listings :
              Ahead(checks, p, q) /\ Ahead(checks, q, r) => Ahead(checks, p, r)
<1> DEFINE D(p) == TvlOrLess(checks[p])
<1>1. \A p \in Listings : p \in Nat /\ RiskTier(p) \in Nat /\ D(p) \in Int
  BY TierNat, ListingsFinite, DepthInt
<1>2. \A p, q \in Listings :
        Ahead(checks, p, q) <=>
          \/ RiskTier(p) < RiskTier(q)
          \/ RiskTier(p) = RiskTier(q) /\ D(p) > D(q)
          \/ RiskTier(p) = RiskTier(q) /\ D(p) = D(q) /\ p < q
  <2> SUFFICES ASSUME NEW p \in Listings, NEW q \in Listings
               PROVE  Ahead(checks, p, q) <=>
                        \/ RiskTier(p) < RiskTier(q)
                        \/ RiskTier(p) = RiskTier(q) /\ D(p) > D(q)
                        \/ RiskTier(p) = RiskTier(q) /\ D(p) = D(q) /\ p < q
    OBVIOUS
  <2> DEFINE deeper == D(p) - D(q)
  <2>1. Ahead(checks, p, q) <=>
          \/ RiskTier(p) < RiskTier(q)
          \/ RiskTier(p) = RiskTier(q) /\ deeper > 0
          \/ RiskTier(p) = RiskTier(q) /\ deeper = 0 /\ p < q
    BY <1>1 DEF Ahead
  <2> HIDE DEF D
  <2>2. QED
    BY <1>1, <2>1
<1> HIDE DEF D
<1>3. \A p \in Listings : ~Ahead(checks, p, p)
  BY <1>1, <1>2
<1>4. ASSUME NEW p \in Listings, NEW q \in Listings, p # q
      PROVE  Ahead(checks, p, q) \/ Ahead(checks, q, p)
  BY <1>1, <1>2, <1>4
<1>5. ASSUME NEW p \in Listings, NEW q \in Listings, NEW r \in Listings,
             Ahead(checks, p, q), Ahead(checks, q, r)
      PROVE  Ahead(checks, p, r)
  BY <1>1, <1>2, <1>5
<1>6. QED
  BY <1>3, <1>4, <1>5

(* Whoever is ahead with the figure is ahead without it. *)
LEMMA AheadOfUnread ==
  ASSUME NEW checks \in Answers, NEW p \in Listings, NEW q \in Listings,
         Ahead(checks, q, p)
  PROVE  Ahead([checks EXCEPT ![p].tvl = NotChecked], q, p)
<1> DEFINE unread == [checks EXCEPT ![p].tvl = NotChecked]
           dq == TvlOrLess(checks[q])
           dp == TvlOrLess(checks[p])
<1>1. q # p
  BY AheadOrders
<1>2. unread[q] = checks[q]
  BY <1>1 DEF Answers
<1>3. unread[p].tvl = NotChecked
  BY DEF Answers
<1> HIDE DEF unread
<1>4. TvlOrLess(unread[q]) = dq /\ TvlOrLess(unread[p]) = 0 - 1
  BY <1>2, <1>3, Zenon DEF TvlOrLess
<1>5. dq \in Int /\ dp \in Int /\ dp >= 0 - 1
  BY DepthInt
<1>6. \/ RiskTier(q) < RiskTier(p)
      \/ RiskTier(q) = RiskTier(p) /\ dq - dp > 0
      \/ RiskTier(q) = RiskTier(p) /\ dq - dp = 0 /\ q < p
  BY DEF Ahead
<1> HIDE DEF dq, dp
<1>7. \/ RiskTier(q) < RiskTier(p)
      \/ RiskTier(q) = RiskTier(p) /\ dq - (0 - 1) > 0
      \/ RiskTier(q) = RiskTier(p) /\ dq - (0 - 1) = 0 /\ q < p
  BY <1>5, <1>6
<1>8. Ahead(unread, q, p)
  BY <1>4, <1>7 DEF Ahead
<1>9. QED
  BY <1>8 DEF unread

LEMMA RankGrows ==
  ASSUME NEW s, NEW checks \in Answers, NEW other \in Answers,
         NEW p \in Listings,
         Candidates(s, checks) \subseteq Candidates(s, other),
         \A q \in Candidates(s, checks) : Ahead(checks, q, p) => Ahead(other, q, p)
  PROVE  Rank(s, checks, p) <= Rank(s, other, p)
<1> DEFINE T == {q \in Candidates(s, checks) : Ahead(checks, q, p)}
           U == {q \in Candidates(s, other) : Ahead(other, q, p)}
<1>1. T \subseteq U
  OBVIOUS
<1>2. IsFiniteSet(U) /\ Cardinality(T) \in Nat /\ Cardinality(U) \in Nat
  BY CandidatesListed
<1>3. Cardinality(T) <= Cardinality(U)
  BY <1>1, <1>2, FS_Subset
<1>4. Rank(s, checks, p) = 1 + Cardinality(T) /\ Rank(s, other, p) = 1 + Cardinality(U)
  BY DEF Rank
<1> HIDE DEF T, U
<1>5. QED
  BY <1>2, <1>3, <1>4

LEMMA UnansweredDoesNotHelp == UnansweredNeverHelps
<1> SUFFICES ASSUME NEW v \in Analysed, NEW a \in Assets, NEW checks \in ChecksTried,
                    NEW p \in Candidates(SnapshotOf(v, a), checks)
             PROVE  LET s == SnapshotOf(v, a)
                        unread == [checks EXCEPT ![p].tvl = NotChecked]
                        unseen == [checks EXCEPT ![p].live = NotChecked]
                    IN /\ Rank(s, unread, p) >= Rank(s, checks, p)
                       /\ HypotheticalAllocation(s, unseen, p) = 0
                       /\ \A q \in Candidates(s, unseen) :
                            Rank(s, unseen, q) <= Rank(s, checks, q)
  BY DEF UnansweredNeverHelps
<1> DEFINE s == SnapshotOf(v, a)
           unread == [checks EXCEPT ![p].tvl = NotChecked]
           unseen == [checks EXCEPT ![p].live = NotChecked]
<1> HIDE DEF s
<1>1. checks \in Answers
  BY ChecksAssumption DEF Answers
<1>2. p \in Listings
  BY DEF Candidates, s
<1>3. unread \in Answers /\ unseen \in Answers
  BY <1>1, <1>2 DEF Answers
<1>4. \A q \in Listings : unread[q].live = checks[q].live
  BY <1>1, <1>2 DEF Answers
<1>5. /\ \A q \in Listings : unseen[q].tvl = checks[q].tvl
      /\ \A q \in Listings : q # p => unseen[q].live = checks[q].live
      /\ unseen[p].live = NotChecked
  BY <1>1, <1>2 DEF Answers
<1>6. NotChecked # TRUE
  BY ChecksAssumption
<1> HIDE DEF unread, unseen
<1>7. Candidates(s, unread) = Candidates(s, checks)
  BY <1>4 DEF Candidates
<1>8. /\ Candidates(s, unseen) \subseteq Candidates(s, checks)
      /\ p \notin Candidates(s, unseen)
  BY <1>5, <1>6 DEF Candidates
<1>9. Rank(s, checks, p) <= Rank(s, unread, p)
  <2>1. \A q \in Candidates(s, checks) : Ahead(checks, q, p) => Ahead(unread, q, p)
    BY <1>1, <1>2, AheadOfUnread DEF unread, Candidates
  <2>2. QED
    BY <1>1, <1>2, <1>3, <1>7, <2>1, RankGrows
<1>10. ASSUME NEW q \in Candidates(s, unseen)
       PROVE  Rank(s, unseen, q) <= Rank(s, checks, q)
  <2>1. q \in Listings
    BY DEF Candidates
  <2>2. \A r \in Listings : TvlOrLess(unseen[r]) = TvlOrLess(checks[r])
    BY <1>5 DEF TvlOrLess
  <2>3. \A r \in Candidates(s, unseen) : Ahead(unseen, r, q) => Ahead(checks, r, q)
    BY <2>1, <2>2 DEF Ahead, Candidates
  <2>4. QED
    BY <1>1, <1>3, <1>8, <2>1, <2>3, RankGrows
<1>11. HypotheticalAllocation(s, unseen, p) = 0
  BY <1>8 DEF HypotheticalAllocation
<1>12. Rank(s, checks, p) \in Nat /\ Rank(s, unread, p) \in Nat
  <2>1. ASSUME NEW c
        PROVE  Rank(s, c, p) \in Nat
    <3> DEFINE T == {q \in Candidates(s, c) : Ahead(c, q, p)}
    <3>1. Cardinality(T) \in Nat
      BY CandidatesListed
    <3>2. Rank(s, c, p) = 1 + Cardinality(T)
      BY DEF Rank
    <3> HIDE DEF T
    <3>3. QED
      BY <3>1, <3>2
  <2>2. QED
    BY <2>1
<1>13. QED
  BY <1>9, <1>10, <1>11, <1>12 DEF s, unread, unseen

(* One stands first when any is ranked: of the candidates, finite in       *)
(* number and strictly ordered, one is behind nobody.                      *)
LEMMA OneStandsFirst ==
  ASSUME NEW s, NEW checks \in Answers, Candidates(s, checks) # {}
  PROVE  Cardinality(TopPick(s, checks)) = 1
<1> DEFINE C == Candidates(s, checks)
           R == {d \in C \X C : Ahead(checks, d[2], d[1])}
           Before(p) == {q \in C : Ahead(checks, q, p)}
<1>1. IsFiniteSet(C) /\ C \subseteq Listings
  BY CandidatesListed
<1> HIDE DEF C
<1>2. \A x, y \in C : <<x, y>> \in R <=> Ahead(checks, y, x)
  OBVIOUS
<1> HIDE DEF R
<1>3. StrictlyOrders(R, C)
  <2>1. \A x \in C : <<x, x>> \notin R
    BY <1>1, <1>2, AheadOrders
  <2>2. \A x, y \in C : x # y => <<x, y>> \in R \/ <<y, x>> \in R
    BY <1>1, <1>2, AheadOrders
  <2>3. ASSUME NEW x \in C, NEW y \in C, NEW z \in C, <<x, y>> \in R, <<y, z>> \in R
        PROVE  <<x, z>> \in R
    <3>1. Ahead(checks, z, y) /\ Ahead(checks, y, x)
      BY <1>2, <2>3
    <3>2. Ahead(checks, z, x)
      BY <1>1, <3>1, AheadOrders
    <3>3. QED
      BY <1>2, <3>2
  <2>4. QED
    BY <2>1, <2>2, <2>3 DEF StrictlyOrders
<1>4. PICK x \in C : \A y \in C \ {x} : <<y, x>> \in R
  BY <1>1, <1>3, LastExists DEF C
<1>5. \A y \in C \ {x} : Ahead(checks, x, y)
  BY <1>2, <1>4
<1>6. ASSUME NEW p \in C
      PROVE  Rank(s, checks, p) = 1 <=> Before(p) = {}
  <2>1. IsFiniteSet(Before(p)) /\ Cardinality(Before(p)) \in Nat
    BY CandidatesListed DEF C
  <2>2. Cardinality(Before(p)) = 0 <=> Before(p) = {}
    BY <2>1, FS_EmptySet
  <2>3. Rank(s, checks, p) = 1 + Cardinality(Before(p))
    BY DEF Rank, C
  <2> HIDE DEF Before
  <2>4. QED
    BY <2>1, <2>2, <2>3
<1>7. Before(x) = {}
  <2>1. ASSUME NEW q \in C, Ahead(checks, q, x)
        PROVE  FALSE
    <3>1. q # x
      BY <1>1, <2>1, AheadOrders
    <3>2. Ahead(checks, x, q)
      BY <1>5, <3>1
    <3>3. Ahead(checks, q, q)
      BY <1>1, <2>1, <3>2, AheadOrders
    <3>4. QED
      BY <1>1, <3>3, AheadOrders
  <2>2. QED
    BY <2>1
<1>8. \A y \in C : y # x => x \in Before(y)
  BY <1>5
<1> HIDE DEF Before
<1>9. TopPick(s, checks) = {x}
  BY <1>6, <1>7, <1>8 DEF TopPick, C
<1>10. QED
  BY <1>9, FS_Singleton

LEMMA SummaryIsTrue == SummaryTrue
<1> SUFFICES ASSUME NEW v \in Analysed, NEW a \in Assets, NEW checks \in ChecksTried
             PROVE  LET s == SnapshotOf(v, a) IN
                    /\ \A p \in Listings :
                         p \in Candidates(s, checks) <=> Exclusion(s, checks, p) = {}
                    /\ Cardinality(TopPick(s, checks)) =
                         (IF Candidates(s, checks) = {} THEN 0 ELSE 1)
                    /\ Summary(s, checks).about = "none accepts the asset" =>
                         \A p \in Listings : "asset" \in Exclusion(s, checks, p)
                    /\ Summary(s, checks).about = "none could be verified live" =>
                         /\ \E p \in Listings : Supports(p, a)
                         /\ \A p \in Listings : Supports(p, a) =>
                              Exclusion(s, checks, p) \in {{"not found"}, {"not verified"}}
  BY DEF SummaryTrue
<1> DEFINE s == SnapshotOf(v, a)
<1>1. s.asset = a
  BY DEF SnapshotOf
<1> HIDE DEF s
<1>2. checks \in Answers
  BY ChecksAssumption DEF Answers
<1>3. ASSUME NEW p \in Listings
      PROVE  /\ p \in Candidates(s, checks) <=> Exclusion(s, checks, p) = {}
             /\ "asset" \in Exclusion(s, checks, p) <=> ~Supports(p, a)
             /\ Supports(p, a) =>
                  Exclusion(s, checks, p) \in {{}, {"not found"}, {"not verified"}}
  <2>1. checks[p].live \in {TRUE, FALSE, NotChecked} /\ NotChecked # TRUE /\ NotChecked # FALSE
    BY <1>2, ChecksAssumption DEF Answers
  <2>2. CASE checks[p].live = TRUE
    BY <1>1, <2>1, <2>2 DEF Candidates, Exclusion
  <2>3. CASE checks[p].live = FALSE
    BY <1>1, <2>1, <2>3 DEF Candidates, Exclusion
  <2>4. CASE checks[p].live = NotChecked
    BY <1>1, <2>1, <2>4 DEF Candidates, Exclusion
  <2>5. QED
    BY <2>1, <2>2, <2>3, <2>4
<1>4. Cardinality(TopPick(s, checks)) = (IF Candidates(s, checks) = {} THEN 0 ELSE 1)
  <2>1. CASE Candidates(s, checks) = {}
    BY <2>1, FS_EmptySet DEF TopPick
  <2>2. CASE Candidates(s, checks) # {}
    BY <1>2, <2>2, OneStandsFirst
  <2>3. QED
    BY <2>1, <2>2
<1>5. Summary(s, checks).about = "none accepts the asset" => \A p \in Listings : ~Supports(p, a)
  BY <1>1 DEF Summary
<1>6. Summary(s, checks).about = "none could be verified live" =>
        Candidates(s, checks) = {} /\ \E p \in Listings : Supports(p, a)
  BY <1>1 DEF Summary
<1>7. QED
  BY <1>3, <1>4, <1>5, <1>6 DEF s

(* In every reachable state, whatever the services answer, what is said of *)
(* the ecosystem's protocols follows the vault's rules, is no better for   *)
(* an answer that is missing, and its blockers and its summary are true.   *)
THEOREM EcosystemAdviceTruthful == Spec => []EcosystemAdviceHonest
<1>1. TypeOK => EcosystemAdviceHonest
  BY SuggestionsFollow, UnansweredDoesNotHelp, BlockersAreTrue, SummaryIsTrue
  DEF EcosystemAdviceHonest
<1>2. QED
  BY <1>1, TypeCorrect, PTL

-----------------------------------------------------------------------------
(* What the recommendation page shows. *)

(* The one thing that changes an allocation is a deployment into it, which *)
(* takes from the idle balance and leaves the total and the registry.      *)
LEMMA AllocationMoves ==
  ASSUME PoolInv, [Next]_vars, NEW v \in VaultIds, NEW i \in StrategyIds, NEW a \in Assets,
         strategyAllocations'[v][i][a] # strategyAllocations[v][i][a]
  PROVE  \E n \in Nat :
           /\ n <= idleBalances[v][a]
           /\ \A j \in StrategyIds : strategyAllocations'[v][j][a] =
                IF j = i THEN strategyAllocations[v][i][a] + n ELSE strategyAllocations[v][j][a]
           /\ idleBalances'[v][a] = idleBalances[v][a] - n
           /\ totalBalances'[v][a] = totalBalances[v][a]
           /\ strategies' = strategies
<1>1. EngineStep
  BY NextIsAny, OnlyEngineDeploys
<1>2. PICK w \in VaultIds, j \in StrategyIds, b \in Assets, n \in Amounts,
           c \in StrategyContracts, t \in Tokens : Deployed(w, j, b, c, t, n)
  <2>1. \A b \in Assets : TokensOf(b) \subseteq Tokens
    BY DEF Assets, TokensOf, Tokens
  <2>2. QED
    BY <1>1, <2>1, EngineStepMoves
<1>3. n \in Nat /\ n > 0
  BY <1>2, InputAssumption DEF Deployed
<1>4. /\ strategyAllocations' = [strategyAllocations EXCEPT ![w][j][b] = @ + n]
      /\ idleBalances' = [idleBalances EXCEPT ![w][b] = @ - n]
      /\ n <= idleBalances[w][b]
      /\ totalBalances' = totalBalances
  BY <1>2 DEF Deployed, Deploy
<1>5. /\ strategyAllocations \in [VaultIds -> [StrategyIds -> [Assets -> Nat]]]
      /\ idleBalances \in [VaultIds -> [Assets -> Nat]]
  BY DEF PoolInv, TypeOK, VaultTypeOK
<1>6. w = v /\ j = i /\ b = a
  BY <1>4, <1>5
<1>7. /\ idleBalances'[v][a] = idleBalances[v][a] - n
      /\ \A k \in StrategyIds : strategyAllocations'[v][k][a] =
           IF k = i THEN strategyAllocations[v][i][a] + n ELSE strategyAllocations[v][k][a]
  BY <1>4, <1>5, <1>6
<1>8. strategies' = strategies
  BY <1>1 DEF EngineStep, strategyVars
<1>9. QED
  BY <1>3, <1>4, <1>6, <1>7, <1>8

(* The engine's strategies of an asset are those the overview lists. *)
LEMMA SameStrategiesShown ==
  ASSUME TypeOK, NEW v \in Analysed, NEW a \in Assets
  PROVE  AssetStrategies(SnapshotOf(v, a)) =
           {i \in ProbedIds : strategies[i].active /\ strategies[i].asset = a}
<1>1. \A i \in ProbedIds : i \in StrategyIds /\ strategies[i] # Absent
  BY DEF ProbedIds, StrategyIds
<1>2. \A i \in StrategyIds : ActiveStrategies[i] =
        IF i \in ProbedIds /\ strategies[i].active THEN strategies[i] ELSE Absent
  BY DEF ActiveStrategies
<1>3. AssetStrategies(SnapshotOf(v, a)) =
        {i \in StrategyIds : ActiveStrategies[i] # Absent /\ ActiveStrategies[i].asset = a}
  BY DEF AssetStrategies, SnapshotOf
<1>4. QED
  BY <1>1, <1>2, <1>3

(* A proposal that was executed is shown as it was previewed. *)
LEMMA PreviewIsExecuted ==
  ASSUME PoolInv, [Next]_vars, NEW v \in Analysed, NEW a \in Assets,
         Decision(SnapshotOf(v, a)) = "REBALANCE"
  PROVE  PreviewExecuted(v, a, SnapshotOf(v, a))
<1> DEFINE s == SnapshotOf(v, a)
           d == Destination(s)
           n == ProposedAmount(s)
           A == AssetStrategies(s)
<1>1. s \in Snapshot /\ v \in VaultIds
  BY SnapshotType DEF PoolInv, Analysed
<1>2. CanAllocate(s) /\ ~Overexposed(s) /\ n > 0
  BY DEF Decision
<1>3. A # {} /\ A \subseteq StrategyIds
  BY <1>2 DEF CanAllocate, AssetStrategies
<1>4. d \in StrategyIds /\ n \in Nat
  BY <1>1, <1>2, <1>3, DestinationType, AmountWithin
<1>5. /\ s.idle = idleBalances[v][a] /\ s.total = totalBalances[v][a]
      /\ \A i \in StrategyIds : s.allocations[i] = strategyAllocations[v][i][a]
  BY DEF SnapshotOf
<1>6. CurrentAllocation(SnapshotOf(v, a))' =
        [idle |-> (idleBalances'[v][a] * BPS) \div totalBalances'[v][a],
         strategies |-> [i \in AssetStrategies(SnapshotOf(v, a))' |->
                           (strategyAllocations'[v][i][a] * BPS) \div totalBalances'[v][a]]]
  BY DEF CurrentAllocation, SnapshotOf, AssetStrategies
<1>7. strategies' = strategies => AssetStrategies(SnapshotOf(v, a))' = A
  BY DEF AssetStrategies, SnapshotOf, ActiveStrategies, ProbedIds
<1>8. ProposedAllocation(s) =
        [idle |-> ((s.idle - n) * BPS) \div s.total,
         strategies |-> [i \in A |->
                          ((s.allocations[i] + (IF i = d THEN n ELSE 0)) * BPS) \div s.total]]
  BY DEF ProposedAllocation
<1> SUFFICES ASSUME strategyAllocations'[v][d][a] = strategyAllocations[v][d][a] + n
             PROVE  CurrentAllocation(SnapshotOf(v, a))' = ProposedAllocation(s)
  BY DEF PreviewExecuted
<1>9. \A i \in StrategyIds : strategyAllocations[v][i][a] \in Nat
  BY <1>1 DEF PoolInv, TypeOK, VaultTypeOK
<1>10. PICK m \in Nat :
         /\ \A j \in StrategyIds : strategyAllocations'[v][j][a] =
              IF j = d THEN strategyAllocations[v][d][a] + m ELSE strategyAllocations[v][j][a]
         /\ idleBalances'[v][a] = idleBalances[v][a] - m
         /\ totalBalances'[v][a] = totalBalances[v][a]
         /\ strategies' = strategies
  <2>1. strategyAllocations'[v][d][a] # strategyAllocations[v][d][a]
    BY <1>2, <1>4, <1>9
  <2> HIDE DEF s, d, n, A
  <2>2. QED
    BY <1>1, <1>4, <2>1, AllocationMoves
<1> HIDE DEF s, d, n, A
<1>11. m = n
  BY <1>4, <1>9, <1>10
<1>12. \A i \in A : strategyAllocations'[v][i][a] = s.allocations[i] + (IF i = d THEN n ELSE 0)
  BY <1>3, <1>5, <1>9, <1>10, <1>11
<1>13. AssetStrategies(SnapshotOf(v, a))' = A
  BY <1>7, <1>10
<1>14. idleBalances'[v][a] = s.idle - n /\ totalBalances'[v][a] = s.total
  BY <1>5, <1>10, <1>11
<1>15. [i \in A |-> (strategyAllocations'[v][i][a] * BPS) \div totalBalances'[v][a]] =
        [i \in A |-> ((s.allocations[i] + (IF i = d THEN n ELSE 0)) * BPS) \div s.total]
  BY <1>12, <1>14
<1>16. QED
  BY <1>6, <1>8, <1>13, <1>14, <1>15

(* The line about the allocation. *)
LEMMA UnchangedLineIsTrue ==
  ASSUME PoolInv, PoolInv', [Next]_vars, NEW v \in Analysed, NEW a \in Assets,
         Decision(SnapshotOf(v, a)) = "REBALANCE"
  PROVE  UnchangedIsTrue(v, a, SnapshotOf(v, a))
<1> DEFINE s == SnapshotOf(v, a)
           A == AssetStrategies(s)
           live == PoolAllocation(v, a)'
           shown == {i \in ProbedIds' : strategies'[i].active /\ strategies'[i].asset = a}
           moved == \E i \in A : strategyAllocations'[v][i][a] # strategyAllocations[v][i][a]
<1>1. TypeOK /\ v \in VaultIds
  BY DEF PoolInv, Analysed
<1>2. s.total = totalBalances[v][a] /\ \A i \in StrategyIds : s.allocations[i] = strategyAllocations[v][i][a]
  BY DEF SnapshotOf
<1>3. s.total # 0
  BY <1>1, SnapshotType DEF Decision, CanAllocate, Snapshot
<1>4. A \subseteq StrategyIds
  BY DEF AssetStrategies
<1>5. live = IF totalBalances'[v][a] = 0 THEN Absent
             ELSE [idle |-> (idleBalances'[v][a] * BPS) \div totalBalances'[v][a],
                   strategies |-> [i \in shown |-> strategyAllocations'[v][i][a]],
                   deployed |-> ((totalBalances'[v][a] - idleBalances'[v][a]) * BPS)
                                  \div totalBalances'[v][a]]
  BY DEF PoolAllocation
<1>6. totalBalances'[v][a] # 0 =>
        live # Absent /\ live.strategies = [i \in shown |-> strategyAllocations'[v][i][a]]
  <2> SUFFICES ASSUME totalBalances'[v][a] # 0
               PROVE  live # Absent
    BY <1>5
  <2> DEFINE i == (idleBalances'[v][a] * BPS) \div totalBalances'[v][a]
             x == [j \in shown |-> strategyAllocations'[v][j][a]]
             o == ((totalBalances'[v][a] - idleBalances'[v][a]) * BPS) \div totalBalances'[v][a]
  <2>1. /\ totalBalances'[v][a] \in Nat /\ idleBalances'[v][a] \in Nat
        /\ idleBalances'[v][a] <= totalBalances'[v][a]
    BY <1>1 DEF PoolInv, TypeOK, VaultTypeOK, IdleWithinTotal
  <2>2. i \in Nat
    <3>1. idleBalances'[v][a] * BPS \in Nat
      BY <2>1 DEF BPS
    <3>2. QED
      BY <2>1, <3>1, Floor
  <2>3. o \in Nat
    <3>1. (totalBalances'[v][a] - idleBalances'[v][a]) * BPS \in Nat
      BY <2>1 DEF BPS
    <3>2. QED
      BY <2>1, <3>1, Floor
  <2>4. shown \in SUBSET StrategyIds
    BY DEF ProbedIds
  <2>5. x \in [shown -> Nat]
    BY <1>1, <2>4 DEF PoolInv, TypeOK, VaultTypeOK
  <2> HIDE DEF i, x, o, shown
  <2>6. [idle |-> i, strategies |-> x, deployed |-> o]
          \in [idle: Nat, strategies: UNION {[S -> Nat] : S \in SUBSET StrategyIds}, deployed: Nat]
    BY <2>2, <2>3, <2>4, <2>5
  <2>7. live = [idle |-> i, strategies |-> x, deployed |-> o]
    BY <1>5 DEF i, x, o
  <2>8. QED
    BY <2>6, <2>7, OverviewAssumption
<1>7. strategies' = strategies => shown = A
  BY <1>1, SameStrategiesShown DEF ProbedIds
<1>8. moved => totalBalances'[v][a] = totalBalances[v][a]
  <2> SUFFICES ASSUME NEW i \in A,
                      strategyAllocations'[v][i][a] # strategyAllocations[v][i][a]
               PROVE  totalBalances'[v][a] = totalBalances[v][a]
    OBVIOUS
  <2> HIDE DEF A
  <2>1. QED
    BY <1>1, <1>4, AllocationMoves
<1> HIDE DEF A, live, shown
<1>9. ASSUME AllocationUnchanged(s, live) = "changed", ~moved, strategies' = strategies
      PROVE  FALSE
  <2>1. live # Absent
    BY <1>3, <1>9 DEF AllocationUnchanged
  <2>2. totalBalances'[v][a] # 0
    BY <1>5, <2>1
  <2>3. DOMAIN live.strategies = A /\ \A i \in A : live.strategies[i] = s.allocations[i]
    BY <1>2, <1>4, <1>6, <1>7, <1>9, <2>2
  <2>4. QED
    BY <1>3, <1>9, <2>1, <2>3 DEF AllocationUnchanged, A
<1>10. ASSUME AllocationUnchanged(s, live) # "changed", moved
       PROVE  FALSE
  <2>1. live # Absent /\ live.strategies = [i \in shown |-> strategyAllocations'[v][i][a]]
    BY <1>2, <1>3, <1>6, <1>8, <1>10
  <2>2. \A i \in A : i \in shown /\ live.strategies[i] = s.allocations[i]
    <3>1. DOMAIN live.strategies = shown
      BY <2>1
    <3>2. QED
      BY <1>3, <1>10, <2>1, <3>1 DEF AllocationUnchanged, A
  <2>3. QED
    BY <1>2, <1>4, <1>10, <2>1, <2>2
<1>11. QED
  BY <1>9, <1>10 DEF UnchangedIsTrue, A, live

(* Shares of a whole, each rounded down, are no more than the whole. *)
LEMMA SlicesFit ==
  ASSUME NEW F \in [StrategyIds -> Nat], NEW idle \in Nat, NEW total \in Nat, total > 0,
         idle + SumFunction(F) = total, NEW T \in SUBSET StrategyIds
  PROVE  (idle * BPS) \div total + SumFunction([i \in T |-> (F[i] * BPS) \div total]) <= BPS
<1> DEFINE H == [i \in T |-> (F[i] * BPS) \div total]
           q == (idle * BPS) \div total
<1>1. IsFiniteSet(StrategyIds) /\ IsFiniteSet(T)
  BY FiniteDomains, FS_Subset
<1>2. \A i \in T : F[i] * BPS \in Nat /\ idle * BPS \in Nat
  BY DEF BPS
<1>3. \A i \in T : (F[i] * BPS) \div total \in Nat /\ ((F[i] * BPS) \div total) * total <= F[i] * BPS
  BY <1>2, Floor
<1>4. H \in [T -> Nat] /\ \A i \in T : H[i] * total <= F[i] * BPS
  BY <1>3
<1>5. q \in Nat /\ q * total <= idle * BPS
  <2>1. idle * BPS \in Nat
    BY DEF BPS
  <2>2. QED
    BY <2>1, Floor
<1> HIDE DEF H, q
<1>6. SumFunction(H) \in Nat /\ SumFunction(F) \in Nat
  BY <1>1, <1>4, SumNat
<1>7. BPS \in Nat
  BY DEF BPS
<1>8. SumFunction(H) * total <= SumFunction(F) * BPS
  BY <1>1, <1>4, <1>7, SumWithin
<1>9. PICK h \in Nat, f \in Nat : h = SumFunction(H) /\ f = SumFunction(F)
  BY <1>6
<1>10. (q + h) * total <= BPS * total
  <2>1. h * total <= f * BPS /\ q * total <= idle * BPS /\ idle + f = total
    BY <1>5, <1>8, <1>9
  <2>2. q * total + h * total <= idle * BPS + f * BPS
    BY <1>5, <1>7, <2>1
  <2>3. q * total + h * total = (q + h) * total
    BY <1>5
  <2>4. idle * BPS + f * BPS = BPS * total
    BY <1>7, <2>1
  <2>5. QED
    BY <2>2, <2>3, <2>4
<1>11. q + h <= BPS
  BY <1>5, <1>7, <1>10, Scale
<1>12. QED
  BY <1>9, <1>11 DEF H, q

(* The two bars of a proposal. *)
LEMMA BarsFit ==
  ASSUME PoolInv, SumsInv, NEW v \in Analysed, NEW a \in Assets,
         Decision(SnapshotOf(v, a)) = "REBALANCE"
  PROVE  LET s == SnapshotOf(v, a) IN
         SlicesOf(CurrentAllocation(s)) <= BPS /\ SlicesOf(ProposedAllocation(s)) <= BPS
<1> DEFINE s == SnapshotOf(v, a)
           d == Destination(s)
           n == ProposedAmount(s)
           A == AssetStrategies(s)
           F == [i \in StrategyIds |-> strategyAllocations[v][i][a]]
           H == [i \in StrategyIds |-> IF i = d THEN F[i] + n ELSE F[i]]
<1>1. TypeOK /\ s \in Snapshot /\ v \in VaultIds
  BY SnapshotType DEF PoolInv, Analysed
<1>2. CanAllocate(s) /\ ~Overexposed(s) /\ n > 0
  BY DEF Decision
<1>3. A # {} /\ A \in SUBSET StrategyIds /\ s.total > 0
  BY <1>2 DEF CanAllocate, AssetStrategies
<1>4. d \in StrategyIds /\ n \in Nat /\ n <= s.idle
  BY <1>1, <1>2, <1>3, DestinationType, AmountWithin DEF WithinLimits
<1>5. /\ s.idle = idleBalances[v][a] /\ s.total = totalBalances[v][a]
      /\ \A i \in StrategyIds : s.allocations[i] = F[i]
  BY DEF SnapshotOf
<1>6. F \in [StrategyIds -> Nat] /\ s.idle \in Nat /\ s.total \in Nat
  BY <1>1, <1>5 DEF TypeOK, VaultTypeOK
<1>7. s.total = s.idle + SumFunction(F)
  BY <1>1, <1>5 DEF SumsInv, PoolSplit
<1> HIDE DEF F
<1>8. H \in [StrategyIds -> Nat] /\ H[d] = F[d] + n /\ \A i \in StrategyIds \ {d} : H[i] = F[i]
  BY <1>4, <1>6
<1>9. CurrentAllocation(s) = [idle |-> (s.idle * BPS) \div s.total,
                              strategies |-> [i \in A |-> (s.allocations[i] * BPS) \div s.total]]
  BY DEF CurrentAllocation
<1>10. ProposedAllocation(s) =
        [idle |-> ((s.idle - n) * BPS) \div s.total,
         strategies |-> [i \in A |->
                          ((s.allocations[i] + (IF i = d THEN n ELSE 0)) * BPS) \div s.total]]
  BY DEF ProposedAllocation
<1>11. [i \in A |-> ((s.allocations[i] + (IF i = d THEN n ELSE 0)) * BPS) \div s.total]
         = [i \in A |-> (H[i] * BPS) \div s.total]
  <2>1. \A i \in A : s.allocations[i] + (IF i = d THEN n ELSE 0) = H[i]
    BY <1>3, <1>4, <1>5, <1>6
  <2> HIDE DEF s, d, n, A, H
  <2>2. QED
    BY <2>1
<1>12. [i \in A |-> (s.allocations[i] * BPS) \div s.total] = [i \in A |-> (F[i] * BPS) \div s.total]
  <2>1. \A i \in A : s.allocations[i] = F[i]
    BY <1>3, <1>5
  <2> HIDE DEF s, A
  <2>2. QED
    BY <2>1
<1> HIDE DEF s, d, n, A, H
<1>13. SumFunction(H) = SumFunction(F) + n /\ SumFunction(F) \in Nat
  <2>1. SumFunction(H) = SumFunction(F) + H[d] - F[d]
    BY <1>4, <1>6, <1>8, FiniteDomains, SumChange
  <2>2. SumFunction(F) \in Nat
    BY <1>6, FiniteDomains, SumNat
  <2>3. F[d] \in Nat
    BY <1>4, <1>6
  <2>4. QED
    BY <1>4, <1>8, <2>1, <2>2, <2>3
<1>14. SlicesOf(CurrentAllocation(s)) <= BPS
  <2>1. s.idle + SumFunction(F) = s.total
    BY <1>7
  <2>2. (s.idle * BPS) \div s.total + SumFunction([i \in A |-> (F[i] * BPS) \div s.total]) <= BPS
    BY <1>3, <1>6, <2>1, SlicesFit
  <2>3. QED
    BY <1>9, <1>12, <2>2 DEF SlicesOf
<1>15. SlicesOf(ProposedAllocation(s)) <= BPS
  <2>1. s.idle - n \in Nat /\ (s.idle - n) + SumFunction(H) = s.total
    BY <1>4, <1>6, <1>7, <1>13
  <2>2. ((s.idle - n) * BPS) \div s.total
          + SumFunction([i \in A |-> (H[i] * BPS) \div s.total]) <= BPS
    BY <1>3, <1>6, <1>8, <2>1, SlicesFit
  <2>3. QED
    BY <1>10, <1>11, <2>2 DEF SlicesOf
<1>16. QED
  BY <1>14, <1>15 DEF s

(* The difference of two shares rounded down is the share of the           *)
(* difference, to less than one basis point.                               *)
LEMMA MovedShare ==
  ASSUME NEW x \in Nat, NEW y \in Nat, NEW total \in Nat, total > 0
  PROVE  /\ (x \div total - y \div total) * total < x - y + total
         /\ (x \div total - y \div total) * total > x - y - total
<1> DEFINE p == x \div total
           q == y \div total
<1>1. p \in Nat /\ p * total <= x /\ q \in Nat /\ q * total <= y
  BY Floor
<1>2. ~((p + 1) * total <= x) /\ ~((q + 1) * total <= y)
  <2>1. (p + 1) * total <= x => p + 1 <= p
    BY <1>1, FloorLargest
  <2>2. (q + 1) * total <= y => q + 1 <= q
    BY <1>1, FloorLargest
  <2> HIDE DEF p, q
  <2>3. QED
    BY <1>1, <2>1, <2>2
<1> HIDE DEF p, q
<1>3. x < p * total + total /\ y < q * total + total
  BY <1>1, <1>2
<1>4. (p - q) * total = p * total - q * total
  BY <1>1
<1>5. (p - q) * total < x - y + total /\ (p - q) * total > x - y - total
  BY <1>1, <1>3, <1>4
<1>6. QED
  BY <1>5 DEF p, q

(* The figures of a proposal agree with each other. *)
LEMMA FiguresDoAgree ==
  ASSUME PoolInv, SumsInv, NEW v \in Analysed, NEW a \in Assets,
         Decision(SnapshotOf(v, a)) = "REBALANCE"
  PROVE  FiguresAgree(SnapshotOf(v, a))
<1> DEFINE s == SnapshotOf(v, a)
           d == Destination(s)
           n == ProposedAmount(s)
           held == s.allocations[d]
           m == Movement(s)
<1>1. TypeOK /\ s \in Snapshot
  BY SnapshotType DEF PoolInv
<1>2. CanAllocate(s) /\ ~Overexposed(s) /\ n > 0
  BY DEF Decision
<1>3. AssetStrategies(s) # {} /\ s.total > 0
  BY <1>2 DEF CanAllocate
<1>4. n \in Nat /\ WithinLimits(s, n)
  BY <1>1, <1>2, AmountWithin
<1>5. /\ s.idle \in Nat /\ s.total \in Nat /\ held \in Nat
      /\ s.config.params.maxExposureBps \in Nat
  BY <1>1, <1>3, AmountInputs
<1>6. d \in AssetStrategies(s) /\ s.strategies[d] # Absent /\ d \in StrategyIds
  <2>1. d \in StrategyIds /\ s.strategies[d] # Absent /\ s.strategies[d].asset = s.asset
    BY <1>1, <1>3, DestinationType
  <2>2. QED
    BY <2>1 DEF AssetStrategies
<1>7. StrategyAvailable(s)
  <2>1. s.strategies = ActiveStrategies
    BY DEF SnapshotOf
  <2>2. ActiveStrategies[d] # Absent
    BY <1>6, <2>1
  <2>3. d \in ProbedIds /\ strategies[d].active
    BY <1>6, <2>2 DEF ActiveStrategies
  <2>4. QED
    BY <2>3 DEF StrategyAvailable
<1> HIDE DEF s, d, n, held
<1>8. /\ m.moved = (s.idle * BPS) \div s.total - ((s.idle - n) * BPS) \div s.total
      /\ m.amount = n /\ m.maximum = s.config.params.maxExposureBps
      /\ m.exposure = ((held + n) * BPS) \div s.total
  BY <1>6 DEF Movement, CurrentAllocation, ProposedAllocation, d, n, held
<1> HIDE DEF m
<1>9. n <= s.idle /\ (held + n) * BPS <= s.total * s.config.params.maxExposureBps
  BY <1>4 DEF WithinLimits, held, d
<1>10. m.moved * s.total < m.amount * BPS + s.total /\ m.moved * s.total > m.amount * BPS - s.total
  <2>1. s.idle * BPS \in Nat /\ (s.idle - n) * BPS \in Nat
    BY <1>4, <1>5, <1>9 DEF BPS
  <2>2. s.idle * BPS - (s.idle - n) * BPS = n * BPS
    BY <1>4, <1>5 DEF BPS
  <2>3. /\ m.moved * s.total < s.idle * BPS - (s.idle - n) * BPS + s.total
        /\ m.moved * s.total > s.idle * BPS - (s.idle - n) * BPS - s.total
    BY <1>3, <1>5, <1>8, <2>1, MovedShare
  <2>4. QED
    BY <1>8, <2>2, <2>3
<1>11. m.exposure <= m.maximum
  <2>1. (held + n) * BPS \in Nat
    BY <1>4, <1>5 DEF BPS
  <2>2. s.total * s.config.params.maxExposureBps = s.config.params.maxExposureBps * s.total
    BY <1>5
  <2>3. QED
    BY <1>3, <1>5, <1>8, <1>9, <2>1, <2>2, FloorBound
<1>12. SlicesOf(CurrentAllocation(s)) <= BPS /\ SlicesOf(ProposedAllocation(s)) <= BPS
  BY BarsFit DEF s
<1>13. QED
  BY <1>7, <1>10, <1>11, <1>12 DEF FiguresAgree, m, s

(* What the recommendation page says of a proposal is true when it is      *)
(* made, and whatever step follows: the preview is what is shown once the  *)
(* proposal is executed, "unchanged" is not said over money that moved,    *)
(* and the figures agree to the basis point.                               *)
THEOREM PreviewsAlwaysComeTrue == Spec => PreviewsComeTrue
<1> DEFINE ComesTrue ==
      \A v \in Analysed, a \in Assets :
        LET s == SnapshotOf(v, a) IN
        Decision(s) = "REBALANCE" =>
          PreviewExecuted(v, a, s) /\ UnchangedIsTrue(v, a, s) /\ FiguresAgree(s)
<1>1. PoolInv /\ PoolInv' /\ SumsInv /\ [Next]_vars => [ComesTrue]_vars
  BY PreviewIsExecuted, UnchangedLineIsTrue, FiguresDoAgree
<1>2. QED
  BY <1>1, PoolsInvariant, SumsInvariant, PTL DEF Spec, PreviewsComeTrue
=============================================================================
