--------------------------- MODULE DecisionEngine ---------------------------
(***************************************************************************)
(* agent/src/analysis/decisionEngine.ts and agent/src/intents/              *)
(* buildIntent.ts: what the agent makes of what it read about one pool.    *)
(* Both are pure: they see a snapshot and never the chain.                 *)
(***************************************************************************)
EXTENDS SovereigntyProtocol

CONSTANT IntentWindow   \* config.intentDeadlineWindowBlocks

ASSUME WindowAssumption == IntentWindow \in Nat

(* ProtocolContext and VaultSnapshot: what one analysis knows.  strategies *)
(* holds the entries found active, allocations what was read of those of   *)
(* the pool's asset.                                                       *)
Snapshot == [height: Nat, protocolPaused: BOOLEAN, executionEnabled: BOOLEAN,
             strategies: [StrategyIds -> Strategy \cup {Absent}],
             vault: VaultIds, asset: Assets, owner: Principals, supportsAsset: BOOLEAN,
             paused: BOOLEAN, idle: Nat, total: Nat, config: VaultConfig,
             allocations: [StrategyIds -> Nat]]

-----------------------------------------------------------------------------
(* The amount. *)

Lesser(a, b) == IF a <= b THEN a ELSE b

(* a - b of unsigned numbers, cut off at zero. *)
Excess(a, b) == IF a > b THEN a - b ELSE 0

AssetStrategies(s) ==
  {i \in StrategyIds : s.strategies[i] # Absent /\ s.strategies[i].asset = s.asset}

(* The strategies were read in the order of their ids. *)
Destination(s) == CHOOSE i \in AssetStrategies(s) : \A j \in AssetStrategies(s) : i <= j

MaxExposureAmount(s) == (s.total * s.config.params.maxExposureBps) \div BPS

(* Fault: the cap is taken of the idle balance. *)
IdleCapAmount(s) == (s.idle * s.strategies[Destination(s)].maxAllocationBps) \div BPS

MaxProtocolAmount(s) == (s.total * s.strategies[Destination(s)].maxAllocationBps) \div BPS

(* Fault: rounded down, as the contract rounds. *)
FlooredReserve(s) == (s.total * s.config.params.minIdleBps) \div BPS

MinLiquidityReserve(s) == (s.total * s.config.params.minIdleBps + BPS - 1) \div BPS

ProposedAmount(s) ==
  LET held == s.allocations[Destination(s)] IN
  Lesser(Lesser(Excess(s.idle, MinLiquidityReserve(s)), MaxExposureAmount(s) - held),
         Lesser(Excess(MaxProtocolAmount(s), held), s.config.params.maxTxAmount[s.asset]))

-----------------------------------------------------------------------------
(* The decision. *)

CanAllocate(s) ==
  /\ ~s.protocolPaused
  /\ s.supportsAsset
  /\ ~s.paused
  /\ s.total > 0
  /\ AssetStrategies(s) # {}

Overexposed(s) == s.allocations[Destination(s)] > MaxExposureAmount(s)

Decision(s) ==
  IF ~CanAllocate(s) THEN "HOLD"
  ELSE IF Overexposed(s) THEN "REDUCE_EXPOSURE"
  ELSE IF s.idle > 0 /\ ProposedAmount(s) > 0 THEN "REBALANCE"
  ELSE "HOLD"

BuildIntent(s) ==
  [vault |-> s.vault, strategy |-> Destination(s), asset |-> s.asset,
   amount |-> ProposedAmount(s), maxSlippageBps |-> s.config.params.maxSlippageBps,
   nonce |-> s.config.lastUsedNonce + 1, deadline |-> s.height + IntentWindow]

-----------------------------------------------------------------------------
(* What the record shows beside the decision, in basis points of the pool. *)

CurrentAllocation(s) ==
  [idle |-> (s.idle * BPS) \div s.total,
   strategies |-> [i \in AssetStrategies(s) |-> (s.allocations[i] * BPS) \div s.total]]

(* Fault: the amount is shown in the strategy and still as idle. *)
ProposedKeepingIdle(s) ==
  [idle |-> (s.idle * BPS) \div s.total,
   strategies |-> [i \in AssetStrategies(s) |->
                     ((s.allocations[i] + (IF i = Destination(s) THEN ProposedAmount(s) ELSE 0))
                        * BPS) \div s.total]]

ProposedAllocation(s) ==
  [idle |-> ((s.idle - ProposedAmount(s)) * BPS) \div s.total,
   strategies |-> [i \in AssetStrategies(s) |->
                     ((s.allocations[i] + (IF i = Destination(s) THEN ProposedAmount(s) ELSE 0))
                        * BPS) \div s.total]]
-----------------------------------------------------------------------------
(* The engine beside the contracts: what it would say of every pool, at    *)
(* every moment, if the chain stood still while it reads.                  *)

MaxStrategyProbe == 25

(* The ids getProtocolContext probes: from 1 to the first without an entry. *)
ProbedIds == {s \in StrategyIds : /\ s >= 1 /\ s <= MaxStrategyProbe
                                  /\ \A r \in 1 .. s : strategies[r] # Absent}

ActiveStrategies ==
  [s \in StrategyIds |-> IF s \in ProbedIds /\ strategies[s].active THEN strategies[s] ELSE Absent]

SnapshotOf(v, a) ==
  [height |-> height, protocolPaused |-> protocolPaused,
   executionEnabled |-> IsStrategyExecutionEnabled, strategies |-> ActiveStrategies,
   vault |-> v, asset |-> a, owner |-> vaults[v].owner, supportsAsset |-> SupportsAsset(v, a),
   paused |-> vaults[v].paused, idle |-> idleBalances[v][a], total |-> totalBalances[v][a],
   config |-> vaultConfig[v], allocations |-> [s \in StrategyIds |-> strategyAllocations[v][s][a]]]

Analysed == {v \in VaultIds : vaults[v] # Absent /\ vaultConfig[v] # Absent}

(* An intent built from an accurate snapshot passes every on-chain rule    *)
(* but the cooldown, which the engine does not look at: the two roundings, *)
(* the two caps and the liquidity floor never disagree with the contracts  *)
(* (decisionEngine.ts:119-129 against risk-guard-v7.clar check-intent).    *)
ProposalsPass ==
  \A v \in Analysed, a \in Assets :
    LET s == SnapshotOf(v, a) IN
    Decision(s) = "REBALANCE" /\ CooldownOver(s.config) => Evaluate(s.owner, BuildIntent(s))

(* The limits as exact ratios, before either side rounds. *)
WithinLimits(s, n) ==
  LET held == s.allocations[Destination(s)] IN
  /\ n <= s.idle
  /\ n <= s.config.params.maxTxAmount[s.asset]
  /\ (held + n) * BPS <= s.total * s.config.params.maxExposureBps
  /\ (held + n) * BPS <= s.total * s.strategies[Destination(s)].maxAllocationBps
  /\ (s.idle - n) * BPS >= s.total * s.config.params.minIdleBps

(* The engine leaves nothing on the table: no larger amount is within the  *)
(* limits, and when it holds for want of room there is none (comment at    *)
(* decisionEngine.ts:31-34: "sized to respect the limits").                *)
ProposalsAreLargest ==
  \A v \in Analysed, a \in Assets :
    LET s == SnapshotOf(v, a) IN
    CanAllocate(s) /\ ~Overexposed(s) =>
      \A n \in 1 .. s.total : WithinLimits(s, n) => n <= ProposedAmount(s)
=============================================================================
