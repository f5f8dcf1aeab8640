-------------------------- MODULE RecommendationPage --------------------------
(***************************************************************************)
(* What the web app shows of one decision record beside the live overview  *)
(* of its vault: components/vault/RecommendationView.tsx and               *)
(* TestnetGate.tsx, the rows of the history, lib/derive.ts.  Everything    *)
(* here is a function of the record and of what the chain says now; texts  *)
(* are named by what they claim.                                           *)
(***************************************************************************)
EXTENDS DecisionEngine, Functions, FiniteSets

(* An allocation of the overview is never the lack of one. *)
ASSUME OverviewAssumption ==
  Absent \notin [idle: Nat, strategies: UNION {[S -> Nat] : S \in SUBSET StrategyIds},
                 deployed: Nat]

(* A pool as the overview has it now: strategies that are registered and   *)
(* active, or none when the pool is empty.                                 *)
PoolAllocation(v, a) ==
  LET total == totalBalances[v][a]
      shown == {i \in ProbedIds : strategies[i].active /\ strategies[i].asset = a}
  IN IF total = 0 THEN Absent
     ELSE [idle |-> (idleBalances[v][a] * BPS) \div total,
           strategies |-> [i \in shown |-> strategyAllocations[v][i][a]],
           deployed |-> ((total - idleBalances[v][a]) * BPS) \div total]

(* Fault: only the number of strategies is compared. *)
SameStrategies(s, live) ==
  IF s.total = 0 \/ live = Absent THEN "unknown"
  ELSE IF Cardinality(DOMAIN live.strategies) = Cardinality(AssetStrategies(s))
  THEN "unchanged" ELSE "changed"

(* s is what the record was made from. *)
AllocationUnchanged(s, live) ==
  IF s.total = 0 \/ live = Absent THEN "unknown"
  ELSE IF /\ \A i \in AssetStrategies(s) : /\ i \in DOMAIN live.strategies
                                           /\ live.strategies[i] = s.allocations[i]
          /\ Cardinality(DOMAIN live.strategies) = Cardinality(AssetStrategies(s))
  THEN "unchanged" ELSE "changed"

(* The bar of an allocation: the idle slice and one of each strategy. *)
SlicesOf(allocation) ==
  allocation.idle + SumFunction(allocation.strategies)

(* "Proposed movement" and the two figures below it. *)
Movement(s) ==
  [moved |-> CurrentAllocation(s).idle - ProposedAllocation(s).idle,
   amount |-> ProposedAmount(s),
   maximum |-> s.config.params.maxExposureBps,
   exposure |-> ProposedAllocation(s).strategies[Destination(s)]]

(* "Registered and active", for the strategy it wants to go to. *)
StrategyAvailable(s) == Destination(s) \in ProbedIds /\ strategies[Destination(s)].active

-----------------------------------------------------------------------------
(* The record.  A record has an intent exactly when there was something to *)
(* execute.                                                                *)

HasIntent(rec) == rec.execution # "NOT_APPLICABLE"

(* Where execution is not enabled on chain, whichever the reason. *)
ExecutionBanner ==
  IF IsStrategyExecutionEnabled THEN "none"
  ELSE IF MainnetChain THEN "not armed" ELSE "disabled on testnet"

Checklist(rec) ==
  [limits |-> IF rec.validation \in {"none", "UNAVAILABLE"} THEN "could not be evaluated"
              ELSE "evaluated",
   risk |-> rec.validation,
   restricted |-> HasIntent(rec) /\ ExecutionBanner # "none",
   outcome |-> IF ~HasIntent(rec) THEN "nothing to execute"
              ELSE IF rec.execution = "CONFIRMED" THEN "executed" ELSE "not executed"]

(* "READY, PASSED, NOT AVAILABLE ON TESTNET, NOT SUBMITTED". *)
BlockedOutcome(rec) == rec.status = "TESTNET_BLOCKED"

(* "The vault's on-chain rules rejected this intent ... Nothing was        *)
(* executed": only where the evaluation had an error.                      *)
RulesRejected(rec) == rec.status = "REJECTED" /\ rec.validation = "FAILED"

(* The dashboard's item for it, under "Needs attention". *)
AttentionItem(rec) ==
  CASE RulesRejected(rec) -> "nothing was executed"
    [] BlockedOutcome(rec) -> "your allocation is unchanged"
    [] OTHER -> "none"

(* The row's line under "Execution". *)
HistoryRow(rec) ==
  IF rec.execution = "NOT_EXECUTED_TESTNET" THEN "not executed - testnet" ELSE rec.execution

-----------------------------------------------------------------------------

(* Of a pool for which s made the engine propose. *)

(* The proposed allocation shown beside the current one is what the pool   *)
(* shows once the engine contract has executed the proposal.               *)
PreviewExecuted(v, a, s) ==
  LET d == Destination(s) IN
  strategyAllocations'[v][d][a] = strategyAllocations[v][d][a] + ProposedAmount(s)
    => CurrentAllocation(SnapshotOf(v, a))' = ProposedAllocation(s)

(* "Vault allocation: UNCHANGED" is not said over a pool of which anything *)
(* went to a strategy since, and "changed" only when something did or the  *)
(* strategies are others (RecommendationView.tsx:24-34, 208-212).          *)
UnchangedIsTrue(v, a, s) ==
  LET line == AllocationUnchanged(s, PoolAllocation(v, a)')
      moved == \E i \in AssetStrategies(s) :
                 strategyAllocations'[v][i][a] # strategyAllocations[v][i][a]
  IN IF line = "changed" THEN moved \/ strategies' # strategies ELSE ~moved

(* The figures agree with each other: the movement is the amount's share   *)
(* of the pool, the exposure within the maximum shown beside it, and no    *)
(* bar is longer than the whole.                                           *)
FiguresAgree(s) ==
  LET m == Movement(s) IN
  /\ m.moved * s.total < m.amount * BPS + s.total
  /\ m.moved * s.total > m.amount * BPS - s.total
  /\ m.exposure <= m.maximum
  /\ SlicesOf(CurrentAllocation(s)) <= BPS /\ SlicesOf(ProposedAllocation(s)) <= BPS
  /\ StrategyAvailable(s)

(* What the page says of a proposal is true when it is made, and the step  *)
(* after.                                                                  *)
PreviewsComeTrue ==
  [][\A v \in Analysed, a \in Assets :
       LET s == SnapshotOf(v, a) IN
       Decision(s) = "REBALANCE" =>
         PreviewExecuted(v, a, s) /\ UnchangedIsTrue(v, a, s) /\ FiguresAgree(s)]_vars
=============================================================================
