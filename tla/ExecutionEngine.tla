--------------------------- MODULE ExecutionEngine ---------------------------
(***************************************************************************)
(* contracts/execution-engine-v7.clar: the one entry point that turns an   *)
(* execution intent into a fund movement.                                  *)
(***************************************************************************)
EXTENDS SovereigntyVault, AgentRegistry

CallerIsOwner(sender, intent) == vaults[intent.vault].owner = sender

(* Fault: ERR-ASSET-STRATEGY-MISMATCH is not asserted. *)
TakesAnyAsset(s, a) == strategies[s] # Absent

TakesAsset(s, a) == strategies[s] # Absent /\ strategies[s].asset = a

(* Authorization, routing and the whole risk validation: what the          *)
(* read-only evaluate-rebalance-intent reports as passed.                  *)
Evaluate(sender, intent) ==
  LET v == intent.vault
      s == intent.strategy
      a == intent.asset
  IN
  /\ vaults[v] # Absent
  /\ s > 0
  /\ a \in Assets
  /\ SupportsAsset(v, a)
  /\ ~vaults[v].paused
  /\ CallerIsOwner(sender, intent) \/ IsAuthorizedExecutor(sender)
  /\ IsStrategyActive(s)
  /\ TakesAsset(s, a)
  /\ CheckIntent(intent, CallerIsOwner(sender, intent), idleBalances[v][a],
                 totalBalances[v][a], strategyAllocations[v][s][a], MaxAllocationBps(s))

(* The execution gate stands after every risk check and before every       *)
(* write; a call it stops reverts and records nothing.                     *)
SubmitRebalanceIntent(sender, intent, contract, token, pulls) ==
  LET v == intent.vault
      s == intent.strategy
      a == intent.asset
  IN
  /\ Evaluate(sender, intent)
  /\ IsStrategyExecutionEnabled
  /\ ValidateAndRecordIntent(intent, CallerIsOwner(sender, intent), idleBalances[v][a],
                             totalBalances[v][a], strategyAllocations[v][s][a],
                             MaxAllocationBps(s))
  /\ ExecuteRebalance(v, s, a, intent.amount, contract, token, pulls)
=============================================================================
