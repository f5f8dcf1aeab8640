-------------------------- MODULE StrategyRegistry --------------------------
(***************************************************************************)
(* contracts/strategy-registry-v6.clar: the strategies a vault may be      *)
(* allocated to.  Id 0 is IDLE and has no entry.  A strategy is registered *)
(* inactive; its contract, asset and protocol-wide cap never change.       *)
(***************************************************************************)
EXTENDS ProtocolAdmin

CONSTANT MaxStrategies   \* bound: strategies registered in an exploration

StrategyIds == 0 .. MaxStrategies

Strategy == [contract: StrategyContracts, asset: Assets, active: BOOLEAN,
             maxAllocationBps: 1 .. BPS]

ASSUME StrategyAssumption ==
  /\ MaxStrategies \in Nat
  /\ Absent \notin Strategy

VARIABLES
  nextStrategyId,
  strategies         \* strategies[s]: the entry of id s, or Absent

strategyVars == <<nextStrategyId, strategies>>

StrategyTypeOK ==
  /\ nextStrategyId \in 1 .. (MaxStrategies + 1)
  /\ strategies \in [StrategyIds -> Strategy \cup {Absent}]

StrategyInit ==
  /\ nextStrategyId = 1
  /\ strategies = [s \in StrategyIds |-> Absent]

IsIdle(s) == s = 0

IsStrategyActive(s) == IsIdle(s) \/ (strategies[s] # Absent /\ strategies[s].active)

MaxAllocationBps(s) ==
  IF IsIdle(s) THEN BPS
  ELSE IF strategies[s] = Absent THEN 0 ELSE strategies[s].maxAllocationBps

RegisterStrategy(sender, contract, asset, maxAllocationBps) ==
  /\ IsAdmin(sender)
  /\ asset \in Assets
  /\ maxAllocationBps > 0 /\ maxAllocationBps <= BPS
  /\ nextStrategyId <= MaxStrategies
  /\ strategies' = [strategies EXCEPT ![nextStrategyId] =
                      [contract |-> contract, asset |-> asset, active |-> FALSE,
                       maxAllocationBps |-> maxAllocationBps]]
  /\ nextStrategyId' = nextStrategyId + 1

SetActive(sender, s, active) ==
  /\ strategies[s] # Absent
  /\ IsAdmin(sender)
  /\ strategies' = [strategies EXCEPT ![s].active = active]
  /\ UNCHANGED nextStrategyId

ActivateStrategy(sender, s) == SetActive(sender, s, TRUE)

DeactivateStrategy(sender, s) == SetActive(sender, s, FALSE)
=============================================================================
