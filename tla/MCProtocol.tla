----------------------------- MODULE MCProtocol -----------------------------
(***************************************************************************)
(* Values for the constants of the protocol's runs.  Each run picks, with  *)
(* its Callers, the functions whose interleavings it explores.             *)
(***************************************************************************)
EXTENDS ProtocolProperties

CONSTANTS alice, bob

TwoUnitFirstDeposit == [a \in Assets |-> 2]
OneUnitFirstDeposit == [a \in Assets |-> 1]

Params(exposure, maxTx, minIdle, autonomous, cooldown) ==
  [maxExposureBps |-> exposure, maxTxAmount |-> [a \in Assets |-> maxTx],
   maxSlippageBps |-> 100, minIdleBps |-> minIdle, autonomousEnabled |-> autonomous,
   cooldownBlocks |-> cooldown]

(* What the creation flow offers, scaled to pools of a few units. *)
OneParams == {Params(5000, 2, 2000, FALSE, 1)}
TwoParams == {Params(5000, 2, 500, FALSE, 2), Params(3400, 1, 500, TRUE, 1)}
SomeInvalidParams == OneParams \cup {Params(5001, 2, 2000, FALSE, 1)}
BoundaryParams == {Params(10000, 2, 0, FALSE, 1)}

Limits(exposure, minLiquidity) ==
  [maxSlippageBps |-> 1000, maxExposureBps |-> exposure,
   minCooldownBlocks |-> 1, minLiquidityBps |-> minLiquidity]

OpenLimits == {Limits(10000, 0)}

CallersFrom(admin_, owner, everyone) == [g \in Groups |->
  IF g \in admin_ \cup owner THEN {alice} ELSE IF g \in everyone THEN Principals ELSE {}]

Governing == {"strategies", "gate"}

(* alice governs and owns the vault, both use it, anything may be paused. *)
AccountingCallers ==
  [CallersFrom(Governing \cup {"protocol-pause"}, {"vaults", "vault-pause", "engine"}, {"pools"})
     EXCEPT !["donations"] = {bob}]

(* alice approves the token and owns two vaults; both users hold shares of both. *)
CustodyCallers ==
  [CallersFrom({"ceilings"}, {"vaults"}, {"pools"}) EXCEPT !["donations"] = {bob}]

(* bob alone makes intents, for his own vault or, as an executor, for alice's. *)
IntentsCallers ==
  [CallersFrom(Governing \cup {"executors", "protocol-pause"}, {"pools"},
               {"vaults", "risk-config", "vault-pause"}) EXCEPT !["engine"] = {bob}]

(* alice alone, with every protocol limit open. *)
BoundaryCallers == CallersFrom(Governing \cup {"ceilings"}, {"vaults", "pools", "engine"}, {})

(* Off mainnet, both own vaults, hold shares and try to be admin. *)
GovernanceCallers ==
  CallersFrom({}, {}, {"admin-transfer", "strategies", "gate", "vaults", "pools", "engine"})
=============================================================================
