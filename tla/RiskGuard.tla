------------------------------ MODULE RiskGuard ------------------------------
(***************************************************************************)
(* contracts/risk-guard-v7.clar: the protocol-wide ceilings, the mainnet   *)
(* execution gate, every vault's risk configuration, and the validation of *)
(* an execution intent.  The functions of the config lifecycle answer to   *)
(* the vault contract alone and validate-and-record-intent to the          *)
(* execution engine alone (contract-caller), so they are operators of      *)
(* those modules' actions.                                                 *)
(***************************************************************************)
EXTENDS ProtocolAdmin

(* What an owner chooses for a vault. *)
RiskParams == [maxExposureBps: Nat, maxTxAmount: [Assets -> Nat], maxSlippageBps: Nat,
               minIdleBps: Nat, autonomousEnabled: BOOLEAN, cooldownBlocks: Nat]

VaultConfig == [params: RiskParams, lastUsedNonce: Nat, lastExecutionHeight: Nat]

ProtocolLimits == [maxSlippageBps: Nat, maxExposureBps: Nat,
                   minCooldownBlocks: Nat, minLiquidityBps: Nat]

ASSUME ConfigAssumption == Absent \notin VaultConfig

VARIABLES
  protocolLimits,
  approvedSbtc,           \* the token accepted as sBTC, or Absent
  mainnetExecutionArmed,
  vaultConfig             \* vaultConfig[v]: the configuration of vault v, or Absent

guardVars == <<protocolLimits, approvedSbtc, mainnetExecutionArmed, vaultConfig>>

GuardTypeOK ==
  /\ protocolLimits \in ProtocolLimits
  /\ approvedSbtc \in SbtcTokens \cup {Absent}
  /\ mainnetExecutionArmed \in BOOLEAN
  /\ vaultConfig \in [VaultIds -> VaultConfig \cup {Absent}]

GuardInit ==
  /\ protocolLimits = [maxSlippageBps |-> 1000, maxExposureBps |-> 5000,
                       minCooldownBlocks |-> 1, minLiquidityBps |-> 500]
  /\ approvedSbtc = Absent
  /\ mainnetExecutionArmed = FALSE
  /\ vaultConfig = [v \in VaultIds |-> Absent]

IsStrategyExecutionEnabled == MainnetChain /\ mainnetExecutionArmed

-----------------------------------------------------------------------------
(* Admin: protocol ceilings and the gate. *)

SetApprovedSbtcAsset(sender, token) ==
  /\ IsAdmin(sender)
  /\ approvedSbtc' = token
  /\ UNCHANGED <<protocolLimits, mainnetExecutionArmed, vaultConfig>>

SetProtocolLimits(sender, limits) ==
  /\ IsAdmin(sender)
  /\ limits.maxSlippageBps > 0 /\ limits.maxSlippageBps <= BPS
  /\ limits.maxExposureBps > 0 /\ limits.maxExposureBps <= BPS
  /\ limits.minLiquidityBps <= BPS
  /\ protocolLimits' = limits
  /\ UNCHANGED <<approvedSbtc, mainnetExecutionArmed, vaultConfig>>

(* Fault: ERR-MAINNET-ONLY is not asserted. *)
SetExecutionArmedAnywhere(sender, armed) ==
  /\ IsAdmin(sender)
  /\ mainnetExecutionArmed' = armed
  /\ UNCHANGED <<protocolLimits, approvedSbtc, vaultConfig>>

SetMainnetExecutionArmed(sender, armed) ==
  /\ IsAdmin(sender)
  /\ MainnetChain
  /\ mainnetExecutionArmed' = armed
  /\ UNCHANGED <<protocolLimits, approvedSbtc, vaultConfig>>

-----------------------------------------------------------------------------
(* Vault-only: the life of a configuration. *)

ParamsValid(p) ==
  /\ p.maxExposureBps > 0
  /\ p.maxExposureBps <= protocolLimits.maxExposureBps
  /\ p.maxSlippageBps > 0
  /\ p.maxSlippageBps <= protocolLimits.maxSlippageBps
  /\ p.minIdleBps >= protocolLimits.minLiquidityBps
  /\ p.minIdleBps <= BPS
  /\ p.cooldownBlocks >= protocolLimits.minCooldownBlocks
  /\ \A a \in Assets : p.maxTxAmount[a] > 0

(* Fault: invalid parameters are ignored rather than an error. *)
InitVaultConfigIfValid(v, p) ==
  /\ vaultConfig[v] = Absent
  /\ vaultConfig' = IF ParamsValid(p)
                    THEN [vaultConfig EXCEPT ![v] =
                            [params |-> p, lastUsedNonce |-> 0, lastExecutionHeight |-> 0]]
                    ELSE vaultConfig
  /\ UNCHANGED <<protocolLimits, approvedSbtc, mainnetExecutionArmed>>

InitVaultConfig(v, p) ==
  /\ vaultConfig[v] = Absent
  /\ ParamsValid(p)
  /\ vaultConfig' = [vaultConfig EXCEPT ![v] =
                       [params |-> p, lastUsedNonce |-> 0, lastExecutionHeight |-> 0]]
  /\ UNCHANGED <<protocolLimits, approvedSbtc, mainnetExecutionArmed>>

(* Fault: the entry is replaced, not merged. *)
SetVaultRiskConfigForgetting(v, p) ==
  /\ vaultConfig[v] # Absent
  /\ ParamsValid(p)
  /\ vaultConfig' = [vaultConfig EXCEPT ![v] =
                       [params |-> p, lastUsedNonce |-> 0, lastExecutionHeight |-> 0]]
  /\ UNCHANGED <<protocolLimits, approvedSbtc, mainnetExecutionArmed>>

SetVaultRiskConfig(v, p) ==
  /\ vaultConfig[v] # Absent
  /\ ParamsValid(p)
  /\ vaultConfig' = [vaultConfig EXCEPT ![v].params = p]
  /\ UNCHANGED <<protocolLimits, approvedSbtc, mainnetExecutionArmed>>

SetAutonomousEnabled(v, enabled) ==
  /\ vaultConfig[v] # Absent
  /\ vaultConfig' = [vaultConfig EXCEPT ![v].params.autonomousEnabled = enabled]
  /\ UNCHANGED <<protocolLimits, approvedSbtc, mainnetExecutionArmed>>

-----------------------------------------------------------------------------
(* Intent validation.  An intent is [vault, strategy, asset, amount,        *)
(* maxSlippageBps, nonce, deadline]; source, total and allocation are the  *)
(* vault's idle balance, its total balance and its allocation to the       *)
(* destination, in the intent's asset; strategyMaxBps is the registry's cap. *)

CooldownOver(cfg) ==
  \/ cfg.lastExecutionHeight = 0
  \/ height >= cfg.lastExecutionHeight + cfg.params.cooldownBlocks

(* Fault: the last nonce used is accepted again. *)
NonceNotBehind(nonce, cfg) == nonce >= cfg.lastUsedNonce

NonceUnused(nonce, cfg) == nonce > cfg.lastUsedNonce

(* Fault: what the strategy already holds is not counted. *)
AllocationBpsOfAmount(allocation, amount, total) == (amount * BPS) \div total

ResultingAllocationBps(allocation, amount, total) == ((allocation + amount) * BPS) \div total

ResultingIdleBps(source, amount, total) == ((source - amount) * BPS) \div total

CheckIntent(intent, callerIsOwner, source, total, allocation, strategyMaxBps) ==
  /\ vaultConfig[intent.vault] # Absent
  /\ intent.asset \in Assets
  /\ ~protocolPaused
  /\ LET cfg == vaultConfig[intent.vault]
         params == cfg.params
         amount == intent.amount
     IN /\ callerIsOwner \/ params.autonomousEnabled
        /\ intent.deadline >= height
        /\ NonceUnused(intent.nonce, cfg)
        /\ CooldownOver(cfg)
        /\ amount > 0
        /\ amount <= params.maxTxAmount[intent.asset]
        /\ amount <= source
        /\ total > 0
        /\ intent.maxSlippageBps <= params.maxSlippageBps
        /\ ResultingAllocationBps(allocation, amount, total) <= params.maxExposureBps
        /\ ResultingAllocationBps(allocation, amount, total) <= strategyMaxBps
        /\ ResultingIdleBps(source, amount, total) >= params.minIdleBps

ValidateAndRecordIntent(intent, callerIsOwner, source, total, allocation, strategyMaxBps) ==
  /\ CheckIntent(intent, callerIsOwner, source, total, allocation, strategyMaxBps)
  /\ IsStrategyExecutionEnabled
  /\ vaultConfig' = [vaultConfig EXCEPT ![intent.vault].lastUsedNonce = intent.nonce,
                                        ![intent.vault].lastExecutionHeight = height]
  /\ UNCHANGED <<protocolLimits, approvedSbtc, mainnetExecutionArmed>>
=============================================================================
