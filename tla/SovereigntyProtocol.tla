------------------------- MODULE SovereigntyProtocol -------------------------
(***************************************************************************)
(* The on-chain protocol: every public function of the contracts, called   *)
(* by any wallet in any order, with blocks passing in between.  The        *)
(* constants below are the inputs an exploration offers; the proofs make   *)
(* no use of their values.                                                 *)
(***************************************************************************)
EXTENDS ExecutionEngine

CONSTANTS
  Amounts,        \* units of tokens and of shares
  Names,          \* vault names
  Purposes,       \* vault purposes
  AssetModes,     \* which assets a vault supports
  RiskParamSets,  \* risk configurations an owner may choose
  LimitSets,      \* protocol limits the admin may choose
  StrategyCaps,   \* caps a strategy may be registered with
  Slippages, Nonces, Deadlines,
  Callers         \* Callers[g]: the wallets that call the functions of group g

Groups == {"admin-transfer", "protocol-pause", "executors", "strategies", "ceilings", "gate",
           "vaults", "risk-config", "vault-pause", "pools", "engine", "donations"}

ASSUME InputAssumption ==
  /\ Amounts \subseteq Nat
  /\ Purposes \subseteq Nat
  /\ AssetModes \subseteq Nat
  /\ RiskParamSets \subseteq RiskParams
  /\ LimitSets \subseteq ProtocolLimits
  /\ StrategyCaps \subseteq Nat
  /\ Slippages \subseteq Nat
  /\ Nonces \subseteq Nat
  /\ Deadlines \subseteq Nat
  /\ Callers \in [Groups -> SUBSET Principals]

Intents == [vault: VaultIds, strategy: StrategyIds, asset: Assets, amount: Amounts,
            maxSlippageBps: Slippages, nonce: Nonces, deadline: Deadlines]

vars == <<chainVars, adminVars, executors, strategyVars, receiptVars, guardVars, vaultVars>>

Init ==
  /\ ChainInit
  /\ AdminInit
  /\ AgentRegistryInit
  /\ StrategyInit
  /\ ReceiptInit
  /\ GuardInit
  /\ VaultInit

TypeOK ==
  /\ ChainTypeOK
  /\ AdminTypeOK
  /\ AgentRegistryTypeOK
  /\ StrategyTypeOK
  /\ ReceiptTypeOK
  /\ GuardTypeOK
  /\ VaultTypeOK

-----------------------------------------------------------------------------
(* The steps of each contract, with what they leave alone in the others.   *)

Environment ==
  /\ \/ NewBlock
     \/ \E p \in Callers["donations"], t \in Tokens, n \in Amounts : Donate(p, t, n)
  /\ UNCHANGED <<adminVars, executors, strategyVars, receiptVars, guardVars, vaultVars>>

AdminStep ==
  /\ \/ \E p \in Callers["admin-transfer"], q \in Principals : ProposeAdmin(p, q)
     \/ \E p \in Callers["admin-transfer"] : AcceptAdmin(p)
     \/ \E p \in Callers["protocol-pause"] : PauseProtocol(p)
     \/ \E p \in Callers["protocol-pause"] : UnpauseProtocol(p)
  /\ UNCHANGED <<chainVars, executors, strategyVars, receiptVars, guardVars, vaultVars>>

AgentRegistryStep ==
  /\ \E p \in Callers["executors"], q \in Principals :
       \/ RegisterExecutor(p, q)
       \/ RevokeExecutor(p, q)
       \/ ReactivateExecutor(p, q)
  /\ UNCHANGED <<chainVars, adminVars, strategyVars, receiptVars, guardVars, vaultVars>>

StrategyRegistryStep ==
  /\ \E p \in Callers["strategies"] :
       \/ \E c \in StrategyContracts, a \in Assets, cap \in StrategyCaps :
            RegisterStrategy(p, c, a, cap)
       \/ \E s \in StrategyIds : ActivateStrategy(p, s)
       \/ \E s \in StrategyIds : DeactivateStrategy(p, s)
  /\ UNCHANGED <<chainVars, adminVars, executors, receiptVars, guardVars, vaultVars>>

GuardStep ==
  /\ \/ \E p \in Callers["ceilings"], t \in SbtcTokens : SetApprovedSbtcAsset(p, t)
     \/ \E p \in Callers["ceilings"], limits \in LimitSets : SetProtocolLimits(p, limits)
     \/ \E p \in Callers["gate"], armed \in BOOLEAN : SetMainnetExecutionArmed(p, armed)
  /\ UNCHANGED <<chainVars, adminVars, executors, strategyVars, receiptVars, vaultVars>>

VaultConfigStep ==
  /\ \/ \E p \in Callers["vaults"], name \in Names, purpose \in Purposes,
           mode \in AssetModes, open \in BOOLEAN, params \in RiskParamSets :
          CreateVault(p, name, purpose, mode, open, params)
     \/ \E p \in Callers["vaults"], v \in VaultIds, name \in Names, open \in BOOLEAN :
          SetVaultConfig(p, v, name, open)
     \/ \E p \in Callers["risk-config"], v \in VaultIds, params \in RiskParamSets :
          SetRiskConfig(p, v, params)
     \/ \E p \in Callers["risk-config"], v \in VaultIds, enabled \in BOOLEAN :
          SetAutonomousMode(p, v, enabled)
     \/ \E p \in Callers["vault-pause"], v \in VaultIds : PauseVault(p, v)
     \/ \E p \in Callers["vault-pause"], v \in VaultIds : UnpauseVault(p, v)
  /\ UNCHANGED <<chainVars, adminVars, executors, strategyVars, receiptVars>>

PoolStep ==
  /\ \E p \in Callers["pools"], v \in VaultIds, n \in Amounts :
       \/ DepositStx(p, v, n)
       \/ RedeemStx(p, v, n)
       \/ \E t \in SbtcTokens : DepositSbtc(p, v, n, t)
       \/ \E t \in SbtcTokens : RedeemSbtc(p, v, n, t)
  /\ UNCHANGED <<height, adminVars, executors, strategyVars>>

EngineStep ==
  /\ \E p \in Callers["engine"], intent \in Intents, c \in StrategyContracts,
        pulls \in BOOLEAN :
       \E t \in TokensOf(intent.asset) : SubmitRebalanceIntent(p, intent, c, t, pulls)
  /\ UNCHANGED <<height, adminVars, executors, strategyVars, receiptVars>>

Next ==
  \/ Environment
  \/ AdminStep
  \/ AgentRegistryStep
  \/ StrategyRegistryStep
  \/ GuardStep
  \/ VaultConfigStep
  \/ PoolStep
  \/ EngineStep

Spec == Init /\ [][Next]_vars
=============================================================================
