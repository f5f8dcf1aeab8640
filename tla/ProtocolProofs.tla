---------------------------- MODULE ProtocolProofs ----------------------------
(***************************************************************************)
(* Proofs about the on-chain protocol, for every set of wallets, tokens,   *)
(* strategies and inputs, and on both kinds of chain: types, parity of the *)
(* pools, and execution.                                                   *)
(***************************************************************************)
EXTENDS ProtocolProperties, NumberLemmas

(* A token transfer keeps the ledger a ledger of naturals. *)
LEMMA TransferType ==
  ASSUME ChainTypeOK, NEW t \in Tokens, NEW from \in Accounts, NEW to \in Accounts,
         NEW amount \in Nat, Transfer(t, from, to, amount)
  PROVE  holdings' \in [Tokens -> [Accounts -> Nat]]
  BY DEF ChainTypeOK, Transfer

LEMMA InitType == Init => TypeOK
<1> SUFFICES ASSUME Init
             PROVE  TypeOK
  OBVIOUS
<1>1. ChainTypeOK
  BY ChainAssumption DEF Init, ChainInit, ChainTypeOK
<1>2. AdminTypeOK /\ AgentRegistryTypeOK
  BY ChainAssumption
  DEF Init, AdminInit, AdminTypeOK, AgentRegistryInit, AgentRegistryTypeOK
<1>3. StrategyTypeOK
  BY StrategyAssumption DEF Init, StrategyInit, StrategyTypeOK
<1>4. ReceiptTypeOK
  BY DEF Init, ReceiptInit, ReceiptTypeOK
<1>5. GuardTypeOK
  <2>1. GuardInit
    BY DEF Init
  <2>2. protocolLimits \in ProtocolLimits
    BY <2>1 DEF GuardInit, ProtocolLimits
  <2>3. vaultConfig \in [VaultIds -> VaultConfig \cup {Absent}]
    BY <2>1 DEF GuardInit
  <2>4. QED
    BY <2>1, <2>2, <2>3 DEF GuardInit, GuardTypeOK
<1>6. VaultTypeOK
  <2>1. nextVaultId \in 1 .. (MaxVaults + 1)
    BY ChainAssumption DEF Init, VaultInit
  <2>2. <<>> \in Seq(VaultIds)
    OBVIOUS
  <2>3. vaults \in [VaultIds -> Vault \cup {Absent}]
    BY DEF Init, VaultInit
  <2>4. QED
    BY <2>1, <2>2, <2>3 DEF Init, VaultInit, VaultTypeOK
<1>7. QED
  BY <1>1, <1>2, <1>3, <1>4, <1>5, <1>6 DEF TypeOK

-----------------------------------------------------------------------------
(* Type correctness, one lemma per kind of step. *)

LEMMA EnvironmentType == TypeOK /\ Environment => TypeOK'
<1> SUFFICES ASSUME TypeOK, Environment
             PROVE  TypeOK'
  OBVIOUS
<1>1. ChainTypeOK'
  <2>1. CASE NewBlock
    BY <2>1 DEF NewBlock, TypeOK, ChainTypeOK
  <2>2. ASSUME NEW p \in Callers["donations"], NEW t \in Tokens, NEW n \in Amounts,
               Donate(p, t, n)
        PROVE  ChainTypeOK'
    <3>1. p \in Accounts /\ VAULT \in Accounts /\ n \in Nat
      BY InputAssumption DEF Accounts, Groups
    <3>2. holdings' \in [Tokens -> [Accounts -> Nat]]
      BY <2>2, <3>1, TransferType DEF Donate, TypeOK
    <3>3. QED
      BY <2>2, <3>2 DEF Donate, TypeOK, ChainTypeOK
  <2>3. QED
    BY <2>1, <2>2 DEF Environment
<1>2. QED
  BY <1>1 DEF Environment, TypeOK, adminVars, strategyVars, receiptVars, guardVars, vaultVars,
              indexVars, poolVars, AdminTypeOK, AgentRegistryTypeOK, StrategyTypeOK,
              ReceiptTypeOK, GuardTypeOK, VaultTypeOK

LEMMA AdminType == TypeOK /\ AdminStep => TypeOK'
<1> SUFFICES ASSUME TypeOK, AdminStep
             PROVE  TypeOK'
  OBVIOUS
<1>1. AdminTypeOK'
  BY DEF AdminStep, TypeOK, AdminTypeOK, ProposeAdmin, AcceptAdmin, PauseProtocol,
         UnpauseProtocol
<1>2. QED
  BY <1>1 DEF AdminStep, TypeOK, chainVars, strategyVars, receiptVars, guardVars, vaultVars,
              indexVars, poolVars, ChainTypeOK, AgentRegistryTypeOK, StrategyTypeOK,
              ReceiptTypeOK, GuardTypeOK, VaultTypeOK

LEMMA AgentRegistryType == TypeOK /\ AgentRegistryStep => TypeOK'
<1> SUFFICES ASSUME TypeOK, AgentRegistryStep
             PROVE  TypeOK'
  OBVIOUS
<1>1. AgentRegistryTypeOK'
  BY DEF AgentRegistryStep, TypeOK, AgentRegistryTypeOK, RegisterExecutor, RevokeExecutor,
         ReactivateExecutor
<1>2. QED
  BY <1>1 DEF AgentRegistryStep, TypeOK, chainVars, adminVars, strategyVars, receiptVars,
              guardVars, vaultVars, indexVars, poolVars, ChainTypeOK, AdminTypeOK,
              StrategyTypeOK, ReceiptTypeOK, GuardTypeOK, VaultTypeOK

LEMMA StrategyRegistryType == TypeOK /\ StrategyRegistryStep => TypeOK'
<1> SUFFICES ASSUME TypeOK, StrategyRegistryStep
             PROVE  TypeOK'
  OBVIOUS
<1>1. StrategyTypeOK'
  <2>1. ASSUME NEW p \in Principals, NEW c \in StrategyContracts, NEW a \in Assets,
               NEW cap \in StrategyCaps, RegisterStrategy(p, c, a, cap)
        PROVE  StrategyTypeOK'
    <3>1. [contract |-> c, asset |-> a, active |-> FALSE, maxAllocationBps |-> cap] \in Strategy
      BY <2>1, InputAssumption DEF RegisterStrategy, Strategy, BPS
    <3>2. QED
      BY <2>1, <3>1, StrategyAssumption DEF RegisterStrategy, TypeOK, StrategyTypeOK, StrategyIds
  <2>2. ASSUME NEW p \in Principals, NEW s \in StrategyIds, NEW active \in BOOLEAN,
               SetActive(p, s, active)
        PROVE  StrategyTypeOK'
    BY <2>2 DEF SetActive, TypeOK, StrategyTypeOK, Strategy
  <2>3. QED
    BY <2>1, <2>2, InputAssumption
    DEF StrategyRegistryStep, ActivateStrategy, DeactivateStrategy, Groups
<1>2. QED
  BY <1>1 DEF StrategyRegistryStep, TypeOK, chainVars, adminVars, receiptVars, guardVars,
              vaultVars, indexVars, poolVars, ChainTypeOK, AdminTypeOK, AgentRegistryTypeOK,
              ReceiptTypeOK, GuardTypeOK, VaultTypeOK

LEMMA GuardType == TypeOK /\ GuardStep => TypeOK'
<1> SUFFICES ASSUME TypeOK, GuardStep
             PROVE  TypeOK'
  OBVIOUS
<1>1. GuardTypeOK'
  BY InputAssumption
  DEF GuardStep, TypeOK, GuardTypeOK, SetApprovedSbtcAsset, SetProtocolLimits,
      SetMainnetExecutionArmed
<1>2. QED
  BY <1>1 DEF GuardStep, TypeOK, chainVars, adminVars, strategyVars, receiptVars, vaultVars,
              indexVars, poolVars, ChainTypeOK, AdminTypeOK, AgentRegistryTypeOK,
              StrategyTypeOK, ReceiptTypeOK, VaultTypeOK

-----------------------------------------------------------------------------
(* Pools.  That a redemption leaves natural numbers behind rests on the    *)
(* one-to-one price: it burns exactly the shares whose assets it pays.     *)

IdleWithinTotal ==
  \A v \in VaultIds, a \in Assets : idleBalances[v][a] <= totalBalances[v][a]

(* The inductive invariant of the pools. *)
PoolInv == TypeOK /\ PoolParity /\ IdleWithinTotal

(* The floor of a multiple of the divisor is exact. *)
LEMMA ExactQuotient ==
  ASSUME NEW n \in Nat, NEW s \in Nat, s > 0
  PROVE  (n * s) \div s = n
<1>1. n * s \in Nat /\ n * s <= n * s /\ n * s < (n + 1) * s
  OBVIOUS
<1>2. QED
  BY <1>1

(* At a price of one, a deposit mints its amount and a redemption pays the *)
(* number of shares it burns.                                              *)
LEMMA PriceOfOne ==
  ASSUME NEW n \in Nat, NEW s \in Nat
  PROVE  /\ DepositShares(s, s, n) = n
         /\ s > 0 => RedeemAssets(n, s, s) = n
  BY ExactQuotient DEF DepositShares, RedeemAssets

(* A vault's registration with a holder keeps the indexes well typed. *)
LEMMA RegisterHolderType ==
  ASSUME VaultTypeOK, NEW p \in Principals, NEW v \in VaultIds, RegisterHolder(p, v)
  PROVE  /\ holderVaults' \in [Principals -> Seq(VaultIds)]
         /\ holderRegistered' \in [Principals -> SUBSET VaultIds]
<1>1. CASE v \in holderRegistered[p]
  BY <1>1 DEF RegisterHolder, indexVars, VaultTypeOK
<1>2. CASE v \notin holderRegistered[p]
  <2> DEFINE longer == Append(holderVaults[p], v)
  <2>1. longer \in Seq(VaultIds)
    BY DEF VaultTypeOK
  <2>2. /\ holderRegistered' = [holderRegistered EXCEPT ![p] = @ \cup {v}]
        /\ holderVaults' = [holderVaults EXCEPT ![p] = longer]
    BY <1>2 DEF RegisterHolder
  <2> HIDE DEF longer
  <2>3. QED
    BY <2>1, <2>2 DEF VaultTypeOK
<1>3. QED
  BY <1>1, <1>2

LEMMA DepositKeepsPools ==
  ASSUME PoolInv, NEW p \in Principals, NEW v \in VaultIds, NEW a \in Assets,
         NEW token \in Tokens, NEW n \in Nat, Deposit(p, v, a, token, n)
  PROVE  /\ holdings' \in [Tokens -> [Accounts -> Nat]]
         /\ ReceiptTypeOK'
         /\ VaultTypeOK'
         /\ PoolParity'
         /\ IdleWithinTotal'
<1>1. DepositShares(supplies[v][a], totalBalances[v][a], n) = n
  BY PriceOfOne DEF PoolInv, PoolParity, TypeOK, ReceiptTypeOK
<1>2. Mint(v, a, n, p)
  BY <1>1 DEF Deposit
<1>3. ReceiptTypeOK'
  BY <1>2 DEF Mint, PoolInv, TypeOK, ReceiptTypeOK
<1>4. holdings' \in [Tokens -> [Accounts -> Nat]]
  <2>1. p \in Accounts /\ VAULT \in Accounts
    BY DEF Accounts
  <2>2. QED
    BY <2>1, TransferType DEF Deposit, PoolInv, TypeOK
<1>5. VaultTypeOK'
  <2>1. /\ holderVaults' \in [Principals -> Seq(VaultIds)]
        /\ holderRegistered' \in [Principals -> SUBSET VaultIds]
    BY RegisterHolderType DEF Deposit, PoolInv, TypeOK
  <2>2. /\ idleBalances' \in [VaultIds -> [Assets -> Nat]]
        /\ totalBalances' \in [VaultIds -> [Assets -> Nat]]
    BY DEF Deposit, PoolInv, TypeOK, VaultTypeOK
  <2>3. QED
    BY <2>1, <2>2 DEF Deposit, PoolInv, TypeOK, VaultTypeOK
<1>6. PoolParity'
  BY <1>2 DEF Mint, Deposit, PoolInv, PoolParity, TypeOK, ReceiptTypeOK, VaultTypeOK
<1>7. IdleWithinTotal'
  BY DEF Deposit, PoolInv, IdleWithinTotal, TypeOK, VaultTypeOK
<1>8. QED
  BY <1>3, <1>4, <1>5, <1>6, <1>7

LEMMA RedemptionKeepsPools ==
  ASSUME PoolInv, NEW p \in Principals, NEW v \in VaultIds, NEW a \in Assets,
         NEW token \in Tokens, NEW n \in Nat, Redeem(p, v, a, token, n)
  PROVE  /\ holdings' \in [Tokens -> [Accounts -> Nat]]
         /\ ReceiptTypeOK'
         /\ VaultTypeOK'
         /\ PoolParity'
         /\ IdleWithinTotal'
<1>1. /\ supplies[v][a] \in Nat
      /\ n <= supplies[v][a]
      /\ RedeemAssets(n, supplies[v][a], totalBalances[v][a]) = n
  BY PriceOfOne DEF PoolInv, PoolParity, TypeOK, ReceiptTypeOK, Redeem, RedeemAccepted
<1>2. Burn(v, a, n, p) /\ PayFromIdle(v, a, n) /\ Transfer(token, VAULT, p, n)
  BY <1>1 DEF Redeem
<1>3. ReceiptTypeOK'
  BY <1>1, <1>2 DEF Burn, PoolInv, TypeOK, ReceiptTypeOK
<1>4. holdings' \in [Tokens -> [Accounts -> Nat]]
  <2>1. p \in Accounts /\ VAULT \in Accounts
    BY DEF Accounts
  <2>2. QED
    BY <1>2, <2>1, TransferType DEF PoolInv, TypeOK
<1>5. VaultTypeOK'
  <2>1. /\ idleBalances' \in [VaultIds -> [Assets -> Nat]]
        /\ totalBalances' \in [VaultIds -> [Assets -> Nat]]
    BY <1>2 DEF PayFromIdle, PoolInv, IdleWithinTotal, TypeOK, VaultTypeOK
  <2>2. QED
    BY <2>1 DEF Redeem, indexVars, PoolInv, TypeOK, VaultTypeOK
<1>6. PoolParity'
  BY <1>2 DEF Burn, PayFromIdle, PoolInv, PoolParity, TypeOK, ReceiptTypeOK, VaultTypeOK
<1>7. IdleWithinTotal'
  BY <1>2 DEF PayFromIdle, PoolInv, IdleWithinTotal, TypeOK, VaultTypeOK
<1>8. QED
  BY <1>3, <1>4, <1>5, <1>6, <1>7

(* The calls of wallets, whoever makes them and with whatever amounts and  *)
(* parameters: what an instance lets some callers do, and what the pages   *)
(* of the web app send.                                                    *)
PoolCall(p, v, n) ==
  \/ DepositStx(p, v, n)
  \/ RedeemStx(p, v, n)
  \/ \E t \in SbtcTokens : DepositSbtc(p, v, n, t)
  \/ \E t \in SbtcTokens : RedeemSbtc(p, v, n, t)

AnyPoolStep ==
  /\ \E p \in Principals, v \in VaultIds, n \in Nat : PoolCall(p, v, n)
  /\ UNCHANGED <<height, adminVars, executors, strategyVars>>

AnyVaultConfigStep ==
  /\ \/ \E p \in Principals, name \in Names, purpose \in Nat, mode \in Nat, open \in BOOLEAN,
           params \in RiskParams :
          CreateVault(p, name, purpose, mode, open, params)
     \/ \E p \in Principals, v \in VaultIds, name \in Names, open \in BOOLEAN :
          SetVaultConfig(p, v, name, open)
     \/ \E p \in Principals, v \in VaultIds, params \in RiskParams : SetRiskConfig(p, v, params)
     \/ \E p \in Principals, v \in VaultIds, enabled \in BOOLEAN :
          SetAutonomousMode(p, v, enabled)
     \/ \E p \in Principals, v \in VaultIds : PauseVault(p, v) \/ UnpauseVault(p, v)
  /\ UNCHANGED <<chainVars, adminVars, executors, strategyVars, receiptVars>>

AnyNext == Next \/ AnyVaultConfigStep \/ AnyPoolStep

LEMMA PoolStepIsAny == PoolStep => AnyPoolStep
<1>1. Amounts \subseteq Nat /\ Callers["pools"] \subseteq Principals
  BY InputAssumption DEF Groups
<1>2. QED
  BY <1>1 DEF PoolStep, AnyPoolStep, PoolCall

LEMMA VaultConfigStepIsAny == VaultConfigStep => AnyVaultConfigStep
<1>1. /\ Purposes \subseteq Nat /\ AssetModes \subseteq Nat /\ RiskParamSets \subseteq RiskParams
      /\ Callers["vaults"] \subseteq Principals /\ Callers["risk-config"] \subseteq Principals
      /\ Callers["vault-pause"] \subseteq Principals
  BY InputAssumption DEF Groups
<1>2. QED
  BY <1>1 DEF VaultConfigStep, AnyVaultConfigStep

LEMMA NextIsAny == [Next]_vars => [AnyNext]_vars
  BY DEF AnyNext

LEMMA PoolStepKeepsPools == PoolInv /\ AnyPoolStep => PoolInv'
<1> SUFFICES ASSUME PoolInv, AnyPoolStep
             PROVE  PoolInv'
  OBVIOUS
<1>1. PICK p \in Principals, v \in VaultIds, n \in Nat : PoolCall(p, v, n)
  BY DEF AnyPoolStep
<1>2. PICK a \in Assets, t \in Tokens : Deposit(p, v, a, t, n) \/ Redeem(p, v, a, t, n)
  BY <1>1 DEF PoolCall, DepositStx, DepositSbtc, RedeemStx, RedeemSbtc, Assets, Tokens
<1>3. /\ holdings' \in [Tokens -> [Accounts -> Nat]]
      /\ ReceiptTypeOK'
      /\ VaultTypeOK'
      /\ PoolParity'
      /\ IdleWithinTotal'
  <2>1. CASE Deposit(p, v, a, t, n)
    BY <2>1, DepositKeepsPools
  <2>2. CASE Redeem(p, v, a, t, n)
    BY <2>2, RedemptionKeepsPools
  <2>3. QED
    BY <1>2, <2>1, <2>2
<1>4. GuardTypeOK'
  <2>1. UNCHANGED guardVars
    BY <1>2 DEF Deposit, Redeem
  <2>2. QED
    BY <2>1 DEF guardVars, GuardTypeOK, PoolInv, TypeOK
<1>5. ChainTypeOK' /\ AdminTypeOK' /\ AgentRegistryTypeOK' /\ StrategyTypeOK'
  BY <1>3 DEF AnyPoolStep, adminVars, strategyVars, PoolInv, TypeOK, ChainTypeOK, AdminTypeOK,
              AgentRegistryTypeOK, StrategyTypeOK
<1>6. QED
  BY <1>3, <1>4, <1>5 DEF PoolInv, TypeOK

-----------------------------------------------------------------------------
(* Intents. *)

(* Intents as the engine is given them, whoever builds them. *)
AnyIntent == [vault: VaultIds, strategy: StrategyIds, asset: Assets, amount: Nat,
              maxSlippageBps: Nat, nonce: Nat, deadline: Nat]

LEMMA IntentsOffered == Intents \subseteq AnyIntent
  BY InputAssumption DEF Intents, AnyIntent

(* Recording an intent keeps the configuration a configuration. *)
LEMMA RecordType ==
  ASSUME TypeOK, NEW intent \in AnyIntent, NEW isOwner, NEW source, NEW total, NEW allocation,
         NEW cap, ValidateAndRecordIntent(intent, isOwner, source, total, allocation, cap)
  PROVE  GuardTypeOK'
<1>1. intent.vault \in VaultIds /\ intent.nonce \in Nat /\ height \in Nat
  BY DEF AnyIntent, TypeOK, ChainTypeOK
<1>2. vaultConfig[intent.vault] \in VaultConfig
  BY <1>1 DEF ValidateAndRecordIntent, CheckIntent, TypeOK, GuardTypeOK
<1>3. vaultConfig' = [vaultConfig EXCEPT ![intent.vault] =
                        [@ EXCEPT !.lastUsedNonce = intent.nonce,
                                  !.lastExecutionHeight = height]]
  BY <1>1, <1>2 DEF ValidateAndRecordIntent, TypeOK, GuardTypeOK, VaultConfig
<1>4. [vaultConfig[intent.vault] EXCEPT !.lastUsedNonce = intent.nonce,
                                        !.lastExecutionHeight = height] \in VaultConfig
  BY <1>1, <1>2 DEF VaultConfig
<1>5. vaultConfig' \in [VaultIds -> VaultConfig \cup {Absent}]
  BY <1>1, <1>3, <1>4 DEF TypeOK, GuardTypeOK
<1>6. QED
  BY <1>5 DEF ValidateAndRecordIntent, TypeOK, GuardTypeOK

(* A submission that the chain takes, by whoever and of whatever intent. *)
LEMMA SubmitKeepsPools ==
  ASSUME PoolInv, NEW p, NEW intent \in AnyIntent, NEW c \in StrategyContracts, NEW pulls,
         NEW t \in TokensOf(intent.asset), SubmitRebalanceIntent(p, intent, c, t, pulls),
         UNCHANGED <<height, adminVars, executors, strategyVars, receiptVars>>
  PROVE  PoolInv'
<1>3. /\ intent.vault \in VaultIds
      /\ intent.strategy \in StrategyIds
      /\ intent.asset \in Assets
      /\ intent.amount \in Nat
      /\ t \in Tokens
      /\ VAULT \in Accounts /\ c \in Accounts
  BY DEF AnyIntent, TokensOf, Tokens, Accounts
<1> DEFINE v == intent.vault
           s == intent.strategy
           a == intent.asset
           n == intent.amount
<1>4. ExecuteRebalance(v, s, a, n, c, t, pulls)
  BY DEF SubmitRebalanceIntent
<1>5. GuardTypeOK'
  BY RecordType DEF SubmitRebalanceIntent, PoolInv
<1>6. Deploy(v, s, a, n)
  BY <1>4 DEF ExecuteRebalance
<1>7. ChainTypeOK'
  <2>1. holdings' \in [Tokens -> [Accounts -> Nat]]
    BY <1>3, <1>4, TransferType DEF ExecuteRebalance, StrategyDeposit, PoolInv, TypeOK,
                                    ChainTypeOK
  <2>2. QED
    BY <2>1 DEF PoolInv, TypeOK, ChainTypeOK
<1>8. VaultTypeOK'
  <2>1. /\ idleBalances' \in [VaultIds -> [Assets -> Nat]]
        /\ strategyAllocations' \in [VaultIds -> [StrategyIds -> [Assets -> Nat]]]
    BY <1>3, <1>6 DEF Deploy, PoolInv, TypeOK, VaultTypeOK
  <2>2. QED
    BY <1>4, <1>6, <2>1 DEF ExecuteRebalance, Deploy, indexVars, PoolInv, TypeOK, VaultTypeOK
<1>9. PoolParity' /\ IdleWithinTotal'
  <2>1. /\ totalBalances' = totalBalances /\ supplies' = supplies
        /\ idleBalances' = [idleBalances EXCEPT ![v][a] = @ - n]
    BY <1>6 DEF Deploy, receiptVars
  <2>2. /\ idleBalances \in [VaultIds -> [Assets -> Nat]]
        /\ totalBalances \in [VaultIds -> [Assets -> Nat]]
    BY DEF PoolInv, TypeOK, VaultTypeOK
  <2>3. PoolParity'
    BY <2>1 DEF PoolInv, PoolParity
  <2>4. IdleWithinTotal'
    BY <1>3, <2>1, <2>2 DEF PoolInv, IdleWithinTotal
  <2>5. QED
    BY <2>3, <2>4
<1>10. QED
  BY <1>5, <1>7, <1>8, <1>9
  DEF adminVars, strategyVars, receiptVars, PoolInv, TypeOK, AdminTypeOK,
      AgentRegistryTypeOK, StrategyTypeOK, ReceiptTypeOK

LEMMA EngineStepKeepsPools == PoolInv /\ EngineStep => PoolInv'
<1> SUFFICES ASSUME PoolInv, EngineStep
             PROVE  PoolInv'
  OBVIOUS
<1>1. PICK p \in Callers["engine"], intent \in Intents, c \in StrategyContracts,
           pulls \in BOOLEAN :
        \E t \in TokensOf(intent.asset) : SubmitRebalanceIntent(p, intent, c, t, pulls)
  BY DEF EngineStep
<1>2. QED
  BY <1>1, IntentsOffered, SubmitKeepsPools DEF EngineStep

-----------------------------------------------------------------------------
(* Vaults and their configuration. *)

LEMMA CreateVaultType ==
  ASSUME TypeOK, NEW p \in Principals, NEW name, NEW purpose \in Nat, NEW mode \in Nat,
         NEW open \in BOOLEAN, NEW params \in RiskParams,
         CreateVault(p, name, purpose, mode, open, params)
  PROVE  GuardTypeOK' /\ VaultTypeOK'
<1>a. /\ nextVaultId <= MaxVaults /\ nextVaultId' = nextVaultId + 1
      /\ purpose <= 5 /\ mode >= 1 /\ mode <= 3
      /\ UNCHANGED <<indexVars, poolVars>>
  BY DEF CreateVault
<1>b. MaxVaults \in Nat /\ nextVaultId \in 1 .. (MaxVaults + 1)
  BY ChainAssumption DEF TypeOK, VaultTypeOK
<1>1. nextVaultId \in VaultIds
  BY <1>a, <1>b DEF VaultIds
<1>2. VaultTypeOK'
  <2> DEFINE new == [owner |-> p, purpose |-> purpose, assets |-> mode,
                     openDeposits |-> open, paused |-> FALSE]
             longer == Append(ownerVaults[p], nextVaultId)
  <2>a. purpose \in 0 .. 5 /\ mode \in 1 .. 3
    BY <1>a
  <2>b. ownerVaults[p] \in Seq(VaultIds)
    BY DEF TypeOK, VaultTypeOK
  <2>1. new \in Vault /\ longer \in Seq(VaultIds)
    BY <1>1, <2>a, <2>b DEF Vault
  <2>2. /\ vaults' = [vaults EXCEPT ![nextVaultId] = new]
        /\ ownerVaults' = [ownerVaults EXCEPT ![p] = longer]
    BY DEF CreateVault
  <2> HIDE DEF new, longer
  <2>3. nextVaultId' \in 1 .. (MaxVaults + 1)
    BY <1>a, <1>b
  <2>4. QED
    BY <1>a, <1>1, <2>1, <2>2, <2>3 DEF indexVars, poolVars, TypeOK, VaultTypeOK
<1>3. GuardTypeOK'
  <2> DEFINE new == [params |-> params, lastUsedNonce |-> 0, lastExecutionHeight |-> 0]
  <2>1. new \in VaultConfig
    BY DEF VaultConfig
  <2>2. vaultConfig' = [vaultConfig EXCEPT ![nextVaultId] = new]
    BY DEF CreateVault, InitVaultConfig
  <2> HIDE DEF new
  <2>3. QED
    BY <1>1, <2>1, <2>2 DEF CreateVault, InitVaultConfig, TypeOK, GuardTypeOK
<1>4. QED
  BY <1>2, <1>3

LEMMA VaultConfigStepKeepsPools == PoolInv /\ AnyVaultConfigStep => PoolInv'
<1> SUFFICES ASSUME PoolInv, AnyVaultConfigStep
             PROVE  PoolInv'
  OBVIOUS
<1>1. GuardTypeOK' /\ VaultTypeOK' /\ UNCHANGED poolVars
  <2>1. ASSUME NEW p \in Principals, NEW name, NEW purpose \in Nat,
               NEW mode \in Nat, NEW open \in BOOLEAN, NEW params \in RiskParams,
               CreateVault(p, name, purpose, mode, open, params)
        PROVE  GuardTypeOK' /\ VaultTypeOK' /\ UNCHANGED poolVars
    <3>1. UNCHANGED poolVars
      BY <2>1 DEF CreateVault
    <3>2. QED
      BY <2>1, <3>1, CreateVaultType DEF PoolInv
  <2>2. ASSUME NEW p \in Principals, NEW v \in VaultIds, NEW name, NEW open \in BOOLEAN,
               SetVaultConfig(p, v, name, open)
        PROVE  GuardTypeOK' /\ VaultTypeOK' /\ UNCHANGED poolVars
    <3>1. /\ vaults[v] \in Vault
          /\ vaults' = [vaults EXCEPT ![v] = [@ EXCEPT !.openDeposits = open]]
          /\ UNCHANGED <<nextVaultId, ownerVaults, indexVars, poolVars, guardVars>>
      BY <2>2 DEF SetVaultConfig, IsOwner, PoolInv, TypeOK, VaultTypeOK
    <3>2. [vaults[v] EXCEPT !.openDeposits = open] \in Vault
      BY <3>1 DEF Vault
    <3>3. vaults' \in [VaultIds -> Vault \cup {Absent}]
      BY <3>1, <3>2 DEF PoolInv, TypeOK, VaultTypeOK
    <3>4. QED
      BY <3>1, <3>3 DEF guardVars, poolVars, indexVars, PoolInv, TypeOK, VaultTypeOK,
                        GuardTypeOK
  <2>3. ASSUME NEW p \in Principals, NEW v \in VaultIds, NEW params \in RiskParams,
               SetRiskConfig(p, v, params)
        PROVE  GuardTypeOK' /\ VaultTypeOK' /\ UNCHANGED poolVars
    <3>1. vaultConfig' \in [VaultIds -> VaultConfig \cup {Absent}]
      <4>1. vaultConfig[v] \in VaultConfig
        BY <2>3 DEF SetRiskConfig, SetVaultRiskConfig, PoolInv, TypeOK, GuardTypeOK
      <4>2. [vaultConfig[v] EXCEPT !.params = params] \in VaultConfig
        BY <4>1 DEF VaultConfig
      <4>3. QED
        BY <2>3, <4>2 DEF SetRiskConfig, SetVaultRiskConfig, PoolInv, TypeOK, GuardTypeOK
    <3>2. QED
      BY <2>3, <3>1 DEF SetRiskConfig, SetVaultRiskConfig, vaultVars, poolVars, indexVars,
                        PoolInv, TypeOK, VaultTypeOK, GuardTypeOK
  <2>4. ASSUME NEW p \in Principals, NEW v \in VaultIds, NEW enabled \in BOOLEAN,
               SetAutonomousMode(p, v, enabled)
        PROVE  GuardTypeOK' /\ VaultTypeOK' /\ UNCHANGED poolVars
    <3>1. vaultConfig' \in [VaultIds -> VaultConfig \cup {Absent}]
      <4>1. vaultConfig[v] \in VaultConfig
        BY <2>4 DEF SetAutonomousMode, SetAutonomousEnabled, PoolInv, TypeOK, GuardTypeOK
      <4>2. [vaultConfig[v] EXCEPT !.params = [@ EXCEPT !.autonomousEnabled = enabled]]
              \in VaultConfig
        BY <4>1 DEF VaultConfig, RiskParams
      <4>3. vaultConfig' = [vaultConfig EXCEPT ![v].params.autonomousEnabled = enabled]
        BY <2>4 DEF SetAutonomousMode, SetAutonomousEnabled
      <4>4. /\ vaultConfig'[v] = [vaultConfig[v] EXCEPT !.params =
                                    [@ EXCEPT !.autonomousEnabled = enabled]]
            /\ \A w \in VaultIds \ {v} : vaultConfig'[w] = vaultConfig[w]
            /\ vaultConfig' = [w \in VaultIds |-> vaultConfig'[w]]
        BY <4>3 DEF PoolInv, TypeOK, GuardTypeOK
      <4>5. QED
        BY <4>2, <4>4 DEF PoolInv, TypeOK, GuardTypeOK
    <3>2. QED
      BY <2>4, <3>1 DEF SetAutonomousMode, SetAutonomousEnabled, vaultVars, poolVars,
                        indexVars, PoolInv, TypeOK, VaultTypeOK, GuardTypeOK
  <2>5. ASSUME NEW p \in Principals, NEW v \in VaultIds, NEW paused \in BOOLEAN,
               SetPaused(p, v, paused)
        PROVE  GuardTypeOK' /\ VaultTypeOK' /\ UNCHANGED poolVars
    <3>1. /\ vaults[v] \in Vault
          /\ vaults' = [vaults EXCEPT ![v] = [@ EXCEPT !.paused = paused]]
          /\ UNCHANGED <<nextVaultId, ownerVaults, indexVars, poolVars, guardVars>>
      BY <2>5 DEF SetPaused, IsOwner, PoolInv, TypeOK, VaultTypeOK
    <3>2. [vaults[v] EXCEPT !.paused = paused] \in Vault
      BY <3>1 DEF Vault
    <3>3. vaults' \in [VaultIds -> Vault \cup {Absent}]
      BY <3>1, <3>2 DEF PoolInv, TypeOK, VaultTypeOK
    <3>4. QED
      BY <3>1, <3>3 DEF guardVars, poolVars, indexVars, PoolInv, TypeOK, VaultTypeOK,
                        GuardTypeOK
  <2>6. QED
    BY <2>1, <2>2, <2>3, <2>4, <2>5 DEF AnyVaultConfigStep, PauseVault, UnpauseVault
<1>2. PoolParity' /\ IdleWithinTotal'
  BY <1>1 DEF AnyVaultConfigStep, receiptVars, poolVars, PoolInv, PoolParity, IdleWithinTotal
<1>3. QED
  BY <1>1, <1>2
  DEF AnyVaultConfigStep, chainVars, adminVars, strategyVars, receiptVars, PoolInv, TypeOK,
      ChainTypeOK, AdminTypeOK, AgentRegistryTypeOK, StrategyTypeOK, ReceiptTypeOK

-----------------------------------------------------------------------------

LEMMA InitPools == Init => PoolInv
<1> SUFFICES ASSUME Init
             PROVE  PoolInv
  OBVIOUS
<1>1. ReceiptInit /\ VaultInit
  BY DEF Init
<1>2. PoolParity /\ IdleWithinTotal
  BY <1>1 DEF ReceiptInit, VaultInit, PoolParity, IdleWithinTotal
<1>3. QED
  BY <1>2, InitType DEF PoolInv

LEMMA AnyStepPools == PoolInv /\ [AnyNext]_vars => PoolInv'
<1> SUFFICES ASSUME PoolInv, [AnyNext]_vars
             PROVE  PoolInv'
  OBVIOUS
<1>1. ASSUME UNCHANGED <<receiptVars, vaultVars>>
      PROVE  PoolParity' /\ IdleWithinTotal'
  BY <1>1 DEF receiptVars, vaultVars, poolVars, PoolInv, PoolParity, IdleWithinTotal
<1>2. CASE Environment
  <2>1. UNCHANGED <<receiptVars, vaultVars>>
    BY <1>2 DEF Environment
  <2>2. QED
    BY <1>1, <1>2, <2>1, EnvironmentType DEF PoolInv
<1>3. CASE AdminStep
  <2>1. UNCHANGED <<receiptVars, vaultVars>>
    BY <1>3 DEF AdminStep
  <2>2. QED
    BY <1>1, <1>3, <2>1, AdminType DEF PoolInv
<1>4. CASE AgentRegistryStep
  <2>1. UNCHANGED <<receiptVars, vaultVars>>
    BY <1>4 DEF AgentRegistryStep
  <2>2. QED
    BY <1>1, <1>4, <2>1, AgentRegistryType DEF PoolInv
<1>5. CASE StrategyRegistryStep
  <2>1. UNCHANGED <<receiptVars, vaultVars>>
    BY <1>5 DEF StrategyRegistryStep
  <2>2. QED
    BY <1>1, <1>5, <2>1, StrategyRegistryType DEF PoolInv
<1>6. CASE GuardStep
  <2>1. UNCHANGED <<receiptVars, vaultVars>>
    BY <1>6 DEF GuardStep
  <2>2. QED
    BY <1>1, <1>6, <2>1, GuardType DEF PoolInv
<1>7. CASE VaultConfigStep \/ AnyVaultConfigStep
  BY <1>7, VaultConfigStepIsAny, VaultConfigStepKeepsPools
<1>8. CASE PoolStep \/ AnyPoolStep
  BY <1>8, PoolStepIsAny, PoolStepKeepsPools
<1>9. CASE EngineStep
  BY <1>9, EngineStepKeepsPools
<1>10. CASE UNCHANGED vars
  <2>1. PoolParity' /\ IdleWithinTotal'
    BY <1>1, <1>10 DEF vars
  <2>2. TypeOK'
    BY <1>10 DEF vars, chainVars, adminVars, strategyVars, receiptVars, guardVars, vaultVars,
                 indexVars, poolVars, PoolInv, TypeOK, ChainTypeOK, AdminTypeOK,
                 AgentRegistryTypeOK, StrategyTypeOK, ReceiptTypeOK, GuardTypeOK, VaultTypeOK
  <2>3. QED
    BY <2>1, <2>2 DEF PoolInv
<1>11. QED
  BY <1>2, <1>3, <1>4, <1>5, <1>6, <1>7, <1>8, <1>9, <1>10 DEF Next, AnyNext

LEMMA StepPools == PoolInv /\ [Next]_vars => PoolInv'
  BY AnyStepPools, NextIsAny

THEOREM PoolsInvariant == Spec => []PoolInv
  BY InitPools, StepPools, PTL DEF Spec

(* Every variable keeps its type: in particular no balance, supply or      *)
(* allocation of the contracts is ever driven below zero.                  *)
THEOREM TypeCorrect == Spec => []TypeOK
<1>1. PoolInv => TypeOK
  BY DEF PoolInv
<1>2. QED
  BY <1>1, PoolsInvariant, PTL

(* A pool's total assets equal its share supply, for every history of      *)
(* deposits, redemptions, deployments, donations and admin calls.          *)
THEOREM Parity == Spec => []PoolParity
<1>1. PoolInv => PoolParity
  BY DEF PoolInv
<1>2. QED
  BY <1>1, PoolsInvariant, PTL

-----------------------------------------------------------------------------
(* Execution: nonces are used once, by deployments alone; a deployment     *)
(* stays within the mandate; off mainnet there is none.  The proofs rest   *)
(* on the pools' invariant, for the types it gives, and on what each kind  *)
(* of step can do to the configurations and to the pools.                  *)

(* A configuration's record of the executions its vault has seen. *)
SameRecord(v) ==
  /\ vaultConfig'[v].lastUsedNonce = vaultConfig[v].lastUsedNonce
  /\ vaultConfig'[v].lastExecutionHeight = vaultConfig[v].lastExecutionHeight

FreshRecord(cfg) == cfg.lastUsedNonce = 0 /\ cfg.lastExecutionHeight = 0

(* The owner's functions leave every record alone, and a new vault's is    *)
(* fresh.                                                                  *)
RecordsKept ==
  \A v \in VaultIds :
    IF vaultConfig[v] = Absent
    THEN vaultConfig'[v] = Absent \/ FreshRecord(vaultConfig'[v])
    ELSE vaultConfig'[v] # Absent /\ SameRecord(v)

LEMMA UnchangedKeepsRecords ==
  ASSUME UNCHANGED vaultConfig
  PROVE  RecordsKept
  BY DEF RecordsKept, SameRecord

LEMMA VaultConfigStepKeepsRecords ==
  ASSUME PoolInv, AnyVaultConfigStep
  PROVE  RecordsKept /\ UNCHANGED <<poolVars, mainnetExecutionArmed>>
<1>1. vaultConfig \in [VaultIds -> VaultConfig \cup {Absent}]
  BY DEF PoolInv, TypeOK, GuardTypeOK
<1>2. ASSUME NEW p, NEW name, NEW purpose, NEW mode, NEW open, NEW params,
             CreateVault(p, name, purpose, mode, open, params)
      PROVE  RecordsKept /\ UNCHANGED <<poolVars, mainnetExecutionArmed>>
  <2> DEFINE new == [params |-> params, lastUsedNonce |-> 0, lastExecutionHeight |-> 0]
  <2>1. /\ vaultConfig[nextVaultId] = Absent
        /\ vaultConfig' = [vaultConfig EXCEPT ![nextVaultId] = new]
        /\ UNCHANGED <<poolVars, mainnetExecutionArmed>>
    BY <1>2 DEF CreateVault, InitVaultConfig
  <2>2. FreshRecord(new)
    BY DEF FreshRecord
  <2> HIDE DEF new
  <2>3. ASSUME NEW v \in VaultIds
        PROVE  IF v = nextVaultId THEN vaultConfig'[v] = new
                                  ELSE vaultConfig'[v] = vaultConfig[v]
    BY <1>1, <2>1
  <2>4. RecordsKept
    BY <2>1, <2>2, <2>3 DEF RecordsKept, SameRecord
  <2>5. QED
    BY <2>1, <2>4
<1>3. ASSUME NEW p, NEW v \in VaultIds, NEW params \in RiskParams, SetRiskConfig(p, v, params)
      PROVE  RecordsKept /\ UNCHANGED <<poolVars, mainnetExecutionArmed>>
  <2>1. /\ vaultConfig[v] \in VaultConfig
        /\ vaultConfig' = [vaultConfig EXCEPT ![v] = [@ EXCEPT !.params = params]]
        /\ UNCHANGED <<poolVars, mainnetExecutionArmed>>
    BY <1>1, <1>3 DEF SetRiskConfig, SetVaultRiskConfig, vaultVars
  <2>2. \A w \in VaultIds : w # v => vaultConfig'[w] = vaultConfig[w]
    BY <1>1, <2>1
  <2>3. SameRecord(v) /\ vaultConfig'[v] \in VaultConfig
    BY <1>1, <2>1 DEF SameRecord, VaultConfig, RiskParams
  <2>4. RecordsKept
    BY <2>1, <2>2, <2>3, ConfigAssumption DEF RecordsKept, SameRecord
  <2>5. QED
    BY <2>1, <2>4
<1>4. ASSUME NEW p, NEW v \in VaultIds, NEW enabled \in BOOLEAN,
             SetAutonomousMode(p, v, enabled)
      PROVE  RecordsKept /\ UNCHANGED <<poolVars, mainnetExecutionArmed>>
  <2>1. /\ vaultConfig[v] \in VaultConfig
        /\ vaultConfig' = [vaultConfig EXCEPT ![v].params.autonomousEnabled = enabled]
        /\ UNCHANGED <<poolVars, mainnetExecutionArmed>>
    BY <1>1, <1>4 DEF SetAutonomousMode, SetAutonomousEnabled, vaultVars
  <2>2. \A w \in VaultIds : w # v => vaultConfig'[w] = vaultConfig[w]
    BY <1>1, <2>1
  <2>3. SameRecord(v) /\ vaultConfig'[v] \in VaultConfig
    BY <1>1, <2>1 DEF SameRecord, VaultConfig, RiskParams
  <2>4. RecordsKept
    BY <2>1, <2>2, <2>3, ConfigAssumption DEF RecordsKept, SameRecord
  <2>5. QED
    BY <2>1, <2>4
<1>5. ASSUME NEW p, NEW v, NEW name, NEW open,
             SetVaultConfig(p, v, name, open) \/ SetPaused(p, v, open)
      PROVE  RecordsKept /\ UNCHANGED <<poolVars, mainnetExecutionArmed>>
  BY <1>5, UnchangedKeepsRecords DEF SetVaultConfig, SetPaused, guardVars
<1>6. QED
  BY <1>2, <1>3, <1>4, <1>5 DEF AnyVaultConfigStep, PauseVault, UnpauseVault

LEMMA PoolStepLeaves ==
  AnyPoolStep => UNCHANGED <<guardVars, strategyAllocations, nextVaultId, vaults, ownerVaults>>
  BY DEF AnyPoolStep, PoolCall, DepositStx, DepositSbtc, RedeemStx, RedeemSbtc, Deposit, Redeem

(* No step but the engine's touches an allocation or an existing record. *)
LEMMA OnlyEngineDeploys ==
  ASSUME PoolInv, [AnyNext]_vars, ~EngineStep
  PROVE  RecordsKept /\ UNCHANGED strategyAllocations
<1>1. CASE Environment \/ AdminStep \/ AgentRegistryStep \/ StrategyRegistryStep
           \/ UNCHANGED vars
  <2>1. UNCHANGED <<guardVars, vaultVars>>
    BY <1>1 DEF Environment, AdminStep, AgentRegistryStep, StrategyRegistryStep, vars
  <2>2. QED
    BY <2>1, UnchangedKeepsRecords DEF guardVars, vaultVars, poolVars
<1>2. CASE GuardStep
  <2>1. UNCHANGED <<vaultConfig, vaultVars>>
    BY <1>2 DEF GuardStep, SetApprovedSbtcAsset, SetProtocolLimits, SetMainnetExecutionArmed
  <2>2. QED
    BY <2>1, UnchangedKeepsRecords DEF vaultVars, poolVars
<1>3. CASE VaultConfigStep \/ AnyVaultConfigStep
  BY <1>3, VaultConfigStepIsAny, VaultConfigStepKeepsRecords DEF poolVars
<1>4. CASE PoolStep \/ AnyPoolStep
  <2>1. UNCHANGED <<guardVars, strategyAllocations>>
    BY <1>4, PoolStepIsAny, PoolStepLeaves
  <2>2. QED
    BY <2>1, UnchangedKeepsRecords DEF guardVars
<1>5. QED
  BY <1>1, <1>2, <1>3, <1>4 DEF Next, AnyNext

-----------------------------------------------------------------------------
(* A deployment: the one step that uses a nonce. *)

UsesNonce(v, nonce) ==
  /\ vaultConfig[v] # Absent /\ vaultConfig'[v] # Absent
  /\ nonce > vaultConfig[v].lastUsedNonce
  /\ vaultConfig'[v].lastUsedNonce = nonce
  /\ vaultConfig'[v].lastExecutionHeight = height
  /\ strategyAllocations'[v] # strategyAllocations[v]
  /\ \A w \in VaultIds \ {v} : /\ vaultConfig'[w] = vaultConfig[w]
                               /\ strategyAllocations'[w] = strategyAllocations[w]

LEMMA SubmitUsesNonce ==
  ASSUME PoolInv, NEW p, NEW intent \in AnyIntent, NEW c, NEW pulls, NEW t,
         SubmitRebalanceIntent(p, intent, c, t, pulls)
  PROVE  UsesNonce(intent.vault, intent.nonce)
<1> DEFINE v == intent.vault
           s == intent.strategy
           a == intent.asset
           n == intent.amount
<1>3. v \in VaultIds /\ s \in StrategyIds /\ a \in Assets /\ n \in Nat
  BY DEF AnyIntent
<1>4. ValidateAndRecordIntent(intent, CallerIsOwner(p, intent), idleBalances[v][a],
                              totalBalances[v][a], strategyAllocations[v][s][a],
                              MaxAllocationBps(s))
  BY DEF SubmitRebalanceIntent
<1>5. /\ vaultConfig[v] # Absent
      /\ intent.nonce > vaultConfig[v].lastUsedNonce
      /\ n > 0
  BY <1>4 DEF ValidateAndRecordIntent, CheckIntent, NonceUnused
<1>6. Deploy(v, s, a, n)
  BY DEF SubmitRebalanceIntent, ExecuteRebalance
<1>7. vaultConfig[v] \in VaultConfig
  BY <1>3, <1>5 DEF PoolInv, TypeOK, GuardTypeOK
<1>8. vaultConfig' = [vaultConfig EXCEPT ![v].lastUsedNonce = intent.nonce,
                                         ![v].lastExecutionHeight = height]
  BY <1>4 DEF ValidateAndRecordIntent
<1>9. /\ vaultConfig'[v].lastUsedNonce = intent.nonce
      /\ vaultConfig'[v].lastExecutionHeight = height
      /\ \A w \in VaultIds \ {v} : vaultConfig'[w] = vaultConfig[w]
  <2> HIDE DEF v
  <2>1. QED
    BY <1>3, <1>7, <1>8 DEF VaultConfig, PoolInv, TypeOK, GuardTypeOK
<1>10. /\ strategyAllocations'[v][s][a] = strategyAllocations[v][s][a] + n
       /\ strategyAllocations[v][s][a] \in Nat
       /\ \A w \in VaultIds \ {v} : strategyAllocations'[w] = strategyAllocations[w]
  <2> HIDE DEF v, s, a, n
  <2>1. QED
    BY <1>3, <1>6 DEF Deploy, PoolInv, TypeOK, VaultTypeOK
<1>11. strategyAllocations'[v] # strategyAllocations[v]
  <2> HIDE DEF v, s, a, n
  <2>1. strategyAllocations'[v][s][a] # strategyAllocations[v][s][a]
    BY <1>3, <1>5, <1>10
  <2>2. QED
    BY <2>1
<1>12. intent.nonce \in Nat /\ vaultConfig[v].lastUsedNonce \in Nat
  BY <1>7 DEF AnyIntent, VaultConfig
<1>13. vaultConfig'[v] # Absent
  <2> DEFINE new == [vaultConfig[v] EXCEPT !.lastUsedNonce = intent.nonce,
                                           !.lastExecutionHeight = height]
  <2>1. height \in Nat
    BY DEF PoolInv, TypeOK, ChainTypeOK
  <2>2. new \in VaultConfig
    BY <1>7, <1>12, <2>1 DEF VaultConfig
  <2> HIDE DEF new, v
  <2>3. vaultConfig'[v] = new
    BY <1>3, <1>8, Zenon DEF new, PoolInv, TypeOK, GuardTypeOK
  <2>4. QED
    BY <2>2, <2>3, ConfigAssumption
<1>14. QED
  BY <1>3, <1>5, <1>9, <1>10, <1>11, <1>12, <1>13 DEF UsesNonce

LEMMA EngineStepUsesNonce ==
  ASSUME PoolInv, EngineStep
  PROVE  \E v \in VaultIds, nonce \in Nat : UsesNonce(v, nonce)
<1>1. PICK p \in Callers["engine"], intent \in Intents, c \in StrategyContracts,
           pulls \in BOOLEAN :
        \E t \in TokensOf(intent.asset) : SubmitRebalanceIntent(p, intent, c, t, pulls)
  BY DEF EngineStep
<1>2. intent \in AnyIntent
  BY IntentsOffered
<1>3. UsesNonce(intent.vault, intent.nonce)
  BY <1>1, <1>2, SubmitUsesNonce
<1>4. QED
  BY <1>2, <1>3 DEF AnyIntent

(* A vault's funds are deployed in exactly the steps that raise its last   *)
(* used nonce and start its cooldown, whatever the owner does to the rest  *)
(* of the configuration and whichever intents are sent again.              *)
THEOREM NoReplay == Spec => NonceDiscipline
<1> DEFINE Disciplined ==
      \A v \in VaultIds : vaultConfig[v] # Absent =>
        IF Deploys(v)
        THEN /\ vaultConfig'[v].lastUsedNonce > vaultConfig[v].lastUsedNonce
             /\ vaultConfig'[v].lastExecutionHeight = height
        ELSE /\ vaultConfig'[v].lastUsedNonce = vaultConfig[v].lastUsedNonce
             /\ vaultConfig'[v].lastExecutionHeight = vaultConfig[v].lastExecutionHeight
<1>1. PoolInv /\ [Next]_vars => Disciplined
  <2> SUFFICES ASSUME PoolInv, [Next]_vars
               PROVE  Disciplined
    OBVIOUS
  <2>1. CASE EngineStep
    <3>1. PICK v \in VaultIds, nonce \in Nat : UsesNonce(v, nonce)
      BY <2>1, EngineStepUsesNonce
    <3>2. QED
      BY <3>1 DEF UsesNonce, Deploys
  <2>2. CASE ~EngineStep
    <3>1. RecordsKept /\ UNCHANGED strategyAllocations
      BY <2>2, NextIsAny, OnlyEngineDeploys
    <3>2. QED
      BY <3>1 DEF RecordsKept, SameRecord, Deploys
  <2>3. QED
    BY <2>1, <2>2
<1>2. QED
  BY <1>1, PoolsInvariant, PTL DEF Spec, NonceDiscipline

-----------------------------------------------------------------------------
(* The mandate. *)

(* What DeploymentsWithinMandate says of one destination. *)
WithinMandate(v, s, a) ==
  LET cfg == vaultConfig[v]
      total == totalBalances'[v][a]
      bps == (strategyAllocations'[v][s][a] * BPS) \div total
  IN /\ strategyAllocations'[v][s][a] > strategyAllocations[v][s][a]
     /\ idleBalances'[v][a] * BPS >= cfg.params.minIdleBps * total
     /\ bps <= cfg.params.maxExposureBps
     /\ bps <= strategies[s].maxAllocationBps
     /\ strategies[s].active
     /\ MainnetChain /\ mainnetExecutionArmed
     /\ ~protocolPaused /\ ~vaults[v].paused
     /\ CooldownOver(cfg)

LEMMA EngineStepWithinMandate ==
  ASSUME PoolInv, EngineStep,
         NEW w \in VaultIds, NEW q \in StrategyIds, NEW b \in Assets,
         strategyAllocations'[w][q][b] # strategyAllocations[w][q][b]
  PROVE  WithinMandate(w, q, b)
<1>1. PICK p \in Callers["engine"], intent \in Intents, c \in StrategyContracts,
           pulls \in BOOLEAN :
        \E t \in TokensOf(intent.asset) : SubmitRebalanceIntent(p, intent, c, t, pulls)
  BY DEF EngineStep
<1>2. PICK t \in TokensOf(intent.asset) : SubmitRebalanceIntent(p, intent, c, t, pulls)
  BY <1>1
<1> DEFINE v == intent.vault
           s == intent.strategy
           a == intent.asset
           n == intent.amount
           cfg == vaultConfig[v]
           idle == idleBalances[v][a]
           total == totalBalances[v][a]
           alloc == strategyAllocations[v][s][a]
<1>3. v \in VaultIds /\ s \in StrategyIds /\ a \in Assets /\ n \in Nat
  BY InputAssumption DEF Intents
<1>4. CheckIntent(intent, CallerIsOwner(p, intent), idle, total, alloc, MaxAllocationBps(s))
  BY <1>2 DEF SubmitRebalanceIntent, Evaluate
<1>5. /\ cfg # Absent
      /\ ~protocolPaused
      /\ CooldownOver(cfg)
      /\ n > 0 /\ n <= idle /\ total > 0
      /\ ((alloc + n) * BPS) \div total <= cfg.params.maxExposureBps
      /\ ((alloc + n) * BPS) \div total <= MaxAllocationBps(s)
      /\ ((idle - n) * BPS) \div total >= cfg.params.minIdleBps
  BY <1>4 DEF CheckIntent, ResultingAllocationBps, ResultingIdleBps
<1>6. /\ s > 0 /\ ~vaults[v].paused
      /\ strategies[s] # Absent
      /\ IsStrategyActive(s)
      /\ MainnetChain /\ mainnetExecutionArmed
      /\ Deploy(v, s, a, n)
  BY <1>2 DEF SubmitRebalanceIntent, Evaluate, TakesAsset, IsStrategyExecutionEnabled,
              ExecuteRebalance
<1>7. strategies[s].active /\ MaxAllocationBps(s) = strategies[s].maxAllocationBps
  BY <1>3, <1>6 DEF IsStrategyActive, MaxAllocationBps, IsIdle
<1>8. /\ idle \in Nat /\ total \in Nat /\ alloc \in Nat
      /\ cfg.params.minIdleBps \in Nat
  <2>1. cfg \in VaultConfig
    BY <1>3, <1>5 DEF PoolInv, TypeOK, GuardTypeOK
  <2>2. cfg.params.minIdleBps \in Nat
    BY <2>1 DEF VaultConfig, RiskParams
  <2>3. idle \in Nat /\ total \in Nat /\ alloc \in Nat
    BY <1>3 DEF PoolInv, TypeOK, VaultTypeOK
  <2>4. QED
    BY <2>2, <2>3
<1>9. /\ idleBalances'[v][a] = idle - n
      /\ totalBalances'[v][a] = total
      /\ strategyAllocations'[v][s][a] = alloc + n
      /\ w = v /\ q = s /\ b = a
  <2> HIDE DEF v, s, a, n
  <2>1. QED
    BY <1>3, <1>6 DEF Deploy, PoolInv, TypeOK, VaultTypeOK
<1>10. (idle - n) * BPS >= cfg.params.minIdleBps * total
  <2> HIDE DEF idle, total, n, cfg
  <2> DEFINE rest == (idle - n) * BPS
  <2>1. rest \in Nat /\ BPS \in Nat
    BY <1>3, <1>5, <1>8 DEF BPS
  <2> HIDE DEF rest
  <2>2. rest \div total \in Nat /\ (rest \div total) * total <= rest
    BY <1>5, <1>8, <2>1, Floor
  <2>a. cfg.params.minIdleBps <= rest \div total
    BY <1>5, <1>8, <2>2 DEF rest
  <2>3. cfg.params.minIdleBps * total <= (rest \div total) * total
    BY <1>8, <2>2, <2>a, Scale
  <2>4. cfg.params.minIdleBps * total \in Nat /\ (rest \div total) * total \in Nat
    BY <1>8, <2>2
  <2>5. rest >= cfg.params.minIdleBps * total
    BY <2>1, <2>2, <2>3, <2>4
  <2>6. QED
    BY <2>5, Zenon DEF rest
<1>11. alloc + n > alloc
  BY <1>3, <1>5, <1>8
<1>12. WithinMandate(v, s, a)
  <2>1. /\ strategyAllocations'[v][s][a] > strategyAllocations[v][s][a]
        /\ idleBalances'[v][a] * BPS
             >= vaultConfig[v].params.minIdleBps * totalBalances'[v][a]
    BY <1>9, <1>10, <1>11
  <2>2. /\ (strategyAllocations'[v][s][a] * BPS) \div totalBalances'[v][a]
             <= vaultConfig[v].params.maxExposureBps
        /\ (strategyAllocations'[v][s][a] * BPS) \div totalBalances'[v][a]
             <= strategies[s].maxAllocationBps
    BY <1>5, <1>7, <1>9
  <2>3. CooldownOver(vaultConfig[v]) /\ ~protocolPaused
    BY <1>5
  <2> HIDE DEF v, s, a
  <2>4. QED
    BY <1>6, <1>7, <2>1, <2>2, <2>3, Zenon DEF WithinMandate
<1>13. QED
  BY <1>9, <1>12

(* Every deployment ends inside the mandate in force when it happens, for  *)
(* pools, caps and reserves of every size: the reserve is kept to the      *)
(* unit and not only to the basis point the contract computes.             *)
THEOREM MandateKept == Spec => DeploymentsWithinMandate
<1> DEFINE Kept ==
      \A v \in VaultIds, s \in StrategyIds, a \in Assets :
        strategyAllocations'[v][s][a] # strategyAllocations[v][s][a] => WithinMandate(v, s, a)
<1>1. PoolInv /\ [Next]_vars => Kept
  <2> SUFFICES ASSUME PoolInv, [Next]_vars
               PROVE  Kept
    OBVIOUS
  <2>1. CASE EngineStep
    BY <2>1, EngineStepWithinMandate
  <2>2. CASE ~EngineStep
    BY <2>2, NextIsAny, OnlyEngineDeploys
  <2>3. QED
    BY <2>1, <2>2
<1>2. QED
  BY <1>1, PoolsInvariant, PTL DEF Spec, DeploymentsWithinMandate, WithinMandate

-----------------------------------------------------------------------------
(* Off mainnet.  Nothing is deployed because the gate is closed, and the   *)
(* gate stays closed because only set-mainnet-execution-armed opens it,    *)
(* which asks for the chain.                                               *)

LEMMA InitGate == Init => GateClosedOffMainnet
  BY ChainAssumption, StrategyAssumption
  DEF Init, GuardInit, VaultInit, GateClosedOffMainnet

(* Deposits and redemptions move the idle and the total balance together. *)
LEMMA PoolStepMovesBoth ==
  ASSUME PoolInv, PoolStep,
         \A v \in VaultIds, a \in Assets : idleBalances[v][a] = totalBalances[v][a]
  PROVE  \A v \in VaultIds, a \in Assets : idleBalances'[v][a] = totalBalances'[v][a]
<1>1. PICK p \in Callers["pools"], v \in VaultIds, n \in Amounts :
        \/ DepositStx(p, v, n)
        \/ RedeemStx(p, v, n)
        \/ \E t \in SbtcTokens : DepositSbtc(p, v, n, t)
        \/ \E t \in SbtcTokens : RedeemSbtc(p, v, n, t)
  BY DEF PoolStep
<1>2. PICK a \in Assets, t \in Tokens : Deposit(p, v, a, t, n) \/ Redeem(p, v, a, t, n)
  BY <1>1 DEF DepositStx, DepositSbtc, RedeemStx, RedeemSbtc, Assets, Tokens
<1>3. /\ idleBalances \in [VaultIds -> [Assets -> Nat]]
      /\ totalBalances \in [VaultIds -> [Assets -> Nat]]
  BY DEF PoolInv, TypeOK, VaultTypeOK
<1>4. CASE Deposit(p, v, a, t, n)
  BY <1>3, <1>4 DEF Deposit
<1>5. CASE Redeem(p, v, a, t, n)
  <2>1. \E payout : PayFromIdle(v, a, payout)
    BY <1>5 DEF Redeem
  <2>2. QED
    BY <1>3, <2>1 DEF PayFromIdle
<1>6. QED
  BY <1>2, <1>4, <1>5

LEMMA StepGate == PoolInv /\ GateClosedOffMainnet /\ [Next]_vars => GateClosedOffMainnet'
<1> SUFFICES ASSUME PoolInv, GateClosedOffMainnet, [Next]_vars, ~MainnetChain
             PROVE  GateClosedOffMainnet'
  BY DEF GateClosedOffMainnet
<1>1. /\ ~mainnetExecutionArmed
      /\ \A v \in VaultIds : vaultConfig[v] # Absent => FreshRecord(vaultConfig[v])
      /\ \A v \in VaultIds, a \in Assets : idleBalances[v][a] = totalBalances[v][a]
      /\ \A v \in VaultIds, s \in StrategyIds, a \in Assets :
           strategyAllocations[v][s][a] = 0
  BY DEF GateClosedOffMainnet, FreshRecord
<1>2. ~EngineStep
  BY DEF EngineStep, SubmitRebalanceIntent, IsStrategyExecutionEnabled
<1>3. RecordsKept /\ UNCHANGED strategyAllocations
  BY <1>2, NextIsAny, OnlyEngineDeploys
<1>4. \A v \in VaultIds : vaultConfig'[v] # Absent => FreshRecord(vaultConfig'[v])
  BY <1>1, <1>3 DEF RecordsKept, SameRecord, FreshRecord
<1>5. /\ ~mainnetExecutionArmed'
      /\ \A v \in VaultIds, a \in Assets : idleBalances'[v][a] = totalBalances'[v][a]
  <2>1. CASE Environment \/ AdminStep \/ AgentRegistryStep \/ StrategyRegistryStep
             \/ UNCHANGED vars
    <3>1. UNCHANGED <<guardVars, vaultVars>>
      BY <2>1 DEF Environment, AdminStep, AgentRegistryStep, StrategyRegistryStep, vars
    <3>2. QED
      BY <1>1, <3>1 DEF guardVars, vaultVars, poolVars
  <2>2. CASE GuardStep
    <3>1. UNCHANGED <<mainnetExecutionArmed, vaultVars>>
      BY <2>2 DEF GuardStep, SetApprovedSbtcAsset, SetProtocolLimits,
                  SetMainnetExecutionArmed
    <3>2. QED
      BY <1>1, <3>1 DEF vaultVars, poolVars
  <2>3. CASE VaultConfigStep
    BY <1>1, <2>3, VaultConfigStepIsAny, VaultConfigStepKeepsRecords DEF poolVars
  <2>4. CASE PoolStep
    <3>1. UNCHANGED guardVars
      BY <2>4 DEF PoolStep, DepositStx, DepositSbtc, RedeemStx, RedeemSbtc, Deposit, Redeem
    <3>2. QED
      BY <1>1, <2>4, <3>1, PoolStepMovesBoth DEF guardVars
  <2>5. QED
    BY <1>2, <2>1, <2>2, <2>3, <2>4 DEF Next
<1>6. QED
  BY <1>1, <1>3, <1>4, <1>5 DEF GateClosedOffMainnet, FreshRecord

(* On a chain that is not mainnet no history of calls, of admins or anyone *)
(* else, arms the gate, deploys a unit or uses a nonce, and every unit of  *)
(* every pool stays redeemable.                                            *)
THEOREM GateStaysClosed == Spec => []GateClosedOffMainnet
<1>1. PoolInv /\ GateClosedOffMainnet /\ [Next]_vars => GateClosedOffMainnet'
  BY StepGate
<1>2. QED
  BY <1>1, InitGate, PoolsInvariant, PTL DEF Spec

-----------------------------------------------------------------------------
(* The registers: vaults and their configurations are created together     *)
(* and densely, strategies keep their entries, and what is allocated has a *)
(* home.  The three are inductive beside PoolInv: an entry is only ever    *)
(* written at the next id, so it is never replaced, and what a deployment  *)
(* relied on stays true of it.                                             *)

BooksInv == ConfigMirrorsVaults /\ StrategiesDense /\ AllocationsHaveAHome

(* What is never written again. *)
SameTerms(e, f) == f.owner = e.owner /\ f.purpose = e.purpose /\ f.assets = e.assets

(* A vault that exists stays, with its owner, its purpose and its assets. *)
VaultsKept ==
  \A v \in VaultIds : vaults[v] # Absent =>
    vaults'[v] # Absent /\ SameTerms(vaults[v], vaults'[v])

(* A strategy that exists stays, with its asset. *)
StrategiesKept ==
  \A s \in StrategyIds : strategies[s] # Absent =>
    strategies'[s] # Absent /\ strategies'[s].asset = strategies[s].asset

LEMMA InitBooks == Init => BooksInv
<1> SUFFICES ASSUME Init
             PROVE  BooksInv
  OBVIOUS
<1>1. ConfigMirrorsVaults
  BY DEF Init, VaultInit, GuardInit, ConfigMirrorsVaults, VaultIds
<1>2. StrategiesDense
  BY DEF Init, StrategyInit, StrategiesDense
<1>3. AllocationsHaveAHome
  BY DEF Init, VaultInit, AllocationsHaveAHome
<1>4. QED
  BY <1>1, <1>2, <1>3 DEF BooksInv

-----------------------------------------------------------------------------
(* Vaults and their configurations. *)

LEMMA CreationKeepsBooks ==
  ASSUME PoolInv, ConfigMirrorsVaults, NEW p \in Principals, NEW name, NEW purpose \in Nat,
         NEW mode \in Nat, NEW open \in BOOLEAN, NEW params \in RiskParams,
         CreateVault(p, name, purpose, mode, open, params)
  PROVE  ConfigMirrorsVaults' /\ VaultsKept
<1> DEFINE new == [owner |-> p, purpose |-> purpose, assets |-> mode,
                   openDeposits |-> open, paused |-> FALSE]
           cfg == [params |-> params, lastUsedNonce |-> 0, lastExecutionHeight |-> 0]
<1>1. /\ vaults' = [vaults EXCEPT ![nextVaultId] = new]
      /\ vaultConfig' = [vaultConfig EXCEPT ![nextVaultId] = cfg]
      /\ nextVaultId' = nextVaultId + 1
      /\ nextVaultId <= MaxVaults
      /\ purpose <= 5 /\ mode >= 1 /\ mode <= 3
  BY DEF CreateVault, InitVaultConfig
<1>2. /\ vaults \in [VaultIds -> Vault \cup {Absent}]
      /\ vaultConfig \in [VaultIds -> VaultConfig \cup {Absent}]
      /\ nextVaultId \in 1 .. (MaxVaults + 1)
      /\ MaxVaults \in Nat
  BY ChainAssumption DEF PoolInv, TypeOK, VaultTypeOK, GuardTypeOK
<1>3. nextVaultId \in VaultIds
  BY <1>1, <1>2 DEF VaultIds
<1>4. new # Absent
  <2>1. new \in Vault
    BY <1>1 DEF Vault
  <2>2. QED
    BY <2>1, VaultAssumption
<1>5. cfg # Absent
  <2>1. cfg \in VaultConfig
    BY DEF VaultConfig
  <2>2. QED
    BY <2>1, ConfigAssumption
<1> HIDE DEF new, cfg
<1>6. /\ vaults'[nextVaultId] = new /\ vaultConfig'[nextVaultId] = cfg
      /\ \A v \in VaultIds : v # nextVaultId =>
           vaults'[v] = vaults[v] /\ vaultConfig'[v] = vaultConfig[v]
  BY <1>1, <1>2, <1>3
<1>7. ASSUME NEW v \in VaultIds
      PROVE  v < nextVaultId' <=> (v < nextVaultId \/ v = nextVaultId)
  BY <1>1, <1>2 DEF VaultIds
<1>8. ConfigMirrorsVaults'
  <2>1. ASSUME NEW v \in VaultIds
        PROVE  /\ vaults'[v] # Absent <=> v < nextVaultId'
               /\ vaultConfig'[v] # Absent <=> v < nextVaultId'
    <3>1. CASE v = nextVaultId
      BY <1>4, <1>5, <1>6, <1>7, <3>1
    <3>2. CASE v # nextVaultId
      BY <1>6, <1>7, <3>2 DEF ConfigMirrorsVaults
    <3>3. QED
      BY <3>1, <3>2
  <2>2. QED
    BY <2>1 DEF ConfigMirrorsVaults
<1>9. vaults[nextVaultId] = Absent
  BY <1>2, <1>3 DEF ConfigMirrorsVaults
<1>10. QED
  BY <1>6, <1>8, <1>9 DEF VaultsKept, SameTerms

LEMMA VaultConfigStepKeepsBooks ==
  ASSUME PoolInv, ConfigMirrorsVaults, AnyVaultConfigStep
  PROVE  ConfigMirrorsVaults' /\ VaultsKept
<1>1. /\ vaults \in [VaultIds -> Vault \cup {Absent}]
      /\ vaultConfig \in [VaultIds -> VaultConfig \cup {Absent}]
  BY DEF PoolInv, TypeOK, VaultTypeOK, GuardTypeOK
<1>2. ASSUME NEW v \in VaultIds, NEW new \in Vault, SameTerms(vaults[v], new),
             vaults[v] # Absent, vaults' = [vaults EXCEPT ![v] = new],
             UNCHANGED <<nextVaultId, vaultConfig>>
      PROVE  ConfigMirrorsVaults' /\ VaultsKept
  <2>1. new # Absent
    BY VaultAssumption
  <2>2. vaults'[v] = new /\ \A w \in VaultIds : w # v => vaults'[w] = vaults[w]
    BY <1>1, <1>2
  <2>3. QED
    BY <1>2, <2>1, <2>2 DEF ConfigMirrorsVaults, VaultsKept, SameTerms
<1>3. ASSUME NEW v \in VaultIds, NEW new \in VaultConfig, vaultConfig[v] # Absent,
             vaultConfig' = [vaultConfig EXCEPT ![v] = new],
             UNCHANGED <<nextVaultId, vaults>>
      PROVE  ConfigMirrorsVaults' /\ VaultsKept
  <2>1. new # Absent
    BY ConfigAssumption
  <2>2. vaultConfig'[v] = new /\ \A w \in VaultIds : w # v => vaultConfig'[w] = vaultConfig[w]
    BY <1>1, <1>3
  <2>3. QED
    BY <1>3, <2>1, <2>2 DEF ConfigMirrorsVaults, VaultsKept, SameTerms
<1>4. ASSUME NEW p, NEW v \in VaultIds, NEW name, NEW open \in BOOLEAN,
             SetVaultConfig(p, v, name, open)
      PROVE  ConfigMirrorsVaults' /\ VaultsKept
  <2>1. vaults[v] \in Vault /\ vaults[v] # Absent
    BY <1>1, <1>4 DEF SetVaultConfig, IsOwner
  <2>2. vaults' = [vaults EXCEPT ![v] = [vaults[v] EXCEPT !.openDeposits = open]]
    BY <1>4 DEF SetVaultConfig
  <2>3. /\ [vaults[v] EXCEPT !.openDeposits = open] \in Vault
        /\ SameTerms(vaults[v], [vaults[v] EXCEPT !.openDeposits = open])
    BY <2>1 DEF Vault, SameTerms
  <2>4. UNCHANGED <<nextVaultId, vaultConfig>>
    BY <1>4 DEF SetVaultConfig, guardVars
  <2>5. QED
    BY <1>2, <2>1, <2>2, <2>3, <2>4
<1>5. ASSUME NEW p, NEW v \in VaultIds, NEW paused \in BOOLEAN, SetPaused(p, v, paused)
      PROVE  ConfigMirrorsVaults' /\ VaultsKept
  <2>1. vaults[v] \in Vault /\ vaults[v] # Absent
    BY <1>1, <1>5 DEF SetPaused, IsOwner
  <2>2. vaults' = [vaults EXCEPT ![v] = [vaults[v] EXCEPT !.paused = paused]]
    BY <1>5 DEF SetPaused
  <2>3. /\ [vaults[v] EXCEPT !.paused = paused] \in Vault
        /\ SameTerms(vaults[v], [vaults[v] EXCEPT !.paused = paused])
    BY <2>1 DEF Vault, SameTerms
  <2>4. UNCHANGED <<nextVaultId, vaultConfig>>
    BY <1>5 DEF SetPaused, guardVars
  <2>5. QED
    BY <1>2, <2>1, <2>2, <2>3, <2>4
<1>6. ASSUME NEW p, NEW v \in VaultIds, NEW params \in RiskParams, SetRiskConfig(p, v, params)
      PROVE  ConfigMirrorsVaults' /\ VaultsKept
  <2>1. vaultConfig[v] \in VaultConfig /\ vaultConfig[v] # Absent
    BY <1>1, <1>6 DEF SetRiskConfig, SetVaultRiskConfig
  <2>2. vaultConfig' = [vaultConfig EXCEPT ![v] = [vaultConfig[v] EXCEPT !.params = params]]
    BY <1>6 DEF SetRiskConfig, SetVaultRiskConfig
  <2>3. [vaultConfig[v] EXCEPT !.params = params] \in VaultConfig
    BY <2>1 DEF VaultConfig
  <2>4. UNCHANGED <<nextVaultId, vaults>>
    BY <1>6 DEF SetRiskConfig, vaultVars
  <2>5. QED
    BY <1>3, <2>1, <2>2, <2>3, <2>4
<1>7. ASSUME NEW p, NEW v \in VaultIds, NEW enabled \in BOOLEAN,
             SetAutonomousMode(p, v, enabled)
      PROVE  ConfigMirrorsVaults' /\ VaultsKept
  <2> DEFINE new == [vaultConfig[v] EXCEPT !.params.autonomousEnabled = enabled]
  <2>1. vaultConfig[v] \in VaultConfig /\ vaultConfig[v] # Absent
    BY <1>1, <1>7 DEF SetAutonomousMode, SetAutonomousEnabled
  <2>2. vaultConfig' = [vaultConfig EXCEPT ![v] = new]
    BY <1>7 DEF SetAutonomousMode, SetAutonomousEnabled
  <2>3. new \in VaultConfig
    BY <2>1 DEF VaultConfig, RiskParams
  <2>4. UNCHANGED <<nextVaultId, vaults>>
    BY <1>7 DEF SetAutonomousMode, vaultVars
  <2> HIDE DEF new
  <2>5. QED
    BY <1>3, <2>1, <2>2, <2>3, <2>4
<1>8. QED
  BY <1>4, <1>5, <1>6, <1>7, CreationKeepsBooks DEF AnyVaultConfigStep, PauseVault, UnpauseVault

-----------------------------------------------------------------------------
(* Strategies. *)

LEMMA StrategyRegistryStepKeepsBooks ==
  ASSUME PoolInv, StrategiesDense, StrategyRegistryStep
  PROVE  StrategiesDense' /\ StrategiesKept
<1>1. /\ strategies \in [StrategyIds -> Strategy \cup {Absent}]
      /\ nextStrategyId \in 1 .. (MaxStrategies + 1)
      /\ MaxStrategies \in Nat
  BY StrategyAssumption DEF PoolInv, TypeOK, StrategyTypeOK
<1>2. ASSUME NEW p, NEW c, NEW a, NEW cap, RegisterStrategy(p, c, a, cap)
      PROVE  StrategiesDense' /\ StrategiesKept
  <2> DEFINE new == [contract |-> c, asset |-> a, active |-> FALSE, maxAllocationBps |-> cap]
  <2>1. /\ strategies' = [strategies EXCEPT ![nextStrategyId] = new]
        /\ nextStrategyId' = nextStrategyId + 1
        /\ nextStrategyId <= MaxStrategies
    BY <1>2 DEF RegisterStrategy
  <2> HIDE DEF new
  <2>2. \A s \in StrategyIds : s # nextStrategyId => strategies'[s] = strategies[s]
    BY <1>1, <2>1
  <2>3. nextStrategyId \in StrategyIds
    BY <1>1, <2>1 DEF StrategyIds
  <2>4. strategies[nextStrategyId] = Absent
    BY <1>1, <2>3 DEF StrategiesDense
  <2>5. \A s \in StrategyIds : s < nextStrategyId \/ s = nextStrategyId => s < nextStrategyId'
    BY <1>1, <2>1 DEF StrategyIds
  <2>6. QED
    BY <2>2, <2>4, <2>5 DEF StrategiesDense, StrategiesKept
<1>3. ASSUME NEW p, NEW s \in StrategyIds, NEW active \in BOOLEAN, SetActive(p, s, active)
      PROVE  StrategiesDense' /\ StrategiesKept
  <2> DEFINE new == [strategies[s] EXCEPT !.active = active]
  <2>1. /\ strategies[s] # Absent /\ strategies[s] \in Strategy
        /\ strategies' = [strategies EXCEPT ![s] = new]
        /\ nextStrategyId' = nextStrategyId
    BY <1>1, <1>3 DEF SetActive
  <2>2. new \in Strategy /\ new.asset = strategies[s].asset
    BY <2>1 DEF Strategy
  <2> HIDE DEF new
  <2>3. new # Absent
    BY <2>2, StrategyAssumption
  <2>4. strategies'[s] = new /\ \A q \in StrategyIds : q # s => strategies'[q] = strategies[q]
    BY <1>1, <2>1
  <2>5. QED
    BY <2>1, <2>2, <2>3, <2>4 DEF StrategiesDense, StrategiesKept
<1>4. QED
  BY <1>2, <1>3 DEF StrategyRegistryStep, ActivateStrategy, DeactivateStrategy

-----------------------------------------------------------------------------
(* Allocations. *)

(* The registers, the last nonces and the allocations stay: so do homes.   *)
LEMMA HomesKept ==
  ASSUME PoolInv, AllocationsHaveAHome, VaultsKept, StrategiesKept, RecordsKept,
         UNCHANGED strategyAllocations
  PROVE  AllocationsHaveAHome'
<1> SUFFICES ASSUME NEW v \in VaultIds, NEW s \in StrategyIds, NEW a \in Assets,
                    strategyAllocations'[v][s][a] > 0
             PROVE  /\ strategies'[s] # Absent
                    /\ strategies'[s].asset = a
                    /\ SupportsAsset(v, a)'
                    /\ vaultConfig'[v] # Absent
                    /\ vaultConfig'[v].lastUsedNonce > 0
  BY DEF AllocationsHaveAHome
<1>1. /\ strategies[s] # Absent
      /\ strategies[s].asset = a
      /\ SupportsAsset(v, a)
      /\ vaultConfig[v] # Absent
      /\ vaultConfig[v].lastUsedNonce > 0
  BY DEF AllocationsHaveAHome
<1>2. SupportsAsset(v, a)'
  BY <1>1 DEF VaultsKept, SameTerms, SupportsAsset, AssetInMode
<1>3. vaultConfig'[v] # Absent /\ vaultConfig'[v].lastUsedNonce > 0
  BY <1>1 DEF RecordsKept, SameRecord
<1>4. QED
  BY <1>1, <1>2, <1>3 DEF StrategiesKept

(* The engine deploys to a registered strategy of the intent's asset, for  *)
(* a vault that supports it, and uses a nonce.                             *)
LEMMA DeploymentHasAHome ==
  ASSUME PoolInv, AllocationsHaveAHome, NEW p, NEW intent \in AnyIntent, NEW c, NEW pulls, NEW t,
         SubmitRebalanceIntent(p, intent, c, t, pulls), UNCHANGED strategyVars
  PROVE  AllocationsHaveAHome'
<1> DEFINE v == intent.vault
           s == intent.strategy
           a == intent.asset
           n == intent.amount
<1>1. /\ SupportsAsset(v, a) /\ TakesAsset(s, a)
      /\ Deploy(v, s, a, n) /\ UNCHANGED vaults
  BY DEF SubmitRebalanceIntent, Evaluate, ExecuteRebalance
<1>2. v \in VaultIds /\ s \in StrategyIds /\ a \in Assets /\ intent.nonce \in Nat
  BY DEF AnyIntent
<1>3. UsesNonce(v, intent.nonce)
  BY SubmitUsesNonce
<1> HIDE DEF v, s, a, n
<1>4. vaultConfig[v].lastUsedNonce \in Nat
  <2>1. vaultConfig[v] \in VaultConfig
    BY <1>2, <1>3 DEF UsesNonce, PoolInv, TypeOK, GuardTypeOK
  <2>2. QED
    BY <2>1 DEF VaultConfig
<1>5. vaultConfig'[v] # Absent /\ vaultConfig'[v].lastUsedNonce > 0
  BY <1>2, <1>3, <1>4 DEF UsesNonce
<1>6. ASSUME NEW w \in VaultIds, NEW q \in StrategyIds, NEW b \in Assets,
             ~(w = v /\ q = s /\ b = a)
      PROVE  strategyAllocations'[w][q][b] = strategyAllocations[w][q][b]
  BY <1>1, <1>2, <1>6 DEF Deploy, PoolInv, TypeOK, VaultTypeOK
<1>7. ASSUME NEW w \in VaultIds, NEW q \in StrategyIds, NEW b \in Assets,
             strategyAllocations'[w][q][b] > 0
      PROVE  /\ strategies'[q] # Absent
             /\ strategies'[q].asset = b
             /\ SupportsAsset(w, b)'
             /\ vaultConfig'[w] # Absent
             /\ vaultConfig'[w].lastUsedNonce > 0
  <2>1. UNCHANGED strategies /\ SupportsAsset(w, b)' = SupportsAsset(w, b)
    BY <1>1 DEF strategyVars, SupportsAsset
  <2>2. CASE w = v /\ q = s /\ b = a
    BY <1>1, <1>5, <2>1, <2>2 DEF TakesAsset
  <2>3. CASE ~(w = v /\ q = s /\ b = a)
    <3>1. /\ strategies[q] # Absent /\ strategies[q].asset = b /\ SupportsAsset(w, b)
          /\ vaultConfig[w] # Absent /\ vaultConfig[w].lastUsedNonce > 0
      BY <1>6, <1>7, <2>3 DEF AllocationsHaveAHome
    <3>2. vaultConfig'[w] # Absent /\ vaultConfig'[w].lastUsedNonce > 0
      BY <1>3, <1>5, <3>1 DEF UsesNonce
    <3>3. QED
      BY <2>1, <3>1, <3>2
  <2>4. QED
    BY <2>2, <2>3
<1>8. QED
  BY <1>7 DEF AllocationsHaveAHome

LEMMA SubmitMirrors ==
  ASSUME PoolInv, ConfigMirrorsVaults, NEW p, NEW intent \in AnyIntent, NEW c, NEW pulls, NEW t,
         SubmitRebalanceIntent(p, intent, c, t, pulls)
  PROVE  ConfigMirrorsVaults'
<1>1. UsesNonce(intent.vault, intent.nonce)
  BY SubmitUsesNonce
<1>2. UNCHANGED <<vaults, nextVaultId>>
  BY DEF SubmitRebalanceIntent, ExecuteRebalance
<1>3. ASSUME NEW w \in VaultIds
      PROVE  vaultConfig'[w] # Absent <=> vaultConfig[w] # Absent
  BY <1>1 DEF UsesNonce
<1>4. QED
  BY <1>2, <1>3 DEF ConfigMirrorsVaults

LEMMA AnyStepVaults ==
  ASSUME PoolInv, ConfigMirrorsVaults, [AnyNext]_vars
  PROVE  VaultsKept /\ (~EngineStep => ConfigMirrorsVaults')
<1>1. CASE VaultConfigStep \/ AnyVaultConfigStep
  BY <1>1, VaultConfigStepIsAny, VaultConfigStepKeepsBooks
<1>2. CASE ~(VaultConfigStep \/ AnyVaultConfigStep)
  <2>1. UNCHANGED vaults /\ (~EngineStep => UNCHANGED <<nextVaultId, vaultConfig>>)
    <3>1. CASE PoolStep \/ AnyPoolStep
      BY <3>1, PoolStepIsAny, PoolStepLeaves DEF guardVars
    <3>2. CASE GuardStep
      BY <3>2 DEF GuardStep, SetApprovedSbtcAsset, SetProtocolLimits,
                  SetMainnetExecutionArmed, vaultVars
    <3>3. CASE Environment \/ AdminStep \/ AgentRegistryStep \/ StrategyRegistryStep
               \/ UNCHANGED vars
      <4>1. UNCHANGED <<guardVars, vaultVars>>
        BY <3>3 DEF Environment, AdminStep, AgentRegistryStep, StrategyRegistryStep, vars
      <4>2. QED
        BY <4>1 DEF guardVars, vaultVars
    <3>4. CASE EngineStep
      BY <3>4 DEF EngineStep, SubmitRebalanceIntent, ExecuteRebalance
    <3>5. QED
      BY <1>2, <3>1, <3>2, <3>3, <3>4 DEF Next, AnyNext
  <2>2. QED
    BY <2>1 DEF ConfigMirrorsVaults, VaultsKept, SameTerms
<1>3. QED
  BY <1>1, <1>2

LEMMA AnyStepBooks == PoolInv /\ BooksInv /\ [AnyNext]_vars => BooksInv'
<1> SUFFICES ASSUME PoolInv, BooksInv, [AnyNext]_vars
             PROVE  BooksInv'
  OBVIOUS
<1>1. ConfigMirrorsVaults /\ StrategiesDense /\ AllocationsHaveAHome
  BY DEF BooksInv
<1>2. CASE EngineStep
  <2>1. PICK p \in Callers["engine"], intent \in Intents, c \in StrategyContracts,
             pulls \in BOOLEAN :
          \E t \in TokensOf(intent.asset) : SubmitRebalanceIntent(p, intent, c, t, pulls)
    BY <1>2 DEF EngineStep
  <2>2. PICK t \in TokensOf(intent.asset) : SubmitRebalanceIntent(p, intent, c, t, pulls)
    BY <2>1
  <2>3. intent \in AnyIntent
    BY IntentsOffered
  <2>4. UNCHANGED strategyVars
    BY <1>2 DEF EngineStep
  <2>5. AllocationsHaveAHome' /\ ConfigMirrorsVaults'
    BY <1>1, <2>2, <2>3, <2>4, DeploymentHasAHome, SubmitMirrors
  <2>6. StrategiesDense'
    BY <1>1, <2>4 DEF StrategiesDense, strategyVars
  <2>7. QED
    BY <2>5, <2>6 DEF BooksInv
<1>3. CASE ~EngineStep
  <2>1. RecordsKept /\ UNCHANGED strategyAllocations
    BY <1>3, OnlyEngineDeploys
  <2>2. ConfigMirrorsVaults' /\ VaultsKept
    BY <1>1, <1>3, AnyStepVaults
  <2>3. StrategiesDense' /\ StrategiesKept
    <3>1. CASE StrategyRegistryStep
      BY <1>1, <3>1, StrategyRegistryStepKeepsBooks
    <3>2. CASE ~StrategyRegistryStep
      <4>1. UNCHANGED strategyVars
        BY <1>3, <3>2 DEF AnyNext, Next, Environment, AdminStep, AgentRegistryStep, GuardStep,
                          VaultConfigStep, AnyVaultConfigStep, PoolStep, AnyPoolStep, vars
      <4>2. QED
        BY <1>1, <4>1 DEF StrategiesDense, StrategiesKept, strategyVars
    <3>3. QED
      BY <3>1, <3>2
  <2>4. AllocationsHaveAHome'
    BY <1>1, <2>1, <2>2, <2>3, HomesKept
  <2>5. QED
    BY <2>2, <2>3, <2>4 DEF BooksInv
<1>4. QED
  BY <1>2, <1>3

LEMMA StepBooks == PoolInv /\ BooksInv /\ [Next]_vars => BooksInv'
  BY AnyStepBooks, NextIsAny

LEMMA BooksInvariant == Spec => []BooksInv
<1>1. PoolInv /\ BooksInv /\ [Next]_vars => BooksInv'
  BY StepBooks
<1>2. QED
  BY <1>1, InitBooks, PoolsInvariant, PTL DEF Spec

(* Ids are dense from 1, and a vault has a risk configuration from the     *)
(* moment it exists: no call finds one without the other                   *)
(* (sovereignty-vault-v7.clar, create-vault, and risk-guard-v7.clar,       *)
(* init-vault-config), whichever calls fail.                               *)
THEOREM VaultsHaveConfigs == Spec => []ConfigMirrorsVaults
<1>1. BooksInv => ConfigMirrorsVaults
  BY DEF BooksInv
<1>2. QED
  BY <1>1, BooksInvariant, PTL

(* Whatever is allocated is with a registered strategy of that asset, for  *)
(* a vault that supports the asset and has executed an intent, however     *)
(* the registry, the vaults and their configurations changed since.        *)
THEOREM AllocatedHasAHome == Spec => []AllocationsHaveAHome
<1>1. BooksInv => AllocationsHaveAHome
  BY DEF BooksInv
<1>2. QED
  BY <1>1, BooksInvariant, PTL

-----------------------------------------------------------------------------
(* Consent. *)

(* No call but submit-rebalance-intent moves a unit to a strategy or back, *)
(* and of the wallets that make it only those who may, when they make it:  *)
(* neither the admin, nor an executor revoked or switched off, nor a call  *)
(* of any other contract function touches an allocation.                   *)
THEOREM DeployersMay ==
  Spec => [][\A v \in VaultIds : Deploys(v) =>
               \E p \in Callers["engine"], intent \in Intents, c \in StrategyContracts,
                  pulls \in BOOLEAN :
                 /\ intent.vault = v
                 /\ \E t \in TokensOf(intent.asset) :
                      SubmitRebalanceIntent(p, intent, c, t, pulls)
                 /\ MayDeploy(p, v)]_vars
<1> DEFINE Sent(v, p, intent, c, pulls) ==
             /\ intent.vault = v
             /\ \E t \in TokensOf(intent.asset) : SubmitRebalanceIntent(p, intent, c, t, pulls)
             /\ MayDeploy(p, v)
           Allowed ==
             \A v \in VaultIds : Deploys(v) =>
               \E p \in Callers["engine"], intent \in Intents, c \in StrategyContracts,
                  pulls \in BOOLEAN : Sent(v, p, intent, c, pulls)
<1>1. PoolInv /\ [Next]_vars => Allowed
  <2> SUFFICES ASSUME PoolInv, [Next]_vars, NEW v \in VaultIds, Deploys(v)
               PROVE  \E p \in Callers["engine"], intent \in Intents, c \in StrategyContracts,
                         pulls \in BOOLEAN : Sent(v, p, intent, c, pulls)
    OBVIOUS
  <2>1. EngineStep
    BY NextIsAny, OnlyEngineDeploys DEF Deploys
  <2>2. PICK p \in Callers["engine"], intent \in Intents, c \in StrategyContracts,
             pulls \in BOOLEAN :
          \E t \in TokensOf(intent.asset) : SubmitRebalanceIntent(p, intent, c, t, pulls)
    BY <2>1 DEF EngineStep
  <2>3. PICK t \in TokensOf(intent.asset) : SubmitRebalanceIntent(p, intent, c, t, pulls)
    BY <2>2
  <2>4. UsesNonce(intent.vault, intent.nonce)
    BY <2>3, SubmitUsesNonce, IntentsOffered
  <2>5. intent.vault = v
    BY <2>4 DEF UsesNonce, Deploys
  <2>6. MayDeploy(p, intent.vault)
    BY <2>3 DEF SubmitRebalanceIntent, Evaluate, CheckIntent, IsAuthorizedExecutor,
                CallerIsOwner, MayDeploy
  <2>7. Sent(v, p, intent, c, pulls)
    BY <2>3, <2>5, <2>6
  <2>8. QED
    BY <2>7
<1>2. QED
  BY <1>1, PoolsInvariant, PTL DEF Spec, MayDeploy

(* As long as nobody who calls the engine is the owner or an executor with *)
(* both consents, nothing is deployed, whatever anybody else calls: for    *)
(* Callers["engine"] = {p} it is what p alone can do, at every moment of   *)
(* any history of registrations, revocations and switches.                 *)
THEOREM ConsentInForce == Spec => DeploymentsNeedConsent
<1> DEFINE Submitted ==
             \A v \in VaultIds : Deploys(v) =>
               \E p \in Callers["engine"], intent \in Intents, c \in StrategyContracts,
                  pulls \in BOOLEAN :
                 /\ intent.vault = v
                 /\ \E t \in TokensOf(intent.asset) :
                      SubmitRebalanceIntent(p, intent, c, t, pulls)
                 /\ MayDeploy(p, v)
           Consented ==
             \A v \in VaultIds : Deploys(v) => \E p \in Callers["engine"] : MayDeploy(p, v)
<1>1. [Submitted]_vars => [Consented]_vars
  OBVIOUS
<1>2. QED
  BY <1>1, DeployersMay, PTL DEF DeploymentsNeedConsent
=============================================================================
