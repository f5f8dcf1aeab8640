-------------------------- MODULE SovereigntyVault --------------------------
(***************************************************************************)
(* contracts/sovereignty-vault-v7.clar: the vaults, the pool of each vault *)
(* and asset, deposits and redemptions against receipt shares, and the     *)
(* movement of idle funds into a strategy.  Each action is one public      *)
(* function with everything it calls; what it leaves alone in the other    *)
(* contracts is said where the actions are composed.                       *)
(***************************************************************************)
EXTENDS RiskGuard, StrategyRegistry, ReceiptToken, SharePricing, Sequences

CONSTANT MinInitialDeposit   \* MinInitialDeposit[a]: least first deposit of asset a

ASSUME MinInitialDepositAssumption == MinInitialDeposit \in [Assets -> Nat]

Vault == [owner: Principals, purpose: 0 .. 5, assets: 1 .. 3,
          openDeposits: BOOLEAN, paused: BOOLEAN]

ASSUME VaultAssumption == Absent \notin Vault

VARIABLES
  nextVaultId,
  vaults,               \* vaults[v]: the entry of vault v, or Absent
  ownerVaults,          \* ownerVaults[p]: owner-vaults and its count, as a sequence
  holderVaults,         \* holderVaults[p]: holder-vaults and its count, as a sequence
  holderRegistered,     \* holderRegistered[p]: the vaults p is registered with
  idleBalances,         \* idleBalances[v][a]: units redeemable now
  totalBalances,        \* totalBalances[v][a]: idle and deployed units
  strategyAllocations   \* strategyAllocations[v][s][a]: units deployed, at cost

indexVars == <<holderVaults, holderRegistered>>
poolVars == <<idleBalances, totalBalances, strategyAllocations>>
vaultVars == <<nextVaultId, vaults, ownerVaults, indexVars, poolVars>>

VaultTypeOK ==
  /\ nextVaultId \in 1 .. (MaxVaults + 1)
  /\ vaults \in [VaultIds -> Vault \cup {Absent}]
  /\ ownerVaults \in [Principals -> Seq(VaultIds)]
  /\ holderVaults \in [Principals -> Seq(VaultIds)]
  /\ holderRegistered \in [Principals -> SUBSET VaultIds]
  /\ idleBalances \in [VaultIds -> [Assets -> Nat]]
  /\ totalBalances \in [VaultIds -> [Assets -> Nat]]
  /\ strategyAllocations \in [VaultIds -> [StrategyIds -> [Assets -> Nat]]]

VaultInit ==
  /\ nextVaultId = 1
  /\ vaults = [v \in VaultIds |-> Absent]
  /\ ownerVaults = [p \in Principals |-> <<>>]
  /\ holderVaults = [p \in Principals |-> <<>>]
  /\ holderRegistered = [p \in Principals |-> {}]
  /\ idleBalances = [v \in VaultIds |-> [a \in Assets |-> 0]]
  /\ totalBalances = [v \in VaultIds |-> [a \in Assets |-> 0]]
  /\ strategyAllocations = [v \in VaultIds |-> [s \in StrategyIds |-> [a \in Assets |-> 0]]]

AssetInMode(mode, a) ==
  \/ a = "STX" /\ mode \in {1, 3}
  \/ a = "SBTC" /\ mode \in {2, 3}

SupportsAsset(v, a) == vaults[v] # Absent /\ AssetInMode(vaults[v].assets, a)

IsVaultPaused(v) == vaults[v] # Absent /\ vaults[v].paused

(* Fault: holder-registered is not consulted. *)
RegisterHolderAgain(holder, v) ==
  /\ holderRegistered' = [holderRegistered EXCEPT ![holder] = @ \cup {v}]
  /\ holderVaults' = [holderVaults EXCEPT ![holder] = Append(@, v)]

RegisterHolder(holder, v) ==
  IF v \in holderRegistered[holder]
  THEN UNCHANGED indexVars
  ELSE /\ holderRegistered' = [holderRegistered EXCEPT ![holder] = @ \cup {v}]
       /\ holderVaults' = [holderVaults EXCEPT ![holder] = Append(@, v)]

-----------------------------------------------------------------------------
(* Vault lifecycle. *)

CreateVault(sender, name, purpose, assets, openDeposits, params) ==
  /\ nextVaultId <= MaxVaults
  /\ ~protocolPaused
  /\ name # ""
  /\ purpose <= 5
  /\ assets >= 1 /\ assets <= 3
  /\ vaults' = [vaults EXCEPT ![nextVaultId] =
                  [owner |-> sender, purpose |-> purpose, assets |-> assets,
                   openDeposits |-> openDeposits, paused |-> FALSE]]
  /\ ownerVaults' = [ownerVaults EXCEPT ![sender] = Append(@, nextVaultId)]
  /\ nextVaultId' = nextVaultId + 1
  /\ InitVaultConfig(nextVaultId, params)
  /\ UNCHANGED <<indexVars, poolVars>>

IsOwner(sender, v) == vaults[v] # Absent /\ vaults[v].owner = sender

SetVaultConfig(sender, v, name, openDeposits) ==
  /\ IsOwner(sender, v)
  /\ name # ""
  /\ vaults' = [vaults EXCEPT ![v].openDeposits = openDeposits]
  /\ UNCHANGED <<nextVaultId, ownerVaults, indexVars, poolVars, guardVars>>

SetRiskConfig(sender, v, params) ==
  /\ IsOwner(sender, v)
  /\ SetVaultRiskConfig(v, params)
  /\ UNCHANGED vaultVars

SetAutonomousMode(sender, v, enabled) ==
  /\ IsOwner(sender, v)
  /\ SetAutonomousEnabled(v, enabled)
  /\ UNCHANGED vaultVars

SetPaused(sender, v, paused) ==
  /\ IsOwner(sender, v)
  /\ vaults[v].paused # paused
  /\ vaults' = [vaults EXCEPT ![v].paused = paused]
  /\ UNCHANGED <<nextVaultId, ownerVaults, indexVars, poolVars, guardVars>>

PauseVault(sender, v) == SetPaused(sender, v, TRUE)

UnpauseVault(sender, v) == SetPaused(sender, v, FALSE)

-----------------------------------------------------------------------------
(* Deposits: transfer, then pool accounting, then the mint of shares.      *)
(* deposit-stx and deposit-sbtc differ in the asset and the token only.    *)

Deposit(depositor, v, a, token, amount) ==
  /\ vaults[v] # Absent
  /\ DepositAccepted(supplies[v][a], totalBalances[v][a], amount, MinInitialDeposit[a])
  /\ AssetInMode(vaults[v].assets, a)
  /\ ~protocolPaused
  /\ ~vaults[v].paused
  /\ depositor = vaults[v].owner \/ vaults[v].openDeposits
  /\ Transfer(token, depositor, VAULT, amount)
  /\ idleBalances' = [idleBalances EXCEPT ![v][a] = @ + amount]
  /\ totalBalances' = [totalBalances EXCEPT ![v][a] = @ + amount]
  /\ Mint(v, a, DepositShares(supplies[v][a], totalBalances[v][a], amount), depositor)
  /\ RegisterHolder(depositor, v)
  /\ UNCHANGED <<nextVaultId, vaults, ownerVaults, strategyAllocations, guardVars>>

DepositStx(depositor, v, amount) == Deposit(depositor, v, "STX", "STX", amount)

DepositSbtc(depositor, v, amount, token) ==
  /\ approvedSbtc # Absent
  /\ token = approvedSbtc
  /\ Deposit(depositor, v, "SBTC", token, amount)

-----------------------------------------------------------------------------
(* Redemption: the burn of the sender's own shares, the proportional       *)
(* payout, never gated by a pause.                                         *)

(* Fault: the last idle unit can not be redeemed. *)
PayFromIdleStrictly(v, a, payout) ==
  /\ payout < idleBalances[v][a]
  /\ idleBalances' = [idleBalances EXCEPT ![v][a] = @ - payout]
  /\ totalBalances' = [totalBalances EXCEPT ![v][a] = @ - payout]

(* Fault: ERR-INSUFFICIENT-IDLE-BALANCE is not asserted. *)
PayFromTotal(v, a, payout) ==
  /\ idleBalances' = [idleBalances EXCEPT ![v][a] = @ - payout]
  /\ totalBalances' = [totalBalances EXCEPT ![v][a] = @ - payout]

(* Fault: the idle balance is not written back. *)
PayKeepingIdle(v, a, payout) ==
  /\ payout <= idleBalances[v][a]
  /\ totalBalances' = [totalBalances EXCEPT ![v][a] = @ - payout]
  /\ UNCHANGED idleBalances

PayFromIdle(v, a, payout) ==
  /\ payout <= idleBalances[v][a]
  /\ idleBalances' = [idleBalances EXCEPT ![v][a] = @ - payout]
  /\ totalBalances' = [totalBalances EXCEPT ![v][a] = @ - payout]

Redeem(holder, v, a, token, shares) ==
  LET payout == RedeemAssets(shares, supplies[v][a], totalBalances[v][a]) IN
  /\ vaults[v] # Absent
  /\ RedeemAccepted(shares, supplies[v][a], totalBalances[v][a])
  /\ AssetInMode(vaults[v].assets, a)
  /\ shares <= balances[v][a][holder]
  /\ Burn(v, a, shares, holder)
  /\ PayFromIdle(v, a, payout)
  /\ Transfer(token, VAULT, holder, payout)
  /\ UNCHANGED <<nextVaultId, vaults, ownerVaults, indexVars, strategyAllocations, guardVars>>

RedeemStx(holder, v, shares) == Redeem(holder, v, "STX", "STX", shares)

RedeemSbtc(holder, v, shares, token) ==
  /\ approvedSbtc # Absent
  /\ token = approvedSbtc
  /\ Redeem(holder, v, "SBTC", token, shares)

-----------------------------------------------------------------------------
(* Strategy allocation, called by the execution engine alone.              *)

(* strategy-trait's deposit, an external contract: it pulls the amount     *)
(* from the calling vault in a token of the strategy's asset, or, like the *)
(* test fixture mock-strategy.clar, answers ok and pulls nothing.          *)
StrategyDeposit(contract, token, amount, pulls) ==
  IF pulls THEN Transfer(token, VAULT, contract, amount) ELSE UNCHANGED holdings

(* Fault: the deployed units leave the pool's total. *)
DeployDebitingTotal(v, s, a, amount) ==
  /\ idleBalances[v][a] >= amount
  /\ idleBalances' = [idleBalances EXCEPT ![v][a] = @ - amount]
  /\ totalBalances' = [totalBalances EXCEPT ![v][a] = @ - amount]
  /\ strategyAllocations' = [strategyAllocations EXCEPT ![v][s][a] = @ + amount]

(* Fault: the last idle unit can not be deployed. *)
DeployStrictly(v, s, a, amount) ==
  /\ idleBalances[v][a] > amount
  /\ idleBalances' = [idleBalances EXCEPT ![v][a] = @ - amount]
  /\ strategyAllocations' = [strategyAllocations EXCEPT ![v][s][a] = @ + amount]
  /\ UNCHANGED totalBalances

Deploy(v, s, a, amount) ==
  /\ idleBalances[v][a] >= amount
  /\ idleBalances' = [idleBalances EXCEPT ![v][a] = @ - amount]
  /\ strategyAllocations' = [strategyAllocations EXCEPT ![v][s][a] = @ + amount]
  /\ UNCHANGED totalBalances

ExecuteRebalance(v, s, a, amount, contract, token, pulls) ==
  /\ IsStrategyExecutionEnabled
  /\ a \in Assets
  /\ vaults[v] # Absent
  /\ ~IsVaultPaused(v)
  /\ strategies[s] # Absent
  /\ strategies[s].contract = contract
  /\ StrategyDeposit(contract, token, amount, pulls)
  /\ Deploy(v, s, a, amount)
  /\ UNCHANGED <<nextVaultId, vaults, ownerVaults, indexVars>>
=============================================================================
