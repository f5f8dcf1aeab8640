------------------------- MODULE ProtocolProperties -------------------------
(***************************************************************************)
(* What the on-chain protocol promises, stated over its public state.      *)
(***************************************************************************)
EXTENDS SovereigntyProtocol, Functions

-----------------------------------------------------------------------------
(* Accounting of the pools. *)

(* One share is one unit, always: a pool's total assets (idle and deployed *)
(* at cost) equal its share supply.  Deposits and redemptions go through a *)
(* price of total/supply, but strategy allocation changes neither and no   *)
(* donation is counted, so no rounding ever happens and the code's         *)
(* ERR-VAULT-INSOLVENT, ERR-ZERO-SHARES and ERR-ZERO-REDEMPTION are never  *)
(* the reason of a failure.                                                *)
PoolParity ==
  \A v \in VaultIds, a \in Assets : totalBalances[v][a] = supplies[v][a]

PoolSplit ==
  \A v \in VaultIds, a \in Assets :
    totalBalances[v][a] = idleBalances[v][a]
                          + SumFunction([s \in StrategyIds |-> strategyAllocations[v][s][a]])

SharesSumToSupply ==
  \A v \in VaultIds, a \in Assets :
    supplies[v][a] = SumFunction(balances[v][a])

(* What an account owns of an asset, in all its tokens. *)
PurseOf(x, a) == SumFunction([t \in TokensOf(a) |-> holdings[t][x]])

(* The shares a wallet has in an asset's pools of all vaults. *)
ClaimOf(h, a) == SumFunction([v \in VaultIds |-> balances[v][a][h]])

(* What is idle in an asset's pools of all vaults. *)
IdleOf(a) == SumFunction([v \in VaultIds |-> idleBalances[v][a]])

CustodyCoversIdle ==
  \A a \in Assets : IdleOf(a) <= PurseOf(VAULT, a)

(* One contract account holds the funds of all vaults: its tokens cover    *)
(* the idle balances of all of them at once, whatever was donated to it,   *)
(* so no vault's redemption is paid with another vault's idle funds; and   *)
(* the supply a payout is computed from, which another contract keeps, is  *)
(* what the holders have between them and, to the unit, what the pool has. *)
CustodyBooks == CustodyCoversIdle /\ SharesSumToSupply /\ PoolParity

(* The treasury is a ledger of claims, one for one.  Behind the vaults,    *)
(* the share prices that deposit-stx and redeem-stx round, the tokens, the *)
(* allocations and the permissions, every call does to the sums over all   *)
(* vaults what TreasuryLedger allows, or nothing: a claim is made by a     *)
(* deposit of its holder alone, to the unit, and paid back to its holder   *)
(* alone, to the unit.                                                     *)
Ledger == INSTANCE TreasuryLedger WITH
  Wallets <- Principals,
  Custody <- VAULT,
  Outside <- StrategyContracts,
  Grants <- [a \in Assets |-> SumFunction([t \in TokensOf(a) |-> InitialHoldings])],
  purse <- [x \in Accounts |-> [a \in Assets |-> PurseOf(x, a)]],
  claim <- [h \in Principals |-> [a \in Assets |-> ClaimOf(h, a)]],
  idle <- [a \in Assets |-> IdleOf(a)]

TreasuryIsLedger == Ledger!Spec

(* A holder's claim is never diluted: as long as a holder keeps the same   *)
(* shares, no step of anyone (a deposit, a redemption, an allocation, a    *)
(* donation, an admin call) changes what those shares are worth.           *)
ClaimsUndiluted ==
  [][\A v \in VaultIds, a \in Assets, h \in Principals :
       balances'[v][a][h] = balances[v][a][h] =>
         Claim(balances[v][a][h], supplies[v][a], totalBalances[v][a])'
           = Claim(balances[v][a][h], supplies[v][a], totalBalances[v][a])]_vars

(* What a wallet owns of an asset, in tokens and in shares of all vaults. *)
Wealth(h, a) == PurseOf(h, a) + ClaimOf(h, a)

(* Nobody gains, and nobody loses but by their own donation: in every step *)
(* the shares a wallet gets or gives up are matched by its own tokens.  In *)
(* particular no admin or executor call moves value between wallets.       *)
WealthConserved ==
  [][\A h \in Principals, a \in Assets :
       \/ Wealth(h, a)' = Wealth(h, a)
       \/ Wealth(h, a)' < Wealth(h, a) /\ UNCHANGED <<balances, totalBalances>>]_vars

(* Pausing can never trap users: whoever holds STX shares can redeem any   *)
(* number of them that the pool's idle balance covers, whatever the admin, *)
(* the owner and the executors have done.                                  *)
StxAlwaysRedeemable ==
  \A v \in VaultIds, h \in Principals, n \in Amounts :
    (n > 0 /\ n <= balances[v]["STX"][h] /\ n <= idleBalances[v]["STX"])
      => ENABLED RedeemStx(h, v, n)

-----------------------------------------------------------------------------
(* Execution of intents. *)

Deploys(v) == strategyAllocations'[v] # strategyAllocations[v]

(* Replay protection, across risk-guard, vault and engine: a vault's funds *)
(* are deployed in exactly the steps that raise its last used nonce and    *)
(* start its cooldown, and the nonce never goes back, not even when the    *)
(* owner replaces the risk configuration it is stored beside.              *)
NonceDiscipline ==
  [][\A v \in VaultIds : vaultConfig[v] # Absent =>
       IF Deploys(v)
       THEN /\ vaultConfig'[v].lastUsedNonce > vaultConfig[v].lastUsedNonce
            /\ vaultConfig'[v].lastExecutionHeight = height
       ELSE /\ vaultConfig'[v].lastUsedNonce = vaultConfig[v].lastUsedNonce
            /\ vaultConfig'[v].lastExecutionHeight = vaultConfig[v].lastExecutionHeight]_vars

(* Every deployment ends inside the mandate in force when it happens: the  *)
(* pool it leaves behind has its liquidity reserve, the destination is     *)
(* active, under the vault's and the registry's cap (to the basis point),  *)
(* and the gate, both pauses and the cooldown allowed it.                  *)
DeploymentsWithinMandate ==
  [][\A v \in VaultIds, s \in StrategyIds, a \in Assets :
       strategyAllocations'[v][s][a] # strategyAllocations[v][s][a] =>
         LET cfg == vaultConfig[v]
             total == totalBalances'[v][a]
             bps == (strategyAllocations'[v][s][a] * BPS) \div total
         IN /\ strategyAllocations'[v][s][a] > strategyAllocations[v][s][a]
            /\ idleBalances'[v][a] * BPS >= cfg.params.minIdleBps * total
            /\ bps <= cfg.params.maxExposureBps
            /\ bps <= strategies[s].maxAllocationBps
            /\ strategies[s].active
            /\ MainnetChain /\ mainnetExecutionArmed
            /\ ~protocolPaused /\ ~vaults[v].paused
            /\ CooldownOver(cfg)]_vars

(* The owner, or an executor with the admin's standing and his consent. *)
MayDeploy(p, v) ==
  \/ p = vaults[v].owner
  \/ executors[p] = "active" /\ vaultConfig[v].params.autonomousEnabled

(* If a vault's funds move, then one of those who call the engine may move *)
(* them at that very step: as long as the owner makes no call, nothing is  *)
(* deployed before the admin registered an executor and the owner switched *)
(* autonomous mode on, nor after a revocation, after the mode was switched *)
(* off or after the configuration was replaced by one without it, until it *)
(* is given back.  It is said of the step's effect and not of a function,  *)
(* so no other function and no other contract deploys either               *)
(* (agent-registry-v4.clar, is-authorized-executor; risk-guard-v7.clar,    *)
(* check-intent; execution-engine-v7.clar, submit-rebalance-intent).       *)
DeploymentsNeedConsent ==
  [][\A v \in VaultIds :
       Deploys(v) => \E p \in Callers["engine"] : MayDeploy(p, v)]_vars

(* The read-only verdict is the truth: an STX intent that passes the       *)
(* evaluation executes, once the gate is open, against the registered      *)
(* contract of a strategy that takes its deposit.  None of the checks that *)
(* the guard and the vault repeat, and no lack of tokens in the contract,  *)
(* can stop it half way.                                                   *)
PassedIntentsExecute ==
  \A p \in Principals, intent \in Intents :
    (intent.asset = "STX" /\ Evaluate(p, intent) /\ IsStrategyExecutionEnabled) =>
      ENABLED SubmitRebalanceIntent(p, intent, strategies[intent.strategy].contract,
                                    "STX", TRUE)

(* Off mainnet the gate never opens and leaves no trace: no admin action   *)
(* arms it, nothing is ever deployed, no nonce is used, and everything a   *)
(* pool has stays redeemable.                                              *)
GateClosedOffMainnet ==
  ~MainnetChain =>
    /\ ~mainnetExecutionArmed
    /\ \A v \in VaultIds :
         /\ vaultConfig[v] # Absent =>
              vaultConfig[v].lastUsedNonce = 0 /\ vaultConfig[v].lastExecutionHeight = 0
         /\ \A a \in Assets :
              /\ idleBalances[v][a] = totalBalances[v][a]
              /\ \A s \in StrategyIds : strategyAllocations[v][s][a] = 0

AllocationsHaveAHome ==
  \A v \in VaultIds, s \in StrategyIds, a \in Assets :
    strategyAllocations[v][s][a] > 0 =>
      /\ strategies[s] # Absent
      /\ strategies[s].asset = a
      /\ SupportsAsset(v, a)
      /\ vaultConfig[v] # Absent
      /\ vaultConfig[v].lastUsedNonce > 0

(* Entries of strategies are below the next id. *)
StrategiesDense == \A s \in StrategyIds : strategies[s] # Absent => s < nextStrategyId

(* What is not idle is allocated, to the unit, and whatever is allocated   *)
(* has a home: a registered strategy of that asset, under an asset its     *)
(* vault supports, in a vault that has executed an intent.  The balances   *)
(* are written by four functions and bound by three contracts.             *)
AllocationBooks == PoolSplit /\ AllocationsHaveAHome /\ StrategiesDense

-----------------------------------------------------------------------------
(* Governance and discovery. *)

ConfigMirrorsVaults ==
  \A v \in VaultIds :
    /\ vaults[v] # Absent <=> v < nextVaultId
    /\ vaultConfig[v] # Absent <=> v < nextVaultId

Occurrences(x, s) == Cardinality({i \in DOMAIN s : s[i] = x})

IndexesComplete ==
  \A p \in Principals, v \in VaultIds :
    /\ Occurrences(v, ownerVaults[p]) =
         IF vaults[v] # Absent /\ vaults[v].owner = p THEN 1 ELSE 0
    /\ Occurrences(v, holderVaults[p]) = IF v \in holderRegistered[p] THEN 1 ELSE 0
    /\ (\E a \in Assets : balances[v][a][p] > 0) => v \in holderRegistered[p]

(* Whoever has shares has them of an asset their vault takes. *)
SharesHaveAVault ==
  \A v \in VaultIds, a \in Assets, h \in Principals :
    balances[v][a][h] > 0 => SupportsAsset(v, a)

(* The list of who holds shares of what names vaults that exist. *)
ListedVaultsExist == \A p \in Principals : \A v \in holderRegistered[p] : vaults[v] # Absent

(* A vault is in every book or in none: the vault contract and risk-guard  *)
(* create a vault and its configuration together, ids are dense from 1,    *)
(* shares are of vaults that exist and take the asset, and the discovery   *)
(* indexes are complete and free of duplicates: each vault is listed once, *)
(* by its owner, and whoever holds shares of a vault finds it once in      *)
(* their list, so no off-chain database is needed.                         *)
VaultBooks == ConfigMirrorsVaults /\ IndexesComplete /\ SharesHaveAVault /\ ListedVaultsExist

(* What the protocol's own runs and proofs show of its states; a session   *)
(* of the web app may begin in any state of which this holds.              *)
SoundChain == TypeOK /\ CustodyBooks /\ AllocationBooks /\ VaultBooks

-----------------------------------------------------------------------------
(* A statement of the documentation that the contracts do not keep.        *)

(* "NOTHING stops redemption of idle funds" (sovereignty-vault-v7.clar:48, *)
(* docs/security-model.md): holders of sBTC shares can redeem whatever the *)
(* idle balance covers.  redeem-sbtc pays in the token approved now; after *)
(* the admin approves another one, the contract may own none of it.        *)
SbtcAlwaysRedeemable ==
  \A v \in VaultIds, h \in Principals, n \in Amounts :
    (n > 0 /\ n <= balances[v]["SBTC"][h] /\ n <= idleBalances[v]["SBTC"])
      => ENABLED \E t \in SbtcTokens : RedeemSbtc(h, v, n, t)
=============================================================================
