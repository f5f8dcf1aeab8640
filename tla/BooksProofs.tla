---------------------------- MODULE BooksProofs ----------------------------
(***************************************************************************)
(* Proofs about the books: the shares of all holders are the supply, what  *)
(* is not idle is allocated, the tokens in custody cover what is idle, a   *)
(* claim is never diluted and no step moves value between wallets.  They   *)
(* are about sums; each step changes one or two terms of each sum, and     *)
(* SumChange says what the sum becomes.                                    *)
(***************************************************************************)
EXTENDS ProtocolProofs

-----------------------------------------------------------------------------
(* The holders' shares of one pool, and its allocations. *)
HolderSum(v, a) == SumFunction(balances[v][a])

AllocationSum(v, a) == SumFunction([s \in StrategyIds |-> strategyAllocations[v][s][a]])

LEMMA FiniteDomains ==
  /\ IsFiniteSet(VaultIds)
  /\ IsFiniteSet(StrategyIds)
  /\ IsFiniteSet(Principals)
  /\ \A a \in Assets : IsFiniteSet(TokensOf(a))
<1>1. MaxVaults \in Int /\ MaxStrategies \in Int
  BY ChainAssumption, StrategyAssumption
<1>2. IsFiniteSet(VaultIds) /\ IsFiniteSet(StrategyIds)
  BY <1>1, FS_Interval DEF VaultIds, StrategyIds
<1>3. IsFiniteSet({"STX"})
  BY FS_Singleton
<1>4. QED
  BY <1>2, <1>3, FiniteAssumption DEF TokensOf

(* A transfer moves its amount from one account to another, in the tokens  *)
(* of one asset.                                                           *)
LEMMA TransferMoves ==
  ASSUME ChainTypeOK, NEW b \in Assets, NEW t \in TokensOf(b), NEW from \in Accounts,
         NEW to \in Accounts, NEW n \in Nat, Transfer(t, from, to, n),
         NEW x \in Accounts, NEW a \in Assets
  PROVE  /\ PurseOf(x, a) \in Nat
         /\ PurseOf(x, a)' = IF a # b \/ x \notin {from, to} THEN PurseOf(x, a)
                              ELSE IF x = from THEN PurseOf(x, a) - n ELSE PurseOf(x, a) + n
<1> DEFINE F == [u \in TokensOf(a) |-> holdings[u][x]]
           H == [u \in TokensOf(a) |-> holdings'[u][x]]
<1>1. TokensOf(a) \subseteq Tokens /\ t \in Tokens
  BY DEF TokensOf, Tokens
<1>2. F \in [TokensOf(a) -> Nat]
  BY <1>1 DEF ChainTypeOK
<1>3. holdings' \in [Tokens -> [Accounts -> Nat]]
  BY <1>1, TransferType
<1>4. H \in [TokensOf(a) -> Nat]
  BY <1>1, <1>3
<1>5. IsFiniteSet(TokensOf(a))
  BY FiniteDomains
<1>6. PurseOf(x, a) = SumFunction(F) /\ PurseOf(x, a)' = SumFunction(H)
  BY DEF PurseOf
<1>7. \A u \in TokensOf(a) :
        H[u] = IF u # t \/ x \notin {from, to} THEN F[u]
               ELSE IF x = from THEN F[u] - n ELSE F[u] + n
  BY <1>1 DEF ChainTypeOK, Transfer
<1>8. SumFunction(F) \in Nat
  BY <1>2, <1>5, SumNat
<1>9. CASE a # b \/ x \notin {from, to}
  <2>1. a # b => t \notin TokensOf(a)
    BY ChainAssumption DEF TokensOf, Assets
  <2>2. H = F
    BY <1>7, <1>9, <2>1
  <2>3. QED
    BY <1>6, <1>8, <1>9, <2>2
<1>10. CASE a = b /\ x \in {from, to}
  <2>1. t \in TokensOf(a) /\ \A u \in TokensOf(a) \ {t} : H[u] = F[u]
    BY <1>7, <1>10
  <2>2. SumFunction(H) = SumFunction(F) + H[t] - F[t]
    BY <1>2, <1>4, <1>5, <2>1, SumChange
  <2>3. H[t] = IF x = from THEN F[t] - n ELSE F[t] + n
    BY <1>7, <1>10, <2>1
  <2>4. F[t] \in Nat
    BY <1>2, <2>1
  <2> HIDE DEF F, H
  <2>5. QED
    BY <1>6, <1>8, <1>10, <2>2, <2>3, <2>4
<1>11. QED
  BY <1>9, <1>10

(* One idle balance, one allocation, one holder's shares of one pool are   *)
(* written.                                                                *)
IdleWritten(v, a, m) == idleBalances' = [idleBalances EXCEPT ![v][a] = m]

AllocationWritten(v, s, a, m) ==
  strategyAllocations' = [strategyAllocations EXCEPT ![v][s][a] = m]

SharesWritten(v, a, p, m) == balances' = [balances EXCEPT ![v][a][p] = m]

(* Writing one idle balance changes one sum. *)
LEMMA IdleChanges ==
  ASSUME VaultTypeOK, NEW v \in VaultIds, NEW b \in Assets, NEW m \in Nat,
         IdleWritten(v, b, m), NEW a \in Assets
  PROVE  /\ IdleOf(a) \in Nat
         /\ idleBalances[v][a] <= IdleOf(a)
         /\ IdleOf(a)' = IF a = b THEN IdleOf(a) + m - idleBalances[v][a] ELSE IdleOf(a)
<1> DEFINE F == [w \in VaultIds |-> idleBalances[w][a]]
           H == [w \in VaultIds |-> idleBalances'[w][a]]
<1>1. F \in [VaultIds -> Nat] /\ H \in [VaultIds -> Nat] /\ IsFiniteSet(VaultIds)
  BY FiniteDomains DEF VaultTypeOK, IdleWritten
<1>2. /\ F[v] = idleBalances[v][a]
      /\ a = b => H[v] = m
      /\ \A w \in VaultIds : w # v \/ a # b => H[w] = F[w]
  BY DEF VaultTypeOK, IdleWritten
<1>3. IdleOf(a) = SumFunction(F) /\ IdleOf(a)' = SumFunction(H)
  BY DEF IdleOf
<1>4. CASE a = b
  <2> HIDE DEF F, H
  <2>1. SumFunction(H) = SumFunction(F) + H[v] - F[v]
    BY <1>1, <1>2, SumChange
  <2>2. SumFunction(F) \in Nat /\ F[v] <= SumFunction(F)
    BY <1>1, SumNat
  <2>3. QED
    BY <1>2, <1>3, <1>4, <2>1, <2>2
<1>5. CASE a # b
  <2>1. H = F
    BY <1>2, <1>5
  <2> HIDE DEF F, H
  <2>2. SumFunction(F) \in Nat /\ F[v] <= SumFunction(F)
    BY <1>1, SumNat
  <2>3. QED
    BY <1>2, <1>3, <1>5, <2>1, <2>2
<1>6. QED
  BY <1>4, <1>5

(* Writing the shares of one holder in one pool changes what the holder    *)
(* has of the asset and what the pool's holders have.                      *)
LEMMA SharesChange ==
  ASSUME ReceiptTypeOK, NEW v \in VaultIds, NEW b \in Assets, NEW p \in Principals, NEW m \in Nat,
         SharesWritten(v, b, p, m),
         NEW a \in Assets, NEW h \in Principals, NEW w \in VaultIds
  PROVE  /\ ClaimOf(h, a) \in Nat
         /\ HolderSum(w, a) \in Nat
         /\ balances[w][a][h] <= ClaimOf(h, a)
         /\ ClaimOf(h, a)' = IF a = b /\ h = p THEN ClaimOf(h, a) + m - balances[v][a][h]
                                               ELSE ClaimOf(h, a)
         /\ HolderSum(w, a)' = IF a = b /\ w = v THEN HolderSum(w, a) + m - balances[v][a][p]
                                                 ELSE HolderSum(w, a)
<1>1. ClaimOf(h, a) \in Nat /\ balances[w][a][h] <= ClaimOf(h, a)
      /\ ClaimOf(h, a)' = IF a = b /\ h = p THEN ClaimOf(h, a) + m - balances[v][a][h]
                                            ELSE ClaimOf(h, a)
  <2> DEFINE F == [u \in VaultIds |-> balances[u][a][h]]
             H == [u \in VaultIds |-> balances'[u][a][h]]
  <2>1. F \in [VaultIds -> Nat] /\ H \in [VaultIds -> Nat] /\ IsFiniteSet(VaultIds)
    BY FiniteDomains DEF ReceiptTypeOK, SharesWritten
  <2>2. /\ F[v] = balances[v][a][h] /\ F[w] = balances[w][a][h]
        /\ a = b /\ h = p => H[v] = m
        /\ \A u \in VaultIds : u # v \/ ~(a = b /\ h = p) => H[u] = F[u]
    BY DEF ReceiptTypeOK, SharesWritten
  <2>3. ClaimOf(h, a) = SumFunction(F) /\ ClaimOf(h, a)' = SumFunction(H)
    BY DEF ClaimOf
  <2>4. ~(a = b /\ h = p) => H = F
    BY <2>2
  <2> HIDE DEF F, H
  <2>5. a = b /\ h = p => SumFunction(H) = SumFunction(F) + H[v] - F[v]
    BY <2>1, <2>2, SumChange
  <2>6. SumFunction(F) \in Nat /\ F[w] <= SumFunction(F)
    BY <2>1, SumNat
  <2>7. QED
    BY <2>2, <2>3, <2>4, <2>5, <2>6
<1>2. HolderSum(w, a) \in Nat
      /\ HolderSum(w, a)' = IF a = b /\ w = v THEN HolderSum(w, a) + m - balances[v][a][p]
                                              ELSE HolderSum(w, a)
  <2> DEFINE F == balances[w][a]
             H == balances'[w][a]
  <2>1. F \in [Principals -> Nat] /\ H \in [Principals -> Nat] /\ IsFiniteSet(Principals)
    BY FiniteDomains DEF ReceiptTypeOK, SharesWritten
  <2>2. /\ a = b /\ w = v => F[p] = balances[v][a][p] /\ H[p] = m
        /\ a = b /\ w = v => \A q \in Principals \ {p} : H[q] = F[q]
        /\ ~(a = b /\ w = v) => H = F
    BY DEF ReceiptTypeOK, SharesWritten
  <2>3. HolderSum(w, a) = SumFunction(F) /\ HolderSum(w, a)' = SumFunction(H)
    BY DEF HolderSum
  <2> HIDE DEF F, H
  <2>4. a = b /\ w = v => SumFunction(H) = SumFunction(F) + H[p] - F[p]
    BY <2>1, <2>2, SumChange
  <2>5. SumFunction(F) \in Nat
    BY <2>1, SumNat
  <2>6. QED
    BY <2>2, <2>3, <2>4, <2>5
<1>3. QED
  BY <1>1, <1>2

LEMMA AllocationsChange ==
  ASSUME VaultTypeOK, NEW v \in VaultIds, NEW s \in StrategyIds, NEW b \in Assets, NEW m \in Nat,
         AllocationWritten(v, s, b, m), NEW w \in VaultIds, NEW a \in Assets
  PROVE  /\ AllocationSum(w, a) \in Nat
         /\ AllocationSum(w, a)' =
              IF a = b /\ w = v THEN AllocationSum(w, a) + m - strategyAllocations[v][s][a]
                               ELSE AllocationSum(w, a)
<1> DEFINE F == [q \in StrategyIds |-> strategyAllocations[w][q][a]]
           H == [q \in StrategyIds |-> strategyAllocations'[w][q][a]]
<1>1. F \in [StrategyIds -> Nat] /\ H \in [StrategyIds -> Nat] /\ IsFiniteSet(StrategyIds)
  <2>1. strategyAllocations \in [VaultIds -> [StrategyIds -> [Assets -> Nat]]]
    BY DEF VaultTypeOK
  <2>2. strategyAllocations' \in [VaultIds -> [StrategyIds -> [Assets -> Nat]]]
    BY <2>1 DEF AllocationWritten
  <2>3. F \in [StrategyIds -> Nat]
    BY <2>1
  <2>4. H \in [StrategyIds -> Nat]
    BY <2>2
  <2>5. QED
    BY <2>3, <2>4, FiniteDomains
<1>2. /\ a = b /\ w = v => F[s] = strategyAllocations[v][s][a] /\ H[s] = m
      /\ a = b /\ w = v => \A q \in StrategyIds \ {s} : H[q] = F[q]
      /\ ~(a = b /\ w = v) => \A q \in StrategyIds : H[q] = F[q]
  BY DEF VaultTypeOK, AllocationWritten
<1>3. AllocationSum(w, a) = SumFunction(F) /\ AllocationSum(w, a)' = SumFunction(H)
  BY DEF AllocationSum
<1>4. ~(a = b /\ w = v) => H = F
  BY <1>2
<1> HIDE DEF F, H
<1>5. a = b /\ w = v => SumFunction(H) = SumFunction(F) + H[s] - F[s]
  BY <1>1, <1>2, SumChange
<1>6. SumFunction(F) \in Nat
  BY <1>1, SumNat
<1>7. QED
  BY <1>2, <1>3, <1>4, <1>5, <1>6

-----------------------------------------------------------------------------
(* What a step can do to the books.  At a price of one, a deposit mints    *)
(* its amount and a redemption pays the shares it burns.                   *)

Deposited(p, v, a, t, n) ==
  /\ SupportsAsset(v, a)
  /\ Transfer(t, p, VAULT, n)
  /\ idleBalances' = [idleBalances EXCEPT ![v][a] = @ + n]
  /\ totalBalances' = [totalBalances EXCEPT ![v][a] = @ + n]
  /\ Mint(v, a, n, p)
  /\ RegisterHolder(p, v)
  /\ UNCHANGED <<strategyAllocations, vaults, ownerVaults>>

Redeemed(p, v, a, t, n) ==
  /\ Transfer(t, VAULT, p, n)
  /\ PayFromIdle(v, a, n)
  /\ Burn(v, a, n, p)
  /\ UNCHANGED <<strategyAllocations, vaults, ownerVaults, indexVars>>

Deployed(v, s, a, c, t, n) ==
  /\ n > 0
  /\ UNCHANGED holdings \/ Transfer(t, VAULT, c, n)
  /\ Deploy(v, s, a, n)
  /\ UNCHANGED <<receiptVars, vaults, ownerVaults, indexVars>>

Given(p, t, n) ==
  /\ Transfer(t, p, VAULT, n)
  /\ UNCHANGED <<receiptVars, vaultVars>>

LEMMA PoolCallMoves ==
  ASSUME PoolInv, NEW p \in Principals, NEW v \in VaultIds, NEW n \in Nat, PoolCall(p, v, n)
  PROVE  \E a \in Assets :
           \E t \in TokensOf(a) : Deposited(p, v, a, t, n) \/ Redeemed(p, v, a, t, n)
<1>1. PICK a \in Assets : \E t \in TokensOf(a) : Deposit(p, v, a, t, n) \/ Redeem(p, v, a, t, n)
  BY DEF PoolCall, DepositStx, DepositSbtc, RedeemStx, RedeemSbtc, Assets, TokensOf
<1>2. PICK t \in TokensOf(a) : Deposit(p, v, a, t, n) \/ Redeem(p, v, a, t, n)
  BY <1>1
<1>3. supplies[v][a] \in Nat /\ totalBalances[v][a] = supplies[v][a]
  BY DEF PoolInv, PoolParity, TypeOK, ReceiptTypeOK
<1>4. CASE Deposit(p, v, a, t, n)
  <2>1. DepositShares(supplies[v][a], totalBalances[v][a], n) = n
    BY <1>3, PriceOfOne
  <2>2. Deposited(p, v, a, t, n)
    BY <1>4, <2>1 DEF Deposit, Deposited, SupportsAsset
  <2>3. QED
    BY <2>2
<1>5. CASE Redeem(p, v, a, t, n)
  <2>1. RedeemAssets(n, supplies[v][a], totalBalances[v][a]) = n
    BY <1>3, <1>5, PriceOfOne DEF Redeem, RedeemAccepted
  <2>2. Redeemed(p, v, a, t, n)
    BY <1>5, <2>1 DEF Redeem, Redeemed
  <2>3. QED
    BY <2>2
<1>6. QED
  BY <1>2, <1>4, <1>5

LEMMA PoolStepMoves ==
  ASSUME PoolInv, PoolStep
  PROVE  \E p \in Principals, v \in VaultIds, a \in Assets, n \in Amounts :
           \E t \in TokensOf(a) : Deposited(p, v, a, t, n) \/ Redeemed(p, v, a, t, n)
<1>1. PICK p \in Callers["pools"], v \in VaultIds, n \in Amounts : PoolCall(p, v, n)
  BY DEF PoolStep, PoolCall
<1>2. p \in Principals /\ n \in Nat
  BY InputAssumption DEF Groups
<1>3. QED
  BY <1>1, <1>2, PoolCallMoves

LEMMA AnyPoolStepMoves ==
  ASSUME PoolInv, AnyPoolStep
  PROVE  \E p \in Principals, v \in VaultIds, a \in Assets, n \in Nat :
           \E t \in TokensOf(a) : Deposited(p, v, a, t, n) \/ Redeemed(p, v, a, t, n)
<1>1. PICK p \in Principals, v \in VaultIds, n \in Nat : PoolCall(p, v, n)
  BY DEF AnyPoolStep
<1>2. QED
  BY <1>1, PoolCallMoves

LEMMA EngineStepMoves ==
  ASSUME PoolInv, EngineStep
  PROVE  \E v \in VaultIds, s \in StrategyIds, a \in Assets, n \in Amounts :
           \E c \in StrategyContracts, t \in TokensOf(a) : Deployed(v, s, a, c, t, n)
<1>1. PICK p \in Callers["engine"], intent \in Intents, c \in StrategyContracts,
           pulls \in BOOLEAN :
        \E t \in TokensOf(intent.asset) : SubmitRebalanceIntent(p, intent, c, t, pulls)
  BY DEF EngineStep
<1>2. PICK t \in TokensOf(intent.asset) : SubmitRebalanceIntent(p, intent, c, t, pulls)
  BY <1>1
<1>3. /\ intent.vault \in VaultIds /\ intent.strategy \in StrategyIds
      /\ intent.asset \in Assets /\ intent.amount \in Amounts
  BY DEF Intents
<1>4. intent.amount > 0
  BY <1>2 DEF SubmitRebalanceIntent, Evaluate, CheckIntent
<1>5. /\ UNCHANGED holdings \/ Transfer(t, VAULT, c, intent.amount)
      /\ Deploy(intent.vault, intent.strategy, intent.asset, intent.amount)
      /\ UNCHANGED <<vaults, ownerVaults, indexVars>>
  BY <1>2 DEF SubmitRebalanceIntent, ExecuteRebalance, StrategyDeposit
<1>6. Deployed(intent.vault, intent.strategy, intent.asset, c, t, intent.amount)
  BY <1>4, <1>5 DEF Deployed, EngineStep
<1>7. QED
  BY <1>3, <1>6

(* Every other step leaves the tokens, the shares and the pools alone but  *)
(* for a gift to the contract.                                             *)
LEMMA OtherStepMoves ==
  ASSUME \/ [Next]_vars /\ ~PoolStep /\ ~EngineStep
         \/ AnyVaultConfigStep
  PROVE  \/ \E p \in Principals, a \in Assets, n \in Amounts : \E t \in TokensOf(a) : Given(p, t, n)
         \/ UNCHANGED <<holdings, receiptVars, poolVars>>
<1>1. CASE Environment
  <2>1. ASSUME NEW p \in Callers["donations"], NEW t \in Tokens, NEW n \in Amounts, Donate(p, t, n)
        PROVE  \E q \in Principals, a \in Assets, m \in Amounts :
                 \E u \in TokensOf(a) : Given(q, u, m)
    <3>1. p \in Principals
      BY InputAssumption DEF Groups
    <3>2. \E a \in Assets : t \in TokensOf(a)
      BY DEF Tokens, Assets, TokensOf
    <3>3. Given(p, t, n)
      BY <1>1, <2>1 DEF Environment, Donate, Given
    <3>4. QED
      BY <3>1, <3>2, <3>3
  <2>2. CASE NewBlock
    BY <1>1, <2>2 DEF Environment, NewBlock, vaultVars
  <2>3. QED
    BY <1>1, <2>1, <2>2 DEF Environment
<1>2. CASE AdminStep \/ AgentRegistryStep \/ StrategyRegistryStep \/ GuardStep \/ UNCHANGED vars
  BY <1>2 DEF AdminStep, AgentRegistryStep, StrategyRegistryStep, GuardStep, vars, chainVars,
              vaultVars
<1>3. CASE VaultConfigStep \/ AnyVaultConfigStep
  <2>1. AnyVaultConfigStep
    BY <1>3, VaultConfigStepIsAny
  <2>2. UNCHANGED poolVars
    BY <2>1 DEF AnyVaultConfigStep, CreateVault, SetVaultConfig, SetRiskConfig, SetAutonomousMode,
                PauseVault, UnpauseVault, SetPaused, vaultVars
  <2>3. QED
    BY <2>1, <2>2 DEF AnyVaultConfigStep, chainVars
<1>4. QED
  BY <1>1, <1>2, <1>3 DEF Next

-----------------------------------------------------------------------------
(* What each move does to the sums. *)

SumsAreNat ==
  /\ \A a \in Assets : IdleOf(a) \in Nat
  /\ \A x \in Accounts, a \in Assets : PurseOf(x, a) \in Nat
  /\ \A h \in Principals, a \in Assets : ClaimOf(h, a) \in Nat
  /\ \A v \in VaultIds, a \in Assets : HolderSum(v, a) \in Nat /\ AllocationSum(v, a) \in Nat

LEMMA SumTypes == TypeOK => SumsAreNat
<1> SUFFICES ASSUME TypeOK
             PROVE  SumsAreNat
  OBVIOUS
<1>1. ChainTypeOK /\ ReceiptTypeOK /\ VaultTypeOK
  BY DEF TypeOK
<1>2. ASSUME NEW a \in Assets
      PROVE  IdleOf(a) \in Nat
  <2>1. [v \in VaultIds |-> idleBalances[v][a]] \in [VaultIds -> Nat]
    BY <1>1 DEF VaultTypeOK
  <2>2. QED
    BY <2>1, FiniteDomains, SumNat DEF IdleOf
<1>3. ASSUME NEW x \in Accounts, NEW a \in Assets
      PROVE  PurseOf(x, a) \in Nat
  <2>1. [t \in TokensOf(a) |-> holdings[t][x]] \in [TokensOf(a) -> Nat]
    BY <1>1 DEF ChainTypeOK, TokensOf, Tokens
  <2>2. QED
    BY <2>1, FiniteDomains, SumNat DEF PurseOf
<1>4. ASSUME NEW h \in Principals, NEW a \in Assets
      PROVE  ClaimOf(h, a) \in Nat
  <2>1. [v \in VaultIds |-> balances[v][a][h]] \in [VaultIds -> Nat]
    BY <1>1 DEF ReceiptTypeOK
  <2>2. QED
    BY <2>1, FiniteDomains, SumNat DEF ClaimOf
<1>5. ASSUME NEW v \in VaultIds, NEW a \in Assets
      PROVE  HolderSum(v, a) \in Nat /\ AllocationSum(v, a) \in Nat
  <2>1. /\ balances[v][a] \in [Principals -> Nat]
        /\ [s \in StrategyIds |-> strategyAllocations[v][s][a]] \in [StrategyIds -> Nat]
    BY <1>1 DEF ReceiptTypeOK, VaultTypeOK
  <2>2. QED
    BY <2>1, FiniteDomains, SumNat DEF HolderSum, AllocationSum
<1>6. QED
  BY <1>2, <1>3, <1>4, <1>5 DEF SumsAreNat

(* Purses after a transfer of asset a, and after none. *)
PursesPay(from, to, a, n) ==
  \A x \in Accounts, b \in Assets :
    PurseOf(x, b)' = IF b # a \/ x \notin {from, to} THEN PurseOf(x, b)
                     ELSE IF x = from THEN PurseOf(x, b) - n ELSE PurseOf(x, b) + n

LEMMA TransferPays ==
  ASSUME TypeOK, NEW a \in Assets, NEW t \in TokensOf(a), NEW from \in Accounts,
         NEW to \in Accounts, NEW n \in Nat, Transfer(t, from, to, n)
  PROVE  PursesPay(from, to, a, n) /\ n <= PurseOf(from, a)
<1>1. PursesPay(from, to, a, n)
  BY TransferMoves DEF PursesPay, TypeOK
<1>2. n <= PurseOf(from, a)
  <2> DEFINE F == [u \in TokensOf(a) |-> holdings[u][from]]
  <2>1. F \in [TokensOf(a) -> Nat]
    BY DEF TypeOK, ChainTypeOK, TokensOf, Tokens
  <2>2. n <= F[t] /\ PurseOf(from, a) = SumFunction(F)
    BY DEF Transfer, PurseOf
  <2> HIDE DEF F
  <2>3. F[t] <= SumFunction(F) /\ SumFunction(F) \in Nat
    BY <2>1, FiniteDomains, SumNat
  <2>4. F[t] \in Nat
    BY <2>1
  <2>5. QED
    BY <2>2, <2>3, <2>4
<1>3. QED
  BY <1>1, <1>2

(* Nothing of a variable changes: nothing of its sums does. *)
LEMMA UnchangedSums ==
  /\ UNCHANGED holdings => \A x \in Accounts, a \in Assets : PurseOf(x, a)' = PurseOf(x, a)
  /\ UNCHANGED idleBalances => \A a \in Assets : IdleOf(a)' = IdleOf(a)
  /\ UNCHANGED balances =>
       /\ \A h \in Principals, a \in Assets : ClaimOf(h, a)' = ClaimOf(h, a)
       /\ \A v \in VaultIds, a \in Assets : HolderSum(v, a)' = HolderSum(v, a)
  /\ UNCHANGED strategyAllocations =>
       \A v \in VaultIds, a \in Assets : AllocationSum(v, a)' = AllocationSum(v, a)
  BY DEF PurseOf, IdleOf, ClaimOf, HolderSum, AllocationSum

(* The sums after a deposit of n units (sign = 1) or a redemption (-1). *)
SumsFollow(p, v, a, d) ==
  /\ \A b \in Assets : IdleOf(b)' = IF b = a THEN IdleOf(b) + d ELSE IdleOf(b)
  /\ \A h \in Principals, b \in Assets :
       ClaimOf(h, b)' = IF b = a /\ h = p THEN ClaimOf(h, b) + d ELSE ClaimOf(h, b)
  /\ \A w \in VaultIds, b \in Assets :
       /\ HolderSum(w, b)' = IF b = a /\ w = v THEN HolderSum(w, b) + d ELSE HolderSum(w, b)
       /\ AllocationSum(w, b)' = AllocationSum(w, b)
       /\ supplies'[w][b] = IF b = a /\ w = v THEN supplies[w][b] + d ELSE supplies[w][b]
       /\ idleBalances'[w][b] = IF b = a /\ w = v THEN idleBalances[w][b] + d ELSE idleBalances[w][b]
       /\ totalBalances'[w][b] = IF b = a /\ w = v THEN totalBalances[w][b] + d
                                                  ELSE totalBalances[w][b]

LEMMA SumsFollowDelta ==
  ASSUME PoolInv, NEW p \in Principals, NEW v \in VaultIds, NEW a \in Assets, NEW d \in Int,
         idleBalances[v][a] + d >= 0, balances[v][a][p] + d >= 0,
         idleBalances' = [idleBalances EXCEPT ![v][a] = @ + d],
         totalBalances' = [totalBalances EXCEPT ![v][a] = @ + d],
         balances' = [balances EXCEPT ![v][a][p] = @ + d],
         supplies' = [supplies EXCEPT ![v][a] = @ + d],
         UNCHANGED strategyAllocations
  PROVE  SumsFollow(p, v, a, d)
<1> DEFINE i == idleBalances[v][a] + d
           c == balances[v][a][p] + d
<1>1. ReceiptTypeOK /\ VaultTypeOK
  BY DEF PoolInv, TypeOK
<1>2. /\ idleBalances[v][a] \in Nat /\ balances[v][a][p] \in Nat
      /\ i \in Nat /\ c \in Nat
  BY <1>1 DEF ReceiptTypeOK, VaultTypeOK
<1>3. IdleWritten(v, a, i) /\ SharesWritten(v, a, p, c)
  BY <1>1 DEF ReceiptTypeOK, VaultTypeOK, IdleWritten, SharesWritten
<1>4. SumsAreNat
  BY SumTypes DEF PoolInv
<1> HIDE DEF i, c
<1>5. ASSUME NEW b \in Assets
      PROVE  IdleOf(b)' = IF b = a THEN IdleOf(b) + d ELSE IdleOf(b)
  <2>1. IdleOf(b)' = IF b = a THEN IdleOf(b) + i - idleBalances[v][b] ELSE IdleOf(b)
    BY <1>1, <1>2, <1>3, IdleChanges
  <2>2. IdleOf(b) \in Nat
    BY <1>4 DEF SumsAreNat
  <2>3. QED
    BY <1>2, <2>1, <2>2 DEF i
<1>6. ASSUME NEW h \in Principals, NEW w \in VaultIds, NEW b \in Assets
      PROVE  /\ ClaimOf(h, b)' = IF b = a /\ h = p THEN ClaimOf(h, b) + d ELSE ClaimOf(h, b)
             /\ HolderSum(w, b)' = IF b = a /\ w = v THEN HolderSum(w, b) + d
                                                     ELSE HolderSum(w, b)
  <2>1. /\ ClaimOf(h, b)' = IF b = a /\ h = p THEN ClaimOf(h, b) + c - balances[v][b][h]
                                               ELSE ClaimOf(h, b)
        /\ HolderSum(w, b)' = IF b = a /\ w = v THEN HolderSum(w, b) + c - balances[v][b][p]
                                                ELSE HolderSum(w, b)
    BY <1>1, <1>2, <1>3, SharesChange
  <2>2. ClaimOf(h, b) \in Nat /\ HolderSum(w, b) \in Nat
    BY <1>4 DEF SumsAreNat
  <2>3. QED
    BY <1>2, <2>1, <2>2 DEF c
<1>7. ASSUME NEW w \in VaultIds, NEW b \in Assets
      PROVE  /\ supplies'[w][b] = IF b = a /\ w = v THEN supplies[w][b] + d ELSE supplies[w][b]
             /\ idleBalances'[w][b] = IF b = a /\ w = v THEN idleBalances[w][b] + d
                                                       ELSE idleBalances[w][b]
             /\ totalBalances'[w][b] = IF b = a /\ w = v THEN totalBalances[w][b] + d
                                                        ELSE totalBalances[w][b]
  BY <1>1 DEF ReceiptTypeOK, VaultTypeOK
<1>8. \A w \in VaultIds, b \in Assets : AllocationSum(w, b)' = AllocationSum(w, b)
  BY UnchangedSums
<1>9. Deployer \in Principals
  BY ChainAssumption
<1>10. QED
  BY <1>5, <1>6, <1>7, <1>8, <1>9 DEF SumsFollow

LEMMA DepositMoves ==
  ASSUME PoolInv, NEW p \in Principals, NEW v \in VaultIds, NEW a \in Assets,
         NEW t \in TokensOf(a), NEW n \in Nat, Deposited(p, v, a, t, n)
  PROVE  /\ n > 0 /\ n <= PurseOf(p, a)
         /\ PursesPay(p, VAULT, a, n)
         /\ SumsFollow(p, v, a, n)
<1>1. Transfer(t, p, VAULT, n) /\ p \in Accounts /\ VAULT \in Accounts
  BY DEF Deposited, Accounts
<1>2. PursesPay(p, VAULT, a, n) /\ n <= PurseOf(p, a)
  BY <1>1, TransferPays DEF PoolInv
<1>3. idleBalances[v][a] \in Nat /\ balances[v][a][p] \in Nat
  BY DEF PoolInv, TypeOK, ReceiptTypeOK, VaultTypeOK
<1>4. SumsFollow(p, v, a, n)
  <2>1. /\ idleBalances' = [idleBalances EXCEPT ![v][a] = @ + n]
        /\ totalBalances' = [totalBalances EXCEPT ![v][a] = @ + n]
        /\ balances' = [balances EXCEPT ![v][a][p] = @ + n]
        /\ supplies' = [supplies EXCEPT ![v][a] = @ + n]
        /\ UNCHANGED strategyAllocations
    BY DEF Deposited, Mint
  <2>2. n \in Int /\ idleBalances[v][a] + n >= 0 /\ balances[v][a][p] + n >= 0
    BY <1>3
  <2>3. QED
    BY <2>1, <2>2, SumsFollowDelta
<1>5. QED
  BY <1>1, <1>2, <1>4 DEF Transfer

LEMMA RedemptionMoves ==
  ASSUME PoolInv, NEW p \in Principals, NEW v \in VaultIds, NEW a \in Assets,
         NEW t \in TokensOf(a), NEW n \in Nat, Redeemed(p, v, a, t, n)
  PROVE  /\ n > 0 /\ n <= PurseOf(VAULT, a)
         /\ n <= ClaimOf(p, a) /\ n <= IdleOf(a)
         /\ PursesPay(VAULT, p, a, n)
         /\ SumsFollow(p, v, a, -n)
<1>1. Transfer(t, VAULT, p, n) /\ p \in Accounts /\ VAULT \in Accounts
  BY DEF Redeemed, Accounts
<1>2. PursesPay(VAULT, p, a, n) /\ n <= PurseOf(VAULT, a)
  BY <1>1, TransferPays DEF PoolInv
<1>3. /\ ReceiptTypeOK /\ VaultTypeOK
      /\ idleBalances[v][a] \in Nat /\ balances[v][a][p] \in Nat /\ supplies[v][a] \in Nat
      /\ totalBalances[v][a] \in Nat
  <2>1. ReceiptTypeOK /\ VaultTypeOK
    BY DEF PoolInv, TypeOK
  <2>2. balances[v][a][p] \in Nat /\ supplies[v][a] \in Nat
    BY <2>1 DEF ReceiptTypeOK
  <2>3. idleBalances[v][a] \in Nat /\ totalBalances[v][a] \in Nat
    BY <2>1 DEF VaultTypeOK
  <2>4. QED
    BY <2>1, <2>2, <2>3
<1>4. n <= idleBalances[v][a] /\ n <= balances[v][a][p]
  BY DEF Redeemed, PayFromIdle, Burn
<1>5. /\ idleBalances' = [idleBalances EXCEPT ![v][a] = @ + (-n)]
      /\ totalBalances' = [totalBalances EXCEPT ![v][a] = @ + (-n)]
      /\ balances' = [balances EXCEPT ![v][a][p] = @ + (-n)]
      /\ supplies' = [supplies EXCEPT ![v][a] = @ + (-n)]
  <2>1. /\ idleBalances' = [idleBalances EXCEPT ![v][a] = @ - n]
        /\ totalBalances' = [totalBalances EXCEPT ![v][a] = @ - n]
        /\ balances' = [balances EXCEPT ![v][a][p] = @ - n]
        /\ supplies' = [supplies EXCEPT ![v][a] = @ - n]
    BY DEF Redeemed, PayFromIdle, Burn
  <2>2. QED
    BY <1>3, <2>1 DEF ReceiptTypeOK, VaultTypeOK
<1>6. UNCHANGED strategyAllocations
  BY DEF Redeemed
<1>7. SumsFollow(p, v, a, -n)
  <2>1. -n \in Int /\ idleBalances[v][a] + (-n) >= 0 /\ balances[v][a][p] + (-n) >= 0
    BY <1>3, <1>4
  <2>2. QED
    BY <1>5, <1>6, <2>1, SumsFollowDelta
<1>8. n <= IdleOf(a) /\ n <= ClaimOf(p, a)
  <2> DEFINE F == [w \in VaultIds |-> idleBalances[w][a]]
             G == [w \in VaultIds |-> balances[w][a][p]]
  <2>1. F \in [VaultIds -> Nat] /\ G \in [VaultIds -> Nat]
    BY <1>3 DEF ReceiptTypeOK, VaultTypeOK
  <2>2. /\ F[v] = idleBalances[v][a] /\ G[v] = balances[v][a][p]
        /\ IdleOf(a) = SumFunction(F) /\ ClaimOf(p, a) = SumFunction(G)
    BY DEF IdleOf, ClaimOf
  <2> HIDE DEF F, G
  <2>3. /\ SumFunction(F) \in Nat /\ F[v] <= SumFunction(F)
        /\ SumFunction(G) \in Nat /\ G[v] <= SumFunction(G)
    BY <2>1, FiniteDomains, SumNat
  <2>4. QED
    BY <1>3, <1>4, <2>2, <2>3
<1>9. QED
  BY <1>1, <1>2, <1>7, <1>8 DEF Transfer

LEMMA DeploymentMoves ==
  ASSUME PoolInv, NEW v \in VaultIds, NEW s \in StrategyIds, NEW a \in Assets,
         NEW c \in StrategyContracts, NEW t \in TokensOf(a), NEW n \in Nat,
         Deployed(v, s, a, c, t, n)
  PROVE  /\ n > 0 /\ n <= IdleOf(a)
         /\ \/ UNCHANGED holdings
            \/ n <= PurseOf(VAULT, a) /\ PursesPay(VAULT, c, a, n)
         /\ \A b \in Assets : IdleOf(b)' = IF b = a THEN IdleOf(b) - n ELSE IdleOf(b)
         /\ \A w \in VaultIds, b \in Assets :
              /\ AllocationSum(w, b)' = IF b = a /\ w = v THEN AllocationSum(w, b) + n
                                                         ELSE AllocationSum(w, b)
              /\ idleBalances'[w][b] = IF b = a /\ w = v THEN idleBalances[w][b] - n
                                                        ELSE idleBalances[w][b]
         /\ UNCHANGED <<receiptVars, totalBalances>>
<1> DEFINE i == idleBalances[v][a] - n
           m == strategyAllocations[v][s][a] + n
<1>1. /\ VaultTypeOK
      /\ idleBalances[v][a] \in Nat /\ strategyAllocations[v][s][a] \in Nat
  BY DEF PoolInv, TypeOK, VaultTypeOK
<1>2. /\ n <= idleBalances[v][a]
      /\ idleBalances' = [idleBalances EXCEPT ![v][a] = @ - n]
      /\ strategyAllocations' = [strategyAllocations EXCEPT ![v][s][a] = @ + n]
      /\ UNCHANGED <<receiptVars, totalBalances>>
      /\ n > 0
  BY DEF Deployed, Deploy
<1>3. i \in Nat /\ m \in Nat
  BY <1>1, <1>2
<1>4. IdleWritten(v, a, i) /\ AllocationWritten(v, s, a, m)
  BY <1>1, <1>2 DEF VaultTypeOK, IdleWritten, AllocationWritten
<1>5. \A w \in VaultIds, b \in Assets :
        idleBalances'[w][b] = IF b = a /\ w = v THEN idleBalances[w][b] - n
                                               ELSE idleBalances[w][b]
  BY <1>1, <1>2 DEF VaultTypeOK
<1>6. SumsAreNat
  BY SumTypes DEF PoolInv
<1> HIDE DEF i, m
<1>7. ASSUME NEW b \in Assets
      PROVE  /\ idleBalances[v][b] <= IdleOf(b)
             /\ IdleOf(b)' = IF b = a THEN IdleOf(b) - n ELSE IdleOf(b)
  <2>1. /\ idleBalances[v][b] <= IdleOf(b)
        /\ IdleOf(b)' = IF b = a THEN IdleOf(b) + i - idleBalances[v][b] ELSE IdleOf(b)
    BY <1>1, <1>3, <1>4, IdleChanges
  <2>2. IdleOf(b) \in Nat
    BY <1>6 DEF SumsAreNat
  <2>3. QED
    BY <1>1, <2>1, <2>2 DEF i
<1>8. ASSUME NEW w \in VaultIds, NEW b \in Assets
      PROVE  AllocationSum(w, b)' = IF b = a /\ w = v THEN AllocationSum(w, b) + n
                                                      ELSE AllocationSum(w, b)
  <2>1. AllocationSum(w, b)' =
          IF b = a /\ w = v THEN AllocationSum(w, b) + m - strategyAllocations[v][s][b]
                           ELSE AllocationSum(w, b)
    BY <1>1, <1>3, <1>4, AllocationsChange
  <2>2. AllocationSum(w, b) \in Nat
    BY <1>6 DEF SumsAreNat
  <2>3. QED
    BY <1>1, <2>1, <2>2 DEF m
<1>9. n <= IdleOf(a)
  <2>1. IdleOf(a) \in Nat
    BY <1>6 DEF SumsAreNat
  <2>2. QED
    BY <1>1, <1>2, <1>7, <2>1
<1>10. \/ UNCHANGED holdings
       \/ n <= PurseOf(VAULT, a) /\ PursesPay(VAULT, c, a, n)
  <2>1. VAULT \in Accounts /\ c \in Accounts
    BY DEF Accounts
  <2>2. QED
    BY <2>1, TransferPays DEF Deployed, PoolInv
<1>11. QED
  BY <1>2, <1>5, <1>7, <1>8, <1>9, <1>10

LEMMA GiftMoves ==
  ASSUME PoolInv, NEW p \in Principals, NEW a \in Assets, NEW t \in TokensOf(a), NEW n \in Nat,
         Given(p, t, n)
  PROVE  /\ n > 0 /\ n <= PurseOf(p, a)
         /\ PursesPay(p, VAULT, a, n)
         /\ UNCHANGED <<receiptVars, poolVars>>
<1>1. Transfer(t, p, VAULT, n) /\ p \in Accounts /\ VAULT \in Accounts
  BY DEF Given, Accounts
<1>2. PursesPay(p, VAULT, a, n) /\ n <= PurseOf(p, a)
  BY <1>1, TransferPays DEF PoolInv
<1>3. QED
  BY <1>1, <1>2 DEF Given, Transfer, vaultVars

-----------------------------------------------------------------------------
(* The books.  Each conjunct is inductive beside the pools' invariant: a   *)
(* move writes the same number on both sides of it.                        *)

SumsInv == PoolSplit /\ SharesSumToSupply /\ CustodyCoversIdle

LEMMA SumsInvIs ==
  SumsInv <=>
    /\ \A v \in VaultIds, a \in Assets :
         /\ totalBalances[v][a] = idleBalances[v][a] + AllocationSum(v, a)
         /\ supplies[v][a] = HolderSum(v, a)
    /\ \A a \in Assets : IdleOf(a) <= PurseOf(VAULT, a)
  BY DEF SumsInv, PoolSplit, SharesSumToSupply, CustodyCoversIdle, AllocationSum, HolderSum

LEMMA InitSums == Init => SumsInv
<1> SUFFICES ASSUME Init
             PROVE  SumsInv
  OBVIOUS
<1>1. /\ SumsAreNat /\ ReceiptInit /\ VaultInit /\ ReceiptTypeOK /\ VaultTypeOK
  BY InitType, SumTypes DEF Init, TypeOK
<1>2. ASSUME NEW v \in VaultIds, NEW a \in Assets
      PROVE  AllocationSum(v, a) = 0 /\ HolderSum(v, a) = 0
  <2> DEFINE F == [s \in StrategyIds |-> strategyAllocations[v][s][a]]
             G == balances[v][a]
  <2>1. /\ F \in [StrategyIds -> Nat] /\ \A s \in StrategyIds : F[s] = 0
        /\ G \in [Principals -> Nat] /\ \A h \in Principals : G[h] = 0
    BY <1>1 DEF VaultInit, ReceiptInit
  <2>2. AllocationSum(v, a) = SumFunction(F) /\ HolderSum(v, a) = SumFunction(G)
    BY DEF AllocationSum, HolderSum
  <2> HIDE DEF F, G
  <2>3. QED
    BY <2>1, <2>2, FiniteDomains, SumNat
<1>3. ASSUME NEW a \in Assets
      PROVE  IdleOf(a) = 0 /\ PurseOf(VAULT, a) \in Nat
  <2> DEFINE F == [v \in VaultIds |-> idleBalances[v][a]]
  <2>1. F \in [VaultIds -> Nat] /\ \A v \in VaultIds : F[v] = 0
    BY <1>1 DEF VaultInit
  <2>2. IdleOf(a) = SumFunction(F)
    BY DEF IdleOf
  <2> HIDE DEF F
  <2>3. VAULT \in Accounts
    BY DEF Accounts
  <2>4. QED
    BY <1>1, <2>1, <2>2, <2>3, FiniteDomains, SumNat DEF SumsAreNat
<1>4. ASSUME NEW v \in VaultIds, NEW a \in Assets
      PROVE  totalBalances[v][a] = 0 /\ idleBalances[v][a] = 0 /\ supplies[v][a] = 0
  BY <1>1 DEF VaultInit, ReceiptInit
<1>5. QED
  BY <1>2, <1>3, <1>4, SumsInvIs

LEMMA AnyStepSums == PoolInv /\ SumsInv /\ [AnyNext]_vars => SumsInv'
<1> SUFFICES ASSUME PoolInv, SumsInv, [AnyNext]_vars
             PROVE  SumsInv'
  OBVIOUS
<1> DEFINE Split(v, a) == totalBalances[v][a] = idleBalances[v][a] + AllocationSum(v, a)
           Held(v, a) == supplies[v][a] = HolderSum(v, a)
           Covered(a) == IdleOf(a) <= PurseOf(VAULT, a)
<1>1. /\ \A v \in VaultIds, a \in Assets : Split(v, a) /\ Held(v, a)
      /\ \A a \in Assets : Covered(a)
  BY SumsInvIs
<1>2. SUFFICES /\ \A v \in VaultIds, a \in Assets : Split(v, a)' /\ Held(v, a)'
               /\ \A a \in Assets : Covered(a)'
  BY DEF SumsInv, PoolSplit, SharesSumToSupply, CustodyCoversIdle, AllocationSum, HolderSum
<1>3. SumsAreNat /\ VAULT \in Accounts /\ Amounts \subseteq Nat /\ VAULT \notin Principals
  BY SumTypes, InputAssumption, ChainAssumption DEF PoolInv, Accounts
<1>4. ASSUME NEW v \in VaultIds, NEW a \in Assets
      PROVE  totalBalances[v][a] \in Nat /\ idleBalances[v][a] \in Nat /\ supplies[v][a] \in Nat
  BY DEF PoolInv, TypeOK, ReceiptTypeOK, VaultTypeOK
<1>5. ASSUME NEW a \in Assets
      PROVE  IdleOf(a) \in Nat /\ PurseOf(VAULT, a) \in Nat
  BY <1>3 DEF SumsAreNat
<1>6. ASSUME NEW v \in VaultIds, NEW a \in Assets
      PROVE  HolderSum(v, a) \in Nat /\ AllocationSum(v, a) \in Nat
  BY <1>3 DEF SumsAreNat
<1>7. ASSUME NEW p \in Principals, NEW v \in VaultIds, NEW a \in Assets, NEW n \in Nat,
             n > 0,
             \/ PursesPay(p, VAULT, a, n) /\ SumsFollow(p, v, a, n)
             \/ PursesPay(VAULT, p, a, n) /\ SumsFollow(p, v, a, -n)
      PROVE  /\ \A w \in VaultIds, b \in Assets : Split(w, b)' /\ Held(w, b)'
             /\ \A b \in Assets : Covered(b)'
  <2>1. ASSUME NEW w \in VaultIds, NEW b \in Assets
        PROVE  Split(w, b)' /\ Held(w, b)'
    BY <1>1, <1>4, <1>6, <1>7 DEF SumsFollow
  <2>2. ASSUME NEW b \in Assets
        PROVE  Covered(b)'
    BY <1>1, <1>3, <1>5, <1>7 DEF SumsFollow, PursesPay
  <2>3. QED
    BY <2>1, <2>2
<1>8. CASE PoolStep \/ AnyPoolStep
  <2>1. PICK p \in Principals, v \in VaultIds, a \in Assets, n \in Nat :
          \E t \in TokensOf(a) : Deposited(p, v, a, t, n) \/ Redeemed(p, v, a, t, n)
    BY <1>8, PoolStepIsAny, AnyPoolStepMoves
  <2>2. /\ n > 0
        /\ \/ PursesPay(p, VAULT, a, n) /\ SumsFollow(p, v, a, n)
           \/ PursesPay(VAULT, p, a, n) /\ SumsFollow(p, v, a, -n)
    BY <2>1, DepositMoves, RedemptionMoves
  <2>3. QED
    BY <1>7, <2>2
<1>9. CASE EngineStep
  <2>1. PICK v \in VaultIds, s \in StrategyIds, a \in Assets, n \in Amounts :
          \E c \in StrategyContracts, t \in TokensOf(a) : Deployed(v, s, a, c, t, n)
    BY <1>9, EngineStepMoves
  <2>2. PICK c \in StrategyContracts, t \in TokensOf(a) : Deployed(v, s, a, c, t, n)
    BY <2>1
  <2>3. n \in Nat
    BY <1>3
  <2>4. /\ \/ UNCHANGED holdings
           \/ PursesPay(VAULT, c, a, n)
        /\ \A b \in Assets : IdleOf(b)' = IF b = a THEN IdleOf(b) - n ELSE IdleOf(b)
        /\ \A w \in VaultIds, b \in Assets :
             /\ AllocationSum(w, b)' = IF b = a /\ w = v THEN AllocationSum(w, b) + n
                                                        ELSE AllocationSum(w, b)
             /\ idleBalances'[w][b] = IF b = a /\ w = v THEN idleBalances[w][b] - n
                                                       ELSE idleBalances[w][b]
        /\ UNCHANGED <<receiptVars, totalBalances>>
    BY <2>2, <2>3, DeploymentMoves
  <2>5. ASSUME NEW w \in VaultIds, NEW b \in Assets
        PROVE  Split(w, b)' /\ Held(w, b)'
    <3>1. Held(w, b)'
      BY <1>1, <2>4, UnchangedSums DEF receiptVars
    <3>2. Split(w, b)'
      BY <1>1, <1>4, <1>6, <2>3, <2>4
    <3>3. QED
      BY <3>1, <3>2
  <2>6. ASSUME NEW b \in Assets
        PROVE  Covered(b)'
    <3>1. CASE UNCHANGED holdings
      <4>1. PurseOf(VAULT, b)' = PurseOf(VAULT, b)
        BY <1>3, <3>1, UnchangedSums
      <4>2. QED
        BY <1>1, <1>5, <2>3, <2>4, <4>1
    <3>2. CASE PursesPay(VAULT, c, a, n)
      BY <1>1, <1>3, <1>5, <2>3, <2>4, <3>2 DEF PursesPay
    <3>3. QED
      BY <2>4, <3>1, <3>2
  <2>7. QED
    BY <2>5, <2>6
<1>10. CASE ([Next]_vars /\ ~PoolStep /\ ~EngineStep) \/ AnyVaultConfigStep
  <2>1. CASE UNCHANGED <<holdings, receiptVars, poolVars>>
    BY <1>1, <1>3, <2>1, UnchangedSums DEF receiptVars, poolVars
  <2>2. ASSUME NEW p \in Principals, NEW a \in Assets, NEW n \in Amounts, NEW t \in TokensOf(a),
               Given(p, t, n)
        PROVE  /\ \A w \in VaultIds, b \in Assets : Split(w, b)' /\ Held(w, b)'
               /\ \A b \in Assets : Covered(b)'
    <3>1. n \in Nat
      BY <1>3
    <3>2. PursesPay(p, VAULT, a, n) /\ UNCHANGED <<receiptVars, poolVars>>
      BY <2>2, <3>1, GiftMoves
    <3>3. \A w \in VaultIds, b \in Assets : Split(w, b)' /\ Held(w, b)'
      BY <1>1, <3>2, UnchangedSums DEF receiptVars, poolVars
    <3>4. ASSUME NEW b \in Assets
          PROVE  Covered(b)'
      <4>1. IdleOf(b)' = IdleOf(b)
        BY <3>2, UnchangedSums DEF poolVars
      <4>2. QED
        BY <1>1, <1>3, <1>5, <3>1, <3>2, <4>1 DEF PursesPay
    <3>5. QED
      BY <3>3, <3>4
  <2>3. QED
    BY <1>10, <2>1, <2>2, OtherStepMoves
<1>11. QED
  BY <1>8, <1>9, <1>10 DEF AnyNext

LEMMA SumsInvariant == Spec => []SumsInv
<1>1. PoolInv /\ SumsInv /\ [Next]_vars => SumsInv'
  BY NextIsAny, AnyStepSums
<1>2. QED
  BY <1>1, InitSums, PoolsInvariant, PTL DEF Spec

(* The contract's tokens cover the idle balances of all vaults together,   *)
(* and the supply is what the holders have and what the pool has, for      *)
(* every number of vaults, holders and tokens (sovereignty-vault-v7.clar,  *)
(* receipt-token-v7.clar).                                                 *)
THEOREM CustodyKept == Spec => []CustodyBooks
<1>1. PoolInv /\ SumsInv => CustodyBooks
  BY DEF PoolInv, SumsInv, CustodyBooks
<1>2. QED
  BY <1>1, PoolsInvariant, SumsInvariant, PTL

(* What is not idle is allocated, to the unit, over every number of        *)
(* strategies, and what is allocated has a home.                           *)
THEOREM AllocationsKept == Spec => []AllocationBooks
<1>1. SumsInv /\ BooksInv => AllocationBooks
  BY DEF SumsInv, BooksInv, AllocationBooks
<1>2. QED
  BY <1>1, SumsInvariant, BooksInvariant, PTL

-----------------------------------------------------------------------------
(* Claims. *)

(* A holding is worth its shares. *)
ClaimsAreShares ==
  \A v \in VaultIds, a \in Assets, h \in Principals :
    Claim(balances[v][a][h], supplies[v][a], totalBalances[v][a]) = balances[v][a][h]

LEMMA SharesAreClaims == PoolInv /\ SumsInv => ClaimsAreShares
<1> SUFFICES ASSUME PoolInv, SumsInv,
                    NEW v \in VaultIds, NEW a \in Assets, NEW h \in Principals
             PROVE  Claim(balances[v][a][h], supplies[v][a], totalBalances[v][a])
                      = balances[v][a][h]
  BY DEF ClaimsAreShares
<1>1. /\ balances[v][a] \in [Principals -> Nat] /\ supplies[v][a] \in Nat
      /\ totalBalances[v][a] = supplies[v][a]
  BY DEF PoolInv, PoolParity, TypeOK, ReceiptTypeOK
<1>2. supplies[v][a] = SumFunction(balances[v][a])
  BY DEF SumsInv, SharesSumToSupply
<1>3. balances[v][a][h] \in Nat /\ balances[v][a][h] <= supplies[v][a]
  BY <1>1, <1>2, FiniteDomains, SumNat
<1>4. CASE supplies[v][a] = 0
  BY <1>3, <1>4 DEF Claim
<1>5. CASE supplies[v][a] > 0
  BY <1>1, <1>3, <1>5, ExactQuotient DEF Claim
<1>6. QED
  BY <1>1, <1>4, <1>5

(* Whatever anyone does, a holder who keeps the same shares keeps what     *)
(* they are worth: with every price one, no rounding and no order of       *)
(* deposits, redemptions and deployments takes from one holder for another.*)
THEOREM NoDilution == Spec => ClaimsUndiluted
<1> DEFINE Undiluted ==
      \A v \in VaultIds, a \in Assets, h \in Principals :
        balances'[v][a][h] = balances[v][a][h] =>
          Claim(balances[v][a][h], supplies[v][a], totalBalances[v][a])'
            = Claim(balances[v][a][h], supplies[v][a], totalBalances[v][a])
<1>1. PoolInv /\ SumsInv => ClaimsAreShares
  BY SharesAreClaims
<1>2. ClaimsAreShares /\ ClaimsAreShares' => Undiluted
  BY DEF ClaimsAreShares
<1>3. QED
  BY <1>1, <1>2, PoolsInvariant, SumsInvariant, PTL DEF ClaimsUndiluted

-----------------------------------------------------------------------------
(* The ledger of claims. *)

LEMMA InitLedger == Init => Ledger!Init
<1> SUFFICES ASSUME Init
             PROVE  Ledger!Init
  OBVIOUS
<1>1. /\ ChainInit /\ ReceiptInit /\ VaultInit
      /\ ChainTypeOK /\ ReceiptTypeOK /\ VaultTypeOK
  BY InitType DEF Init, TypeOK
<1> DEFINE Grants == [a \in Assets |-> SumFunction([t \in TokensOf(a) |-> InitialHoldings])]
<1>2. ASSUME NEW x \in Accounts, NEW a \in Assets
      PROVE  PurseOf(x, a) = IF x \in Principals THEN Grants[a] ELSE 0
  <2> DEFINE F == [t \in TokensOf(a) |-> holdings[t][x]]
             G == [t \in TokensOf(a) |-> InitialHoldings]
  <2>1. \A t \in TokensOf(a) : F[t] = IF x \in Principals THEN InitialHoldings ELSE 0
    BY <1>1 DEF ChainInit, TokensOf, Tokens
  <2>2. F \in [TokensOf(a) -> Nat]
    BY <1>1 DEF ChainTypeOK, TokensOf, Tokens
  <2>3. x \in Principals => F = G
    BY <2>1
  <2>4. PurseOf(x, a) = SumFunction(F) /\ Grants[a] = SumFunction(G)
    BY DEF PurseOf
  <2> HIDE DEF F, G, Grants
  <2>5. x \notin Principals => SumFunction(F) = 0
    BY <2>1, <2>2, FiniteDomains, SumNat
  <2>6. QED
    BY <2>3, <2>4, <2>5
<1>3. ASSUME NEW h \in Principals, NEW a \in Assets
      PROVE  ClaimOf(h, a) = 0
  <2> DEFINE F == [v \in VaultIds |-> balances[v][a][h]]
  <2>1. F \in [VaultIds -> Nat] /\ \A v \in VaultIds : F[v] = 0
    BY <1>1 DEF ReceiptInit
  <2>2. ClaimOf(h, a) = SumFunction(F)
    BY DEF ClaimOf
  <2> HIDE DEF F
  <2>3. QED
    BY <2>1, <2>2, FiniteDomains, SumNat
<1>4. ASSUME NEW a \in Assets
      PROVE  IdleOf(a) = 0
  <2> DEFINE F == [v \in VaultIds |-> idleBalances[v][a]]
  <2>1. F \in [VaultIds -> Nat] /\ \A v \in VaultIds : F[v] = 0
    BY <1>1 DEF VaultInit
  <2>2. IdleOf(a) = SumFunction(F)
    BY DEF IdleOf
  <2> HIDE DEF F
  <2>3. QED
    BY <2>1, <2>2, FiniteDomains, SumNat
<1>5. [x \in Accounts |-> [a \in Assets |-> PurseOf(x, a)]]
        = [x \in Principals \cup StrategyContracts \cup {VAULT} |->
             [a \in Assets |-> IF x \in Principals THEN Grants[a] ELSE 0]]
  <2> HIDE DEF Grants
  <2>1. QED
    BY <1>2 DEF Accounts
<1>6. QED
  BY <1>3, <1>4, <1>5 DEF Ledger!Init

(* The abstract variables, as functions. *)
Purses == [x \in Accounts |-> [a \in Assets |-> PurseOf(x, a)]]
Claims == [h \in Principals |-> [a \in Assets |-> ClaimOf(h, a)]]
Idles == [a \in Assets |-> IdleOf(a)]

LEMMA LedgerPays ==
  ASSUME NEW from \in Accounts, NEW to \in Accounts, from # to, NEW a \in Assets, NEW n \in Nat,
         n > 0, n <= PurseOf(from, a), PursesPay(from, to, a, n)
  PROVE  Ledger!Pays(from, to, a, n)
<1>1. Purses' = [Purses EXCEPT ![from][a] = @ - n, ![to][a] = @ + n]
  BY DEF Purses, PursesPay
<1>2. n <= Purses[from][a]
  BY DEF Purses
<1>3. QED
  BY <1>1, <1>2 DEF Ledger!Pays, Purses

LEMMA LedgerFollows ==
  ASSUME NEW p \in Principals, NEW v \in VaultIds, NEW a \in Assets, NEW d \in Int,
         SumsFollow(p, v, a, d)
  PROVE  /\ Claims' = [Claims EXCEPT ![p][a] = @ + d]
         /\ Idles' = [Idles EXCEPT ![a] = @ + d]
<1>1. \A h \in Principals, b \in Assets :
        ClaimOf(h, b)' = IF b = a /\ h = p THEN ClaimOf(h, b) + d ELSE ClaimOf(h, b)
  BY DEF SumsFollow
<1>2. Claims' = [Claims EXCEPT ![p][a] = @ + d]
  BY <1>1 DEF Claims
<1>3. \A b \in Assets : IdleOf(b)' = IF b = a THEN IdleOf(b) + d ELSE IdleOf(b)
  BY ChainAssumption DEF SumsFollow
<1>4. Idles' = [Idles EXCEPT ![a] = @ + d]
  BY <1>3 DEF Idles
<1>5. QED
  BY <1>2, <1>4

LEMMA StepLedger == PoolInv /\ [Next]_vars => [Ledger!Next]_(Ledger!vars)
<1> SUFFICES ASSUME PoolInv, [Next]_vars
             PROVE  Ledger!Next \/ UNCHANGED Ledger!vars
  OBVIOUS
<1>1. /\ Amounts \subseteq Nat /\ VAULT \in Accounts /\ Principals \subseteq Accounts
      /\ StrategyContracts \subseteq Accounts
      /\ VAULT \notin Principals /\ VAULT \notin StrategyContracts
  BY InputAssumption, ChainAssumption DEF Accounts
<1>2. ASSUME UNCHANGED holdings
      PROVE  UNCHANGED Purses
  BY <1>2, UnchangedSums DEF Purses
<1>3. ASSUME UNCHANGED receiptVars
      PROVE  UNCHANGED Claims
  BY <1>3, UnchangedSums DEF Claims, receiptVars
<1>4. ASSUME UNCHANGED poolVars
      PROVE  UNCHANGED Idles
  BY <1>4, UnchangedSums DEF Idles, poolVars
<1>5. CASE PoolStep
  <2>1. PICK p \in Principals, v \in VaultIds, a \in Assets, n \in Amounts :
          \E t \in TokensOf(a) : Deposited(p, v, a, t, n) \/ Redeemed(p, v, a, t, n)
    BY <1>5, PoolStepMoves
  <2>2. n \in Nat /\ -n \in Int
    BY <1>1
  <2>3. CASE \E t \in TokensOf(a) : Deposited(p, v, a, t, n)
    <3>1. n > 0 /\ n <= PurseOf(p, a) /\ PursesPay(p, VAULT, a, n) /\ SumsFollow(p, v, a, n)
      BY <2>2, <2>3, DepositMoves
    <3>2. Ledger!Pays(p, VAULT, a, n)
      BY <1>1, <2>2, <3>1, LedgerPays
    <3>3. Claims' = [Claims EXCEPT ![p][a] = @ + n] /\ Idles' = [Idles EXCEPT ![a] = @ + n]
      BY <2>2, <3>1, LedgerFollows
    <3>4. Ledger!Deposit(p, a, n)
      BY <3>2, <3>3 DEF Ledger!Deposit, Claims, Idles
    <3>5. QED
      BY <3>4 DEF Ledger!Next
  <2>4. CASE \E t \in TokensOf(a) : Redeemed(p, v, a, t, n)
    <3>1. /\ n > 0 /\ n <= PurseOf(VAULT, a)
          /\ n <= ClaimOf(p, a) /\ n <= IdleOf(a)
          /\ PursesPay(VAULT, p, a, n) /\ SumsFollow(p, v, a, -n)
      BY <2>2, <2>4, RedemptionMoves
    <3>2. Ledger!Pays(VAULT, p, a, n)
      BY <1>1, <2>2, <3>1, LedgerPays
    <3>3. Claims' = [Claims EXCEPT ![p][a] = @ + (-n)] /\ Idles' = [Idles EXCEPT ![a] = @ + (-n)]
      BY <2>2, <3>1, LedgerFollows
    <3>4. Claims' = [Claims EXCEPT ![p][a] = @ - n] /\ Idles' = [Idles EXCEPT ![a] = @ - n]
      <4>1. ClaimOf(p, a) + (-n) = ClaimOf(p, a) - n /\ IdleOf(a) + (-n) = IdleOf(a) - n
        BY SumTypes, <2>2 DEF PoolInv, SumsAreNat
      <4>2. QED
        BY <3>3, <4>1 DEF Claims, Idles
    <3>5. n <= Claims[p][a] /\ n <= Idles[a]
      BY <3>1 DEF Claims, Idles
    <3>6. Ledger!Withdraw(p, a, n)
      BY <3>2, <3>4, <3>5 DEF Ledger!Withdraw, Claims, Idles
    <3>7. QED
      BY <3>6 DEF Ledger!Next
  <2>5. QED
    BY <2>1, <2>3, <2>4
<1>6. CASE EngineStep
  <2>1. PICK v \in VaultIds, s \in StrategyIds, a \in Assets, n \in Amounts :
          \E c \in StrategyContracts, t \in TokensOf(a) : Deployed(v, s, a, c, t, n)
    BY <1>6, EngineStepMoves
  <2>2. PICK c \in StrategyContracts, t \in TokensOf(a) : Deployed(v, s, a, c, t, n)
    BY <2>1
  <2>3. n \in Nat
    BY <1>1
  <2>4. /\ n > 0 /\ n <= IdleOf(a)
        /\ \/ UNCHANGED holdings
           \/ n <= PurseOf(VAULT, a) /\ PursesPay(VAULT, c, a, n)
        /\ \A b \in Assets : IdleOf(b)' = IF b = a THEN IdleOf(b) - n ELSE IdleOf(b)
        /\ UNCHANGED receiptVars
    BY <2>2, <2>3, DeploymentMoves
  <2>5. Ledger!Pays(VAULT, c, a, n) \/ UNCHANGED Purses
    BY <1>1, <1>2, <2>3, <2>4, LedgerPays
  <2>6. Idles' = [Idles EXCEPT ![a] = @ - n] /\ n <= Idles[a]
    BY <2>4 DEF Idles
  <2>7. UNCHANGED Claims
    BY <1>3, <2>4
  <2>8. Ledger!Invest(c, a, n)
    BY <2>5, <2>6, <2>7 DEF Ledger!Invest, Purses, Claims, Idles
  <2>9. QED
    BY <2>8 DEF Ledger!Next
<1>7. CASE ~PoolStep /\ ~EngineStep
  <2>1. CASE UNCHANGED <<holdings, receiptVars, poolVars>>
    <3>1. UNCHANGED <<Purses, Claims, Idles>>
      BY <1>2, <1>3, <1>4, <2>1
    <3>2. QED
      BY <3>1 DEF Ledger!vars, Purses, Claims, Idles
  <2>2. ASSUME NEW p \in Principals, NEW a \in Assets, NEW n \in Amounts, NEW t \in TokensOf(a),
               Given(p, t, n)
        PROVE  Ledger!Next
    <3>1. n \in Nat
      BY <1>1
    <3>2. /\ n > 0 /\ n <= PurseOf(p, a) /\ PursesPay(p, VAULT, a, n)
          /\ UNCHANGED <<receiptVars, poolVars>>
      BY <2>2, <3>1, GiftMoves
    <3>3. Ledger!Pays(p, VAULT, a, n)
      BY <1>1, <3>1, <3>2, LedgerPays
    <3>4. UNCHANGED <<Claims, Idles>>
      BY <1>3, <1>4, <3>2
    <3>5. Ledger!Give(p, a, n)
      BY <3>3, <3>4 DEF Ledger!Give, Claims, Idles
    <3>6. QED
      BY <3>5 DEF Ledger!Next
  <2>3. QED
    BY <1>7, <2>1, <2>2, OtherStepMoves
<1>8. QED
  BY <1>5, <1>6, <1>7

(* The protocol implements the ledger of claims, for every set of wallets, *)
(* vaults, strategies and tokens: whatever prices, caps, pauses and        *)
(* permissions decide which calls succeed, a call that does moves units    *)
(* one for one between a purse and a claim, or invests idle units.         *)
THEOREM TreasuryImplementsLedger == Spec => TreasuryIsLedger
<1>1. PoolInv /\ [Next]_vars => [Ledger!Next]_(Ledger!vars)
  BY StepLedger
<1>2. QED
  BY <1>1, InitLedger, PoolsInvariant, PTL DEF Spec, TreasuryIsLedger, Ledger!Spec

-----------------------------------------------------------------------------
(* Wealth. *)

LEMMA StepWealth ==
  ASSUME PoolInv, [Next]_vars, NEW h \in Principals, NEW a \in Assets
  PROVE  \/ Wealth(h, a)' = Wealth(h, a)
         \/ Wealth(h, a)' < Wealth(h, a) /\ UNCHANGED <<balances, totalBalances>>
<1>1. /\ Amounts \subseteq Nat /\ h \in Accounts
      /\ VAULT \notin Principals /\ Principals \cap StrategyContracts = {}
  BY InputAssumption, ChainAssumption DEF Accounts
<1>2. /\ PurseOf(h, a) \in Nat /\ ClaimOf(h, a) \in Nat
      /\ Wealth(h, a) = PurseOf(h, a) + ClaimOf(h, a)
      /\ Wealth(h, a)' = PurseOf(h, a)' + ClaimOf(h, a)'
  BY <1>1, SumTypes DEF PoolInv, SumsAreNat, Wealth
<1>3. CASE PoolStep
  <2>1. PICK p \in Principals, v \in VaultIds, b \in Assets, n \in Amounts :
          \E t \in TokensOf(b) : Deposited(p, v, b, t, n) \/ Redeemed(p, v, b, t, n)
    BY <1>3, PoolStepMoves
  <2>2. n \in Nat
    BY <1>1
  <2>3. \/ PursesPay(p, VAULT, b, n) /\ SumsFollow(p, v, b, n)
        \/ PursesPay(VAULT, p, b, n) /\ SumsFollow(p, v, b, -n)
    BY <2>1, <2>2, DepositMoves, RedemptionMoves
  <2>4. CASE PursesPay(p, VAULT, b, n) /\ SumsFollow(p, v, b, n)
    <3>1. /\ PurseOf(h, a)' = IF a = b /\ h = p THEN PurseOf(h, a) - n ELSE PurseOf(h, a)
          /\ ClaimOf(h, a)' = IF a = b /\ h = p THEN ClaimOf(h, a) + n ELSE ClaimOf(h, a)
      BY <1>1, <2>4 DEF PursesPay, SumsFollow
    <3>2. QED
      BY <1>2, <2>2, <3>1
  <2>5. CASE PursesPay(VAULT, p, b, n) /\ SumsFollow(p, v, b, -n)
    <3>1. /\ PurseOf(h, a)' = IF a = b /\ h = p THEN PurseOf(h, a) + n ELSE PurseOf(h, a)
          /\ ClaimOf(h, a)' = IF a = b /\ h = p THEN ClaimOf(h, a) + (-n) ELSE ClaimOf(h, a)
      BY <1>1, <2>5 DEF PursesPay, SumsFollow
    <3>2. QED
      BY <1>2, <2>2, <3>1
  <2>6. QED
    BY <2>3, <2>4, <2>5
<1>4. CASE EngineStep
  <2>1. PICK v \in VaultIds, s \in StrategyIds, b \in Assets, n \in Amounts :
          \E c \in StrategyContracts, t \in TokensOf(b) : Deployed(v, s, b, c, t, n)
    BY <1>4, EngineStepMoves
  <2>2. PICK c \in StrategyContracts, t \in TokensOf(b) : Deployed(v, s, b, c, t, n)
    BY <2>1
  <2>3. n \in Nat
    BY <1>1
  <2>4. (UNCHANGED holdings \/ PursesPay(VAULT, c, b, n)) /\ UNCHANGED receiptVars
    BY <2>2, <2>3, DeploymentMoves
  <2>5. PurseOf(h, a)' = PurseOf(h, a)
    BY <1>1, <2>4, UnchangedSums DEF PursesPay
  <2>6. ClaimOf(h, a)' = ClaimOf(h, a)
    BY <2>4, UnchangedSums DEF receiptVars
  <2>7. QED
    BY <1>2, <2>5, <2>6
<1>5. CASE ~PoolStep /\ ~EngineStep
  <2>1. CASE UNCHANGED <<holdings, receiptVars, poolVars>>
    <3>1. PurseOf(h, a)' = PurseOf(h, a) /\ ClaimOf(h, a)' = ClaimOf(h, a)
      BY <1>1, <2>1, UnchangedSums DEF receiptVars
    <3>2. QED
      BY <1>2, <3>1
  <2>2. ASSUME NEW p \in Principals, NEW b \in Assets, NEW n \in Amounts, NEW t \in TokensOf(b),
               Given(p, t, n)
        PROVE  \/ Wealth(h, a)' = Wealth(h, a)
               \/ Wealth(h, a)' < Wealth(h, a) /\ UNCHANGED <<balances, totalBalances>>
    <3>1. n \in Nat
      BY <1>1
    <3>2. n > 0 /\ PursesPay(p, VAULT, b, n) /\ UNCHANGED <<receiptVars, poolVars>>
      BY <2>2, <3>1, GiftMoves
    <3>3. /\ ClaimOf(h, a)' = ClaimOf(h, a)
          /\ UNCHANGED <<balances, totalBalances>>
      BY <3>2, UnchangedSums DEF receiptVars, poolVars
    <3>4. PurseOf(h, a)' = IF a = b /\ h = p THEN PurseOf(h, a) - n ELSE PurseOf(h, a)
      BY <1>1, <3>2 DEF PursesPay
    <3>5. QED
      BY <1>2, <3>1, <3>2, <3>3, <3>4
  <2>3. QED
    BY <1>5, <2>1, <2>2, OtherStepMoves
<1>6. QED
  BY <1>3, <1>4, <1>5

(* No call of anyone moves value from one wallet to another: what a wallet *)
(* has in tokens and in shares of all vaults changes by its own gifts to   *)
(* the contract alone.                                                     *)
THEOREM WealthKept == Spec => WealthConserved
<1> DEFINE Kept ==
      \A h \in Principals, a \in Assets :
        \/ Wealth(h, a)' = Wealth(h, a)
        \/ Wealth(h, a)' < Wealth(h, a) /\ UNCHANGED <<balances, totalBalances>>
<1>1. PoolInv /\ [Next]_vars => Kept
  BY StepWealth
<1>2. QED
  BY <1>1, PoolsInvariant, PTL DEF Spec, WealthConserved

-----------------------------------------------------------------------------
(* The discovery indexes.  A list never loses an entry; it gains one when  *)
(* a vault is created, whose id is new, and when a holder registers, who   *)
(* was not registered.                                                     *)

LEMMA OccurrencesOfAppend ==
  ASSUME NEW S, NEW s \in Seq(S), NEW x, NEW y \in S
  PROVE  /\ Occurrences(x, s) \in Nat
         /\ Occurrences(x, Append(s, y)) = IF x = y THEN Occurrences(x, s) + 1
                                                   ELSE Occurrences(x, s)
<1> DEFINE I == {i \in DOMAIN s : s[i] = x}
           J == {i \in DOMAIN Append(s, y) : Append(s, y)[i] = x}
           n == Len(s) + 1
<1>1. Len(s) \in Nat /\ DOMAIN s = 1 .. Len(s)
  OBVIOUS
<1>2. /\ DOMAIN Append(s, y) = 1 .. n
      /\ \A i \in 1 .. Len(s) : Append(s, y)[i] = s[i]
      /\ Append(s, y)[n] = y
  BY <1>1
<1>3. IsFiniteSet(I) /\ n \notin I
  <2>1. IsFiniteSet(1 .. Len(s))
    BY <1>1, FS_Interval
  <2>2. QED
    BY <1>1, <2>1, FS_Subset
<1>4. J = IF x = y THEN I \cup {n} ELSE I
  BY <1>1, <1>2
<1>5. Occurrences(x, s) = Cardinality(I) /\ Occurrences(x, Append(s, y)) = Cardinality(J)
  BY DEF Occurrences
<1> HIDE DEF I, J, n
<1>6. Cardinality(I) \in Nat /\ Cardinality(I \cup {n}) = Cardinality(I) + 1
  BY <1>3, FS_CardinalityType, FS_AddElement
<1>7. QED
  BY <1>4, <1>5, <1>6

(* The conjuncts of IndexesComplete, for one wallet and one vault. *)
OwnedOnce(p, v) ==
  Occurrences(v, ownerVaults[p]) = IF vaults[v] # Absent /\ vaults[v].owner = p THEN 1 ELSE 0

HeldOnce(p, v) ==
  /\ Occurrences(v, holderVaults[p]) = IF v \in holderRegistered[p] THEN 1 ELSE 0
  /\ (\E a \in Assets : balances[v][a][p] > 0) => v \in holderRegistered[p]

LEMMA IndexesAre ==
  /\ IndexesComplete => \A p \in Principals, v \in VaultIds : OwnedOnce(p, v) /\ HeldOnce(p, v)
  /\ (\A p \in Principals, v \in VaultIds : OwnedOnce(p, v) /\ HeldOnce(p, v)) => IndexesComplete
  BY DEF IndexesComplete, OwnedOnce, HeldOnce

LEMMA InitIndexes == Init => IndexesComplete
<1> SUFFICES ASSUME Init, NEW p \in Principals, NEW v \in VaultIds
             PROVE  OwnedOnce(p, v) /\ HeldOnce(p, v)
  BY IndexesAre
<1>1. /\ vaults[v] = Absent /\ ownerVaults[p] = <<>> /\ holderVaults[p] = <<>>
      /\ holderRegistered[p] = {}
      /\ \A a \in Assets : balances[v][a][p] = 0
  BY DEF Init, VaultInit, ReceiptInit
<1>2. Occurrences(v, <<>>) = 0
  <2>1. {i \in DOMAIN <<>> : <<>>[i] = v} = {}
    OBVIOUS
  <2>2. QED
    BY <2>1, FS_EmptySet DEF Occurrences
<1>3. QED
  BY <1>1, <1>2 DEF OwnedOnce, HeldOnce

(* Every vault keeps its owner and every list its vaults, but for the one  *)
(* that is created.                                                        *)
LEMMA VaultConfigStepKeepsOwners ==
  ASSUME PoolInv, ConfigMirrorsVaults, \A p \in Principals, v \in VaultIds : OwnedOnce(p, v),
         AnyVaultConfigStep
  PROVE  /\ \A p \in Principals, v \in VaultIds : OwnedOnce(p, v)'
         /\ UNCHANGED indexVars
<1>1. /\ vaults \in [VaultIds -> Vault \cup {Absent}]
      /\ ownerVaults \in [Principals -> Seq(VaultIds)]
      /\ nextVaultId \in 1 .. (MaxVaults + 1) /\ MaxVaults \in Nat
  BY ChainAssumption DEF PoolInv, TypeOK, VaultTypeOK
<1>2. ASSUME NEW o \in Principals, NEW name, NEW purpose \in Nat, NEW mode \in Nat,
             NEW open \in BOOLEAN, NEW params, CreateVault(o, name, purpose, mode, open, params)
      PROVE  (\A p \in Principals, v \in VaultIds : OwnedOnce(p, v)') /\ UNCHANGED indexVars
  <2> DEFINE new == [owner |-> o, purpose |-> purpose, assets |-> mode,
                     openDeposits |-> open, paused |-> FALSE]
             longer == Append(ownerVaults[o], nextVaultId)
  <2>1. /\ vaults' = [vaults EXCEPT ![nextVaultId] = new]
        /\ ownerVaults' = [ownerVaults EXCEPT ![o] = longer]
        /\ nextVaultId <= MaxVaults
        /\ purpose <= 5 /\ mode >= 1 /\ mode <= 3
        /\ UNCHANGED indexVars
    BY <1>2 DEF CreateVault
  <2>2. nextVaultId \in VaultIds
    BY <1>1, <2>1 DEF VaultIds
  <2>3. new # Absent /\ new.owner = o
    <3>1. new \in Vault
      BY <2>1 DEF Vault
    <3>2. QED
      BY <3>1, VaultAssumption
  <2>4. vaults[nextVaultId] = Absent
    BY <1>1, <2>2 DEF ConfigMirrorsVaults
  <2>5. \A v \in VaultIds :
          /\ Occurrences(v, ownerVaults[o]) \in Nat
          /\ Occurrences(v, longer) = IF v = nextVaultId THEN Occurrences(v, ownerVaults[o]) + 1
                                                        ELSE Occurrences(v, ownerVaults[o])
    BY <1>1, <2>2, OccurrencesOfAppend
  <2> HIDE DEF new, longer
  <2>6. ASSUME NEW p \in Principals, NEW v \in VaultIds
        PROVE  /\ vaults'[v] = IF v = nextVaultId THEN new ELSE vaults[v]
               /\ ownerVaults'[p] = IF p = o THEN longer ELSE ownerVaults[p]
    BY <1>1, <2>1, <2>2
  <2>7. ASSUME NEW p \in Principals, NEW v \in VaultIds
        PROVE  OwnedOnce(p, v)'
    <3>1. OwnedOnce(p, v)
      OBVIOUS
    <3>2. CASE v = nextVaultId
      <4>1. Occurrences(v, ownerVaults[p]) = 0
        BY <2>4, <3>1, <3>2 DEF OwnedOnce
      <4>2. Occurrences(v, ownerVaults'[p]) = IF p = o THEN 1 ELSE 0
        BY <2>5, <2>6, <3>2, <4>1
      <4>3. QED
        BY <2>3, <2>6, <3>2, <4>2 DEF OwnedOnce
    <3>3. CASE v # nextVaultId
      <4>1. Occurrences(v, ownerVaults'[p]) = Occurrences(v, ownerVaults[p])
        BY <2>5, <2>6, <3>3
      <4>2. QED
        BY <2>6, <3>1, <3>3, <4>1 DEF OwnedOnce
    <3>4. QED
      BY <3>2, <3>3
  <2>8. QED
    BY <2>1, <2>7
<1>3. ASSUME NEW v \in VaultIds, NEW new \in Vault, new.owner = vaults[v].owner,
             vaults[v] # Absent, vaults' = [vaults EXCEPT ![v] = new],
             UNCHANGED <<ownerVaults, indexVars>>
      PROVE  (\A p \in Principals, w \in VaultIds : OwnedOnce(p, w)') /\ UNCHANGED indexVars
  <2>1. new # Absent
    BY VaultAssumption
  <2>2. vaults'[v] = new /\ \A w \in VaultIds : w # v => vaults'[w] = vaults[w]
    BY <1>1, <1>3
  <2>3. ASSUME NEW p \in Principals, NEW w \in VaultIds
        PROVE  OwnedOnce(p, w)'
    <3>1. OwnedOnce(p, w)
      OBVIOUS
    <3>2. QED
      BY <1>3, <2>1, <2>2, <3>1 DEF OwnedOnce
  <2>4. QED
    BY <1>3, <2>3
<1>4. ASSUME NEW p, NEW v \in VaultIds, NEW name, NEW open \in BOOLEAN,
             SetVaultConfig(p, v, name, open) \/ SetPaused(p, v, open)
      PROVE  (\A q \in Principals, w \in VaultIds : OwnedOnce(q, w)') /\ UNCHANGED indexVars
  <2>1. vaults[v] \in Vault /\ vaults[v] # Absent /\ UNCHANGED <<ownerVaults, indexVars>>
    BY <1>1, <1>4 DEF SetVaultConfig, SetPaused, IsOwner
  <2>2. \/ vaults' = [vaults EXCEPT ![v] = [vaults[v] EXCEPT !.openDeposits = open]]
        \/ vaults' = [vaults EXCEPT ![v] = [vaults[v] EXCEPT !.paused = open]]
    BY <1>4 DEF SetVaultConfig, SetPaused
  <2>3. /\ [vaults[v] EXCEPT !.openDeposits = open] \in Vault
        /\ [vaults[v] EXCEPT !.openDeposits = open].owner = vaults[v].owner
        /\ [vaults[v] EXCEPT !.paused = open] \in Vault
        /\ [vaults[v] EXCEPT !.paused = open].owner = vaults[v].owner
    BY <2>1 DEF Vault
  <2>4. QED
    BY <1>3, <2>1, <2>2, <2>3
<1>5. ASSUME NEW p, NEW v, NEW params, SetRiskConfig(p, v, params) \/ SetAutonomousMode(p, v, params)
      PROVE  (\A q \in Principals, w \in VaultIds : OwnedOnce(q, w)') /\ UNCHANGED indexVars
  <2>1. UNCHANGED <<vaults, ownerVaults, indexVars>>
    BY <1>5 DEF SetRiskConfig, SetAutonomousMode, vaultVars
  <2>2. QED
    BY <2>1 DEF OwnedOnce
<1>6. QED
  BY <1>2, <1>4, <1>5 DEF AnyVaultConfigStep, PauseVault, UnpauseVault

(* A deposit registers its holder, once. *)
LEMMA DepositKeepsHolders ==
  ASSUME PoolInv, NEW o \in Principals, NEW u \in VaultIds, NEW b \in Assets, NEW t, NEW n \in Nat,
         Deposited(o, u, b, t, n),
         NEW p \in Principals, NEW v \in VaultIds, HeldOnce(p, v)
  PROVE  HeldOnce(p, v)'
<1>1. /\ balances \in [VaultIds -> [Assets -> [Principals -> Nat]]]
      /\ holderVaults \in [Principals -> Seq(VaultIds)]
      /\ holderRegistered \in [Principals -> SUBSET VaultIds]
  BY DEF PoolInv, TypeOK, ReceiptTypeOK, VaultTypeOK
<1>2. RegisterHolder(o, u) /\ balances' = [balances EXCEPT ![u][b][o] = @ + n]
  BY DEF Deposited, Mint
<1>3. \A a \in Assets : balances'[v][a][p] = balances[v][a][p] \/ (p = o /\ v = u)
  BY <1>1, <1>2
<1>4. CASE u \in holderRegistered[o]
  <2>1. UNCHANGED indexVars
    BY <1>2, <1>4 DEF RegisterHolder
  <2>2. QED
    BY <1>3, <1>4, <2>1 DEF HeldOnce, indexVars
<1>5. CASE u \notin holderRegistered[o]
  <2> DEFINE longer == Append(holderVaults[o], u)
  <2>1. /\ holderRegistered' = [holderRegistered EXCEPT ![o] = @ \cup {u}]
        /\ holderVaults' = [holderVaults EXCEPT ![o] = longer]
    BY <1>2, <1>5 DEF RegisterHolder
  <2>2. /\ Occurrences(v, holderVaults[o]) \in Nat
        /\ Occurrences(v, longer) = IF v = u THEN Occurrences(v, holderVaults[o]) + 1
                                             ELSE Occurrences(v, holderVaults[o])
    BY <1>1, OccurrencesOfAppend
  <2> HIDE DEF longer
  <2>3. /\ holderVaults'[p] = IF p = o THEN longer ELSE holderVaults[p]
        /\ holderRegistered'[p] = IF p = o THEN holderRegistered[o] \cup {u} ELSE holderRegistered[p]
    BY <1>1, <2>1
  <2>4. CASE p = o /\ v = u
    <3>1. Occurrences(v, holderVaults[o]) = 0
      BY <1>5, <2>4 DEF HeldOnce
    <3>2. Occurrences(v, holderVaults'[p]) = 1 /\ v \in holderRegistered'[p]
      BY <2>2, <2>3, <2>4, <3>1
    <3>3. QED
      BY <3>2 DEF HeldOnce
  <2>5. CASE ~(p = o /\ v = u)
    <3>1. /\ Occurrences(v, holderVaults'[p]) = Occurrences(v, holderVaults[p])
          /\ v \in holderRegistered'[p] <=> v \in holderRegistered[p]
      BY <2>2, <2>3, <2>5
    <3>2. QED
      BY <1>3, <2>5, <3>1 DEF HeldOnce
  <2>6. QED
    BY <2>4, <2>5
<1>6. QED
  BY <1>4, <1>5

LEMMA RedemptionKeepsHolders ==
  ASSUME PoolInv, NEW o \in Principals, NEW u \in VaultIds, NEW b \in Assets, NEW t, NEW n \in Nat,
         Redeemed(o, u, b, t, n),
         NEW p \in Principals, NEW v \in VaultIds, HeldOnce(p, v)
  PROVE  HeldOnce(p, v)'
<1>1. balances \in [VaultIds -> [Assets -> [Principals -> Nat]]]
  BY DEF PoolInv, TypeOK, ReceiptTypeOK
<1>2. balances' = [balances EXCEPT ![u][b][o] = @ - n] /\ UNCHANGED indexVars
  BY DEF Redeemed, Burn
<1>3. \A a \in Assets : balances'[v][a][p] > 0 => balances[v][a][p] > 0
  BY <1>1, <1>2
<1>4. QED
  BY <1>2, <1>3 DEF HeldOnce, indexVars

LEMMA AnyStepIndexes ==
  PoolInv /\ BooksInv /\ IndexesComplete /\ [AnyNext]_vars => IndexesComplete'
<1> SUFFICES ASSUME PoolInv, BooksInv, IndexesComplete, [AnyNext]_vars
             PROVE  \A p \in Principals, v \in VaultIds : OwnedOnce(p, v)' /\ HeldOnce(p, v)'
  BY DEF IndexesComplete, OwnedOnce, HeldOnce
<1>1. \A p \in Principals, v \in VaultIds : OwnedOnce(p, v) /\ HeldOnce(p, v)
  BY IndexesAre
<1>2. ASSUME UNCHANGED <<vaults, ownerVaults>>
      PROVE  \A p \in Principals, v \in VaultIds : OwnedOnce(p, v)'
  BY <1>1, <1>2 DEF OwnedOnce
<1>3. ASSUME UNCHANGED <<indexVars, balances>>
      PROVE  \A p \in Principals, v \in VaultIds : HeldOnce(p, v)'
  BY <1>1, <1>3 DEF HeldOnce, indexVars
<1>4. CASE PoolStep \/ AnyPoolStep
  <2>1. PICK o \in Principals, u \in VaultIds, b \in Assets, n \in Nat :
          \E t \in TokensOf(b) : Deposited(o, u, b, t, n) \/ Redeemed(o, u, b, t, n)
    BY <1>4, PoolStepIsAny, AnyPoolStepMoves
  <2>2. \A p \in Principals, v \in VaultIds : HeldOnce(p, v)'
    BY <1>1, <2>1, DepositKeepsHolders, RedemptionKeepsHolders
  <2>3. UNCHANGED <<vaults, ownerVaults>>
    BY <2>1 DEF Deposited, Redeemed
  <2>4. QED
    BY <1>2, <2>2, <2>3
<1>5. CASE EngineStep
  <2>1. UNCHANGED <<vaults, ownerVaults, indexVars, balances>>
    BY <1>5, EngineStepMoves DEF Deployed, receiptVars
  <2>2. QED
    BY <1>2, <1>3, <2>1
<1>6. CASE VaultConfigStep \/ AnyVaultConfigStep
  <2>1. /\ \A p \in Principals, v \in VaultIds : OwnedOnce(p, v)'
        /\ UNCHANGED indexVars
    BY <1>1, <1>6, VaultConfigStepIsAny, VaultConfigStepKeepsOwners DEF BooksInv
  <2>2. UNCHANGED balances
    BY <1>6 DEF VaultConfigStep, AnyVaultConfigStep, receiptVars
  <2>3. QED
    BY <1>3, <2>1, <2>2
<1>7. CASE Environment \/ AdminStep \/ AgentRegistryStep \/ StrategyRegistryStep \/ GuardStep
           \/ UNCHANGED vars
  <2>1. UNCHANGED <<vaultVars, receiptVars>>
    BY <1>7 DEF Environment, AdminStep, AgentRegistryStep, StrategyRegistryStep, GuardStep, vars
  <2>2. QED
    BY <1>2, <1>3, <2>1 DEF vaultVars, receiptVars
<1>8. QED
  BY <1>4, <1>5, <1>6, <1>7 DEF Next, AnyNext

LEMMA StepIndexes ==
  PoolInv /\ BooksInv /\ IndexesComplete /\ [Next]_vars => IndexesComplete'
  BY AnyStepIndexes, NextIsAny

LEMMA AnyStepShares ==
  PoolInv /\ BooksInv /\ SharesHaveAVault /\ [AnyNext]_vars => SharesHaveAVault'
<1> SUFFICES ASSUME PoolInv, BooksInv, SharesHaveAVault, [AnyNext]_vars
             PROVE  SharesHaveAVault'
  OBVIOUS
<1>1. balances \in [VaultIds -> [Assets -> [Principals -> Nat]]]
  BY DEF PoolInv, TypeOK, ReceiptTypeOK
<1>2. ASSUME UNCHANGED <<vaults, balances>>
      PROVE  SharesHaveAVault'
  BY <1>2 DEF SharesHaveAVault, SupportsAsset
<1>3. CASE PoolStep \/ AnyPoolStep
  <2>1. PICK p \in Principals, u \in VaultIds, b \in Assets, n \in Nat :
          \E t \in TokensOf(b) : Deposited(p, u, b, t, n) \/ Redeemed(p, u, b, t, n)
    BY <1>3, PoolStepIsAny, AnyPoolStepMoves
  <2>2. ASSUME NEW v \in VaultIds, NEW a \in Assets, NEW h \in Principals,
               balances'[v][a][h] > 0
        PROVE  SupportsAsset(v, a)
    <3>1. CASE \E t \in TokensOf(b) : Deposited(p, u, b, t, n)
      <4>1. SupportsAsset(u, b) /\ balances' = [balances EXCEPT ![u][b][p] = @ + n]
        BY <3>1 DEF Deposited, Mint
      <4>2. (v = u /\ a = b) \/ balances'[v][a][h] = balances[v][a][h]
        BY <1>1, <4>1
      <4>3. QED
        BY <2>2, <4>1, <4>2 DEF SharesHaveAVault
    <3>2. CASE \E t \in TokensOf(b) : Redeemed(p, u, b, t, n)
      <4>1. balances' = [balances EXCEPT ![u][b][p] = @ - n]
        BY <3>2 DEF Redeemed, Burn
      <4>2. balances[v][a][h] > 0
        BY <1>1, <2>2, <4>1
      <4>3. QED
        BY <4>2 DEF SharesHaveAVault
    <3>3. QED
      BY <2>1, <3>1, <3>2
  <2>3. UNCHANGED vaults
    BY <2>1 DEF Deposited, Redeemed
  <2>4. QED
    BY <2>2, <2>3 DEF SharesHaveAVault, SupportsAsset
<1>4. CASE EngineStep
  BY <1>2, <1>4, EngineStepMoves DEF Deployed, receiptVars
<1>5. CASE VaultConfigStep \/ AnyVaultConfigStep
  <2>1. VaultsKept
    BY <1>5, VaultConfigStepIsAny, VaultConfigStepKeepsBooks DEF BooksInv
  <2>2. UNCHANGED balances
    BY <1>5 DEF VaultConfigStep, AnyVaultConfigStep, receiptVars
  <2>3. QED
    BY <2>1, <2>2 DEF SharesHaveAVault, SupportsAsset, VaultsKept, SameTerms
<1>6. CASE Environment \/ AdminStep \/ AgentRegistryStep \/ StrategyRegistryStep \/ GuardStep
           \/ UNCHANGED vars
  <2>1. UNCHANGED <<vaultVars, receiptVars>>
    BY <1>6 DEF Environment, AdminStep, AgentRegistryStep, StrategyRegistryStep, GuardStep, vars
  <2>2. QED
    BY <1>2, <2>1 DEF vaultVars, receiptVars
<1>7. QED
  BY <1>3, <1>4, <1>5, <1>6 DEF Next, AnyNext

LEMMA StepShares == PoolInv /\ BooksInv /\ SharesHaveAVault /\ [Next]_vars => SharesHaveAVault'
  BY AnyStepShares, NextIsAny

LEMMA SharesInvariant == Spec => []SharesHaveAVault
<1>1. Init => SharesHaveAVault
  BY DEF Init, ReceiptInit, SharesHaveAVault
<1>2. PoolInv /\ BooksInv /\ SharesHaveAVault /\ [Next]_vars => SharesHaveAVault'
  BY StepShares
<1>3. QED
  BY <1>1, <1>2, PoolsInvariant, BooksInvariant, PTL DEF Spec

(* No list of a holder's vaults loses an entry. *)
ListsGrow == \A p \in Principals : holderRegistered[p] \subseteq holderRegistered'[p]

LEMMA AnyStepListed ==
  PoolInv /\ BooksInv /\ ListedVaultsExist /\ [AnyNext]_vars => ListedVaultsExist' /\ ListsGrow
<1> SUFFICES ASSUME PoolInv, BooksInv, ListedVaultsExist, [AnyNext]_vars
             PROVE  ListedVaultsExist' /\ ListsGrow
  OBVIOUS
<1>1. holderRegistered \in [Principals -> SUBSET VaultIds]
  BY DEF PoolInv, TypeOK, VaultTypeOK
<1>2. VaultsKept
  BY AnyStepVaults DEF BooksInv
<1>3. ASSUME UNCHANGED indexVars
      PROVE  ListedVaultsExist' /\ ListsGrow
  BY <1>1, <1>2, <1>3 DEF ListedVaultsExist, ListsGrow, VaultsKept, indexVars
<1>4. CASE PoolStep \/ AnyPoolStep
  <2>1. PICK o \in Principals, u \in VaultIds, b \in Assets, n \in Nat :
          \E t \in TokensOf(b) : Deposited(o, u, b, t, n) \/ Redeemed(o, u, b, t, n)
    BY <1>4, PoolStepIsAny, AnyPoolStepMoves
  <2>2. CASE UNCHANGED indexVars
    BY <1>3, <2>2
  <2>3. CASE /\ vaults[u] # Absent
             /\ holderRegistered' = [holderRegistered EXCEPT ![o] = @ \cup {u}]
    <3>1. vaults'[u] # Absent
      BY <1>2, <2>3 DEF VaultsKept
    <3>2. \A p \in Principals :
            holderRegistered'[p] = IF p = o THEN holderRegistered[o] \cup {u} ELSE holderRegistered[p]
      BY <1>1, <2>3
    <3>3. \A p \in Principals : \A v \in holderRegistered[p] : vaults'[v] # Absent
      BY <1>1, <1>2 DEF ListedVaultsExist, VaultsKept
    <3>4. QED
      BY <3>1, <3>2, <3>3 DEF ListedVaultsExist, ListsGrow
  <2>4. QED
    BY <2>1, <2>2, <2>3 DEF Deposited, Redeemed, RegisterHolder, SupportsAsset
<1>5. CASE EngineStep
  BY <1>3, <1>5, EngineStepMoves DEF Deployed
<1>6. CASE VaultConfigStep \/ AnyVaultConfigStep
  <2>1. UNCHANGED indexVars
    BY <1>6 DEF VaultConfigStep, AnyVaultConfigStep, CreateVault, SetVaultConfig, SetRiskConfig,
       SetAutonomousMode, PauseVault, UnpauseVault, SetPaused, vaultVars
  <2>2. QED
    BY <1>3, <2>1
<1>7. CASE Environment \/ AdminStep \/ AgentRegistryStep \/ StrategyRegistryStep \/ GuardStep
           \/ UNCHANGED vars
  <2>1. UNCHANGED vaultVars
    BY <1>7 DEF Environment, AdminStep, AgentRegistryStep, StrategyRegistryStep, GuardStep, vars
  <2>2. QED
    BY <1>3, <2>1 DEF vaultVars
<1>8. QED
  BY <1>4, <1>5, <1>6, <1>7 DEF Next, AnyNext

LEMMA ListedInvariant == Spec => []ListedVaultsExist
<1>1. Init => ListedVaultsExist
  BY DEF Init, VaultInit, ListedVaultsExist
<1>2. PoolInv /\ BooksInv /\ ListedVaultsExist /\ [Next]_vars => ListedVaultsExist'
  BY AnyStepListed, NextIsAny
<1>3. QED
  BY <1>1, <1>2, PoolsInvariant, BooksInvariant, PTL DEF Spec

(* Each vault is listed once, by its owner, and whoever holds shares of a  *)
(* vault finds it once in their list, for every number of vaults, owners   *)
(* and holders: no list loses an entry, and an id is never given twice.    *)
THEOREM VaultsInBooks == Spec => []VaultBooks
<1>1. PoolInv /\ BooksInv /\ IndexesComplete /\ [Next]_vars => IndexesComplete'
  BY StepIndexes
<1>2. BooksInv /\ IndexesComplete /\ SharesHaveAVault /\ ListedVaultsExist => VaultBooks
  BY DEF BooksInv, VaultBooks
<1>3. QED
  BY <1>1, <1>2, InitIndexes, PoolsInvariant, BooksInvariant, SharesInvariant, ListedInvariant, PTL
  DEF Spec

(* Every chain the protocol can be in is one that a session of the web app *)
(* may begin over: all books of the contracts, together.                   *)
THEOREM ChainsAreSound == Spec => []SoundChain
<1>1. TypeOK /\ CustodyBooks /\ AllocationBooks /\ VaultBooks => SoundChain
  BY DEF SoundChain
<1>2. QED
  BY <1>1, TypeCorrect, CustodyKept, AllocationsKept, VaultsInBooks, PTL

-----------------------------------------------------------------------------
(* Nothing stops a redemption or a passed intent.  ENABLED is beyond the   *)
(* provers, so enabledness is stated by its meaning: a call is what it     *)
(* asks of the state (Ready) and what it writes, each variable once, and   *)
(* what it asks holds in every reachable state.                            *)

(* The contract owns what is idle in a vault, if the asset has one token. *)
LEMMA SoleTokenInCustody ==
  ASSUME PoolInv, SumsInv, NEW v \in VaultIds, NEW a \in Assets, NEW u \in Tokens,
         TokensOf(a) = {u}
  PROVE  idleBalances[v][a] <= holdings[u][VAULT]
<1> DEFINE F == [w \in VaultIds |-> idleBalances[w][a]]
           G == [t \in TokensOf(a) |-> holdings[t][VAULT]]
<1>1. VAULT \in Accounts
  BY DEF Accounts
<1>2. F \in [VaultIds -> Nat] /\ G \in [TokensOf(a) -> Nat]
  BY <1>1 DEF PoolInv, TypeOK, ChainTypeOK, VaultTypeOK
<1>3. SumFunction(F) <= SumFunction(G)
  BY DEF SumsInv, CustodyCoversIdle, IdleOf, PurseOf
<1>4. F[v] <= SumFunction(F) /\ SumFunction(F) \in Nat
  BY <1>2, FiniteDomains, SumNat
<1>5. SumFunction(G) = holdings[u][VAULT]
  <2> DEFINE Z == [t \in TokensOf(a) |-> 0]
  <2>1. Z \in [TokensOf(a) -> Nat] /\ IsFiniteSet(TokensOf(a))
    BY FiniteDomains
  <2>2. SumFunction(Z) = 0
    <3>1. \A t \in TokensOf(a) : Z[t] = 0
      OBVIOUS
    <3> HIDE DEF Z
    <3>2. QED
      BY <2>1, <3>1, SumNat
  <2>3. /\ \A t \in TokensOf(a) \ {u} : G[t] = Z[t]
        /\ u \in TokensOf(a) /\ Z[u] = 0 /\ G[u] = holdings[u][VAULT]
    OBVIOUS
  <2>4. holdings[u][VAULT] \in Nat
    BY <1>1 DEF PoolInv, TypeOK, ChainTypeOK
  <2> HIDE DEF G, Z
  <2>5. SumFunction(G) = SumFunction(Z) + G[u] - Z[u]
    BY <1>2, <2>1, <2>3, SumChange
  <2>6. QED
    BY <2>2, <2>3, <2>4, <2>5
<1>6. F[v] = idleBalances[v][a] /\ F[v] \in Nat
  BY <1>2
<1>7. holdings[u][VAULT] \in Nat
  BY <1>1 DEF PoolInv, TypeOK, ChainTypeOK
<1> HIDE DEF F, G
<1>8. QED
  BY <1>3, <1>4, <1>5, <1>6, <1>7

(* The contract can pay n units of what is idle in the token t: there is   *)
(* no other token of the asset, as of STX, or it owns as many.             *)
Payable(t, a, n) == t \in TokensOf(a) /\ (TokensOf(a) = {t} \/ n <= holdings[t][VAULT])

LEMMA PayableIsOwned ==
  ASSUME PoolInv, SumsInv, NEW v \in VaultIds, NEW a \in Assets, NEW n \in Nat, NEW t,
         n <= idleBalances[v][a], Payable(t, a, n)
  PROVE  n <= holdings[t][VAULT]
<1>1. t \in Tokens
  BY DEF Payable, TokensOf, Tokens
<1>2. holdings[t][VAULT] \in Nat /\ idleBalances[v][a] \in Nat
  BY <1>1 DEF PoolInv, TypeOK, ChainTypeOK, VaultTypeOK, Accounts
<1>3. CASE TokensOf(a) = {t}
  BY <1>1, <1>2, <1>3, SoleTokenInCustody
<1>4. QED
  BY <1>3 DEF Payable

(* What a redemption of n shares asks of the state, and what it writes. *)
RedemptionReady(h, v, a, t, n) ==
  /\ SupportsAsset(v, a)
  /\ RedeemAccepted(n, supplies[v][a], totalBalances[v][a])
  /\ RedeemAssets(n, supplies[v][a], totalBalances[v][a]) = n
  /\ n > 0
  /\ n <= balances[v][a][h]
  /\ n <= idleBalances[v][a]
  /\ n <= holdings[t][VAULT]

RedemptionWrites(h, v, a, t, n) ==
  /\ holdings' = [holdings EXCEPT ![t][VAULT] = @ - n, ![t][h] = @ + n]
  /\ balances' = [balances EXCEPT ![v][a][h] = @ - n]
  /\ supplies' = [supplies EXCEPT ![v][a] = @ - n]
  /\ idleBalances' = [idleBalances EXCEPT ![v][a] = @ - n]
  /\ totalBalances' = [totalBalances EXCEPT ![v][a] = @ - n]
  /\ UNCHANGED <<nextVaultId, vaults, ownerVaults, indexVars, strategyAllocations, guardVars>>

LEMMA RedemptionIs ==
  ASSUME PoolInv, NEW h \in Principals, NEW v \in VaultIds, NEW a \in Assets,
         NEW t \in TokensOf(a), NEW n \in Nat
  PROVE  Redeem(h, v, a, t, n) <=> RedemptionReady(h, v, a, t, n) /\ RedemptionWrites(h, v, a, t, n)
<1>1. VAULT # h
  BY ChainAssumption
<1>2. balances[v][a][h] \in Nat /\ holdings[t][VAULT] \in Nat
  BY DEF PoolInv, TypeOK, ReceiptTypeOK, ChainTypeOK, TokensOf, Tokens, Accounts
<1>3. supplies[v][a] \in Nat /\ totalBalances[v][a] = supplies[v][a]
  BY DEF PoolInv, PoolParity, TypeOK, ReceiptTypeOK
<1>4. RedeemAccepted(n, supplies[v][a], totalBalances[v][a]) =>
        RedeemAssets(n, supplies[v][a], totalBalances[v][a]) = n /\ n > 0
  BY <1>3, PriceOfOne DEF RedeemAccepted
<1>5. CASE ~RedeemAccepted(n, supplies[v][a], totalBalances[v][a])
  BY <1>5 DEF Redeem, RedemptionReady
<1>6. CASE RedeemAccepted(n, supplies[v][a], totalBalances[v][a])
  <2>1. RedeemAssets(n, supplies[v][a], totalBalances[v][a]) = n /\ n > 0
    BY <1>4, <1>6
  <2>2. Transfer(t, VAULT, h, n) <=>
          /\ n <= holdings[t][VAULT]
          /\ holdings' = [holdings EXCEPT ![t][VAULT] = @ - n, ![t][h] = @ + n]
    BY <1>1, <1>2, <2>1 DEF Transfer
  <2>3. Burn(v, a, n, h) <=>
          /\ n <= balances[v][a][h]
          /\ balances' = [balances EXCEPT ![v][a][h] = @ - n]
          /\ supplies' = [supplies EXCEPT ![v][a] = @ - n]
    BY <1>2, <2>1 DEF Burn
  <2>4. QED
    BY <1>6, <2>1, <2>2, <2>3 DEF Redeem, RedemptionReady, RedemptionWrites, SupportsAsset, PayFromIdle
<1>7. QED
  BY <1>5, <1>6

RedemptionsReady ==
  \A v \in VaultIds, h \in Principals, a \in Assets, n \in Nat : \A t \in TokensOf(a) :
    (n > 0 /\ n <= balances[v][a][h] /\ n <= idleBalances[v][a] /\ Payable(t, a, n))
      => RedemptionReady(h, v, a, t, n)

LEMMA HoldersAreReady == PoolInv /\ SumsInv /\ SharesHaveAVault => RedemptionsReady
<1> SUFFICES ASSUME PoolInv, SumsInv, SharesHaveAVault,
                    NEW v \in VaultIds, NEW h \in Principals, NEW a \in Assets, NEW n \in Nat,
                    NEW t \in TokensOf(a),
                    n > 0, n <= balances[v][a][h], n <= idleBalances[v][a], Payable(t, a, n)
             PROVE  RedemptionReady(h, v, a, t, n)
  BY DEF RedemptionsReady
<1> DEFINE supply == supplies[v][a]
           total == totalBalances[v][a]
<1>1. /\ balances[v][a] \in [Principals -> Nat] /\ balances[v][a][h] \in Nat
      /\ supply \in Nat /\ total = supply
  BY DEF PoolInv, PoolParity, TypeOK, ReceiptTypeOK
<1>2. n <= supply
  <2>1. supply = SumFunction(balances[v][a])
    BY DEF SumsInv, SharesSumToSupply
  <2>2. balances[v][a][h] <= supply
    BY <1>1, <2>1, FiniteDomains, SumNat
  <2> HIDE DEF supply, total
  <2>3. QED
    BY <1>1, <2>2
<1>3. RedeemAccepted(n, supply, total) /\ RedeemAssets(n, supply, total) = n
  <2> HIDE DEF supply, total
  <2>1. supply > 0
    BY <1>1, <1>2
  <2>2. RedeemAssets(n, supply, supply) = n
    BY <1>1, <2>1, PriceOfOne
  <2>3. (n * supply) \div supply = n
    BY <2>2 DEF RedeemAssets
  <2>4. QED
    BY <1>1, <1>2, <2>1, <2>2, <2>3 DEF RedeemAccepted
<1>4. n <= holdings[t][VAULT]
  BY PayableIsOwned
<1>5. SupportsAsset(v, a)
  <2>1. balances[v][a][h] > 0
    BY <1>1
  <2>2. QED
    BY <2>1 DEF SharesHaveAVault
<1>6. QED
  BY <1>3, <1>4, <1>5 DEF RedemptionReady

(* In every reachable state everything redeem-stx asks is so, for whoever  *)
(* holds the shares and whatever number of them the pool's idle balance    *)
(* covers: no pause, allocation, price or lack of tokens stands in the     *)
(* way, and by RedemptionIs the call is then a step.  Of redeem-sbtc the   *)
(* same holds while no other sBTC token was ever there to approve; with    *)
(* several, the lack of the one approved now is all that can stop it.      *)
THEOREM NothingStopsRedemption == Spec => []RedemptionsReady
<1>1. PoolInv /\ SumsInv /\ SharesHaveAVault => RedemptionsReady
  BY HoldersAreReady
<1>2. QED
  BY <1>1, PoolsInvariant, SumsInvariant, SharesInvariant, PTL

(* What is left to ask of the state once an intent passed, with the gate   *)
(* open, of a strategy that takes the tokens, and what the submission      *)
(* writes.                                                                 *)
SubmissionReady(intent, t) ==
  LET v == intent.vault
      s == intent.strategy
  IN /\ strategies[s] # Absent
     /\ strategies[s].contract # VAULT
     /\ ~IsVaultPaused(v)
     /\ intent.amount > 0
     /\ intent.amount <= idleBalances[v][intent.asset]
     /\ intent.amount <= holdings[t][VAULT]

SubmissionWrites(intent, t) ==
  LET v == intent.vault
      s == intent.strategy
      a == intent.asset
      n == intent.amount
  IN /\ vaultConfig' = [vaultConfig EXCEPT ![v].lastUsedNonce = intent.nonce,
                                           ![v].lastExecutionHeight = height]
     /\ holdings' = [holdings EXCEPT ![t][VAULT] = @ - n,
                                     ![t][strategies[s].contract] = @ + n]
     /\ idleBalances' = [idleBalances EXCEPT ![v][a] = @ - n]
     /\ strategyAllocations' = [strategyAllocations EXCEPT ![v][s][a] = @ + n]
     /\ UNCHANGED <<protocolLimits, approvedSbtc, mainnetExecutionArmed, nextVaultId, vaults,
                    ownerVaults, indexVars, totalBalances>>

LEMMA ReadySubmits ==
  ASSUME TypeOK, NEW p, NEW intent \in AnyIntent, NEW t \in TokensOf(intent.asset),
         Evaluate(p, intent), IsStrategyExecutionEnabled,
         SubmissionReady(intent, t), SubmissionWrites(intent, t)
  PROVE  SubmitRebalanceIntent(p, intent, strategies[intent.strategy].contract, t, TRUE)
<1> DEFINE v == intent.vault
           s == intent.strategy
           a == intent.asset
<1>1. v \in VaultIds /\ a \in Assets /\ t \in Tokens /\ intent.amount \in Nat
  BY DEF AnyIntent, TokensOf, Tokens
<1>2. /\ idleBalances[v][a] \in Nat /\ holdings[t][VAULT] \in Nat
  BY <1>1 DEF TypeOK, VaultTypeOK, ChainTypeOK, Accounts
<1>3. ValidateAndRecordIntent(intent, CallerIsOwner(p, intent), idleBalances[v][a],
                              totalBalances[v][a], strategyAllocations[v][s][a],
                              MaxAllocationBps(s))
  BY DEF Evaluate, ValidateAndRecordIntent, SubmissionWrites
<1>4. StrategyDeposit(strategies[s].contract, t, intent.amount, TRUE)
  BY <1>1, <1>2 DEF StrategyDeposit, Transfer, SubmissionReady, SubmissionWrites
<1>5. Deploy(v, s, a, intent.amount)
  BY <1>1, <1>2 DEF Deploy, SubmissionReady, SubmissionWrites
<1>6. ExecuteRebalance(v, s, a, intent.amount, strategies[s].contract, t, TRUE)
  BY <1>1, <1>4, <1>5 DEF ExecuteRebalance, Evaluate, SubmissionReady, SubmissionWrites
<1>7. QED
  BY <1>3, <1>6 DEF SubmitRebalanceIntent

PassedIntentsReady ==
  \A p \in Principals, intent \in AnyIntent : \A t \in TokensOf(intent.asset) :
    (Evaluate(p, intent) /\ Payable(t, intent.asset, intent.amount)) => SubmissionReady(intent, t)

(* In every reachable state an intent that passes the read-only evaluation *)
(* finds, once the gate is open, nothing in its way: no check of the vault *)
(* can fail after the verdict, nor, of STX or while there is one sBTC      *)
(* token, a lack of tokens in the contract; ReadySubmits makes the step.   *)
THEOREM PassedMeansExecutable == Spec => []PassedIntentsReady
<1>1. PoolInv /\ SumsInv => PassedIntentsReady
  <2> SUFFICES ASSUME PoolInv, SumsInv, NEW p \in Principals, NEW intent \in AnyIntent,
                      NEW t \in TokensOf(intent.asset),
                      Evaluate(p, intent), Payable(t, intent.asset, intent.amount)
               PROVE  SubmissionReady(intent, t)
    BY DEF PassedIntentsReady
  <2>1. /\ intent.vault \in VaultIds /\ intent.strategy \in StrategyIds
        /\ intent.asset \in Assets /\ intent.amount \in Nat
    BY DEF AnyIntent
  <2>2. /\ strategies[intent.strategy] # Absent /\ ~IsVaultPaused(intent.vault)
        /\ intent.amount > 0 /\ intent.amount <= idleBalances[intent.vault][intent.asset]
    BY DEF Evaluate, CheckIntent, TakesAsset, IsVaultPaused
  <2>3. strategies[intent.strategy].contract # VAULT
    BY <2>1, <2>2, ChainAssumption DEF PoolInv, TypeOK, StrategyTypeOK, Strategy
  <2>4. intent.amount <= holdings[t][VAULT]
    BY <2>1, <2>2, PayableIsOwned
  <2>5. QED
    BY <2>2, <2>3, <2>4 DEF SubmissionReady
<1>2. QED
  BY <1>1, PoolsInvariant, SumsInvariant, PTL
=============================================================================
