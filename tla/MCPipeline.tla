----------------------------- MODULE MCPipeline -----------------------------
(***************************************************************************)
(* Runs of the agent's pipeline.  They begin where the interesting part    *)
(* does: alice has deployed the protocol, registered a STX strategy, armed *)
(* the gate, registered bob as executor, created an autonomous vault and   *)
(* deposited four units in it, all in the first block.                     *)
(***************************************************************************)
EXTENDS MCProtocol, PipelineProperties

CONSTANTS strategy, now, later, elsewhere

AutonomousParams == Params(10000, 1, 2000, TRUE, 1)
AutonomousParamSets == {AutonomousParams}

PreparedChain ==
  /\ height = 1
  /\ holdings = [t \in Tokens |-> [x \in Accounts |->
       CASE t = "STX" /\ x = alice -> InitialHoldings - 4
         [] t = "STX" /\ x = VAULT -> 4
         [] x \in Principals /\ ~(t = "STX" /\ x = alice) -> InitialHoldings
         [] OTHER -> 0]]
  /\ admin = alice /\ pendingAdmin = Absent /\ protocolPaused = FALSE
  /\ executors = [p \in Principals |-> IF p = bob THEN "active" ELSE Absent]
  /\ nextStrategyId = 2
  /\ strategies = [s \in StrategyIds |->
       IF s = 1 THEN [contract |-> strategy, asset |-> "STX", active |-> TRUE,
                      maxAllocationBps |-> BPS]
       ELSE Absent]
  /\ balances = [v \in VaultIds |-> [a \in Assets |-> [h \in Principals |->
       IF v = 1 /\ a = "STX" /\ h = alice THEN 4 ELSE 0]]]
  /\ supplies = [v \in VaultIds |-> [a \in Assets |-> IF v = 1 /\ a = "STX" THEN 4 ELSE 0]]
  /\ protocolLimits = Limits(10000, 0)
  /\ approvedSbtc = Absent
  /\ mainnetExecutionArmed = TRUE
  /\ vaultConfig = [v \in VaultIds |->
       IF v = 1 THEN [params |-> AutonomousParams, lastUsedNonce |-> 0, lastExecutionHeight |-> 0]
       ELSE Absent]
  /\ nextVaultId = 2
  /\ vaults = [v \in VaultIds |->
       IF v = 1 THEN [owner |-> alice, purpose |-> 0, assets |-> 1, openDeposits |-> FALSE,
                      paused |-> FALSE]
       ELSE Absent]
  /\ ownerVaults = [p \in Principals |-> IF p = alice THEN <<1>> ELSE <<>>]
  /\ holderVaults = [p \in Principals |-> IF p = alice THEN <<1>> ELSE <<>>]
  /\ holderRegistered = [p \in Principals |-> IF p = alice THEN {1} ELSE {}]
  /\ idleBalances = [v \in VaultIds |-> [a \in Assets |-> IF v = 1 /\ a = "STX" THEN 4 ELSE 0]]
  /\ totalBalances = [v \in VaultIds |-> [a \in Assets |-> IF v = 1 /\ a = "STX" THEN 4 ELSE 0]]
  /\ strategyAllocations =
       [v \in VaultIds |-> [s \in StrategyIds |-> [a \in Assets |-> 0]]]

PreparedInit == PreparedChain /\ AgentInit

PreparedSpec == PreparedInit /\ [][PipelineNext]_pipelineVars /\ PipelineFairness

StxOfVaultOne == {[vault |-> 1, asset |-> "STX"]}

(* No vault has the id 2, and vault 1 does not take sBTC. *)
AnyPool == [vault: VaultIds, asset: Assets]

(* The web server that hosts the agent core too is left at testnet. *)
TwoHosts == [r \in Requests |-> IF r = elsewhere THEN "testnet" ELSE "mainnet"]

(* alice governs the executor and the gate, and is the vault's owner. *)
MovingCallers == CallersFrom({"executors", "gate", "strategies"}, {"risk-config", "pools"}, {})

(* Only blocks pass. *)
QuietCallers == CallersFrom({}, {}, {})
=============================================================================
