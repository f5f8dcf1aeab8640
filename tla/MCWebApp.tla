------------------------------ MODULE MCWebApp ------------------------------
(***************************************************************************)
(* Runs of the web app.  alice has deployed the protocol and owns vault 1, *)
(* which takes both assets from anyone; bob has deposited four STX, one of *)
(* which is deployed, and one sBTC.  A session begins on one page; other   *)
(* users then move the chain under it.                                     *)
(***************************************************************************)
EXTENDS MCProtocol, WebProperties

CONSTANTS strategy, treasury, Journeys

OwnersParams == Params(5000, 1, 500, FALSE, 1)

(* Inputs at the edges of the ceilings in force. *)
EdgeTexts ==
  {OwnersParams,
   Params(5001, 1, 500, FALSE, 1),
   Params(5000, 1, 499, FALSE, 1)}

WebChain ==
  /\ height = 1
  /\ holdings = [t \in Tokens |-> [x \in Accounts |->
       CASE t = "STX" /\ x = bob -> InitialHoldings - 4
         [] t = "STX" /\ x = VAULT -> 3
         [] t = "STX" /\ x = strategy -> 1
         [] t = AppToken /\ x = bob -> InitialHoldings - 1
         [] t = AppToken /\ x = VAULT -> 1
         [] x = alice -> InitialHoldings
         [] OTHER -> 0]]
  /\ admin = alice /\ pendingAdmin = Absent /\ protocolPaused = FALSE
  /\ executors = [p \in Principals |-> Absent]
  /\ nextStrategyId = 2
  /\ strategies = [s \in StrategyIds |->
       IF s = 1 THEN [contract |-> strategy, asset |-> "STX", active |-> TRUE,
                      maxAllocationBps |-> BPS]
       ELSE Absent]
  /\ balances = [v \in VaultIds |-> [a \in Assets |-> [h \in Principals |->
       IF v = 1 /\ h = bob THEN (IF a = "STX" THEN 4 ELSE 1) ELSE 0]]]
  /\ supplies = [v \in VaultIds |-> [a \in Assets |->
       IF v = 1 THEN (IF a = "STX" THEN 4 ELSE 1) ELSE 0]]
  /\ protocolLimits = [maxSlippageBps |-> 1000, maxExposureBps |-> 5000,
                       minCooldownBlocks |-> 1, minLiquidityBps |-> 500]
  /\ approvedSbtc = AppToken
  /\ mainnetExecutionArmed = TRUE
  /\ nextVaultId = 2
  /\ vaults = [v \in VaultIds |->
       IF v = 1 THEN [owner |-> alice, purpose |-> 0, assets |-> 3, openDeposits |-> TRUE,
                      paused |-> FALSE]
       ELSE Absent]
  /\ vaultConfig = [v \in VaultIds |->
       IF v = 1 THEN [params |-> OwnersParams, lastUsedNonce |-> 1, lastExecutionHeight |-> 1]
       ELSE Absent]
  /\ ownerVaults = [p \in Principals |-> IF p = alice THEN <<1>> ELSE <<>>]
  /\ holderVaults = [p \in Principals |-> IF p = bob THEN <<1>> ELSE <<>>]
  /\ holderRegistered = [p \in Principals |-> IF p = bob THEN {1} ELSE {}]
  /\ idleBalances = [v \in VaultIds |-> [a \in Assets |->
       IF v = 1 THEN (IF a = "STX" THEN 3 ELSE 1) ELSE 0]]
  /\ totalBalances = supplies
  /\ strategyAllocations = [v \in VaultIds |-> [s \in StrategyIds |-> [a \in Assets |->
       IF v = 1 /\ s = 1 /\ a = "STX" THEN 1 ELSE 0]]]

(* The chain is in a state of which the protocol's own invariants hold.    *)
WebInit ==
  /\ WebChain
  /\ SoundChain
  /\ \E j \in Journeys : account = j[1] /\ page = j[2] /\ incidents = MaxIncidents - j[3]
  /\ SessionStart /\ Opened

WebSpec == WebInit /\ [][WebNext]_webVars /\ WebFairness

(* bob looks after his money, alice after her vault; the number bounds the *)
(* incidents of the session.                                               *)
AllJourneys ==
  {<<bob, "deposit", 1>>, <<bob, "redeem", 2>>, <<alice, "settings", 1>>, <<alice, "create", 0>>,
   <<alice, "dashboard", 2>>}

Redeeming == {<<bob, "redeem", 1>>}

RaisedFloor == {[maxSlippageBps |-> 1000, maxExposureBps |-> 5000,
                 minCooldownBlocks |-> 1, minLiquidityBps |-> 1000]}

(* alice governs, pauses, and deposits and redeems beside bob. *)
WebCallers == CallersFrom({"protocol-pause", "ceilings"}, {"vaults", "vault-pause", "pools"}, {})
=============================================================================
