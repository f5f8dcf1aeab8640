SPECIFICATION Spec

CONSTANTS
  alice = alice
  bob = bob
  Principals = {alice, bob}
  Deployer = alice
  VAULT = VAULT
  StrategyContracts = {strategy}
  SbtcTokens = {sbtc, sbtc2}
  Absent = Absent
  MainnetChain = FALSE
  MaxVaults = 1
  MaxHeight = 1
  InitialHoldings = 2
  MaxStrategies = 0
  MinInitialDeposit <- OneUnitFirstDeposit
  Amounts = {1}
  Names = {treasury}
  Purposes = {0}
  AssetModes = {3}
  RiskParamSets <- OneParams
  LimitSets = {}
  StrategyCaps = {}
  Slippages = {}
  Nonces = {}
  Deadlines = {}
  Callers <- CustodyCallers

INVARIANT SbtcAlwaysRedeemable
