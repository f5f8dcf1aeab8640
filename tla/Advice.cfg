SPECIFICATION Spec

CONSTANTS
  alice = alice
  bob = bob
  Principals = {alice, bob}
  Deployer = alice
  VAULT = VAULT
  StrategyContracts = {strategy}
  SbtcTokens = {sbtc}
  Absent = Absent
  MainnetChain = TRUE
  MaxVaults = 1
  MaxHeight = 2
  InitialHoldings = 5
  MaxStrategies = 2
  MinInitialDeposit <- OneUnitFirstDeposit
  Amounts = {1, 3}
  Names = {treasury}
  Purposes = {0}
  AssetModes = {1}
  RiskParamSets <- UnevenParams
  LimitSets <- OpenLimits
  StrategyCaps = {5000, 9000}
  Slippages = {0}
  Nonces = {1, 2}
  Deadlines = {3}
  IntentWindow = 1
  NotChecked = NotChecked
  ChecksTried <- SomeChecks
  Callers <- BoundaryCallers

INVARIANTS
  ProposalsPass
  ProposalsAreLargest
  PassedIntentsExecute
  EcosystemAdviceHonest

PROPERTY PreviewsComeTrue
