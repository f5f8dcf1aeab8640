SPECIFICATION Spec

CONSTANTS
  alice = alice
  bob = bob
  Principals = {alice, bob}
  Deployer = alice
  VAULT = VAULT
  StrategyContracts = {strategy}
  SbtcTokens = {sbtc}
  Absent = Absent
  MainnetChain = TRUE
  MaxVaults = 1
  MaxHeight = 3
  InitialHoldings = 4
  MaxStrategies = 1
  MinInitialDeposit <- TwoUnitFirstDeposit
  Amounts = {1, 3}
  Names = {treasury}
  Purposes = {0}
  AssetModes = {1}
  RiskParamSets <- TwoParams
  LimitSets = {}
  StrategyCaps = {2500, 5000}
  Slippages = {0, 101}
  Nonces = {1, 2}
  Deadlines = {1, 3}
  Callers <- IntentsCallers

INVARIANTS
  AllocationBooks

PROPERTIES
  NonceDiscipline
  DeploymentsWithinMandate
  DeploymentsNeedConsent
