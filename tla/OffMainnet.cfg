SPECIFICATION OffMainnetSpec

CONSTANTS
  alice = alice
  bob = bob
  Principals = {alice, bob}
  Deployer = alice
  VAULT = VAULT
  StrategyContracts = {strategy}
  SbtcTokens = {sbtc}
  Absent = Absent
  MainnetChain = FALSE
  MaxVaults = 2
  MaxHeight = 1
  InitialHoldings = 2
  MaxStrategies = 1
  MinInitialDeposit <- OneUnitFirstDeposit
  Amounts = {1}
  Names = {"", "treasury"}
  Purposes = {0, 6}
  AssetModes = {0, 3, 4}
  RiskParamSets <- SomeInvalidParams
  LimitSets = {}
  StrategyCaps = {0, 4000, 5000, 10001}
  Slippages = {0}
  Nonces = {1}
  Deadlines = {1}
  Callers <- GovernanceCallers

INVARIANTS
  VaultBooks
  GateClosedOffMainnet
  CustodyBooks

PROPERTY WealthConserved
