SPECIFICATION Spec

CONSTANTS
  alice = alice
  bob = bob
  Principals = {alice, bob}
  Deployer = alice
  VAULT = VAULT
  StrategyContracts = {strategy}
  SbtcTokens = {sbtc}
  Absent = Absent
  MainnetChain = TRUE
  MaxVaults = 1
  MaxHeight = 2
  InitialHoldings = 2
  MaxStrategies = 1
  MinInitialDeposit <- TwoUnitFirstDeposit
  Amounts = {1, 2}
  Names = {treasury}
  Purposes = {0}
  AssetModes = {1}
  RiskParamSets <- OneParams
  LimitSets = {}
  StrategyCaps = {5000}
  Slippages = {0}
  Nonces = {1, 2}
  Deadlines = {2}
  Callers <- AccountingCallers

INVARIANTS
  TypeOK
  StxAlwaysRedeemable

PROPERTIES
  ClaimsUndiluted
  TreasuryIsLedger
