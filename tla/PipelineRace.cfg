SPECIFICATION PreparedSpec

CONSTANTS
  alice = alice
  bob = bob
  strategy = strategy
  now = now
  later = later
  elsewhere = elsewhere
  Principals = {alice, bob}
  Deployer = alice
  VAULT = VAULT
  StrategyContracts = {strategy}
  SbtcTokens = {sbtc}
  Absent = Absent
  MainnetChain = TRUE
  MaxVaults = 1
  MaxHeight = 2
  InitialHoldings = 5
  MaxStrategies = 1
  MinInitialDeposit <- OneUnitFirstDeposit
  Amounts = {3}
  Names = {treasury}
  Purposes = {0}
  AssetModes = {1}
  RiskParamSets <- AutonomousParamSets
  LimitSets <- OpenLimits
  StrategyCaps = {10000}
  Slippages = {100}
  Nonces = {1}
  Deadlines = {3}
  IntentWindow = 1
  Callers <- QuietCallers
  Requests = {now, later, elsewhere}
  ExecuteRequests = {now, later, elsewhere}
  PoolsAsked <- StxOfVaultOne
  ServiceNetwork <- TwoHosts
  ExecutorAddress = Absent
  ExecutorKey = bob

INVARIANTS
  OneExecutionPerNonce
  TestnetServiceNeverSubmits

\* Every request is answered and the last block is mined: nothing is left to do.
CHECK_DEADLOCK FALSE
