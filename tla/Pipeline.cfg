SPECIFICATION PreparedSpec

CONSTANTS
  alice = alice
  bob = bob
  strategy = strategy
  now = now
  later = later
  elsewhere = elsewhere
  Principals = {alice, bob}
  Deployer = alice
  VAULT = VAULT
  StrategyContracts = {strategy}
  SbtcTokens = {sbtc}
  Absent = Absent
  MainnetChain = TRUE
  MaxVaults = 2
  MaxHeight = 3
  InitialHoldings = 5
  MaxStrategies = 1
  MinInitialDeposit <- OneUnitFirstDeposit
  Amounts = {3}
  Names = {treasury}
  Purposes = {0}
  AssetModes = {1}
  RiskParamSets <- AutonomousParamSets
  LimitSets <- OpenLimits
  StrategyCaps = {10000}
  Slippages = {100}
  Nonces = {1}
  Deadlines = {3}
  IntentWindow = 1
  Callers <- MovingCallers
  Requests = {now}
  ExecuteRequests = {now}
  PoolsAsked <- AnyPool
  ServiceNetwork <- TwoHosts
  ExecutorAddress = Absent
  ExecutorKey = bob

INVARIANTS
  RecordsMatchChain

PROPERTIES
  SettledStaysSettled
  RequestsEnd
