SPECIFICATION WebSpec

CONSTANTS
  alice = alice
  bob = bob
  strategy = strategy
  treasury = treasury
  Principals = {alice, bob}
  Deployer = alice
  VAULT = VAULT
  StrategyContracts = {strategy}
  SbtcTokens = {sbtc}
  AppToken = sbtc
  Absent = Absent
  Unknown = Unknown
  Loading = Loading
  Missing = Missing
  Refused = Refused
  MainnetChain = TRUE
  MaxVaults = 2
  MaxHeight = 1
  InitialHoldings = 6
  MaxStrategies = 1
  MinInitialDeposit <- TwoUnitFirstDeposit
  Amounts = {2, 4}
  Names = {treasury}
  Purposes = {1}
  AssetModes = {1, 3}
  RiskParamSets = {}
  RiskTexts <- EdgeTexts
  LimitSets <- RaisedFloor
  StrategyCaps = {}
  Slippages = {}
  Nonces = {}
  Deadlines = {}
  Callers <- WebCallers
  Wallets = {alice, bob}
  AppAccounts = {alice, bob}
  FeeReserve = 1
  Shown = 1
  MaxSent = 2
  MaxIncidents = 2
  MaxLoads = 2
  Journeys <- AllJourneys

INVARIANTS
  ButtonsExact
  OutcomesTrue
  TreasuriesComplete

PROPERTIES
  OnlyViewerPays
  OverviewAdvances
  SubmissionsSettle
  ListCatchesUp

\* A session may be over, with nothing left that moves the chain.
CHECK_DEADLOCK FALSE
