SPECIFICATION ServicesSpec

CONSTANTS
  Services = {"explorer"}
  MaxListedRuns = 1
  Hosts = {"agent", "web"}
  ExecutingHosts = {"agent"}
  MaxLog = 2
  MaxRuns = 3
  MaxTip = 2
  MaxCrashes = 1
  Window = 0
  Torn = Torn
  Nothing = Nothing
  Clients = {"one", "two"}
  Protocols = {"zest"}
  Fresh = 1
  StaleMax = 3
  FetchTimeout = 1
  MaxClock = 6
  Providers <- SomeProviders
  Markets <- SomeMarkets
  None = None
  Asked = Asked
  Failed = Failed
  MaxMessages = 2
  MaxDeltas = 2
  HasKey = {TRUE, FALSE}
  alice = alice
  bob = bob
  Viewers <- SomeViewers
  OwnerOf <- SomeOwners
  Doings <- SomeDoings
  Decided <- SomeDecided
  PageSize = 1
  MaxPages <- SomePages
  Limit = 1
  AiRows = 1
  MaxEvents = 3
  MaxFeedLoads = 2
  MaxSurprises = 1
  Nobody = Nobody
  NotLoaded = NotLoaded
  MaxAnalyses = 2
  MaxOthers = 1
  MaxFaults = 3
  Unset = Unset
  Explored = {1, 2}
  ListingsTried <- SomeListings
  Replies = {"plain", "figures too", "names a domain", "no JSON", "none"}
  MaxOpenings = 2
  MaxListings = 2
  Wait = Wait
  Void = Void

INVARIANT FiguresVerified

\* The page comes to rest at its bounds.
CHECK_DEADLOCK FALSE
