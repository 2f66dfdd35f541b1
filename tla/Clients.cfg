\* Every request planned once; two forms and an exit carried out by two steppers; an agent that
\* manages a position on an old manager or the current one.
SPECIFICATION ClientsSpec
CONSTANTS
  SqrtPrice <- MCSqrtPrice
  Scale = 64
  LRef = 16384
  MaxBins = 4
  StaleTicks = 1
  BandTicks = 1
  DefaultSpacing <- MCDefaultSpacing
  RouterRows = 2
  None = None
  Requests <- MCRequests
  Forms <- MCForms
  Wallets <- MCWallets
  Payout = 2
  GasReserve = 1
  Runs = {1, 2}
  MaxTrouble <- MCMaxTrouble
  Managers <- MCManagers
  Capped = {"v2", "v3"}
  Positions <- MCPositions
  Percents = {3333, 10000}
  Purse <- MCPurse
  Patience = 3
  PairIds = {"ownv4", "native", "clone", "stock"}
  VenueAt <- MCVenueAt
  Listings <- MCListings
  OwnPools = {"tier", "first", "dollar"}
  OwnAt <- MCOwnAt
  Floor = 3
  MostFee = 100
  Probes = 2
  MaxOpen = 2
  MaxBoardTrouble = 2
  Accounts = {"a1", "a2"}
  Watched = {"w"}
  Failures = {"f1", "f2"}
  NoOne = NoOne
  EventCap = 1
  LogCap = 2
  IpCap = 1
  MaxRecent = 1
  Minute = 1
  Visits <- MCVisits
INVARIANTS
  ClientsTypeOK
  PlanFits
  OpensOnce
  ExitSells
  BuiltGoesThrough
  IncumbentIsReal
  AnswersAgree
  CountedOnce
  IntakeBounded
  BookKept
PROPERTIES
  PlanCatchesUp
  GetsOut
CHECK_DEADLOCK FALSE
