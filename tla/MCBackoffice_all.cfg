\* Every scene: accounts, levels, balances, parameters, reports and rules.
CONSTANTS
  Scenes = {"registry", "sessions", "levels", "balances", "params", "reports", "rules"}
  addr1 = addr1
  addr2 = addr2
  addr3 = addr3
  run1 = run1
  run2 = run2
  Addresses = {addr1, addr2, addr3}
  Genesis = addr1
  NoCode = NoCode
  Visits = {run1, run2}
  TokenTTL = 1
  MaxTime = 2
  MaxChallenges = 2
  MaxFaults = 1
  Members = {1, 2}
  MaxLevel = 1
  NoNumber = NoNumber
  Refreshers = {run1, run2}
  Holders = {h1}
  NoSum = NoSum
  Sums <- Requested
  Desks = {run1, run2}
  MaxRequests = 3
  MaxLost = 1
  Keys = {"k1", "k2"}
  NoKey = "none"
  Values = {"x", "y"}
  Valid <- ValidValues
  Default <- AllX
  Processes = {p1, p2}
  Jobs = {run1, run2}
  NoProcess = NoProcess
  MaxUpdates = 2
  MaxErrors = 1
  Kinds <- FiveKinds
  Before = 3
  PageSize = 2
  Window = 1
  MaxRows = 2
  MaxDay = 1
  Texts <- ShortTexts
  Blank = Blank
  Bad = Bad
  Tables <- SmallTables
  Empty = Empty
  MaxMultipliers = 3
  TopLevel = 3
  WeiPerUSDT = 10
  Payments <- SmallPayments
  Chain <- Kin
  LevelRates <- AnyRates
  Refused = Refused
  Unanswered = Unanswered
SPECIFICATION Spec
SYMMETRY Interchangeable
INVARIANTS BackofficeTypeOK NonceOnce PathIsLineage PathExtendsInviters LineExact LockedOut GrantedLevelStays NonNegative BooksBalance ConfigValid SeedNeverOverwrites ActiveIsFresh NothingMissed TodayWithinTotal ReadsExactly GapWithinTop
CHECK_DEADLOCK FALSE
