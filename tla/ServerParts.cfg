SPECIFICATION ServerSpec
SYMMETRY Interchangeable
CHECK_DEADLOCK FALSE
CONSTANTS
  member = member  guest = guest
  p1 = p1  p2 = p2  p3 = p3
  \* Avatars
  Images = {pic1, pic2}
  Uploads = {p1, p2}
  NoImage = NoImage
  MaxVersion = 3
  MaxDecisions = 1
  \* Listings
  Apps = {1, 2}
  Voters = {ann, bob}
  Lists = {"feed", "community"}
  PageSize = 1
  MaxNow = 1
  MaxRevision = 1
  \* Membership
  Subjects = {ann, bob}
  Legacy = {ann}
  Keys = {key}
  Titles = {1}
  Values = {plain, edited}
  DefaultValue = plain
  Clients = {p1, p2}
  MaxPrefVersion = 2
  MaxEvents = 5
  \* AiBudget
  Callers = {p1, p2, p3}
  MinuteTicks = 1
  DayTicks = 2
  MinuteBudget = 1
  DayBudget = 2
  MaxWall = 2
  \* AiRouter
  Calls = {"call1", "call2"}
  Chain <- ModelChains
  Preference <- ResponsesFirst
  RouteTicks = 3
  FailureThreshold = 2
  OpenTicks = 1
  FreshTicks = 2
  MaxClock = 3
  \* AiRank
  Tasks = {p1, p2}
  Users = {member}
  Visitor = guest
  Asks <- RankAsks
  Bases <- RankBases
  Retrieved <- HybridLists
  Foreign = 0
  MaxRanked = 1
  MaxPermits = 1
  DailyQuota = 1
  \* Curation
  Unknown = Unknown
  Hints <- LabelSets
  Platforms <- PlatformLists
  GoldenGames <- GoldenEntries
  Rulings <- CuratorRulings
  \* Releases
  Days = {1, 2, 3, 4}
  TextOnly = TextOnly
  NoDate = NoDate
  \* Enrichment
  Candidates = {1}
  Enrichers = {p1, p2}
  Kinds = {"gallery", "store", "snapshot"}
  BatchLimit = 1
  MaxAttempts = 2
  Threshold = 95
  \* RateLimits
  HttpRequests <- RequestKinds
  Quota <- Quotas
  NoName = "-"
  WindowTicks = 2
  SweepEvery = 2
  MaxCounters = 4
  MaxTick = 4
  \* CandidateSearch
  StoreGames = {1, 2, 3}
  PageRows = 2
  Wanted = {2, 3}
  MaxShuffles = 2
  \* Retrieval
  Entries = {1}
  Texts = {text1, text2}
  NoText = NoText
  Syncers = {p1, p2}
  SyncLimit = 1
  After = {0}
  MaxEdits = 2
  \* Migrations
  Openers = {"old", "new", "next"}
  LatestOf <- ThreeReleases
  ToolReleases = {1, 2, 3}
INVARIANTS
  TypesOK  FeedbackFollows BudgetHolds HangLeavesRoom CallsWithinQuota
  RankingKeepsList ProfileExplained ReleaseRemembered  QuotasHold
  ExhaustedIsTrue IndexFollowsCatalog ScriptsRunOnce

   
