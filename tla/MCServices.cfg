CONSTANTS
  x = x
  y = y
  h1 = h1
  h2 = h2
  p1 = p1
  p2 = p2
  done = done
  pro = pro
  shelf = shelf
  Members = {x, y}
  MaxMessages = 2
  ChatHandlers = {h1, h2}
  Nobody = Nobody
  NoCount = NoCount
  JobKeys = {done}
  ProductKeys = {x, y}
  Targets = {pro, shelf}
  TargetOf <- Rated
  Stars = {4}
  ReviewHandlers = {h1, h2}
  MaxReviewCrashes = 1
  NoKey = NoKey
  Devices = {x, y}
  OnlineIn = {"profile", "key", "seen"}
  MaxFaults = 1
  Reports = {h1, h2}
  Sessions = {x, y}
  Processes = {p1, p2}
  MaxWire = 2
  NoReport = NoReport
  NoEntry = NoEntry
  Servers = {x, y}
  RedisKeys = {h1, h2}
  Calls = {h1, h2}
  RefreshIds = {x, y}
  AccessTTL = 1
  MarkerTTL = 1
  MaxAttempts = 2
  MaxTicks = 3
  MaxCodes = 2
  MaxCounted = 4
  Pros = {x, y}
  Crafts = {"fits", "other"}
  JobCrafts = {"fits"}
  Regions = {"district"}
  MaxCandidates = 1
  MaxChanges = 2
  Digits = {8, 9}
  OperatorCodes <- Codes
  MaxTyped = 13
  DayLength = 2
  Offset = 1
  MonthDays = 1
  JobFee = 1
  DashboardJobs = {x, y}
  DashboardTopUps = {done}
  MaxClock = 2
  PageLimit = 1
  MaxRows = 3
SPECIFICATION Spec
SYMMETRY Symmetry
INVARIANTS ServicesTypeOK UnreadIsAccounted RatingFollowsReviews RatedWithReview GoneIsOffline NoStaleStore FreshSurvives CutOffHolds GuessesBounded OffersKeepPromises ReadsAreRight
PROPERTIES ClosedSticks
