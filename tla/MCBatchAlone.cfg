SPECIFICATION FairBatchSpec
CONSTANTS
  batch = b
  topic = t
  Total = 3
  Missing = {}
  Budget = FALSE
  Requests = {}
  Asked = {}
  First = First
  MaxFailures = 0
  MaxCrashes = 0
  Rids = {b}
  NoRid = NoRid
  Adapters = {a1, a2}
  NoAdapter = NoAdapter
  Topics = {t}
  Shapes = {}
  AttemptLimits = {2}
  ClaimWindow = 50
  PanelLimit = 200
  AbortPercent = 50
  AbortConsecutive = 5
  KeepFailed = FALSE
  MaxJobs = 3
  MaxClaims = 1
INVARIANTS DoneMeansAllProcessed
PROPERTIES EventuallyDone
CHECK_DEADLOCK FALSE
