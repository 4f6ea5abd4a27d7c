SPECIFICATION FairImportSpec
CONSTANTS
  process = p
  topic = t
  Total = 3
  DeleteOriginal = TRUE
  MaxFaults = 2
  MaxCrashes = 1
  MaxLapses = 1
  Rids = {p}
  NoRid = NoRid
  Adapters = {a1, a2}
  NoAdapter = NoAdapter
  Topics = {t}
  Shapes = {}
  AttemptLimits = {2}
  ClaimWindow = 50
  PanelLimit = 200
  AbortPercent = 50
  AbortConsecutive = 5
  KeepFailed = FALSE
  MaxJobs = 1
  MaxClaims = 2
INVARIANTS ImportIsSafe
PROPERTIES ImportEnds
CHECK_DEADLOCK FALSE
