SPECIFICATION BatchSpec
CONSTANTS
  batch = b
  topic = t
  Total = 2
  Missing = {1}
  Budget = TRUE
  Requests = {r1, r2}
  Asked = {"pause", "resume", "cancel"}
  First = First
  MaxFailures = 1
  MaxCrashes = 1
  Rids = {b}
  NoRid = NoRid
  Adapters = {a1}
  NoAdapter = NoAdapter
  Topics = {t}
  Shapes = {}
  AttemptLimits = {1, 2}
  ClaimWindow = 50
  PanelLimit = 200
  AbortPercent = 50
  AbortConsecutive = 5
  KeepFailed = FALSE
  MaxJobs = 3
  MaxClaims = 2
SYMMETRY Symmetry
INVARIANTS BatchIsSafe
CHECK_DEADLOCK FALSE
