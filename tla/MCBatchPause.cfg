SPECIFICATION BatchSpec
CONSTANTS
  batch = b
  topic = t
  Total = 2
  Missing = {}
  Budget = FALSE
  Requests = {r1, r2}
  Asked = {"pause", "resume"}
  First = First
  MaxFailures = 0
  MaxCrashes = 0
  Rids = {b}
  NoRid = NoRid
  Adapters = {a1, a2}
  NoAdapter = NoAdapter
  Topics = {t}
  Shapes = {}
  AttemptLimits = {2}
  ClaimWindow = 50
  PanelLimit = 200
  AbortPercent = 50
  AbortConsecutive = 5
  KeepFailed = FALSE
  MaxJobs = 4
  MaxClaims = 2
SYMMETRY Symmetry
INVARIANTS NoInputForgotten PausedMeansStopped
CHECK_DEADLOCK FALSE
