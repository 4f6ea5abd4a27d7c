SPECIFICATION Spec
CONSTANTS
  single = single
  set = set
  Rids = {single, set}
  NoRid = NoRid
  Adapters = {a1, a2}
  NoAdapter = NoAdapter
  Topics = {t}
  Shapes <- AllShapes
  AttemptLimits = {2}
  ClaimWindow = 50
  PanelLimit = 200
  AbortPercent = 50
  AbortConsecutive = 2
  KeepFailed = TRUE
  MaxJobs = 2
  MaxClaims = 3
SYMMETRY Symmetry
INVARIANTS QueueInv
PROPERTIES StoppedNeverStarts StopsOutlastJobs EndedStaysEnded ControlSparesRunning ClaimsInOrder ImplementsWorkQueue
