SPECIFICATION DeletesSpec
CONSTANTS
  desk = desk
  set = set
  file = file
  process = process
  outputSet = outputSet
  output = output
  Vertices <- Desktop
  Desk = desk
  NoVertex = NoVertex
  Derived <- Lineage
  BelongsTo <- OnDesk
  SetOf <- Membership
  SetProcessOf <- Unset
  ChunkSize = 3
  Requests = {r1}
  MaxFaults = 0
  MaxCrashes = 1
INVARIANTS RestartsFinishDeletes
CHECK_DEADLOCK FALSE
