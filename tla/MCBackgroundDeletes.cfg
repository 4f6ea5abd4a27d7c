SPECIFICATION FairDeletesSpec
CONSTANTS
  desk = desk
  set = set
  file = file
  process = process
  outputSet = outputSet
  output = output
  Vertices <- Desktop
  Desk = desk
  NoVertex = NoVertex
  Derived <- Lineage
  BelongsTo <- OnDesk
  SetOf <- Membership
  SetProcessOf <- Unset
  ChunkSize = 3
  Requests = {r1, r2}
  MaxFaults = 1
  MaxCrashes = 1
INVARIANTS SourcesKept 
PROPERTIES PendingResolved
CHECK_DEADLOCK FALSE
