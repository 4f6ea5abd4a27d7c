SPECIFICATION GroupRunSpec
CONSTANTS
  FileIds = {1, 2, 3, 4}
  NoFile = 0
  MaxDepth = 4
  Desks <- MCRunDesks
  RunDesks <- MCRunDesks
  GroupWorkers = {"c1", "c2"}
  Deliveries = 1
INVARIANT DoneWhenAllGroups
CHECK_DEADLOCK FALSE
