SPECIFICATION FilesSpec
CONSTANTS
  FileIds = {1, 2, 3}
  NoFile = 0
  MaxDepth = 3
  Desks <- MCDesks
  RunDesks <- MCRunDesks
  GroupWorkers = {g1, g2}
  Deliveries = 2
  Editors = {e1, e2}
  Thumbnailers = {t1}
  NoBytes = NoBytes
  TornBytes = TornBytes
  MaxEdits = 2
  SetFiles = {1, 2, 4}
  FileType <- MCFileType
  Handlers = {h1, h2}
  Syncs = {y1, y2}
  NoSetFile = 0
  NoType = "none"
  MaxParts = 2
  PageSize = 1
  ZipUsers = {"u1"}
  ZipIds = {"z1"}
  Packers = {"w1", "w2"}
  NoZip = "none"
  NoUser = "none"
  MaxZipTries = 2
  TextFiles = {11, 12}
  TaggedFiles = {11}
  RoiRuns = {1, 2}
  RoiFile <- MCRoiFile
  RoiLabels <- MCRoiLabels
  IndexWorkers = {"w1"}
  WantedLabels = {"a", "b"}
  ChunkFiles = 1
  PageRows = 1
  NoText = 0
  MaxFaults = 1
  MaxReindexes = 1
  DeskCalls = {d1, d2}
  Labels = {"a", "b"}
  Lineage <- MCLineage
  Top = "desk"
  Nothing = "nothing"
  MaxProjects = 3
  MaxHidden = 1
SYMMETRY Symmetry
INVARIANTS EveryFileOnce GroupsAreWhole GroupsGetOutputs   ViewsFollowMembers
    TextIsFound DesksAreShownRight
CHECK_DEADLOCK FALSE
