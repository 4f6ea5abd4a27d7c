SPECIFICATION ServicesSpec
CONSTANTS
  NodeFiles <- MCNodeFiles
  Offerers = {"ocr", "llm", "splitter", "solr"}
  Descriptor <- MCDescriptors
  PromptTypes = {"text", "image", "pdf"}
  UserGroups = {"g1", "g3"}
  TaskFilters = {"", "rois"}
  MaxSetFiles = 3
  Payers = {"u1"}
  Groups = {"g1", "g2"}
  MemberOf <- MCMemberOf
  PaidServices <- MCPaidServices
  Jobs = {j1, j2}
  Consumers = {k1, k2}
  NoRow = NoRow
  NoLimits = NoLimits
  NoGroup = "nogroup"
  NoJob = "none"
  RawLimits <- MCRawLimits
  Reports = {1}
  FirstLimits <- MCFirstLimits
  DaysPerMonth = 2
  LastDay = 2
  MaxTries = 2
  MaxFailures = 1
  MaxUpdates = 1
  ServiceIds = {"i1"}
  Adapters = {a1, a2}
  Writers = {w1, w2}
  Descriptors <- MCDescriptorsSent
  Absent = Absent
  Torn = Torn
  MaxChanges = 3
  MaxCrashes = 1
  Users = {"u1", "u2"}
  SearchDocs = {"d1", "d2"}
  DocOwner <- MCDocOwner
  IndexFiles = {"i1"}
  IndexOwner <- MCIndexOwner
  BuiltBy <- MCBuiltBy
  DefaultService = "e5"
  SearchServices = {"e5"}
  NoService = "ns"
  SearchIds = {"s1", "s2"}
  Answers = {n1, n2}
  NoSearch = "none"
  MaxIndexWrites = 2
  Posters = {p1, p2}
  WriteRetries = 2
  Records = {"r1", "r2", "r3"}
  RidLists <- MCRidLists
  ReadChunk = 2
  MaxLost = 2
  MaxBusy = 1
  MaxGone = 2
  Requests = {"q1", "q2"}
  Tasks <- MCRunTasks
  AskedMax = {0, 2}
  Caps = {0, 1, 2}
  MaxStops = 1
  MaxRegisters = 1
  RoiCalls = {"o1", "o2", "o3"}
  MaxRois = 2
  MaxRoiStops = 1
SYMMETRY Symmetry
INVARIANTS SetOffersWhatItsFilesGet BudgetIsKept RegistryIsKept  ClientKeepsItsWord RunsAreReady RegionsAreKept
CHECK_DEADLOCK FALSE
