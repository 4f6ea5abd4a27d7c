SPECIFICATION TagsSpec
CONSTANTS
  Calls = {c1, c2}
  d1 = d1
  d2 = d2
  f1 = f1
  f2 = f2
  x = x
  y = y
  tag = tag
  person = person
  r1 = r1
  Desks = {d1, d2}
  Files = {f1, f2}
  Names = {x, y}
  Types = {tag, person}
  ProtectedType = tag
  Runs = {r1}
  NoRun = NoRun
  NoDesk = NoDesk
  NoFile = NoFile
  NoName = NoName
  DeskOf <- MCDeskOf
  TypeOf <- MCTypeOf
  StartEntities <- MCEntities
  StartLinks <- MCLinks
  StartVocabulary <- MCVocabulary
  Together <- Overlaps
  MaxCalls = 3
  MaxEntities = 4
SYMMETRY CallSymmetry
INVARIANTS VocabularyIsSound   QueriesAgree
PROPERTIES UserTagsKept
CHECK_DEADLOCK FALSE
