SPECIFICATION MCSpec
CONSTANTS
  Stores = {s1, s2}
  NoStore = NoStore
  Catalogs = {x, y}
  NoCatalog = NoCatalog
  MaxGeneration = 3
  MaxFaults = 1
  Procs = {p1, p2}
  Calls = {c1, c2}
  NoProc = NoProc
  Keys = {a, b}
  MaxRecords = 1
  MaxSequence = 3
  MaxRevision = 1
  Kinds = {"collections", "actions", "shows"}
  Ids = {"i1", "i2"}
  Requests = 2
  MaxSaves = 4
SYMMETRY Symmetry
INVARIANTS GenerationsNameOneCatalog SequencesAreFresh QuietFileIsTheCache
CHECK_DEADLOCK FALSE
