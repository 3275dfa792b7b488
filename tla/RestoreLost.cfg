CONSTANTS
  k1 = k1
  k2 = k2
  g1 = g1
  g2 = g2
  w1 = w1
  w2 = w2
  Tasks = {k1, k2}
  Gateways = {g1, g2}
  MaxRecords = 2
  MaxUnits = 3
  Migration = 2
  Slots = 1
  Control = 0
  StoreFaults = {"restore"}
  MaxStoreFaults = 1
  MaxOutages = 0
  MaxEvents = 3
  MaxAppends = 8
  MaxPending = 1
  Attempts = 2
  MaxNotes = 3
  MaxTurns = 1
  MaxMishaps = 2
  FileWatches = {w1, w2}
  MaxRevision = 3
  MaxFileWatches = 1
  MaxFileFaults = 1
  MaxFileCrashes = 1
SPECIFICATION MCSpec
CHECK_DEADLOCK FALSE
INVARIANTS
  AckedIsKept
SYMMETRY Sym
