CONSTANTS
  a = a
  b = b
  c = c
  none = none
  Tasks = {a, b, c}
  Owner <- OneOwner
  Parent <- NoParents
  NoParent = none
  Root <- OwnRoots
  Mode <- AllExclusive
  Keys <- NoKeys
  DefaultKey = "workspace:default"
  WorkMode = {a, b, c}
  Trust = FALSE
  MaxConcurrent = 2
  MaxQueued = 3
  Stoppable = {}
  Delegable = {}
  Outcomes = {"completed"}
  Approving = {}
  Streamed = {}
  Prunable = {}
  Faults = {"busy"}
  MaxFaults = 1
  MaxStops = 0
SPECIFICATION Spec
CHECK_DEADLOCK FALSE
INVARIANTS SlotsBounded NoStalledQueue
SYMMETRY Alike
