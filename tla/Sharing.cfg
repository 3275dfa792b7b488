CONSTANTS
  a = a
  b = b
  c = c
  none = none
  Tasks = {a, b, c}
  Owner <- OneOwner
  Parent <- NoParents
  NoParent = none
  Root <- OwnRoots
  Mode <- TwoReaders
  Keys <- TwoRepos
  DefaultKey = "workspace:default"
  WorkMode = {c}
  Trust = TRUE
  MaxConcurrent = 2
  MaxQueued = 3
  Stoppable = {}
  Delegable = {a}
  Outcomes = {}
  Approving = {}
  Streamed = {}
  Prunable = {}
  Faults = {}
  MaxFaults = 0
  MaxStops = 0
SPECIFICATION Spec
CHECK_DEADLOCK FALSE
INVARIANTS ReservationsExclusive QueueTold
