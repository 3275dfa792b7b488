CONSTANTS
  a = a
  b = b
  c = c
  none = none
  Tasks = {a}
  Owner <- OneOwner
  Parent <- NoParents
  NoParent = none
  Root <- OwnRoots
  Mode <- AllExclusive
  Keys <- NoKeys
  DefaultKey = "workspace:default"
  WorkMode = {}
  Trust = FALSE
  MaxConcurrent = 1
  MaxQueued = 1
  Stoppable = {a}
  Delegable = {}
  Outcomes = {"completed"}
  Approving = {}
  Streamed = {}
  Prunable = {a}
  Faults = {"busy", "ambiguous", "stop", "get"}
  MaxFaults = 1
  MaxStops = 1
SPECIFICATION FairSpec
CHECK_DEADLOCK FALSE
PROPERTIES EverySubmissionSettles CompletedRunCloses
