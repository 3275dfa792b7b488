CONSTANTS
  a = a
  b = b
  c = c
  none = none
  Tasks = {a}
  Owner <- OneOwner
  Parent <- NoParents
  NoParent = none
  Root <- OwnRoots
  Mode <- AllExclusive
  Keys <- NoKeys
  DefaultKey = "workspace:default"
  WorkMode = {}
  Trust = FALSE
  MaxConcurrent = 1
  MaxQueued = 1
  Stoppable = {a}
  Delegable = {}
  Outcomes = {"completed"}
  Approving = {}
  Streamed = {}
  Prunable = {a}
  Faults = {"busy", "refused", "ambiguous", "persist", "stop", "mismatch", "get", "admit"}
  MaxFaults = 2
  MaxStops = 2
SPECIFICATION Spec
CHECK_DEADLOCK FALSE
INVARIANTS TypeOK UntrackedRunFenced
PROPERTIES StopIntentKept KeepsPromise
