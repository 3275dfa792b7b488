CONSTANTS
  MaxAsks = 2
  MaxTurns = 2
  MaxCalls = 1
  MaxQueuedAsks = 1
  DownAfter = 2
  UpAfter = 2
  BrainFaults = {"values", "restart", "spawn"}
  MaxBrainFaults = 1
  MaxBrainDeaths = 1
  MaxEpisodes = 2
  MaxSockets = 3
  MaxGens = 4
  MaxForced = 2
  MaxGaveUp = 1
  MaxQueuedFrames = 2
  MaxResponses = 2
  MaxFrames = 2
  MaxCuts = 1
  MaxMicCalls = 3
  MaxTaskEvents = 5
  MaxConnections = 2
  MaxRequests = 1
  MaxUnderway = 1
  MaxTyped = 2
  MaxConsoleSteps = 5
  MaxRivaFrames = 2
  MaxEars = 2
  MaxSayings = 1
  MaxBargeIns = 1
  MaxRivaCalls = 1
  MaxHeardParts = 1
  MaxPageEvents = 2
  MaxLines = 3
  MaxDrops = 1
  MaxText = 2
  MaxRevisions = 2
  MaxPaints = 3
  MaxExpiries = 1
  MaxRelayed = 2
  MaxHostChanges = 1
  MaxCommands = 3
  MaxDefinitions = 2
  MaxRefusals = 2
  MaxExits = 1
  MaxBytes = 2
  MaxStarts = 2
  MaxParts = 3
  Visits = {v1, v2}
  Origins = {o1, o2}
  ProbeFor = 1
  CacheFor = 1
  MaxTicks = 3
  MaxFlips = 1
  ToolTasks = {"j1", "j2"}
  ToolCalls = {"c1", "c2"}
  MaxQueuedTasks = 1
  MaxToolMoves = 1
  MaxToolFaults = 1
SPECIFICATION EdgeSpec
CHECK_DEADLOCK FALSE
INVARIANTS
  ProvidersKept
  ReconnectKept
  AudioKept
  ClientsKept
PROPERTIES
  CutOffIsSilent
  NeverBack
