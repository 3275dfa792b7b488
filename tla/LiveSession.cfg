CONSTANTS
  c1 = c1
  c2 = c2
  f1 = f1
  f2 = f2
  a1 = a1
  x1 = x1
  t1 = t1
  s1 = s1
  s2 = s2
  Nobody = Nobody
  NoSession = NoSession
  Calls = {c1, c2}
  MaxItems = 2
  MaxClient = 2
  MaxHeld = 1
  MaxActive = 1
  MaxRunning = 2
  MaxLedger = 1
  MaxSeen = 3
  Flushes = {f1, f2}
  Answers = {a1}
  Externals = {x1}
  Tasks = {t1}
  MaxTries = 2
  MaxEvents = 2
  Sessions = {s1, s2}
  MaxSequence = 1
  MaxStarts = 3
  MaxUtterances = 3
  MaxGateRetries = 2
  MaxPerSequence = 1
  MaxClipFrames = 2
  MaxWaits = 1
  MaxFrames = 4
  MaxScoring = 2
  FrameChunks = 1
  StartSustain = 1
  EchoSustain = 3
  StopSustain = 1
  TailFrames = 1
  PrerollFrames = 1
  HalfDuplex = FALSE
  d1 = d1
  q1 = q1
  q2 = q2
  k1 = k1
  k2 = k2
  w1 = w1
  w2 = w2
  NoRequest = NoRequest
  Devices = {d1}
  Requests = {q1, q2}
  MaxThreads = 3
  MaxTroubles = 1
  MaxMoves = 1
  MaxLocalAsks = 1
  MaxVoiceTurns = 2
  MaxToolCalls = 1
  MaxQueued = 1
  MaxConnects = 1
  MaxWire = 2
  Clients = {k1, k2}
  MaxSessions = 1
  MaxReturns = 2
  Asks = {w1, w2}
  Keys = {k1, k2}
  Linked = {k2}
  MaxInflight = 2
  Lagging = FALSE
  MaxAgents = 2
  MaxHostFaults = 2
  MaxGatewayDeaths = 1
  MaxRetries = 1
  MaxStops = 1
SPECIFICATION MCSpec
CHECK_DEADLOCK FALSE
INVARIANTS
  InputKept
  ExecutedOnce
  AnnouncementsKept
  LifecycleKept
  OutputKept
  DetectionKept
  ConversationKept
  LocalKept
  ServerKept
  DelegationKept
PROPERTIES
  CancelledIsSilent
SYMMETRY Alike
