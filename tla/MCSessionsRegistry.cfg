\* Sessions competing for the registry and for provider calls: purge, expiry, capacity
\* refusals, a cancel in flight, and shutdown. Nothing streams.
SPECIFICATION Spec
CONSTANTS
  Session = {s1, s2, s3}
  Client = {c1}
  Lifespan = Lifespan
  ToolId = {r1}
  Probing = {s1, s2, s3}
  Streaming <- NoStreaming
  Piped = {}
  Fragments = {1, 2}
  TextSizes = {0}
  MaxOutput = 3
  RequestChars = 1
  MaxRounds = 1
  MaxRunning = 1
  MaxSessions = 2
  MaxEvents = 9
  Reserve = 4
  StreamBudget = 3
  StreamChars = 1
SYMMETRY RecordSymmetry
CHECK_DEADLOCK FALSE
INVARIANTS
  CapacityRespected
  LiveTaskOwned
  RunningHasTask
  ShutdownSettles
