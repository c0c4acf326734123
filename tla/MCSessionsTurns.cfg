\* One session through its turns: streaming, tool rounds, follow-ups, timeouts,
\* two concurrent cancel calls, and the log filling up to its reserve.
SPECIFICATION Spec
CONSTANTS
  Session = {s1}
  Client = {c1, c2}
  Lifespan = Lifespan
  ToolId = {r1, r2}
  Probing = {s1}
  Streaming = {s1}
  Piped = {}
  Fragments = {1, 2}
  TextSizes = {0}
  MaxOutput = 10
  RequestChars = 1
  MaxRounds = 2
  MaxRunning = 1
  MaxSessions = 1
  MaxEvents = 14
  Reserve = 4
  StreamBudget = 3
  StreamChars = 1
SYMMETRY TurnSymmetry
CHECK_DEADLOCK FALSE
INVARIANTS
  TypeOK
  ConsistentUnlessStranded
  TranscriptAnswered
  ReserveSuffices
  LimitsRespected
PROPERTIES
  ImplementsLifecycle
  FailureIsFinal
  NoCompletionAfterCancel
