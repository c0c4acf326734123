\* Two sessions without symmetry: every turn and every cancel call ends, and the public
\* lifecycle holds while one session expires and the other is created.
SPECIFICATION LiveSpec
CONSTANTS
  Session = {s1, s2}
  Client = {c1, c2}
  Lifespan = Lifespan
  ToolId = {r1}
  Probing = {s1}
  Streaming <- NoStreaming
  Piped = {s2}
  Fragments = {1, 2}
  TextSizes = {0}
  MaxOutput = 3
  RequestChars = 1
  MaxRounds = 1
  MaxRunning = 1
  MaxSessions = 2
  MaxEvents = 9
  Reserve = 4
  StreamBudget = 3
  StreamChars = 1
CHECK_DEADLOCK FALSE
PROPERTIES
  CancelSettles
  TurnEnds
  ImplementsLifecycle
