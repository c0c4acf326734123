\* The finding: a submission refused at the exact event reserve has changed the record.
SPECIFICATION Spec
CONSTANTS
  Session = {s1}
  Client = {c1, c2}
  Lifespan = Lifespan
  ToolId = {r1, r2}
  Probing = {s1}
  Streaming = {s1}
  Piped = {}
  Fragments = {1, 2}
  TextSizes = {0}
  MaxOutput = 10
  RequestChars = 1
  MaxRounds = 2
  MaxRunning = 1
  MaxSessions = 1
  MaxEvents = 14
  Reserve = 4
  StreamBudget = 3
  StreamChars = 1
SYMMETRY TurnSymmetry
CHECK_DEADLOCK FALSE
PROPERTIES
  RefusedInputLeavesRecord
