\* Two turns of up to four frames or one answer, on every adapter, read by a client that
\* loses its connection at most once.  The system stops once the session is gone.
SPECIFICATION Spec
CONSTANTS
  MaxEvents = 16
  Reserve = 8
  StreamBudget = 3
  StreamChars = 2
  MaxOutput = 8
  RequestChars = 2
  MaxFrames = 4
  MaxLosses = 1
  Routes <- SmallRoutes
  Wire <- TwoTurns
  Payloads <- SmallPayloads
  Arguments <- ObjectArguments
  Json <- JsonTexts
  Spaces <- Blanks
  MaxEnvelopes = 2
  Model = model
  Upstream = upstream
  model = model
  other = other
  upstream = upstream
  id1 = id1
  id2 = id2
  a = a
  b = b
  blank = blank
  None = None
INVARIANTS
  AnswerFaithful
PROPERTIES
  StreamFaithful
  CatchesUp
CHECK_DEADLOCK FALSE
