\* One session of up to seven messages, either request shape, measured or not, over
\* contexts of every kind: unknown, small, large, and growing or shrinking between calls.
SPECIFICATION Spec
CONSTANTS
  gemma = gemma
  other = other
  Model = gemma
  AsciiPerToken = 3
  MessageOverhead = 2
  ToolOverhead = 1
  CallOverhead = 1
  TemplateOverhead = 2
  TemplateTokens = 1
  MarginMin = 1
  SmallContext = 40
  UsefulOutput = 3
  Framing = 2
  Configured = 6
  InputLimit = 36
  Request <- Req
  Unknown = Unknown
  Prompts <- Asks
  Answers <- Says
  ToolCalls <- Needs
  Results <- Gives
  Instructions <- Orders
  Catalogs <- Loaded
  MaxMessages = 7
INVARIANTS
  FitsUpToShortfall
  PromptCoherent
PROPERTIES
  BestPlan
  ConfirmedPromptKept
CHECK_DEADLOCK FALSE
