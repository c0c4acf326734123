\* A caller of every kind of call and two of embeddings, which share the two embedding
\* slots and nothing else, each call cancelled up to twice, a catalog of up to three
\* pages, on an event loop whose wait needs the pipes closed.
SPECIFICATION Spec
CONSTANTS
  Call = {c1, c2, c3}
  c1 = c1
  c2 = c2
  c3 = c3
  Kinds <- EmbedBeside
  MaxPages = 3
  Cursors = {next1, next2}
  MaxActive = 2
  Batches <- BatchAnswers
  Texts = 2
  WaitsForPipes = TRUE
  MaxCancels = 2
  None = None
INVARIANTS
  NothingLeftBehind
  CancelWins
  EachTextItsVector
PROPERTIES
  EveryCallEnds
