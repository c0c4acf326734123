\* Three spawns and two overlapping stop calls: enough for one restart more than the
\* budget, and for a stop that meets a start and another stop.
SPECIFICATION LiveSpec
CONSTANTS
  Process = {p1, p2, p3}
  Caller = {c1, c2}
  Starter = Starter
  None = None
  MaxRestarts = 1
INVARIANTS
  TypeOK
  NoOrphan
  StoppedIsDown
  CrashBudget
PROPERTIES
  TerminationEscalates
  StopEnds
