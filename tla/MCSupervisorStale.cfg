\* A crash that overtakes the answer of the process leaves its client behind.
SPECIFICATION Spec
CONSTANTS
  Process = {p1, p2, p3}
  Caller = {c1, c2}
  Starter = Starter
  None = None
  MaxRestarts = 1
INVARIANT ServesOwnedChild
