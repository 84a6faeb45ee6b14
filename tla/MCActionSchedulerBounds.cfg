\* One context with peers, two actions: the index of the next action.
SPECIFICATION Spec
CONSTANTS
  c1 = c1
  c2 = c2
  Contexts = {c1}
  Peered = {c1}
  N = 2
  Deps <- Chain
  Indices = {0}
  MaxSessions = 1
  CanFail = FALSE
INVARIANTS
  IndexInBounds
CHECK_DEADLOCK FALSE
