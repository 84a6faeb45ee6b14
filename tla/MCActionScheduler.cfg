\* One context with peers, three actions, subprocesses that may fail.
SPECIFICATION Spec
CONSTANTS
  c1 = c1
  c2 = c2
  Contexts = {c1}
  Peered = {c1}
  N = 3
  Deps <- Join
  Indices = {0, 1}
  MaxSessions = 1
  CanFail = TRUE
INVARIANTS
  IndexConserved
  StartedOnlyWhenReady
PROPERTIES
  ResultsKept
CHECK_DEADLOCK FALSE
