\* One context with peers, one action: an executor that is stopped.
SPECIFICATION FairSpec
CONSTANTS
  c1 = c1
  c2 = c2
  Contexts = {c1}
  Peered = {c1}
  N = 1
  Deps <- Single
  Indices = {1}
  MaxSessions = 1
  CanFail = FALSE
PROPERTIES
  StoppedIsUnblocked
CHECK_DEADLOCK FALSE
