\* One context with peers whose subprocesses succeed: progress and answers.
SPECIFICATION FairSpec
CONSTANTS
  c1 = c1
  c2 = c2
  Contexts = {c1}
  Peered = {c1}
  N = 2
  Deps <- Chain
  Indices = {0, 1}
  MaxSessions = 2
  CanFail = FALSE
INVARIANTS
  AnsweredComplete
  ManifestIsOrdered
PROPERTIES
  MainResponsive
  Answered
CHECK_DEADLOCK FALSE
