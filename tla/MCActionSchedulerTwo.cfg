\* Two contexts of one action, one with peers: each is answered.
SPECIFICATION FairSpec
CONSTANTS
  c1 = c1
  c2 = c2
  Contexts = {c1, c2}
  Peered = {c1}
  N = 1
  Deps <- Single
  Indices = {1}
  MaxSessions = 1
  CanFail = FALSE
PROPERTIES
  Answered
CHECK_DEADLOCK FALSE
