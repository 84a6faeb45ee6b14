\* Three contexts and one action: each executor may get its result, hang or, on
\* the primary, end without one.
SPECIFICATION FairSpec
CONSTANTS
  p = p
  a = a
  b = b
  c = c
  d = d
  Nodes = {p, b, c}
  Primary = p
  Actions = {a}
  Workers = {p, b, c}
  Failing = {p}
  MaxFaults = 1
PROPERTIES
  EndSpreads
CHECK_DEADLOCK FALSE
