\* A primary and two secondary contexts, two actions.  Only one secondary
\* context's executors end, with a result or without; one connect fails or one
\* association is lost.
SPECIFICATION FairSpec
CONSTANTS
  p = p
  a = a
  b = b
  c = c
  d = d
  Nodes = {p, b, c}
  Primary = p
  Actions = {a, d}
  Workers = {b}
  Failing = {b}
  MaxFaults = 1
INVARIANTS
  RefusalIsUnderstood
  EndIsComplete
  OnlyIntroducedAreApart
PROPERTIES
  IsShared
  EndSpreads
CHECK_DEADLOCK FALSE
