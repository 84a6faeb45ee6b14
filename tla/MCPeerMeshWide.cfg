\* A wider instance for the safety properties: a primary and two secondary
\* contexts, two actions.  One secondary context's executors hang; those of the
\* two others get results or end without.  One connect fails or one association
\* is lost.
SPECIFICATION Spec
CONSTANTS
  p = p
  a = a
  b = b
  c = c
  d = d
  Nodes = {p, b, c}
  Primary = p
  Actions = {a, d}
  Workers = {p, b}
  Failing = {p, b}
  MaxFaults = 1
INVARIANTS
  RefusalIsUnderstood
  EndIsComplete
  OnlyIntroducedAreApart
PROPERTIES
  IsShared
SYMMETRY Alike
CHECK_DEADLOCK FALSE
