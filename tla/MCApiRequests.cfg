\* Two contexts that each ask for two more, of a manifest with five actions.
SPECIFICATION FairSpec
CONSTANTS
  c1 = c1
  c2 = c2
  c3 = c3
  Contexts = {c1, c2}
  Concurrency = 3
  ManifestSize = 5
INVARIANTS
  EachIndexOnce
PROPERTIES
  DrivenToEnd
CHECK_DEADLOCK FALSE
