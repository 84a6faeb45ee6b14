\* Three contexts that each ask for one more, of a manifest with one action.
SPECIFICATION Spec
CONSTANTS
  c1 = c1
  c2 = c2
  c3 = c3
  Contexts = {c1, c2, c3}
  Concurrency = 2
  ManifestSize = 1
INVARIANTS
  NoHandleIsLost
CHECK_DEADLOCK FALSE
