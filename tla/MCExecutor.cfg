\* Two actions, the subprocess of one of which may be killed.
SPECIFICATION FairSpec
CONSTANTS
  a = a
  b = b
  Actions = {a, b}
  Dying = {b}
INVARIANTS
  HoldsNoOthersEnd
  NothingLeft
  ResultIsWhole
  OnlyDeathTerminates
PROPERTIES
  NobodyIsHeldUp
CHECK_DEADLOCK FALSE
