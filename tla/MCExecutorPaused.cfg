\* One action: its executor is blocked, its subprocess goes on.
SPECIFICATION Spec
CONSTANTS
  a = a
  b = b
  Actions = {a}
  Dying = {}
INVARIANT
  BlockedIsPaused
CHECK_DEADLOCK FALSE
