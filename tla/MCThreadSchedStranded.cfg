\* The window between the two critical sections of thread_sched_yield.
SPECIFICATION Spec
CONSTANTS
  c1 = c1
  c2 = c2
  c3 = c3
  Contexts = {c1, c2}
  Main = main
CHECK_DEADLOCK FALSE
INVARIANT
  YieldsToSomebody
