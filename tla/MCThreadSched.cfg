\* Three contexts: three handles in the deque at once.  No symmetry, because a
\* liveness property is checked.  The initializers all finish in the end, and
\* the main thread may have nothing left to do.
SPECIFICATION FairSpec
CONSTANTS
  c1 = c1
  c2 = c2
  c3 = c3
  Contexts = {c1, c2, c3}
  Main = main
CHECK_DEADLOCK FALSE
INVARIANTS
  HandlesMatchInitializers
  OneInitializerWorks
  FlippedIsNotified
PROPERTY
  HandedOverRuns
