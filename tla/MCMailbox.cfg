\* A post and a put about it that comes in two parts, for a queue of one, so
\* that the IO thread waits soon.
SPECIFICATION FairSpec
CONSTANTS
  p1 = p1
  p2 = p2
  q = q
  NoSession = none
  Posts = {p1}
  Puts = {q}
  Of <- MCOf
  Parts <- PutInTwo
  MaxQueue = 1
CHECK_DEADLOCK FALSE
INVARIANTS
  DataHasMessage
  EndNotLost
  DestroyedLast
PROPERTIES
  DataIsRead
  IoGoesOn
