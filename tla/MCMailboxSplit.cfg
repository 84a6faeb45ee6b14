\* A post whose body comes with a second read.
SPECIFICATION FairSpec
CONSTANTS
  p1 = p1
  p2 = p2
  q = q
  NoSession = none
  Posts = {p1}
  Puts = {q}
  Of <- MCOf
  Parts <- InTwoParts
  MaxQueue = 2
CHECK_DEADLOCK FALSE
PROPERTY
  OnlyLateIsDropped
