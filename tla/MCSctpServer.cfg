\* Two controllers that connect to each other, one of them twice, and to an
\* address that cannot be reached; one handshake or association is broken.
SPECIFICATION FairSpec
CONSTANTS
  a = a
  b = b
  x = x
  ax = ax
  a1 = a1
  a2 = a2
  bx = bx
  b1 = b1
  Nodes = {a, b}
  Remotes = {x}
  Unreachable = {x}
  Connects = {ax, a1, a2, bx, b1}
  From <- MCFrom
  To <- MCTo
  Earlier <- MCEarlier
  MaxStreams = 3
  MaxFaults = 1
  NoCall = NoCall
CHECK_DEADLOCK FALSE
INVARIANTS
  IssuedHasOutcome
  DeadSessionLeaves
PROPERTIES
  OnlyLossIsSilent
  IssuedIsAnswered
  WriteEnds
