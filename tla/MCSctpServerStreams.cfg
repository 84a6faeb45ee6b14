\* The same controllers on a network that breaks nothing: whose is a request?
SPECIFICATION Spec
CONSTANTS
  a = a
  b = b
  x = x
  ax = ax
  a1 = a1
  a2 = a2
  bx = bx
  b1 = b1
  Nodes = {a, b}
  Remotes = {x}
  Unreachable = {}
  Connects = {ax, a1, b1}
  From <- MCFrom
  To <- MCTo
  Earlier <- MCEarlier
  MaxStreams = 3
  MaxFaults = 0
  NoCall = NoCall
CHECK_DEADLOCK FALSE
INVARIANT
  RequestsReachServers
