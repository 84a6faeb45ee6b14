\* A request that ends while several messages about it wait.
SPECIFICATION FairSpec
CONSTANTS
  Radix = 2
  Width = 3
  Decimal = 3
  Payloads <- Data
  MaxChunks = 1
  MaxQueue = 2
INVARIANT HandledOnce
CHECK_DEADLOCK FALSE
