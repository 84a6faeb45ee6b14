\* One message of each kind, up to two chunks before the last one.
SPECIFICATION FairSpec
CONSTANTS
  Radix = 2
  Width = 3
  Decimal = 3
  Payloads <- Data
  MaxChunks = 2
  MaxQueue = 2
INVARIANTS
  TypeOK
  SplitAnywhere
  AlwaysUnderstood
  NumbersCount
  ObjectsAreFound
PROPERTIES
  IsChannel
  EndIsSeen
CHECK_DEADLOCK FALSE
