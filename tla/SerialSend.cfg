SPECIFICATION FairSpec
CONSTANTS
  Size = 4
  Room = 2
  MaxMain = 3
  MaxIrq = 2
  MaxWritten = 5
INVARIANTS SendInv InOrder
PROPERTY Drains
CHECK_DEADLOCK FALSE
