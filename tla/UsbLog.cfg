SPECIFICATION Spec
CONSTANTS
  CorkBuffSize = 2
  FullBuffSize = 4
  Mark = 2
  MaxMessage = 3
  MaxBytes = 7
INVARIANT LogInv
PROPERTY RefinesLogPipe
