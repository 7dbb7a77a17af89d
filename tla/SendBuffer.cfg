SPECIFICATION Spec
CONSTANTS
  Shrunk = 2
  Initial = 1
  Quota = 2
  MaxBytes = 8
CHECK_DEADLOCK FALSE
INVARIANTS
  TypeOK
  InOrder
