SPECIFICATION Spec
CONSTANTS
  Shrunk = 2
  Initial = 1
  Quota = 3
  MaxBytes = 8
INVARIANTS
  SendInCbSent
