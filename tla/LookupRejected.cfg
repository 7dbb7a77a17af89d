SPECIFICATION Spec
CONSTANTS
  Sessions = {s1}
  Conns = {c1}
  MaxFd = 2
  MaxIn = 1
  Faults = {"badArg"}
  Ops = {"lookup"}
INVARIANTS
  LookupSetsError
