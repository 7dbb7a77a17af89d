SPECIFICATION FairSpec
CONSTANTS
  Sessions = {s1}
  Conns = {c1}
  MaxFd = 2
  MaxIn = 1
  Faults = {"hangup"}
  Ops = {"createStream", "connect"}
PROPERTIES
  HangupEndsRead
