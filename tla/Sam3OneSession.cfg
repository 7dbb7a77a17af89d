SPECIFICATION FairSpec
CONSTANTS
  Sessions = {s1}
  Conns = {c1, c2}
  MaxFd = 3
  MaxIn = 1
  Faults = {"refuse", "badReply", "bare", "garbage", "other", "part", "early", "hangup", "reset", "badArg", "memory"}
  Ops = {"createDgram", "createStream", "createSilent", "connect", "accept", "forward", "keyGen", "lookup", "receive"}
INVARIANTS
  TypeOK
  InStep
  ErrorTold
  OnlyOwnFds
  OneOwner
  ConnlistIntegrity
PROPERTIES
  CallReturns
