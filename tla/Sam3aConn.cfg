SPECIFICATION Spec
CONSTANTS
  Ses = ses
  Conns = {c1}
  Faults = {"refuse", "badReply", "bare", "garbage", "other", "part", "hangup", "reset", "slow", "memory"}
  MaxOut = 1
  MaxIn = 1
  SessionKinds = {"stream", "raw", "keyGen", "lookup"}
  ConnKinds = {"connect", "accept"}
  Calls = {"cancelSession", "cancelConnection", "closeConnection", "closeSession", "send"}
  CloseInSessionCallbacks = FALSE
INVARIANTS
  TypeOK
  Lockstep
  NeverDeaf
  ErrorIsFatal
  OneShotIsOver
  OnlyOwnDescriptors
  ProcessorsHaveBuffers
  MaxFdCovers
PROPERTIES
  CallbacksFollowLife
