SPECIFICATION FairSpec
CONSTANTS
  Ses = ses
  Conns = {c1}
  Faults = {"refuse", "badReply", "garbage", "part", "memory"}
  MaxOut = 1
  MaxIn = 1
  SessionKinds = {"stream", "keyGen", "lookup"}
  ConnKinds = {"connect", "accept"}
  Calls = {"cancelSession", "cancelConnection", "closeConnection", "closeSession", "send"}
  CloseInSessionCallbacks = FALSE
PROPERTIES
  HandshakeEnds
  CloseEnds
  SendsDrain
