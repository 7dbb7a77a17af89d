SPECIFICATION Spec
CONSTANTS
  Ses = ses
  Conns = {c1, c2}
  Faults = {"refuse"}
  MaxOut = 1
  MaxIn = 1
  SessionKinds = {"stream"}
  ConnKinds = {"connect"}
  Calls = {"cancelSession", "cancelConnection", "closeConnection", "closeSession"}
  CloseInSessionCallbacks = FALSE
SYMMETRY Symmetry
INVARIANTS
  CascadeComplete
  ListIntegrity
  FramesAreLive
  SocketsShut
