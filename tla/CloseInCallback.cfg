SPECIFICATION Spec
CONSTANTS
  Ses = ses
  Conns = {c1}
  Faults = {"refuse"}
  MaxOut = 1
  MaxIn = 1
  SessionKinds = {"stream", "keyGen"}
  ConnKinds = {"connect"}
  Calls = {"cancelSession", "cancelConnection", "closeConnection", "closeSession", "send"}
  CloseInSessionCallbacks = TRUE
INVARIANTS
  OnlyOwnDescriptors
