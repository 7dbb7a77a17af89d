SPECIFICATION Spec
CONSTANTS
  Servers = {"streams", "test_ss"}
  Clients = {"streamc", "test_sc"}
  DClients = {d1, d2}
  d1 = d1
  d2 = d2
  MaxDuplicates = 1
  MaxFaults = 1
CHECK_DEADLOCK FALSE
INVARIANTS
  TypeOK
  EchoWhole
  AnswersMatch
PROPERTIES
  StreamsEnd
  DatagramsEnd
