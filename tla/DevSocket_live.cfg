SPECIFICATION FairSpec
CONSTANTS
  Conns = {k1, k2, k3}
  Callers = {initialize, manual}
  Senders = {s1}
  MaxAttempts = 2
  NoConn = NoConn
  NoOne = NoOne
INVARIANTS
  OneReader
  SocketInv
  AttemptsBounded
PROPERTIES
  DisconnectIsFinal
  LossIsRepaired
CHECK_DEADLOCK FALSE
