SPECIFICATION SessionSpec
CONSTANTS
  Ids = {me, other}
  Names = {n1, n2}
  Codes = {p1}
  Conns = {s1, x}
  Sessions = {s1}
  Objs = {o1, o2}
  Joins = {j1}
  Me = me
  MyName = n1
  MaxMembers = 2
  MaxQueue = 1
  Reregister = FALSE
  Admin = TRUE
  NoObj = NoObj
  NoConn = NoConn
  NoCode = NoCode
  NoInfo = NoInfo
  NoSession = NoSession
  NoJoin = NoJoin
SYMMETRY Symmetry
INVARIANT RejectedCanRetry
CHECK_DEADLOCK FALSE
