SPECIFICATION Spec
CONSTANTS
  Ids = {i1, i2}
  Names = {n1, n2}
  Codes = {p1, p2}
  Conns = {c1, c2}
  Objs = {o1, o2}
  MaxMembers = 2
  Reregister = FALSE
  Admin = FALSE
  NoObj = NoObj
  NoConn = NoConn
  NoCode = NoCode
  NoInfo = NoInfo
SYMMETRY Symmetry
INVARIANT LiveRegistered
