SPECIFICATION InvitesSpec
CONSTANTS
  Ids = {i1, i2}
  Names = {n1, n2}
  Codes = {p1, p2}
  Conns = {c1, c2}
  Objs = {o1, o2}
  MaxMembers = 2
  Reregister = FALSE
  Admin = FALSE
  Invs = {v1}
  NoObj = NoObj
  NoConn = NoConn
  NoCode = NoCode
  NoInfo = NoInfo
  NoInv = NoInv
  Free = Free
SYMMETRY Symmetry
INVARIANT AcceptJoins
