SPECIFICATION Spec
CONSTANTS
  Ids = {i1, i2, i3}
  Names = {n1, n2}
  Codes = {p1, p2}
  Conns = {c1, c2}
  Objs = {o1, o2, o3}
  MaxMembers = 2
  Reregister = TRUE
  Admin = TRUE
  NoObj = NoObj
  NoConn = NoConn
  NoCode = NoCode
  NoInfo = NoInfo
SYMMETRY Symmetry
INVARIANTS
  MembersAgree
  RightSized
  UniqueRealNames
  NoGhostRegistration
  NoGhostMember
