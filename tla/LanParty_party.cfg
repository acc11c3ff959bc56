SPECIFICATION BothSpec
CONSTANTS
  RemoteIds = {me, ann}
  Me = me
  Links = {k1, k2, k3}
  MaxMembers = 2
  NoId = NoId
  NoLink = NoLink
  Callers = {g1, g2}
  MaxClients = 2
  MaxRuns = 2
SYMMETRY Symmetry
INVARIANT NoGhostLanMember
INVARIANT PanicNeedsSharedId
INVARIANT JoinedIsMember
 
CHECK_DEADLOCK FALSE
