SPECIFICATION FairSpec
CONSTANTS
  RemoteIds = {me, ann}
  Me = me
  Links = {k1}
  MaxMembers = 2
  NoId = NoId
  NoLink = NoLink
PROPERTY ShutdownCompletes
CHECK_DEADLOCK FALSE
