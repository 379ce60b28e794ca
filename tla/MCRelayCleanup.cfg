SPECIFICATION FairSpec
CONSTANTS
  Users = {u1}
  Ids = {i1}
  Conns = {c1, c2}
  NoConn = NoConn
  All = All
  Cap = 2
  MaxSends = 1
  MaxCrashes = 1
PROPERTIES
  ClosedIsForgotten
  OfflineKeyGoes
CHECK_DEADLOCK FALSE
