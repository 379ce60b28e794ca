SPECIFICATION Spec
CONSTANTS
  Users = {u1}
  Ids = {i1, i2}
  Conns = {c1, c2}
  NoConn = NoConn
  All = All
  Cap = 6
  MaxSends = 0
  MaxCrashes = 0
SYMMETRY MCSymmetry
INVARIANT
  PresenceIsCurrent
CHECK_DEADLOCK FALSE
