SPECIFICATION Spec
CONSTANTS
  Users = {u1, u2}
  Ids = {i1}
  Conns = {c1, c2}
  NoConn = NoConn
  All = All
  Cap = 3
  MaxSends = 2
  MaxCrashes = 0
SYMMETRY MCSymmetry
CONSTRAINT Few
INVARIANTS
  TypeOK
  RegisteredIsServed
  OnlineKeyIsBacked
  ProxyIsFaithful
  RegisteredIsTold
PROPERTIES
  ImplementsRegistry
CHECK_DEADLOCK FALSE
