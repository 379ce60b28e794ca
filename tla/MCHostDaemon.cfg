SPECIFICATION FairSpec
CONSTANTS
  SignalConns = {s1, s2}
  ReportConns = {r1, r2}
  TestConn = t
  None = None
INVARIANTS
  TypeOK
PROPERTIES
  ServicesAreLinks
  LinksComeBack
