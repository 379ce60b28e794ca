CONSTANTS
  Conns = {w1, w2}
  None = None
  MaxDelays = 2

SPECIFICATION FairSpec

PROPERTIES
  RelayComesBack

CHECK_DEADLOCK FALSE
