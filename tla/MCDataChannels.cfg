CONSTANTS
  Peers = {p1}
  Channels = {c1}
  NoPeer = NoPeer
  MaxMessages = 2

SPECIFICATION FairSpec

INVARIANTS
  TypeOK
  StreamIsFaithful
PROPERTIES
  ChannelsAreHandles
  DartCatchesUp

CHECK_DEADLOCK FALSE
