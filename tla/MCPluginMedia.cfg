CONSTANTS
  Streams = {s1, s2}
  Tracks = {t1}
  Peers = {p1}
  Renderers = {r1}
  Sources = {screen}
  Sizes = {small, large}
  NoSize = NoSize
  Rotations = {0}
  Upright = 0
  NoTrack = NoTrack
  Local = Local
  Nothing = Nothing
  MaxOnTheWay = 2

SPECIFICATION Spec
SYMMETRY Symmetry

INVARIANTS
  TypeOK
  DisposedTrackStaysGone
  CamerasStayInReach
  FramesAreCurrent
  SizeIsKnown
PROPERTIES
  StreamsAreHandles

CHECK_DEADLOCK FALSE
