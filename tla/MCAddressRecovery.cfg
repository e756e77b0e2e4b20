SPECIFICATION HomeSpec
CONSTANTS
  Cameras = {c1, c2}
  Hosts = {h1, h2, h3}
  Nowhere = Nowhere
  MaxMoves = 2
  MaxFaults = 1
  MaxRequests = 1
INVARIANTS
  MovesAreExplained
  RelayServesSaved
  AppliedIsServed
PROPERTIES
  CameraIsFollowed
  RelayFollowsRequests
