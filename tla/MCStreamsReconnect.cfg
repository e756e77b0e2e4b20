SPECIFICATION HomeSpec
CONSTANTS
  Cameras = {c1}
  Hosts = {h1, h2}
  Nowhere = Nowhere
  MaxMoves = 2
  MaxFaults = 2
  MaxRequests = 0
PROPERTIES
  StreamsReconnect
