SPECIFICATION FairSpec
CONSTANTS
  Cameras = {c1}
  Loops = {l1}
  TargetLimit = 1
  MaxRelayRestarts = 1
  MaxFaults = 0
  MaxRequests = 1
PROPERTIES
  StatusSettles
