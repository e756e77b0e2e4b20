SPECIFICATION MishapSpec
CONSTANTS
  Cameras = {c1, c2}
  Loops = {l1, l2}
  TargetLimit = 1
  MaxRelayRestarts = 1
  MaxFaults = 2
  MaxRequests = 2
PROPERTIES
  NeedyIsScanned
  ServiceRecovers
INVARIANTS
  TypeOK
  RequestStands
  ResultsPublished
