SPECIFICATION CycleSpec
CONSTANTS
  Streams = {s1, s2}
  Cameras = {c1}
  CameraOf <- Siblings
  Logins = {l1}
  Viewed = {s1}
  Capacity = 1
  Batch = 1
INVARIANTS
  PoolBounded
  SuspectsAreAsked
PROPERTIES
  EveryStreamSampled
