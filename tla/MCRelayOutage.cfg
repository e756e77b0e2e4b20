SPECIFICATION FairSpec
CONSTANTS
  Streams = {s1}
  Cameras = {c1}
  CameraOf <- Siblings
  Logins = {l1, l2}
  Viewed = {}
  Capacity = 1
  Batch = 1
PROPERTIES
  OutageNoticed
