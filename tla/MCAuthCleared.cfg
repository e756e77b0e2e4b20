SPECIFICATION RetrySpec
CONSTANTS
  Streams = {s1, s2}
  Cameras = {c1}
  CameraOf <- Siblings
  Capacity = 2
  Logins = {l1, l2}
  MaxRestarts = 1
PROPERTIES
  ClearedByFrame
