SPECIFICATION EstablishedSpec
CONSTANTS
  Cameras = {c1}
  MaxVersion = 1
  SecondIsCold = TRUE
  MaxFaults = 0
  MaxRequests = 3
PROPERTIES
  EnablingIsApplied
CHECK_DEADLOCK FALSE
