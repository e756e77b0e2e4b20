SPECIFICATION EstablishedSpec
CONSTANTS
  Cameras = {c1, c2}
  MaxVersion = 2
  SecondIsCold = TRUE
  MaxFaults = 1
  MaxRequests = 3
INVARIANTS
  TypeOK
  CapturedOnce
  RecordingReturns
  RunningIsBound
PROPERTIES
  ForeignKept
  SelectedSettles
CHECK_DEADLOCK FALSE
