SPECIFICATION PreviewedSpec
CONSTANTS
  Keys = {k1, k2}
  MaxFaults = 2
  MaxRequests = 2
INVARIANTS
  TypeOK
  ReaderComesBack
  ResultsAreTrue
PROPERTIES
  Implements
  HandoffsEnd
CHECK_DEADLOCK FALSE
