SPECIFICATION AlertsSpec
CONSTANTS
  Cameras = {c1}
  Tokens = {t1}
  NoToken = NoToken
  MaxIncidents = 2
INVARIANTS
  SilencedHasNothingQueued
  ResolutionFollowsOpening
PROPERTIES
  ClosedIncidentsAreFinal
