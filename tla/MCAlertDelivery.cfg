SPECIFICATION FairSpec
CONSTANTS
  CameraAlerts = {a1}
  RelayAlerts = {}
  TestAlerts = {t1}
  NoItem = NoItem
  MaxAttempts = 2
  Limit = 1
  MaxMishaps = 1
INVARIANTS
  SettledForCause
  DuplicatesOnlyAfterLoss
PROPERTIES
  QueuedIsSettled
