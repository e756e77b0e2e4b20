SPECIFICATION HistorySpec
CONSTANTS
  Cameras = {c1}
  Tokens = {t1, t2}
  NoToken = NoToken
  MaxIncidents = 1
SYMMETRY TokenSymmetry
INVARIANTS
  HistoryTracksHealth
\* Removing the one camera, or reaching MaxIncidents, ends a behaviour.
CHECK_DEADLOCK FALSE
