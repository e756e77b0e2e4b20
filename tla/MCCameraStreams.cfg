SPECIFICATION StreamsSpec
CONSTANTS
  Cameras = {c1}
  Tokens = {t1, t2}
  NoToken = NoToken
  MaxIncidents = 2
SYMMETRY TokenSymmetry
INVARIANTS
  IncidentsTrackHealth
  BindingsServed
\* Removing the one camera, or reaching MaxIncidents, ends a behaviour.
CHECK_DEADLOCK FALSE
