SPECIFICATION Spec
CONSTANTS
  Images = {i1}
  Integrations = {docker, kube}
  Docker = docker
  Paths = {p1}
  Cycles = {c1, c2}
  Empty = Empty
  Torn = Torn
  MaxChanges = 2
  MaxIncidents = 1
INVARIANTS TypeOK LogTellsState
PROPERTIES NothingEntersBelow CaughtUp
CHECK_DEADLOCK FALSE
