SPECIFICATION FairSpec
CONSTANTS
  Images = {i1}
  Scanners = {g, o}
  Limit = 1
  MaxScans = 2
  MaxManual = 1
  MaxChanges = 1
  MaxFailures = 1
INVARIANTS TypeOK OverlapUnseen PoolBounded
PROPERTIES DueGetsScanned CriticalNotified
CHECK_DEADLOCK FALSE
