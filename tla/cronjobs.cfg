SPECIFICATION FairSpec
CONSTANTS
  Jobs = {j1}
  Schedules <- EveryMinute
  MaxRuns = 2
  MaxMinute = 1
  MaxPatches = 1
  MaxFaults = 0
  MaxCrashes = 1
INVARIANTS TypeOK OneRunPerJob OverlapOnlyWhenAbandoned TreatedOncePerMinute
PROPERTIES SlotFreed
CHECK_DEADLOCK FALSE
