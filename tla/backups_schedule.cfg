SPECIFICATION Spec
CONSTANTS
  Definitions = {d1}
  Destinations = {b1}
  Schedules <- EveryMinute
  Retentions = {1}
  Unreadable = {}
  Targets = {"volume"}
  UserActions = {"run"}
  MaxRuns = 3
  MaxMinute = 1
  MaxPatches = 1
  MaxFaults = 0
  MaxCrashes = 1
INVARIANTS TypeOK OncePerMinute ScheduledOverlapBehindManual
CHECK_DEADLOCK FALSE
