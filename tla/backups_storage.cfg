SPECIFICATION Spec
CONSTANTS
  Definitions = {d1}
  Destinations = {b1, b2}
  Schedules <- Never
  Retentions = {1}
  Unreadable = {}
  Targets = {"volume"}
  UserActions = {"run", "restore"}
  MaxRuns = 3
  MaxMinute = 0
  MaxPatches = 1
  MaxFaults = 1
  MaxCrashes = 1
INVARIANTS NewestArchivesKept RestoreMissesOnlyRotated
CHECK_DEADLOCK FALSE
