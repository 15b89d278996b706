SPECIFICATION FairSpec
CONSTANTS
  Definitions = {d1}
  Destinations = {b1}
  Schedules <- FirstMinute
  Retentions = {1}
  Unreadable = {}
  Targets = {"volume", "database"}
  UserActions = {"run"}
  MaxRuns = 2
  MaxMinute = 0
  MaxPatches = 1
  MaxFaults = 1
  MaxCrashes = 1

PROPERTIES RunEnds
CHECK_DEADLOCK FALSE
