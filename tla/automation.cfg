SPECIFICATION FairSpec
CONSTANTS
  Triggers = {t1}
  RouteTriggers = {t1}
  Conditions = {k1}
  Inverted = {}
  Actions = {a1}
  Cycles = {c1}
  Users = {u1}
  MaxChanges = 1
  MaxRequests = 2
  MaxFaults = 1
INVARIANTS TypeOK EdgesWired FiresOncePerFailure
PROPERTIES DeletedStaysDeleted FailureFires
CHECK_DEADLOCK FALSE
