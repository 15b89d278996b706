SPECIFICATION Spec
CONSTANTS
  Modules = {o1, m1}
  Origins = {o1}
  Requests = {r1, r2}
  Nobody = Nobody
  Gone = Gone
  Partial = Partial
  Torn = Torn
  MaxArrivals = 2
  MaxIncidents = 1
INVARIANTS TypeOK
PROPERTIES RemovalHolds PausedStaysOut Settles
CHECK_DEADLOCK FALSE
