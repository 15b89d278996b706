SPECIFICATION Spec
CONSTANTS
  Subjects = {s1, s2}
  Held = {s1}
  Requests = {r1}
  None = None
  Empty = Empty
  Torn = Torn
  Absent = Absent
  NoSubject = NoSubject
  MaxArrivals = 1
  MaxAgings = 1
  MaxIncidents = 1
INVARIANT CaddyTold
PROPERTIES InPlaceKept Covered
CHECK_DEADLOCK FALSE
