SPECIFICATION Spec
CONSTANTS
  Ids = {s1, s2}
  Names = {n1, n2}
  Containers = {c1, c2, c3}
  Requests = {r1, r2}
  Kinds = {"secrets", "list", "launch", "recreate", "remove", "relabel", "vanish"}
  NoId = NoId
  NoName = NoName
  NoContainer = NoContainer
  None = None
  Absent = Absent
  Empty = Empty
  Torn = Torn
  MaxArrivals = 4
  MaxFaults = 1
  MaxCrashes = 1
INVARIANTS TypeOK UsageKept
PROPERTIES KeepsLineage
SYMMETRY Symmetry
CHECK_DEADLOCK FALSE
