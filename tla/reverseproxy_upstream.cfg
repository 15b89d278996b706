SPECIFICATION FairSpec
CONSTANTS
  Subdomains = {s1}
  Addresses = {a1, a2}
  Handlers = {h1}
  Reconciler = reconciler
  Gone = gone
  NoRoute = noroute
  MaxOld = 1
  MaxRequests = 1
  MaxMoves = 1
  MaxFaults = 0
PROPERTIES UpstreamFollows
CHECK_DEADLOCK FALSE
