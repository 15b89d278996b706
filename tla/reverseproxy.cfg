SPECIFICATION FairSpec
CONSTANTS
  Subdomains = {s1}
  Addresses = {a1}
  Handlers = {h1, h2}
  Reconciler = reconciler
  Gone = gone
  NoRoute = noroute
  MaxOld = 1
  MaxRequests = 2
  MaxMoves = 1
  MaxFaults = 1
INVARIANTS TypeOK SubdomainsUnique DnsFollows
PROPERTIES RouteFate Converges
CHECK_DEADLOCK FALSE
