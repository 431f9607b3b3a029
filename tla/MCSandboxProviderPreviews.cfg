SPECIFICATION FairSpec
CONSTANTS
  b1 = b1
  b2 = b2
  b3 = b3
  p1 = p1
  p2 = p2
  p3 = p3
  e1 = e1
  e2 = e2
  None = None
  Builds = {}
  Previews = {p1, p2, p3}
  Events = {e1, e2}
  EventOf <- TwoEvents
  limits <- TwoEach
  Attempts = 1
  Generations = 3
  MaxFaults = 1
INVARIANTS
  CleanupIsExclusive
  PreviewsAreTimed
PROPERTIES
  RequestsSettle
CHECK_DEADLOCK FALSE
