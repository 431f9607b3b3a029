SPECIFICATION Spec
CONSTANTS
  b1 = b1
  b2 = b2
  b3 = b3
  p1 = p1
  p2 = p2
  p3 = p3
  e1 = e1
  e2 = e2
  None = None
  Builds = {b1, b2, b3}
  Previews = {}
  Events = {}
  EventOf <- OneEvent
  limits <- OneEach
  Attempts = 2
  Generations = 1
  MaxFaults = 2
INVARIANTS
  PermitsAreConserved
  LineIsExact
  PermitsAreInUse
PROPERTIES
  NoOrphanedBuilds
CHECK_DEADLOCK FALSE
