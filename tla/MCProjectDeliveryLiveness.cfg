SPECIFICATION FairSpec
CONSTANTS
  MaxAttempts = 2
  Versions <- One
  Candidates <- Two
  Mails = {}
  Steers = {s1}
  Questions <- One
  Outcomes = {"no change"}
  None = None
  MaxFaults = 1
  MaxReplays = 0
INVARIANTS
  AcknowledgedEventsAreSaved
PROPERTIES
  ProjectSettles
CHECK_DEADLOCK FALSE
