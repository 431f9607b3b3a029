SPECIFICATION Spec
CONSTANTS
  MaxAttempts = 2
  Versions <- Two
  Candidates <- One
  Mails = {m1}
  Steers = {}
  Questions <- One
  Outcomes = {"no change", "revision"}
  None = None
  MaxFaults = 1
  MaxReplays = 0
INVARIANTS
  ReleasedAfterDelivery
  CompletedIsInForce
PROPERTIES
  CustomerIsHeardFirst
  KeepsPromise
CHECK_DEADLOCK FALSE
