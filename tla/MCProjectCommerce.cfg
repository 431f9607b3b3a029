SPECIFICATION FairSpec
CONSTANTS
  MaxAttempts = 2
  Versions <- Two
  Attempts <- Two
  Mails = {m1}
  Questions <- One
  Outcomes = {"question", "quote", "no change"}
  Delayed = {1}
  Failures = {"lost", "transient", "permanent"}
  None = None
  MaxFaults = 1
INVARIANTS
  OneLinkPerPlan
PROPERTIES
  BuildsAreInForce
  PaymentsAreRecorded
CHECK_DEADLOCK FALSE
