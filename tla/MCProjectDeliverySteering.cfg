SPECIFICATION Spec
CONSTANTS
  MaxAttempts = 1
  Versions <- Two
  Candidates <- One
  Mails = {}
  Steers = {s1}
  Questions <- One
  Outcomes = {"question", "no change", "revision"}
  None = None
  MaxFaults = 1
  MaxReplays = 1
INVARIANTS
  SupersededRunsAreCancelled
PROPERTIES
  ParkedProjectsStayQuiet
CHECK_DEADLOCK FALSE
