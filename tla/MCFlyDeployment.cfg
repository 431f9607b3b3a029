SPECIFICATION FairSpec
CONSTANTS
  Targets = 2
  Slots = {s1, s2}
  Polls = 2
  Checks = 2
  None = None
  MaxAttempts = 2
  MaxReleases = 5
  MaxFaults = 2
  MaxOrphans = 1
INVARIANTS
  OneReleasePerTarget
  ProductionMovesForward
PROPERTIES
  ReceiptIsTruthful
  TargetIsDeployed
CHECK_DEADLOCK FALSE
