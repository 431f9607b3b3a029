SPECIFICATION FairSpec
CONSTANTS
  Runs = {1, 2}
  SlotIds = {1}
  Revisions = {v1}
  None = None
  ActiveLimit = 1
  MaxRepair = 0
  FailingKinds = {}
  MaxToken = 3
  MaxStalls = 1
  MaxRestarts = 1
  MaxFaults = 1
PROPERTIES
  RunsReachTerminal
  AbandonedExecutionsDoNotWrite
CHECK_DEADLOCK FALSE
