SPECIFICATION Spec
CONSTANTS
  Runs = {1}
  SlotIds = {1, 2}
  Revisions = {v1, v2}
  None = None
  ActiveLimit = 2
  MaxRepair = 1
  FailingKinds = {"commands", "preview", "review", "evaluation"}
  MaxToken = 2
  MaxStalls = 1
  MaxRestarts = 2
  MaxFaults = 3
SYMMETRY Symmetry
INVARIANTS
  OneLeasePerRun
  NoLeakedSandboxes
  CleanedRunsKeepNoRecordedSandbox
  PassedSandboxSurvives
PROPERTIES
  ImplementsRunStore
CHECK_DEADLOCK FALSE
