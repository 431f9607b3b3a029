\* One run with two candidate revisions that may be given a slot twice:
\* everything that can happen between the first lease and the announcement.
SPECIFICATION Spec
CONSTANTS
  r1 = r1
  r2 = r2
  b1 = b1
  b2 = b2
  v1 = v1
  v2 = v2
  None = None
  Runs = {r1}
  SlotIds = {1}
  Sandboxes = {b1, b2}
  Revisions = {v1, v2}
  LatestKinds = {"build"}
  MaxToken = 2
SYMMETRY Symmetry
INVARIANTS
  ProvenRunsHaveProof
  AnnouncementsStayVisible
PROPERTIES
  StaleLeaseStaysStale
  CleanupListIsKept
  ImplementsRunLifecycle
CHECK_DEADLOCK FALSE
