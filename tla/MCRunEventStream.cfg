SPECIFICATION FairSpec
CONSTANTS
  Clients = {c1, c2}
  Numbers <- Five
  PageSize = 2
  MaxPages = 2
  MaxReads = 1
  MaxStreams = 1
  MaxBreaks = 1
INVARIANTS
  EachEventOnce
  SnapshotsAreWhole
PROPERTIES
  StreamsEnd
CHECK_DEADLOCK FALSE
