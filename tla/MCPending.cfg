\* An observed lock without thresholds; three attempts overlap.
SPECIFICATION Spec
CONSTANTS
  p1 = p1
  p2 = p2
  p3 = p3
  Procs = {p1, p2, p3}
  NoAttempt = NoAttempt
  Observed = TRUE
  VersionModulus = 1
  WaitThreshold = FALSE
  HoldThreshold = FALSE
  Stamped = FALSE
  Requests <- AllRequests
SYMMETRY Symmetry
INVARIANTS
  TypeOK
  DeliveriesCounted
  NothingStranded
PROPERTIES
  ObservedFIFOLock
