\* A watchdog lock with both thresholds.
SPECIFICATION Spec
CONSTANTS
  p1 = p1
  p2 = p2
  Procs = {p1, p2}
  NoAttempt = NoAttempt
  Observed = TRUE
  VersionModulus = 1
  WaitThreshold = TRUE
  HoldThreshold = TRUE
  Stamped = FALSE
  Requests <- AllRequests
SYMMETRY Symmetry
INVARIANTS
  EventOrder
  ThresholdsReported
