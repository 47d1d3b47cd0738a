\* Liveness of blocked acquisitions: when holders unlock, and when they need not
\* but the context expires or the lock is cancelled.  No symmetry: it is unsound
\* for liveness.
SPECIFICATION ScheduledSpec
CONSTANTS
  p1 = p1
  p2 = p2
  p3 = p3
  Procs = {p1, p2, p3}
  NoAttempt = NoAttempt
  Observed = FALSE
  VersionModulus = 1
  MaxWaiting <- NoLimit
  CanCancel = TRUE
  HasGuards = FALSE
PROPERTIES
  BlockedReturns
  AbandonedReturns
