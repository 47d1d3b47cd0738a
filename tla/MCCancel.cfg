\* CancelRWMutex.
SPECIFICATION Spec
CONSTANTS
  p1 = p1
  p2 = p2
  p3 = p3
  p4 = p4
  Procs = {p1, p2, p3, p4}
  NoAttempt = NoAttempt
  Observed = FALSE
  VersionModulus = 1
  MaxWaiting <- NoLimit
  CanCancel = TRUE
  HasGuards = FALSE
SYMMETRY Symmetry
PROPERTIES
  CancelIsFinal
  ImplementsFIFOLock
