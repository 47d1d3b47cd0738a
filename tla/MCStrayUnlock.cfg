\* A caller that unlocks while every acquisition belongs to a guard.
SPECIFICATION MisuseSpec
CONSTANTS
  p1 = p1
  p2 = p2
  p3 = p3
  Procs = {p1, p2, p3}
  NoAttempt = NoAttempt
  Observed = FALSE
  VersionModulus = 1
  MaxWaiting <- NoLimit
  CanCancel = FALSE
  HasGuards = TRUE
SYMMETRY Symmetry
PROPERTIES
  StrayUnlockPanics
