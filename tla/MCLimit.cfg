\* MaxRWMutex with a limit of two waiters.
SPECIFICATION Spec
CONSTANTS
  p1 = p1
  p2 = p2
  p3 = p3
  p4 = p4
  p5 = p5
  Procs = {p1, p2, p3, p4, p5}
  NoAttempt = NoAttempt
  Observed = FALSE
  VersionModulus = 9
  MaxWaiting = 2
  CanCancel = FALSE
  HasGuards = FALSE
SYMMETRY Symmetry
INVARIANTS
  CapacityRespected
PROPERTIES
  OnlyTheLivingObstruct
  ChangeIsVersioned
