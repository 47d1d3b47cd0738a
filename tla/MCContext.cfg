\* A lock with guards and per-call contexts: ContextRWMutex, FairRWMutex and the
\* configured locks without an observer.
SPECIFICATION Spec
CONSTANTS
  p1 = p1
  p2 = p2
  p3 = p3
  p4 = p4
  p5 = p5
  Procs = {p1, p2, p3, p4, p5}
  NoAttempt = NoAttempt
  Observed = FALSE
  VersionModulus = 1
  MaxWaiting <- NoLimit
  CanCancel = FALSE
  HasGuards = TRUE
SYMMETRY Symmetry
INVARIANTS
  TypeOK
  MutualExclusion
  LedgerMatchesOwners
  QueueTracksBlocked
  NoIdleQueue
  NoUnlockPanic
PROPERTIES
  NoBypass
  GrantStands
