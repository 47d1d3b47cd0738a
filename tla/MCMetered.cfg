\* Three goroutines on a metered lock that may still be renamed.
SPECIFICATION Spec
CONSTANTS
  p1 = p1
  p2 = p2
  p3 = p3
  Procs = {p1, p2, p3}
  NoAttempt = NoAttempt
  Observed = TRUE
  VersionModulus = 1
  n1 = n1
  n2 = n2
  Names = {n1, n2}
  l1 = l1
  l2 = l2
  l3 = l3
  l4 = l4
  l5 = l5
  Locks = {l1, l2, l3, l4, l5}
  NoLock = NoLock
SYMMETRY Symmetry
INVARIANTS
  TypeOK
  ExclusionAcrossNames
  NoUnlockPanic
  SnapshotOfTheLock
PROPERTIES
  MeteredFIFOLock
