\* Three keys, room for two.
SPECIFICATION Spec
CONSTANTS
  p1 = p1
  p2 = p2
  p3 = p3
  Procs = {p1, p2, p3}
  NoAttempt = NoAttempt
  Observed = FALSE
  VersionModulus = 1
  k1 = k1
  k2 = k2
  k3 = k3
  Keys = {k1, k2, k3}
  e1 = e1
  e2 = e2
  e3 = e3
  Entries = {e1, e2, e3}
  NoEntry = NoEntry
  NoKey = NoKey
  MaxKeys = 2
SYMMETRY Symmetry
INVARIANTS
  TypeOK
  KeyExclusion
  ReferencesMatchUsers
  NoUnlockPanic
PROPERTIES
  KeysAreFIFOLocks
  RefusedForKeysInUse
