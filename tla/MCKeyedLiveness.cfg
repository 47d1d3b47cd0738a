\* Two keys compete for one slot; no symmetry.
SPECIFICATION FairSpec
CONSTANTS
  p1 = p1
  p2 = p2
  p3 = p3
  Procs = {p1, p2, p3}
  NoAttempt = NoAttempt
  Observed = FALSE
  VersionModulus = 1
  k1 = k1
  k2 = k2
  Keys = {k1, k2}
  e1 = e1
  Entries = {e1}
  NoEntry = NoEntry
  NoKey = NoKey
  MaxKeys = 1
PROPERTIES
  CallsReturn
