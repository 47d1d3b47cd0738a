\* Two watchdog locks of one name, one after the other.
SPECIFICATION TelemetrySpec
CONSTANTS
  p1 = p1
  p2 = p2
  Procs = {p1, p2}
  NoAttempt = NoAttempt
  Observed = TRUE
  VersionModulus = 10
  WaitThreshold = TRUE
  HoldThreshold = TRUE
  Stamped = TRUE
  Requests <- AllRequests
  MaxLocks = 2
SYMMETRY Symmetry
INVARIANTS
  VersionNamesState
  GaugesSettle
  GaugesShowReturned
  LegacySettles
  ProfilesExact
