\* Writers and guarded readers with a hold threshold; no symmetry.
SPECIFICATION FairSpec
CONSTANTS
  p1 = p1
  p2 = p2
  Procs = {p1, p2}
  NoAttempt = NoAttempt
  Observed = TRUE
  VersionModulus = 1
  WaitThreshold = FALSE
  HoldThreshold = TRUE
  Stamped = FALSE
  Requests <- ExactRequests
PROPERTIES
  CallsReturn
  HoldCallbackReturns
