SPECIFICATION Spec
CONSTANTS
  Deliveries = {d1}
  Callers = {c1, c2}
  Startup = startup
  Nobody = nobody
  Decisions = {"allow_always", "deny_always"}
  MaxAttempts = 2
  ParkTries = 1
  Policies <- NoPolicy
  MaxRuns = 1
  MaxRequests = 1
  MaxStoreFaults = 1
  MaxCrashes = 1
SYMMETRY CallerSymmetry
INVARIANTS OneUseAuthority ParkedNeverDecided ActiveRunTracked
  StrandedOnlyByFaults
PROPERTIES ImplementsLifecycle
CHECK_DEADLOCK FALSE
