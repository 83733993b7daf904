SPECIFICATION Spec
CONSTANTS
  Deliveries = {d1}
  Callers = {c1, c2}
  Startup = startup
  Nobody = nobody
  Decisions = {"allow_session", "deny_session"}
  MaxAttempts = 2
  ParkTries = 1
  Policies <- AnyPolicy
  MaxRuns = 1
  MaxRequests = 2
  MaxStoreFaults = 0
  MaxCrashes = 0
SYMMETRY CallerSymmetry
INVARIANTS TypeOK OneUseAuthority SingleApproval
PROPERTIES ImplementsLifecycle
CHECK_DEADLOCK FALSE
