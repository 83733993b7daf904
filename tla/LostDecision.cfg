SPECIFICATION Spec
CONSTANTS
  Deliveries = {d1}
  Callers = {c1, c2}
  Startup = startup
  Nobody = nobody
  Decisions = {"allow_once", "allow_session", "deny_session"}
  MaxAttempts = 2
  ParkTries = 1
  Policies <- AnyPolicy
  MaxRuns = 1
  MaxRequests = 1
  MaxStoreFaults = 0
  MaxCrashes = 0
SYMMETRY CallerSymmetry
PROPERTY UnknownOutcomeRecorded
CHECK_DEADLOCK FALSE
