SPECIFICATION Spec
CONSTANTS
  Deliveries = {d1, d2}
  Callers = {c1}
  Startup = startup
  Nobody = nobody
  Decisions = {"allow_once"}
  MaxAttempts = 2
  ParkTries = 1
  Policies <- NoPolicy
  MaxRuns = 2
  MaxRequests = 1
  MaxStoreFaults = 0
  MaxCrashes = 0
SYMMETRY DeliverySymmetry
INVARIANTS ActiveRunTracked NoStrandedJob
CHECK_DEADLOCK FALSE
