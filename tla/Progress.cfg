SPECIFICATION LiveSpec
CONSTANTS
  Deliveries = {d1}
  Callers = {c1}
  Startup = startup
  Nobody = nobody
  Decisions = {"allow_once"}
  MaxAttempts = 2
  ParkTries = 1
  Policies <- NoPolicy
  MaxRuns = 1
  MaxRequests = 2
  MaxStoreFaults = 0
  MaxCrashes = 0
PROPERTIES ApprovalSettles CancelReleasesWorker
CHECK_DEADLOCK FALSE
