\* One session, two attention rows, one operator request and one misfortune.
SPECIFICATION Spec
CONSTANTS
  QuietAfter = 1
  ParkAfter = 1
  RolloverAt = 1
  MuteParkAfter = 1
  QuestionGrace = 1
  ParkDrainAfter = 1
  r1 = r1
  r2 = r2
  Rows = {r1, r2}
  Other = Other
  UrgentCap = 1
  InjectCap = 1
  MaxSessions = 1
  MaxResponses = 2
  MaxAsks = 1
  MaxLag = 2
  MaxMishaps = 1
INVARIANTS
  TypeOK
  SpokenWasHeard
  SingleWriter
  ParkCutsNothing
  HeldRowsAreQueued
PROPERTIES
  RetryKept
SYMMETRY RowSymmetry
CHECK_DEADLOCK FALSE
