\* The timer ladder: small, distinct timers in the order of the real ones, all
\* activity within the first instants, and time enough for every timer after it.
SPECIFICATION Spec
CONSTANTS
  QuietAfter = 1
  ParkAfter = 2
  QuestionGrace = 3
  MuteParkAfter = 3
  ParkDrainAfter = 2
  RolloverAt = 5
  Horizon = 3
  MaxTime = 8
INVARIANTS
  TypeOK
  StateAgrees
PROPERTIES
  DrainAdmitsNothing
  GraceHolds
  RequestedParkLands
  SilenceParks
CHECK_DEADLOCK FALSE
