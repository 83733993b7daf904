\* Two calls: what the last published state says when no call is left.
INIT Init
NEXT Next
CONSTANTS
  Parker = Parker
  Jobs = Jobs
  Nobody = Nobody
  s1 = s1
  Publishers = {1, 2, Parker, Jobs}
  Subscribers = {s1}
  QueueCap = 1
  RingCap = 2
  SubCap = 1
  MaxDesks = 2
  MaxExtras = 0
INVARIANT AbsentSaysParked
CHECK_DEADLOCK FALSE
