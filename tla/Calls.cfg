\* Two calls, one subscriber, queue and channel of one, a ring of two, two optional events.
SPECIFICATION Spec
CONSTANTS
  Parker = Parker
  Jobs = Jobs
  Nobody = Nobody
  s1 = s1
  Publishers = {1, 2, Parker, Jobs}
  Subscribers = {s1}
  QueueCap = 1
  RingCap = 2
  SubCap = 1
  MaxDesks = 2
  MaxExtras = 2
INVARIANTS
  TypeOK
  CallsInOrder
  StatesFenced
  SubscriberSeesAll
  LogIsFaithful
PROPERTIES
  SilentAfterShutdown
  ShutdownEndsDesks
CHECK_DEADLOCK FALSE
