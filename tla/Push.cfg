\* Two attention rows, one browser, two tries and one misfortune of any kind.
SPECIFICATION Spec
CONSTANTS
  a1 = a1
  a2 = a2
  s1 = s1
  Attentions = {a1, a2}
  Subs = {s1}
  MaxAttempts = 2
  MaxUpsets = 1
INVARIANTS
  TypeOK
  QuietWhileVoice
  RecordIsTrue
  RetryBudget
  OptInEpoch
PROPERTIES
  SettledStays
  DeliverySettles
CHECK_DEADLOCK FALSE
