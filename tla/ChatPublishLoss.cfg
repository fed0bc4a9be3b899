SPECIFICATION Spec
CONSTANTS
  Msgs = {m1, m2}
  TooLong = {}
  Alien = {x}
  NoMsg = NoMsg
  MqEnabled = TRUE
  Prefetch = 1
  MaxFaults = 0
INVARIANTS PublishedIsNotLost
CHECK_DEADLOCK FALSE
