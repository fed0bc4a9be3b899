SPECIFICATION FairSpec
CONSTANTS
  Msgs = {m1, m2, m3}
  TooLong = {m3}
  Alien = {x}
  NoMsg = NoMsg
  MqEnabled = TRUE
  Prefetch = 2
  MaxFaults = 2
INVARIANTS StoredOrPending OneRowUnlessRedelivered
PROPERTIES QueueDrains
CHECK_DEADLOCK FALSE
