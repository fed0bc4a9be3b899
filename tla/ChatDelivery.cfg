SPECIFICATION Spec
CONSTANTS
  alice = alice
  bob = bob
  Sessions = {1, 2, 3}
  Users = {alice, bob}
  Groups = {room}
  Msgs = {m1}
  NoUser = NoUser
  NoMsg = NoMsg
  Friends <- NoFriends
  Members <- AllMembers
  Logins <- TwoDevices
  MaxDbFaults = 1
INVARIANTS TypeOK NoSilentLoss AtMostOnce
CHECK_DEADLOCK FALSE
