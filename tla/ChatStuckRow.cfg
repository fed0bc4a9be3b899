SPECIFICATION Spec
CONSTANTS
  alice = alice
  bob = bob
  Sessions = {1, 2}
  Users = {alice, bob}
  Groups = {room}
  Msgs = {m1}
  NoUser = NoUser
  NoMsg = NoMsg
  Friends <- NoFriends
  Members <- AllMembers
  Logins <- OneEach
  MaxDbFaults = 0
INVARIANTS NoRowForOnlineUser
CHECK_DEADLOCK FALSE
