SPECIFICATION Spec
CONSTANTS
  alice = alice
  bob = bob
  Sessions = {1, 2}
  Users = {alice, bob}
  Groups = {}
  Msgs = {m1, m2}
  NoUser = NoUser
  NoMsg = NoMsg
  Friends <- NoFriends
  Members <- AllMembers
  Logins <- OneEach
  MaxDbFaults = 0
SYMMETRY MsgSymmetry
INVARIANTS NoSilentLoss OfflineFifo
CHECK_DEADLOCK FALSE
