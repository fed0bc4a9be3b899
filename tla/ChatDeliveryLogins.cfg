SPECIFICATION FairSpec
CONSTANTS
  alice = alice
  bob = bob
  Sessions = {1, 2}
  Users = {alice, bob}
  Groups = {room}
  Msgs = {m1}
  NoUser = NoUser
  NoMsg = NoMsg
  Friends <- AllFriends
  Members <- AllMembers
  Logins <- OneEach
  MaxDbFaults = 0
INVARIANTS PresenceKnown
PROPERTIES HandlersFinish ImplementsMailbox
CHECK_DEADLOCK FALSE
