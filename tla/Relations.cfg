SPECIFICATION Spec
CONSTANTS
  Handlers = {h1, h2}
  Users = {1, 2}
  Registered = {1, 2}
  Boundary = 4
  MaxGroups = 1
  MaxRows = 1
  MaxOps = 3
  MaxFaults = 1
SYMMETRY HandlerSymmetry
INVARIANTS TypeOK RowsMatchCache FriendsMutual CreatorOwns AcceptedStands PendingOnce
PROPERTIES RemovedByEntitled
CHECK_DEADLOCK FALSE
