SPECIFICATION Spec
CONSTANTS
  Clients = {"c1", "c2"}
  Names = {"n1"}
  Mails = {"x"}
  Existing <- AnAccount
  TTL = 1
  Cool = 1
  MaxAttempts = 2
  MaxClock = 2
  MaxCalls = 3
  MaxUnclear = 1
  Sessions = {"s1", "s2"}
  People = {"u"}
  Groups = {"g"}
  Nobody = "nobody"
  MaxRequests = 3
  MaxFailed = 2
  Requesters = {"r1", "r2"}
  Devices = {"d1", "d2"}
  PoolConns <- OneConn
  MaxFilings = 2
  MaxPushFaults = 1
  Tables = {1, 2}
  Declared = {"a", "b"}
  Foreign = {"x"}
  MaxSqlErrors = 1
  MaxReqs = 2
  AgentUsers = {"u"}
  FreeDaily = 0
  VipDaily = 1
  MaxLen = 2
  Days = 2
  MaxErrors = 2
  Owners = {"u1", "u2"}
  Messages <- SomeMessages
  MaxCorpus = 2
  EmbedBatch = 1
  TopK = 1
  MaxRows = 2
  MaxAsks = 2
  MaxRagErrors = 1
  NoAsk = NoAsk
  AvatarIds <- TwoIds
  Pictures = {"p1", "bad"}
  Unreadable = {"bad"}
  MaxSaves = 3
  MaxAtOnce = 2
  MaxSecond = 3
  MaxDiskErrors = 1
  Unsettled = Unsettled
  WorkDirs = {"a", "b"}
  ExeDir = "exe"
  AbsoluteDir = "abs"
  Randoms = {1, 2}
  MaxBytes = 1
  Bodies = {1, 2}
  MaxMedia = 2
  MaxNano = 2
  MaxMediaErrors = 2
  Me = "u1"
  Friends = {"u2"}
  ChatGroups = {"g"}
  Dates = {0, 1, 2}
  HistoryLimit = 1
  MaxMessages = 2
  MaxFrames = 2
  MaxReconnects = 1
INVARIANTS
  RegistrationSound
  
  RequestsArrive
  SchemaReady
  AgentSound
  RetrievalSound
  FilesStand
  HistorySound
PROPERTIES
  ServicesProgress
CHECK_DEADLOCK FALSE
