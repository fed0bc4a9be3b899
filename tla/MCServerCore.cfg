SPECIFICATION Spec
CONSTANTS
  Base = "t1"
  IoLoops <- OneIoLoop
  Senders = {"t3"}
  Conns = {"c1"}
  MaxMsgs = 1
  MaxIn = 1
  MaxRefused = 1
  None = None
  Addrs = {1, 2}
  Delays = {1, 2}
  MaxSeq = 2
  MaxTime = 3
  MaxCancels = 1
  Workers = {"t1", "t2"}
  Producers = {"t3", "t4"}
  PerProducer = 2
  Capacity = 1
  CheapPrepend = 2
  InitialSize = 5
  ExtraBuf = 4
  MaxLen = 4
  BodySizes = {0, 2}
  Damages = {"short", "long", "sum", "tag", "body"}
  MaxFrames = 2
  Loggers = {"t1", "t2"}
  PerLogger = 2
  BufferLines = 1
  DropLimit = 2
  RollSize = 1
  MaxLogTime = 2
  MaxDiskFaults = 1
  InitDelay = 1
  MaxDelay = 3
  MaxFlaps = 3
  Fds = {0, 1}
  MaxChannels = 4
  KnownDates <- SomeDates
  WalkDays = 800
  ClockTimes <- SomeTimes
  MaxEpochDays = 20000
  Offsets = {0, 1, 3}
  MaxTypes = 2
  MaxTrans = 3
  MaxUtc = 12
  Apart = 4
INVARIANTS
  ConnectionsSound
  TimersSound
  QueueSound
  FramingSound
  LogSound
  ConnectorSound
  PollersSound
  TimesAreRight
PROPERTIES
  LibraryProgress
CHECK_DEADLOCK FALSE
