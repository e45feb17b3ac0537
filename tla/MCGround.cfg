SPECIFICATION MCSpec
CONSTANTS
  K = 2
  R = 1
  MaxBlock = 2
  Deadline = 2
  Window = 1
  HealthWindow = 1
  ReplyLimit = 2
  Caches = {1}
  TailGrace = 1
  LocalQuiet = 1
  MinCollect = 1
  HardClose = 2
  RequestTimeout = 1
  PruneAfter = 1
  StatusTimeout = 1
  RepairCap = 1
  MaxAttempts = 2
  HealthFloor = 500
  MaxSession = 2
  MaxRequests = 1
  MaxEvents = 5
  Shapes <- MCShapes
  MaxPictures = 7
  Targets = {1, 2}
  RetiredCap = 8
  MaxSessions = 3
  MaxEpoch = 2
  Chans = {1, 2}
  HomeChan = 1
  Flyers = {"a", "b"}
  MaxActs = 4
  Runners = {1, 2}
  MaxQueued = 2
  MaxRuntimeEvents = 3
  Streams = {"ctl", "tel"}
  Control = {"ctl"}
  TelemetryHold = 2
  Redundancy = 2
  MaxReports = 2
  MaxDatagrams = 2
  MaxUrgent = 1
  Crafts = {1, 2}
  Width = 8
  MaxCount = 3
  MaxTurns = 4
  Sessions = {1, 2}
  Attempts = 3
  AskPeriod = 1
  RearmBackoff = 6
  MaxLatches = 3
  Top = 2
  Period = 2
  Slot = 1
  Span = 4
  Horizon = 2
  Copies = 2
  MaxSeq = 7
  MaxMoves = 1
  Devices = {1, 2, 3}
  Benches <- MCBenches
  Stanzas <- MCStanzas
  FdLists <- MCFdLists
  Options <- MCOptions
  Caps = {0, 1, 2}
  Ears = {1, 2}
  RxQueueCap = 1
  Tunes = {1, 2}
  MaxFrames = 2
  MaxRetunes = 2
INVARIANTS FramesSound FailsClosed CommittedTuned RuntimeTold LaneSound ReportSound AskBudget EvidenceExact  EarsSound
PROPERTY NoReturn
CHECK_DEADLOCK FALSE
