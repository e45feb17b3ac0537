SPECIFICATION MCSpec
CONSTANTS
  Top = 2
  Rate <- MCRate
  FloorProfile = 0
  ReportTimeout = 1
  FailsafeHold = 1
  FailsafeStep = 2
  BitrateLead = 1
  McsGrace = 1
  PromoteDwell = 1
  DownCooldown = 1
  PersistScore = 2
  RungLockout = 4
  LatchCount = 2
  FadeTicks = 2
  ReentryBackoff = 4
  ReentryDwell = 2
  FlapCount = 2
  FlapWindow = 5
  FlapFreeze = 3
  VerdictTtl = 2
  ProbeTtl = 2
  RelatchMs = 4
  Settle = 3
  Setups <- MCSetups
  Crowd = 5
  Bustle = 3
  Load = 3
  MaxQdb = 2
  BracketCap = 1
  LossOk = 0
  LossBad = 1
  LossMax = 2
  DescentBudget = 1
  Count = 2
  TallyRetries = 1
  TopRung = 1
  AirCap = 2
  MaxRuns = 2
  MaxMeddles = 1
  Crafts = {1, 2}
  MaxStarts = 2
  MaxCraftRuns = 2
  MaxMoves = 2
  Knobs = {1, 2}
  Vals = {1, 2}
  MaxWants = 3
  MaxFaults = 2
  Rates = {1, 2, 3, 4}
  MinRate = 2
  Preferred = 3
  Presets = {2, 4}
  ReduceAfter = 2
  ReduceDwell = 3
  RestoreAfter = 3
  FpsSettle = 1
  SampleTimeout = 1
  MaxCommands = 4
  IRate = 1000
  PRate = 500
  ERate = 0
  MinR = 1
  MaxSymbols = 2
  MaxSource = 3
  GuardK = 2
  Guard = 1
  Window = 2
  Skip = 2
  PollMax = 2
  Agg = 2
  Period = 3
  WedgeWindow = 2
  MinSubmits = 1
  ExitWindows = 2
  MaxTime = 5
  MaxInputs = 3
  MaxEvents = 1
INVARIANTS BitrateFits RungSound  CalibrationSettled ActuatorSound TransmitSound
PROPERTIES ClimbFresh AuthorityHolds EvidenceHonest MovesEarned
CHECK_DEADLOCK FALSE
