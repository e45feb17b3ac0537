SPECIFICATION TXSpec
CONSTANTS
  IRate = 1000
  PRate = 500
  ERate = 0
  MinR = 1
  MaxSymbols = 3
  MaxSource = 2
  GuardK = 2
  Guard = 1
  Window = 2
  Skip = 2
  PollMax = 2
  Agg = 2
  Period = 3
  WedgeWindow = 2
  MinSubmits = 1
  ExitWindows = 2
  MaxTime = 5
  MaxInputs = 3
  MaxEvents = 1
INVARIANTS ListenWindowKept
CHECK_DEADLOCK FALSE
