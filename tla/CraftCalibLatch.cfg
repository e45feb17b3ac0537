SPECIFICATION CCSpec
CONSTANTS
  MaxQdb = 1
  BracketCap = 1
  LossOk = 0
  LossBad = 1
  LossMax = 2
  DescentBudget = 1
  Count = 2
  TallyRetries = 0
  TopRung = 0
  AirCap = 1
  MaxRuns = 1
  MaxMeddles = 1
PROPERTY RunYieldsFirst
CHECK_DEADLOCK FALSE
