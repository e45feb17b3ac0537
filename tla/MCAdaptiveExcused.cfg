SPECIFICATION Spec
CONSTANTS
  Top = 2
  Rate <- MCRate
  FloorProfile = 0
  ReportTimeout = 1
  FailsafeHold = 1
  FailsafeStep = 2
  BitrateLead = 1
  McsGrace = 1
  PromoteDwell = 1
  DownCooldown = 1
  PersistScore = 2
  RungLockout = 4
  LatchCount = 2
  FadeTicks = 2
  ReentryBackoff = 4
  ReentryDwell = 2
  FlapCount = 2
  FlapWindow = 5
  FlapFreeze = 3
  VerdictTtl = 2
  ProbeTtl = 2
  RelatchMs = 4
  Settle = 3
  Setups <- FreezeSetups
PROPERTY StaleNeverClimbs
