SPECIFICATION LinkSpec
CONSTANTS
  g1 = g1
  s1 = s1
  k1 = k1
  c1 = c1
  c2 = c2
  Originators <- MCOriginators
  Sessions <- MCSessions
  Channels <- MCChannels
  Keys <- MCKeys
  NoKey = NoKey
  NoIssuer = NoIssuer
  Allowlist <- MCChannels
  AllowUnauth = FALSE
  Settle = 0
  BootKey = k1
  Ground = g1
  Session = s1
  Key = k1
  HomeChan = c1
  Copies = 2
  CopySpacing = 1
  CopyCutoff = 1
  UpCap = 1
  FirstBy = 1
  RetuneTime = 1
  Ms = 1
  VerifyTimeout = 2
  MinInterval = 4
  DtToSwitch = 4
  BindRelease = 9
  MaxNow = 14
  Setups <- MCTight
INVARIANTS AckedCommit
