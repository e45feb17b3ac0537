SPECIFICATION LinkSpec
CONSTANTS
  g1 = g1
  s1 = s1
  k1 = k1
  c1 = c1
  c2 = c2
  Originators <- MCOriginators
  Sessions <- MCSessions
  Channels <- MCChannels
  Keys <- MCKeys
  NoKey = NoKey
  NoIssuer = NoIssuer
  Allowlist <- MCChannels
  AllowUnauth = FALSE
  Settle = 0
  BootKey = k1
  Ground = g1
  Session = s1
  Key = k1
  HomeChan = c1
  Copies = 2
  CopySpacing = 1
  CopyCutoff = 1
  UpCap = 1
  FirstBy = 1
  RetuneTime = 1
  Ms = 2
  VerifyTimeout = 1
  MinInterval = 5
  DtToSwitch = 2
  BindRelease = 2
  MaxNow = 19
  Setups <- MCSetups
INVARIANTS SwitchAgreement AckedCommit CampaignSettles
PROPERTIES CommittedTogether
