SPECIFICATION MCSpec
CONSTANTS
  g1 = g1
  g2 = g2
  s1 = s1
  k1 = k1
  k2 = k2
  c1 = c1
  c2 = c2
  Originators <- MCOriginators
  Sessions <- MCSessions
  Channels <- MCChannels
  Keys <- MCKeys
  NoKey = NoKey
  NoIssuer = NoIssuer
  Allowlist <- MCAllowlist
  Ms = 1
  VerifyTimeout = 2
  MinInterval = 3
  MaxNow = 7
  AllowUnauth = FALSE
  BindRelease = 2
  Settle = 1
  BootKey = k1
  EnvNonces <- MCNonces
  EnvDts <- MCDts
  EnvReverts <- MCReverts
  EnvElapsed <- MCElapsed
  Cmds = {"ok", "bad"}
  Applicable = {"ok"}
  CmdKeys <- TwoKeys
  Seeds <- TwoBoots
  Copies = 2
  CopyInterval = 1
  EchoCopies = 1
  AckTimeout = 4
  RetryCap = 2
  CmdMinInterval = 2
  MaxStarts = 2
  QueueCap = 3
  Setups <- MCSetups
  Clients = {1, 2}
  MaxConns = 1
  TimeoutMs = 1
  MaxPasses = 5
INVARIANTS CampaignBound BindingBounded CommandSound ServerSound
PROPERTIES ArmsOnce AppointmentKept BindingNotStolen
