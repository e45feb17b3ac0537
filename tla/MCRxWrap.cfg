SPECIFICATION MCSpec
CONSTANTS
  Parts = {"stream"}
  Adapters = {1, 2}
  StreamSeqSpace = 16
  StallTimeout = 2
  DwellCeiling = 1
  TickGap = 1
  Setups <- MCWrap
  Tuples <- MCTuples
  Outputs <- MCOutputs
  Pins = {1, 2}
  AdmitN = 3
  AdmitWindow = 2
  IdleTeardown = 3
  CacheCap = 2
  AdmTickGap = 2
  MaxNow = 6
  SeqSpace = 10
  FwdClampPkts = 3
  MaxHeard = 6
INVARIANT NoStarvation
