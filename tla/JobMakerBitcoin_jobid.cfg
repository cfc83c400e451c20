\* Spec 3/5: job ids strictly increase.
CONSTANTS
  Templates <- MCTemplates
  AuxBlocks <- MCNoAux
  RskWorks <- MCNoRsk
  JobInterval = 1
  GbtLifeTime = 3
  EmptyGbtLifeTime = 1
  GbtMaxTimeDiff = 2
  AuxMaxAge = 2
  RskWorkLifeTime = 1
  MaxGbtHashes = 2
  MergedMiningNotifyPolicy = 2
  ServerId = 1
  TimeBits = 8
  KeyHeightBits = 3
  JobIdTimeShift = 10
  MaxMsgLag = 0
  MaxTime = 4
  CoinbaseScriptLens <- MCShortCoinbase
  G1 = G1
  G2 = G2
  G3 = G3
  A1 = A1
  A2 = A2
  R1 = R1
  R2 = R2
  NoHash = NoHash
  NoAux = NoAux
  NoRsk = NoRsk
  NoGbt = NoGbt
  NoJob = NoJob
  InvalidGw = InvalidGw
SPECIFICATION Spec
PROPERTY JobIdIncreasing
