\* Merged-mining traffic (AuxPow and RSK) with one template.
CONSTANTS
  Templates <- MCOneTemplate
  AuxBlocks <- MCAuxBlocks
  RskWorks <- MCRskWorks
  JobInterval = 1
  GbtLifeTime = 3
  EmptyGbtLifeTime = 1
  GbtMaxTimeDiff = 2
  AuxMaxAge = 1
  RskWorkLifeTime = 1
  MaxGbtHashes = 2
  MergedMiningNotifyPolicy = 2
  ServerId = 1
  TimeBits = 8
  KeyHeightBits = 3
  JobIdTimeShift = 10
  MaxMsgLag = 0
  MaxTime = 2
  CoinbaseScriptLens <- MCCoinbaseScriptLens
  G1 = G1
  G2 = G2
  G3 = G3
  A1 = A1
  A2 = A2
  R1 = R1
  R2 = R2
  NoHash = NoHash
  NoAux = NoAux
  NoRsk = NoRsk
  NoGbt = NoGbt
  NoJob = NoJob
  InvalidGw = InvalidGw
SPECIFICATION Spec
INVARIANT JobTopicRoundTrip
PROPERTY MergedMiningUpdateConsumed
