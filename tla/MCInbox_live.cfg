\* Progress of every lane under a fair miner.
SPECIFICATION FairSpec
CONSTANTS
  A = A
  B = B
  app = app
  Chain = {A, B}
  Contract = {app}
  MpcChain = {B}
  SystemSender = SystemSender
  ZeroAddress = ZeroAddress
  NoId = NoId
  NoContext = NoContext
  NoTx = NoTx
  SendCalls = {"raw"}
  FeeGas = {1}
  Weight = {1}
  SystemErrorWeight = 1
  InitConfig <- MCInitConfig
  FeeCaps <- MCFeeCaps
  ReplyCaps = {1}
  Lives = {1}
  MaxNonce = 2
  SendBound <- MCOneLane
  MaxBatch = 2
  MaxTime <- MCNoTime
PROPERTIES
  EveryRequestIngested
  EveryAnswerReturns
