\* The reject hatch while owners retune the fee caps while messages are in flight.
SPECIFICATION Spec
CONSTANTS
  A = A
  B = B
  app = app
  Chain = {A, B}
  Contract = {app}
  MpcChain = {B}
  SystemSender = SystemSender
  ZeroAddress = ZeroAddress
  NoId = NoId
  NoContext = NoContext
  NoTx = NoTx
  SendCalls = {"typed"}
  FeeGas = {1, 2}
  Weight = {1, 2}
  SystemErrorWeight = 1
  InitConfig <- MCWideConfig
  FeeCaps <- MCRetunedCaps
  ReplyCaps = {2}
  Lives = {0}
  MaxNonce = 4
  SendBound <- MCOne
  MaxBatch = 2
  MaxTime <- MCNoTime
INVARIANTS
  OverweightCanBeRejected
