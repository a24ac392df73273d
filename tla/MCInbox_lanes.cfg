\* Messages from A to B and C, from B to A, also sent by running targets; B's caps
\* are retuned while messages are in flight; two contracts per chain.
SPECIFICATION Spec
CONSTANTS
  A = A
  B = B
  app = app
  Chain = {A, B, C}
  Contract = {app, lib}
  MpcChain = {A, B, C}
  SystemSender = SystemSender
  ZeroAddress = ZeroAddress
  NoId = NoId
  NoContext = NoContext
  NoTx = NoTx
  SendCalls = {"typed"}
  FeeGas = {1, 2}
  Weight = {1}
  SystemErrorWeight = 1
  InitConfig <- MCGasConfig
  FeeCaps <- MCGasCaps
  ReplyCaps = {1}
  Lives = {1}
  MaxNonce = 4
  SendBound <- MCLanes
  MaxBatch = 2
  MaxTime <- MCNoTime
CONSTRAINT LaneBounds
INVARIANTS
  FifoExactlyOnce
  OutcomesExclusive
  LegsAnswerTheirRequest
