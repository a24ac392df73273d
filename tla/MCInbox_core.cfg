\* One lane of two messages and its answers, with failures, retries and expiry.
SPECIFICATION Spec
CONSTANTS
  A = A
  B = B
  app = app
  Chain = {A, B}
  Contract = {app}
  MpcChain = {B}
  SystemSender = SystemSender
  ZeroAddress = ZeroAddress
  NoId = NoId
  NoContext = NoContext
  NoTx = NoTx
  SendCalls = {"typed"}
  FeeGas = {1}
  Weight = {1}
  SystemErrorWeight = 1
  InitConfig <- MCInitConfig
  FeeCaps <- MCFeeCaps
  ReplyCaps = {1}
  Lives = {1}
  MaxNonce = 4
  SendBound <- MCOneLane
  MaxBatch = 2
  MaxTime <- MCTimeOnB
INVARIANTS
  TypeOK
  OneReturnLeg
  OutcomesExclusive
  ExecutedMeansAnswered
  SuccessSignalsFinal
  ContextOnlyDuringCall
  ErrorTypeTellsOrigin
  RejectHatchOpen
PROPERTIES
  PauseHaltsMessaging
  ImplementsCalls
