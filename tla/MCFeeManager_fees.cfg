\* Quotes held and messages sent while markets and settings move.
SPECIFICATION Spec
CONSTANTS
  Template <- MCTemplate
  GasPriceBounds <- MCBounds
  GasPrice = {0, 1, 2}
  Prices <- MCPrices
  Size = {1, 2}
  ExecutionGas = {0, 2}
  Payment = {1, 4, 7, 12}
  DefaultGasPrice = 2
  MaxMethodCallBytes = 4
  MaxExecutionGas = 9
  NoOracle = NoOracle
  NoQuote = NoQuote
  NoMessage = NoMessage
INVARIANTS
  FeeTypeOK
  QuoteHonoured
  GasPaidFor
  MessageCanRun
