---------------------------- MODULE FeeManager ----------------------------
(***************************************************************************)
(* The fee arithmetic of an inbox: how paid wei becomes gas for the two    *)
(* legs of a message, which payments a send accepts, what an app is quoted *)
(* beforehand, and how much of the gas a target call gets.  Between quote, *)
(* send and call the gas price, the oracle's prices and the templates of   *)
(* both inboxes may move.                                                  *)
(*                                                                         *)
(* One app is followed, which holds a quote or has sent a message; what    *)
(* other apps do only moves prices.                                        *)
(* A failed validation reverts the send and is no step.  The inbox's own   *)
(* caps on a payload's weight and the reply and life limits are in Inbox.  *)
(***************************************************************************)
EXTENDS Integers

CONSTANTS
  Template,           \* fee templates owners try to install
  GasPriceBounds,     \* gas price bounds the owner tries to set
  GasPrice,           \* base fees, gas prices of transactions and of quotes
  Prices,             \* price pairs of the oracle, 0 for a missing price
  Size,               \* sizes of encoded method calls
  ExecutionGas,       \* execution gas an app asks a quote for
  Payment,            \* wei an app may pay without a quote
  DefaultGasPrice,    \* DEFAULT_GAS_PRICE
  MaxMethodCallBytes, \* PROTOCOL_MAX_METHOD_CALL_BYTES
  MaxExecutionGas,    \* PROTOCOL_MAX_EXECUTION_GAS
  NoOracle, NoQuote, NoMessage

FeeConfig ==
  [constantFee : Nat, gasPerByte : Nat, callbackExecutionGas : Nat,
   errorLength : Nat, bufferRatioX10000 : Nat, maxMethodCallBytes : Nat,
   maxExecutionGas : Nat, gasPriceMul : Nat, gasPriceDiv : Nat]

PricePair == [local : Nat, remote : Nat]

ASSUME FeeAssumption ==
  /\ Template \subseteq FeeConfig
  /\ GasPriceBounds \subseteq [priority : Nat, min : Nat, max : Nat]
  /\ GasPrice \subseteq Nat
  /\ Prices \subseteq PricePair
  /\ NoOracle \notin PricePair
  /\ Size \subseteq Nat
  /\ ExecutionGas \subseteq Nat
  /\ Payment \subseteq Nat
  /\ DefaultGasPrice \in Nat \ {0}

VARIABLES
  localMin, remoteMin,  \* templates of this inbox
  peerMin,              \* local template of the target chain's inbox
  gasBounds,            \* minPriorityFeeWei, minGasPriceWei, maxGasPriceWei
  prices,               \* getPricesUSD of the configured oracle
  baseFee,              \* block.basefee
  quote,                \* the quote an app holds, until it sends
  message               \* the message the app sent

settings == <<localMin, remoteMin, peerMin, gasBounds>>
vars == <<settings, prices, baseFee, quote, message>>

-----------------------------------------------------------------------------
(* Templates.                                                              *)

Unset ==
  [constantFee |-> 0, gasPerByte |-> 0, callbackExecutionGas |-> 0,
   errorLength |-> 0, bufferRatioX10000 |-> 0, maxMethodCallBytes |-> 0,
   maxExecutionGas |-> 0, gasPriceMul |-> 0, gasPriceDiv |-> 0]

ValidFeeConfig(c) ==
  /\ c.maxMethodCallBytes \in 1 .. MaxMethodCallBytes
  /\ c.maxExecutionGas \in 1 .. MaxExecutionGas
  /\ c.gasPriceMul # 0 /\ c.gasPriceDiv # 0
  /\ c.constantFee <= c.maxExecutionGas
  /\ c.constantFee = 0 =>
       /\ c.gasPerByte # 0 /\ c.callbackExecutionGas # 0
       /\ c.errorLength # 0 /\ c.bufferRatioX10000 # 0

\* Gas kept back for the bytes of an error.
ErrorBuffer(c) == c.errorLength * c.gasPerByte

\* Mutant: the floor leaves out the error bytes.
ExpectedMinFeeNoError(size, c) ==
  IF c.constantFee > 0 THEN c.constantFee
  ELSE ((size * c.gasPerByte + c.callbackExecutionGas)
          * (10000 + c.bufferRatioX10000)) \div 10000

\* The least gas a leg must buy.
ExpectedMinFee(size, c) ==
  IF c.constantFee > 0 THEN c.constantFee
  ELSE ((size * c.gasPerByte + c.callbackExecutionGas + ErrorBuffer(c))
          * (10000 + c.bufferRatioX10000)) \div 10000

\* Gas of a leg's fee left to the target call.
LocalRequestExecutionBudget(fee, c) ==
  IF c.constantFee > 0 THEN fee
  ELSE IF fee > ErrorBuffer(c) THEN fee - ErrorBuffer(c) ELSE 0

-----------------------------------------------------------------------------
(* From wei to gas.                                                        *)

ReferenceGasPrice(txGasPrice) ==
  LET market == IF baseFee > 0 THEN baseFee + gasBounds.priority
                ELSE IF txGasPrice # 0 THEN txGasPrice ELSE DefaultGasPrice
      floored == IF market < gasBounds.min THEN gasBounds.min ELSE market
  IN IF gasBounds.max # 0 /\ floored > gasBounds.max THEN gasBounds.max
     ELSE floored

\* Mutant: quotes round down.
CeilDivDown(a, b) == a \div b

CeilDiv(a, b) == (a + b - 1) \div b

\* Mutant: skew rounds up.
ApplyGasPriceSkewUp(units, c) == CeilDiv(units * c.gasPriceMul, c.gasPriceDiv)

ApplyGasPriceSkew(units, c) == (units * c.gasPriceMul) \div c.gasPriceDiv

CallerGas(wei, gasPrice) == ApplyGasPriceSkew(wei \div gasPrice, localMin)

TargetGas(wei, gasPrice) ==
  ApplyGasPriceSkew(((wei \div gasPrice) * prices.local) \div prices.remote,
                    remoteMin)

Priced(pair) == pair.local # 0 /\ pair.remote # 0

\* The oracle has both prices, and the templates are installed: a zero
\* gasPriceDiv panics.
Convertible ==
  /\ prices # NoOracle
  /\ Priced(prices)
  /\ localMin.gasPriceDiv # 0 /\ remoteMin.gasPriceDiv # 0

ValidTwoWayFees(size, totalFee, callbackFee, txGasPrice) ==
  LET gasPrice == ReferenceGasPrice(txGasPrice) IN
  /\ callbackFee \in 1 .. totalFee
  /\ Convertible
  /\ CallerGas(callbackFee, gasPrice) >= ExpectedMinFee(size, localMin)
  /\ TargetGas(totalFee - callbackFee, gasPrice) >= ExpectedMinFee(size, remoteMin)

ValidOneWayFees(size, totalFee, txGasPrice) ==
  /\ totalFee # 0
  /\ Convertible
  /\ TargetGas(totalFee, ReferenceGasPrice(txGasPrice)) >= ExpectedMinFee(size, remoteMin)

\* Caps of _createRequest on the gas of the two legs.
WithinGasCaps(targetFee, callerFee) ==
  /\ targetFee <= remoteMin.maxExecutionGas
  /\ callerFee <= localMin.maxExecutionGas

\* The prices after a send's best-effort refresh, which loses none.
RefreshedPrices == {prices} \cup {pair \in Prices : Priced(pair)}

-----------------------------------------------------------------------------
Init ==
  /\ localMin = Unset
  /\ remoteMin = Unset
  /\ peerMin = Unset
  /\ gasBounds = [priority |-> 0, min |-> DefaultGasPrice, max |-> 0]
  /\ prices = NoOracle
  /\ baseFee \in GasPrice
  /\ quote = NoQuote
  /\ message = NoMessage

UpdateMinFeeConfigs(local, remote) ==
  /\ ValidFeeConfig(local)
  /\ ValidFeeConfig(remote)
  /\ localMin' = local
  /\ remoteMin' = remote
  /\ UNCHANGED <<peerMin, gasBounds, prices, baseFee, quote, message>>

\* The target chain's owner does the same there; its remote template has no
\* part in this lane's budgets.
PeerUpdatesMinFeeConfigs(local) ==
  /\ ValidFeeConfig(local)
  /\ peerMin' = local
  /\ UNCHANGED <<localMin, remoteMin, gasBounds, prices, baseFee, quote, message>>

\* Mutant: any bounds are taken.
SetGasPriceBoundsUnchecked(bounds) ==
  /\ gasBounds' = bounds
  /\ UNCHANGED <<localMin, remoteMin, peerMin, prices, baseFee, quote, message>>

SetGasPriceBounds(bounds) ==
  /\ bounds.min # 0
  /\ bounds.max # 0 => bounds.max >= bounds.min
  /\ gasBounds' = bounds
  /\ UNCHANGED <<localMin, remoteMin, peerMin, prices, baseFee, quote, message>>

\* A new oracle must have both prices; an installed one may move at any time
\* and may lose them.
SetPriceOracle(pair) ==
  /\ Priced(pair)
  /\ prices' = pair
  /\ UNCHANGED <<settings, baseFee, quote, message>>

PricesMove(pair) ==
  /\ prices # NoOracle
  /\ prices' = pair
  /\ UNCHANGED <<settings, baseFee, quote, message>>

NewBlock(fee) ==
  /\ baseFee' = fee
  /\ UNCHANGED <<settings, prices, quote, message>>

\* calculateTwoWayFeeRequiredInLocalToken, called off chain at gasPrice.
Quoted(size, callbackSize, targetGas, callbackGas, gasPrice) ==
  LET targetUnits ==
        CeilDiv((ExpectedMinFee(size, remoteMin) + targetGas)
                  * remoteMin.gasPriceDiv, remoteMin.gasPriceMul)
      callerUnits ==
        CeilDiv((ExpectedMinFee(callbackSize, localMin) + callbackGas)
                  * localMin.gasPriceDiv, localMin.gasPriceMul)
  IN [size |-> size, callbackSize |-> callbackSize,
      targetGas |-> targetGas, callbackGas |-> callbackGas,
      gasPrice |-> gasPrice, prices |-> prices,
      localMin |-> localMin, remoteMin |-> remoteMin,
      targetWei |-> CeilDiv(targetUnits * prices.remote, prices.local) * gasPrice,
      callerWei |-> callerUnits * gasPrice]

Quote(size, callbackSize, targetGas, callbackGas, gasPrice) ==
  /\ Convertible
  /\ localMin.gasPriceMul # 0 /\ remoteMin.gasPriceMul # 0
  /\ quote' = Quoted(size, callbackSize, targetGas, callbackGas, gasPrice)
  /\ message' = NoMessage
  /\ UNCHANGED <<settings, prices, baseFee>>

Message(size, targetWei, callerWei, gasPrice, targetFee, callerFee) ==
  [size |-> size, targetWei |-> targetWei, callerWei |-> callerWei,
   gasPrice |-> gasPrice, prices |-> prices,
   targetFee |-> targetFee, callerFee |-> callerFee,
   localMin |-> localMin, remoteMin |-> remoteMin]

\* A two-way message with its two fee slices; its last act refreshes the
\* oracle, which may fail.
SendTwoWayMessage(size, totalFee, callbackFee, txGasPrice) ==
  LET gasPrice == ReferenceGasPrice(txGasPrice)
      targetFee == TargetGas(totalFee - callbackFee, gasPrice)
      callerFee == CallerGas(callbackFee, gasPrice)
  IN /\ ValidTwoWayFees(size, totalFee, callbackFee, txGasPrice)
     /\ WithinGasCaps(targetFee, callerFee)
     /\ message' = Message(size, totalFee - callbackFee, callbackFee, gasPrice,
                           targetFee, callerFee)
     /\ prices' \in RefreshedPrices
     /\ quote' = NoQuote
     /\ UNCHANGED <<settings, baseFee>>

SendOneWayMessage(size, totalFee, txGasPrice) ==
  LET gasPrice == ReferenceGasPrice(txGasPrice)
      targetFee == TargetGas(totalFee, gasPrice)
  IN /\ ValidOneWayFees(size, totalFee, txGasPrice)
     /\ WithinGasCaps(targetFee, 0)
     /\ message' = Message(size, totalFee, 0, gasPrice, targetFee, 0)
     /\ prices' \in RefreshedPrices
     /\ quote' = NoQuote
     /\ UNCHANGED <<settings, baseFee>>

Next ==
  \/ \E local, remote \in Template : UpdateMinFeeConfigs(local, remote)
  \/ \E local \in Template : PeerUpdatesMinFeeConfigs(local)
  \/ \E bounds \in GasPriceBounds : SetGasPriceBounds(bounds)
  \/ \E pair \in Prices : SetPriceOracle(pair) \/ PricesMove(pair)
  \/ \E fee \in GasPrice : NewBlock(fee)
  \/ \E size, callbackSize \in Size, targetGas, callbackGas \in ExecutionGas,
        gasPrice \in GasPrice :
       Quote(size, callbackSize, targetGas, callbackGas, gasPrice)
  \/ \E size \in Size, totalFee, callbackFee \in Payment, txGasPrice \in GasPrice :
       SendTwoWayMessage(size, totalFee, callbackFee, txGasPrice)
  \/ \E size \in Size, totalFee \in Payment, txGasPrice \in GasPrice :
       SendOneWayMessage(size, totalFee, txGasPrice)

Spec == Init /\ [][Next]_vars

-----------------------------------------------------------------------------
(* Properties.                                                             *)

QuoteType ==
  [size : Nat, callbackSize : Nat, targetGas : Nat, callbackGas : Nat,
   gasPrice : Nat, prices : PricePair, localMin : FeeConfig,
   remoteMin : FeeConfig, targetWei : Nat, callerWei : Nat]

MessageType ==
  [size : Nat, targetWei : Nat, callerWei : Nat, gasPrice : Nat \ {0},
   prices : PricePair, targetFee : Nat, callerFee : Nat,
   localMin : FeeConfig, remoteMin : FeeConfig]

\* Every variable has its type; templates are valid once installed, and the
\* gas price bounds leave room for a price above zero.
FeeTypeOK ==
  /\ \A c \in {localMin, remoteMin, peerMin} :
       c \in FeeConfig /\ (c = Unset \/ ValidFeeConfig(c))
  /\ localMin = Unset <=> remoteMin = Unset
  /\ gasBounds \in [priority : Nat, min : Nat \ {0}, max : Nat]
  /\ gasBounds.max # 0 => gasBounds.max >= gasBounds.min
  /\ prices \in PricePair \cup {NoOracle}
  /\ baseFee \in Nat
  /\ quote \in QuoteType \cup {NoQuote}
  /\ message \in MessageType \cup {NoMessage}

\* A quote is good as long as the templates stay, the reference gas price has
\* not risen above the quoted one and the local token has not lost against
\* the remote one: a payload no larger than the quoted sizes is accepted for
\* the quoted fees, and each leg buys the floor and the gas asked for.  The
\* conversion divides four times downwards and the quote upwards.
QuoteHolds(q, size, gasPrice) ==
  /\ localMin = q.localMin /\ remoteMin = q.remoteMin
  /\ Convertible
  /\ prices.local * q.prices.remote >= q.prices.local * prices.remote
  /\ gasPrice <= q.gasPrice
  /\ size <= q.size /\ size <= q.callbackSize

QuoteHonoured ==
  quote # NoQuote =>
    \A size \in Size, txGasPrice \in GasPrice :
      LET gasPrice == ReferenceGasPrice(txGasPrice) IN
      QuoteHolds(quote, size, gasPrice) =>
        /\ ValidTwoWayFees(size, quote.targetWei + quote.callerWei,
                           quote.callerWei, txGasPrice)
        /\ TargetGas(quote.targetWei, gasPrice)
             >= ExpectedMinFee(quote.size, remoteMin) + quote.targetGas
        /\ CallerGas(quote.callerWei, gasPrice)
             >= ExpectedMinFee(quote.callbackSize, localMin) + quote.callbackGas

\* The gas of a message was paid for at the prices of its send: however
\* conversion and skew round, a leg never gets more than its wei buy.
GasPaidFor ==
  message # NoMessage =>
    LET m == message IN
    /\ m.targetFee * m.remoteMin.gasPriceDiv * m.prices.remote * m.gasPrice
         <= m.targetWei * m.prices.local * m.remoteMin.gasPriceMul
    /\ m.callerFee * m.localMin.gasPriceDiv * m.gasPrice
         <= m.callerWei * m.localMin.gasPriceMul

\* What a leg bought under a template is enough to take in a payload of the
\* size paid for and run a call with the template's execution gas.
CoversCall(fee, size, c) ==
  LET budget == LocalRequestExecutionBudget(fee, c) IN
  /\ budget > 0
  /\ c.constantFee = 0 => budget >= size * c.gasPerByte + c.callbackExecutionGas

\* A message that was sent can run: both legs have gas, as Inbox assumes; the
\* target call gets its part if the target inbox has the template the message
\* was priced with, and so does the callback of a two-way message on the way
\* back.
MessageCanRun ==
  message # NoMessage =>
    /\ message.targetFee > 0
    /\ message.callerWei # 0 => message.callerFee > 0
    /\ peerMin = message.remoteMin =>
         CoversCall(message.targetFee, message.size, peerMin)
    /\ localMin = message.localMin /\ message.callerWei # 0 =>
         CoversCall(message.callerFee, message.size, localMin)

=============================================================================
