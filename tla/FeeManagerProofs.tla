------------------------- MODULE FeeManagerProofs -------------------------
(***************************************************************************)
(* Proofs about FeeManager, for any templates, prices, payments and sizes. *)
(***************************************************************************)
EXTENDS FeeManager, TLAPS

-----------------------------------------------------------------------------
(* Arithmetic of rounding.                                                 *)

\* Rounding down: the quotient times the divisor does not exceed the
\* dividend, and anything that does not is not above the quotient.
LEMMA FloorDiv ==
  ASSUME NEW a \in Nat, NEW b \in Nat \ {0}
  PROVE  /\ a \div b \in Nat
         /\ (a \div b) * b <= a
         /\ \A c \in Nat : c * b <= a => c <= a \div b
<1>1. /\ a \div b \in Nat
      /\ (a \div b) * b <= a
      /\ a < (a \div b + 1) * b
  BY SMT
<1>2. ASSUME NEW c \in Nat, c * b <= a
      PROVE  c <= a \div b
  <2> DEFINE q == a \div b
  <2>1. q \in Nat /\ c * b < (q + 1) * b
    BY <1>1, <1>2
  <2> HIDE DEF q
  <2>2. c < q + 1
    BY <2>1, SMT
  <2> QED BY <2>1, <2>2 DEF q
<1> QED BY <1>1, <1>2

\* Rounding up: the quotient times the divisor reaches the dividend.
LEMMA CeilReaches ==
  ASSUME NEW a \in Nat, NEW b \in Nat \ {0}
  PROVE  CeilDiv(a, b) \in Nat /\ CeilDiv(a, b) * b >= a
<1> DEFINE n == a + b - 1
           q == n \div b
<1>1. n \in Nat
  OBVIOUS
<1>2. q \in Nat /\ n < (q + 1) * b
  BY <1>1, SMT
<1> HIDE DEF q
<1>3. q * b + b = (q + 1) * b
  BY <1>2, SMT
<1>4. q * b >= a
  BY <1>2, <1>3, SMT
<1> QED BY <1>2, <1>4 DEF CeilDiv, q

\* Products grow with their factors.
LEMMA ProductGrows ==
  ASSUME NEW a \in Nat, NEW b \in Nat, NEW c \in Nat, NEW d \in Nat,
         a <= b, c <= d
  PROVE  a * c <= b * d /\ a * c \in Nat /\ b * d \in Nat
  BY SMT

\* A common factor cancels.
LEMMA FactorCancels ==
  ASSUME NEW a \in Nat, NEW b \in Nat, NEW c \in Nat \ {0}, a * c <= b * c
  PROVE  a <= b
  BY SMT

\* Gas sold is gas paid for: three roundings down leave a leg with no more
\* gas than its wei buy.
LEMMA LegPaidFor ==
  ASSUME NEW wei \in Nat, NEW g \in Nat \ {0}, NEW l \in Nat, NEW r \in Nat \ {0},
         NEW mul \in Nat, NEW d \in Nat \ {0}
  PROVE  (((((wei \div g) * l) \div r) * mul) \div d) * d * r * g <= wei * l * mul
<1> DEFINE w == wei \div g
           x == (w * l) \div r
           t == (x * mul) \div d
<1>1. w \in Nat /\ w * g <= wei
  BY FloorDiv
<1> HIDE DEF w
<1>2. x \in Nat /\ x * r <= w * l
  BY <1>1, FloorDiv
<1> HIDE DEF x
<1>3. t \in Nat /\ t * d <= x * mul
  BY <1>2, FloorDiv
<1> HIDE DEF t
<1>4. t * d * r <= x * r * mul
  BY <1>2, <1>3, ProductGrows, SMT
<1>5. x * r * mul <= w * l * mul
  BY <1>1, <1>2, ProductGrows, SMT
<1>6. t * d * r * g <= w * l * mul * g
  BY <1>1, <1>2, <1>3, <1>4, <1>5, ProductGrows, SMT
<1>7. w * l * mul * g = w * g * (l * mul) /\ wei * l * mul = wei * (l * mul)
  BY <1>1, SMT
<1>8. w * g * (l * mul) <= wei * (l * mul)
  BY <1>1, ProductGrows, SMT
<1> QED BY <1>1, <1>2, <1>3, <1>6, <1>7, <1>8, SMT DEF w, x, t

\* A leg paid for as quoted buys what the quote was for, at a gas price no
\* higher and a price ratio no worse than the quoted ones.
LEMMA LegBuysQuoted ==
  ASSUME NEW gas \in Nat, NEW mul \in Nat \ {0}, NEW d \in Nat \ {0},
         NEW ql \in Nat \ {0}, NEW qr \in Nat, NEW l \in Nat, NEW r \in Nat \ {0},
         NEW qg \in Nat, NEW g \in Nat \ {0},
         g <= qg, l * qr >= ql * r
  PROVE  (((((CeilDiv(CeilDiv(gas * d, mul) * qr, ql) * qg) \div g) * l)
            \div r) * mul) \div d >= gas
<1> DEFINE u == CeilDiv(gas * d, mul)
           v == CeilDiv(u * qr, ql)
           wei == v * qg
           w == wei \div g
           x == (w * l) \div r
<1>1. u \in Nat /\ u * mul >= gas * d
  BY CeilReaches
<1> HIDE DEF u
<1>2. v \in Nat /\ v * ql >= u * qr
  BY <1>1, CeilReaches
<1> HIDE DEF v
<1>3. w \in Nat /\ v <= w
  BY <1>2, FloorDiv, ProductGrows, SMT
<1> HIDE DEF w
<1>4. u * r <= v * l
  <2>1. u * qr * l <= v * ql * l
    BY <1>1, <1>2, ProductGrows, SMT
  <2>2. u * (ql * r) <= u * (l * qr)
    BY <1>1, ProductGrows, SMT
  <2>3. u * r * ql <= v * l * ql
    BY <1>1, <1>2, <2>1, <2>2, SMT
  <2> QED BY <1>1, <1>2, <2>3, FactorCancels, SMT
<1>5. x \in Nat /\ u <= x
  <2>1. v * l <= w * l
    BY <1>2, <1>3, ProductGrows, SMT
  <2>2. u * r <= w * l
    BY <1>1, <1>2, <1>3, <1>4, <2>1, SMT
  <2> QED BY <1>1, <1>3, <2>2, FloorDiv
<1> HIDE DEF x
<1>6. gas * d <= x * mul
  BY <1>1, <1>5, ProductGrows, SMT
<1>7. gas <= (x * mul) \div d
  BY <1>5, <1>6, FloorDiv
<1> QED BY <1>5, <1>7, SMT DEF u, v, w, x

\* The same for the leg paid in its own token, without prices.
LEMMA CallerLegBuysQuoted ==
  ASSUME NEW gas \in Nat, NEW mul \in Nat \ {0}, NEW d \in Nat \ {0},
         NEW qg \in Nat, NEW g \in Nat \ {0}, g <= qg
  PROVE  ((((CeilDiv(gas * d, mul) * qg) \div g) * mul) \div d) >= gas
<1> DEFINE u == CeilDiv(gas * d, mul)
           w == (u * qg) \div g
<1>1. u \in Nat /\ u * mul >= gas * d
  BY CeilReaches
<1> HIDE DEF u
<1>2. w \in Nat /\ u <= w
  BY <1>1, FloorDiv, ProductGrows, SMT
<1> HIDE DEF w
<1>3. gas * d <= w * mul
  BY <1>1, <1>2, ProductGrows, SMT
<1>4. gas <= (w * mul) \div d
  BY <1>2, <1>3, FloorDiv
<1> QED BY <1>2, <1>4, SMT DEF u, w

LEMMA NothingBuysNothing ==
  ASSUME NEW g \in Nat \ {0}, NEW mul \in Nat, NEW d \in Nat \ {0}
  PROVE  ((0 \div g) * mul) \div d = 0
<1>1. 0 \div g = 0 /\ 0 \div d = 0
  BY SMT
<1>2. 0 * mul = 0
  BY SMT
<1> QED BY <1>1, <1>2

-----------------------------------------------------------------------------
(* Types and floors.                                                       *)

\* The floor is a number, positive under a valid template, and under a
\* variable one at least the gas of the payload, the call and the error.
LEMMA FloorType ==
  ASSUME NEW c \in FeeConfig, NEW size \in Nat
  PROVE  /\ ErrorBuffer(c) \in Nat
         /\ ExpectedMinFee(size, c) \in Nat
         /\ c.constantFee = 0 =>
              ExpectedMinFee(size, c)
                >= size * c.gasPerByte + c.callbackExecutionGas + ErrorBuffer(c)
<1>1. /\ c.constantFee \in Nat /\ c.gasPerByte \in Nat
      /\ c.callbackExecutionGas \in Nat /\ c.errorLength \in Nat
      /\ c.bufferRatioX10000 \in Nat
  BY DEF FeeConfig
<1> DEFINE n == size * c.gasPerByte + c.callbackExecutionGas + ErrorBuffer(c)
<1>2. ErrorBuffer(c) \in Nat /\ n \in Nat
  BY <1>1, ProductGrows, SMT DEF ErrorBuffer
<1> HIDE DEF n
<1>3. n * (10000 + c.bufferRatioX10000) \in Nat
  BY <1>1, <1>2, ProductGrows
<1>4. n * 10000 <= n * (10000 + c.bufferRatioX10000)
  BY <1>1, <1>2, ProductGrows
<1>5. /\ (n * (10000 + c.bufferRatioX10000)) \div 10000 \in Nat
      /\ n <= (n * (10000 + c.bufferRatioX10000)) \div 10000
  BY <1>2, <1>3, <1>4, FloorDiv
<1> QED BY <1>1, <1>2, <1>5 DEF ExpectedMinFee, n

\* The reference gas price is never zero: no conversion divides by it.
LEMMA ReferenceType ==
  ASSUME FeeTypeOK, NEW txGasPrice \in Nat
  PROVE  ReferenceGasPrice(txGasPrice) \in Nat \ {0}
  BY FeeAssumption DEF FeeTypeOK, ReferenceGasPrice

LEMMA SkewType ==
  ASSUME NEW units \in Nat, NEW c \in FeeConfig, c.gasPriceDiv # 0
  PROVE  ApplyGasPriceSkew(units, c) \in Nat
<1>1. c.gasPriceMul \in Nat /\ c.gasPriceDiv \in Nat \ {0}
  BY DEF FeeConfig
<1>2. units * c.gasPriceMul \in Nat
  BY <1>1, ProductGrows
<1> QED BY <1>1, <1>2, FloorDiv DEF ApplyGasPriceSkew

\* What a leg that meets its floor leaves for the call.
LEMMA FloorCovers ==
  ASSUME NEW c \in FeeConfig, ValidFeeConfig(c), NEW size \in Nat, NEW fee \in Nat,
         fee >= ExpectedMinFee(size, c)
  PROVE  CoversCall(fee, size, c)
<1>1. /\ c.constantFee \in Nat /\ c.gasPerByte \in Nat
      /\ c.callbackExecutionGas \in Nat
  BY DEF FeeConfig
<1>2. size * c.gasPerByte \in Nat
  BY <1>1, ProductGrows
<1>3. CASE c.constantFee = 0
  <2>1. /\ ErrorBuffer(c) \in Nat
        /\ fee >= size * c.gasPerByte + c.callbackExecutionGas + ErrorBuffer(c)
    BY <1>1, <1>2, <1>3, FloorType
  <2>2. c.callbackExecutionGas # 0
    BY <1>3 DEF ValidFeeConfig
  <2> DEFINE bytes == size * c.gasPerByte
             buffer == ErrorBuffer(c)
  <2>3. /\ bytes \in Nat /\ buffer \in Nat
        /\ fee >= bytes + c.callbackExecutionGas + buffer
    BY <1>2, <2>1
  <2>4. LocalRequestExecutionBudget(fee, c) = IF fee > buffer THEN fee - buffer ELSE 0
    BY <1>3 DEF LocalRequestExecutionBudget
  <2> HIDE DEF bytes, buffer
  <2>5. /\ LocalRequestExecutionBudget(fee, c) > 0
        /\ LocalRequestExecutionBudget(fee, c) >= bytes + c.callbackExecutionGas
    BY <1>1, <2>2, <2>3, <2>4, SMT
  <2> QED BY <2>5 DEF CoversCall, bytes
<1>4. CASE c.constantFee # 0
  BY <1>1, <1>4 DEF ExpectedMinFee, CoversCall, LocalRequestExecutionBudget
<1> QED BY <1>3, <1>4

\* A valid template has a positive floor.
LEMMA FloorPositive ==
  ASSUME NEW c \in FeeConfig, ValidFeeConfig(c), NEW size \in Nat
  PROVE  ExpectedMinFee(size, c) > 0
<1>1. /\ c.constantFee \in Nat /\ c.gasPerByte \in Nat
      /\ c.callbackExecutionGas \in Nat
  BY DEF FeeConfig
<1>2. CASE c.constantFee = 0
  <2> DEFINE bytes == size * c.gasPerByte
             buffer == ErrorBuffer(c)
  <2>1. /\ bytes \in Nat /\ buffer \in Nat
        /\ ExpectedMinFee(size, c) \in Nat
        /\ ExpectedMinFee(size, c) >= bytes + c.callbackExecutionGas + buffer
    BY <1>1, <1>2, FloorType, ProductGrows
  <2>2. c.callbackExecutionGas # 0
    BY <1>2 DEF ValidFeeConfig
  <2> HIDE DEF bytes, buffer
  <2> QED BY <1>1, <2>1, <2>2
<1>3. CASE c.constantFee # 0
  BY <1>1, <1>3 DEF ExpectedMinFee
<1> QED BY <1>2, <1>3

\* A larger payload has no lower floor.
LEMMA FloorGrows ==
  ASSUME NEW c \in FeeConfig, NEW size \in Nat, NEW larger \in Nat, size <= larger
  PROVE  ExpectedMinFee(size, c) <= ExpectedMinFee(larger, c)
<1>1. /\ c.constantFee \in Nat /\ c.gasPerByte \in Nat
      /\ c.callbackExecutionGas \in Nat /\ c.bufferRatioX10000 \in Nat
      /\ ErrorBuffer(c) \in Nat
  BY FloorType DEF FeeConfig
<1> DEFINE n(s) == s * c.gasPerByte + c.callbackExecutionGas + ErrorBuffer(c)
           m == 10000 + c.bufferRatioX10000
<1>2. n(size) \in Nat /\ n(larger) \in Nat /\ n(size) <= n(larger) /\ m \in Nat
  <2>1. /\ size * c.gasPerByte <= larger * c.gasPerByte
        /\ size * c.gasPerByte \in Nat /\ larger * c.gasPerByte \in Nat
    BY <1>1, ProductGrows
  <2> QED BY <1>1, <2>1
<1>3. ExpectedMinFee(size, c) = IF c.constantFee > 0 THEN c.constantFee
                                ELSE (n(size) * m) \div 10000
  BY DEF ExpectedMinFee
<1>4. ExpectedMinFee(larger, c) = IF c.constantFee > 0 THEN c.constantFee
                                  ELSE (n(larger) * m) \div 10000
  BY DEF ExpectedMinFee
<1> HIDE DEF n, m
<1>5. /\ n(size) * m <= n(larger) * m
      /\ n(size) * m \in Nat /\ n(larger) * m \in Nat
  BY <1>2, ProductGrows
<1>6. (n(size) * m) \div 10000 <= (n(larger) * m) \div 10000
  <2> DEFINE small == n(size) * m
             big == n(larger) * m
  <2>1. small \in Nat /\ big \in Nat /\ small <= big
    BY <1>5
  <2> HIDE DEF small, big
  <2>2. (small \div 10000) * 10000 <= big /\ small \div 10000 \in Nat
    BY <2>1, FloorDiv
  <2>3. small \div 10000 <= big \div 10000
    BY <2>1, <2>2, FloorDiv
  <2> QED BY <2>3 DEF small, big
<1> QED BY <1>1, <1>3, <1>4, <1>6

-----------------------------------------------------------------------------
(* The inductive invariant.                                                *)

\* A quote was made under installed templates and prices, by the formula.
QuoteMade ==
  quote # NoQuote =>
    LET q == quote IN
    /\ ValidFeeConfig(q.localMin) /\ ValidFeeConfig(q.remoteMin)
    /\ Priced(q.prices)
    /\ q.targetWei =
         CeilDiv(CeilDiv((ExpectedMinFee(q.size, q.remoteMin) + q.targetGas)
                           * q.remoteMin.gasPriceDiv, q.remoteMin.gasPriceMul)
                   * q.prices.remote, q.prices.local) * q.gasPrice
    /\ q.callerWei =
         CeilDiv((ExpectedMinFee(q.callbackSize, q.localMin) + q.callbackGas)
                   * q.localMin.gasPriceDiv, q.localMin.gasPriceMul) * q.gasPrice

\* A message was sent under installed templates and met their floors.
MessageFunded ==
  message # NoMessage =>
    LET m == message IN
    /\ ValidFeeConfig(m.localMin) /\ ValidFeeConfig(m.remoteMin)
    /\ m.targetFee >= ExpectedMinFee(m.size, m.remoteMin)
    /\ m.callerWei # 0 => m.callerFee >= ExpectedMinFee(m.size, m.localMin)

FeeInv == FeeTypeOK /\ QuoteMade /\ MessageFunded /\ GasPaidFor

\* With installed templates there are both skews.
LEMMA Installed ==
  ASSUME FeeTypeOK, Convertible
  PROVE  /\ localMin \in FeeConfig /\ remoteMin \in FeeConfig
         /\ ValidFeeConfig(localMin) /\ ValidFeeConfig(remoteMin)
         /\ localMin.gasPriceMul \in Nat \ {0} /\ localMin.gasPriceDiv \in Nat \ {0}
         /\ remoteMin.gasPriceMul \in Nat \ {0} /\ remoteMin.gasPriceDiv \in Nat \ {0}
         /\ prices \in PricePair
         /\ prices.local \in Nat \ {0} /\ prices.remote \in Nat \ {0}
<1>1. localMin # Unset /\ remoteMin # Unset
  BY DEF Convertible, Unset
<1>2. /\ localMin \in FeeConfig /\ remoteMin \in FeeConfig
      /\ ValidFeeConfig(localMin) /\ ValidFeeConfig(remoteMin)
  BY <1>1 DEF FeeTypeOK
<1>3. prices \in PricePair
  BY DEF FeeTypeOK, Convertible
<1> QED BY <1>2, <1>3 DEF FeeConfig, ValidFeeConfig, PricePair, Convertible, Priced

\* The gas a leg buys is a number.
LEMMA GasType ==
  ASSUME FeeTypeOK, Convertible, NEW wei \in Nat, NEW g \in Nat \ {0}
  PROVE  CallerGas(wei, g) \in Nat /\ TargetGas(wei, g) \in Nat
<1>1. wei \div g \in Nat
  BY FloorDiv
<1>2. (wei \div g) * prices.local \in Nat
  BY <1>1, Installed, ProductGrows
<1>3. ((wei \div g) * prices.local) \div prices.remote \in Nat
  BY <1>2, Installed, FloorDiv
<1> QED BY <1>1, <1>3, Installed, SkewType DEF CallerGas, TargetGas

LEMMA InitInv == Init => FeeInv
<1> SUFFICES ASSUME Init PROVE FeeInv
  OBVIOUS
<1>1. Unset \in FeeConfig
  BY DEF Unset, FeeConfig
<1>2. FeeTypeOK
  BY <1>1, FeeAssumption DEF Init, FeeTypeOK
<1> QED BY <1>2 DEF Init, FeeInv, QuoteMade, MessageFunded, GasPaidFor

\* What a valid two-way payment buys, and the type of its message.
LEMMA TwoWayFunded ==
  ASSUME FeeTypeOK, NEW size \in Nat, NEW totalFee \in Nat, NEW callbackFee \in Nat,
         NEW txGasPrice \in Nat,
         ValidTwoWayFees(size, totalFee, callbackFee, txGasPrice)
  PROVE  LET g == ReferenceGasPrice(txGasPrice) IN
         /\ g \in Nat \ {0}
         /\ totalFee - callbackFee \in Nat
         /\ Convertible
         /\ CallerGas(callbackFee, g) \in Nat
         /\ TargetGas(totalFee - callbackFee, g) \in Nat
         /\ CallerGas(callbackFee, g) >= ExpectedMinFee(size, localMin)
         /\ TargetGas(totalFee - callbackFee, g) >= ExpectedMinFee(size, remoteMin)
<1>1. /\ callbackFee \in 1 .. totalFee
      /\ Convertible
      /\ CallerGas(callbackFee, ReferenceGasPrice(txGasPrice))
           >= ExpectedMinFee(size, localMin)
      /\ TargetGas(totalFee - callbackFee, ReferenceGasPrice(txGasPrice))
           >= ExpectedMinFee(size, remoteMin)
  BY DEF ValidTwoWayFees
<1>2. totalFee - callbackFee \in Nat
  BY <1>1
<1>3. ReferenceGasPrice(txGasPrice) \in Nat \ {0}
  BY ReferenceType
<1> QED BY <1>1, <1>2, <1>3, GasType

\* A message is well typed, funded and paid for if its legs buy their floors.
LEMMA MessageGood ==
  ASSUME FeeTypeOK, Convertible, NEW size \in Nat,
         NEW targetWei \in Nat, NEW callerWei \in Nat, NEW g \in Nat \ {0},
         NEW callerFee \in Nat,
         callerFee = IF callerWei = 0 THEN 0 ELSE CallerGas(callerWei, g),
         TargetGas(targetWei, g) >= ExpectedMinFee(size, remoteMin),
         callerWei # 0 => callerFee >= ExpectedMinFee(size, localMin),
         message' = Message(size, targetWei, callerWei, g, TargetGas(targetWei, g),
                            callerFee)
  PROVE  message' \in MessageType /\ MessageFunded' /\ GasPaidFor'
<1> DEFINE m == message'
<1>1. TargetGas(targetWei, g) \in Nat
  BY GasType
<1>2. /\ m.size = size /\ m.targetWei = targetWei /\ m.callerWei = callerWei
      /\ m.gasPrice = g /\ m.prices = prices
      /\ m.targetFee = TargetGas(targetWei, g) /\ m.callerFee = callerFee
      /\ m.localMin = localMin /\ m.remoteMin = remoteMin
  BY DEF Message
<1>3. m \in MessageType
  BY <1>1, Installed DEF Message, MessageType
<1>4. MessageFunded'
  BY <1>2, Installed DEF MessageFunded
<1>5. TargetGas(targetWei, g) * remoteMin.gasPriceDiv * prices.remote * g
        <= targetWei * prices.local * remoteMin.gasPriceMul
  BY LegPaidFor, Installed DEF TargetGas, ApplyGasPriceSkew
<1>6. callerFee * localMin.gasPriceDiv * g <= callerWei * localMin.gasPriceMul
  <2> DEFINE d == localMin.gasPriceDiv
             mul == localMin.gasPriceMul
             w == callerWei \div g
             t == (w * mul) \div d
  <2>1. d \in Nat \ {0} /\ mul \in Nat
    BY Installed
  <2>2. CASE callerWei = 0
    <3>1. callerFee = 0
      BY <2>2
    <3> HIDE DEF d, mul
    <3>2. 0 * d * g <= 0 * mul
      BY <2>1, SMT
    <3> QED BY <2>2, <3>1, <3>2 DEF d, mul
  <2>3. CASE callerWei # 0
    <3>1. callerFee = t
      BY <2>3 DEF CallerGas, ApplyGasPriceSkew
    <3> HIDE DEF d, mul
    <3>2. w \in Nat /\ w * g <= callerWei
      BY FloorDiv
    <3> HIDE DEF w
    <3>3. w * mul \in Nat
      BY <2>1, <3>2, ProductGrows
    <3>4. t \in Nat /\ t * d <= w * mul
      BY <2>1, <3>3, FloorDiv
    <3> HIDE DEF t
    <3>5. t * d * g <= w * mul * g
      BY <2>1, <3>2, <3>3, <3>4, ProductGrows, SMT
    <3>6. w * g * mul <= callerWei * mul
      BY <2>1, <3>2, ProductGrows, SMT
    <3>7. t * d * g <= callerWei * mul
      BY <2>1, <3>2, <3>4, <3>5, <3>6, SMT
    <3> QED BY <3>1, <3>7 DEF d, mul
  <2> QED BY <2>2, <2>3
<1>7. GasPaidFor'
  BY <1>2, <1>5, <1>6 DEF GasPaidFor
<1> QED BY <1>3, <1>4, <1>7

\* A quote is made of numbers, by the formula.
LEMMA QuoteGood ==
  ASSUME FeeTypeOK, Convertible, NEW size \in Nat, NEW callbackSize \in Nat,
         NEW targetGas \in Nat, NEW callbackGas \in Nat, NEW gasPrice \in Nat,
         quote' = Quoted(size, callbackSize, targetGas, callbackGas, gasPrice)
  PROVE  quote' \in QuoteType /\ QuoteMade'
<1> DEFINE q == quote'
           targetNeed == ExpectedMinFee(size, remoteMin) + targetGas
           callerNeed == ExpectedMinFee(callbackSize, localMin) + callbackGas
           targetUnits == CeilDiv(targetNeed * remoteMin.gasPriceDiv,
                                  remoteMin.gasPriceMul)
           callerUnits == CeilDiv(callerNeed * localMin.gasPriceDiv,
                                  localMin.gasPriceMul)
           localUnits == CeilDiv(targetUnits * prices.remote, prices.local)
<1>1. /\ q.size = size /\ q.callbackSize = callbackSize
      /\ q.targetGas = targetGas /\ q.callbackGas = callbackGas
      /\ q.gasPrice = gasPrice /\ q.prices = prices
      /\ q.localMin = localMin /\ q.remoteMin = remoteMin
      /\ q.targetWei = localUnits * gasPrice
      /\ q.callerWei = callerUnits * gasPrice
  BY DEF Quoted
<1>2. targetNeed \in Nat /\ callerNeed \in Nat
  BY Installed, FloorType
<1>3. QuoteMade'
  BY <1>1, Installed DEF QuoteMade, Convertible
<1> HIDE DEF targetNeed, callerNeed
<1>4. /\ targetNeed * remoteMin.gasPriceDiv \in Nat
      /\ callerNeed * localMin.gasPriceDiv \in Nat
  BY <1>2, Installed, ProductGrows
<1>5. targetUnits \in Nat /\ callerUnits \in Nat
  BY <1>4, Installed, CeilReaches
<1> HIDE DEF targetUnits, callerUnits
<1>6. localUnits \in Nat
  BY <1>5, Installed, CeilReaches, ProductGrows
<1> HIDE DEF localUnits
<1>7. localUnits * gasPrice \in Nat /\ callerUnits * gasPrice \in Nat
  BY <1>5, <1>6, ProductGrows
<1>8. quote' \in QuoteType
  BY <1>7, Installed
     DEF Quoted, QuoteType, localUnits, targetUnits, callerUnits, targetNeed, callerNeed
<1> QED BY <1>3, <1>8

LEMMA StepInv == FeeInv /\ [Next]_vars => FeeInv'
<1> SUFFICES ASSUME FeeInv, [Next]_vars PROVE FeeInv'
  OBVIOUS
<1> USE DEF FeeInv
<1>1. ASSUME UNCHANGED <<quote, message>>
      PROVE  QuoteMade' /\ MessageFunded' /\ GasPaidFor'
  BY <1>1 DEF QuoteMade, MessageFunded, GasPaidFor
<1>2. ASSUME NEW local \in Template, NEW remote \in Template,
             UpdateMinFeeConfigs(local, remote)
      PROVE  FeeInv'
  <2>1. /\ local \in FeeConfig /\ ValidFeeConfig(local) /\ local # Unset
        /\ remote \in FeeConfig /\ ValidFeeConfig(remote) /\ remote # Unset
    BY <1>2, FeeAssumption DEF UpdateMinFeeConfigs, ValidFeeConfig, Unset
  <2>2. FeeTypeOK'
    BY <1>2, <2>1 DEF UpdateMinFeeConfigs, FeeTypeOK
  <2> QED BY <1>1, <1>2, <2>2 DEF UpdateMinFeeConfigs
<1>3. ASSUME NEW local \in Template, PeerUpdatesMinFeeConfigs(local)
      PROVE  FeeInv'
  <2>1. local \in FeeConfig /\ ValidFeeConfig(local)
    BY <1>3, FeeAssumption DEF PeerUpdatesMinFeeConfigs
  <2>2. FeeTypeOK'
    BY <1>3, <2>1 DEF PeerUpdatesMinFeeConfigs, FeeTypeOK
  <2> QED BY <1>1, <1>3, <2>2 DEF PeerUpdatesMinFeeConfigs
<1>4. ASSUME NEW bounds \in GasPriceBounds, SetGasPriceBounds(bounds)
      PROVE  FeeInv'
  <2>1. bounds \in [priority : Nat, min : Nat \ {0}, max : Nat]
    BY <1>4, FeeAssumption DEF SetGasPriceBounds
  <2>2. FeeTypeOK'
    BY <1>4, <2>1 DEF SetGasPriceBounds, FeeTypeOK
  <2> QED BY <1>1, <1>4, <2>2 DEF SetGasPriceBounds
<1>5. ASSUME NEW pair \in Prices, SetPriceOracle(pair) \/ PricesMove(pair)
      PROVE  FeeInv'
  <2>1. FeeTypeOK'
    BY <1>5, FeeAssumption DEF SetPriceOracle, PricesMove, settings, FeeTypeOK
  <2> QED BY <1>1, <1>5, <2>1 DEF SetPriceOracle, PricesMove
<1>6. ASSUME NEW fee \in GasPrice, NewBlock(fee)
      PROVE  FeeInv'
  <2>1. FeeTypeOK'
    BY <1>6, FeeAssumption DEF NewBlock, settings, FeeTypeOK
  <2> QED BY <1>1, <1>6, <2>1 DEF NewBlock
<1>7. ASSUME NEW size \in Size, NEW callbackSize \in Size,
             NEW targetGas \in ExecutionGas, NEW callbackGas \in ExecutionGas,
             NEW gasPrice \in GasPrice,
             Quote(size, callbackSize, targetGas, callbackGas, gasPrice)
      PROVE  FeeInv'
  <2>1. /\ size \in Nat /\ callbackSize \in Nat /\ gasPrice \in Nat
        /\ targetGas \in Nat /\ callbackGas \in Nat
    BY FeeAssumption
  <2>2. quote' \in QuoteType /\ QuoteMade'
    BY <1>7, <2>1, QuoteGood DEF Quote
  <2>3. FeeTypeOK'
    BY <1>7, <2>2 DEF Quote, settings, FeeTypeOK
  <2> QED BY <1>7, <2>2, <2>3 DEF Quote, MessageFunded, GasPaidFor
<1>8. ASSUME NEW size \in Size, NEW totalFee \in Payment, NEW callbackFee \in Payment,
             NEW txGasPrice \in GasPrice,
             SendTwoWayMessage(size, totalFee, callbackFee, txGasPrice)
      PROVE  FeeInv'
  <2> DEFINE g == ReferenceGasPrice(txGasPrice)
  <2>1. /\ size \in Nat /\ totalFee \in Nat /\ callbackFee \in Nat
        /\ txGasPrice \in Nat
    BY FeeAssumption
  <2>2. /\ ValidTwoWayFees(size, totalFee, callbackFee, txGasPrice)
        /\ message' = Message(size, totalFee - callbackFee, callbackFee, g,
                              TargetGas(totalFee - callbackFee, g),
                              CallerGas(callbackFee, g))
        /\ prices' \in RefreshedPrices
        /\ quote' = NoQuote
        /\ UNCHANGED <<settings, baseFee>>
    BY <1>8 DEF SendTwoWayMessage
  <2>3. callbackFee # 0
    BY <2>1, <2>2 DEF ValidTwoWayFees
  <2>4. message' \in MessageType /\ MessageFunded' /\ GasPaidFor'
    <3>1. /\ g \in Nat \ {0} /\ totalFee - callbackFee \in Nat /\ Convertible
          /\ CallerGas(callbackFee, g) \in Nat
          /\ CallerGas(callbackFee, g) >= ExpectedMinFee(size, localMin)
          /\ TargetGas(totalFee - callbackFee, g) >= ExpectedMinFee(size, remoteMin)
      BY <2>1, <2>2, TwoWayFunded
    <3> HIDE DEF g
    <3> QED BY <2>1, <2>2, <2>3, <3>1, MessageGood
  <2>5. FeeTypeOK'
    BY <2>2, <2>4, FeeAssumption DEF RefreshedPrices, settings, FeeTypeOK
  <2> QED BY <2>2, <2>4, <2>5 DEF QuoteMade
<1>9. ASSUME NEW size \in Size, NEW totalFee \in Payment, NEW txGasPrice \in GasPrice,
             SendOneWayMessage(size, totalFee, txGasPrice)
      PROVE  FeeInv'
  <2> DEFINE g == ReferenceGasPrice(txGasPrice)
  <2>1. size \in Nat /\ totalFee \in Nat /\ g \in Nat \ {0}
    BY FeeAssumption, ReferenceType
  <2>2. /\ Convertible
        /\ TargetGas(totalFee, g) >= ExpectedMinFee(size, remoteMin)
        /\ message' = Message(size, totalFee, 0, g, TargetGas(totalFee, g), 0)
        /\ prices' \in RefreshedPrices
        /\ quote' = NoQuote
        /\ UNCHANGED <<settings, baseFee>>
    BY <1>9 DEF SendOneWayMessage, ValidOneWayFees
  <2> HIDE DEF g
  <2>3. message' \in MessageType /\ MessageFunded' /\ GasPaidFor'
    BY <2>1, <2>2, MessageGood
  <2>4. FeeTypeOK'
    BY <2>2, <2>3, FeeAssumption DEF RefreshedPrices, settings, FeeTypeOK
  <2> QED BY <2>2, <2>3, <2>4 DEF QuoteMade
<1>10. CASE UNCHANGED vars
  <2>1. FeeTypeOK'
    BY <1>10 DEF vars, settings, FeeTypeOK
  <2> QED BY <1>1, <1>10, <2>1 DEF vars
<1> QED BY <1>2, <1>3, <1>4, <1>5, <1>6, <1>7, <1>8, <1>9, <1>10 DEF Next

-----------------------------------------------------------------------------
(* Theorems.                                                               *)

LEMMA FeeInvHolds == Spec => []FeeInv
  BY InitInv, StepInv, PTL DEF Spec

\* Every variable keeps its type: only valid templates and bounds are ever
\* installed, and no conversion or quote leaves the numbers.
THEOREM FeeTypeCorrect == Spec => []FeeTypeOK
<1>1. FeeInv => FeeTypeOK
  BY DEF FeeInv
<1> QED BY <1>1, FeeInvHolds, PTL

\* No message ever got more gas than its wei paid for at the prices and gas
\* price of its send, for any templates, prices and payments.
THEOREM GasIsPaidFor == Spec => []GasPaidFor
<1>1. FeeInv => GasPaidFor
  BY DEF FeeInv
<1> QED BY <1>1, FeeInvHolds, PTL

\* Every message sent leaves its call, and the callback of a two-way message
\* its own, the gas the template it was priced with promises.
THEOREM MessagesCanRun == Spec => []MessageCanRun
<1>1. FeeInv => MessageCanRun
  <2> SUFFICES ASSUME FeeInv, message # NoMessage
               PROVE  /\ message.targetFee > 0
                      /\ message.callerWei # 0 => message.callerFee > 0
                      /\ peerMin = message.remoteMin =>
                           CoversCall(message.targetFee, message.size, peerMin)
                      /\ localMin = message.localMin /\ message.callerWei # 0 =>
                           CoversCall(message.callerFee, message.size, localMin)
    BY DEF MessageCanRun
  <2>1. message \in MessageType
    BY DEF FeeInv, FeeTypeOK
  <2>2. /\ message.size \in Nat /\ message.targetFee \in Nat
        /\ message.callerFee \in Nat
        /\ message.localMin \in FeeConfig /\ message.remoteMin \in FeeConfig
    BY <2>1 DEF MessageType
  <2>3. /\ ValidFeeConfig(message.localMin) /\ ValidFeeConfig(message.remoteMin)
        /\ message.targetFee >= ExpectedMinFee(message.size, message.remoteMin)
        /\ message.callerWei # 0 =>
             message.callerFee >= ExpectedMinFee(message.size, message.localMin)
    BY DEF FeeInv, MessageFunded
  <2>4. /\ ExpectedMinFee(message.size, message.remoteMin) > 0
        /\ ExpectedMinFee(message.size, message.remoteMin) \in Nat
        /\ ExpectedMinFee(message.size, message.localMin) > 0
        /\ ExpectedMinFee(message.size, message.localMin) \in Nat
    BY <2>2, <2>3, FloorPositive, FloorType
  <2>5. message.targetFee > 0 /\ (message.callerWei # 0 => message.callerFee > 0)
    BY <2>2, <2>3, <2>4
  <2> QED BY <2>2, <2>3, <2>5, FloorCovers
<1> QED BY <1>1, FeeInvHolds, PTL

\* A quote is honoured, for any templates, sizes, gas prices and oracle
\* prices: as long as the market has not moved against it, submitting it
\* passes validation and buys both legs what the quote was asked for.
THEOREM QuotesAreHonoured == Spec => []QuoteHonoured
<1>1. ASSUME FeeInv, quote # NoQuote, NEW size \in Size, NEW txGasPrice \in GasPrice,
             QuoteHolds(quote, size, ReferenceGasPrice(txGasPrice))
      PROVE  LET g == ReferenceGasPrice(txGasPrice) IN
             /\ ValidTwoWayFees(size, quote.targetWei + quote.callerWei,
                                quote.callerWei, txGasPrice)
             /\ TargetGas(quote.targetWei, g)
                  >= ExpectedMinFee(quote.size, remoteMin) + quote.targetGas
             /\ CallerGas(quote.callerWei, g)
                  >= ExpectedMinFee(quote.callbackSize, localMin) + quote.callbackGas
  <2> DEFINE g == ReferenceGasPrice(txGasPrice)
             targetNeed == ExpectedMinFee(quote.size, remoteMin) + quote.targetGas
             callerNeed == ExpectedMinFee(quote.callbackSize, localMin)
                             + quote.callbackGas
  <2>1. FeeTypeOK /\ QuoteMade
    BY <1>1 DEF FeeInv
  <2>2. /\ size \in Nat /\ txGasPrice \in Nat /\ g \in Nat \ {0}
    BY <2>1, FeeAssumption, ReferenceType
  <2>3. quote \in QuoteType
    BY <1>1, <2>1 DEF FeeTypeOK
  <2>4. /\ quote.size \in Nat /\ quote.callbackSize \in Nat
        /\ quote.targetGas \in Nat /\ quote.callbackGas \in Nat
        /\ quote.gasPrice \in Nat
        /\ quote.targetWei \in Nat /\ quote.callerWei \in Nat
        /\ quote.prices.local \in Nat /\ quote.prices.remote \in Nat
    BY <2>3 DEF QuoteType, PricePair
  <2>5. /\ localMin = quote.localMin /\ remoteMin = quote.remoteMin
        /\ Convertible
        /\ prices.local * quote.prices.remote >= quote.prices.local * prices.remote
        /\ g <= quote.gasPrice
        /\ size <= quote.size /\ size <= quote.callbackSize
    BY <1>1 DEF QuoteHolds
  <2>6. /\ targetNeed \in Nat /\ callerNeed \in Nat
        /\ ExpectedMinFee(size, remoteMin) \in Nat
        /\ ExpectedMinFee(size, localMin) \in Nat
        /\ ExpectedMinFee(size, remoteMin) <= targetNeed
        /\ ExpectedMinFee(size, localMin) <= callerNeed
    <3>1. localMin \in FeeConfig /\ remoteMin \in FeeConfig
      BY <2>1, <2>5, Installed
    <3>2. /\ ExpectedMinFee(size, remoteMin) \in Nat
          /\ ExpectedMinFee(size, localMin) \in Nat
          /\ ExpectedMinFee(quote.size, remoteMin) \in Nat
          /\ ExpectedMinFee(quote.callbackSize, localMin) \in Nat
      BY <2>2, <2>4, <3>1, FloorType
    <3>3. /\ ExpectedMinFee(size, remoteMin) <= ExpectedMinFee(quote.size, remoteMin)
          /\ ExpectedMinFee(size, localMin)
               <= ExpectedMinFee(quote.callbackSize, localMin)
      BY <2>2, <2>4, <2>5, <3>1, FloorGrows
    <3> QED BY <2>4, <3>2, <3>3
  <2>7. /\ Priced(quote.prices)
        /\ quote.targetWei =
             CeilDiv(CeilDiv(targetNeed * remoteMin.gasPriceDiv, remoteMin.gasPriceMul)
                       * quote.prices.remote, quote.prices.local) * quote.gasPrice
        /\ quote.callerWei =
             CeilDiv(callerNeed * localMin.gasPriceDiv, localMin.gasPriceMul)
               * quote.gasPrice
    BY <1>1, <2>1, <2>5 DEF QuoteMade
  <2> HIDE DEF g, targetNeed, callerNeed
  <2>8. TargetGas(quote.targetWei, g) >= targetNeed
    <3> DEFINE mul == remoteMin.gasPriceMul
               d == remoteMin.gasPriceDiv
               ql == quote.prices.local
               qr == quote.prices.remote
               l == prices.local
               r == prices.remote
               qg == quote.gasPrice
    <3>1. /\ targetNeed \in Nat /\ mul \in Nat \ {0} /\ d \in Nat \ {0}
          /\ ql \in Nat \ {0} /\ qr \in Nat /\ l \in Nat /\ r \in Nat \ {0}
          /\ qg \in Nat /\ g \in Nat \ {0} /\ g <= qg /\ l * qr >= ql * r
      BY <2>1, <2>2, <2>4, <2>5, <2>6, <2>7, Installed DEF Priced
    <3>2. TargetGas(quote.targetWei, g)
            = (((((CeilDiv(CeilDiv(targetNeed * d, mul) * qr, ql) * qg) \div g) * l)
                  \div r) * mul) \div d
      BY <2>7 DEF TargetGas, ApplyGasPriceSkew
    <3> HIDE DEF mul, d, ql, qr, l, r, qg
    <3>3. (((((CeilDiv(CeilDiv(targetNeed * d, mul) * qr, ql) * qg) \div g) * l)
             \div r) * mul) \div d >= targetNeed
      BY <3>1, LegBuysQuoted
    <3> QED BY <3>2, <3>3, Zenon
  <2>9. CallerGas(quote.callerWei, g) >= callerNeed
    BY <2>1, <2>2, <2>4, <2>5, <2>6, <2>7, Installed, CallerLegBuysQuoted
       DEF CallerGas, ApplyGasPriceSkew
  <2>10. /\ TargetGas(quote.targetWei, g) >= ExpectedMinFee(size, remoteMin)
         /\ CallerGas(quote.callerWei, g) >= ExpectedMinFee(size, localMin)
    <3>1. TargetGas(quote.targetWei, g) \in Nat /\ CallerGas(quote.callerWei, g) \in Nat
      BY <2>1, <2>2, <2>4, <2>5, GasType
    <3> QED BY <2>6, <2>8, <2>9, <3>1
  <2>11. quote.callerWei # 0
    <3>1. ExpectedMinFee(size, localMin) > 0
      BY <2>1, <2>2, <2>5, Installed, FloorPositive
    <3>2. quote.callerWei = 0 => CallerGas(quote.callerWei, g) = 0
      BY <2>1, <2>2, <2>5, Installed, NothingBuysNothing
         DEF CallerGas, ApplyGasPriceSkew
    <3> QED BY <2>6, <2>10, <3>1, <3>2
  <2>12. /\ quote.callerWei \in 1 .. quote.targetWei + quote.callerWei
         /\ (quote.targetWei + quote.callerWei) - quote.callerWei = quote.targetWei
    BY <2>4, <2>11
  <2>13. ValidTwoWayFees(size, quote.targetWei + quote.callerWei, quote.callerWei,
                         txGasPrice)
    BY <2>5, <2>10, <2>12 DEF ValidTwoWayFees, g
  <2> QED BY <2>8, <2>9, <2>13 DEF g, targetNeed, callerNeed
<1>2. FeeInv => QuoteHonoured
  BY <1>1 DEF QuoteHonoured
<1> QED BY <1>2, FeeInvHolds, PTL

-----------------------------------------------------------------------------
(* The templates the deployment scripts ship, in the fee arithmetic of the *)
(* inbox that gets them: what sends they leave room for between the least  *)
(* gas a leg must buy and the most it may.                                 *)

Tables == INSTANCE DeployTables

\* c has the fields of a shipped template, at any gas price multiplier.
InstalledAs(c, template) ==
  /\ c.constantFee = template.constantFee
  /\ c.gasPerByte = template.gasPerByte
  /\ c.callbackExecutionGas = template.callbackExecutionGas
  /\ c.errorLength = template.errorLength
  /\ c.bufferRatioX10000 = template.bufferRatioX10000
  /\ c.maxExecutionGas = template.maxExecutionGas

Variable(c) == InstalledAs(c, Tables!FEE_CONFIG_SEPOLIA_SIDE)
Constant(c) == InstalledAs(c, Tables!FEE_CONFIG_COTI_SIDE)

\* The longest method call whose floor under the shipped variable template is
\* not above the template's cap; maxMethodCallBytes is more than twice that.
LongestPriced == 3785

-----------------------------------------------------------------------------
LEMMA VariableFields ==
  ASSUME NEW c, Variable(c)
  PROVE  /\ c.constantFee = 0 /\ c.gasPerByte = 800
         /\ c.callbackExecutionGas = 100000 /\ c.errorLength = 256
         /\ c.bufferRatioX10000 = 5000 /\ c.maxExecutionGas = 5000000
  BY SMT DEF Variable, InstalledAs, Tables!FEE_CONFIG_SEPOLIA_SIDE,
     Tables!MEASURED_INGEST_GAS_PER_BYTE, Tables!MAX_ERROR_RETURN_DATA_BYTES

LEMMA ConstantFields ==
  ASSUME NEW c, Constant(c)
  PROVE  c.constantFee = 25000000 /\ c.maxExecutionGas = 25000000
  BY SMT DEF Constant, InstalledAs, Tables!FEE_CONFIG_COTI_SIDE,
     Tables!PROTOCOL_MAX_EXECUTION_GAS

\* Past the length the floor is above the cap.
LEMMA FloorAboveCap ==
  ASSUME NEW c, Variable(c), NEW size \in Nat, size > LongestPriced
  PROVE  ExpectedMinFee(size, c) > c.maxExecutionGas
<1> DEFINE n == size * 800 + 100000 + 256 * 800
<1>1. n \in Nat /\ n * 15000 >= 5000001 * 10000
  BY SMT DEF LongestPriced
<1> HIDE DEF n
<1>2. n * 15000 \in Nat
  BY <1>1, SMT
<1>3. (n * 15000) \div 10000 >= 5000001
  BY <1>1, <1>2, SMT
<1>4. ExpectedMinFee(size, c) = (n * (10000 + 5000)) \div 10000
  BY VariableFields, SMT DEF ExpectedMinFee, ErrorBuffer, n
<1>5. 10000 + 5000 = 15000
  BY SMT
<1>6. ExpectedMinFee(size, c) >= 5000001
  BY <1>3, <1>4, <1>5
<1>7. c.maxExecutionGas = 5000000
  BY VariableFields
<1>8. ExpectedMinFee(size, c) \in Int
  BY <1>2, <1>4, <1>5, SMT
<1> QED BY <1>6, <1>7, <1>8, SMT

\* A leg that was accepted bought no less than its floor and no more than its cap.
LEMMA LegsInRange ==
  ASSUME FeeTypeOK, NEW size \in Nat, NEW totalFee \in Nat, NEW callbackFee \in Nat,
         NEW txGasPrice \in Nat, SendTwoWayMessage(size, totalFee, callbackFee, txGasPrice)
  PROVE  \E targetFee, callerFee \in Nat :
           /\ targetFee = TargetGas(totalFee - callbackFee, ReferenceGasPrice(txGasPrice))
           /\ callerFee = CallerGas(callbackFee, ReferenceGasPrice(txGasPrice))
           /\ ExpectedMinFee(size, remoteMin) <= targetFee
           /\ targetFee <= remoteMin.maxExecutionGas
           /\ ExpectedMinFee(size, localMin) <= callerFee
           /\ callerFee <= localMin.maxExecutionGas
<1> DEFINE g == ReferenceGasPrice(txGasPrice)
           targetFee == TargetGas(totalFee - callbackFee, g)
           callerFee == CallerGas(callbackFee, g)
<1>1. ValidTwoWayFees(size, totalFee, callbackFee, txGasPrice)
  BY DEF SendTwoWayMessage
<1>2. WithinGasCaps(targetFee, callerFee)
  BY DEF SendTwoWayMessage
<1>3. /\ targetFee \in Nat /\ callerFee \in Nat
      /\ callerFee >= ExpectedMinFee(size, localMin)
      /\ targetFee >= ExpectedMinFee(size, remoteMin)
  BY <1>1, TwoWayFunded
<1>4. localMin \in FeeConfig /\ remoteMin \in FeeConfig
  BY DEF FeeTypeOK
<1>5. /\ ExpectedMinFee(size, localMin) \in Nat /\ ExpectedMinFee(size, remoteMin) \in Nat
      /\ localMin.maxExecutionGas \in Nat /\ remoteMin.maxExecutionGas \in Nat
  BY <1>4, FloorType DEF FeeConfig
<1>6. /\ ExpectedMinFee(size, remoteMin) <= targetFee
      /\ ExpectedMinFee(size, localMin) <= callerFee
  BY <1>3, <1>5
<1> HIDE DEF targetFee, callerFee
<1>7. targetFee <= remoteMin.maxExecutionGas /\ callerFee <= localMin.maxExecutionGas
  BY <1>2 DEF WithinGasCaps
<1> QED BY <1>3, <1>6, <1>7 DEF targetFee, callerFee, g

\* What the shipped templates say of a two-way send: its call is no longer than
\* LongestPriced if either leg has the variable template, and a leg with the
\* constant one buys one amount of gas exactly.
ShippedRange(size, totalFee, callbackFee, txGasPrice) ==
  SendTwoWayMessage(size, totalFee, callbackFee, txGasPrice) =>
    LET g == ReferenceGasPrice(txGasPrice) IN
    /\ Variable(localMin) \/ Variable(remoteMin) => size <= LongestPriced
    /\ Constant(localMin) => CallerGas(callbackFee, g) = 25000000
    /\ Constant(remoteMin) => TargetGas(totalFee - callbackFee, g) = 25000000

LEMMA SendsInRange ==
  ASSUME FeeTypeOK, NEW size \in Nat, NEW totalFee \in Nat, NEW callbackFee \in Nat,
         NEW txGasPrice \in Nat
  PROVE  ShippedRange(size, totalFee, callbackFee, txGasPrice)
<1> SUFFICES ASSUME SendTwoWayMessage(size, totalFee, callbackFee, txGasPrice)
             PROVE  LET g == ReferenceGasPrice(txGasPrice) IN
                    /\ Variable(localMin) \/ Variable(remoteMin) => size <= LongestPriced
                    /\ Constant(localMin) => CallerGas(callbackFee, g) = 25000000
                    /\ Constant(remoteMin) =>
                         TargetGas(totalFee - callbackFee, g) = 25000000
  BY DEF ShippedRange
<1>1. PICK targetFee \in Nat, callerFee \in Nat :
        /\ targetFee = TargetGas(totalFee - callbackFee, ReferenceGasPrice(txGasPrice))
        /\ callerFee = CallerGas(callbackFee, ReferenceGasPrice(txGasPrice))
        /\ ExpectedMinFee(size, remoteMin) <= targetFee
        /\ targetFee <= remoteMin.maxExecutionGas
        /\ ExpectedMinFee(size, localMin) <= callerFee
        /\ callerFee <= localMin.maxExecutionGas
  BY LegsInRange
<1>2. ASSUME NEW c \in {localMin, remoteMin}, NEW fee \in Nat,
             ExpectedMinFee(size, c) <= fee, fee <= c.maxExecutionGas
      PROVE  /\ Variable(c) => size <= LongestPriced
             /\ Constant(c) => fee = 25000000
  <2>1. c \in FeeConfig
    BY DEF FeeTypeOK
  <2>2. ExpectedMinFee(size, c) \in Nat /\ c.maxExecutionGas \in Nat
    BY <2>1, FloorType DEF FeeConfig
  <2>3. ASSUME Variable(c), size > LongestPriced PROVE FALSE
    BY <1>2, <2>2, <2>3, FloorAboveCap, SMT
  <2>4. ASSUME Constant(c) PROVE fee = 25000000
    <3>1. c.constantFee = 25000000 /\ c.maxExecutionGas = 25000000
      BY <2>4, ConstantFields
    <3>2. ExpectedMinFee(size, c) = 25000000
      BY <3>1, SMT DEF ExpectedMinFee
    <3> QED BY <1>2, <3>1, <3>2, SMT
  <2>5. LongestPriced \in Nat
    BY SMT DEF LongestPriced
  <2> QED BY <2>3, <2>4, <2>5, SMT
<1>3. /\ Variable(localMin) => size <= LongestPriced
      /\ Constant(localMin) => callerFee = 25000000
  BY <1>1, <1>2
<1>4. /\ Variable(remoteMin) => size <= LongestPriced
      /\ Constant(remoteMin) => targetFee = 25000000
  BY <1>1, <1>2
<1> QED BY <1>1, <1>3, <1>4

\* With the templates the scripts ship no payment is good for a two-way message
\* whose method call is longer than LongestPriced, though the caps they install
\* admit DEFAULT_MAX_METHOD_CALL_BYTES; a leg to or from COTI buys exactly 25M
\* gas or is refused.  So for any gas price, prices, multipliers and payments.
THEOREM ShippedTemplatesInRange ==
  Spec => [][\A size, totalFee, callbackFee, txGasPrice \in Nat :
               ShippedRange(size, totalFee, callbackFee, txGasPrice)]_vars
<1>1. FeeTypeOK =>
        \A size, totalFee, callbackFee, txGasPrice \in Nat :
          ShippedRange(size, totalFee, callbackFee, txGasPrice)
  BY SendsInRange
<1> QED BY <1>1, FeeTypeCorrect, PTL

=============================================================================
