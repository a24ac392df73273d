---------------------------- MODULE DeployTables ----------------------------
(***************************************************************************)
(* What the deployment scripts know of each network: the tokens and prices *)
(* of the two legs of its oracle, its data feeds, and its fee templates.   *)
(* A price is the asset it is a price of; a chain is its Hardhat name.     *)
(***************************************************************************)
EXTENDS Integers

Leg == {"local", "remote"}

CotiTestnet == "cotiTestnet"
SourceTestnets == {"sepolia", "avalancheFuji", "localhost"}
Testnets == SourceTestnets \cup {CotiTestnet}

NoPrice == "none"

-----------------------------------------------------------------------------
(* Oracle legs.                                                            *)

\* Mutant: COTI's legs in the order of the source chains.
OracleUsdPricesSwapped(c) ==
  [local |-> IF c = "avalancheFuji" THEN "AVAX" ELSE "ETH", remote |-> "COTI"]

\* One price per leg; the scripts throw on any other chain.
OracleUsdPricesForChain(c) ==
  CASE c \in {"sepolia", "localhost"} -> [local |-> "ETH", remote |-> "COTI"]
    [] c = "avalancheFuji"            -> [local |-> "AVAX", remote |-> "COTI"]
    [] c = CotiTestnet                -> [local |-> "COTI", remote |-> "ETH"]

\* The token a chain pays gas in.
NativeToken(c) ==
  CASE c \in {"sepolia", "localhost"} -> "ETH"
    [] c = "avalancheFuji"            -> "AVAX"
    [] c = CotiTestnet                -> "COTI"

\* Legs with a data feed.
FeedLegs(c) ==
  IF c \in {"localhost", CotiTestnet} THEN {} ELSE {"local"}

\* Legs the deployer prices by hand.
ManualLegs(c) ==
  IF c \in {"localhost", CotiTestnet} THEN Leg ELSE {"remote"}

\* Chains whose portal takes USDC.
HasUsdc(c) == c # CotiTestnet

-----------------------------------------------------------------------------
(* Fee templates.  Multiplier and divisor of the gas price are 1 unless    *)
(* deployConfig.json says otherwise.                                       *)

MAX_ERROR_RETURN_DATA_BYTES == 256
DEFAULT_MAX_METHOD_CALL_BYTES == 8192
MEASURED_INGEST_GAS_PER_BYTE == 800
CONSTANT_FEE_PRICED_EXECUTION_GAS == 12000000
PROTOCOL_MAX_METHOD_CALL_BYTES == 32768
PROTOCOL_MAX_EXECUTION_GAS == 25000000

FeeConfigTuple ==
  [constantFee : Nat, gasPerByte : Nat, callbackExecutionGas : Nat,
   errorLength : Nat, bufferRatioX10000 : Nat, maxMethodCallBytes : Nat,
   maxExecutionGas : Nat]

FEE_CONFIG_SEPOLIA_SIDE ==
  [constantFee |-> 0, gasPerByte |-> MEASURED_INGEST_GAS_PER_BYTE,
   callbackExecutionGas |-> 100000, errorLength |-> MAX_ERROR_RETURN_DATA_BYTES,
   bufferRatioX10000 |-> 5000, maxMethodCallBytes |-> DEFAULT_MAX_METHOD_CALL_BYTES,
   maxExecutionGas |-> 5000000]

FEE_CONFIG_COTI_SIDE ==
  [constantFee |-> PROTOCOL_MAX_EXECUTION_GAS, gasPerByte |-> 0,
   callbackExecutionGas |-> 0, errorLength |-> 0,
   bufferRatioX10000 |-> 0, maxMethodCallBytes |-> DEFAULT_MAX_METHOD_CALL_BYTES,
   maxExecutionGas |-> PROTOCOL_MAX_EXECUTION_GAS]

\* A message of the greatest size, stored and run.
ConstantFeeWorstCaseFloor(maxMethodCallBytes) ==
  CONSTANT_FEE_PRICED_EXECUTION_GAS + maxMethodCallBytes * MEASURED_INGEST_GAS_PER_BYTE

AssertConstantFeeCoversWorstCase(fee) ==
  fee.constantFee # 0 =>
    fee.constantFee >= ConstantFeeWorstCaseFloor(fee.maxMethodCallBytes)

AssertErrorLengthWithinReturnDataCap(fee) ==
  fee.constantFee = 0 => fee.errorLength <= MAX_ERROR_RETURN_DATA_BYTES

\* What the inbox accepts as a template.
RequireValidFeeConfig(fee) ==
  /\ fee.maxMethodCallBytes \in 1 .. PROTOCOL_MAX_METHOD_CALL_BYTES
  /\ fee.maxExecutionGas \in 1 .. PROTOCOL_MAX_EXECUTION_GAS
  /\ fee.constantFee <= fee.maxExecutionGas
  /\ fee.constantFee = 0 =>
       /\ fee.gasPerByte # 0 /\ fee.callbackExecutionGas # 0
       /\ fee.errorLength # 0 /\ fee.bufferRatioX10000 # 0

FeePair == [local : FeeConfigTuple, remote : FeeConfigTuple]

TestnetMinFeeConfigsForChain(c) ==
  IF c = CotiTestnet
  THEN [local |-> FEE_CONFIG_COTI_SIDE, remote |-> FEE_CONFIG_SEPOLIA_SIDE]
  ELSE [local |-> FEE_CONFIG_SEPOLIA_SIDE, remote |-> FEE_CONFIG_COTI_SIDE]

\* Mutant: a configured pair goes out as it is.
ReadFeeConfigUnchecked(c, entry) ==
  IF entry = {} THEN {TestnetMinFeeConfigsForChain(c)} ELSE entry

\* The pair in the file, if it has both templates and their numbers parse, else
\* the one in code; none if it fails a check.
ReadFeeConfigForChain(c, entry) ==
  {pair \in IF entry = {} THEN {TestnetMinFeeConfigsForChain(c)} ELSE entry :
     \A leg \in Leg : /\ AssertConstantFeeCoversWorstCase(pair[leg])
                      /\ AssertErrorLengthWithinReturnDataCap(pair[leg])}

=============================================================================
