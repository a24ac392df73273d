---------------------------- MODULE MCFeeManager ----------------------------
(* Fee templates, prices and bounds for TLC, with small numbers.            *)
EXTENDS FeeManager

Variable(mul, div) ==
  [constantFee |-> 0, gasPerByte |-> 1, callbackExecutionGas |-> 1,
   errorLength |-> 2, bufferRatioX10000 |-> 5000, maxMethodCallBytes |-> 4,
   maxExecutionGas |-> 9, gasPriceMul |-> mul, gasPriceDiv |-> div]

Constant(fee, cap, mul, div) ==
  [Unset EXCEPT !.constantFee = fee, !.maxMethodCallBytes = 4,
                !.maxExecutionGas = cap, !.gasPriceMul = mul, !.gasPriceDiv = div]

\* The two modes, with skews up and down, and a template that is refused.
MCTemplate == {Variable(2, 3), Constant(3, 9, 3, 2), Constant(9, 3, 1, 1)}

MCBounds == {[priority |-> p, min |-> 1, max |-> x] : p \in 0 .. 1, x \in {0, 2}}
              \cup {[priority |-> 0, min |-> 0, max |-> 2],
                    [priority |-> 0, min |-> 2, max |-> 1]}

MCPrices == [local : {1, 3}, remote : {0, 2}]

=============================================================================
