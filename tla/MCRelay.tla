------------------------------ MODULE MCRelay ------------------------------
(* A relay of chain 1's requests for TLC: three requests, one of them after *)
(* an answer, against other miners, a pause or a crash.                     *)
EXTENDS Relay

MCSourceOf == [r \in Relay |-> 1]
MCTargetFee == <<25000000, 0, 5000000>>
MCOverhead == {0, 1000000, 3800000}
MCMaxSent == <<3, 1>>

=============================================================================
