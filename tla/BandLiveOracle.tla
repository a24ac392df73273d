--------------------------- MODULE BandLiveOracle ---------------------------
(***************************************************************************)
(* The adapter of PoDPriceOracle that reads Band: symbol pairs of one      *)
(* reference contract, one by one for the inbox cache, two in one call for *)
(* the portal.  Band's data is updated, ages, breaks and comes back; the   *)
(* owner rewires the adapter.                                              *)
(*                                                                         *)
(* A time stamp is kept as its age, a negative one for a stamp in the      *)
(* future, counted up to MaxAge, beyond every limit in use.  An answer is  *)
(* a price, 0 for none, or Reverts.  readPriceWithMeta is the single read  *)
(* again, with the stamp, and is left out.                                 *)
(***************************************************************************)
EXTENDS Integers

CONSTANTS
  Token,        \* tokens with or without a feed
  Base, Quote,  \* symbols, by their place in a pair
  Usdc,         \* BAND_QUOTE_USDC
  StdRef,       \* addresses the owner may take for Band's contract
  Deployed,     \* addresses that have Band's code
  None,         \* address(0), and the empty symbol
  Price,        \* USD prices
  Limit,        \* staleness limits, 0 for none
  Future,       \* how far ahead of the block a stamp may be
  MaxAge,
  Broken,       \* state of a base whose read reverts
  Reverts

Age == - Future .. MaxAge
Fresh == - Future .. 0
Rate == [price : Price \cup {0}, age : Age]

ASSUME BandAssumption ==
  /\ Usdc \in Quote
  /\ None \notin Base \cup Quote \cup StdRef
  /\ Price \subseteq Nat \ {0}
  /\ Reverts \notin Nat
  /\ Future \in Nat /\ MaxAge \in Nat
  /\ Limit \subseteq 0 .. MaxAge - 1
  /\ Broken \notin Rate

VARIABLES
  bandStdRef,
  maxStaleness,
  feeds,        \* base and quote per token
  rates,        \* Band's rate and stamp per base, or Broken
  quoteAge      \* Band's stamp per quote

vars == <<bandStdRef, maxStaleness, feeds, rates, quoteAge>>

-----------------------------------------------------------------------------
(* Reads.                                                                  *)

\* Stamps too old, and stamps in the future, if there is a limit.
TooOld(age) == maxStaleness # 0 /\ (age < 0 \/ age > maxStaleness)

\* Mutant: the newer stamp of the pair.
UpdatedAtNewer(pair) ==
  LET ages == {rates[pair.base].age, quoteAge[pair.quote]}
  IN CHOOSE age \in ages : \A other \in ages : age <= other

\* The older stamp of the pair.
UpdatedAt(pair) ==
  LET ages == {rates[pair.base].age, quoteAge[pair.quote]}
  IN CHOOSE age \in ages : \A other \in ages : other <= age

\* The price in a pair's data, 0 if it is too old.
ValidateBandData(pair) ==
  IF TooOld(UpdatedAt(pair)) THEN 0 ELSE rates[pair.base].price

\* One pair.  Solidity's try catches what the call does, but not a missing
\* contract, whose empty answer does not decode.
TryReadPrice(pair) ==
  CASE None \in {bandStdRef, pair.base, pair.quote} -> 0
    [] OTHER -> IF bandStdRef \notin Deployed THEN Reverts
                ELSE IF rates[pair.base] = Broken THEN 0
                ELSE ValidateBandData(pair)

\* Two bases against one quote in one call, which fails as a whole.
TryReadPriceBulk(baseA, baseB, quote) ==
  CASE None \in {bandStdRef, quote} -> <<0, 0>>
    [] OTHER -> IF bandStdRef \notin Deployed THEN <<Reverts, Reverts>>
                ELSE IF Broken \in {rates[baseA], rates[baseB]} THEN <<0, 0>>
                ELSE <<ValidateBandData([base |-> baseA, quote |-> quote]),
                       ValidateBandData([base |-> baseB, quote |-> quote])>>

\* Mutant: the quotes are not compared.
CanBulkReadAnyQuote(a, b) == None \notin {a.base, b.base}

CanBulkRead(a, b) == None \notin {a.base, b.base} /\ a.quote = b.quote

GetLivePrice(t) == TryReadPrice(feeds[t])

GetLivePrices(a, b) ==
  IF CanBulkRead(feeds[a], feeds[b])
  THEN TryReadPriceBulk(feeds[a].base, feeds[b].base, feeds[a].quote)
  ELSE <<GetLivePrice(a), GetLivePrice(b)>>

-----------------------------------------------------------------------------
Init ==
  /\ bandStdRef \in StdRef \cup {None}
  /\ maxStaleness \in Limit
  /\ feeds = [t \in Token |-> [base |-> None, quote |-> None]]
  /\ rates = [b \in Base |-> Broken]
  /\ quoteAge = [q \in Quote |-> MaxAge]

SetBandStdRef(ref) ==
  /\ bandStdRef' = ref
  /\ UNCHANGED <<maxStaleness, feeds, rates, quoteAge>>

SetMaxStaleness(seconds) ==
  /\ maxStaleness' = seconds
  /\ UNCHANGED <<bandStdRef, feeds, rates, quoteAge>>

SetFeed(t, base, quote) ==
  /\ feeds' = [feeds EXCEPT ![t] =
                 [base |-> base, quote |-> IF quote = None THEN Usdc ELSE quote]]
  /\ UNCHANGED <<bandStdRef, maxStaleness, rates, quoteAge>>

\* Band's validators report a base, or Band drops it.
RateMoves(b, rate) ==
  /\ rates' = [rates EXCEPT ![b] = rate]
  /\ UNCHANGED <<bandStdRef, maxStaleness, feeds, quoteAge>>

QuoteMoves(q, age) ==
  /\ quoteAge' = [quoteAge EXCEPT ![q] = age]
  /\ UNCHANGED <<bandStdRef, maxStaleness, feeds, rates>>

Later(age) == IF age < MaxAge THEN age + 1 ELSE age

Tick ==
  /\ rates' = [b \in Base |-> IF rates[b] = Broken THEN Broken
                              ELSE [rates[b] EXCEPT !.age = Later(@)]]
  /\ quoteAge' = [q \in Quote |-> Later(quoteAge[q])]
  /\ UNCHANGED <<bandStdRef, maxStaleness, feeds>>

Next ==
  \/ \E ref \in StdRef \cup {None} : SetBandStdRef(ref)
  \/ \E seconds \in Limit : SetMaxStaleness(seconds)
  \/ \E t \in Token, base \in Base \cup {None}, quote \in Quote \cup {None} :
       SetFeed(t, base, quote)
  \/ \E b \in Base, p \in Price \cup {0}, age \in Fresh :
       RateMoves(b, [price |-> p, age |-> age])
  \/ \E b \in Base : RateMoves(b, Broken)
  \/ \E q \in Quote, age \in Fresh : QuoteMoves(q, age)
  \/ Tick

Spec == Init /\ [][Next]_vars

-----------------------------------------------------------------------------
(* Properties.                                                             *)

\* A bulk read, which the portal trusts in place of two single ones, gives
\* each token the price of its single read, unless one of the two bases is
\* broken: then it has no price for the other token either.
BulkAgrees ==
  \A a, b \in Token :
    \/ GetLivePrices(a, b) = <<GetLivePrice(a), GetLivePrice(b)>>
    \/ /\ GetLivePrices(a, b) = <<0, 0>>
       /\ \E t \in {a, b} : feeds[t].base # None /\ rates[feeds[t].base] = Broken

\* With a limit, no answer, single or bulk, rests on a stamp past the limit,
\* of the base or of the quote, or on two stamps in the future.
AnswersFresh ==
  maxStaleness # 0 =>
    \A a, b \in Token :
      LET ages == {rates[feeds[a].base].age, quoteAge[feeds[a].quote]} IN
      GetLivePrice(a) \in Price \/ GetLivePrices(a, b)[1] \in Price =>
        /\ \A age \in ages : age <= maxStaleness
        /\ \E age \in ages : age >= 0

\* BandFeedLib.sol:8 says of the reads that they never revert and that a failure
\* has no price; neither setBandStdRef nor the constructor asks for code at the
\* reference, and a reverting leg takes the refresh of both with it.
NeverReverts ==
  \A a, b \in Token :
    Reverts \notin {GetLivePrice(a), GetLivePrices(a, b)[1], GetLivePrices(a, b)[2]}

=============================================================================
