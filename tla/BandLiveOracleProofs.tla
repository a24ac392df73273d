------------------------ MODULE BandLiveOracleProofs ------------------------
(***************************************************************************)
(* Theorems of BandLiveOracle: a bulk read agrees with the single reads,   *)
(* and no answer is stale.  Both are facts about any state of the right    *)
(* types, with or without code at the reference.                           *)
(***************************************************************************)
EXTENDS BandLiveOracle, TLAPS

Pair == [base : Base \cup {None}, quote : Quote \cup {None}]

\* The types of the adapter's storage and of Band's data.
BandTypeOK ==
  /\ bandStdRef \in StdRef \cup {None}
  /\ maxStaleness \in Limit
  /\ feeds \in [Token -> Pair]
  /\ rates \in [Base -> Rate \cup {Broken}]
  /\ quoteAge \in [Quote -> Age]

\* Ages stay within their bounds.
LEMMA AgesStay ==
  ASSUME NEW age \in Age
  PROVE  Later(age) \in Age
BY BandAssumption, SMT DEF Age, Later

\* The storage of the adapter and Band's data stay well typed: Band's clock and
\* reports, and the setters of BandLiveOracle.sol:38-57, for all constants.
THEOREM BandTypeCorrect == Spec => []BandTypeOK
<1>1. Init => BandTypeOK
  BY BandAssumption, SMT DEF Init, BandTypeOK, Pair, Age
<1>2. BandTypeOK /\ [Next]_vars => BandTypeOK'
  <2> SUFFICES ASSUME BandTypeOK, [Next]_vars PROVE BandTypeOK'
    OBVIOUS
  <2>1. ASSUME NEW ref \in StdRef \cup {None}, SetBandStdRef(ref) PROVE BandTypeOK'
    BY <2>1, SMT DEF BandTypeOK, SetBandStdRef
  <2>2. ASSUME NEW seconds \in Limit, SetMaxStaleness(seconds) PROVE BandTypeOK'
    BY <2>2, SMT DEF BandTypeOK, SetMaxStaleness
  <2>3. ASSUME NEW t \in Token, NEW base \in Base \cup {None},
               NEW quote \in Quote \cup {None}, SetFeed(t, base, quote)
        PROVE  BandTypeOK'
    BY <2>3, BandAssumption, SMT DEF BandTypeOK, SetFeed, Pair
  <2>4. ASSUME NEW b \in Base, NEW rate \in Rate \cup {Broken}, RateMoves(b, rate)
        PROVE  BandTypeOK'
    BY <2>4, SMT DEF BandTypeOK, RateMoves
  <2>5. ASSUME NEW q \in Quote, NEW age \in Age, QuoteMoves(q, age) PROVE BandTypeOK'
    BY <2>5, SMT DEF BandTypeOK, QuoteMoves
  <2>6. CASE Tick
    <3>1. \A q \in Quote : Later(quoteAge[q]) \in Age
      BY AgesStay, SMT DEF BandTypeOK
    <3>2. ASSUME NEW b \in Base, rates[b] # Broken
          PROVE  [rates[b] EXCEPT !.age = Later(@)] \in Rate
      <4>1. rates[b] \in Rate
        BY <3>2, SMT DEF BandTypeOK
      <4>2. Later(rates[b].age) \in Age
        BY <4>1, AgesStay, SMT DEF Rate
      <4> QED
        BY <4>1, <4>2, SMT DEF Rate
    <3> QED
      BY <2>6, <3>1, <3>2, SMT DEF BandTypeOK, Tick
  <2>7. CASE UNCHANGED vars
    BY <2>7, SMT DEF BandTypeOK, vars
  <2>8. Fresh \subseteq Age
    BY BandAssumption, SMT DEF Fresh, Age
  <2>9. ASSUME NEW p \in Price \cup {0}, NEW age \in Fresh
        PROVE  [price |-> p, age |-> age] \in Rate
    BY <2>8, SMT DEF Rate
  <2> QED
    BY <2>1, <2>2, <2>3, <2>4, <2>5, <2>6, <2>7, <2>8, <2>9 DEF Next
<1> QED
  BY <1>1, <1>2, PTL DEF Spec

-----------------------------------------------------------------------------
\* The older stamp of a pair with data is one of its two and not the younger.
LEMMA OlderStamp ==
  ASSUME BandTypeOK, NEW b \in Base, NEW q \in Quote, rates[b] # Broken
  PROVE  LET age == UpdatedAt([base |-> b, quote |-> q])
         IN /\ age \in {rates[b].age, quoteAge[q]}
            /\ rates[b].age <= age /\ quoteAge[q] <= age
<1> DEFINE ages == {rates[b].age, quoteAge[q]}
<1>1. rates[b].age \in Int /\ quoteAge[q] \in Int
  BY BandAssumption, SMT DEF BandTypeOK, Rate, Age
<1>2. \E age \in ages : \A other \in ages : other <= age
  BY <1>1, SMT
<1>3. UpdatedAt([base |-> b, quote |-> q])
        = CHOOSE age \in ages : \A other \in ages : other <= age
  BY DEF UpdatedAt
<1>4. /\ UpdatedAt([base |-> b, quote |-> q]) \in ages
      /\ \A other \in ages : other <= UpdatedAt([base |-> b, quote |-> q])
  BY <1>2, <1>3, Zenon
<1> QED
  BY <1>4

\* A price read from a pair's data is fresh on both stamps.
LEMMA PriceIsFresh ==
  ASSUME BandTypeOK, NEW b \in Base, NEW q \in Quote, rates[b] # Broken,
         maxStaleness # 0,
         ValidateBandData([base |-> b, quote |-> q]) # 0
  PROVE  /\ rates[b].age <= maxStaleness /\ quoteAge[q] <= maxStaleness
         /\ rates[b].age >= 0 \/ quoteAge[q] >= 0
<1> DEFINE age == UpdatedAt([base |-> b, quote |-> q])
<1>1. ~ TooOld(age)
  BY DEF ValidateBandData
<1>2. rates[b].age \in Int /\ quoteAge[q] \in Int /\ maxStaleness \in Int
  BY BandAssumption, SMT DEF BandTypeOK, Rate, Age
<1>3. /\ age \in {rates[b].age, quoteAge[q]}
      /\ rates[b].age <= age /\ quoteAge[q] <= age
  BY OlderStamp
<1> HIDE DEF age
<1> QED
  BY <1>1, <1>2, <1>3, SMT DEF TooOld

\* What a read of a pair returns, by the state of the pair.
LEMMA ReadCases ==
  ASSUME BandTypeOK, NEW p \in Pair
  PROVE  /\ None \in {bandStdRef, p.base, p.quote} => TryReadPrice(p) = 0
         /\ None \notin {bandStdRef, p.base, p.quote} =>
              /\ p.base \in Base /\ p.quote \in Quote
              /\ bandStdRef \notin Deployed => TryReadPrice(p) = Reverts
              /\ bandStdRef \in Deployed /\ rates[p.base] = Broken => TryReadPrice(p) = 0
              /\ bandStdRef \in Deployed /\ rates[p.base] # Broken
                   => TryReadPrice(p) = ValidateBandData(p)
BY SMT DEF TryReadPrice, Pair

\* Two bulk answers are the two single reads, or both are 0 for a broken base.
LEMMA BulkCases ==
  ASSUME BandTypeOK, NEW a \in Pair, NEW b \in Pair, CanBulkRead(a, b)
  PROVE  LET bulk == TryReadPriceBulk(a.base, b.base, a.quote) IN
         \/ bulk = <<TryReadPrice(a), TryReadPrice(b)>>
         \/ bulk = <<0, 0>> /\ \E p \in {a, b} : p.base # None /\ rates[p.base] = Broken
<1> DEFINE bulk == TryReadPriceBulk(a.base, b.base, a.quote)
<1>1. /\ a.base # None /\ b.base # None /\ a.quote = b.quote
      /\ a = [base |-> a.base, quote |-> a.quote]
      /\ b = [base |-> b.base, quote |-> a.quote]
  BY SMT DEF CanBulkRead, Pair
<1>2. CASE None \in {bandStdRef, a.quote}
  <2>1. bulk = <<0, 0>>
    BY <1>2 DEF TryReadPriceBulk
  <2> QED
    BY <1>1, <1>2, <2>1, ReadCases
<1>3. CASE None \notin {bandStdRef, a.quote} /\ bandStdRef \notin Deployed
  <2>1. bulk = <<Reverts, Reverts>>
    BY <1>3 DEF TryReadPriceBulk
  <2> QED
    BY <1>1, <1>3, <2>1, ReadCases
<1>4. CASE /\ None \notin {bandStdRef, a.quote} /\ bandStdRef \in Deployed
           /\ Broken \in {rates[a.base], rates[b.base]}
  <2>1. bulk = <<0, 0>>
    BY <1>4 DEF TryReadPriceBulk
  <2> QED
    BY <1>1, <1>4, <2>1
<1>5. CASE /\ None \notin {bandStdRef, a.quote} /\ bandStdRef \in Deployed
           /\ Broken \notin {rates[a.base], rates[b.base]}
  <2>1. bulk = <<ValidateBandData(a), ValidateBandData(b)>>
    BY <1>1, <1>5 DEF TryReadPriceBulk
  <2>2. TryReadPrice(a) = ValidateBandData(a) /\ TryReadPrice(b) = ValidateBandData(b)
    BY <1>1, <1>5, ReadCases
  <2> QED
    BY <2>1, <2>2
<1> QED
  BY <1>2, <1>3, <1>4, <1>5

-----------------------------------------------------------------------------
\* getLivePrices answers what two single reads would, unless one of the two
\* bases is broken, when it has no price for either.
THEOREM BulkReadsAgree == Spec => []BulkAgrees
<1>1. BandTypeOK => BulkAgrees
  <2> SUFFICES ASSUME BandTypeOK, NEW a \in Token, NEW b \in Token
               PROVE  \/ GetLivePrices(a, b) = <<GetLivePrice(a), GetLivePrice(b)>>
                      \/ /\ GetLivePrices(a, b) = <<0, 0>>
                         /\ \E t \in {a, b} : /\ feeds[t].base # None
                                              /\ rates[feeds[t].base] = Broken
    BY DEF BulkAgrees
  <2>1. feeds[a] \in Pair /\ feeds[b] \in Pair
    BY DEF BandTypeOK
  <2>2. CASE CanBulkRead(feeds[a], feeds[b])
    BY <2>1, <2>2, BulkCases DEF GetLivePrices, GetLivePrice
  <2>3. CASE ~ CanBulkRead(feeds[a], feeds[b])
    BY <2>3 DEF GetLivePrices
  <2> QED
    BY <2>2, <2>3
<1> QED
  BY <1>1, BandTypeCorrect, PTL

\* With a limit, a price read one by one or in bulk has both stamps within the
\* limit and not both in the future.
THEOREM ReadsAreFresh == Spec => []AnswersFresh
<1>1. BandTypeOK => AnswersFresh
  <2> SUFFICES ASSUME BandTypeOK, maxStaleness # 0, NEW a \in Token, NEW b \in Token,
                      GetLivePrice(a) \in Price \/ GetLivePrices(a, b)[1] \in Price
               PROVE  LET ages == {rates[feeds[a].base].age, quoteAge[feeds[a].quote]}
                      IN /\ \A age \in ages : age <= maxStaleness
                         /\ \E age \in ages : age >= 0
    BY DEF AnswersFresh
  <2>1. feeds[a] \in Pair /\ feeds[b] \in Pair
    BY DEF BandTypeOK
  <2>2. 0 \notin Price /\ Reverts \notin Price
    BY BandAssumption
  <2>3. GetLivePrice(a) \in Price
    <3>1. CASE CanBulkRead(feeds[a], feeds[b])
      <4>1. GetLivePrices(a, b)[1] \in {GetLivePrice(a), 0}
        BY <2>1, <3>1, BulkCases DEF GetLivePrices, GetLivePrice
      <4> QED
        BY <2>2, <4>1
    <3>2. CASE ~ CanBulkRead(feeds[a], feeds[b])
      BY <3>2 DEF GetLivePrices
    <3> QED
      BY <3>1, <3>2
  <2>4. /\ feeds[a].base \in Base /\ feeds[a].quote \in Quote
        /\ rates[feeds[a].base] # Broken
        /\ ValidateBandData(feeds[a]) # 0
    BY <2>1, <2>2, <2>3, ReadCases DEF GetLivePrice
  <2>5. feeds[a] = [base |-> feeds[a].base, quote |-> feeds[a].quote]
    BY <2>1, SMT DEF Pair
  <2>6. /\ rates[feeds[a].base].age <= maxStaleness
        /\ quoteAge[feeds[a].quote] <= maxStaleness
        /\ rates[feeds[a].base].age >= 0 \/ quoteAge[feeds[a].quote] >= 0
    BY <2>4, <2>5, PriceIsFresh
  <2> QED
    BY <2>6
<1> QED
  BY <1>1, BandTypeCorrect, PTL

=============================================================================
