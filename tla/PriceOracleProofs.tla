------------------------- MODULE PriceOracleProofs -------------------------
(* Proofs about the price oracle, for all tokens, prices and intervals.    *)
EXTENDS PriceOracle, TLAPS

\* A live price is an adapter's answer.
LEMMA LivePriceType ==
  ASSUME OracleTypeOK, NEW t \in Token
  PROVE  LivePrice(t) \in Answer
BY DEF OracleTypeOK, LivePrice, Answer

\* A refresh that does not revert caches prices, for legs only.
LEMMA RefreshType ==
  ASSUME OracleTypeOK, RefreshCache
  PROVE  /\ cachedPriceUSD' \in [Token -> Price \cup {0}]
         /\ \A t \in Pulled : t \in Legs /\ LivePrice(t) \in Price
<1>1. Pulled \subseteq Token
  BY DEF Pulled, Legs, OracleTypeOK
<1>2. \A t \in Pulled : t \in Legs /\ LivePrice(t) \in Price
  BY <1>1, LivePriceType DEF RefreshCache, Pulled, Answer
<1>3. QED
  BY <1>2 DEF RefreshCache, OracleTypeOK

\* Every step keeps every variable well typed.
LEMMA OracleNextType == OracleTypeOK /\ [Next]_vars => OracleTypeOK'
<1> SUFFICES ASSUME OracleTypeOK, [Next]_vars PROVE OracleTypeOK'
  OBVIOUS
<1> USE OracleAssumption
<1>1. CASE RefreshCache
  <2>1. Pulled \subseteq Token
    BY DEF Pulled, Legs, OracleTypeOK
  <2>2. QED
    BY <1>1, <2>1, RefreshType DEF RefreshCache, OracleTypeOK
<1>2. CASE Owner
  BY <1>2 DEF Owner, SetInboxTokens, SetConfiguredOracle, SetFetchInterval,
              OracleTypeOK
<1>3. CASE PriceAdmin
  BY <1>3 DEF PriceAdmin, SetLocalTokenPriceUSD, SetRemoteTokenPriceUSD,
              SetCachedPrice, SetTokenPriceUSD, ClearTokenPriceUSD, OracleTypeOK
<1>4. CASE Environment
  <2>1. ASSUME NEW a \in Adapter, NEW t \in Token, NEW answer \in Answer,
               FeedChanges(a, t, answer)
        PROVE  OracleTypeOK'
    BY <2>1 DEF FeedChanges, OracleTypeOK
  <2>2. CASE Tick
    BY <2>2 DEF Tick, OracleTypeOK
  <2>3. QED
    BY <1>4, <2>1, <2>2 DEF Environment
<1>5. CASE UNCHANGED vars
  BY <1>5 DEF vars, OracleTypeOK
<1>6. QED
  BY <1>1, <1>2, <1>3, <1>4, <1>5 DEF Next

\* Type correctness of the oracle.
THEOREM OracleTypeCorrect == Spec => []OracleTypeOK
<1>1. Init => OracleTypeOK
  BY OracleAssumption DEF Init, OracleTypeOK, Answer
<1>2. QED
  BY <1>1, OracleNextType, PTL DEF Spec

-----------------------------------------------------------------------------

\* Every step keeps the cache to the legs, each price with its write time.
LEMMA CacheStep ==
  ASSUME OracleTypeOK, CacheOnlyForLegs, [Next]_vars
  PROVE  CacheOnlyForLegs'
<1> USE OracleAssumption
<1>1. CASE RefreshCache
  <2>1. Pulled \subseteq Token
    BY DEF Pulled, Legs, OracleTypeOK
  <2>2. Legs' = Legs
    BY <1>1 DEF RefreshCache, Legs
  <2>3. \A t \in Pulled : cachedPriceUSD'[t] # 0 /\ t \in Legs
    BY <1>1, <2>1, RefreshType DEF RefreshCache
  <2>4. \A t \in Token \ Pulled : cachedPriceUSD'[t] = cachedPriceUSD[t]
    BY <1>1 DEF RefreshCache
  <2>5. priceUpdatedAt' = priceUpdatedAt \cup Pulled
    BY <1>1 DEF RefreshCache
  <2>6. QED
    BY <2>1, <2>2, <2>3, <2>4, <2>5 DEF CacheOnlyForLegs
<1>2. ASSUME NEW local \in Token, NEW remote \in Token,
             SetInboxTokens(local, remote)
      PROVE  CacheOnlyForLegs'
  <2>1. Legs' = {local, remote}
    BY <1>2 DEF SetInboxTokens, Legs
  <2>2. /\ \A t \in Token : cachedPriceUSD'[t] =
             IF t \in Replaced(local, remote) THEN 0 ELSE cachedPriceUSD[t]
        /\ priceUpdatedAt' = priceUpdatedAt \ Replaced(local, remote)
    BY <1>2 DEF SetInboxTokens
  <2>3. QED
    BY <2>1, <2>2 DEF CacheOnlyForLegs, Replaced
<1>3. ASSUME NEW t \in Legs, NEW p \in Price, SetCachedPrice(t, p)
      PROVE  CacheOnlyForLegs'
  <2>1. t \in Token /\ Legs' = Legs
    BY <1>3 DEF Legs, SetCachedPrice, OracleTypeOK
  <2>2. /\ \A u \in Token : cachedPriceUSD'[u] =
             IF u = t THEN p ELSE cachedPriceUSD[u]
        /\ priceUpdatedAt' = priceUpdatedAt \cup {t}
    BY <1>3 DEF SetCachedPrice, OracleTypeOK
  <2>3. p # 0
    OBVIOUS
  <2>4. QED
    BY <2>1, <2>2, <2>3 DEF CacheOnlyForLegs
<1>4. ASSUME NEW t \in Token, ClearTokenPriceUSD(t)
      PROVE  CacheOnlyForLegs'
  <2>1. /\ Legs' = Legs /\ priceUpdatedAt' = priceUpdatedAt \ {t}
        /\ \A u \in Token : cachedPriceUSD'[u] =
             IF u = t THEN 0 ELSE cachedPriceUSD[u]
    BY <1>4 DEF ClearTokenPriceUSD, Legs, OracleTypeOK
  <2>2. QED
    BY <2>1 DEF CacheOnlyForLegs
<1>5. CASE /\ localToken' = localToken /\ remoteToken' = remoteToken
           /\ cachedPriceUSD' = cachedPriceUSD
           /\ priceUpdatedAt' = priceUpdatedAt
  BY <1>5 DEF CacheOnlyForLegs, Legs
<1>6. CASE Owner
  BY <1>2, <1>5, <1>6 DEF Owner, SetConfiguredOracle, SetFetchInterval
<1>7. CASE PriceAdmin
  <2>1. ASSUME NEW p \in Price,
               SetLocalTokenPriceUSD(p) \/ SetRemoteTokenPriceUSD(p)
        PROVE  CacheOnlyForLegs'
    <3>1. PICK t \in {localToken, remoteToken} : SetCachedPrice(t, p)
      BY <2>1 DEF SetLocalTokenPriceUSD, SetRemoteTokenPriceUSD
    <3>2. t \in Legs
      BY <3>1 DEF SetCachedPrice, Legs
    <3>3. QED
      BY <1>3, <3>1, <3>2
  <2>2. ASSUME NEW t \in Token, NEW p \in Price, SetTokenPriceUSD(t, p)
        PROVE  CacheOnlyForLegs'
    BY <1>5, <2>2 DEF SetTokenPriceUSD
  <2>3. QED
    BY <1>4, <1>7, <2>1, <2>2 DEF PriceAdmin
<1>8. CASE Environment \/ UNCHANGED vars
  BY <1>5, <1>8 DEF Environment, FeedChanges, Tick, vars
<1>9. QED
  BY <1>1, <1>6, <1>7, <1>8 DEF Next

\* Only the current legs have a cached price, and write times go with prices.
THEOREM CacheFollowsLegs == Spec => []CacheOnlyForLegs
<1>1. Init => CacheOnlyForLegs
  BY DEF Init, CacheOnlyForLegs
<1>2. OracleTypeOK /\ CacheOnlyForLegs /\ [Next]_vars => CacheOnlyForLegs'
  BY CacheStep
<1>3. QED
  BY <1>1, <1>2, OracleTypeCorrect, PTL DEF Spec

\* A step takes the price of a leg that stays a leg only by clearing it.
LEMMA PricesStep ==
  ASSUME OracleTypeOK, [Next]_vars, NEW t \in Legs,
         cachedPriceUSD[t] # 0, cachedPriceUSD'[t] = 0
  PROVE  t \notin Legs' \/ ClearTokenPriceUSD(t)
<1> USE OracleAssumption
<1>0. t \in Token
  BY DEF Legs, OracleTypeOK
<1>1. CASE RefreshCache
  BY <1>0, <1>1, RefreshType DEF RefreshCache
<1>2. CASE Owner
  BY <1>0, <1>2 DEF Owner, SetInboxTokens, SetConfiguredOracle,
                    SetFetchInterval, Replaced, Legs
<1>3. CASE PriceAdmin
  BY <1>0, <1>3 DEF PriceAdmin, SetLocalTokenPriceUSD, SetRemoteTokenPriceUSD,
                    SetCachedPrice, SetTokenPriceUSD, ClearTokenPriceUSD,
                    OracleTypeOK
<1>4. CASE Environment \/ UNCHANGED vars
  BY <1>4 DEF Environment, FeedChanges, Tick, vars
<1>5. QED
  BY <1>1, <1>2, <1>3, <1>4 DEF Next

\* Prices never vanish under a leg except by clearTokenPriceUSD.
THEOREM PricesStay == Spec => PricesNeverVanish
<1>1. OracleTypeOK /\ [Next]_vars =>
        [\A t \in Legs :
           cachedPriceUSD[t] # 0 /\ cachedPriceUSD'[t] = 0
             => t \notin Legs' \/ ClearTokenPriceUSD(t)]_vars
  BY PricesStep
<1>2. QED
  BY <1>1, OracleTypeCorrect, PTL DEF Spec, PricesNeverVanish

=============================================================================
