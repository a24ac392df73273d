---------------------------- MODULE PriceOracle ----------------------------
(***************************************************************************)
(* PoDPriceOracle on top of PriceOracle: cached USD prices of the two      *)
(* tokens an inbox converts fees between.  A refresh, open to anyone and   *)
(* tried after every send, pulls both prices past one shared time gate;    *)
(* the owner replaces tokens and the adapter, the price admin pegs prices  *)
(* or writes the cache.  Who may call what is left out: an owner or admin  *)
(* call may come at any time.                                              *)
(*                                                                         *)
(* Times only matter by their distance from now, and only up to the        *)
(* longest interval the owner sets, so lastFetchTimestamp is kept as the   *)
(* seconds since the last fetch, counted up to MaxInterval, and            *)
(* priceUpdatedAt as the set of tokens that have a write time.             *)
(***************************************************************************)
EXTENDS Integers

CONSTANTS
  Token, NoToken,       \* tokens, and address(0)
  Adapter, NoAdapter,   \* live-price adapters, and address(0)
  Price,                \* USD prices
  Reverts,              \* answer of an adapter whose call reverts
  Interval,             \* fetch intervals the owner sets
  MaxInterval           \* the longest of them

Answer == Price \cup {0, Reverts}

ASSUME OracleAssumption ==
  /\ NoToken \notin Token
  /\ NoAdapter \notin Adapter
  /\ Price \subseteq Nat \ {0}
  /\ Reverts \notin Nat
  /\ MaxInterval \in Nat
  /\ Interval \subseteq 0 .. MaxInterval

VARIABLES
  localToken, remoteToken,  \* the two legs
  cachedPriceUSD,           \* price per token, 0 if there is none
  priceUpdatedAt,           \* tokens with a write time
  manualPrices,             \* peg per token, 0 if there is none
  configuredOracle,         \* registered adapter
  feed,                     \* what every adapter answers now
  fetchInterval,
  sinceFetch                \* seconds since the last fetch, or Never

vars == <<localToken, remoteToken, cachedPriceUSD, priceUpdatedAt,
          manualPrices, configuredOracle, feed, fetchInterval, sinceFetch>>

Never == -1

Init ==
  /\ localToken = NoToken
  /\ remoteToken = NoToken
  /\ cachedPriceUSD = [t \in Token |-> 0]
  /\ priceUpdatedAt = {}
  /\ manualPrices = [t \in Token |-> 0]
  /\ configuredOracle \in Adapter \cup {NoAdapter}
  /\ feed = [a \in Adapter |-> [t \in Token |-> 0]]
  /\ fetchInterval \in Interval
  /\ sinceFetch = Never

Legs == {localToken, remoteToken} \ {NoToken}

LivePrice(t) ==
  IF manualPrices[t] # 0 THEN manualPrices[t]
  ELSE IF configuredOracle = NoAdapter THEN 0
  ELSE feed[configuredOracle][t]

FetchIntervalsElapsed ==
  fetchInterval # 0 /\ sinceFetch # Never => sinceFetch >= fetchInterval

\* Mutant: a pull that finds no price is cached as well.
PulledOrZero == Legs

\* The legs whose pull finds a price.
Pulled == {t \in Legs : LivePrice(t) # 0}

\* An adapter that reverts for a leg reverts the refresh.
RefreshCache ==
  /\ FetchIntervalsElapsed
  /\ \A t \in Legs : LivePrice(t) # Reverts
  /\ cachedPriceUSD' = [t \in Token |-> IF t \in Pulled THEN LivePrice(t)
                                        ELSE cachedPriceUSD[t]]
  /\ priceUpdatedAt' = priceUpdatedAt \cup Pulled
  /\ sinceFetch' = 0
  /\ UNCHANGED <<localToken, remoteToken, manualPrices, configuredOracle, feed,
                 fetchInterval>>

\* Mutant: only the local token is cleared.
ReplacedLocal(local, remote) == {localToken} \ {local, remote, NoToken}

\* The legs that stop being legs.
Replaced(local, remote) == Legs \ {local, remote}

SetInboxTokens(local, remote) ==
  /\ local # remote
  /\ localToken' = local
  /\ remoteToken' = remote
  /\ cachedPriceUSD' = [t \in Token |-> IF t \in Replaced(local, remote) THEN 0
                                        ELSE cachedPriceUSD[t]]
  /\ priceUpdatedAt' = priceUpdatedAt \ Replaced(local, remote)
  /\ UNCHANGED <<manualPrices, configuredOracle, feed, fetchInterval, sinceFetch>>

\* Mutants: the slot may be empty; a manual write counts as a fetch.
SetCachedPriceNoCheck(t, p) ==
  /\ cachedPriceUSD' = [cachedPriceUSD EXCEPT ![t] = p]
  /\ priceUpdatedAt' = priceUpdatedAt \cup {t}
  /\ UNCHANGED <<localToken, remoteToken, manualPrices, configuredOracle, feed,
                 fetchInterval, sinceFetch>>

SetCachedPriceFetches(t, p) ==
  /\ t # NoToken
  /\ cachedPriceUSD' = [cachedPriceUSD EXCEPT ![t] = p]
  /\ priceUpdatedAt' = priceUpdatedAt \cup {t}
  /\ sinceFetch' = 0
  /\ UNCHANGED <<localToken, remoteToken, manualPrices, configuredOracle, feed,
                 fetchInterval>>

SetCachedPrice(t, p) ==
  /\ t # NoToken
  /\ cachedPriceUSD' = [cachedPriceUSD EXCEPT ![t] = p]
  /\ priceUpdatedAt' = priceUpdatedAt \cup {t}
  /\ UNCHANGED <<localToken, remoteToken, manualPrices, configuredOracle, feed,
                 fetchInterval, sinceFetch>>

SetLocalTokenPriceUSD(p) == SetCachedPrice(localToken, p)
SetRemoteTokenPriceUSD(p) == SetCachedPrice(remoteToken, p)

SetTokenPriceUSD(t, p) ==
  /\ manualPrices' = [manualPrices EXCEPT ![t] = p]
  /\ UNCHANGED <<localToken, remoteToken, cachedPriceUSD, priceUpdatedAt,
                 configuredOracle, feed, fetchInterval, sinceFetch>>

ClearTokenPriceUSD(t) ==
  /\ manualPrices' = [manualPrices EXCEPT ![t] = 0]
  /\ cachedPriceUSD' = [cachedPriceUSD EXCEPT ![t] = 0]
  /\ priceUpdatedAt' = priceUpdatedAt \ {t}
  /\ UNCHANGED <<localToken, remoteToken, configuredOracle, feed, fetchInterval,
                 sinceFetch>>

SetConfiguredOracle(a) ==
  /\ configuredOracle' = a
  /\ UNCHANGED <<localToken, remoteToken, cachedPriceUSD, priceUpdatedAt,
                 manualPrices, feed, fetchInterval, sinceFetch>>

SetFetchInterval(seconds) ==
  /\ fetchInterval' = seconds
  /\ UNCHANGED <<localToken, remoteToken, cachedPriceUSD, priceUpdatedAt,
                 manualPrices, configuredOracle, feed, sinceFetch>>

\* A feed moves, goes stale (0) or breaks (Reverts).
FeedChanges(a, t, answer) ==
  /\ feed' = [feed EXCEPT ![a][t] = answer]
  /\ UNCHANGED <<localToken, remoteToken, cachedPriceUSD, priceUpdatedAt,
                 manualPrices, configuredOracle, fetchInterval, sinceFetch>>

\* Time passes; beyond MaxInterval the gate is open anyhow.
Tick ==
  /\ sinceFetch \in 0 .. MaxInterval - 1
  /\ sinceFetch' = sinceFetch + 1
  /\ UNCHANGED <<localToken, remoteToken, cachedPriceUSD, priceUpdatedAt,
                 manualPrices, configuredOracle, feed, fetchInterval>>

Owner ==
  \/ \E local, remote \in Token : SetInboxTokens(local, remote)
  \/ \E a \in Adapter \cup {NoAdapter} : SetConfiguredOracle(a)
  \/ \E seconds \in Interval : SetFetchInterval(seconds)

PriceAdmin ==
  \/ \E p \in Price : SetLocalTokenPriceUSD(p) \/ SetRemoteTokenPriceUSD(p)
  \/ \E t \in Token, p \in Price : SetTokenPriceUSD(t, p)
  \/ \E t \in Token : ClearTokenPriceUSD(t)

Environment ==
  \/ \E a \in Adapter, t \in Token, answer \in Answer : FeedChanges(a, t, answer)
  \/ Tick

Next == RefreshCache \/ Owner \/ PriceAdmin \/ Environment

Spec == Init /\ [][Next]_vars

-----------------------------------------------------------------------------
(* Properties.                                                             *)

\* Every variable has its type.
OracleTypeOK ==
  /\ localToken \in Token \cup {NoToken}
  /\ remoteToken \in Token \cup {NoToken}
  /\ cachedPriceUSD \in [Token -> Price \cup {0}]
  /\ priceUpdatedAt \subseteq Token
  /\ manualPrices \in [Token -> Price \cup {0}]
  /\ configuredOracle \in Adapter \cup {NoAdapter}
  /\ feed \in [Adapter -> [Token -> Answer]]
  /\ fetchInterval \in Interval
  /\ sinceFetch \in {Never} \cup 0 .. MaxInterval

\* Only the two current legs have a cached price, however tokens were
\* replaced, swapped, pegged and cleared before, so a token that comes back
\* as a leg starts without the price it had; the write times monitoring
\* reads are there exactly for the prices that are.
CacheOnlyForLegs ==
  /\ \A t \in Token : cachedPriceUSD[t] # 0 => t \in Legs
  /\ priceUpdatedAt = {t \in Token : cachedPriceUSD[t] # 0}

\* Fees stay convertible: a leg that stays a leg, in either slot, loses its
\* price only by clearTokenPriceUSD of that token, never by a failed or
\* stale pull, a swap of the legs, a change of the adapter or the peg.
PricesNeverVanish ==
  [][\A t \in Legs :
       cachedPriceUSD[t] # 0 /\ cachedPriceUSD'[t] = 0
         => t \notin Legs' \/ ClearTokenPriceUSD(t)]_vars

\* PriceOracle.sol:87: replaced legs are cleared so that the next refresh is
\* not gated on stale state.  After a step that replaced a leg, a refresh
\* would pass the gate.
ReplacedLegNotGated ==
  [][~ Legs \subseteq Legs' => FetchIntervalsElapsed']_vars

\* A keeper calls refreshCache again and again, and time passes.
Fairness == WF_vars(RefreshCache) /\ WF_vars(Tick)

FairSpec == Spec /\ Fairness

\* If from some time on a leg has one live price and no adapter call reverts,
\* the cache gets that price again and again: nothing the owner or the price
\* admin does to the other leg or to the interval, and no failing pull of the
\* other leg, starves the refresh of this one.
LivePriceReachesCache ==
  \A t \in Token, p \in Price :
    <>[](/\ t \in Legs
         /\ LivePrice(t) = p
         /\ \A leg \in Legs : LivePrice(leg) # Reverts)
      => []<>(cachedPriceUSD[t] = p)

=============================================================================
