# A TLA+ verification of the PoD inbox contracts

The PoD ("privacy on demand") inboxes are Solidity contracts, one per chain,
that let an application on one chain call a contract on another and get an
answer back.  An off-chain miner carries the messages, and scripts deploy and wire
the contracts of a pair of chains.  This directory holds
TLA+ models of the contracts and the scripts, TLC configurations that check them on small
instances, and TLAPS proofs of theorems about them.  Paths below are relative
to the repository.

    tlc -workers 2 -config MCInbox_core.cfg MCInbox
    tlc -workers 2 -config PriceOracle_safety.cfg PriceOracle
    tlc -workers 2 -config MCFeeManager_fees.cfg MCFeeManager
    tlc -workers 2 -config BandLiveOracle_reads.cfg BandLiveOracle
    tlc -workers 2 -config MCRelay_relay.cfg MCRelay
    tlc -workers 2 -config MCDeploy_deploy.cfg MCDeploy
    tlc -workers 2 -config MCReEncode_layout.cfg MCReEncode
    tlapm InboxProofs.tla        # also InboxMessageProofs, PriceOracleProofs, FeeManagerProofs,
                                 # BandLiveOracleProofs, RelayProofs, DeployProofs, ReEncodeProofs

## 1. Inventory

### Inbox messaging (`contracts/InboxBase.sol`, `contracts/InboxMiner.sol`)

State of one inbox: `requests` (the outbound log), `_requestNonce` (one counter
per target chain), `incomingRequests`, `lastIncomingRequestId` (per source
chain), `inboxResponses`, `errors`, `_currentContext` (set while a target runs),
`messageProcessingPaused`, and the fee templates and limits of FeeManager.

Operations: `sendTwoWayMessage`, `sendOneWayMessage`; `respond` and `raise`,
called by a target while it runs; `batchProcessRequests`, by a miner, which per
item either rejects it, records that its call cannot be encoded, or calls the
target with the prepaid gas; `retryFailedRequest`, by anyone, which runs a failed
call again or lets it expire; the owner's pause, caps, reply limit and life.

Interaction: a request logged by a source inbox is copied by the miner into a
batch of the target inbox. The answer to a two-way request is a one-way request
in the opposite direction, linked by `sourceRequestId`; when it is ingested, the
original is marked executed and the application's callback or error handler is
called. Fee gas is fixed when a request is sent: `targetFee` pays the call at
the target, `callerFee` the leg that comes back.

What is hard: a target call runs *inside* the batch and writes inbox storage, but
its writes vanish if it fails while the batch goes on; an incoming request can be
answered from five places in several transactions; nonces of a lane are shared
by sends, answers and inbox-made errors and must stay contiguous, because the
target takes them in order; caps and message life are read when they are used
and may have changed since the message was sent; several miners may submit
overlapping batches; anyone may retry; the context is global storage.

Correct means: at most one answer per request, from the contract that was asked
or from the inbox, to the contract that asked; a failed call has no answer and a
finally failed one has; lanes deliver in order exactly once; the mark at the
source appears exactly when an answer was ingested; contexts do not survive a
call; a pause stops everything; nothing blocks a lane for ever.

### FeeManager (`contracts/fee/FeeManager.sol`, `FeeManagerStubBase.sol`, `LibFeeStorage.sol`, `InboxFeeQuoter.sol`)

State: two fee templates (floors and caps for the local and the remote leg),
reply limit, message life, gas-price bounds, the oracle's address, all in the
inbox's own storage through DELEGATECALL. Operations: validation and conversion
of the paid wei into two gas budgets, the execution budget of a call, setters,
fee collection, and quotes. Hard: roundings of conversion and quote must point
the right way; templates are all-zero until configured; zero has special
meanings; quote, send and call are three transactions between which prices move.
Correct means: a quoted fee is accepted; an accepted fee buys at least the floors
and never more gas than it pays for; a valid template cannot make every send fail.

### Price oracle (`contracts/fee/PriceOracle.sol`, `PoDPriceOracle.sol`, feed adapters in `fee/band`, `fee/chainlink`)

State: the two leg tokens, cached price and write time per token, manual pegs,
refresh gate, adapter. Operations: `refreshCache` (also attempted after every
send), token replacement, manual prices, clearing, adapter replacement. Hard: the
gate is shared by both legs; a pull may fail; tokens may be swapped or replaced
between refreshes. Correct means: a non-zero price never turns zero except by an
explicit owner or admin action; no price of a replaced token is served; manual
writes on one leg do not hold up the other.

### Re-encoding (`contracts/MpcAbiReEncode.sol`)

Pure: turns typed arguments into calldata, validating inputs through the MPC
precompile, and lays out heads and tails. Correct means: offsets point at the
tails the callee's decoder expects.

### Estimate mode (`contracts/InboxEstimateGas.sol`)

Runs one item as a batch would, with events off, and always reverts with the gas
used and the reply sizes. Correct means: same outcome as the real run, no state
left.

### Initialisation, ownership, miners (`contracts/Inbox.sol`, `MinerBase.sol`)

One-time `init`, two-step ownership that cannot be renounced, a registry of
miners.

### Relay (`scripts/test-helpers/relay-helper.ts`)

State of a call: the window it was asked for, the nonce of the target's
`lastIncomingRequestId`, the requests still to do, the transaction in flight.
Operations: `mineFromAToB`, which lists, filters and submits one batch per request
and waits for each; `relayAllPendingMessages`, which submits a window without
looking at the target and without waiting. Hard: the three filters (executed at the
source, nonce at the target, record at the target) read two chains at three times,
while other relays and miners move both; the status of a receipt is not read; a
transaction outlives a killed script; gas must leave the prepaid amount to a call
that is three levels down. Correct means: no request of the window is left behind,
none is submitted past a gap, every call gets all its prepaid gas.

### CreateX (`scripts/createx.ts`) and deployment (`scripts/deploy-*.ts`, `migrate-oracle.ts`)

State: the contracts of two chains, transactions not mined yet, and
`deployConfig.json`, shared by all scripts. Operations: deploying the codec, the fee
manager and the inbox at addresses known in advance; registering the miner; making,
pricing and wiring an oracle, with fallbacks when a feed is down or the inbox has
one; installing fee templates from the file or from code; recording. Hard: a script
may be killed anywhere and run again; two may run at once, deploying the same
contract and writing back the whole file as they read it; some writes are not
awaited and some receipts not looked at. Correct means: what is deployed is
complete and the deployer's; what is recorded can be used; a pair's oracles price
its two native tokens; a rerun succeeds.

### Applications and maintenance scripts

The executors (`contracts/mpc/coti-side`) compute and respond once: arbitrary
contracts to the inbox. `check-*.mjs`, `inbox-gas-matrix.ts`, `oracle-*.ts`,
`run-tests-serial.mjs`, the ABI table and the Hardhat configuration report or configure
and keep no protocol state.

## 2. Plan

| # | module | content | state |
|---|--------|---------|-------|
| 1 | `Inbox`, `InboxProperties`, `MCInbox` | messaging between any number of chains | done |
| 2 | `InboxProofs`, `InboxMessageProofs` | type correctness, unique answers, contexts and pause; lane order, outcomes, answers, marks, signals and the reject hatch, for all constants | done, see section 12 |
| 3 | `TwoWayCall`, `InboxCalls` | abstract specification of the life of a call (sent, failed, answered, given up, returned), and the mapping under which `Inbox` implements it | done; the step simulation is proved in `InboxMessageProofs` |
| 4 | `PriceOracle`, `PriceOracleProofs` | gate, legs, pegs, refresh, a keeper; proofs of the cache invariants | done |
| 4a | `BandLiveOracle`, `BandLiveOracleProofs` | Band's adapter: single and bulk reads, staleness; proofs of all its properties | done; the Chainlink adapter is a per-token read without shared state and comes last, if at all |
| 5 | `FeeManager`, `MCFeeManager`, `FeeManagerProofs` | conversion, floors, quotes, templates, execution budget; proofs for all values | done |
| 6 | `Relay`, `MCRelay`, `RelayProofs` | the relay's two calls await by await, other miners, crashes; proofs of its safety | done |
| 7 | `DeployTables`, `Deploy`, `MCDeploy`, `DeployProofs` | the scripts as step lists over shared chains and a shared file | done; all safety properties are proved |
| 8 | `FeeManagerProofs` | the shipped templates in the fee arithmetic of row 5 | done |
| 9 | `ReEncode`, `MCReEncode`, `ReEncodeProofs` | head/tail layout of a typed call and its decoding; proof that every argument arrives | done |
| 10 | `EstimateGas` | estimate mode and its flag inside a transaction; gas left in a transaction | planned |
| 11 | `Admin` | two-step ownership, removal of miners, a second init (the first is in `Deploy`) | planned |

`Inbox` comes first because every other part only feeds it (budgets, prices,
encodings) or restricts it (admin, relay). The relay and the scripts come next because they
are where steps of several actors meet outside the chain. Every safety and step
property of a passing run is now stated by a theorem of section 12; rows 10 and 11 are
what is left to model.

## 3. The model `Inbox`

`store[c]` is the committed storage of the inbox of chain `c`, a record with a
field per mapping; `config[c]` its pause flag and limits; `now[c]` its clock;
`tx` the batch or retry in progress.

**Transactions.** A chain runs transactions one after another, and transactions
of different chains touch different storage, so at most one *interesting*
transaction, one that contains a target call, is in progress at a time, without
loss of behaviours: the model reads another chain only through its log, which
only grows. `tx.work` is the storage the batch has written so far, `tx.inner` what
the running target call has written on top. `CallReturns` keeps `inner`,
`CallReverts` drops it, `CommitBatch` publishes `work`, `Revert` drops everything.
All other transactions (sends from outside, expiry, owner calls) are one step.

| action | code |
|---|---|
| `SendTwoWayMessage`, `SendOneWayMessage` | `InboxBase.sol:185-226`, `_createRequest` 476-552 |
| `Reply` | `respond`, `raise`, `_reply` 230-290 |
| `BeginBatch` | `batchProcessRequests` up to the loop, `InboxMiner.sol:34-58` |
| `RejectItem` | reject branch of the loop, `_ingestMinerReject` 167-220 |
| `MineEncodeFailure` | ordinary item, encode branch, 93-121 and 339-350 |
| `MineCall`, then `CallReturns` or `CallReverts` | ordinary item, 93-154 and 352-396 |
| `CommitBatch`, `Revert` | end of the batch 161-164, any revert |
| `ExpireOnRetry` | `retryFailedRequest` 307-312 |
| `BeginRetry`, then `RetrySucceeds` or `Revert` | `retryFailedRequest` 314, 352-375 |
| `SetMessageProcessingPaused`, `UpdateMinFeeConfigs`, `SetMaxReplyMethodCallBytes`, `SetMaxMessageLife` | owner setters |

**While a target runs** (`tx.calling`), any contract of the chain may be in its call
tree, so sends and replies by any contract are allowed and go to `tx.inner`. The
nonReentrant guard and `onlyMiner` exclude batches and retries, and an owner call
from inside a target call is not considered (the owner is not a target).

**The miner** takes items from the logs of source chains (an honest miner; a
registered miner is trusted by the code, which does not verify what it submits),
but it may be slow, submit any number of items, reject any item, stop in the
middle, or have its batch revert. Several miners are covered: a stale or
overlapping batch fails `Admissible` and reverts.

**Abstractions.** A payload is a weight and a kind of call (`raw`; `rawTyped`, a
zero selector with type words, which never encodes; `typed`, which needs the
re-encode helper of an MPC chain and may fail there). A selector is a Boolean,
present or not, since a two-way send demands two different non-zero ones
(`InboxBase.sol:194`) and a one-way send none. `handler` is the selector a return
leg's payload starts with. Request ids are triples; the width of the nonce is
`MaxNonce`. The gas budgets `FeeManager` computes are taken from the set `FeeGas`;
they are at least 1 because a valid template has a positive floor
(`FeeManager.sol:272-283`), and before a template is installed the zero caps stop
every send, which is a state with nothing to check. Gas itself is not counted:
a call may fail at any budget, a batch may revert at any point. Error payloads,
events and views are left out, except the two success events (`succeeded`), which
integrators are told to rely on, and `inboxErrorType`, which targets branch on.
An empty batch is a no-op and left out.

**Bounds.** `SendBound` stops application sends of a lane at a nonce (answers are not
bounded by it), `MaxBatch` bounds the items of a batch, `MaxTime` the clocks.
`MaxNonce` is the 128-bit limit of the id, a guard of the code; the runs give it a
value that is never reached except in the liveness run, where it only bounds the
quantifier.

**The system never stops**: the owner can always toggle the pause between
transactions and a transaction can always revert, so deadlock checking stays on in
every run and holds for that reason; that nothing *useful* stops is the business of
the liveness run.

## 4. Properties (`InboxProperties`)

* `OneReturnLeg`: answers and outbound legs are a bijection, also inside every
  transaction.
* `OutcomesExclusive`: failed (retryable) excludes answered; finally failed and
  funded implies answered, by the inbox; answered by the application implies no
  error.
* `LegsAnswerTheirRequest`: who answers, to whom, with which budget.
* `FifoExactlyOnce`: what was ingested is a gap-free prefix of the log.
* `ExecutedMeansAnswered`: the mark at the source, related to the target's record.
* `SuccessSignalsFinal`: the two success events together are exactly the return
  legs without error, and final.
* `ContextOnlyDuringCall`, `ErrorTypeTellsOrigin`: what a running target can learn.
* `RejectHatchOpen`: with constant caps every pending item can be rejected.
* `PauseHaltsMessaging`: a step property.
* `EveryRequestIngested`, `EveryAnswerReturns`: liveness.
* `ImplementsCalls` (`InboxCalls`): `Inbox` implements `TwoWayCall`; that an error is
  only ever left by a retry that succeeds or by expiry is part of it.

**The abstract specification.** `TwoWayCall` forgets chains, lanes, batches and storage
and says what an application may count on: a call is sent; it runs, and may fail and
run again, until it is done; or it is given up, which a call that asks for an answer
never is without one; it is answered at most once, by a new call that answers nothing
else and asks nothing; and it returns in the very step that delivers that answer.
Nothing leaves "done", "closed" or "returned". A step moves any number of calls,
since a batch runs several and sends their answers. `InboxCalls` reads the status of
a call off the committed storage of its two inboxes (`CallStatus`); what a batch or a
retry in progress has written is not part of it until it commits.

**Fairness** (`FairSpec`). Strong fairness of submitting a batch for a lane with
something pending, of loading an item, of committing: the relay polls its lanes for
ever, rejects what cannot be executed, and tries again when a batch reverts. A
call in progress ends (EVM execution is finite), a transaction ends, and a paused
inbox is unpaused some time, the purpose of a circuit breaker. Strong rather than
weak fairness is needed because other transactions and pauses disable these steps
again and again. Nothing is assumed of applications, targets and retriers.

## 5. The model `PriceOracle`

| state | code |
|---|---|
| `localToken`, `remoteToken`, `cachedPriceUSD`, `fetchInterval` | `PriceOracle.sol:13-33` |
| `priceUpdatedAt` | the same mapping, as the set of tokens with a write time |
| `sinceFetch` | `block.timestamp - lastFetchTimestamp`, or `Never` |
| `manualPrices`, `configuredOracle` | `PoDPriceOracle.sol` |
| `feed` | what an adapter answers now: a price, 0, or a revert |

| action | code |
|---|---|
| `RefreshCache` | `refreshCache`, `_refreshInboxCache`, `_refreshLeg` 123-157, `_livePrice` of `PoDPriceOracle.sol:144-159` |
| `SetInboxTokens`, `SetFetchInterval`, `SetConfiguredOracle` | owner setters |
| `SetLocalTokenPriceUSD`, `SetRemoteTokenPriceUSD` | manual cache writes, `_setCachedPrice` 238-249 |
| `SetTokenPriceUSD`, `ClearTokenPriceUSD` | pegs, `PoDPriceOracle.sol:85-108` |
| `FeedChanges`, `Tick` | the feeds and time |

Only the distance of two times matters to the gate, and only up to the longest
interval the owner sets: `sinceFetch` therefore counts to `MaxInterval` and stops,
beyond which every gate is open. A refresh behind the gate returns without a write
and is no step. A send's refresh is the same step, taken in a `try`. An adapter is
an arbitrary feed per token, which may revert: `BandLiveOracle` (section 7) tells when
Band's adapter does.  Who may call what is left out.

`CacheOnlyForLegs` and `PricesNeverVanish` are about tokens that are replaced,
swapped, pegged and brought back. `LivePriceReachesCache` is liveness under
`FairSpec`: weak fairness of `RefreshCache`, which anyone may call and a keeper is
set up to call again and again, and of time. The gate, once open, stays open until a
refresh unless the owner raises the interval, so weak fairness is enough as long as
the interval is bounded.  The antecedent asks that no leg's adapter call *reverts*,
since a revert takes the whole refresh with it; a leg without a price does not hold
up the other.

`ReplacedLegNotGated` is the comment at `PriceOracle.sol:87`, that clearing a
replaced leg lets the next refresh pass. It is violated (run `oracle_gate`): the
gate reads `lastFetchTimestamp`, which replacing a token leaves alone. The new leg is
without a price, and sends revert, until the interval has passed or an admin
writes a price.

## 6. The model `FeeManager`

The state is one inbox's fee storage (`localMin`, `remoteMin`, `gasBounds`), the
target inbox's own template (`peerMin`), the oracle's `prices`, the base fee, and what
one app has in hand: a `quote`, or the last `message` it sent with the terms of its
send. A send uses the quote up, and a new quote ends the interest in the last
message; other apps share only the prices, which may move at any time. The app
takes quotes and sends, owners change settings, blocks and prices move, in any
order.

| definition | code |
|---|---|
| `ValidFeeConfig` | `_requireValidFeeConfig`, `FeeManager.sol:259-284` |
| `ExpectedMinFee`, `LocalRequestExecutionBudget` | 213-225, 90-99 |
| `ReferenceGasPrice`, `ApplyGasPriceSkew` | 227-243, 286-292 |
| `ValidTwoWayFees`, `ValidOneWayFees` with `CallerGas`, `TargetGas` | 156-211 |
| `SendTwoWayMessage`, `SendOneWayMessage` | the fee side of `InboxBase.sol:185-226`, gas caps of `_createRequest` 496-503, best-effort refresh |
| `Quote` | `FeeManagerStubBase.sol:149-184`; `InboxFeeQuoter` computes the same |
| `UpdateMinFeeConfigs`, `SetGasPriceBounds`, `SetPriceOracle` | setters 101-139 |

Numbers are naturals: a product of two 256-bit values that overflows reverts in the
code (or is exact, in `mulDiv`), so it adds no behaviour. A reverting send is no
step. A payload is its encoded size. The weight cap is in `Inbox`, which uses another
measure (`structuralSize`).

* `QuoteHonoured`: a quote submitted while the templates stay, the reference gas
  price has not risen over the quoted one and the price ratio has not fallen is
  accepted, and buys each leg its floor and the gas asked for. It says nothing of
  the caps: when the gas price falls, the same wei buy more gas, and
  `maxExecutionGas` may refuse it.
* `GasPaidFor`: a message's gas, turned back into wei at the terms of its send, is
  not above what was paid.
* `MessageCanRun`: both legs of a message have gas (what `Inbox` assumes of
  `FeeGas`), and if the target's template still is the sender's copy, the budget of
  the call after the error reserve covers the payload and the execution gas of the
  template; the same for the callback.

Some disagreements with the documentation came up while modelling. The quote takes
the callback leg's floor at the callback's size, validation at the request's, so the
estimate of a small callback to a large request does not match submit, as
`docs/ESTIMATE_EXECUTION_GAS.md:79` has it (`test/PocAuditFindings.ts`, PoC 3, drives
the case); `QuoteHonoured` speaks of the other quotes. Templates
with `constantFee = maxExecutionGas` are accepted, and shipped
(`scripts/deploy-utils.ts:399` asks for "≥"), but only an exact amount of gas then
passes both the floor and the cap, and skew and price ratio may skip it: with a fee
and cap of 5 and a skew of 2/1 one payment buys 4 and the next 6. And the comment at
`LibFeeStorage.sol:11` multiplies the variable floor by `bufferRatioX10000 / 10000`
where `expectedMinFee` multiplies by `(10000 + bufferRatioX10000) / 10000`.

**The shipped templates** (in `FeeManagerProofs`). What `scripts/deploy-utils.ts` installs is put
into this arithmetic. The variable template has a floor of
`(800 * size + 100000 + 256 * 800) * 1.5` gas and a cap of 5,000,000, which meet at a
size of 3785 bytes: no two-way send with a longer method call can be paid for, at any
price, although the same template admits 8192 bytes (`maxMethodCallBytes`,
`docs/SIZE_CAPS_AND_MINER_REJECT.md:24`). The constant template has its fee equal to
its cap, so that leg buys 25,000,000 gas to the unit or is refused. This is the
theorem `ShippedTemplatesInRange`.

## 7. The model `BandLiveOracle`

The adapter that reads Band for the oracle of section 5 and for the portal. Its
state is the code's (`bandStdRef`, `maxStaleness`, `feeds`); `rates` and `quoteAge` are
Band's own data, a price and a stamp per base and a stamp per quote. A stamp is kept
as its age, negative for a stamp in the future, since the code only compares it with
the block's time.

| definition | code |
|---|---|
| `TryReadPrice`, `TryReadPriceBulk`, `ValidateBandData`, `UpdatedAt`, `TooOld` | `BandFeedLib.sol:15-44`, 86-135 |
| `CanBulkRead` | `BandPriceReader.sol:56-59` |
| `GetLivePrice`, `GetLivePrices` | `BandLiveOracle.sol:59-77`, 86-89 |
| `SetBandStdRef`, `SetMaxStaleness`, `SetFeed` | owner setters 38-57 |
| `RateMoves`, `QuoteMoves`, `Tick` | Band and time |

* `BulkAgrees`: `getLivePrices` answers what two single reads would, unless one of the
  two bases is broken, when it answers neither.
* `AnswersFresh`: with a limit set, no answer rests on a stamp past the limit.
* `NeverReverts`: no read reverts, which is what `BandFeedLib.sol:8` says of
  `tryReadPrice`: "Never reverts: failures return `(false, 0)`". The run `band_eoa`
  shows it violated.

The violation takes one setter, or none: the owner installs an address without code
(`StdRef` has one that is not in `Deployed`) beside a configured feed. The `try` of
`BandFeedLib` does not catch the decoding of an empty answer, and neither the setter
nor the constructor looks for code, as the Chainlink library does. A read that reverts
takes `refreshCache` with it, hence the antecedent of `LivePriceReachesCache`. With such
addresses among those the owner may install, the two other properties still hold
(run `band_reads`): a read that reverts answers nothing.

## 8. The model `Relay`

The two inboxes keep what a relay reads and what makes a batch revert; a request is
its nonce. A relay's call is a record with a program counter, and every `await` is a
step.

| action | code (`relay-helper.ts`) |
|---|---|
| `CountRequests`, `GetRequests` | `getRequestsLen`, `getRequests`, 74-109 and 211-260 |
| `GetLatestMinedNonce` | `lastIncomingRequestId` of the target, 233-242 |
| `SelectMined` | the nonce filter and the look at each record, 281-330 |
| `Submit`, `SubmitRefused` | `batchProcessRequests` sent, or refused by the node, 143-187 and 336-347 |
| `Land`, `Received` | the transaction is mined; the receipt is awaited, its status not read, 348 |
| `Return`, `Crash` | the end of the call; the process is killed or its node fails |
| `BatchGasForMinedRequest` | the gas limit, 7-19 |
| `Send`, `Answer`, `MinedElsewhere`, `SetPaused`, `SetUnpaused` | the inboxes, with other miners and owners, reduced from `Inbox` |

* `NothingSkipped`: the three filters drop a request only if the target has it.
* `NoGapSubmitted`: what is awaited is never past the target's next nonce.
* `FullStipend`: the gas limit leaves a call all its request has prepaid, for any
  overhead up to the headroom less the inbox's reserve, 3.8M gas. At 800 gas a byte
  a payload of 4.7 KB reaches that overhead; longer ones are admitted by the caps,
  and for them the property says nothing.
* `FitRequestsArrive`: under `FairSpec` a request arrives unless one before it does
  not fit the target's caps.

The first two are about a call that looked at the target, whose window starts no
later than the target's next request and which missed no revert: a receipt that
reverted sets `missed`, since `mineFromAToB` goes on to the next request, which then
meets a gap and reverts too, harmlessly. `relayAllPendingMessages` promises nothing
and is there as a competitor. That dropping requests *executed* at the source is
right rests on two chains: they are executed only when an answer came back, and an
answer exists only for what the target has ingested (`AnswersIngested` of the proof).

**Fairness.** A keeper polls `mineFromAToB(0, 0)` for ever (strong fairness, since a
call in progress disables the next one), a call that has begun goes on and a
transaction in flight lands or reverts (weak fairness), and pauses end.

**Abstractions.** A lookup on the target may also fail to decode, and then the request
is dropped if it is there: `SelectMined` leaves that open. Whether a request fits the
target's caps is a Boolean fixed when it is sent. Private keys, clients, logging and
the shape of tuples are left out. `relayMessage` calls functions no inbox has, and
`createRelayNode` needs a module the repository lacks. No test of the repository
drives the helper.

**Bounds.** `MaxSent` requests of either chain (three one way and an answer back),
`MaxPending` transactions of a relay in flight, `MaxFaults` crashes and pauses.

## 9. The models `DeployTables` and `Deploy`

`DeployTables` has what the scripts know of each network: legs, feeds, templates and
the checks on templates, with the numbers of the source. A price is the asset it is a
price of. `Deploy` has two chains, their pools of pending transactions,
`deployConfig.json` and terminals that run scripts.

| script | code |
|---|---|
| `InboxScript`, `ExecutorScript` | `deploy-inbox.ts`, `deploy-inbox-with-executor.ts` |
| `FullScript` | `deploy-full-testnet.ts` |
| `OracleScript`, `MigrateScript` | `deploy-oracle.ts`, `migrate-oracle.ts` |
| `DeployDeterministicInbox`, `EnsureMinerRegistered`, `DeployTestnetPriceOracle`, `DeployChainlinkPriceOracle`, ... | the functions of `deploy-utils.ts` and `createx.ts` they call |

A script is a sequence of steps `[chain, op, what]`, and one action per *kind* of step
does them: `Look` (a view decides whether to send), `Send` (simulate, put into the
pool, wait or not), `SendThrows`, `Underpriced` (COTI's replacement refusal),
`Inspect`, `ChooseOracle`, `ReadConfig`, `Record`. `Mine` mines the oldest transaction
of a chain and hands its receipt to the script that waits; `MineDeadFeed` is a refresh
that reads nothing; `GiveUp` is a kill, a dead node or a receipt that takes too long.

* `DependenciesInPlace`: an inbox is never without its fee manager, its owner and the
  codec it was initialized with; on COTI it was initialized with one.
* `BehindIsInEffect`: a step a script has passed is in effect, or pending where the
  script does not wait: the receipts of CreateX and of funding have no status looked
  at (`StatusUnread`), and two scripts deploy the same address at the same time.
* `RecordedIsUsable`: what the file names can be used, though each script writes back
  the file as it read it.
* `LegsPricePair`: an oracle an inbox is wired to prices the pair's two native tokens.
* `FeesCoverWorstCase`: templates from the file or the code pay for the longest
  message.
* `CalmRunsSucceed`: alone, a script succeeds, whatever was killed before it. This is
  so with `deploy-inbox.ts` run on the source chain only, as `package.json:20`-21 do: on
  COTI (line 23 runs the other script there) it would go on before the wiring of its preset
  oracle is mined, and COTI refuses the next transaction as an underpriced replacement.
* `RunsEnd`: every script ends, under weak fairness of a script's steps and of
  mining. Neither asks for more than a process that runs and a chain that goes on.

The scripts end and no more than `MaxStarts` are started, so the system stops and
deadlock is not checked.

**The codec.** Whether an inbox gets a codec is the script's choice (`deployReEncode`),
whatever the chain: `deploy-inbox.ts:53` asks for none, `deploy-inbox-with-executor.ts:47`
asks for one, `deploy-full-testnet.ts` for one on COTI only (line 168). `CodecOf` is the
address a script passes to `init`, and the ledger's `mpcAbiReEncode` what the inbox was
initialized with. `deploy-inbox.ts` on COTI would leave an inbox there without a codec, for
good, since `init` runs once and a rerun of the other script finds the inbox deployed. The
run starts it on Sepolia, as `package.json:20`-21 do, and the theorem about
`DependenciesInPlace` assumes so (`InboxAtSource`).

**Avalanche.** With `SourceChain = "avalancheFuji"`, the pair `SOURCE_NETWORK` offers
(`deploy-full-testnet.ts:20`), `LegsPricePair` fails: COTI's remote leg is priced as
ETH, although `deploy-utils.ts:153` says "remote = the paired chain's native token".
The table knows COTI's own chain id and not its partner. The run takes Sepolia.

**Abstractions.** Salts, labels and the addresses they give are names: the labels are
assumed different, so that contracts do not collide. CreateX is present. Environment
variables are a set in `Script.env`; a script that needs an inbox is started only when
there is one; the file has an entry per chain. The scripts of one pair sign with one
key. A factory's oracle is set like an inbox's. Fees that fail a check end
a script as *refused*, which is no failure of the script. Left out: the log, artifacts,
verification, the gas preflight, replacements at the same nonce on the source chain, a
node that answers reads from an older block, gas-price multipliers, mainnet feeds.

**Bounds.** Two terminals, `MaxStarts` = 2 scripts, one of them killed or one feed down.
Two starts are what a rerun after a kill and a race need; six scripts are started one
after the other and two of them while another runs, one per chain.

## 10. The model `ReEncode`

`MpcAbiReEncode.reEncodeWithGt` turns the typed arguments of a call into the calldata
of its target, and the target decodes them. Three loops have to agree: the first cuts
the arguments out by their declared lengths, has inputs validated and adds up the
tails, the second adds up the heads, the third writes both at cursors of its own.

| action | code (`MpcAbiReEncode.sol`) |
|---|---|
| `Begin` | 44-46 |
| `TakeArgument`, `RefuseArgument` | 54-77, `_slice`, `_normalizeArg`, `_requireWellFormedDynamic` |
| `EndArguments` | 78 |
| `CountHead` | 80-83 |
| `Allocate` | 84-88 |
| `FillStatic`, `FillDynamic`, `Return` | 90-108, `_writeWord`, `_copyBytes` |
| `DecodeArgument` | the decoder of the called function (external) |

`CalleeGetsArguments`: the target decodes every word of every argument that was let
through and no word of another, and `_copyBytes` finds room each time. The steps run
in one call and interleave with nothing; what the check varies is the mix of
arguments, the declared lengths and what the words of a slice hold.

**Abstractions.** Lengths of what comes in are in bytes; positions in the calldata are
in words of 32 bytes, since only whole words pass the checks. A word of calldata is word
`w` of argument `k`, or an offset. The first words of a slice, which the code reads as
an offset and a count, may hold any number of `Count`. An encrypted input decodes and
validates or does not, once it has the length a value and a signature take at least;
it becomes one word, `WideWords` words for 128 and 256 bits, or a string of cells. Of
nested arrays the code checks alignment and the first offset only: the offsets inside
are copied as they are, and whether they make sense is up to the target's decoder,
which `Expected` says nothing about beyond the words it gets.

**Bounds.** Up to three arguments, of one type per branch of the code, with
lengths that fit and lengths that do not; data a byte too
short and too long; a length missing. `Count` holds what decides the checks: 32 (the
offset), 0, 1 and 33 (lengths of bytes that fill no word, one and two). A call ends, so
deadlock is not checked.

## 11. Runs

| run | instance | shows |
|---|---|---|
| `core` | A sends two typed messages to B; pauses; B's clock runs to 2 with life 1 | `TwoWayCall` is implemented; type and safety invariants and step properties of one lane with all its failures; outcomes stay exclusive when failed calls are retried or expire |
| `lanes` | three chains; A sends to B and to C, B to A, also from inside target calls; two contracts per chain; calls paid 1 unit of gas and answers 2; B's remote cap retuned between the two at any time | order and contiguity when sends, answers and inbox errors compete for nonces, which are kept per lane; an inbox never swallows an answer because the caps changed (it reverts instead); answers come from the addressed contract or the inbox, and go to the sender |
| `live` | `core` with raw calls under `FairSpec` | every request is ingested, every answer gets back |
| `hatch` | one message, one contract per chain, budgets and weights 1 and 2, the caps of both chains retuned at any time | violated: see below |
| `oracle` | three tokens, one adapter, one price, intervals 0 and 2, under `FairSpec` | the cache follows the legs, legs keep their prices, and a steady live price reaches the cache |
| `oracle_gate` | `oracle` | violated: section 5 |
| `fees` | a variable and a constant template with skews 2/3 and 3/2, gas prices to 2, price ratios 1/2 and 3/2, two sizes, payments of 1 to 12 wei | types; quotes are honoured; gas is paid for, and enough for the call |
| `band_reads` | two tokens, bases and quotes, limits 0 and 1, a reference with code and one without | reads agree and are fresh |
| `band_eoa` | one token and base, otherwise `band_reads` | violated: section 7 |
| `relay` | a relay of one lane with three requests and other miners, one answer back, one pause or crash, under `FairSpec` | no request is skipped, no gap submitted, calls get their gas, what fits arrives |
| `deploy` | Sepolia and COTI, six scripts, two terminals, two starts, one fault, five contents of the file, under `FairSpec` | section 9 |
| `reencode` | calls of up to three arguments of nine kinds, fitting and not | arguments are laid out where the target's decoder looks for them |

Two messages on a lane are enough for order, gaps, stale batches and a batch of
two items of which the first fails; a lane and its return lane are enough for
answers, and three chains for what is kept per lane. `LaneBounds` keeps `lanes` small. It
leaves pauses out: a pause only disables steps, so it adds no storage, and `core` has
them. Only the remote cap of B changes, the cap the answers of B and its rejections of
A's requests are created under. C takes one-way messages: it is there so that A has
two lanes. Applications send from one contract to the same one, and the second
contract runs only below it, where it may try to answer. The liveness run leaves
out encode failures, which end an item in one step as rejections do. Three tokens
for two legs let a replaced token come back. The fee numbers are small but make every division round:
skews that do not divide, a price ratio above and one below one, bounds that bind
and bounds that do not; one invalid template and two invalid bounds are tried.
What small numbers cannot show, the theorems of section 12 do. Two tokens and two bases
let a bulk read mix bases, quotes and failures; ages one past the limit and one before
the block's time are all the comparisons tell apart. Other relays of a lane do
to one relay what other miners do, so one relay is enough for the run; the proofs
have any number of them, on both lanes. Three requests give a window a middle, and
gas for a request at the protocol's limit, without a prepaid amount, and between.

`hatch`: the documentation says that an overweight item can be resubmitted as a
reject item. If the owner lowered the caps below the *callback budget* of a message
in flight, the system-error leg of the rejection cannot be created, and the reject
item reverts as well: the lane waits until the caps are raised again
(`test/PocAuditFindings.ts`, PoC 8+9, drives the same case). With constant caps
`RejectHatchOpen` holds (run `core`).

`inboxErrorType` answers Exception for every linked leg, so a success callback sees
it too, although the comment in the function (`InboxBase.sol:401`) names `raise`
only. A handler shared by success and error cannot tell them apart by the type;
what the type does tell is `ErrorTypeTellsOrigin`.

## 12. Proofs

### `InboxProofs`

All theorems are about `Spec` of `Inbox` with any chains, contracts, caps and
bounds. They assume `ConstantsAssumption` only: the placeholder values (`NoId`,
`NoContext`, the zero address, SYSTEM_SENDER) are distinct from what they stand
beside, and the parameter sets have their types. The fee gas budgets being
positive is part of it; it is what a valid template guarantees.

| theorem | states |
|---|---|
| `TypeCorrect` | `[]TypeOK` |
| `InvariantHolds` | `[]IInv`, the inductive invariant |
| `AnswersUnique` | `[]OneReturnLeg` |
| `ContextSafe` | `[]ContextOnlyDuringCall` |
| `PauseSafe` | `PauseHaltsMessaging` |

*Type correctness* is inductive by itself. One lemma per handler operator
(`CreateRequestType`, `SendLegType`, `SystemErrorType`, `MarkOriginalType`,
`ExecutedType`, ...) says that it maps well-typed storage to well-typed storage; one
lemma per action combines them with `WriteType`, `FinishType` or `CommitType`, the
three ways an action puts storage back.

*The inductive invariant* is `IInv == TypeOK /\ LinkInv`. `OneReturnLeg` is not
inductive: a new leg could overwrite an old one if its id were taken, so `KeyedLog`
adds that every logged id is covered by the nonce counter of its lane and
`CreateRequestFresh` concludes that a created id is new; and a reply uses the
context's chain while the link demands the chain of the item's id, so
`InCallContext` adds that the two agree while a target runs. `LinkInv` says this of
committed storage and of both working copies, that committed storage has no
context, and that the chain of a transaction in progress is not paused (owner
calls happen between transactions), which gives `PauseSafe`. The lemmas ending in
`Linked` are about handlers, those ending in `Inv` about actions. `IInv` was also
model-checked on the instances of `core` and `lanes`.

### `InboxMessageProofs`

What the inboxes of all chains say together, for any chains, contracts, caps and bounds,
from `ConstantsAssumption`.

| theorem | states |
|---|---|
| `MessageInvariant` | `[]MessageInv`, the inductive invariant |
| `FifoHolds` | `[]FifoExactlyOnce` |
| `OutcomesHold` | `[]OutcomesExclusive` |
| `LegsHold` | `[]LegsAnswerTheirRequest` |
| `ExecutedHolds` | `[]ExecutedMeansAnswered` |
| `SignalsHold` | `[]SuccessSignalsFinal` |
| `ErrorTypeHolds` | `[]ErrorTypeTellsOrigin` |
| `CallsImplemented` | `ImplementsCalls`: `Inbox` implements `TwoWayCall` |
| `RejectHatchHolds` | `[](NoncesLeft => RejectHatchOpen)`, while the caps match |

*The inductive invariant* is `MessageInv`: `IInv`; `Peers(store)`, that the committed
storage of every chain is `Sound`; and `BatchSound` or `RetrySound` of the transaction
in progress. The parts of `Sound` need each other:

* `LogOK`: the log of a chain is well formed and has no gaps up to its nonces. The next
  item of a lane is then the request it looks like.
* `Lane`: what was ingested from a source is what that source logged, all of it up to the
  last nonce and nothing after. `FifoExactlyOnce` compares the storages of two chains and
  is inductive only with this, and with the logs only growing.
* `LegsFit`: an answer fits the request it answers. With `Lane` the two ends of a call
  see the same request.
* `Marks`: a request is marked exactly if its answer was ingested. This needs `Lane` in
  the opposite direction, `OneReturnLeg` (two answers would mark one request), and that
  an item, once on record, is never answered unless its call failed.
* `Outcomes`: an error and an answer of one item agree; `Signals`: one success event
  for each settled leg, none for a failed item. A retry may still change a failed item
  and no other, which is why `Failed` items are excluded wherever finality is claimed.

A batch writes several items before it commits, and a target runs in the middle of an
item, so the storages of a transaction satisfy these parts only up to what is in flux:
`last` (how far the lane has come), `fresh` (an item not counted as ingested yet) and
`open` (an item whose outcome is not settled yet). Lemmas about the handlers are stated
with these parameters and used for the committed storage, the working copy and the
call's own copy alike. `Evolves(old, new)` says what later storage keeps of earlier storage; by it
what the *other* chains know of a storage survives a commit (`Committed`), so an action
has to be looked at for one chain only.

*The refinement.* `InitSimulates` and `StepSimulates` give the initial states and the steps. A
step of `Inbox` writes one chain c or none. Seen by `CallStatus`, calls with source c
are sent, returned or stay, calls with target c run, fail, are answered, given up or
stay, and all others stay; `AnswerOK` keeps the answer of a call what it was.
`TwoWayCall` moves any number of calls in a step, so these cases form one step of it or a
stutter.

*The reject hatch.* With caps that the owner changes freely `RejectHatchOpen` is false
(run `hatch`). `CapsMatch(level)` says that there are levels, one per chain, which bound
what its senders may prepay for an answer and which every other chain lets an
answer spend. The shipped templates are so: each chain's local cap is the remote
cap of the other (`deploy-utils.ts:449`-454). As long as this stays true, `BudgetInv` says
that no message, logged or in a transaction, has prepaid more than the level of its chain, and `RejectIsOpen` derives
from `Lane` and `LogOK` that the system-error leg of the next item can be
created. `NoncesLeft` is needed because a spent nonce counter reverts every send.

`MessageInv` was also model-checked on the instances of `core` and `lanes`.

### `PriceOracleProofs`

`OracleTypeCorrect`, `CacheFollowsLegs` (`[]CacheOnlyForLegs`) and `PricesStay`
(`PricesNeverVanish`), for any tokens, adapters, prices and intervals, from
`OracleAssumption` (the empty slot and the revert are not values, prices are
positive). `CacheOnlyForLegs` is inductive together with the types; the step property
follows action by action.

### `FeeManagerProofs`

`FeeTypeCorrect`, `GasIsPaidFor`, `MessagesCanRun` and `QuotesAreHonoured`, for all
templates, prices, sizes and payments, from `FeeAssumption` (they are natural
numbers). The invariant `FeeInv` adds to the types that a quote was made by the
formula (`QuoteMade`) and a message met its floors (`MessageFunded`) under valid
templates, which later changes of templates and prices do not touch. The arithmetic
is in lemmas without state: `FloorDiv` and `CeilReaches` say what the two roundings
guarantee, `LegPaidFor` chains three roundings down, `LegBuysQuoted` shows that three
roundings up in the quote outweigh three down in the send, `FloorCovers` that a floor
leaves the call its gas.

`ShippedTemplatesInRange` says of every send under `Spec` of `FeeManager` that with the
shipped variable template its call is at most `LongestPriced` bytes long and that with
the constant one the leg buys exactly 25M gas, for any prices, multipliers, bounds and
payments. It follows from `FeeTypeCorrect`, from `LegsInRange` (an accepted leg is
between its floor and its cap) and from `FloorAboveCap` (arithmetic).

### `BandLiveOracleProofs`

`BandTypeCorrect`, `BulkReadsAgree` and `ReadsAreFresh` (of `BulkAgrees` and
`AnswersFresh`), for any tokens, symbols, limits and ages and any addresses the owner may
install, from `BandAssumption`. The properties are facts about one well-typed state:
`ReadCases` and `BulkCases` list what a read answers, `OlderStamp` and `PriceIsFresh`
say that the stamp the code checks bounds both.

### `RelayProofs`

`RelayTypeCorrect`, `NothingIsSkipped`, `NoGapIsSubmitted` and `StipendIsFull` (of
`RelayTypeOK`, `NothingSkipped`, `NoGapSubmitted`, `FullStipend`), for any number of
relays on any lanes, any windows, fees and faults, from `RelayAssumption` (types, and
an overhead within the headroom). The invariant `RelayInv` adds to the types
`AnswersIngested`, that every answer and every executed mark is about an ingested
request, and `CallSound`, what a call knows at each of its awaits: what the
first filter dropped is on the target, the nonce it read is not ahead of the target,
and while it submits, every request of its window is on the target, still to do or in
flight. `CallSoundFrame` carries this over what others do, because
ingested nonces only grow. `StipendFits` is the arithmetic of the 64th. `RelayInv` was
also model-checked.

### `DeployProofs`

For any pair of chains, scripts, terminals, file and faults, from `DeployAssumption`.

| theorem | states |
|---|---|
| `InstalledFeesCover` | `[]FeesCoverWorstCase` |
| `TemplatesInCodePass` | the built-in templates pass the checks on every test network, so a missing file never stops a deployment |
| `DeployInvariant` | `[]DeployInv`, the inductive invariant |
| `DeployTyped` | `[]DeployTypeOK` |
| `DependenciesHold` | `[]DependenciesInPlace`, for `deploy-inbox.ts` on the source chain |
| `BehindHolds` | `[]BehindIsInEffect` |
| `RecordedHolds` | `[]RecordedIsUsable` |
| `LegsPriceHolds` | `[]LegsPricePair`, for pairs other than Avalanche's |
| `CalmHolds` | `[]CalmRunsSucceed`, for `deploy-inbox.ts` on the source chain |

*Fees.* `FeesInv` says that the templates in pending transactions passed the scripts'
checks and the installed ones the inbox's as well, which no other step touches.

*The order of the steps.* Nothing on a chain enforces that a script deploys before it
wires; the order of its steps does. `Fits(B, step)` says which steps must be behind a script
before it comes to `step`, `Orderly` says so of a sequence. `Planned` is proved of the program
of every script, part by part (`Part`): no induction is needed, because a program is a
concatenation of parts of known steps.

*The inductive invariant* `DeployInv` carries this order over to the shared state:

* `RunSound`: what a script has ahead stays orderly after what it has behind, and what
  it has behind is `InForce`: in effect, or pending where the script does not wait. An oracle
  that was chosen is wired or will be, and has prices or a new one gets them (`Chosen`).
* `TxSound`: a pending transaction had what it depends on when it was sent; nothing of that
  is ever undone, so it still has when it is mined, also after its sender was killed.
* `LedgerOK`: an inbox has its fee manager, its owner and the codec it was initialized
  with; a wired oracle has prices.
* `Usable`, of the file *and of every script's copy of it*: a script writes back the
  file as it read it, so what the copy names has to stay usable while others write.
* `Waiting`: a script waits for one transaction, that of its step.

Which inboxes have a codec depends on which scripts are run where. `NeedsCodec(c)` is
`InboxAtSource` and c = COTI: under it an inbox script creates the codec before the inbox
(`Fits`), a pending inbox names it (`TxSound`) and a deployed one has it (`LedgerOK`), and
`DependenciesHold` assumes `InboxAtSource`. Of the other theorems only
`CalmHolds` assumes it too, for another reason (below).

The frame is small: `Grows` says what any step keeps of a chain, `Serves` that a
transaction leaves the pool only into effect where somebody relies on it, and `Moves` lifts this to
all chains; `RunSound`, `TxSound` and `Usable` of everything that does not move follow
from it. `PairInv` adds, for `LegsPricePair`, that no oracle of a chain ever prices
anything but the tokens of the chain's pair; the hypothesis `SourceChain # "avalancheFuji"`
is the case section 9 shows to fail.

*Scripts that are alone.* `CalmInv`: while a script is calm, nobody else runs, nothing is
pending but what it sent itself or does not wait for on the source chain (`Alone`), and what it
looked at before sending is still so (`Undisturbed`). Then none of its sends can throw or be
underpriced, nor can its simulation or its receipt fail. On COTI everything is awaited
(`Quiet`), because there a second transaction would be refused; `InboxAtSource` says that the
one script that does not await its wiring is not run there, which is what `package.json`
does. Without it the property is false (section 9). `DeployInv` and `CalmInv` were also
model-checked on the instance of `deploy`.

### `ReEncodeProofs`

`CalleeGetsAll` (of `CalleeGetsArguments`) and `ReEncodeTypeCorrect`, for any calls of
any number of arguments, any contents and widths, from `ReEncodeAssumption` (types).
`Layout` says that slots lie one after the other; the histories `heads` and `tails` of
the model are such layouts of what has been counted so far (`TakenSound`,
`CountedSound`). From there `SpotsApart` concludes that no two arguments share a word
and that all have room, `FilledInv` that writing one argument leaves the written ones
alone (`WrittenKept`), and `DecodeArgumentInv` that following heads and offsets finds
what was written. `Normalized` is the arithmetic of the length checks: whatever the words
of a slice hold, what passes has as many words as a decoder that trusts its count
reads. The invariant `ReEncodeInv` was also model-checked.

### Only model-checked

The liveness properties `EveryRequestIngested`, `EveryAnswerReturns`,
`LivePriceReachesCache`, `FitRequestsArrive` and `RunsEnd`: fairness and ENABLED are out of
the prover's reach. The three properties that a run shows to be violated are not
theorems. No definition of the models is recursive.

## 13. Not modelled

* Gas as it is consumed. Budgets, floors and gas limits are modelled (sections 6 and
  8); that a call runs out of gas is one of the ways it fails.
* The packing of request ids into 256 bits: `Inbox` has triples, and the nonce's width
  as `MaxNonce`. `Inbox` has of the re-encoder only whether it succeeds.
* Estimate mode, which always reverts, and `InboxEstimateGas`'s flag.
* Removal of miners, the transfer of ownership, a second `init`, the price admin:
  who may call what. `collectFees`, which empties the balance and nothing else.
* The Chainlink adapter contract and `readPriceWithMeta`.
* The production miner, which is not in the repository; `Relay` is the helper that is.
  Of the helper, `relayMessage` and `createRelayNode` (section 8).
* Of the scripts, what section 9 leaves out, and the maintenance scripts.
* Applications: an executor is one of the arbitrary contracts of `Inbox`.

A miner that submits forged items is outside the models, because the code trusts
registered miners completely.
