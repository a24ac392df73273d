------------------------------- MODULE Deploy -------------------------------
(***************************************************************************)
(* The deployment scripts of a pair of chains.  A script is a list of      *)
(* steps; its awaits are where another script, a crash or the chain itself *)
(* comes between.  All scripts sign with one key, which owns what they     *)
(* deploy.  A transaction outlives the script that sent it.                *)
(*                                                                         *)
(* Reading and writing deployConfig.json are steps of their own.  The log  *)
(* file, artifacts, verification and the reading of environment variables  *)
(* are left out.  CreateX is on both chains; the labels of the salts       *)
(* differ, so that the three contracts have three addresses.               *)
(***************************************************************************)
EXTENDS DeployTables, Sequences

CONSTANTS
  Run,          \* terminals scripts are started in
  SourceChain,  \* the chain that is paired with COTI
  Scripts,      \* scripts that are started: name, chain, environment
  Racing,       \* those that are started while another one runs
  FeeEntries,   \* what the file may have as fees: one pair, or none of use
  MaxStarts,    \* bound: scripts started
  MaxFaults     \* bound: scripts killed or timed out, and feeds that are down

Chain == {SourceChain, CotiTestnet}
Paired(c) == IF c = CotiTestnet THEN SourceChain ELSE CotiTestnet

Script ==
  [name : {"inbox", "executor", "full", "oracle", "migrate"}, chain : Chain,
   env : SUBSET {"USE_PLAIN_ORACLE", "INBOX_ADDRESS", "FACTORY_ADDRESS", "ONLY_MPC_ADDER"}]

ASSUME DeployAssumption ==
  /\ SourceChain \in SourceTestnets
  /\ Scripts \subseteq Script
  /\ Racing \subseteq Scripts
  /\ \A entry \in FeeEntries :
       entry \subseteq FeePair /\ \A a, b \in entry : a = b
  /\ MaxStarts \in Nat
  /\ MaxFaults \in Nat

VARIABLES
  ledger,  \* the contracts of each chain
  pool,    \* transactions of each chain that are not mined yet, by nonce
  config,  \* chains of deployConfig.json
  run,     \* what each terminal is doing
  starts,  \* scripts started so far
  faults   \* faults so far

vars == <<ledger, pool, config, run, starts, faults>>

NoOracle == 0

\* An oracle is known by its place among those of its chain.
Bare == [set |-> {}, legs |-> [leg \in Leg |-> NoPrice]]

NotRecorded == [c \in Chain |-> [inbox |-> FALSE, oracle |-> NoOracle, executor |-> FALSE]]

\* calm: alone since it started, with nothing left over by others.
Idle ==
  [pc |-> "idle", todo |-> <<>>, done |-> {}, oracle |-> [c \in Chain |-> NoOracle],
   snapshot |-> NotRecorded, calm |-> FALSE, outcome |-> "none"]

Init ==
  /\ ledger = [c \in Chain |->
       [code |-> {}, owner |-> "none", mpcAbiReEncode |-> FALSE, miner |-> FALSE,
        oracle |-> NoOracle, fees |-> {}, oracles |-> <<>>, factory |-> NoOracle,
        apps |-> {}]]
  /\ pool = [c \in Chain |-> <<>>]
  /\ config = NotRecorded
  /\ run = [p \in Run |-> Idle]
  /\ starts = 0
  /\ faults = 0

-----------------------------------------------------------------------------
(* The scripts.                                                            *)

Step(c, op, what) == [chain |-> c, op |-> op, what |-> what]

When(condition, steps) == IF condition THEN steps ELSE <<>>

\* One step per leg, the local leg first.
Each(c, op, legs) ==
  When("local" \in legs, <<Step(c, op, "local")>>)
  \o When("remote" \in legs, <<Step(c, op, "remote")>>)

\* Mutant: the codec follows the inbox that should name it.
DeployDeterministicInboxLate(c, deployReEncode) ==
  <<Step(c, "create", "feeManager"), Step(c, "create", "inbox"),
    Step(c, "inspect", "owner")>>
  \o When(deployReEncode, <<Step(c, "create", "codec")>>)

\* The codec comes first: the inbox is initialized with its address.
DeployDeterministicInbox(c, deployReEncode) ==
  When(deployReEncode, <<Step(c, "create", "codec")>>)
  \o <<Step(c, "create", "feeManager"), Step(c, "create", "inbox"),
       Step(c, "inspect", "owner")>>

EnsureMinerRegistered(c) == <<Step(c, "addMiner", "miner")>>

DeployTestnetPriceOracle(c) ==
  <<Step(c, "deploy", "PriceOracle"), Step(c, "setToken", "inbox")>>
  \o Each(c, "setPrice", Leg) \o Each(c, "resetPrice", Leg)
  \o <<Step(c, "inspect", "legs")>>

DeployChainlinkPriceOracle(c) ==
  <<Step(c, "deploy", "ChainlinkLiveOracle")>> \o Each(c, "setFeed", FeedLegs(c))
  \o <<Step(c, "deploy", "PoDPriceOracle"), Step(c, "setToken", "inbox")>>
  \o Each(c, "setPrice", ManualLegs(c))
  \o When(FeedLegs(c) # {}, <<Step(c, "refreshCache", "feeds")>>)
  \o <<Step(c, "inspect", "legs")>>
  \o When(HasUsdc(c), <<Step(c, "setToken", "usdc")>>)

SetPriceOracle(c, where) == <<Step(c, "setPriceOracle", where)>>

DeployAndWireTestnetPriceOracle(c) ==
  DeployTestnetPriceOracle(c) \o SetPriceOracle(c, "inbox")

ConfigureTestnetInboxMinFees(c) == <<Step(c, "updateMinFeeConfigs", "fees")>>

\* Mutant: the chain is recorded before its fees are set.
InboxScriptEarly(s) ==
  <<Step(s.chain, "readConfig", s.name)>> \o DeployDeterministicInbox(s.chain, FALSE)
  \o EnsureMinerRegistered(s.chain) \o <<Step(s.chain, "choose", "oracle")>>
  \o <<Step(s.chain, "record", s.name)>> \o ConfigureTestnetInboxMinFees(s.chain)

\* deploy-inbox.ts, which asks for no codec on any chain; the file is written as
\* it was read here.
InboxScript(s) ==
  <<Step(s.chain, "readConfig", s.name)>> \o DeployDeterministicInbox(s.chain, FALSE)
  \o EnsureMinerRegistered(s.chain) \o <<Step(s.chain, "choose", "oracle")>>
  \o ConfigureTestnetInboxMinFees(s.chain) \o <<Step(s.chain, "record", s.name)>>

\* deploy-inbox-with-executor.ts, which asks for the codec; records nothing.
ExecutorScript(s) ==
  DeployDeterministicInbox(s.chain, TRUE)
  \o <<Step(s.chain, "deploy", "MpcExecutor")>>
  \o EnsureMinerRegistered(s.chain)

App(what) == <<Step(SourceChain, "deploy", what)>>
Fund(what) == <<Step(SourceChain, "fund", what)>>
Configure(what) == <<Step(SourceChain, "configure", what)>>

\* deploy-full-testnet.ts up to the applications.
FullScriptOf(c) ==
  DeployDeterministicInbox(c, c = CotiTestnet)
  \o When(c = CotiTestnet, <<Step(c, "deploy", "MpcExecutor")>>)
  \o EnsureMinerRegistered(c) \o DeployAndWireTestnetPriceOracle(c)
  \o ConfigureTestnetInboxMinFees(c)

Applications(s) ==
  When("ONLY_MPC_ADDER" \notin s.env, App("Millionaire") \o Configure("Millionaire"))
  \o App("MpcAdder") \o Fund("MpcAdder") \o Configure("MpcAdder")
  \o When("ONLY_MPC_ADDER" \notin s.env, App("PErc20") \o Fund("PErc20") \o Configure("PErc20"))

FullScript(s) ==
  FullScriptOf(SourceChain) \o FullScriptOf(CotiTestnet) \o Applications(s)
  \o <<Step(CotiTestnet, "deploy", "PErc20Coti"), Step(SourceChain, "readConfig", s.name),
       Step(SourceChain, "record", s.name)>>

NewOracle(s) ==
  IF "USE_PLAIN_ORACLE" \in s.env THEN DeployTestnetPriceOracle(s.chain)
  ELSE DeployChainlinkPriceOracle(s.chain)

\* deploy-oracle.ts
OracleScript(s) ==
  NewOracle(s)
  \o When("INBOX_ADDRESS" \in s.env, SetPriceOracle(s.chain, "inbox"))
  \o When("FACTORY_ADDRESS" \in s.env, SetPriceOracle(s.chain, "factory"))
  \o <<Step(s.chain, "readConfig", s.name), Step(s.chain, "record", s.name)>>

\* migrate-oracle.ts; records nothing.
MigrateScript(s) ==
  NewOracle(s) \o SetPriceOracle(s.chain, "inbox")
  \o When("FACTORY_ADDRESS" \in s.env, SetPriceOracle(s.chain, "factory"))

Program(s) ==
  CASE s.name = "inbox"    -> InboxScript(s)
    [] s.name = "executor" -> ExecutorScript(s)
    [] s.name = "full"     -> FullScript(s)
    [] s.name = "oracle"   -> OracleScript(s)
    [] s.name = "migrate"  -> MigrateScript(s)

-----------------------------------------------------------------------------
(* The chains.                                                             *)

Priced(c, o) == \A leg \in Leg : ledger[c].oracles[o].legs[leg] # NoPrice

\* Whether transaction tx would revert on c now.
Reverts(c, tx) ==
  LET op == tx.step.op
      what == tx.step.what
  IN  \/ op = "create" /\ what \in ledger[c].code
      \/ op = "create" /\ what = "inbox" /\ "feeManager" \notin ledger[c].code
      \/ op = "addMiner" /\ ledger[c].miner
      \/ op \in {"setPrice", "resetPrice"} /\ "inbox" \notin ledger[c].oracles[tx.oracle].set
      \/ op = "setPriceOracle" /\ ~Priced(c, tx.oracle)
      \/ op = "updateMinFeeConfigs"
           /\ \E pair \in tx.fees, leg \in Leg : ~RequireValidFeeConfig(pair[leg])

OracleMade(step) ==
  step.op = "deploy" /\ step.what \in {"PriceOracle", "ChainlinkLiveOracle"}

\* The chain after tx; the inbox is initialized as it is created.
Effect(c, tx) ==
  LET op == tx.step.op
      what == tx.step.what
      o == tx.oracle
  IN  CASE op = "create" ->
             [ledger[c] EXCEPT !.code = @ \cup {what},
                               !.owner = IF what = "inbox" THEN "deployer" ELSE @,
                               !.mpcAbiReEncode = IF what = "inbox" THEN tx.codec ELSE @]
        [] op = "addMiner" -> [ledger[c] EXCEPT !.miner = TRUE]
        [] OracleMade(tx.step) -> [ledger[c] EXCEPT !.oracles = Append(@, Bare)]
        [] op \in {"setToken", "setFeed"} ->
             [ledger[c] EXCEPT !.oracles[o].set = @ \cup {what}]
        [] op \in {"setPrice", "resetPrice"} ->
             [ledger[c] EXCEPT !.oracles[o].legs[what] = OracleUsdPricesForChain(c)[what]]
        [] op = "refreshCache" ->
             [ledger[c] EXCEPT !.oracles[o].legs =
                [leg \in Leg |-> IF leg \in ledger[c].oracles[o].set
                                 THEN NativeToken(IF leg = "local" THEN c ELSE Paired(c))
                                 ELSE @[leg]]]
        [] op = "setPriceOracle" /\ what = "factory" -> [ledger[c] EXCEPT !.factory = o]
        [] op = "setPriceOracle" /\ what # "factory" -> [ledger[c] EXCEPT !.oracle = o]
        [] op = "updateMinFeeConfigs" -> [ledger[c] EXCEPT !.fees = tx.fees]
        [] OTHER -> [ledger[c] EXCEPT !.apps = @ \cup {tx.step}]

-----------------------------------------------------------------------------
(* A script's steps.                                                       *)

Becomes(p, r) == run' = [run EXCEPT ![p] = r]

At(p, pc, ops) ==
  /\ run[p].pc = pc
  /\ run[p].todo # <<>>
  /\ Head(run[p].todo).op \in ops

Now(p) == Head(run[p].todo)

\* Mutant: the script goes on waiting.
PastWaiting(r) == [r EXCEPT !.done = @ \cup {Head(r.todo)}, !.todo = Tail(@)]

\* r with its first step behind it.
Past(r) ==
  [r EXCEPT !.pc = "ready", !.done = @ \cup {Head(r.todo)}, !.todo = Tail(@)]

Ended(p, outcome) == [Idle EXCEPT !.calm = run[p].calm, !.outcome = outcome]

\* Nobody waits for the transactions of a script that is gone.
Disowned(p) ==
  [c \in Chain |-> [i \in DOMAIN pool[c] |-> [pool[c][i] EXCEPT !.by = @ \ {p}]]]

\* An operator starts s; where it needs an inbox, that is there.
Start(p, s) ==
  /\ run[p].pc = "idle"
  /\ starts < MaxStarts
  /\ s \in Racing \/ \A q \in Run : run[q].pc = "idle"
  /\ s.name = "migrate" \/ "INBOX_ADDRESS" \in s.env => "inbox" \in ledger[s.chain].code
  /\ run' = [q \in Run |->
       IF q # p THEN [run[q] EXCEPT !.calm = FALSE]
       ELSE [Idle EXCEPT !.pc = "ready", !.todo = Program(s),
               !.calm = /\ \A other \in Run : run[other].pc = "idle"
                        /\ \A c \in Chain : pool[c] = <<>>]]
  /\ starts' = starts + 1
  /\ UNCHANGED <<ledger, pool, config, faults>>

ReadConfig(p) ==
  /\ At(p, "ready", {"readConfig"})
  /\ Becomes(p, Past([run[p] EXCEPT !.snapshot = config]))
  /\ UNCHANGED <<ledger, pool, config, starts, faults>>

\* Ops that look before they send.
Looking == {"create", "addMiner", "resetPrice"}

\* Mutant: a registered miner is registered again.
ThereNoMiner(p) ==
  LET l == ledger[Now(p).chain]
  IN  CASE Now(p).op = "create"     -> Now(p).what \in l.code
        [] Now(p).op = "addMiner"   -> FALSE
        [] Now(p).op = "resetPrice" ->
             l.oracles[run[p].oracle[Now(p).chain]].legs[Now(p).what] # NoPrice

\* isContractDeployed, isMiner, and the price read back.
There(p) ==
  LET l == ledger[Now(p).chain]
  IN  CASE Now(p).op = "create"     -> Now(p).what \in l.code
        [] Now(p).op = "addMiner"   -> l.miner
        [] Now(p).op = "resetPrice" ->
             l.oracles[run[p].oracle[Now(p).chain]].legs[Now(p).what] # NoPrice

Look(p) ==
  /\ At(p, "ready", Looking)
  /\ Becomes(p, IF There(p) THEN Past(run[p]) ELSE [run[p] EXCEPT !.pc = "send"])
  /\ UNCHANGED <<ledger, pool, config, starts, faults>>

\* The owner of the inbox and the legs of the oracle must be right.
Inspect(p) ==
  LET c == Now(p).chain
  IN  /\ At(p, "ready", {"inspect"})
      /\ Becomes(p, IF \/ Now(p).what = "owner" /\ ledger[c].owner = "deployer"
                       \/ Now(p).what = "legs" /\ Priced(c, run[p].oracle[c])
                    THEN Past(run[p]) ELSE Ended(p, "failed"))
      /\ UNCHANGED <<ledger, pool, config, starts, faults>>

\* The oracle the inbox has, else the file's, else a new one.
ChooseOracle(p) ==
  LET c == Now(p).chain
      Goes(o, steps) ==
        Becomes(p, [Past(run[p]) EXCEPT !.oracle[c] = o,
                                        !.todo = steps \o Tail(run[p].todo)])
  IN  /\ At(p, "ready", {"choose"})
      /\ \/ ledger[c].oracle # NoOracle /\ Goes(ledger[c].oracle, <<>>)
         \/ /\ ledger[c].oracle = NoOracle
            /\ run[p].snapshot[c].oracle # NoOracle
            /\ Goes(run[p].snapshot[c].oracle, SetPriceOracle(c, "preset"))
         \/ /\ ledger[c].oracle = NoOracle
            /\ run[p].snapshot[c].oracle = NoOracle
            /\ Goes(NoOracle, DeployAndWireTestnetPriceOracle(c))
      /\ UNCHANGED <<ledger, pool, config, starts, faults>>

\* The file as it was read, with what this script deployed.
Record(p) ==
  LET name == Now(p).what
      r == run[p]
      Recorded(c) ==
        CASE name = "inbox"  -> [r.snapshot[c] EXCEPT !.inbox = TRUE, !.oracle = r.oracle[c]]
          [] name = "full"   -> [inbox |-> TRUE, oracle |-> r.oracle[c],
                                 executor |-> c = CotiTestnet \/ r.snapshot[c].executor]
          [] name = "oracle" -> [r.snapshot[c] EXCEPT !.oracle = r.oracle[c]]
  IN  /\ At(p, "ready", {"record"})
      /\ config' = [c \in Chain |->
           IF c = Now(p).chain \/ name = "full" THEN Recorded(c) ELSE r.snapshot[c]]
      /\ Becomes(p, Past(r))
      /\ UNCHANGED <<ledger, pool, starts, faults>>

Local == {"readConfig", "inspect", "choose", "record"}

\* p is about to send the transaction of its step.
Sending(p) ==
  /\ run[p].todo # <<>>
  /\ Now(p).op \notin Local
  /\ run[p].pc = IF Now(p).op \in Looking THEN "send" ELSE "ready"

\* Mutant: what CreateX deploys is not awaited either.
AwaitedSometimes(step) == step.op \notin {"configure", "create"} /\ step.what # "preset"

Awaited(step) == step.op # "configure" /\ step.what # "preset"

FeesOf(p) ==
  IF Now(p).op # "updateMinFeeConfigs" THEN {{}}
  ELSE {ReadFeeConfigForChain(Now(p).chain, entry) : entry \in FeeEntries}

\* The script has an address of a codec to initialize the inbox with.
CodecOf(p) == Step(Now(p).chain, "create", "codec") \in run[p].done

TxOf(p, fees) ==
  [step |-> Now(p), oracle |-> run[p].oracle[Now(p).chain], fees |-> fees,
   codec |-> CodecOf(p), by |-> IF Awaited(Now(p)) THEN {p} ELSE {}]

Refused(p, fees) == Now(p).op = "updateMinFeeConfigs" /\ fees = {}

\* A call that passes its simulation or estimate goes into the pool.
Send(p) ==
  LET c == Now(p).chain
  IN  /\ Sending(p)
      /\ \E fees \in FeesOf(p) :
           /\ ~Refused(p, fees)
           /\ ~Reverts(c, TxOf(p, fees))
           /\ pool' = [pool EXCEPT ![c] = Append(@, TxOf(p, fees))]
      /\ Becomes(p, IF Awaited(Now(p)) THEN [run[p] EXCEPT !.pc = "wait"] ELSE Past(run[p]))
      /\ UNCHANGED <<ledger, config, starts, faults>>

\* Otherwise the script throws: fees are refused, or someone was faster.
SendThrows(p) ==
  /\ Sending(p)
  /\ \E fees \in FeesOf(p) :
       /\ Refused(p, fees) \/ Reverts(Now(p).chain, TxOf(p, fees))
       /\ Becomes(p, Ended(p, IF Now(p).op = "updateMinFeeConfigs" THEN "refused"
                              ELSE "failed"))
  /\ UNCHANGED <<ledger, pool, config, starts, faults>>

\* COTI gives out a nonce again while its transaction is pending.
Underpriced(p) ==
  /\ Sending(p)
  /\ Now(p).chain = CotiTestnet
  /\ pool[CotiTestnet] # <<>>
  /\ Becomes(p, Ended(p, "failed"))
  /\ UNCHANGED <<ledger, pool, config, starts, faults>>

\* Only waitMined looks at the status of a receipt.
StatusUnread(step) == step.op \in {"create", "fund"}

\* Mutant: a script does not see the receipt of a transaction that reverted.
ReceivedIfOk(p, tx, ok) ==
  IF ~ok THEN run[p]
  ELSE IF OracleMade(tx.step)
       THEN [Past(run[p]) EXCEPT !.oracle[tx.step.chain] =
               Len(ledger[tx.step.chain].oracles) + 1]
       ELSE Past(run[p])

\* p gets the receipt it waits for.
Received(p, tx, ok) ==
  IF ~ok /\ ~StatusUnread(tx.step) THEN Ended(p, "failed")
  ELSE IF OracleMade(tx.step)
       THEN [Past(run[p]) EXCEPT !.oracle[tx.step.chain] =
               Len(ledger[tx.step.chain].oracles) + 1]
       ELSE Past(run[p])

\* The oldest transaction of c is mined.
Mine(c) ==
  LET tx == Head(pool[c])
      ok == ~Reverts(c, tx)
  IN  /\ pool[c] # <<>>
      /\ pool' = [pool EXCEPT ![c] = Tail(@)]
      /\ ledger' = IF ok THEN [ledger EXCEPT ![c] = Effect(c, tx)] ELSE ledger
      /\ run' = [p \in Run |-> IF p \in tx.by THEN Received(p, tx, ok) ELSE run[p]]
      /\ UNCHANGED <<config, starts, faults>>

\* A refresh reads nothing from a feed that is down.
MineDeadFeed(c) ==
  LET tx == Head(pool[c])
  IN  /\ pool[c] # <<>>
      /\ tx.step.op = "refreshCache"
      /\ faults < MaxFaults
      /\ pool' = [pool EXCEPT ![c] = Tail(@)]
      /\ run' = [p \in Run |->
           IF p \in tx.by THEN [Received(p, tx, TRUE) EXCEPT !.calm = FALSE] ELSE run[p]]
      /\ faults' = faults + 1
      /\ UNCHANGED <<ledger, config, starts>>

\* The script is killed, its node fails, or a receipt takes too long.
GiveUp(p) ==
  /\ run[p].pc # "idle"
  /\ faults < MaxFaults
  /\ Becomes(p, [Ended(p, "failed") EXCEPT !.calm = FALSE])
  /\ pool' = Disowned(p)
  /\ faults' = faults + 1
  /\ UNCHANGED <<ledger, config, starts>>

Finish(p) ==
  /\ run[p].pc = "ready"
  /\ run[p].todo = <<>>
  /\ Becomes(p, Ended(p, "done"))
  /\ UNCHANGED <<ledger, pool, config, starts, faults>>

-----------------------------------------------------------------------------
Work(p) ==
  \/ ReadConfig(p) \/ Look(p) \/ Inspect(p) \/ ChooseOracle(p) \/ Record(p)
  \/ Send(p) \/ SendThrows(p) \/ Underpriced(p) \/ Finish(p)

Next ==
  \/ \E p \in Run, s \in Scripts : Start(p, s)
  \/ \E p \in Run : Work(p) \/ GiveUp(p)
  \/ \E c \in Chain : Mine(c) \/ MineDeadFeed(c)

Spec == Init /\ [][Next]_vars

\* A script does not stop by itself, and a transaction sent is mined.
FairSpec ==
  /\ Spec
  /\ \A p \in Run : WF_vars(Work(p))
  /\ \A c \in Chain : WF_vars(Mine(c))

-----------------------------------------------------------------------------
(* Types; what is recorded or wired is one of the chain's oracles.         *)
DeployTypeOK ==
  /\ \A c \in Chain :
       /\ ledger[c].code \subseteq {"codec", "feeManager", "inbox"}
       /\ ledger[c].owner \in {"none", "deployer"}
       /\ ledger[c].mpcAbiReEncode \in BOOLEAN
       /\ ledger[c].fees \subseteq FeePair
       /\ ledger[c].oracle \in 0 .. Len(ledger[c].oracles)
       /\ ledger[c].factory \in 0 .. Len(ledger[c].oracles)
       /\ config[c].oracle \in 0 .. Len(ledger[c].oracles)
       /\ \A i \in DOMAIN pool[c] : pool[c][i].step.chain = c /\ pool[c][i].by \subseteq Run
  /\ \A p \in Run :
       /\ run[p].pc \in {"idle", "ready", "send", "wait"}
       /\ run[p].outcome \in {"none", "done", "failed", "refused"}
       /\ \A c \in Chain : run[p].oracle[c] \in 0 .. Len(ledger[c].oracles)
       /\ run[p].pc = "wait" =>
            \E c \in Chain : \E i \in DOMAIN pool[c] : p \in pool[c][i].by
  /\ starts \in 0 .. MaxStarts
  /\ faults \in 0 .. MaxFaults

Pending(step) == \E i \in DOMAIN pool[step.chain] : pool[step.chain][i].step = step

\* Wherever an inbox is, what it was initialized with is there too, on COTI also
\* the codec, and it is the deployer's, in whatever order scripts were started,
\* killed and rerun.
DependenciesInPlace ==
  \A c \in Chain : "inbox" \in ledger[c].code =>
    /\ ledger[c].owner = "deployer"
    /\ "feeManager" \in ledger[c].code
    /\ ledger[c].mpcAbiReEncode => "codec" \in ledger[c].code
    /\ c = CotiTestnet => ledger[c].mpcAbiReEncode

\* The effect of a step, for the script that has it behind it.
InEffect(p, step) ==
  LET l == ledger[step.chain]
      o == run[p].oracle[step.chain]
  IN  CASE step.op = "create"                  -> step.what \in l.code
        [] step.op = "addMiner"                -> l.miner
        [] step.op \in {"setPrice", "resetPrice"} -> l.oracles[o].legs[step.what] # NoPrice
        [] step.op \in {"setToken", "setFeed"} -> step.what \in l.oracles[o].set
        [] step.op = "updateMinFeeConfigs"     -> l.fees # {}
        [] step.op = "setPriceOracle" /\ step.what = "factory" -> l.factory # NoOracle
        [] step.op = "setPriceOracle" /\ step.what # "factory" ->
             l.oracle # NoOracle \/ Pending(step)
        [] step.op \in {"fund", "configure"}   -> step \in l.apps \/ Pending(step)
        [] OTHER                               -> TRUE

\* A step a script has behind it is in effect, or its transaction is on its way
\* where the script does not wait: though the receipts of CreateX have no
\* status looked at, and other scripts do the same steps at the same time.
BehindIsInEffect ==
  \A p \in Run : \A step \in run[p].done : InEffect(p, step)

\* What deployConfig.json names can be used: the inbox has its owner, its miner,
\* its fees and an oracle, at least on its way, and the oracle named has prices.
RecordedIsUsable ==
  \A c \in Chain :
    /\ config[c].oracle # NoOracle => Priced(c, config[c].oracle)
    /\ config[c].inbox =>
         /\ "inbox" \in ledger[c].code
         /\ ledger[c].miner
         /\ ledger[c].fees # {}
         /\ config[c].oracle # NoOracle
         /\ ledger[c].oracle # NoOracle \/ Pending(Step(c, "setPriceOracle", "preset"))

\* An inbox is wired to prices of the two native tokens of its pair, each on its
\* own leg, whether a feed or the deployer gave them.
LegsPricePair ==
  \A c \in Chain : ledger[c].oracle # NoOracle =>
    ledger[c].oracles[ledger[c].oracle].legs =
      [local |-> NativeToken(c), remote |-> NativeToken(Paired(c))]

\* Whatever the file says, a constant fee that is installed pays for the largest
\* message, and an error costs no more than the inbox returns of it.
FeesCoverWorstCase ==
  \A c \in Chain : \A pair \in ledger[c].fees : \A leg \in Leg :
    /\ AssertConstantFeeCoversWorstCase(pair[leg])
    /\ AssertErrorLengthWithinReturnDataCap(pair[leg])
    /\ RequireValidFeeConfig(pair[leg])

\* A script that is alone, with no fault and nothing left over by others, does
\* not fail: so one that was killed anywhere can be run again.
CalmRunsSucceed ==
  \A p \in Run : run[p].calm => run[p].outcome # "failed"

\* Every script comes to an end.
RunsEnd ==
  \A p \in Run : run[p].pc # "idle" ~> run[p].pc = "idle"

=============================================================================
