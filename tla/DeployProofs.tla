---------------------------- MODULE DeployProofs ----------------------------
(***************************************************************************)
(* Proofs about the deployment scripts, for any chains, any scripts on any *)
(* terminals and whatever deployConfig.json says of fees: the fees that are*)
(* installed; the order of every script's steps; the invariant of scripts, *)
(* chains and file that this order carries; the prices of the pair; and the*)
(* scripts that are alone.                                                 *)
(***************************************************************************)
EXTENDS Deploy, SequenceTheorems, TLAPS

\* A pair of templates that passed the scripts' checks.
Checked(pair) ==
  \A leg \in Leg : /\ AssertConstantFeeCoversWorstCase(pair[leg])
                   /\ AssertErrorLengthWithinReturnDataCap(pair[leg])

\* A transaction whose fees, if any, passed the checks before it was sent.
SoundTx(tx) ==
  /\ tx = [step |-> tx.step, oracle |-> tx.oracle, fees |-> tx.fees,
            codec |-> tx.codec, by |-> tx.by]
  /\ \A pair \in tx.fees : Checked(pair)

\* What is pending has been checked.
PoolSound ==
  /\ pool = [c \in Chain |-> pool[c]]
  /\ \A c \in Chain : \E S : pool[c] \in Seq(S) /\ \A tx \in S : SoundTx(tx)

\* Each chain keeps its record, and its fees have been checked by both sides.
LedgerSound ==
  /\ ledger = [c \in Chain |-> ledger[c]]
  /\ \A c \in Chain :
       /\ ledger[c] = [code |-> ledger[c].code, owner |-> ledger[c].owner,
                       mpcAbiReEncode |-> ledger[c].mpcAbiReEncode,
                       miner |-> ledger[c].miner, oracle |-> ledger[c].oracle,
                       fees |-> ledger[c].fees, oracles |-> ledger[c].oracles,
                       factory |-> ledger[c].factory, apps |-> ledger[c].apps]
       /\ \A pair \in ledger[c].fees :
            Checked(pair) /\ \A leg \in Leg : RequireValidFeeConfig(pair[leg])

FeesInv == PoolSound /\ LedgerSound

-----------------------------------------------------------------------------
(* What is read from the file, or taken from the code, was checked.        *)
LEMMA ReadIsChecked ==
  ASSUME NEW c, NEW entry, NEW pair \in ReadFeeConfigForChain(c, entry)
  PROVE  Checked(pair)
BY DEF ReadFeeConfigForChain, Checked

LEMMA SentIsSound ==
  ASSUME NEW p, NEW fees \in FeesOf(p)
  PROVE  SoundTx(TxOf(p, fees))
<1>1. \A pair \in fees : Checked(pair)
  BY ReadIsChecked DEF FeesOf
<1>. QED  BY <1>1 DEF SoundTx, TxOf

\* Disowning a script's transactions leaves their fees alone.
LEMMA DisownedSound ==
  ASSUME PoolSound, NEW p
  PROVE  /\ Disowned(p) = [c \in Chain |-> Disowned(p)[c]]
         /\ \A c \in Chain :
              \E S : Disowned(p)[c] \in Seq(S) /\ \A tx \in S : SoundTx(tx)
<1>. DEFINE Without(tx) == [tx EXCEPT !.by = @ \ {p}]
<1>1. ASSUME NEW tx, SoundTx(tx) PROVE SoundTx(Without(tx))
  BY <1>1 DEF SoundTx
<1>2. ASSUME NEW c \in Chain
      PROVE  \E S : Disowned(p)[c] \in Seq(S) /\ \A tx \in S : SoundTx(tx)
  <2>1. PICK S : pool[c] \in Seq(S) /\ \A tx \in S : SoundTx(tx)
    BY DEF PoolSound
  <2>. DEFINE T == {Without(tx) : tx \in S}
  <2>2. Disowned(p)[c] = [i \in DOMAIN pool[c] |-> Without(pool[c][i])]
    BY DEF Disowned
  <2>3. /\ DOMAIN pool[c] = 1 .. Len(pool[c])
        /\ Len(pool[c]) \in Nat
        /\ \A i \in DOMAIN pool[c] : pool[c][i] \in S
    BY <2>1
  <2>4. \A i \in DOMAIN pool[c] : Without(pool[c][i]) \in T
    BY <2>3
  <2>. HIDE DEF T, Without
  <2>5. Disowned(p)[c] \in [1 .. Len(pool[c]) -> T]
    BY <2>2, <2>3, <2>4
  <2>6. Disowned(p)[c] \in Seq(T)
    BY <2>3, <2>5, SeqDef
  <2>7. \A tx \in T : SoundTx(tx)
    BY <1>1, <2>1 DEF T
  <2>. QED  BY <2>6, <2>7
<1>. QED  BY <1>2 DEF Disowned

\* A transaction that is mined changes nothing but its part of the record.
LEMMA EffectSound ==
  ASSUME LedgerSound, NEW c \in Chain, NEW tx, SoundTx(tx), ~Reverts(c, tx),
         NEW l, l = Effect(c, tx)
  PROVE  /\ l = [code |-> l.code, owner |-> l.owner,
                 mpcAbiReEncode |-> l.mpcAbiReEncode, miner |-> l.miner,
                 oracle |-> l.oracle, fees |-> l.fees, oracles |-> l.oracles,
                 factory |-> l.factory, apps |-> l.apps]
         /\ \A pair \in l.fees :
              Checked(pair) /\ \A leg \in Leg : RequireValidFeeConfig(pair[leg])
<1>. DEFINE Shape(r) == r = [code |-> r.code, owner |-> r.owner,
                             mpcAbiReEncode |-> r.mpcAbiReEncode, miner |-> r.miner,
                             oracle |-> r.oracle, fees |-> r.fees, oracles |-> r.oracles,
                             factory |-> r.factory, apps |-> r.apps]
<1>1. /\ Shape(ledger[c])
      /\ \A pair \in ledger[c].fees :
           Checked(pair) /\ \A leg \in Leg : RequireValidFeeConfig(pair[leg])
  BY DEF LedgerSound
<1>2. CASE tx.step.op = "updateMinFeeConfigs"
  <2>1. l = [ledger[c] EXCEPT !.fees = tx.fees]
    BY <1>2 DEF Effect, OracleMade
  <2>2. Shape(l) /\ l.fees = tx.fees
    BY <1>1, <2>1
  <2>3. \A pair \in tx.fees : \A leg \in Leg : RequireValidFeeConfig(pair[leg])
    BY <1>2 DEF Reverts
  <2>. QED  BY <2>2, <2>3 DEF SoundTx
<1>3. CASE tx.step.op # "updateMinFeeConfigs"
  <2>1. Shape(l) /\ l.fees = ledger[c].fees
    <3>. USE DEF Effect, OracleMade
    <3>1. CASE tx.step.op = "create"
      BY <1>1, <3>1
    <3>2. CASE tx.step.op = "addMiner"
      BY <1>1, <3>2
    <3>3. CASE OracleMade(tx.step)
      BY <1>1, <3>3
    <3>4. CASE tx.step.op \in {"setToken", "setFeed"}
      BY <1>1, <3>4
    <3>5. CASE tx.step.op \in {"setPrice", "resetPrice"}
      BY <1>1, <3>5
    <3>6. CASE tx.step.op = "refreshCache"
      BY <1>1, <3>6
    <3>7. CASE tx.step.op = "setPriceOracle"
      BY <1>1, <3>7
    <3>8. CASE /\ tx.step.op \notin {"create", "addMiner", "setToken", "setFeed",
                  "setPrice", "resetPrice", "refreshCache", "setPriceOracle"}
               /\ ~OracleMade(tx.step)
      BY <1>1, <1>3, <3>8
    <3>. QED  BY <3>1, <3>2, <3>3, <3>4, <3>5, <3>6, <3>7, <3>8
  <2>. QED  BY <1>1, <2>1
<1>. QED  BY <1>2, <1>3

-----------------------------------------------------------------------------
LEMMA FeesInit == Init => FeesInv
<1>. SUFFICES ASSUME Init PROVE FeesInv
  OBVIOUS
<1>1. PoolSound
  <2>1. \A c \in Chain : pool[c] \in Seq({})
    BY DEF Init
  <2>. QED  BY SMTT(30), <2>1 DEF Init, PoolSound
<1>2. LedgerSound
  BY DEF Init, LedgerSound
<1>. QED  BY <1>1, <1>2 DEF FeesInv

\* The oldest transaction leaves the pool.
LEMMA MinedPool ==
  ASSUME PoolSound, NEW c \in Chain, pool[c] # <<>>,
         pool' = [pool EXCEPT ![c] = Tail(@)]
  PROVE  PoolSound' /\ SoundTx(Head(pool[c]))
<1>1. PICK S : pool[c] \in Seq(S) /\ \A tx \in S : SoundTx(tx)
  BY DEF PoolSound
<1>2. Tail(pool[c]) \in Seq(S) /\ Head(pool[c]) \in S
  BY <1>1
<1>3. ASSUME NEW d \in Chain
      PROVE  \E T : pool'[d] \in Seq(T) /\ \A tx \in T : SoundTx(tx)
  BY <1>1, <1>2 DEF PoolSound
<1>4. pool' = [d \in Chain |-> pool'[d]]
  BY DEF PoolSound
<1>. QED  BY <1>1, <1>2, <1>3, <1>4 DEF PoolSound, SoundTx, Checked

LEMMA FeesStep == FeesInv /\ [Next]_vars => FeesInv'
<1>. SUFFICES ASSUME FeesInv, [Next]_vars PROVE FeesInv'
  OBVIOUS
<1>. USE DEF FeesInv
<1>1. ASSUME UNCHANGED <<ledger, pool>> PROVE FeesInv'
  BY <1>1 DEF PoolSound, LedgerSound
<1>2. ASSUME NEW p \in Run, NEW s \in Scripts, Start(p, s) PROVE FeesInv'
  BY <1>1, <1>2 DEF Start
<1>3. ASSUME NEW p \in Run, Work(p), ~Send(p) PROVE FeesInv'
  BY <1>1, <1>3 DEF Work, ReadConfig, Look, Inspect, ChooseOracle, Record,
       SendThrows, Underpriced, Finish
<1>4. ASSUME NEW p \in Run, Send(p) PROVE FeesInv'
  <2>. DEFINE c == Now(p).chain
  <2>1. PICK fees \in FeesOf(p) : pool' = [pool EXCEPT ![c] = Append(@, TxOf(p, fees))]
    BY <1>4 DEF Send
  <2>2. SoundTx(TxOf(p, fees))
    BY SentIsSound
  <2>3. ASSUME NEW d \in Chain
        PROVE  \E T : pool'[d] \in Seq(T) /\ \A tx \in T : SoundTx(tx)
    <3>1. PICK S : pool[d] \in Seq(S) /\ \A tx \in S : SoundTx(tx)
      BY DEF PoolSound
    <3>. DEFINE T == S \cup {TxOf(p, fees)}
    <3>2. pool[d] \in Seq(T) /\ Append(pool[d], TxOf(p, fees)) \in Seq(T)
      BY <3>1
    <3>3. pool'[d] = IF d = c THEN Append(pool[d], TxOf(p, fees)) ELSE pool[d]
      BY <2>1 DEF PoolSound
    <3>4. \A tx \in T : SoundTx(tx)
      BY <2>2, <3>1
    <3>. QED  BY <3>2, <3>3, <3>4
  <2>4. pool' = [d \in Chain |-> pool'[d]]
    BY <2>1 DEF PoolSound
  <2>5. PoolSound'
    BY <2>3, <2>4 DEF PoolSound, SoundTx, Checked
  <2>6. LedgerSound'
    BY <1>4 DEF Send, LedgerSound
  <2>. QED  BY <2>5, <2>6
<1>5. ASSUME NEW p \in Run, GiveUp(p) PROVE FeesInv'
  <2>1. pool' = Disowned(p) /\ ledger' = ledger
    BY <1>5 DEF GiveUp
  <2>2. PoolSound'
    BY <2>1, DisownedSound DEF PoolSound, SoundTx, Checked
  <2>. QED  BY <2>1, <2>2 DEF LedgerSound
<1>6. ASSUME NEW c \in Chain, Mine(c) PROVE FeesInv'
  <2>. DEFINE tx == Head(pool[c])
  <2>1. PoolSound' /\ SoundTx(tx)
    BY <1>6, MinedPool DEF Mine
  <2>2. CASE Reverts(c, tx)
    <3>1. ledger' = ledger
      BY <1>6, <2>2 DEF Mine
    <3>. QED  BY <2>1, <3>1 DEF LedgerSound
  <2>3. CASE ~Reverts(c, tx)
    <3>1. ledger' = [ledger EXCEPT ![c] = Effect(c, tx)]
      BY <1>6, <2>3 DEF Mine
    <3>2. /\ ledger' = [d \in Chain |-> ledger'[d]]
          /\ ledger'[c] = Effect(c, tx)
          /\ \A d \in Chain \ {c} : ledger'[d] = ledger[d]
      BY <3>1 DEF LedgerSound
    <3>. HIDE DEF tx
    <3>3. LedgerSound'
      BY <2>1, <2>3, <3>2, EffectSound DEF LedgerSound
    <3>. QED  BY <2>1, <3>3
  <2>. QED  BY <2>2, <2>3
<1>7. ASSUME NEW c \in Chain, MineDeadFeed(c) PROVE FeesInv'
  <2>1. PoolSound' /\ ledger' = ledger
    BY <1>7, MinedPool DEF MineDeadFeed
  <2>. QED  BY <2>1 DEF LedgerSound
<1>8. CASE UNCHANGED vars
  BY <1>1, <1>8 DEF vars
<1>. QED  BY <1>2, <1>3, <1>4, <1>5, <1>6, <1>7, <1>8 DEF Next

-----------------------------------------------------------------------------
\* Whatever deployConfig.json says, however scripts race, are killed and are
\* run again: the templates an inbox has passed both the scripts' checks and
\* the inbox's own (readFeeConfigForChain, updateMinFeeConfigs).
THEOREM InstalledFeesCover == Spec => []FeesCoverWorstCase
<1>1. FeesInv => FeesCoverWorstCase
  BY DEF FeesInv, LedgerSound, FeesCoverWorstCase, Checked
<1>. QED  BY <1>1, FeesInit, FeesStep, PTL DEF Spec

\* A template every check lets through.
Passes(fee) ==
  /\ AssertConstantFeeCoversWorstCase(fee)
  /\ AssertErrorLengthWithinReturnDataCap(fee)
  /\ RequireValidFeeConfig(fee)

LEMMA WithinProtocol ==
  /\ 8192 \in 1 .. PROTOCOL_MAX_METHOD_CALL_BYTES
  /\ 5000000 \in 1 .. PROTOCOL_MAX_EXECUTION_GAS
  /\ 25000000 \in 1 .. PROTOCOL_MAX_EXECUTION_GAS
<1>1. /\ PROTOCOL_MAX_METHOD_CALL_BYTES \in Int /\ PROTOCOL_MAX_METHOD_CALL_BYTES >= 8192
      /\ PROTOCOL_MAX_EXECUTION_GAS \in Int /\ PROTOCOL_MAX_EXECUTION_GAS >= 25000000
  BY SMT DEF PROTOCOL_MAX_METHOD_CALL_BYTES, PROTOCOL_MAX_EXECUTION_GAS
<1>. QED  BY <1>1, SMT

LEMMA VariableTemplatePasses == Passes(FEE_CONFIG_SEPOLIA_SIDE)
<1>1. SUFFICES ASSUME NEW fee, fee = FEE_CONFIG_SEPOLIA_SIDE PROVE Passes(fee)
  OBVIOUS
<1>2. /\ fee.constantFee = 0 /\ fee.gasPerByte = 800
      /\ fee.callbackExecutionGas = 100000 /\ fee.errorLength = 256
      /\ fee.bufferRatioX10000 = 5000 /\ fee.maxMethodCallBytes = 8192
      /\ fee.maxExecutionGas = 5000000
  BY <1>1, SMT DEF FEE_CONFIG_SEPOLIA_SIDE, MAX_ERROR_RETURN_DATA_BYTES,
       MEASURED_INGEST_GAS_PER_BYTE, DEFAULT_MAX_METHOD_CALL_BYTES
<1>3. AssertConstantFeeCoversWorstCase(fee)
  BY <1>2, SMT DEF AssertConstantFeeCoversWorstCase
<1>4. AssertErrorLengthWithinReturnDataCap(fee)
  BY <1>2, SMT DEF AssertErrorLengthWithinReturnDataCap, MAX_ERROR_RETURN_DATA_BYTES
<1>5. /\ fee.maxMethodCallBytes \in 1 .. PROTOCOL_MAX_METHOD_CALL_BYTES
      /\ fee.maxExecutionGas \in 1 .. PROTOCOL_MAX_EXECUTION_GAS
  BY <1>2, WithinProtocol, SMT
<1>6. fee.constantFee <= fee.maxExecutionGas
  BY <1>2, SMT
<1>7. fee.constantFee = 0 =>
        /\ fee.gasPerByte # 0 /\ fee.callbackExecutionGas # 0
        /\ fee.errorLength # 0 /\ fee.bufferRatioX10000 # 0
  BY <1>2, SMT
<1>8. RequireValidFeeConfig(fee)
  BY <1>5, <1>6, <1>7, Zenon DEF RequireValidFeeConfig
<1>. QED  BY <1>3, <1>4, <1>8 DEF Passes

LEMMA ConstantTemplatePasses == Passes(FEE_CONFIG_COTI_SIDE)
<1>1. SUFFICES ASSUME NEW fee, fee = FEE_CONFIG_COTI_SIDE PROVE Passes(fee)
  OBVIOUS
<1>2. /\ fee.constantFee = 25000000 /\ fee.maxMethodCallBytes = 8192
      /\ fee.maxExecutionGas = 25000000
  BY <1>1, SMT DEF FEE_CONFIG_COTI_SIDE, DEFAULT_MAX_METHOD_CALL_BYTES,
       PROTOCOL_MAX_EXECUTION_GAS
<1>3. AssertConstantFeeCoversWorstCase(fee)
  BY <1>2, SMT DEF AssertConstantFeeCoversWorstCase, ConstantFeeWorstCaseFloor,
       CONSTANT_FEE_PRICED_EXECUTION_GAS, MEASURED_INGEST_GAS_PER_BYTE
<1>4. AssertErrorLengthWithinReturnDataCap(fee)
  BY <1>2, SMT DEF AssertErrorLengthWithinReturnDataCap
<1>5. /\ fee.maxMethodCallBytes \in 1 .. PROTOCOL_MAX_METHOD_CALL_BYTES
      /\ fee.maxExecutionGas \in 1 .. PROTOCOL_MAX_EXECUTION_GAS
  BY <1>2, WithinProtocol, SMT
<1>6. fee.constantFee <= fee.maxExecutionGas
  BY <1>2, SMT
<1>7. fee.constantFee = 0 =>
        /\ fee.gasPerByte # 0 /\ fee.callbackExecutionGas # 0
        /\ fee.errorLength # 0 /\ fee.bufferRatioX10000 # 0
  BY <1>2, SMT
<1>8. RequireValidFeeConfig(fee)
  BY <1>5, <1>6, <1>7, Zenon DEF RequireValidFeeConfig
<1>. QED  BY <1>3, <1>4, <1>8 DEF Passes

\* The templates in code pass every check on every test network, so that a
\* missing or unusable entry of the file is never refused for its fees.
THEOREM TemplatesInCodePass ==
  \A c \in Testnets, leg \in Leg : Passes(TestnetMinFeeConfigsForChain(c)[leg])
BY VariableTemplatePasses, ConstantTemplatePasses DEF TestnetMinFeeConfigsForChain, Leg

-----------------------------------------------------------------------------
(* The order of a script's steps.                                          *)

Op ==
  {"readConfig", "create", "inspect", "addMiner", "deploy", "setToken", "setFeed",
   "setPrice", "resetPrice", "refreshCache", "setPriceOracle", "choose",
   "updateMinFeeConfigs", "record", "fund", "configure"}

What ==
  {"codec", "feeManager", "inbox", "owner", "legs", "miner", "PriceOracle",
   "ChainlinkLiveOracle", "PoDPriceOracle", "MpcExecutor", "Millionaire", "MpcAdder",
   "PErc20", "PErc20Coti", "usdc", "local", "remote", "feeds", "factory", "preset",
   "oracle", "fees", "full"}

StepSet == [chain : Chain, op : Op, what : What]

Elements(seq) == {seq[k] : k \in DOMAIN seq}

\* Steps about the oracle the script has for their chain.
OfOracle(step) ==
  \/ step.op \in {"setToken", "setFeed", "setPrice", "resetPrice", "refreshCache"}
  \/ step.op = "inspect" /\ step.what = "legs"

HasOracle(B, c) == \E b \in B : OracleMade(b) /\ b.chain = c

Legs(c) == Step(c, "inspect", "legs")
Preset(c) == Step(c, "setPriceOracle", "preset")
Wire(c) == Step(c, "setPriceOracle", "inbox")
Choose(c) == Step(c, "choose", "oracle")

\* What a price of leg needs: it is set by hand, or read from a feed.
PricedBy(B, c, leg) ==
  \/ Step(c, "setPrice", leg) \in B
  \/ leg \in FeedLegs(c) /\ Step(c, "refreshCache", "feeds") \in B

\* What an inbox that is recorded needs.
Deployed(B, c) ==
  {Step(c, "create", "inbox"), Step(c, "addMiner", "miner"),
   Step(c, "updateMinFeeConfigs", "fees")} \subseteq B

RecordFits(B, step) ==
  LET c == step.chain
  IN  \/ step.what = "inbox" /\ Deployed(B, c)
      \/ step.what = "oracle" /\ Legs(c) \in B
      \/ /\ step.what = "full"
         /\ \A d \in Chain : Deployed(B, d) /\ {Legs(d), Wire(d)} \subseteq B

\* deploy-inbox.ts, which asks for no codec, is run on the source chain.
InboxAtSource == \A s \in Scripts : s.name = "inbox" => s.chain = SourceChain

NeedsCodec(c) == InboxAtSource /\ c = CotiTestnet

\* step may follow the steps B: what it depends on is among them.
Fits(B, step) ==
  LET c == step.chain
      op == step.op
      what == step.what
  IN  /\ step \in StepSet
      /\ \A b \in B : b.op # "record"
      /\ (\E b \in B : b.op = "choose") => op \in {"updateMinFeeConfigs", "record"}
      /\ op = "create" =>
           /\ what \in {"codec", "feeManager", "inbox"}
           /\ what = "inbox" => /\ Step(c, "create", "feeManager") \in B
                                /\ NeedsCodec(c) => Step(c, "create", "codec") \in B
      /\ op = "inspect" =>
           \/ what = "owner" /\ Step(c, "create", "inbox") \in B
           \/ what = "legs" /\ \A leg \in Leg : PricedBy(B, c, leg)
      /\ op \in {"setPrice", "resetPrice"} =>
           what \in Leg /\ Step(c, "setToken", "inbox") \in B
      /\ op = "refreshCache" => \A leg \in FeedLegs(c) : Step(c, "setFeed", leg) \in B
      /\ OfOracle(step) => HasOracle(B, c)
      /\ OracleMade(step) \/ op = "choose" => \A b \in B : b.chain = c => ~OfOracle(b)
      /\ op = "choose" => ~HasOracle(B, c) /\ step = Choose(c)
      /\ op = "setPriceOracle" =>
           IF what = "preset" THEN ~HasOracle(B, c) ELSE Legs(c) \in B
      /\ what = "preset" => op = "setPriceOracle"
      /\ op = "record" => RecordFits(B, step)

\* The steps B are followed by those of seq.
Orderly(B, seq) ==
  \A k \in DOMAIN seq : Fits(B \cup {seq[j] : j \in 1 .. k - 1}, seq[k])

-----------------------------------------------------------------------------
(* The invariant.                                                          *)

ConfigSet == [Chain -> [inbox : BOOLEAN, oracle : Nat, executor : BOOLEAN]]

RunSet ==
  [pc : {"idle", "ready", "send", "wait"}, todo : Seq(StepSet), done : SUBSET StepSet,
   oracle : [Chain -> Nat], snapshot : ConfigSet, calm : BOOLEAN,
   outcome : {"none", "done", "failed", "refused"}]

TxSet ==
  [step : StepSet, oracle : Nat, fees : SUBSET FeePair, codec : BOOLEAN, by : SUBSET Run]

OracleSet == [set : SUBSET What, legs : [Leg -> {"ETH", "AVAX", "COTI", NoPrice}]]

LedgerSet ==
  [code : SUBSET {"codec", "feeManager", "inbox"}, owner : {"none", "deployer"},
   mpcAbiReEncode : BOOLEAN, miner : BOOLEAN, oracle : Nat, fees : SUBSET FeePair,
   oracles : Seq(OracleSet), factory : Nat, apps : SUBSET StepSet]

\* Oracle o of a chain with record l has its prices.
Good(l, o) ==
  /\ o \in 1 .. Len(l.oracles)
  /\ \A leg \in Leg : l.oracles[o].legs[leg] # NoPrice

InQueue(queue, step) == \E i \in DOMAIN queue : queue[i].step = step

\* The effect of a step that a script with oracle o has behind it, on its
\* chain, with record l and pending transactions queue.
InForce(l, queue, o, step) ==
  LET op == step.op
      what == step.what
  IN  /\ op = "create" => what \in l.code
      /\ op = "addMiner" => l.miner
      /\ OracleMade(step) \/ OfOracle(step) => o \in 1 .. Len(l.oracles)
      /\ op \in {"setPrice", "resetPrice"} =>
           what \in Leg /\ l.oracles[o].legs[what] # NoPrice
      /\ op \in {"setToken", "setFeed"} => what \in l.oracles[o].set
      /\ step = Legs(step.chain) => Good(l, o)
      /\ op = "updateMinFeeConfigs" => l.fees # {}
      /\ op = "setPriceOracle" =>
           IF what = "factory" THEN l.factory # NoOracle
           ELSE l.oracle # NoOracle \/ (step = Preset(step.chain) /\ InQueue(queue, step))
      /\ op \in {"fund", "configure"} => step \in l.apps \/ InQueue(queue, step)

\* A file that names only what can be used.
Usable(conf, L, P) ==
  /\ conf \in ConfigSet
  /\ \A c \in Chain :
       /\ conf[c].oracle # NoOracle => Good(L[c], conf[c].oracle)
       /\ conf[c].inbox =>
            /\ "inbox" \in L[c].code
            /\ L[c].miner
            /\ L[c].fees # {}
            /\ conf[c].oracle # NoOracle
            /\ L[c].oracle # NoOracle \/ InQueue(P[c], Preset(c))

\* The choice of an oracle is behind only with the rest of it ahead.
Behind(r) == {step \in r.done : step.op # "choose"}

All(r) == r.done \cup Elements(r.todo)

\* An oracle that was chosen is wired, or will be; it has prices, or a new one
\* is about to get them.
Chosen(r, c, l) ==
  Choose(c) \in r.done =>
    /\ l.oracle # NoOracle \/ Preset(c) \in All(r) \/ Wire(c) \in All(r)
    /\ \/ Legs(c) \in All(r)
       \/ /\ Good(l, r.oracle[c])
          /\ \A step \in Elements(r.todo) : OracleMade(step) => step.chain # c

RunSound(r, L, P) ==
  /\ r \in RunSet
  /\ r.pc \in {"send", "wait"} => r.todo # <<>>
  /\ r.pc = "send" => Head(r.todo).op \in Looking
  /\ r.pc = "wait" => Head(r.todo).op \notin Local
  /\ Orderly(Behind(r), r.todo)
  /\ \A step \in Elements(r.todo) :
       step.op = "record" /\ step.what = "inbox" => Choose(step.chain) \in All(r)
  /\ \A step \in r.done : InForce(L[step.chain], P[step.chain], r.oracle[step.chain], step)
  /\ \A c \in Chain :
       /\ r.oracle[c] <= Len(L[c].oracles)
       /\ Preset(c) \in Elements(r.todo) => Good(L[c], r.oracle[c])
       /\ Chosen(r, c, L[c])
  /\ Usable(r.snapshot, L, P)

\* A pending transaction had what it depends on when it was sent.
TxSound(c, tx, l) ==
  LET op == tx.step.op
      what == tx.step.what
  IN  /\ tx.step.chain = c
      /\ tx.oracle <= Len(l.oracles)
      /\ op \notin Local
      /\ op = "create" =>
           /\ what \in {"codec", "feeManager", "inbox"}
           /\ what = "inbox" => /\ "feeManager" \in l.code
                                /\ tx.codec => "codec" \in l.code
                                /\ NeedsCodec(c) => tx.codec
      /\ OfOracle(tx.step) => tx.oracle # NoOracle
      /\ op \in {"setPrice", "resetPrice"} => what \in Leg
      /\ op = "setPriceOracle" => Good(l, tx.oracle)
      /\ op = "updateMinFeeConfigs" => tx.fees # {}

LedgerOK(c, l) ==
  /\ l \in LedgerSet
  /\ l.oracle <= Len(l.oracles)
  /\ l.factory <= Len(l.oracles)
  /\ l.oracle # NoOracle => Good(l, l.oracle)
  /\ "inbox" \in l.code =>
       /\ l.owner = "deployer"
       /\ "feeManager" \in l.code
       /\ l.mpcAbiReEncode => "codec" \in l.code
       /\ NeedsCodec(c) => l.mpcAbiReEncode

\* A script waits for one transaction, that of its step.
Waiting ==
  /\ \A c \in Chain : \A i \in DOMAIN pool[c] : \A p \in pool[c][i].by :
       /\ run[p].pc = "wait"
       /\ Head(run[p].todo) = pool[c][i].step
       /\ run[p].oracle[c] = pool[c][i].oracle
       /\ \A j \in DOMAIN pool[c] : p \in pool[c][j].by => j = i
  /\ \A p \in Run : run[p].pc = "wait" =>
       \E c \in Chain : \E i \in DOMAIN pool[c] : p \in pool[c][i].by

DeployInv ==
  /\ ledger = [c \in Chain |-> ledger[c]]
  /\ pool \in [Chain -> Seq(TxSet)]
  /\ run = [p \in Run |-> run[p]]
  /\ \A c \in Chain :
       /\ LedgerOK(c, ledger[c])
       /\ \A i \in DOMAIN pool[c] : TxSound(c, pool[c][i], ledger[c])
  /\ \A p \in Run : RunSound(run[p], ledger, pool)
  /\ Usable(config, ledger, pool)
  /\ Waiting
  /\ starts \in 0 .. MaxStarts
  /\ faults \in 0 .. MaxFaults

-----------------------------------------------------------------------------
(* Every script is orderly.                                                *)

\* seq is an orderly sequence of the steps E, after B.
Part(B, seq, E) ==
  /\ seq \in Seq(StepSet)
  /\ Elements(seq) = E
  /\ Orderly(B, seq)

\* A step's fields.
LEMMA StepFields ==
  ASSUME NEW c, NEW op, NEW what
  PROVE  /\ Step(c, op, what).chain = c
         /\ Step(c, op, what).op = op
         /\ Step(c, op, what).what = what
         /\ c \in Chain /\ op \in Op /\ what \in What
              => Step(c, op, what) \in StepSet
BY DEF Step, StepSet

LEMMA PartEmpty ==
  ASSUME NEW B
  PROVE  Part(B, <<>>, {})
BY DEF Part, Elements, Orderly

LEMMA PartOne ==
  ASSUME NEW B, NEW a, Fits(B, a)
  PROVE  Part(B, <<a>>, {a})
<1>1. a \in StepSet
  BY DEF Fits
<1>2. Elements(<<a>>) = {a}
  BY DEF Elements
<1>3. Orderly(B, <<a>>)
  <2>1. SUFFICES ASSUME NEW k \in DOMAIN <<a>>
                 PROVE  Fits(B \cup {<<a>>[j] : j \in 1 .. k - 1}, <<a>>[k])
    BY DEF Orderly
  <2>2. k = 1 /\ <<a>>[k] = a
    OBVIOUS
  <2>3. {<<a>>[j] : j \in 1 .. k - 1} = {}
    BY <2>2
  <2>4. B \cup {<<a>>[j] : j \in 1 .. k - 1} = B
    BY <2>3
  <2>. QED  BY <2>2, <2>4
<1>. QED  BY <1>1, <1>2, <1>3 DEF Part

\* Parts are put together.
LEMMA PartThen ==
  ASSUME NEW B, NEW s, NEW E, NEW t, NEW F, Part(B, s, E), Part(B \cup E, t, F)
  PROVE  Part(B, s \o t, E \cup F)
<1>1. /\ s \in Seq(StepSet) /\ t \in Seq(StepSet)
      /\ Len(s) \in Nat /\ DOMAIN s = 1 .. Len(s)
      /\ Len(t) \in Nat /\ DOMAIN t = 1 .. Len(t)
  BY DEF Part
<1>2. /\ s \o t \in Seq(StepSet)
      /\ DOMAIN (s \o t) = 1 .. Len(s) + Len(t)
      /\ \A i \in 1 .. Len(s) : (s \o t)[i] = s[i]
      /\ \A i \in 1 .. Len(t) : (s \o t)[Len(s) + i] = t[i]
  BY <1>1
<1>. DEFINE u == s \o t
<1>. HIDE DEF u
<1>3. \A i \in DOMAIN u : i \in 1 .. Len(s) \/ \E j \in 1 .. Len(t) : i = Len(s) + j
  <2>1. SUFFICES ASSUME NEW i \in 1 .. Len(s) + Len(t), i \notin 1 .. Len(s)
                 PROVE  \E j \in 1 .. Len(t) : i = Len(s) + j
    BY <1>2 DEF u
  <2>2. i - Len(s) \in 1 .. Len(t) /\ i = Len(s) + (i - Len(s))
    BY <1>1, <2>1
  <2>. QED  BY <2>2
<1>4. Elements(u) = E \cup F
  <2>1. \A i \in 1 .. Len(s) : i \in DOMAIN u /\ u[i] = s[i]
    BY <1>1, <1>2 DEF u
  <2>2. \A i \in 1 .. Len(t) : Len(s) + i \in DOMAIN u /\ u[Len(s) + i] = t[i]
    BY <1>1, <1>2 DEF u
  <2>3. E = {s[k] : k \in 1 .. Len(s)} /\ F = {t[k] : k \in 1 .. Len(t)}
    BY <1>1 DEF Part, Elements
  <2>. QED  BY <1>3, <2>1, <2>2, <2>3 DEF Elements
<1>5. ASSUME NEW k \in DOMAIN u PROVE Fits(B \cup {u[j] : j \in 1 .. k - 1}, u[k])
  <2>1. CASE k \in 1 .. Len(s)
    <3>1. u[k] = s[k] /\ \A j \in 1 .. k - 1 : u[j] = s[j]
      BY <1>1, <1>2, <2>1 DEF u
    <3>2. {u[j] : j \in 1 .. k - 1} = {s[j] : j \in 1 .. k - 1}
      BY <3>1
    <3>3. Fits(B \cup {s[j] : j \in 1 .. k - 1}, s[k])
      BY <1>1, <2>1 DEF Part, Orderly
    <3>. QED  BY <3>1, <3>2, <3>3
  <2>2. ASSUME NEW i \in 1 .. Len(t), k = Len(s) + i
        PROVE  Fits(B \cup {u[j] : j \in 1 .. k - 1}, u[k])
    <3>1. u[k] = t[i]
      BY <1>2, <2>2 DEF u
    <3>2. \A j \in 1 .. k - 1 :
            j \in 1 .. Len(s) \/ \E n \in 1 .. i - 1 : j = Len(s) + n
      <4>1. SUFFICES ASSUME NEW j \in 1 .. k - 1, j \notin 1 .. Len(s)
                     PROVE  \E n \in 1 .. i - 1 : j = Len(s) + n
        OBVIOUS
      <4>2. j - Len(s) \in 1 .. i - 1 /\ j = Len(s) + (j - Len(s))
        BY <1>1, <2>2, <4>1
      <4>. QED  BY <4>2
    <3>3. \A n \in 1 .. Len(s) : n \in 1 .. k - 1 /\ u[n] = s[n]
      BY <1>1, <1>2, <2>2 DEF u
    <3>4. \A n \in 1 .. i - 1 : Len(s) + n \in 1 .. k - 1 /\ u[Len(s) + n] = t[n]
      BY <1>1, <1>2, <2>2 DEF u
    <3>5. {u[j] : j \in 1 .. k - 1} = E \cup {t[n] : n \in 1 .. i - 1}
      <4>1. E = {s[n] : n \in 1 .. Len(s)}
        BY <1>1 DEF Part, Elements
      <4>2. ASSUME NEW j \in 1 .. k - 1
            PROVE  u[j] \in E \cup {t[n] : n \in 1 .. i - 1}
        <5>1. CASE j \in 1 .. Len(s)
          BY <3>3, <4>1, <5>1
        <5>2. ASSUME NEW n \in 1 .. i - 1, j = Len(s) + n
              PROVE  u[j] \in {t[x] : x \in 1 .. i - 1}
          BY <3>4, <5>2
        <5>. QED  BY <3>2, <5>1, <5>2
      <4>3. \A x \in E : x \in {u[j] : j \in 1 .. k - 1}
        BY <3>3, <4>1
      <4>4. \A x \in {t[n] : n \in 1 .. i - 1} : x \in {u[j] : j \in 1 .. k - 1}
        BY <3>4
      <4>. QED  BY <4>2, <4>3, <4>4
    <3>6. B \cup {u[j] : j \in 1 .. k - 1} = (B \cup E) \cup {t[n] : n \in 1 .. i - 1}
      BY <3>5
    <3>7. Fits((B \cup E) \cup {t[n] : n \in 1 .. i - 1}, t[i])
      BY <1>1 DEF Part, Orderly
    <3>. QED  BY <3>1, <3>6, <3>7
  <2>. QED  BY <1>3, <2>1, <2>2
<1>. QED  BY <1>2, <1>4, <1>5 DEF Part, Orderly, u

\* A step after a part.
LEMMA PartAdd ==
  ASSUME NEW B, NEW s, NEW E, NEW a, Part(B, s, E), Fits(B \cup E, a)
  PROVE  Part(B, s \o <<a>>, E \cup {a})
BY PartOne, PartThen

LEMMA PartTwo ==
  ASSUME NEW B, NEW a, NEW b, Fits(B, a), Fits(B \cup {a}, b)
  PROVE  Part(B, <<a, b>>, {a, b})
<1>1. Part(B, <<a>> \o <<b>>, {a} \cup {b})
  BY PartOne, PartThen
<1>2. {a} \cup {b} = {a, b}
  OBVIOUS
<1>3. <<a>> \o <<b>> = <<a, b>>
  <2>. DEFINE S == {a, b}
              s == <<a>> \o <<b>>
  <2>1. /\ s \in Seq(S) /\ Len(s) = 2 /\ s[1] = a /\ s[2] = b
        /\ <<a, b>> \in Seq(S) /\ Len(<<a, b>>) = 2
    OBVIOUS
  <2>. HIDE DEF s, S
  <2>2. \A i \in 1 .. Len(s) : s[i] = <<a, b>>[i]
    BY <2>1
  <2>. QED  BY <2>1, <2>2, SeqEqual DEF s
<1>. QED  BY <1>1, <1>2, <1>3

LEMMA PartThree ==
  ASSUME NEW B, NEW a, NEW b, NEW c, Fits(B, a), Fits(B \cup {a}, b),
         Fits(B \cup {a, b}, c)
  PROVE  Part(B, <<a, b, c>>, {a, b, c})
<1>1. Part(B, <<a, b>> \o <<c>>, {a, b} \cup {c})
  BY PartTwo, PartAdd
<1>2. {a, b} \cup {c} = {a, b, c}
  OBVIOUS
<1>3. <<a, b>> \o <<c>> = <<a, b, c>>
  <2>. DEFINE S == {a, b, c}
              s == <<a, b>> \o <<c>>
  <2>1. /\ s \in Seq(S) /\ Len(s) = 3 /\ s[1] = a /\ s[2] = b /\ s[3] = c
        /\ <<a, b, c>> \in Seq(S) /\ Len(<<a, b, c>>) = 3
    OBVIOUS
  <2>. HIDE DEF s, S
  <2>2. \A i \in 1 .. Len(s) : s[i] = <<a, b, c>>[i]
    BY <2>1
  <2>. QED  BY <2>1, <2>2, SeqEqual DEF s
<1>. QED  BY <1>1, <1>2, <1>3

-----------------------------------------------------------------------------
(* What lets a step fit.                                                   *)

\* B is before any record and any choice.
Fresh(B) == \A b \in B : b.op \notin {"record", "choose"}

\* Steps that depend on nothing.
LEMMA FitsPlain ==
  ASSUME NEW B, Fresh(B), NEW c \in Chain, NEW op \in Op, NEW what \in What \ {"preset"},
         op \in {"readConfig", "addMiner", "updateMinFeeConfigs", "deploy", "fund",
                 "configure"},
         op = "deploy" => what \notin {"PriceOracle", "ChainlinkLiveOracle"}
  PROVE  Fits(B, Step(c, op, what))
BY StepFields DEF Fits, Fresh, OfOracle, OracleMade

LEMMA FitsCreate ==
  ASSUME NEW B, Fresh(B), NEW c \in Chain, NEW what \in {"codec", "feeManager", "inbox"},
         what = "inbox" => /\ Step(c, "create", "feeManager") \in B
                           /\ NeedsCodec(c) => Step(c, "create", "codec") \in B
  PROVE  Fits(B, Step(c, "create", what))
<1>1. "create" \in Op /\ what \in What
  BY DEF Op, What
<1>. QED  BY <1>1, StepFields DEF Fits, Fresh, OfOracle, OracleMade

LEMMA FitsOwner ==
  ASSUME NEW B, Fresh(B), NEW c \in Chain, Step(c, "create", "inbox") \in B
  PROVE  Fits(B, Step(c, "inspect", "owner"))
<1>1. "inspect" \in Op /\ "owner" \in What
  BY DEF Op, What
<1>. QED  BY <1>1, StepFields DEF Fits, Fresh, OfOracle, OracleMade

LEMMA FitsMakeOracle ==
  ASSUME NEW B, Fresh(B), NEW c \in Chain, NEW what \in {"PriceOracle", "ChainlinkLiveOracle"},
         \A b \in B : b.chain = c => ~OfOracle(b)
  PROVE  Fits(B, Step(c, "deploy", what))
<1>1. "deploy" \in Op /\ what \in What
  BY DEF Op, What
<1>2. ~OfOracle(Step(c, "deploy", what))
  BY StepFields DEF OfOracle
<1>. QED  BY <1>1, <1>2, StepFields DEF Fits, Fresh

LEMMA FitsSet ==
  ASSUME NEW B, Fresh(B), NEW c \in Chain, NEW op \in {"setToken", "setFeed"},
         NEW what \in What \ {"preset"}, HasOracle(B, c)
  PROVE  Fits(B, Step(c, op, what))
<1>1. op \in Op
  BY DEF Op
<1>2. ~OracleMade(Step(c, op, what))
  BY StepFields DEF OracleMade
<1>. QED  BY <1>1, <1>2, StepFields DEF Fits, Fresh

LEMMA FitsPrice ==
  ASSUME NEW B, Fresh(B), NEW c \in Chain, NEW op \in {"setPrice", "resetPrice"},
         NEW leg \in Leg, HasOracle(B, c), Step(c, "setToken", "inbox") \in B
  PROVE  Fits(B, Step(c, op, leg))
<1>1. op \in Op /\ leg \in What /\ leg # "preset"
  BY DEF Op, What, Leg
<1>2. ~OracleMade(Step(c, op, leg))
  BY StepFields DEF OracleMade
<1>. QED  BY <1>1, <1>2, StepFields DEF Fits, Fresh

LEMMA FitsRefresh ==
  ASSUME NEW B, Fresh(B), NEW c \in Chain, HasOracle(B, c),
         \A leg \in FeedLegs(c) : Step(c, "setFeed", leg) \in B
  PROVE  Fits(B, Step(c, "refreshCache", "feeds"))
<1>1. "refreshCache" \in Op /\ "feeds" \in What
  BY DEF Op, What
<1>2. ~OracleMade(Step(c, "refreshCache", "feeds"))
  BY StepFields DEF OracleMade
<1>. QED  BY <1>1, <1>2, StepFields DEF Fits, Fresh

LEMMA FitsLegs ==
  ASSUME NEW B, Fresh(B), NEW c \in Chain, HasOracle(B, c),
         \A leg \in Leg : PricedBy(B, c, leg)
  PROVE  Fits(B, Legs(c))
<1>1. "inspect" \in Op /\ "legs" \in What
  BY DEF Op, What
<1>2. ~OracleMade(Legs(c))
  BY StepFields DEF OracleMade, Legs
<1>. QED  BY <1>1, <1>2, StepFields DEF Fits, Fresh, Legs

LEMMA FitsWire ==
  ASSUME NEW B, Fresh(B), NEW c \in Chain, NEW what \in What,
         IF what = "preset" THEN ~HasOracle(B, c) ELSE Legs(c) \in B
  PROVE  Fits(B, Step(c, "setPriceOracle", what))
<1>1. "setPriceOracle" \in Op
  BY DEF Op
<1>. QED  BY <1>1, StepFields DEF Fits, Fresh, OfOracle, OracleMade, Preset

LEMMA FitsChoose ==
  ASSUME NEW B, Fresh(B), NEW c \in Chain, ~HasOracle(B, c),
         \A b \in B : b.chain = c => ~OfOracle(b)
  PROVE  Fits(B, Choose(c))
<1>1. "choose" \in Op /\ "oracle" \in What
  BY DEF Op, What
<1>. QED  BY <1>1, StepFields DEF Fits, Fresh, OfOracle, OracleMade, Choose

LEMMA FitsRecord ==
  ASSUME NEW B, \A b \in B : b.op # "record", NEW c \in Chain,
         NEW what \in {"inbox", "full", "oracle"}, RecordFits(B, Step(c, "record", what))
  PROVE  Fits(B, Step(c, "record", what))
<1>1. "record" \in Op /\ what \in What
  BY DEF Op, What
<1>. QED  BY <1>1, StepFields DEF Fits, OfOracle, OracleMade

LEMMA FitsFees ==
  ASSUME NEW B, \A b \in B : b.op # "record", NEW c \in Chain
  PROVE  Fits(B, Step(c, "updateMinFeeConfigs", "fees"))
<1>1. "updateMinFeeConfigs" \in Op /\ "fees" \in What
  BY DEF Op, What
<1>. QED  BY <1>1, StepFields DEF Fits, OfOracle, OracleMade

-----------------------------------------------------------------------------
(* The pieces of the scripts.                                              *)

InboxSteps(c, deployReEncode) ==
  (IF deployReEncode THEN {Step(c, "create", "codec")} ELSE {})
  \cup {Step(c, "create", "feeManager"), Step(c, "create", "inbox"),
        Step(c, "inspect", "owner")}

LEMMA InboxPart ==
  ASSUME NEW B, Fresh(B), NEW c \in Chain, NEW deployReEncode \in BOOLEAN,
         NeedsCodec(c) => deployReEncode
  PROVE  Part(B, DeployDeterministicInbox(c, deployReEncode), InboxSteps(c, deployReEncode))
<1>. DEFINE E == IF deployReEncode THEN {Step(c, "create", "codec")} ELSE {}
            codec == When(deployReEncode, <<Step(c, "create", "codec")>>)
            f == Step(c, "create", "feeManager")
            i == Step(c, "create", "inbox")
            o == Step(c, "inspect", "owner")
<1>1. Part(B, codec, E)
  BY FitsCreate, PartOne, PartEmpty DEF When
<1>2. Fresh(B \cup E) /\ Fresh(B \cup E \cup {f}) /\ Fresh(B \cup E \cup {f, i})
  BY StepFields DEF Fresh
<1>3. NeedsCodec(c) => Step(c, "create", "codec") \in E
  OBVIOUS
<1>. HIDE DEF E
<1>4. Fits(B \cup E, f)
  BY <1>2, FitsCreate
<1>5. Fits(B \cup E \cup {f}, i)
  BY <1>2, <1>3, FitsCreate
<1>6. Fits(B \cup E \cup {f, i}, o)
  BY <1>2, FitsOwner
<1>. HIDE DEF f, i, o, codec
<1>7. Part(B \cup E, <<f, i, o>>, {f, i, o})
  BY <1>4, <1>5, <1>6, PartThree
<1>8. Part(B, codec \o <<f, i, o>>, E \cup {f, i, o})
  BY <1>1, <1>7, PartThen
<1>. QED  BY <1>8 DEF DeployDeterministicInbox, InboxSteps, E, f, i, o, codec

\* A step per leg.
Prices(c, op, legs) == {Step(c, op, leg) : leg \in legs}

LEMMA EachPart ==
  ASSUME NEW B, NEW c \in Chain, NEW op, NEW legs \in SUBSET Leg,
         \A leg \in legs : /\ Fits(B, Step(c, op, leg))
                           /\ Fits(B \cup {Step(c, op, "local")}, Step(c, op, leg))
  PROVE  Part(B, Each(c, op, legs), Prices(c, op, legs))
<1>. DEFINE l == Step(c, op, "local")
            r == Step(c, op, "remote")
            E == IF "local" \in legs THEN {l} ELSE {}
            F == IF "remote" \in legs THEN {r} ELSE {}
<1>1. Part(B, When("local" \in legs, <<l>>), E)
  BY PartOne, PartEmpty DEF When
<1>2. "remote" \in legs => Fits(B \cup E, r)
  <2>1. CASE "local" \in legs
    BY <2>1
  <2>2. CASE "local" \notin legs
    <3>1. B \cup E = B
      BY <2>2
    <3>. QED  BY <3>1
  <2>. QED  BY <2>1, <2>2
<1>3. Part(B \cup E, When("remote" \in legs, <<r>>), F)
  <2>. HIDE DEF E, r
  <2>. QED  BY <1>2, PartOne, PartEmpty DEF When
<1>4. E \cup F = Prices(c, op, legs)
  BY DEF Leg, Prices
<1>5. Part(B, When("local" \in legs, <<l>>) \o When("remote" \in legs, <<r>>), E \cup F)
  <2>. HIDE DEF E, F, l, r
  <2>. QED  BY <1>1, <1>3, PartThen
<1>. QED  BY <1>4, <1>5 DEF Each

TestnetSteps(c) ==
  {Step(c, "deploy", "PriceOracle"), Step(c, "setToken", "inbox")}
  \cup Prices(c, "setPrice", Leg) \cup Prices(c, "resetPrice", Leg) \cup {Legs(c)}

\* A plain oracle, wherever no oracle has been spoken of.
LEMMA TestnetPart ==
  ASSUME NEW B, Fresh(B), NEW c \in Chain, \A b \in B : b.chain = c => ~OfOracle(b)
  PROVE  Part(B, DeployTestnetPriceOracle(c), TestnetSteps(c))
<1>. DEFINE d == Step(c, "deploy", "PriceOracle")
            t == Step(c, "setToken", "inbox")
            P == Prices(c, "setPrice", Leg)
            R == Prices(c, "resetPrice", Leg)
<1>1. /\ d.op = "deploy" /\ t.op = "setToken" /\ d.chain = c
      /\ OracleMade(d)
      /\ \A x \in P : x.op = "setPrice"
      /\ \A x \in R : x.op = "resetPrice"
      /\ \A leg \in Leg : Step(c, "setPrice", leg) \in P
  BY StepFields DEF OracleMade, Prices
<1>2. Fits(B, d)
  BY FitsMakeOracle
<1>3. "inbox" \in What
  BY DEF What
<1>. HIDE DEF d, t, P, R
<1>4. Fits(B \cup {d}, t)
  <2>1. Fresh(B \cup {d}) /\ HasOracle(B \cup {d}, c)
    BY <1>1 DEF Fresh, HasOracle
  <2>. QED  BY <1>3, <2>1, FitsSet DEF t
<1>5. Part(B, <<d, t>>, {d, t})
  BY <1>2, <1>4, PartTwo
<1>6. ASSUME NEW X, {d, t} \subseteq X, NEW op \in {"setPrice", "resetPrice"}, Fresh(X)
      PROVE  Part(X, Each(c, op, Leg), Prices(c, op, Leg))
  <2>1. \A Y : X \subseteq Y => HasOracle(Y, c) /\ Step(c, "setToken", "inbox") \in Y
    BY <1>1, <1>6 DEF HasOracle, t
  <2>2. Fresh(X \cup {Step(c, op, "local")})
    BY <1>6, StepFields DEF Fresh
  <2>3. \A leg \in Leg : /\ Fits(X, Step(c, op, leg))
                         /\ Fits(X \cup {Step(c, op, "local")}, Step(c, op, leg))
    BY <1>6, <2>1, <2>2, FitsPrice
  <2>. QED  BY <2>3, EachPart
<1>7. /\ Fresh(B \cup {d, t}) /\ Fresh((B \cup {d, t}) \cup P)
      /\ Fresh(B \cup {d, t} \cup P \cup R)
  BY <1>1 DEF Fresh
<1>8. Part(B \cup {d, t}, Each(c, "setPrice", Leg), P)
  BY <1>6, <1>7 DEF P
<1>9. Part(B \cup {d, t} \cup P, Each(c, "resetPrice", Leg), R)
  BY <1>6, <1>7 DEF R
<1>10. Fits(B \cup {d, t} \cup P \cup R, Legs(c))
  <2>1. HasOracle(B \cup {d, t} \cup P \cup R, c)
    BY <1>1 DEF HasOracle
  <2>2. \A leg \in Leg : PricedBy(B \cup {d, t} \cup P \cup R, c, leg)
    BY <1>1 DEF PricedBy
  <2>. QED  BY <1>7, <2>1, <2>2, FitsLegs
<1>11. Part(B, <<d, t>> \o Each(c, "setPrice", Leg), {d, t} \cup P)
  BY <1>5, <1>8, PartThen
<1>12. Part(B, <<d, t>> \o Each(c, "setPrice", Leg) \o Each(c, "resetPrice", Leg),
            {d, t} \cup P \cup R)
  <2>1. B \cup ({d, t} \cup P) = B \cup {d, t} \cup P
    OBVIOUS
  <2>. QED  BY <1>9, <1>11, <2>1, PartThen
<1>13. Part(B, <<d, t>> \o Each(c, "setPrice", Leg) \o Each(c, "resetPrice", Leg)
                 \o <<Legs(c)>>, {d, t} \cup P \cup R \cup {Legs(c)})
  <2>1. B \cup ({d, t} \cup P \cup R) = B \cup {d, t} \cup P \cup R
    OBVIOUS
  <2>. QED  BY <1>10, <1>12, <2>1, PartAdd
<1>. QED  BY <1>13 DEF DeployTestnetPriceOracle, TestnetSteps, Legs, d, t, P, R

FeedSteps(c) ==
  {Step(c, "deploy", "ChainlinkLiveOracle")} \cup Prices(c, "setFeed", FeedLegs(c))
  \cup {Step(c, "deploy", "PoDPriceOracle"), Step(c, "setToken", "inbox")}
  \cup Prices(c, "setPrice", ManualLegs(c))

RefreshSteps(c) ==
  IF FeedLegs(c) # {} THEN {Step(c, "refreshCache", "feeds")} ELSE {}

UsdcSteps(c) == IF HasUsdc(c) THEN {Step(c, "setToken", "usdc")} ELSE {}

ChainlinkSteps(c) == FeedSteps(c) \cup RefreshSteps(c) \cup {Legs(c)} \cup UsdcSteps(c)

\* Legs without a feed are priced by hand.
LEMMA LegsCovered ==
  ASSUME NEW c
  PROVE  /\ FeedLegs(c) \subseteq Leg /\ ManualLegs(c) \subseteq Leg
         /\ FeedLegs(c) \cup ManualLegs(c) = Leg
BY DEF FeedLegs, ManualLegs, Leg

LEMMA FeedPart ==
  ASSUME NEW B, Fresh(B), NEW c \in Chain, \A b \in B : b.chain = c => ~OfOracle(b)
  PROVE  Part(B, <<Step(c, "deploy", "ChainlinkLiveOracle")>>
                   \o Each(c, "setFeed", FeedLegs(c))
                   \o <<Step(c, "deploy", "PoDPriceOracle"), Step(c, "setToken", "inbox")>>
                   \o Each(c, "setPrice", ManualLegs(c)),
              FeedSteps(c))
<1>. DEFINE d == Step(c, "deploy", "ChainlinkLiveOracle")
            e == Step(c, "deploy", "PoDPriceOracle")
            t == Step(c, "setToken", "inbox")
            F == Prices(c, "setFeed", FeedLegs(c))
            M == Prices(c, "setPrice", ManualLegs(c))
<1>1. /\ d.op = "deploy" /\ e.op = "deploy" /\ t.op = "setToken" /\ d.chain = c
      /\ OracleMade(d)
      /\ \A x \in F : x.op = "setFeed"
      /\ \A x \in M : x.op = "setPrice"
  BY StepFields DEF OracleMade, Prices
<1>2. Fits(B, d)
  BY FitsMakeOracle
<1>3. "inbox" \in What /\ "deploy" \in Op /\ "PoDPriceOracle" \in What /\ Leg \subseteq What
  BY DEF What, Op, Leg
<1>. HIDE DEF d, e, t, F, M
<1>4. Part(B, <<d>>, {d})
  BY <1>2, PartOne
<1>5. /\ Fresh(B \cup {d}) /\ Fresh(B \cup ({d} \cup F)) /\ Fresh(B \cup ({d} \cup F) \cup {e})
      /\ Fresh(B \cup ({d} \cup F \cup {e, t}))
  BY <1>1 DEF Fresh
<1>6. Part(B \cup {d}, Each(c, "setFeed", FeedLegs(c)), F)
  <2>1. \A leg \in FeedLegs(c) :
          /\ Fits(B \cup {d}, Step(c, "setFeed", leg))
          /\ Fits(B \cup {d} \cup {Step(c, "setFeed", "local")}, Step(c, "setFeed", leg))
    <3>1. /\ HasOracle(B \cup {d}, c)
          /\ HasOracle(B \cup {d} \cup {Step(c, "setFeed", "local")}, c)
      BY <1>1 DEF HasOracle
    <3>2. Fresh(B \cup {d} \cup {Step(c, "setFeed", "local")})
      BY <1>5, StepFields DEF Fresh
    <3>3. \A leg \in FeedLegs(c) : leg \in What \ {"preset"}
      BY <1>3, LegsCovered DEF Leg
    <3>. QED  BY <1>5, <3>1, <3>2, <3>3, FitsSet
  <2>2. FeedLegs(c) \in SUBSET Leg
    BY LegsCovered
  <2>. QED  BY <2>1, <2>2, EachPart DEF F
<1>7. Part(B, <<d>> \o Each(c, "setFeed", FeedLegs(c)), {d} \cup F)
  BY <1>4, <1>6, PartThen
<1>8. Fits(B \cup ({d} \cup F), e)
  BY <1>3, <1>5, FitsPlain DEF e
<1>9. Fits(B \cup ({d} \cup F) \cup {e}, t)
  <2>1. HasOracle(B \cup ({d} \cup F) \cup {e}, c)
    BY <1>1 DEF HasOracle
  <2>. QED  BY <1>3, <1>5, <2>1, FitsSet DEF t
<1>10. Part(B \cup ({d} \cup F), <<e, t>>, {e, t})
  BY <1>8, <1>9, PartTwo
<1>11. Part(B, <<d>> \o Each(c, "setFeed", FeedLegs(c)) \o <<e, t>>, {d} \cup F \cup {e, t})
  BY <1>7, <1>10, PartThen
<1>12. Part(B \cup ({d} \cup F \cup {e, t}), Each(c, "setPrice", ManualLegs(c)), M)
  <2>. DEFINE X == B \cup ({d} \cup F \cup {e, t})
  <2>1. /\ HasOracle(X, c)
        /\ HasOracle(X \cup {Step(c, "setPrice", "local")}, c)
    BY <1>1 DEF HasOracle
  <2>2. Fresh(X) /\ Fresh(X \cup {Step(c, "setPrice", "local")})
    BY <1>5, StepFields DEF Fresh
  <2>3. Step(c, "setToken", "inbox") \in X
    BY DEF t
  <2>. HIDE DEF X
  <2>4. \A leg \in ManualLegs(c) :
          /\ Fits(X, Step(c, "setPrice", leg))
          /\ Fits(X \cup {Step(c, "setPrice", "local")}, Step(c, "setPrice", leg))
    BY <2>1, <2>2, <2>3, LegsCovered, FitsPrice
  <2>5. ManualLegs(c) \in SUBSET Leg
    BY LegsCovered
  <2>. QED  BY <2>4, <2>5, EachPart DEF M, X
<1>13. Part(B, <<d>> \o Each(c, "setFeed", FeedLegs(c)) \o <<e, t>>
                 \o Each(c, "setPrice", ManualLegs(c)), {d} \cup F \cup {e, t} \cup M)
  BY <1>11, <1>12, PartThen
<1>. QED  BY <1>13 DEF FeedSteps, d, e, t, F, M

\* An oracle that reads feeds.
LEMMA ChainlinkPart ==
  ASSUME NEW B, Fresh(B), NEW c \in Chain, \A b \in B : b.chain = c => ~OfOracle(b)
  PROVE  Part(B, DeployChainlinkPriceOracle(c), ChainlinkSteps(c))
<1>. DEFINE s == <<Step(c, "deploy", "ChainlinkLiveOracle")>>
                   \o Each(c, "setFeed", FeedLegs(c))
                   \o <<Step(c, "deploy", "PoDPriceOracle"), Step(c, "setToken", "inbox")>>
                   \o Each(c, "setPrice", ManualLegs(c))
            refresh == When(FeedLegs(c) # {}, <<Step(c, "refreshCache", "feeds")>>)
            usdc == When(HasUsdc(c), <<Step(c, "setToken", "usdc")>>)
            E == FeedSteps(c)
            R == RefreshSteps(c)
<1>1. Part(B, s, E)
  BY FeedPart
<1>2. /\ \A x \in E : x.op \in {"deploy", "setFeed", "setToken", "setPrice"}
      /\ \A x \in R : x.op = "refreshCache"
      /\ Legs(c).op = "inspect"
  BY StepFields DEF FeedSteps, RefreshSteps, Prices, Legs
<1>3. /\ Fresh(B \cup E) /\ Fresh(B \cup (E \cup R)) /\ Fresh(B \cup (E \cup R \cup {Legs(c)}))
  BY <1>2 DEF Fresh
<1>4. \A X : E \subseteq X => HasOracle(X, c)
  <2>1. Step(c, "deploy", "ChainlinkLiveOracle") \in E
    BY DEF FeedSteps
  <2>2. OracleMade(Step(c, "deploy", "ChainlinkLiveOracle"))
    BY StepFields DEF OracleMade
  <2>. QED  BY <2>1, <2>2, StepFields DEF HasOracle
<1>5. /\ \A leg \in FeedLegs(c) : Step(c, "setFeed", leg) \in E
      /\ \A leg \in ManualLegs(c) : Step(c, "setPrice", leg) \in E
  BY DEF FeedSteps, Prices
<1>. HIDE DEF s, E
<1>6. Part(B \cup E, refresh, R)
  <2>1. HasOracle(B \cup E, c) /\ \A leg \in FeedLegs(c) : Step(c, "setFeed", leg) \in B \cup E
    BY <1>4, <1>5
  <2>2. Fits(B \cup E, Step(c, "refreshCache", "feeds"))
    BY <1>3, <2>1, FitsRefresh
  <2>. QED  BY <2>2, PartOne, PartEmpty DEF When, RefreshSteps
<1>7. \A leg \in Leg : PricedBy(B \cup (E \cup R), c, leg)
  BY <1>5, LegsCovered DEF PricedBy, RefreshSteps
<1>. HIDE DEF R, refresh
<1>8. Part(B, s \o refresh, E \cup R)
  BY <1>1, <1>6, PartThen
<1>9. Fits(B \cup (E \cup R), Legs(c))
  BY <1>3, <1>4, <1>7, FitsLegs
<1>10. Part(B, s \o refresh \o <<Legs(c)>>, E \cup R \cup {Legs(c)})
  BY <1>8, <1>9, PartAdd
<1>11. Part(B \cup (E \cup R \cup {Legs(c)}), usdc, UsdcSteps(c))
  <2>1. HasOracle(B \cup (E \cup R \cup {Legs(c)}), c)
    BY <1>4
  <2>2. "usdc" \in What
    BY DEF What
  <2>3. Fits(B \cup (E \cup R \cup {Legs(c)}), Step(c, "setToken", "usdc"))
    BY <1>3, <2>1, <2>2, FitsSet
  <2>. QED  BY <2>3, PartOne, PartEmpty DEF When, UsdcSteps
<1>. HIDE DEF usdc
<1>12. Part(B, s \o refresh \o <<Legs(c)>> \o usdc, E \cup R \cup {Legs(c)} \cup UsdcSteps(c))
  BY <1>10, <1>11, PartThen
<1>13. DeployChainlinkPriceOracle(c) = s \o refresh \o <<Legs(c)>> \o usdc
  BY DEF DeployChainlinkPriceOracle, s, refresh, usdc, Legs
<1>14. ChainlinkSteps(c) = E \cup R \cup {Legs(c)} \cup UsdcSteps(c)
  BY DEF ChainlinkSteps, E, R
<1>. QED  BY <1>12, <1>13, <1>14

-----------------------------------------------------------------------------
(* The scripts.                                                            *)

\* Steps before any record and any choice, all on chain c.
OnChain(E, c) == Fresh(E) /\ \A x \in E : x.chain = c

LEMMA FreshUnion ==
  ASSUME NEW A, NEW B, Fresh(A), Fresh(B)
  PROVE  Fresh(A \cup B)
BY DEF Fresh

LEMMA FreshOne ==
  ASSUME NEW c, NEW op, NEW what, op \notin {"record", "choose"}
  PROVE  OnChain({Step(c, op, what)}, c)
BY StepFields DEF Fresh, OnChain

LEMMA InboxStepsOn ==
  ASSUME NEW c, NEW deployReEncode
  PROVE  /\ OnChain(InboxSteps(c, deployReEncode), c)
         /\ \A x \in InboxSteps(c, deployReEncode) : ~OfOracle(x) /\ ~OracleMade(x)
         /\ Step(c, "create", "inbox") \in InboxSteps(c, deployReEncode)
BY StepFields DEF Fresh, OnChain, InboxSteps, OfOracle, OracleMade

LEMMA TestnetStepsOn ==
  ASSUME NEW c
  PROVE  OnChain(TestnetSteps(c), c) /\ Legs(c) \in TestnetSteps(c)
BY StepFields DEF Fresh, OnChain, TestnetSteps, Prices, Legs

LEMMA ChainlinkStepsOn ==
  ASSUME NEW c
  PROVE  OnChain(ChainlinkSteps(c), c) /\ Legs(c) \in ChainlinkSteps(c)
BY StepFields DEF Fresh, OnChain, ChainlinkSteps, FeedSteps, RefreshSteps, UsdcSteps,
     Prices, Legs

ExecutorSteps(c) ==
  IF c = CotiTestnet THEN {Step(c, "deploy", "MpcExecutor")} ELSE {}

Miner(c) == Step(c, "addMiner", "miner")
Fees(c) == Step(c, "updateMinFeeConfigs", "fees")

FullSteps(c) ==
  InboxSteps(c, c = CotiTestnet) \cup ExecutorSteps(c) \cup {Miner(c)}
  \cup TestnetSteps(c) \cup {Wire(c)} \cup {Fees(c)}

LEMMA FullStepsOn ==
  ASSUME NEW c
  PROVE  /\ OnChain(FullSteps(c), c)
         /\ Deployed(FullSteps(c), c)
         /\ {Legs(c), Wire(c)} \subseteq FullSteps(c)
<1>1. /\ OnChain(ExecutorSteps(c), c) /\ OnChain({Miner(c)}, c)
      /\ OnChain({Wire(c)}, c) /\ OnChain({Fees(c)}, c)
  BY StepFields DEF Fresh, OnChain, ExecutorSteps, Miner, Wire, Fees
<1>2. OnChain(FullSteps(c), c)
  BY <1>1, InboxStepsOn, TestnetStepsOn DEF OnChain, Fresh, FullSteps
<1>. QED  BY <1>2, InboxStepsOn, TestnetStepsOn DEF FullSteps, Deployed, Miner, Fees

\* What deploy-full-testnet.ts does on one chain.
LEMMA FullPart ==
  ASSUME NEW B, Fresh(B), NEW c \in Chain, \A b \in B : b.chain # c
  PROVE  Part(B, FullScriptOf(c), FullSteps(c))
<1>. DEFINE I == InboxSteps(c, c = CotiTestnet)
            D == DeployDeterministicInbox(c, c = CotiTestnet)
            X == ExecutorSteps(c)
            T == TestnetSteps(c)
            executor == When(c = CotiTestnet, <<Step(c, "deploy", "MpcExecutor")>>)
<1>1. /\ Fresh(I) /\ Fresh(X) /\ Fresh(T) /\ Fresh({Miner(c)}) /\ Fresh({Wire(c)})
      /\ Fresh(B \cup I) /\ Fresh(B \cup (I \cup X))
  BY InboxStepsOn, TestnetStepsOn, StepFields DEF Fresh, OnChain, ExecutorSteps, Miner, Wire
<1>2. /\ "deploy" \in Op /\ "addMiner" \in Op /\ "updateMinFeeConfigs" \in Op
      /\ {"MpcExecutor", "miner", "inbox", "fees"} \subseteq What
  BY DEF Op, What
<1>3. /\ \A b \in B \cup (I \cup X \cup {Miner(c)}) : b.chain = c => ~OfOracle(b)
      /\ Legs(c) \in T
  <2>1. \A x \in X : ~OfOracle(x)
    BY StepFields DEF ExecutorSteps, OfOracle
  <2>2. ~OfOracle(Miner(c))
    BY StepFields DEF Miner, OfOracle
  <2>. QED  BY <2>1, <2>2, InboxStepsOn, TestnetStepsOn
<1>4. Part(B, D, I)
  BY InboxPart DEF NeedsCodec
<1>5. Part(B \cup I, executor, X)
  BY <1>1, <1>2, FitsPlain, PartOne, PartEmpty DEF When, ExecutorSteps
<1>. HIDE DEF I, D, X, T, executor
<1>6. Part(B, D \o executor, I \cup X)
  BY <1>4, <1>5, PartThen
<1>7. Fits(B \cup (I \cup X), Miner(c))
  BY <1>1, <1>2, FitsPlain DEF Miner
<1>8. Part(B, D \o executor \o <<Miner(c)>>, I \cup X \cup {Miner(c)})
  BY <1>6, <1>7, PartAdd
<1>9. Part(B \cup (I \cup X \cup {Miner(c)}), DeployTestnetPriceOracle(c), T)
  <2>1. Fresh(B \cup (I \cup X \cup {Miner(c)}))
    BY <1>1 DEF Fresh
  <2>. QED  BY <1>3, <2>1, TestnetPart DEF T
<1>10. Part(B \cup (I \cup X \cup {Miner(c)}), DeployTestnetPriceOracle(c) \o <<Wire(c)>>,
            T \cup {Wire(c)})
  <2>1. Fresh(B \cup (I \cup X \cup {Miner(c)}) \cup T)
    BY <1>1 DEF Fresh
  <2>2. Fits(B \cup (I \cup X \cup {Miner(c)}) \cup T, Wire(c))
    BY <1>2, <1>3, <2>1, FitsWire DEF Wire
  <2>. QED  BY <1>9, <2>2, PartAdd
<1>11. Part(B, D \o executor \o <<Miner(c)>>
                 \o (DeployTestnetPriceOracle(c) \o <<Wire(c)>>),
            I \cup X \cup {Miner(c)} \cup (T \cup {Wire(c)}))
  BY <1>8, <1>10, PartThen
<1>12. Part(B, D \o executor \o <<Miner(c)>>
                 \o (DeployTestnetPriceOracle(c) \o <<Wire(c)>>) \o <<Fees(c)>>,
            I \cup X \cup {Miner(c)} \cup (T \cup {Wire(c)}) \cup {Fees(c)})
  <2>1. Fresh(B \cup (I \cup X \cup {Miner(c)} \cup (T \cup {Wire(c)})))
    BY <1>1 DEF Fresh
  <2>2. Fits(B \cup (I \cup X \cup {Miner(c)} \cup (T \cup {Wire(c)})), Fees(c))
    BY <2>1, FitsFees DEF Fresh, Fees
  <2>. QED  BY <1>11, <2>2, PartAdd
<1>13. FullScriptOf(c) =
         D \o executor \o <<Miner(c)>>
           \o (DeployTestnetPriceOracle(c) \o <<Wire(c)>>) \o <<Fees(c)>>
  BY DEF FullScriptOf, EnsureMinerRegistered, DeployAndWireTestnetPriceOracle, SetPriceOracle,
     ConfigureTestnetInboxMinFees, Miner, Wire, Fees, D, executor
<1>14. FullSteps(c) = I \cup X \cup {Miner(c)} \cup (T \cup {Wire(c)}) \cup {Fees(c)}
  BY DEF FullSteps, I, X, T
<1>. QED  BY <1>12, <1>13, <1>14

\* Steps of the applications, which depend on nothing here.
AppOps == {"deploy", "fund", "configure"}
Plain(E) == \A x \in E : x.op \in AppOps

Harmless(seq) == \A B : Fresh(B) => \E E : Part(B, seq, E) /\ Plain(E)

LEMMA HarmlessOne ==
  ASSUME NEW c \in Chain, NEW op \in AppOps,
         NEW what \in {"Millionaire", "MpcAdder", "PErc20", "PErc20Coti"}
  PROVE  Harmless(<<Step(c, op, what)>>)
<1>1. op \in Op /\ what \in What
  BY DEF AppOps, Op, What
<1>2. ASSUME NEW B, Fresh(B) PROVE Part(B, <<Step(c, op, what)>>, {Step(c, op, what)})
  BY <1>1, <1>2, FitsPlain, PartOne DEF AppOps
<1>3. Plain({Step(c, op, what)})
  BY StepFields DEF Plain
<1>. QED  BY <1>2, <1>3 DEF Harmless

LEMMA HarmlessNone == Harmless(<<>>)
BY PartEmpty DEF Harmless, Plain

LEMMA HarmlessThen ==
  ASSUME NEW s, NEW t, Harmless(s), Harmless(t)
  PROVE  Harmless(s \o t)
<1>1. SUFFICES ASSUME NEW B, Fresh(B)
               PROVE  \E E : Part(B, s \o t, E) /\ Plain(E)
  BY DEF Harmless
<1>2. PICK E : Part(B, s, E) /\ Plain(E)
  BY <1>1 DEF Harmless
<1>3. Fresh(B \cup E)
  BY <1>1, <1>2 DEF Fresh, Plain, AppOps
<1>4. PICK F : Part(B \cup E, t, F) /\ Plain(F)
  BY <1>3 DEF Harmless
<1>5. Part(B, s \o t, E \cup F) /\ Plain(E \cup F)
  BY <1>2, <1>4, PartThen DEF Plain
<1>. QED  BY <1>5

LEMMA ApplicationsHarmless ==
  ASSUME NEW s
  PROVE  Harmless(Applications(s))
<1>1. /\ SourceChain \in Chain /\ CotiTestnet \in Chain
      /\ "deploy" \in AppOps /\ "fund" \in AppOps /\ "configure" \in AppOps
  BY DEF Chain, AppOps
<1>2. ASSUME NEW what \in {"Millionaire", "MpcAdder", "PErc20", "PErc20Coti"}
      PROVE  /\ Harmless(App(what)) /\ Harmless(Fund(what)) /\ Harmless(Configure(what))
             /\ Harmless(App(what) \o Configure(what))
             /\ Harmless(App(what) \o Fund(what) \o Configure(what))
  <2>1. Harmless(App(what)) /\ Harmless(Fund(what)) /\ Harmless(Configure(what))
    BY <1>1, HarmlessOne DEF App, Fund, Configure
  <2>. QED  BY <2>1, HarmlessThen
<1>. DEFINE M == When("ONLY_MPC_ADDER" \notin s.env, App("Millionaire") \o Configure("Millionaire"))
            P == When("ONLY_MPC_ADDER" \notin s.env,
                      App("PErc20") \o Fund("PErc20") \o Configure("PErc20"))
<1>3. Harmless(M) /\ Harmless(P)
  BY <1>2, HarmlessNone DEF When
<1>5. Harmless(App("MpcAdder")) /\ Harmless(Fund("MpcAdder")) /\ Harmless(Configure("MpcAdder"))
  BY <1>2
<1>. HIDE DEF M, P
<1>6. Harmless(M \o App("MpcAdder"))
  BY <1>3, <1>5, HarmlessThen
<1>7. Harmless(M \o App("MpcAdder") \o Fund("MpcAdder"))
  BY <1>5, <1>6, HarmlessThen
<1>8. Harmless(M \o App("MpcAdder") \o Fund("MpcAdder") \o Configure("MpcAdder"))
  BY <1>5, <1>7, HarmlessThen
<1>9. Harmless(M \o App("MpcAdder") \o Fund("MpcAdder") \o Configure("MpcAdder") \o P)
  BY <1>3, <1>8, HarmlessThen
<1>10. Applications(s) = M \o App("MpcAdder") \o Fund("MpcAdder") \o Configure("MpcAdder") \o P
  BY DEF Applications, M, P
<1>. QED  BY <1>9, <1>10

-----------------------------------------------------------------------------
(* What is known of a script before it runs.                               *)

Planned(seq) ==
  /\ seq \in Seq(StepSet)
  /\ Orderly({}, seq)
  /\ \A step \in Elements(seq) :
       /\ step.op = "record" /\ step.what = "inbox" => Choose(step.chain) \in Elements(seq)
       /\ step.op = "setPriceOracle" => step.what # "preset"

LEMMA PlannedPart ==
  ASSUME NEW seq, NEW E, Part({}, seq, E),
         \A x \in E : /\ x.op = "record" /\ x.what = "inbox" => Choose(x.chain) \in E
                      /\ x.op = "setPriceOracle" => x.what # "preset"
  PROVE  Planned(seq)
BY DEF Part, Planned

LEMMA FreshEmpty == Fresh({})
BY DEF Fresh

\* deploy-inbox.ts
LEMMA InboxPlanned ==
  ASSUME NEW s \in Scripts, s.name = "inbox"
  PROVE  Planned(InboxScript(s))
<1>. DEFINE c == s.chain
            q == Step(c, "readConfig", "inbox")
            I == InboxSteps(c, FALSE)
            w == Step(c, "record", "inbox")
<1>1. c \in Chain /\ ~NeedsCodec(c)
  BY DeployAssumption DEF Script, NeedsCodec, InboxAtSource, SourceTestnets, CotiTestnet
<1>2. /\ {"readConfig", "addMiner"} \subseteq Op /\ {"inbox", "miner"} \subseteq What
  BY DEF Op, What
<1>3. /\ q.op = "readConfig" /\ Miner(c).op = "addMiner" /\ w.op = "record"
      /\ Choose(c).op = "choose" /\ Fees(c).op = "updateMinFeeConfigs" /\ w.chain = c
      /\ \A x \in I : x.op \in {"create", "inspect"} /\ ~OfOracle(x) /\ ~OracleMade(x)
      /\ ~OfOracle(q) /\ ~OfOracle(Miner(c)) /\ ~OracleMade(q) /\ ~OracleMade(Miner(c))
      /\ Step(c, "create", "inbox") \in I
      /\ w.what = "inbox"
  BY InboxStepsOn, StepFields DEF InboxSteps, OfOracle, OracleMade, Miner, Choose, Fees
<1>4. Part({}, <<q>>, {q})
  BY <1>1, <1>2, FreshEmpty, FitsPlain, PartOne
<1>. HIDE DEF c, q, I, w
<1>5. Fresh({} \cup {q}) /\ Fresh({} \cup ({q} \cup I)) /\ Fresh({} \cup ({q} \cup I \cup {Miner(c)}))
  BY <1>3 DEF Fresh
<1>6. Part({} \cup {q}, DeployDeterministicInbox(c, FALSE), I)
  BY <1>1, <1>5, InboxPart DEF I
<1>7. Part({}, <<q>> \o DeployDeterministicInbox(c, FALSE), {q} \cup I)
  BY <1>4, <1>6, PartThen
<1>8. Fits({} \cup ({q} \cup I), Miner(c))
  BY <1>1, <1>2, <1>5, FitsPlain DEF Miner
<1>9. Part({}, <<q>> \o DeployDeterministicInbox(c, FALSE) \o <<Miner(c)>>, {q} \cup I \cup {Miner(c)})
  BY <1>7, <1>8, PartAdd
<1>. DEFINE A == {q} \cup I \cup {Miner(c)}
<1>10. Fits({} \cup A, Choose(c))
  <2>1. ~HasOracle({} \cup A, c) /\ \A b \in {} \cup A : ~OfOracle(b)
    BY <1>3 DEF HasOracle
  <2>. QED  BY <1>1, <1>5, <2>1, FitsChoose
<1>11. Fits({} \cup (A \cup {Choose(c)}), Fees(c))
  BY <1>1, <1>3, FitsFees DEF Fees
<1>12. Fits({} \cup (A \cup {Choose(c)} \cup {Fees(c)}), w)
  <2>1. Deployed({} \cup (A \cup {Choose(c)} \cup {Fees(c)}), c)
    BY <1>3 DEF Deployed, Miner, Fees
  <2>2. RecordFits({} \cup (A \cup {Choose(c)} \cup {Fees(c)}), w)
    BY <1>3, <2>1 DEF RecordFits
  <2>3. \A b \in {} \cup (A \cup {Choose(c)} \cup {Fees(c)}) : b.op # "record"
    BY <1>3
  <2>. QED  BY <1>1, <2>2, <2>3, FitsRecord DEF w
<1>. DEFINE t == <<q>> \o DeployDeterministicInbox(c, FALSE) \o <<Miner(c)>>
<1>. HIDE DEF A, t
<1>13. Part({}, t, A)
  BY <1>9 DEF A, t
<1>14. Part({}, t \o <<Choose(c)>>, A \cup {Choose(c)})
  BY <1>10, <1>13, PartAdd
<1>15. Part({}, t \o <<Choose(c)>> \o <<Fees(c)>>, A \cup {Choose(c)} \cup {Fees(c)})
  BY <1>11, <1>14, PartAdd
<1>16. Part({}, t \o <<Choose(c)>> \o <<Fees(c)>> \o <<w>>, A \cup {Choose(c)} \cup {Fees(c)} \cup {w})
  BY <1>12, <1>15, PartAdd
<1>17. InboxScript(s) = t \o <<Choose(c)>> \o <<Fees(c)>> \o <<w>>
  BY DEF InboxScript, EnsureMinerRegistered, ConfigureTestnetInboxMinFees, t, q, w, c,
     Miner, Choose, Fees
<1>18. \A x \in A \cup {Choose(c)} \cup {Fees(c)} : x.op \notin {"record", "setPriceOracle"}
  BY <1>3 DEF A
<1>. QED  BY <1>3, <1>16, <1>17, <1>18, PlannedPart

\* deploy-inbox-with-executor.ts
LEMMA ExecutorPlanned ==
  ASSUME NEW s \in Script
  PROVE  Planned(ExecutorScript(s))
<1>. DEFINE c == s.chain
            I == InboxSteps(c, TRUE)
            m == Step(c, "deploy", "MpcExecutor")
<1>1. c \in Chain
  BY DEF Script
<1>2. /\ {"deploy", "addMiner"} \subseteq Op /\ {"MpcExecutor", "miner"} \subseteq What
  BY DEF Op, What
<1>3. /\ m.op = "deploy" /\ Miner(c).op = "addMiner"
      /\ \A x \in I : x.op \in {"create", "inspect"}
  BY StepFields DEF InboxSteps, Miner
<1>. HIDE DEF c, I, m
<1>4. Part({}, DeployDeterministicInbox(c, TRUE), I)
  BY <1>1, FreshEmpty, InboxPart DEF I
<1>5. Fresh({} \cup I) /\ Fresh({} \cup (I \cup {m}))
  BY <1>3 DEF Fresh
<1>6. Fits({} \cup I, m) /\ Fits({} \cup (I \cup {m}), Miner(c))
  BY <1>1, <1>2, <1>5, FitsPlain DEF m, Miner
<1>7. Part({}, DeployDeterministicInbox(c, TRUE) \o <<m>>, I \cup {m})
  BY <1>4, <1>6, PartAdd
<1>8. Part({}, DeployDeterministicInbox(c, TRUE) \o <<m>> \o <<Miner(c)>>, I \cup {m} \cup {Miner(c)})
  BY <1>6, <1>7, PartAdd
<1>9. ExecutorScript(s) = DeployDeterministicInbox(c, TRUE) \o <<m>> \o <<Miner(c)>>
  BY DEF ExecutorScript, EnsureMinerRegistered, c, m, Miner
<1>10. \A x \in I \cup {m} \cup {Miner(c)} : x.op \notin {"record", "setPriceOracle"}
  BY <1>3
<1>. QED  BY <1>8, <1>9, <1>10, PlannedPart

\* deploy-full-testnet.ts
LEMMA FullPlanned ==
  ASSUME NEW s \in Script, s.name = "full"
  PROVE  Planned(FullScript(s))
<1>. DEFINE F == FullSteps(SourceChain)
            G == FullSteps(CotiTestnet)
            f == FullScriptOf(SourceChain)
            g == FullScriptOf(CotiTestnet)
            h == Applications(s)
            x == Step(CotiTestnet, "deploy", "PErc20Coti")
            q == Step(SourceChain, "readConfig", "full")
            w == Step(SourceChain, "record", "full")
<1>1. SourceChain \in Chain /\ CotiTestnet \in Chain /\ SourceChain # CotiTestnet
  BY DeployAssumption DEF Chain, SourceTestnets, CotiTestnet
<1>2. {"readConfig", "deploy"} \subseteq Op /\ {"full", "PErc20Coti"} \subseteq What
  BY DEF Op, What
<1>3. /\ OnChain(F, SourceChain) /\ OnChain(G, CotiTestnet)
      /\ Deployed(F, SourceChain) /\ {Legs(SourceChain), Wire(SourceChain)} \subseteq F
      /\ Deployed(G, CotiTestnet) /\ {Legs(CotiTestnet), Wire(CotiTestnet)} \subseteq G
  BY FullStepsOn
<1>4. /\ q.op = "readConfig" /\ w.op = "record" /\ w.what = "full" /\ w.chain = SourceChain
      /\ x.op = "deploy"
  BY StepFields
<1>5. \A y \in F \cup G : y.op = "setPriceOracle" => y.what # "preset"
  BY StepFields DEF FullSteps, InboxSteps, ExecutorSteps, TestnetSteps, Prices, Legs, Wire,
     Miner, Fees
<1>. HIDE DEF F, G, f, g, h, x, q, w
<1>6. Part({}, f, F)
  BY <1>1, FreshEmpty, FullPart DEF F, f
<1>7. Part({} \cup F, g, G)
  <2>1. Fresh({} \cup F) /\ \A b \in {} \cup F : b.chain # CotiTestnet
    BY <1>1, <1>3 DEF OnChain, Fresh
  <2>. QED  BY <1>1, <2>1, FullPart DEF G, g
<1>8. Part({}, f \o g, F \cup G)
  BY <1>6, <1>7, PartThen
<1>9. PICK H : Part({} \cup (F \cup G), h, H) /\ Plain(H)
  <2>1. Fresh({} \cup (F \cup G))
    BY <1>3 DEF OnChain, Fresh
  <2>. QED  BY <2>1, ApplicationsHarmless DEF Harmless, h
<1>10. Part({}, f \o g \o h, F \cup G \cup H)
  BY <1>8, <1>9, PartThen
<1>11. Fits({} \cup (F \cup G \cup H), x) /\ Fits({} \cup (F \cup G \cup H) \cup {x}, q)
  <2>1. Fresh({} \cup (F \cup G \cup H)) /\ Fresh({} \cup (F \cup G \cup H) \cup {x})
    BY <1>3, <1>4, <1>9 DEF OnChain, Fresh, Plain, AppOps
  <2>. QED  BY <1>1, <1>2, <2>1, FitsPlain DEF q, x
<1>12. Fits({} \cup (F \cup G \cup H) \cup {x, q}, w)
  <2>. DEFINE B == {} \cup (F \cup G \cup H) \cup {x, q}
  <2>1. \A b \in B : b.op # "record"
    BY <1>3, <1>4, <1>9 DEF OnChain, Fresh, Plain, AppOps
  <2>2. \A d \in Chain : Deployed(B, d) /\ {Legs(d), Wire(d)} \subseteq B
    BY <1>3 DEF Chain, Deployed
  <2>. HIDE DEF B
  <2>3. RecordFits(B, w)
    BY <1>4, <2>2 DEF RecordFits
  <2>4. Fits(B, w)
    BY <1>1, <2>1, <2>3, FitsRecord DEF w
  <2>. QED  BY <2>4 DEF B
<1>13. Part({} \cup (F \cup G \cup H), <<x, q, w>>, {x, q, w})
  BY <1>11, <1>12, PartThree
<1>14. Part({}, f \o g \o h \o <<x, q, w>>, F \cup G \cup H \cup {x, q, w})
  BY <1>10, <1>13, PartThen
<1>15. \A y \in F \cup G \cup H \cup {x, q, w} :
         /\ ~(y.op = "record" /\ y.what = "inbox")
         /\ y.op = "setPriceOracle" => y.what # "preset"
  BY <1>3, <1>4, <1>5, <1>9 DEF OnChain, Fresh, Plain, AppOps
<1>16. FullScript(s) = f \o g \o h \o <<x, q, w>>
  BY DEF FullScript, f, g, h, x, q, w
<1>. QED  BY <1>14, <1>15, <1>16, PlannedPart

NewOracleSteps(s) ==
  IF "USE_PLAIN_ORACLE" \in s.env THEN TestnetSteps(s.chain) ELSE ChainlinkSteps(s.chain)

LEMMA NewOraclePart ==
  ASSUME NEW s \in Script
  PROVE  /\ Part({}, NewOracle(s), NewOracleSteps(s))
         /\ OnChain(NewOracleSteps(s), s.chain)
         /\ Legs(s.chain) \in NewOracleSteps(s)
         /\ \A x \in NewOracleSteps(s) : x.op # "setPriceOracle"
<1>1. s.chain \in Chain
  BY DEF Script
<1>2. /\ \A x \in TestnetSteps(s.chain) : x.op # "setPriceOracle"
      /\ \A x \in ChainlinkSteps(s.chain) : x.op # "setPriceOracle"
  BY StepFields DEF TestnetSteps, ChainlinkSteps, FeedSteps, RefreshSteps, UsdcSteps, Prices,
     Legs
<1>. QED  BY <1>1, <1>2, FreshEmpty, TestnetPart, ChainlinkPart, TestnetStepsOn,
             ChainlinkStepsOn DEF NewOracle, NewOracleSteps

\* A wire on condition, once the legs were read back.
WireSteps(condition, c, where) ==
  IF condition THEN {Step(c, "setPriceOracle", where)} ELSE {}

LEMMA WirePart ==
  ASSUME NEW B, Fresh(B), NEW c \in Chain, NEW where \in {"inbox", "factory"}, Legs(c) \in B,
         NEW name, NEW env
  PROVE  /\ Part(B, When(name \in env, SetPriceOracle(c, where)),
                 WireSteps(name \in env, c, where))
         /\ Fresh(B \cup WireSteps(name \in env, c, where))
<1>1. where \in What
  BY DEF What
<1>2. Fits(B, Step(c, "setPriceOracle", where))
  BY <1>1, FitsWire
<1>3. Step(c, "setPriceOracle", where).op = "setPriceOracle"
  BY StepFields
<1>. QED  BY <1>2, <1>3, PartOne, PartEmpty DEF When, SetPriceOracle, WireSteps, Fresh

\* deploy-oracle.ts
LEMMA OraclePlanned ==
  ASSUME NEW s \in Script, s.name = "oracle"
  PROVE  Planned(OracleScript(s))
<1>. DEFINE c == s.chain
            N == NewOracleSteps(s)
            n == NewOracle(s)
            I == WireSteps("INBOX_ADDRESS" \in s.env, c, "inbox")
            i == When("INBOX_ADDRESS" \in s.env, SetPriceOracle(c, "inbox"))
            F == WireSteps("FACTORY_ADDRESS" \in s.env, c, "factory")
            f == When("FACTORY_ADDRESS" \in s.env, SetPriceOracle(c, "factory"))
            q == Step(c, "readConfig", "oracle")
            w == Step(c, "record", "oracle")
<1>1. c \in Chain /\ "readConfig" \in Op /\ "oracle" \in What
  BY DEF Script, Op, What
<1>2. /\ Part({}, n, N) /\ Fresh(N) /\ Legs(c) \in N
      /\ \A x \in N : x.op # "setPriceOracle"
  BY NewOraclePart DEF OnChain
<1>3. \A x \in I \cup F : x.op = "setPriceOracle" /\ x.what # "preset"
  BY StepFields DEF WireSteps
<1>4. q.op = "readConfig" /\ w.op = "record" /\ w.what = "oracle" /\ w.chain = c
  BY StepFields
<1>. HIDE DEF c, N, n, q, w
<1>5. Part({} \cup N, i, I) /\ Fresh({} \cup N \cup I)
  <2>1. Fresh({} \cup N) /\ Legs(c) \in {} \cup N
    BY <1>2
  <2>. QED  BY <1>1, <2>1, WirePart
<1>6. Part({} \cup N \cup I, f, F) /\ Fresh({} \cup N \cup I \cup F)
  BY <1>1, <1>2, <1>5, WirePart
<1>. HIDE DEF I, i, F, f
<1>7. Part({}, n \o i, N \cup I)
  BY <1>2, <1>5, PartThen
<1>8. Part({}, n \o i \o f, N \cup I \cup F)
  <2>1. {} \cup (N \cup I) = {} \cup N \cup I
    OBVIOUS
  <2>. QED  BY <1>6, <1>7, <2>1, PartThen
<1>9. Fits({} \cup (N \cup I \cup F), q) /\ Fits({} \cup (N \cup I \cup F) \cup {q}, w)
  <2>. DEFINE B == {} \cup (N \cup I \cup F)
  <2>1. Fresh(B) /\ Legs(c) \in B /\ \A b \in B \cup {q} : b.op # "record"
    BY <1>2, <1>4, <1>6 DEF Fresh
  <2>. HIDE DEF B
  <2>2. Fits(B, q)
    BY <1>1, <2>1, FitsPlain DEF q
  <2>3. RecordFits(B \cup {q}, w)
    BY <1>4, <2>1 DEF RecordFits
  <2>4. Fits(B \cup {q}, w)
    BY <1>1, <2>1, <2>3, FitsRecord DEF w
  <2>. QED  BY <2>2, <2>4 DEF B
<1>10. Part({}, n \o i \o f \o <<q, w>>, N \cup I \cup F \cup {q, w})
  BY <1>8, <1>9, PartTwo, PartThen
<1>11. OracleScript(s) = n \o i \o f \o <<q, w>>
  BY DEF OracleScript, n, i, f, q, w, c
<1>12. \A x \in N \cup I \cup F \cup {q, w} :
         /\ ~(x.op = "record" /\ x.what = "inbox")
         /\ x.op = "setPriceOracle" => x.what # "preset"
  BY <1>2, <1>3, <1>4 DEF Fresh
<1>. QED  BY <1>10, <1>11, <1>12, PlannedPart

\* migrate-oracle.ts
LEMMA MigratePlanned ==
  ASSUME NEW s \in Script
  PROVE  Planned(MigrateScript(s))
<1>. DEFINE c == s.chain
            N == NewOracleSteps(s)
            n == NewOracle(s)
            F == WireSteps("FACTORY_ADDRESS" \in s.env, c, "factory")
            f == When("FACTORY_ADDRESS" \in s.env, SetPriceOracle(c, "factory"))
<1>1. c \in Chain /\ "inbox" \in What
  BY DEF Script, What
<1>2. /\ Part({}, n, N) /\ Fresh(N) /\ Legs(c) \in N
      /\ \A x \in N : x.op # "setPriceOracle"
  BY NewOraclePart DEF OnChain
<1>3. \A x \in F \cup {Wire(c)} : x.op = "setPriceOracle" /\ x.what # "preset"
  BY StepFields DEF WireSteps, Wire
<1>. HIDE DEF c, N, n
<1>4. Fits({} \cup N, Wire(c))
  <2>1. Fresh({} \cup N) /\ Legs(c) \in {} \cup N
    BY <1>2
  <2>. QED  BY <1>1, <2>1, FitsWire DEF Wire
<1>5. Part({}, n \o <<Wire(c)>>, N \cup {Wire(c)})
  BY <1>2, <1>4, PartAdd
<1>6. Part({} \cup (N \cup {Wire(c)}), f, F)
  <2>1. Fresh({} \cup (N \cup {Wire(c)})) /\ Legs(c) \in {} \cup (N \cup {Wire(c)})
    BY <1>2, <1>3 DEF Fresh
  <2>. QED  BY <1>1, <2>1, WirePart
<1>. HIDE DEF F, f
<1>7. Part({}, n \o <<Wire(c)>> \o f, N \cup {Wire(c)} \cup F)
  BY <1>5, <1>6, PartThen
<1>8. MigrateScript(s) = n \o <<Wire(c)>> \o f
  BY DEF MigrateScript, SetPriceOracle, Wire, n, f, c
<1>9. \A x \in N \cup {Wire(c)} \cup F :
        /\ ~(x.op = "record" /\ x.what = "inbox")
        /\ x.op = "setPriceOracle" => x.what # "preset"
  BY <1>2, <1>3 DEF Fresh
<1>. QED  BY <1>7, <1>8, <1>9, PlannedPart

\* Whatever a script is called with, each of its steps comes after those it
\* depends on.
LEMMA ProgramPlanned ==
  ASSUME NEW s \in Scripts
  PROVE  Planned(Program(s))
<1>1. s \in Script /\ s.name \in {"inbox", "executor", "full", "oracle", "migrate"}
  BY DeployAssumption DEF Script
<1>. QED  BY <1>1, InboxPlanned, ExecutorPlanned, FullPlanned, OraclePlanned, MigratePlanned
          DEF Program

-----------------------------------------------------------------------------
(* What the chains keep.                                                   *)

\* A chain's record only gains.
Grows(l, l2) ==
  /\ l \in LedgerSet /\ l2 \in LedgerSet
  /\ l.code \subseteq l2.code
  /\ l.miner => l2.miner
  /\ l.apps \subseteq l2.apps
  /\ l.fees # {} => l2.fees # {}
  /\ l.oracle # NoOracle => l2.oracle # NoOracle
  /\ l.factory # NoOracle => l2.factory # NoOracle
  /\ Len(l.oracles) <= Len(l2.oracles)
  /\ \A o \in 1 .. Len(l.oracles) :
       /\ l.oracles[o].set \subseteq l2.oracles[o].set
       /\ \A leg \in Leg :
            l.oracles[o].legs[leg] # NoPrice => l2.oracles[o].legs[leg] # NoPrice

\* A step that is no longer pending is in effect, where a script may rely on it.
Serves(queue, queue2, l2) ==
  \A step : InQueue(queue, step) =>
    \/ InQueue(queue2, step)
    \/ /\ step = Preset(step.chain) => l2.oracle # NoOracle
       /\ step.op \in {"fund", "configure"} => step \in l2.apps

Moves(L, P, L2, P2) ==
  \A c \in Chain : Grows(L[c], L2[c]) /\ Serves(P[c], P2[c], L2[c])

LEMMA Lengths ==
  ASSUME NEW l \in LedgerSet
  PROVE  Len(l.oracles) \in Nat /\ DOMAIN l.oracles = 1 .. Len(l.oracles)
BY DEF LedgerSet

LEMMA GoodGrows ==
  ASSUME NEW l, NEW l2, NEW o, Grows(l, l2), Good(l, o)
  PROVE  Good(l2, o)
<1>1. Len(l.oracles) \in Nat /\ Len(l2.oracles) \in Nat
  BY Lengths DEF Grows
<1>2. o \in 1 .. Len(l2.oracles)
  BY <1>1 DEF Grows, Good
<1>. QED  BY <1>2 DEF Grows, Good

LEMMA InForceMoves ==
  ASSUME NEW l, NEW l2, NEW queue, NEW queue2, NEW o, NEW step \in StepSet,
         Grows(l, l2), Serves(queue, queue2, l2), InForce(l, queue, o, step)
  PROVE  InForce(l2, queue2, o, step)
<1>1. Len(l.oracles) \in Nat /\ Len(l2.oracles) \in Nat
  BY Lengths DEF Grows
<1>2. o \in 1 .. Len(l.oracles) => o \in 1 .. Len(l2.oracles)
  BY <1>1 DEF Grows
<1>3. /\ step.op = "create" => step.what \in l2.code
      /\ step.op = "addMiner" => l2.miner
      /\ OracleMade(step) \/ OfOracle(step) => o \in 1 .. Len(l2.oracles)
      /\ step.op = "updateMinFeeConfigs" => l2.fees # {}
  BY <1>2 DEF Grows, InForce
<1>4. /\ step.op \in {"setPrice", "resetPrice"} =>
           step.what \in Leg /\ l2.oracles[o].legs[step.what] # NoPrice
      /\ step.op \in {"setToken", "setFeed"} => step.what \in l2.oracles[o].set
  BY DEF Grows, InForce, OfOracle
<1>5. step = Legs(step.chain) => Good(l2, o)
  BY GoodGrows DEF InForce
<1>6. step.op = "setPriceOracle" =>
        IF step.what = "factory" THEN l2.factory # NoOracle
        ELSE l2.oracle # NoOracle \/ (step = Preset(step.chain) /\ InQueue(queue2, step))
  BY DEF Grows, Serves, InForce
<1>7. step.op \in {"fund", "configure"} => step \in l2.apps \/ InQueue(queue2, step)
  BY DEF Grows, Serves, InForce
<1>. QED  BY <1>3, <1>4, <1>5, <1>6, <1>7 DEF InForce

LEMMA UsableMoves ==
  ASSUME NEW L, NEW P, NEW L2, NEW P2, NEW conf, Moves(L, P, L2, P2), Usable(conf, L, P)
  PROVE  Usable(conf, L2, P2)
<1>1. ASSUME NEW c \in Chain, conf[c].oracle # NoOracle PROVE Good(L2[c], conf[c].oracle)
  BY <1>1, GoodGrows DEF Moves, Usable
<1>2. ASSUME NEW c \in Chain, conf[c].inbox
      PROVE  /\ "inbox" \in L2[c].code
             /\ L2[c].miner
             /\ L2[c].fees # {}
             /\ conf[c].oracle # NoOracle
             /\ L2[c].oracle # NoOracle \/ InQueue(P2[c], Preset(c))
  <2>1. Preset(c) = Preset(Preset(c).chain)
    BY StepFields DEF Preset
  <2>. QED  BY <1>2, <2>1 DEF Moves, Grows, Serves, Usable
<1>. QED  BY <1>1, <1>2 DEF Usable

\* The steps a script may have.
LEMMA RunSteps ==
  ASSUME NEW r \in RunSet
  PROVE  /\ r.done \subseteq StepSet /\ r.todo \in Seq(StepSet)
         /\ Elements(r.todo) \subseteq StepSet
         /\ \A c \in Chain : r.oracle[c] \in Nat
         /\ \A step \in StepSet : step.chain \in Chain
<1>1. r.todo \in Seq(StepSet)
  BY DEF RunSet
<1>2. Elements(r.todo) \subseteq StepSet
  BY <1>1 DEF Elements
<1>. QED  BY <1>1, <1>2 DEF RunSet, StepSet

LEMMA RunSoundMoves ==
  ASSUME NEW L, NEW P, NEW L2, NEW P2, NEW r, Moves(L, P, L2, P2), RunSound(r, L, P)
  PROVE  RunSound(r, L2, P2)
<1>1. r \in RunSet
  BY DEF RunSound
<1>2. ASSUME NEW step \in r.done
      PROVE  InForce(L2[step.chain], P2[step.chain], r.oracle[step.chain], step)
  <2>1. step \in StepSet /\ step.chain \in Chain
    BY <1>1, RunSteps
  <2>. QED  BY <2>1, InForceMoves DEF RunSound, Moves
<1>3. ASSUME NEW c \in Chain
      PROVE  /\ r.oracle[c] <= Len(L2[c].oracles)
             /\ Preset(c) \in Elements(r.todo) => Good(L2[c], r.oracle[c])
             /\ Chosen(r, c, L2[c])
  <2>1. Grows(L[c], L2[c])
    BY DEF Moves
  <2>2. Len(L[c].oracles) \in Nat /\ Len(L2[c].oracles) \in Nat /\ r.oracle[c] \in Nat
    BY <1>1, <2>1, Lengths, RunSteps DEF Grows
  <2>3. r.oracle[c] <= Len(L2[c].oracles)
    BY <2>1, <2>2 DEF RunSound, Grows
  <2>4. Preset(c) \in Elements(r.todo) => Good(L2[c], r.oracle[c])
    BY <2>1, GoodGrows DEF RunSound
  <2>5. Chosen(r, c, L2[c])
    BY <2>1, GoodGrows DEF RunSound, Chosen, Grows
  <2>. QED  BY <2>3, <2>4, <2>5
<1>4. Usable(r.snapshot, L2, P2)
  BY UsableMoves DEF RunSound
<1>. QED  BY <1>2, <1>3, <1>4 DEF RunSound

LEMMA TxSoundGrows ==
  ASSUME NEW c, NEW tx \in TxSet, NEW l, NEW l2, Grows(l, l2), TxSound(c, tx, l)
  PROVE  TxSound(c, tx, l2)
<1>1. Len(l.oracles) \in Nat /\ Len(l2.oracles) \in Nat /\ tx.oracle \in Nat
  BY Lengths DEF Grows, TxSet
<1>2. tx.oracle <= Len(l2.oracles)
  BY <1>1 DEF Grows, TxSound
<1>3. Good(l, tx.oracle) => Good(l2, tx.oracle)
  BY GoodGrows
<1>. QED  BY <1>2, <1>3 DEF Grows, TxSound

LEMMA Stays ==
  ASSUME NEW L, NEW P, \A c \in Chain : L[c] \in LedgerSet
  PROVE  \A c \in Chain : Grows(L[c], L[c]) /\ Serves(P[c], P[c], L[c])
<1>1. \A c \in Chain : Len(L[c].oracles) \in Nat
  BY Lengths
<1>. QED  BY <1>1 DEF Grows, Serves

-----------------------------------------------------------------------------
(* A script goes on.                                                       *)

LEMMA OrderlyTail ==
  ASSUME NEW B, NEW seq \in Seq(StepSet), seq # <<>>, Orderly(B, seq)
  PROVE  /\ Fits(B, Head(seq))
         /\ Orderly(B \cup {Head(seq)}, Tail(seq))
         /\ Elements(seq) = {Head(seq)} \cup Elements(Tail(seq))
         /\ Head(seq) \in StepSet /\ Tail(seq) \in Seq(StepSet)
<1>1. /\ Len(seq) \in Nat \ {0} /\ DOMAIN seq = 1 .. Len(seq) /\ Head(seq) = seq[1]
      /\ DOMAIN Tail(seq) = 1 .. Len(seq) - 1
      /\ \A k \in 1 .. Len(seq) - 1 : Tail(seq)[k] = seq[k + 1]
      /\ Head(seq) \in StepSet /\ Tail(seq) \in Seq(StepSet)
  OBVIOUS
<1>2. Fits(B, Head(seq))
  <2>1. Fits(B \cup {seq[j] : j \in 1 .. 1 - 1}, seq[1])
    BY <1>1 DEF Orderly
  <2>2. B \cup {seq[j] : j \in 1 .. 1 - 1} = B
    OBVIOUS
  <2>. QED  BY <1>1, <2>1, <2>2
<1>3. ASSUME NEW k \in DOMAIN Tail(seq)
      PROVE  Fits((B \cup {Head(seq)}) \cup {Tail(seq)[j] : j \in 1 .. k - 1}, Tail(seq)[k])
  <2>1. k + 1 \in DOMAIN seq /\ Tail(seq)[k] = seq[k + 1]
    BY <1>1
  <2>2. Fits(B \cup {seq[j] : j \in 1 .. (k + 1) - 1}, seq[k + 1])
    BY <2>1 DEF Orderly
  <2>3. \A j \in 1 .. (k + 1) - 1 : j = 1 \/ j - 1 \in 1 .. k - 1
    BY <1>1
  <2>4. \A j \in 1 .. k - 1 : j + 1 \in 1 .. (k + 1) - 1 /\ Tail(seq)[j] = seq[j + 1]
    BY <1>1
  <2>5. 1 \in 1 .. (k + 1) - 1
    BY <1>1
  <2>6. \A j \in 1 .. (k + 1) - 1 : j # 1 => seq[j] = Tail(seq)[j - 1]
    BY <1>1
  <2>. DEFINE S == {seq[j] : j \in 1 .. (k + 1) - 1}
              T == {Tail(seq)[j] : j \in 1 .. k - 1}
  <2>7. \A x \in S : x \in {Head(seq)} \cup T
    BY <1>1, <2>3, <2>6
  <2>8. \A x \in T : x \in S
    BY <2>4
  <2>9. Head(seq) \in S
    BY <1>1, <2>5
  <2>. HIDE DEF S, T
  <2>10. B \cup S = (B \cup {Head(seq)}) \cup T
    BY <2>7, <2>8, <2>9
  <2>. QED  BY <2>1, <2>2, <2>10 DEF S, T
<1>4. Elements(seq) = {Head(seq)} \cup Elements(Tail(seq))
  <2>1. \A j \in DOMAIN seq : j = 1 \/ j - 1 \in DOMAIN Tail(seq)
    BY <1>1
  <2>2. \A j \in DOMAIN Tail(seq) : j + 1 \in DOMAIN seq /\ Tail(seq)[j] = seq[j + 1]
    BY <1>1
  <2>3. 1 \in DOMAIN seq
    BY <1>1
  <2>4. \A j \in DOMAIN seq : j # 1 => seq[j] = Tail(seq)[j - 1]
    BY <1>1
  <2>5. \A x \in Elements(seq) : x \in {Head(seq)} \cup Elements(Tail(seq))
    BY <1>1, <2>1, <2>4 DEF Elements
  <2>6. \A x \in Elements(Tail(seq)) : x \in Elements(seq)
    BY <2>2 DEF Elements
  <2>7. Head(seq) \in Elements(seq)
    BY <1>1, <2>3 DEF Elements
  <2>. QED  BY <2>5, <2>6, <2>7
<1>. QED  BY <1>1, <1>2, <1>3, <1>4 DEF Orderly

LEMMA PastFields ==
  ASSUME NEW r \in RunSet, r.todo # <<>>
  PROVE  /\ Past(r) \in RunSet
         /\ Past(r).pc = "ready"
         /\ Past(r).done = r.done \cup {Head(r.todo)}
         /\ Past(r).todo = Tail(r.todo)
         /\ Past(r).oracle = r.oracle /\ Past(r).snapshot = r.snapshot
         /\ Past(r).calm = r.calm /\ Past(r).outcome = r.outcome
<1>1. r.todo \in Seq(StepSet)
  BY DEF RunSet
<1>2. Head(r.todo) \in StepSet /\ Tail(r.todo) \in Seq(StepSet)
  BY <1>1
<1>. QED  BY <1>2 DEF Past, RunSet

\* A script at its first step.
LEMMA AtHead ==
  ASSUME NEW r, NEW L, NEW P, RunSound(r, L, P), r.todo # <<>>
  PROVE  /\ r \in RunSet
         /\ Head(r.todo) \in StepSet /\ Head(r.todo).chain \in Chain
         /\ Head(r.todo) \in Elements(r.todo)
         /\ Fits(Behind(r), Head(r.todo))
         /\ Orderly(Behind(r) \cup {Head(r.todo)}, Tail(r.todo))
         /\ Tail(r.todo) \in Seq(StepSet)
         /\ Elements(r.todo) = {Head(r.todo)} \cup Elements(Tail(r.todo))
<1>1. r \in RunSet /\ r.todo \in Seq(StepSet)
  BY DEF RunSound, RunSet
<1>2. Orderly(Behind(r), r.todo)
  BY DEF RunSound
<1>3. /\ Fits(Behind(r), Head(r.todo))
      /\ Orderly(Behind(r) \cup {Head(r.todo)}, Tail(r.todo))
      /\ Elements(r.todo) = {Head(r.todo)} \cup Elements(Tail(r.todo))
      /\ Head(r.todo) \in StepSet /\ Tail(r.todo) \in Seq(StepSet)
  BY <1>1, <1>2, OrderlyTail
<1>. QED  BY <1>1, <1>3 DEF StepSet

\* What is done about an oracle is done with one there.
LEMMA OracleThere ==
  ASSUME NEW r, NEW L, NEW P, RunSound(r, L, P), NEW c, HasOracle(Behind(r), c)
  PROVE  r.oracle[c] \in 1 .. Len(L[c].oracles)
<1>1. PICK b \in r.done : OracleMade(b) /\ b.chain = c
  BY DEF HasOracle, Behind
<1>2. InForce(L[c], P[c], r.oracle[c], b)
  BY <1>1 DEF RunSound
<1>. QED  BY <1>1, <1>2 DEF InForce

LEMMA PastSound ==
  ASSUME NEW r, NEW L, NEW P, RunSound(r, L, P), r.todo # <<>>,
         Head(r.todo).op # "choose",
         InForce(L[Head(r.todo).chain], P[Head(r.todo).chain],
                 r.oracle[Head(r.todo).chain], Head(r.todo))
  PROVE  RunSound(Past(r), L, P)
<1>. DEFINE h == Head(r.todo)
            s == Past(r)
<1>1. r \in RunSet /\ h \in StepSet /\ h.chain \in Chain
  BY AtHead
<1>2. /\ s \in RunSet /\ s.pc = "ready" /\ s.done = r.done \cup {h} /\ s.todo = Tail(r.todo)
      /\ s.oracle = r.oracle /\ s.snapshot = r.snapshot
  BY <1>1, PastFields
<1>3. Elements(r.todo) = {h} \cup Elements(s.todo) /\ Orderly(Behind(r) \cup {h}, s.todo)
  BY <1>2, AtHead
<1>4. h.op # "choose" /\ InForce(L[h.chain], P[h.chain], r.oracle[h.chain], h)
  OBVIOUS
<1>. HIDE DEF h, s
<1>5. All(s) = All(r)
  BY <1>2, <1>3 DEF All
<1>6. Behind(s) = Behind(r) \cup {h}
  BY <1>2, <1>4 DEF Behind
<1>7. \A step \in s.done : InForce(L[step.chain], P[step.chain], s.oracle[step.chain], step)
  BY <1>2, <1>4 DEF RunSound
<1>8. ASSUME NEW c \in Chain PROVE Chosen(s, c, L[c])
  <2>1. Choose(c) # h
    BY <1>4, StepFields DEF Choose
  <2>2. Chosen(r, c, L[c])
    BY DEF RunSound
  <2>. QED  BY <1>2, <1>3, <1>5, <2>1, <2>2 DEF Chosen
<1>9. \A step \in Elements(s.todo) :
        step.op = "record" /\ step.what = "inbox" => Choose(step.chain) \in All(s)
  BY <1>3, <1>5 DEF RunSound
<1>10. \A c \in Chain : /\ s.oracle[c] <= Len(L[c].oracles)
                        /\ Preset(c) \in Elements(s.todo) => Good(L[c], s.oracle[c])
  BY <1>2, <1>3 DEF RunSound
<1>11. Usable(s.snapshot, L, P)
  BY <1>2 DEF RunSound
<1>12. Orderly(Behind(s), s.todo)
  BY <1>3, <1>6
<1>13. RunSound(s, L, P)
  BY <1>2, <1>7, <1>8, <1>9, <1>10, <1>11, <1>12 DEF RunSound
<1>. QED  BY <1>13 DEF s

\* A script that has only looked around.
LEMMA SameSteps ==
  ASSUME NEW r, NEW L, NEW P, RunSound(r, L, P), NEW s \in RunSet,
         s.todo = r.todo, s.done = r.done, s.oracle = r.oracle, Usable(s.snapshot, L, P),
         s.pc \in {"send", "wait"} => s.todo # <<>>,
         s.pc = "send" => Head(s.todo).op \in Looking,
         s.pc = "wait" => Head(s.todo).op \notin Local
  PROVE  RunSound(s, L, P)
<1>1. All(s) = All(r) /\ Behind(s) = Behind(r)
  BY DEF All, Behind
<1>2. \A c \in Chain : Chosen(s, c, L[c])
  BY <1>1 DEF RunSound, Chosen
<1>. QED  BY <1>1, <1>2 DEF RunSound

LEMMA NothingRecorded ==
  ASSUME NEW L, NEW P
  PROVE  Usable(NotRecorded, L, P)
BY DEF Usable, NotRecorded, ConfigSet, NoOracle

LEMMA IdleSound ==
  ASSUME NEW L, NEW P, \A c \in Chain : L[c] \in LedgerSet, NEW calm \in BOOLEAN,
         NEW outcome \in {"none", "done", "failed", "refused"}, NEW r,
         r = [Idle EXCEPT !.calm = calm, !.outcome = outcome]
  PROVE  RunSound(r, L, P) /\ r.pc = "idle"
<1>1. /\ r.pc = "idle" /\ r.todo = <<>> /\ r.done = {} /\ r.oracle = [c \in Chain |-> NoOracle]
      /\ r.snapshot = NotRecorded /\ r.calm = calm /\ r.outcome = outcome
  BY DEF Idle
<1>2. NotRecorded \in ConfigSet
  BY DEF NotRecorded, ConfigSet, NoOracle
<1>3. <<>> \in Seq(StepSet) /\ {} \in SUBSET StepSet /\ [c \in Chain |-> NoOracle] \in [Chain -> Nat]
  BY DEF NoOracle
<1>4. r \in RunSet
  BY <1>2, <1>3 DEF RunSet, Idle
<1>5. Elements(r.todo) = {}
  BY <1>1 DEF Elements
<1>6. Orderly(Behind(r), r.todo)
  BY <1>1 DEF Orderly
<1>7. \A c \in Chain : r.oracle[c] <= Len(L[c].oracles)
  BY <1>1, Lengths DEF NoOracle
<1>8. \A c \in Chain : Chosen(r, c, L[c])
  BY <1>1 DEF Chosen
<1>. QED  BY <1>1, <1>4, <1>5, <1>6, <1>7, <1>8, NothingRecorded DEF RunSound

-----------------------------------------------------------------------------
(* Steps that only a script takes part in.                                 *)

\* The names of a few steps.
LEMMA NamedSteps ==
  \A c : /\ Legs(c).op = "inspect" /\ Legs(c).what = "legs" /\ Legs(c).chain = c
         /\ Preset(c).op = "setPriceOracle" /\ Preset(c).what = "preset" /\ Preset(c).chain = c
         /\ Wire(c).op = "setPriceOracle" /\ Wire(c).what = "inbox" /\ Wire(c).chain = c
         /\ Choose(c).op = "choose" /\ Choose(c).what = "oracle" /\ Choose(c).chain = c
BY DEF Legs, Preset, Wire, Choose, Step

\* What is kept while one script, which waits for nothing, becomes r.
LEMMA RunChanges ==
  ASSUME DeployInv, NEW p \in Run, NEW r,
         UNCHANGED <<ledger, pool>>, run' = [run EXCEPT ![p] = r],
         RunSound(r, ledger, pool), run[p].pc # "wait", r.pc # "wait",
         Usable(config', ledger, pool), starts' \in 0 .. MaxStarts, faults' \in 0 .. MaxFaults
  PROVE  DeployInv'
<1>1. /\ run' = [q \in Run |-> run'[q]]
      /\ run'[p] = r /\ \A q \in Run \ {p} : run'[q] = run[q]
  BY DEF DeployInv
<1>0. Waiting
  BY DEF DeployInv
<1>2. \A c \in Chain : \A i \in DOMAIN pool[c] : p \notin pool[c][i].by
  BY <1>0 DEF Waiting
<1>3. Waiting'
  <2>1. ASSUME NEW c \in Chain, NEW i \in DOMAIN pool[c], NEW q \in pool[c][i].by
        PROVE  /\ run'[q].pc = "wait"
               /\ Head(run'[q].todo) = pool[c][i].step
               /\ run'[q].oracle[c] = pool[c][i].oracle
               /\ \A j \in DOMAIN pool[c] : q \in pool[c][j].by => j = i
    <3>1. q \in Run
      <4>1. pool[c] \in Seq(TxSet)
        BY DEF DeployInv
      <4>2. pool[c][i] \in TxSet
        BY <4>1
      <4>. QED  BY <4>2 DEF TxSet
    <3>2. run'[q] = run[q]
      BY <1>1, <1>2, <3>1
    <3>. QED  BY <1>0, <3>2 DEF Waiting
  <2>2. ASSUME NEW q \in Run, run'[q].pc = "wait"
        PROVE  \E c \in Chain : \E i \in DOMAIN pool[c] : q \in pool[c][i].by
    BY <1>0, <1>1, <2>2 DEF Waiting
  <2>. QED  BY <2>1, <2>2 DEF Waiting
<1>4. \A q \in Run : RunSound(run'[q], ledger, pool)
  BY <1>1 DEF DeployInv
<1>. QED  BY <1>1, <1>3, <1>4 DEF DeployInv

\* Reading and writing the file change nothing on a chain.
LEMMA FileSteps ==
  ASSUME NEW step, step.op \in {"readConfig", "record"}, NEW l, NEW queue, NEW o
  PROVE  InForce(l, queue, o, step)
BY NamedSteps DEF InForce, OracleMade, OfOracle

LEMMA RunIs ==
  ASSUME DeployInv, NEW p \in Run
  PROVE  /\ RunSound(run[p], ledger, pool) /\ run[p] \in RunSet
         /\ \A c \in Chain : ledger[c] \in LedgerSet
         /\ Usable(config, ledger, pool)
         /\ starts \in 0 .. MaxStarts /\ faults \in 0 .. MaxFaults
BY DEF DeployInv, RunSound, LedgerOK

LEMMA EndedSound ==
  ASSUME DeployInv, NEW p \in Run, NEW outcome \in {"none", "done", "failed", "refused"}
  PROVE  RunSound(Ended(p, outcome), ledger, pool) /\ Ended(p, outcome).pc = "idle"
<1>1. run[p].calm \in BOOLEAN
  BY RunIs DEF RunSet
<1>. QED  BY <1>1, RunIs, IdleSound DEF Ended

LEMMA ReadConfigKeeps ==
  ASSUME DeployInv, NEW p \in Run, ReadConfig(p)
  PROVE  DeployInv'
<1>. DEFINE s == [run[p] EXCEPT !.snapshot = config]
<1>1. /\ run[p].pc = "ready" /\ run[p].todo # <<>> /\ Head(run[p].todo).op = "readConfig"
      /\ run' = [run EXCEPT ![p] = Past(s)]
      /\ UNCHANGED <<ledger, pool, config, starts, faults>>
  BY DEF ReadConfig, At, Becomes
<1>2. /\ s \in RunSet /\ s.todo = run[p].todo /\ s.done = run[p].done /\ s.pc = "ready"
      /\ s.oracle = run[p].oracle /\ s.snapshot = config
  BY <1>1, RunIs DEF RunSet, Usable
<1>. HIDE DEF s
<1>3. RunSound(s, ledger, pool)
  BY <1>2, RunIs, SameSteps
<1>4. InForce(ledger[Head(s.todo).chain], pool[Head(s.todo).chain],
              s.oracle[Head(s.todo).chain], Head(s.todo))
  BY <1>1, <1>2, FileSteps
<1>5. RunSound(Past(s), ledger, pool) /\ Past(s).pc = "ready"
  BY <1>1, <1>2, <1>3, <1>4, PastSound, PastFields
<1>. QED  BY <1>1, <1>5, RunIs, RunChanges

LEMMA LookKeeps ==
  ASSUME DeployInv, NEW p \in Run, Look(p)
  PROVE  DeployInv'
<1>. DEFINE r == run[p]
            h == Head(r.todo)
            c == h.chain
<1>1. /\ r.pc = "ready" /\ r.todo # <<>> /\ h.op \in Looking
      /\ run' = [run EXCEPT ![p] = IF There(p) THEN Past(r) ELSE [r EXCEPT !.pc = "send"]]
      /\ UNCHANGED <<ledger, pool, config, starts, faults>>
  BY DEF Look, At, Becomes
<1>2. RunSound(r, ledger, pool) /\ r \in RunSet
  BY RunIs
<1>3. CASE There(p)
  <2>1. h \in StepSet /\ c \in Chain /\ Fits(Behind(r), h)
    BY <1>1, <1>2, AtHead
  <2>2. InForce(ledger[c], pool[c], r.oracle[c], h)
    <3>1. CASE h.op = "create"
      BY <1>3, <3>1, NamedSteps DEF InForce, There, Now, OracleMade, OfOracle
    <3>2. CASE h.op = "addMiner"
      BY <1>3, <3>2, NamedSteps DEF InForce, There, Now, OracleMade, OfOracle
    <3>3. CASE h.op = "resetPrice"
      <4>1. h.what \in Leg /\ HasOracle(Behind(r), c)
        BY <2>1, <3>3 DEF Fits, OfOracle
      <4>2. r.oracle[c] \in 1 .. Len(ledger[c].oracles)
        BY <1>2, <4>1, OracleThere
      <4>. QED  BY <1>3, <3>3, <4>1, <4>2, NamedSteps DEF InForce, There, Now, OracleMade
    <3>. QED  BY <1>1, <3>1, <3>2, <3>3 DEF Looking
  <2>3. h.op # "choose"
    BY <1>1 DEF Looking
  <2>4. RunSound(Past(r), ledger, pool) /\ Past(r).pc = "ready"
    BY <1>1, <1>2, <2>2, <2>3, PastSound, PastFields
  <2>. QED  BY <1>1, <1>3, <2>4, RunIs, RunChanges
<1>4. CASE ~There(p)
  <2>. DEFINE s == [r EXCEPT !.pc = "send"]
  <2>1. /\ s \in RunSet /\ s.todo = r.todo /\ s.done = r.done /\ s.pc = "send"
        /\ s.oracle = r.oracle /\ s.snapshot = r.snapshot
    BY <1>2 DEF RunSet
  <2>. HIDE DEF s
  <2>2. Usable(s.snapshot, ledger, pool)
    BY <1>2, <2>1 DEF RunSound
  <2>3. RunSound(s, ledger, pool)
    BY <1>1, <1>2, <2>1, <2>2, SameSteps
  <2>4. run' = [run EXCEPT ![p] = s]
    BY <1>1, <1>4 DEF s
  <2>. QED  BY <1>1, <2>1, <2>3, <2>4, RunIs, RunChanges
<1>. QED  BY <1>3, <1>4

LEMMA InspectKeeps ==
  ASSUME DeployInv, NEW p \in Run, Inspect(p)
  PROVE  DeployInv'
<1>. DEFINE r == run[p]
            h == Head(r.todo)
            c == h.chain
            right == \/ h.what = "owner" /\ ledger[c].owner = "deployer"
                     \/ h.what = "legs" /\ Priced(c, r.oracle[c])
<1>1. /\ r.pc = "ready" /\ r.todo # <<>> /\ h.op = "inspect"
      /\ run' = [run EXCEPT ![p] = IF right THEN Past(r) ELSE Ended(p, "failed")]
      /\ UNCHANGED <<ledger, pool, config, starts, faults>>
  BY DEF Inspect, At, Becomes, Now
<1>2. RunSound(r, ledger, pool) /\ r \in RunSet
  BY RunIs
<1>3. CASE right
  <2>1. h \in StepSet /\ c \in Chain /\ Fits(Behind(r), h)
    BY <1>1, <1>2, AtHead
  <2>2. InForce(ledger[c], pool[c], r.oracle[c], h)
    <3>1. CASE h.what = "owner"
      BY <1>1, <3>1, NamedSteps DEF InForce, OracleMade, OfOracle
    <3>2. CASE h.what = "legs"
      <4>1. HasOracle(Behind(r), c)
        BY <1>1, <2>1, <3>2 DEF Fits, OfOracle
      <4>2. r.oracle[c] \in 1 .. Len(ledger[c].oracles)
        BY <1>2, <4>1, OracleThere
      <4>3. Good(ledger[c], r.oracle[c])
        BY <1>3, <3>2, <4>2 DEF Priced, Good
      <4>. QED  BY <1>1, <3>2, <4>2, <4>3 DEF InForce, OracleMade
    <3>. QED  BY <1>3, <3>1, <3>2
  <2>3. RunSound(Past(r), ledger, pool) /\ Past(r).pc = "ready"
    BY <1>1, <1>2, <2>2, PastSound, PastFields
  <2>. HIDE DEF r, right
  <2>4. run' = [run EXCEPT ![p] = Past(r)]
    BY <1>1, <1>3
  <2>. QED  BY <1>1, <2>3, <2>4, RunIs, RunChanges DEF r
<1>4. CASE ~right
  <2>. HIDE DEF right
  <2>1. run' = [run EXCEPT ![p] = Ended(p, "failed")]
    BY <1>1, <1>4
  <2>. QED  BY <1>1, <2>1, RunIs, RunChanges, EndedSound
<1>. QED  BY <1>3, <1>4

LEMMA FinishKeeps ==
  ASSUME DeployInv, NEW p \in Run, Finish(p)
  PROVE  DeployInv'
<1>1. /\ run[p].pc = "ready" /\ run' = [run EXCEPT ![p] = Ended(p, "done")]
      /\ UNCHANGED <<ledger, pool, config, starts, faults>>
  BY DEF Finish, Becomes
<1>. QED  BY <1>1, RunIs, RunChanges, EndedSound

LEMMA SendThrowsKeeps ==
  ASSUME DeployInv, NEW p \in Run, SendThrows(p)
  PROVE  DeployInv'
<1>1. PICK outcome \in {"refused", "failed"} : run' = [run EXCEPT ![p] = Ended(p, outcome)]
  BY DEF SendThrows, Becomes
<1>2. run[p].pc # "wait" /\ UNCHANGED <<ledger, pool, config, starts, faults>>
  BY DEF SendThrows, Sending
<1>. QED  BY <1>1, <1>2, RunIs, RunChanges, EndedSound

LEMMA UnderpricedKeeps ==
  ASSUME DeployInv, NEW p \in Run, Underpriced(p)
  PROVE  DeployInv'
<1>1. /\ run[p].pc # "wait" /\ run' = [run EXCEPT ![p] = Ended(p, "failed")]
      /\ UNCHANGED <<ledger, pool, config, starts, faults>>
  BY DEF Underpriced, Sending, Becomes
<1>. QED  BY <1>1, RunIs, RunChanges, EndedSound

\* Fees and records fit wherever no more than a choice is missing.
LEMMA FitsMore ==
  ASSUME NEW B, NEW B2, NEW step, Fits(B, step),
         step.op \in {"updateMinFeeConfigs", "record"},
         \A b \in B : b.op # "choose" => b \in B2,
         \A b \in B2 : b.op # "record"
  PROVE  Fits(B2, step)
<1>1. /\ ~OfOracle(step) /\ ~OracleMade(step)
      /\ step \in StepSet
      /\ step.what = "preset" => step.op = "setPriceOracle"
  BY DEF OfOracle, OracleMade, Fits
<1>2. \A d : Deployed(B, d) => Deployed(B2, d)
  BY StepFields DEF Deployed
<1>3. \A d : {Legs(d), Wire(d)} \subseteq B => {Legs(d), Wire(d)} \subseteq B2
  BY NamedSteps
<1>4. \A d : Legs(d) \in B => Legs(d) \in B2
  BY NamedSteps
<1>5. step.op = "record" => RecordFits(B2, step)
  <2>1. step.op = "record" => RecordFits(B, step)
    BY DEF Fits
  <2>. QED  BY <1>2, <1>3, <1>4, <2>1 DEF RecordFits
<1>. QED  BY <1>1, <1>5 DEF Fits

\* After the choice of an oracle come only fees and records, whatever the
\* choice puts before them.
LEMMA AfterChoice ==
  ASSUME NEW B, NEW h, h.op = "choose", NEW seq \in Seq(StepSet), Orderly(B \cup {h}, seq),
         NEW E, \A e \in E : e.op # "record"
  PROVE  /\ \A x \in Elements(seq) : x.op \in {"updateMinFeeConfigs", "record"}
         /\ Orderly(B \cup E, seq)
<1>1. ASSUME NEW k \in DOMAIN seq
      PROVE  /\ seq[k].op \in {"updateMinFeeConfigs", "record"}
             /\ Fits((B \cup E) \cup {seq[j] : j \in 1 .. k - 1}, seq[k])
  <2>. DEFINE S == {seq[j] : j \in 1 .. k - 1}
  <2>1. Fits((B \cup {h}) \cup S, seq[k])
    BY DEF Orderly
  <2>. HIDE DEF S
  <2>2. /\ seq[k].op \in {"updateMinFeeConfigs", "record"}
        /\ \A b \in (B \cup {h}) \cup S : b.op # "record"
    BY <2>1 DEF Fits
  <2>3. Fits((B \cup E) \cup S, seq[k])
    <3>. DEFINE X == (B \cup {h}) \cup S
                Y == (B \cup E) \cup S
    <3>1. (\A b \in X : b.op # "choose" => b \in Y) /\ \A b \in Y : b.op # "record"
      BY <2>2
    <3>2. Fits(X, seq[k])
      BY <2>1
    <3>. HIDE DEF X, Y
    <3>3. Fits(Y, seq[k])
      BY <2>2, <3>1, <3>2, FitsMore
    <3>. QED  BY <3>3 DEF Y
  <2>. QED  BY <2>2, <2>3 DEF S
<1>. QED  BY <1>1 DEF Elements, Orderly

\* What a choice takes: oracle o, and the steps E that wire it.
Choice(c, l, o, E) ==
  /\ o \in Nat /\ o <= Len(l.oracles)
  /\ \A e \in E : e.chain = c /\ e.op \notin {"record", "choose"}
  /\ l.oracle # NoOracle \/ Preset(c) \in E \/ Wire(c) \in E
  /\ Legs(c) \in E \/ (Good(l, o) /\ \A e \in E : ~OracleMade(e))
  /\ Preset(c) \in E => Good(l, o)

\* r once it has taken oracle o, with steps ahead of the others.
Taken(r, c, o, steps) ==
  [Past(r) EXCEPT !.oracle[c] = o, !.todo = steps \o Tail(r.todo)]

LEMMA ChoiceSound ==
  ASSUME NEW r, NEW L, NEW P, RunSound(r, L, P), r.todo # <<>>,
         NEW c \in Chain, Head(r.todo) = Choose(c),
         NEW o, NEW steps, NEW E, Part(Behind(r), steps, E), Choice(c, L[c], o, E)
  PROVE  RunSound(Taken(r, c, o, steps), L, P) /\ Taken(r, c, o, steps).pc = "ready"
<1>. DEFINE h == Head(r.todo)
            t == Tail(r.todo)
            s == Taken(r, c, o, steps)
<1>1. /\ r \in RunSet /\ h \in StepSet /\ t \in Seq(StepSet) /\ Fits(Behind(r), h)
      /\ Orderly(Behind(r) \cup {h}, t) /\ Elements(r.todo) = {h} \cup Elements(t)
  BY AtHead
<1>2. h = Choose(c) /\ h.op = "choose" /\ h.chain = c
  BY NamedSteps
<1>3. /\ Past(r) \in RunSet /\ Past(r).pc = "ready" /\ Past(r).done = r.done \cup {h}
      /\ Past(r).oracle = r.oracle /\ Past(r).snapshot = r.snapshot
  BY <1>1, PastFields
<1>4. steps \in Seq(StepSet) /\ steps \o t \in Seq(StepSet) /\ Elements(steps) = E
  BY <1>1 DEF Part
<1>5. o \in Nat /\ r.oracle \in [Chain -> Nat]
  BY <1>1 DEF Choice, RunSet
<1>6. /\ s \in RunSet /\ s.pc = "ready" /\ s.done = r.done \cup {h} /\ s.todo = steps \o t
      /\ s.snapshot = r.snapshot
      /\ s.oracle[c] = o /\ \A d \in Chain \ {c} : s.oracle[d] = r.oracle[d]
  BY <1>3, <1>4, <1>5 DEF RunSet, Taken
<1>. HIDE DEF h, t, s
<1>7. /\ \A x \in Elements(t) : x.op \in {"updateMinFeeConfigs", "record"}
      /\ Orderly(Behind(r) \cup E, t)
  BY <1>1, <1>2, AfterChoice DEF Choice
<1>8. Part(Behind(r), steps \o t, E \cup Elements(t))
  <2>1. Part(Behind(r) \cup E, t, Elements(t))
    BY <1>1, <1>7 DEF Part
  <2>. QED  BY <2>1, PartThen
<1>9. Elements(s.todo) = E \cup Elements(t) /\ Orderly(Behind(r), s.todo)
  BY <1>6, <1>8 DEF Part
<1>10. Behind(s) = Behind(r) /\ All(r) \subseteq All(s)
  BY <1>1, <1>2, <1>6, <1>9 DEF Behind, All
<1>11. \A step \in Elements(s.todo) :
         step.op = "record" /\ step.what = "inbox" => Choose(step.chain) \in All(s)
  BY <1>1, <1>9, <1>10 DEF RunSound, Choice
<1>12. ASSUME NEW step \in s.done
       PROVE  InForce(L[step.chain], P[step.chain], s.oracle[step.chain], step)
  <2>1. CASE step = h
    BY <1>2, <2>1, NamedSteps DEF InForce, OracleMade, OfOracle
  <2>2. CASE step \in r.done /\ step.chain # c
    <3>1. step.chain \in Chain
      BY <1>1, <2>2, RunSteps
    <3>2. s.oracle[step.chain] = r.oracle[step.chain]
      BY <1>6, <2>2, <3>1
    <3>. QED  BY <2>2, <3>2 DEF RunSound
  <2>3. CASE step \in r.done /\ step # h /\ step.chain = c
    <3>1. InForce(L[c], P[c], r.oracle[c], step)
      BY <2>3 DEF RunSound
    <3>2. ~OfOracle(step) /\ ~OracleMade(step)
      <4>1. CASE step.op = "choose"
        BY <4>1 DEF OfOracle, OracleMade
      <4>2. CASE step.op # "choose"
        <5>1. step \in Behind(r)
          BY <2>3, <4>2 DEF Behind
        <5>. QED  BY <1>1, <1>2, <2>3, <5>1 DEF Fits, HasOracle
      <4>. QED  BY <4>1, <4>2
    <3>3. step # Legs(c)
      BY <3>2, NamedSteps DEF OfOracle
    <3>. QED  BY <2>3, <3>1, <3>2, <3>3 DEF InForce, OfOracle
  <2>. QED  BY <1>6, <2>1, <2>2, <2>3
<1>13. ASSUME NEW d \in Chain
       PROVE  /\ s.oracle[d] <= Len(L[d].oracles)
              /\ Preset(d) \in Elements(s.todo) => Good(L[d], s.oracle[d])
              /\ Chosen(s, d, L[d])
  <2>1. CASE d = c
    <3>1. Preset(c) \notin Elements(t)
      BY <1>7, NamedSteps
    <3>2. E \subseteq All(s)
      BY <1>9 DEF All
    <3>3. \A x \in Elements(t) : ~OracleMade(x)
      BY <1>7 DEF OracleMade
    <3>. QED  BY <1>6, <1>9, <2>1, <3>1, <3>2, <3>3 DEF Choice, Chosen
  <2>2. CASE d # c
    <3>1. Preset(d) \notin Elements(s.todo)
      BY <1>7, <1>9, <2>2, NamedSteps DEF Choice
    <3>2. Choose(d) \in s.done => Choose(d) \in r.done
      BY <1>2, <1>6, <2>2, NamedSteps
    <3>3. \A x \in Elements(s.todo) : OracleMade(x) => x.chain # d
      BY <1>7, <1>9, <2>2 DEF Choice, OracleMade
    <3>4. Chosen(r, d, L[d]) /\ r.oracle[d] <= Len(L[d].oracles)
      BY DEF RunSound
    <3>5. Chosen(s, d, L[d])
      BY <1>6, <1>10, <2>2, <3>2, <3>3, <3>4 DEF Chosen
    <3>. QED  BY <1>6, <2>2, <3>1, <3>4, <3>5
  <2>. QED  BY <2>1, <2>2
<1>14. Usable(s.snapshot, L, P)
  BY <1>6 DEF RunSound
<1>15. RunSound(s, L, P) /\ s.pc = "ready"
  BY <1>6, <1>9, <1>10, <1>11, <1>12, <1>13, <1>14 DEF RunSound
<1>. QED  BY <1>15 DEF s

\* Every choice is one of an oracle with prices, or of making one.
Makes(r, c, o, steps, E) ==
  /\ Part(Behind(r), steps, E)
  /\ Choice(c, ledger[c], o, E)

LEMMA ChoiceMade ==
  ASSUME DeployInv, NEW p \in Run, ChooseOracle(p)
  PROVE  /\ run[p].pc = "ready" /\ run[p].todo # <<>>
         /\ Now(p).chain \in Chain /\ Now(p) = Choose(Now(p).chain)
         /\ UNCHANGED <<ledger, pool, config, starts, faults>>
         /\ \E o, steps, E :
              /\ Makes(run[p], Now(p).chain, o, steps, E)
              /\ run' = [run EXCEPT ![p] = Taken(run[p], Now(p).chain, o, steps)]
<1>. DEFINE r == run[p]
            h == Head(r.todo)
            c == h.chain
            l == ledger[c]
            Goes(o, steps) ==
              run' = [run EXCEPT ![p] = Taken(r, c, o, steps)]
<1>1. /\ r.pc = "ready" /\ r.todo # <<>> /\ h.op = "choose"
      /\ UNCHANGED <<ledger, pool, config, starts, faults>>
      /\ \/ l.oracle # NoOracle /\ Goes(l.oracle, <<>>)
         \/ /\ l.oracle = NoOracle
            /\ r.snapshot[c].oracle # NoOracle
            /\ Goes(r.snapshot[c].oracle, SetPriceOracle(c, "preset"))
         \/ /\ l.oracle = NoOracle
            /\ Goes(NoOracle, DeployAndWireTestnetPriceOracle(c))
  BY DEF ChooseOracle, At, Becomes, Now, Taken
<1>2. RunSound(r, ledger, pool) /\ r \in RunSet
  BY RunIs
<1>3. /\ h \in StepSet /\ c \in Chain /\ Fits(Behind(r), h)
  BY <1>1, <1>2, AtHead
<1>4. h = Choose(c)
  BY <1>1, <1>3 DEF Fits
<1>5. l \in LedgerSet /\ (l.oracle # NoOracle => Good(l, l.oracle))
  BY <1>3 DEF DeployInv, LedgerOK
<1>6. /\ Fresh(Behind(r)) /\ ~HasOracle(Behind(r), c)
      /\ \A b \in Behind(r) : b.chain = c => ~OfOracle(b)
  BY <1>1, <1>3 DEF Fits, Fresh, Behind
<1>7. \E o, steps, E : /\ Part(Behind(r), steps, E) /\ Choice(c, l, o, E)
                       /\ Goes(o, steps)
  <2>. HIDE DEF r, h, c, l, Goes
  <2>1. CASE l.oracle # NoOracle /\ Goes(l.oracle, <<>>)
    <3>1. Good(l, l.oracle) /\ l.oracle \in Nat /\ l.oracle <= Len(l.oracles)
      BY <1>5, <2>1, Lengths DEF LedgerSet, Good
    <3>2. Choice(c, l, l.oracle, {})
      BY <2>1, <3>1 DEF Choice
    <3>. QED  BY <2>1, <3>2, PartEmpty
  <2>2. CASE /\ r.snapshot[c].oracle # NoOracle
             /\ Goes(r.snapshot[c].oracle, SetPriceOracle(c, "preset"))
    <3>. DEFINE o == r.snapshot[c].oracle
    <3>1. Good(l, o) /\ o \in Nat
      BY <1>2, <1>3, <2>2 DEF RunSound, Usable, ConfigSet, l
    <3>. HIDE DEF o
    <3>2. o <= Len(l.oracles)
      BY <1>5, <3>1, Lengths DEF Good
    <3>3. "preset" \in What
      BY DEF What
    <3>4. Fits(Behind(r), Step(c, "setPriceOracle", "preset"))
      BY <1>3, <1>6, <3>3, FitsWire
    <3>5. Part(Behind(r), SetPriceOracle(c, "preset"), {Preset(c)})
      BY <3>4, PartOne DEF SetPriceOracle, Preset
    <3>6. Choice(c, l, o, {Preset(c)})
      BY <3>1, <3>2, NamedSteps DEF Choice, OracleMade
    <3>. QED  BY <2>2, <3>5, <3>6 DEF o
  <2>3. CASE Goes(NoOracle, DeployAndWireTestnetPriceOracle(c))
    <3>. DEFINE B == Behind(r)
                T == TestnetSteps(c)
    <3>1. Part(B, DeployTestnetPriceOracle(c), T)
      BY <1>3, <1>6, TestnetPart
    <3>2. OnChain(T, c) /\ Legs(c) \in T
      BY TestnetStepsOn
    <3>3. Fresh(B \cup T) /\ "inbox" \in What
      BY <1>6, <3>2 DEF Fresh, OnChain, What
    <3>. HIDE DEF T, B
    <3>4. Fits(B \cup T, Wire(c))
      BY <1>3, <3>2, <3>3, FitsWire DEF Wire
    <3>5. Part(B, DeployTestnetPriceOracle(c) \o <<Wire(c)>>, T \cup {Wire(c)})
      BY <3>1, <3>4, PartAdd
    <3>6. Part(B, DeployAndWireTestnetPriceOracle(c), T \cup {Wire(c)})
      BY <3>5 DEF DeployAndWireTestnetPriceOracle, SetPriceOracle, Wire
    <3>7. Preset(c) \notin T \cup {Wire(c)}
      BY StepFields, NamedSteps DEF T, TestnetSteps, Prices
    <3>8. Choice(c, l, NoOracle, T \cup {Wire(c)})
      BY <1>5, <3>2, <3>7, NamedSteps, Lengths DEF Choice, NoOracle, OnChain, Fresh
    <3>. QED  BY <2>3, <3>6, <3>8 DEF B
  <2>. QED  BY <1>1, <2>1, <2>2, <2>3
<1>. QED  BY <1>1, <1>3, <1>4, <1>7 DEF Now, Makes

LEMMA ChooseOracleKeeps ==
  ASSUME DeployInv, NEW p \in Run, ChooseOracle(p)
  PROVE  DeployInv'
<1>. DEFINE r == run[p]
            c == Now(p).chain
<1>1. /\ r.pc = "ready" /\ r.todo # <<>> /\ c \in Chain /\ Head(r.todo) = Choose(c)
      /\ UNCHANGED <<ledger, pool, config, starts, faults>>
  BY ChoiceMade DEF Now
<1>2. PICK o, steps, E : /\ Makes(r, c, o, steps, E)
                         /\ run' = [run EXCEPT ![p] = Taken(r, c, o, steps)]
  BY ChoiceMade
<1>3. RunSound(r, ledger, pool)
  BY RunIs
<1>4. RunSound(Taken(r, c, o, steps), ledger, pool) /\ Taken(r, c, o, steps).pc = "ready"
  <2>1. Part(Behind(r), steps, E) /\ Choice(c, ledger[c], o, E)
    BY <1>2 DEF Makes
  <2>. HIDE DEF r, c
  <2>. QED  BY <1>1, <1>3, <2>1, ChoiceSound
<1>. QED  BY <1>1, <1>2, <1>4, RunIs, RunChanges

\* What a script that is about to record has behind it, on chain c.
Recordable(r, c, L, P) ==
  /\ "inbox" \in L[c].code
  /\ L[c].miner
  /\ L[c].fees # {}

LEMMA DeployedInForce ==
  ASSUME NEW r, NEW L, NEW P, RunSound(r, L, P), NEW c \in Chain, Deployed(Behind(r), c)
  PROVE  Recordable(r, c, L, P)
<1>. DEFINE i == Step(c, "create", "inbox")
            m == Step(c, "addMiner", "miner")
            f == Step(c, "updateMinFeeConfigs", "fees")
<1>1. /\ i.op = "create" /\ i.what = "inbox" /\ i.chain = c
      /\ m.op = "addMiner" /\ m.chain = c
      /\ f.op = "updateMinFeeConfigs" /\ f.chain = c
  BY StepFields
<1>2. {i, m, f} \subseteq r.done
  BY DEF Deployed, Behind
<1>. HIDE DEF i, m, f
<1>3. /\ InForce(L[c], P[c], r.oracle[c], i)
      /\ InForce(L[c], P[c], r.oracle[c], m)
      /\ InForce(L[c], P[c], r.oracle[c], f)
  BY <1>1, <1>2 DEF RunSound
<1>. QED  BY <1>1, <1>3 DEF InForce, Recordable

\* Steps behind a script that are about its oracle's prices and its wire.
LEMMA NamedInForce ==
  ASSUME NEW r, NEW L, NEW P, RunSound(r, L, P), NEW c \in Chain
  PROVE  /\ Legs(c) \in r.done => Good(L[c], r.oracle[c])
         /\ Wire(c) \in r.done => L[c].oracle # NoOracle
         /\ Preset(c) \in r.done => L[c].oracle # NoOracle \/ InQueue(P[c], Preset(c))
<1>1. ASSUME NEW b \in r.done, b.chain = c PROVE InForce(L[c], P[c], r.oracle[c], b)
  BY <1>1 DEF RunSound
<1>2. Legs(c) = Legs(Legs(c).chain) /\ Wire(c) # Preset(c)
  BY NamedSteps
<1>3. Legs(c) \in r.done => Good(L[c], r.oracle[c])
  BY <1>1, <1>2, NamedSteps DEF InForce
<1>4. Wire(c) \in r.done => L[c].oracle # NoOracle
  BY <1>1, <1>2, NamedSteps DEF InForce
<1>5. Preset(c) \in r.done => L[c].oracle # NoOracle \/ InQueue(P[c], Preset(c))
  BY <1>1, NamedSteps DEF InForce
<1>. QED  BY <1>3, <1>4, <1>5

\* Nothing follows a record.
LEMMA RecordIsLast ==
  ASSUME NEW B, NEW h, h.op = "record", NEW seq \in Seq(StepSet), Orderly(B \cup {h}, seq)
  PROVE  Elements(seq) = {}
<1>1. ASSUME NEW k \in DOMAIN seq PROVE FALSE
  <2>. DEFINE S == {seq[j] : j \in 1 .. k - 1}
  <2>1. Fits((B \cup {h}) \cup S, seq[k])
    BY DEF Orderly
  <2>. HIDE DEF S
  <2>. QED  BY <2>1 DEF Fits
<1>. QED  BY <1>1 DEF Elements

LEMMA RecordKeeps ==
  ASSUME DeployInv, NEW p \in Run, Record(p)
  PROVE  DeployInv'
<1>. DEFINE r == run[p]
            h == Head(r.todo)
            name == h.what
            Recorded(c) ==
              CASE name = "inbox"  -> [r.snapshot[c] EXCEPT !.inbox = TRUE, !.oracle = r.oracle[c]]
                [] name = "full"   -> [inbox |-> TRUE, oracle |-> r.oracle[c],
                                       executor |-> c = CotiTestnet \/ r.snapshot[c].executor]
                [] name = "oracle" -> [r.snapshot[c] EXCEPT !.oracle = r.oracle[c]]
<1>1. /\ r.pc = "ready" /\ r.todo # <<>> /\ h.op = "record"
      /\ config' = [c \in Chain |->
           IF c = h.chain \/ name = "full" THEN Recorded(c) ELSE r.snapshot[c]]
      /\ run' = [run EXCEPT ![p] = Past(r)]
      /\ UNCHANGED <<ledger, pool, starts, faults>>
  BY DEF Record, At, Becomes, Now
<1>2. RunSound(r, ledger, pool) /\ r \in RunSet
  BY RunIs
<1>3. /\ h \in StepSet /\ h.chain \in Chain /\ h \in Elements(r.todo) /\ Fits(Behind(r), h)
      /\ Elements(Tail(r.todo)) = {}
      /\ Elements(r.todo) = {h}
  BY ZenonT(60), <1>1, <1>2, AtHead, RecordIsLast
<1>4. RecordFits(Behind(r), h) /\ Behind(r) \subseteq r.done
  BY <1>1, <1>3 DEF Fits, Behind
<1>5. Usable(r.snapshot, ledger, pool) /\ r.snapshot \in ConfigSet
  BY <1>2 DEF RunSound, RunSet
<1>6. \A c \in Chain : r.snapshot[c] \in [inbox : BOOLEAN, oracle : Nat, executor : BOOLEAN]
                       /\ r.oracle[c] \in Nat
  BY <1>2, <1>5, RunSteps DEF ConfigSet
<1>. DEFINE Fine(c, entry) ==
              /\ entry \in [inbox : BOOLEAN, oracle : Nat, executor : BOOLEAN]
              /\ entry.oracle # NoOracle => Good(ledger[c], entry.oracle)
              /\ entry.inbox =>
                   /\ "inbox" \in ledger[c].code
                   /\ ledger[c].miner
                   /\ ledger[c].fees # {}
                   /\ entry.oracle # NoOracle
                   /\ ledger[c].oracle # NoOracle \/ InQueue(pool[c], Preset(c))
<1>7. \A c \in Chain : Fine(c, r.snapshot[c])
  BY <1>5, <1>6 DEF Usable
<1>8. \A o : \A c \in Chain : Good(ledger[c], o) => o # NoOracle
  BY RunIs, Lengths DEF Good, NoOracle
<1>9. ASSUME NEW c \in Chain, c = h.chain \/ name = "full" PROVE Fine(c, Recorded(c))
  <2>1. CASE name = "inbox"
    <3>1. c = h.chain
      BY <1>9, <2>1
    <3>2. Recordable(r, c, ledger, pool)
      BY <1>2, <1>4, <2>1, <3>1, DeployedInForce DEF RecordFits
    <3>3. Choose(c) \in r.done /\ All(r) = r.done \cup {h}
      <4>1. Choose(c) \in All(r)
        BY <1>1, <1>2, <1>3, <2>1, <3>1 DEF RunSound
      <4>2. Choose(c) # h
        BY <1>1, NamedSteps
      <4>. QED  BY <1>3, <4>1, <4>2 DEF All
    <3>4. Legs(c) # h /\ Preset(c) # h /\ Wire(c) # h
      BY <1>1, NamedSteps
    <3>5. Chosen(r, c, ledger[c])
      BY <1>2 DEF RunSound
    <3>6. Good(ledger[c], r.oracle[c])
      BY <1>2, <3>3, <3>4, <3>5, NamedInForce DEF Chosen
    <3>7. ledger[c].oracle # NoOracle \/ InQueue(pool[c], Preset(c))
      BY <1>2, <3>3, <3>4, <3>5, NamedInForce DEF Chosen
    <3>8. /\ Recorded(c).inbox /\ Recorded(c).oracle = r.oracle[c]
          /\ Recorded(c) \in [inbox : BOOLEAN, oracle : Nat, executor : BOOLEAN]
      BY <1>6, <2>1
    <3>. HIDE DEF Recorded
    <3>. QED  BY <1>8, <3>2, <3>6, <3>7, <3>8 DEF Recordable
  <2>2. CASE name = "oracle"
    <3>1. c = h.chain
      BY <1>9, <2>2
    <3>2. Good(ledger[c], r.oracle[c])
      BY <1>2, <1>4, <2>2, <3>1, NamedInForce DEF RecordFits
    <3>3. /\ Recorded(c).inbox = r.snapshot[c].inbox /\ Recorded(c).oracle = r.oracle[c]
          /\ Recorded(c) \in [inbox : BOOLEAN, oracle : Nat, executor : BOOLEAN]
      BY <1>6, <2>2
    <3>. HIDE DEF Recorded
    <3>. QED  BY <1>7, <1>8, <3>2, <3>3
  <2>3. CASE name = "full"
    <3>1. Deployed(Behind(r), c) /\ {Legs(c), Wire(c)} \subseteq r.done
      BY <1>4, <2>3 DEF RecordFits
    <3>2. Recordable(r, c, ledger, pool) /\ Good(ledger[c], r.oracle[c])
          /\ ledger[c].oracle # NoOracle
      BY <1>2, <3>1, DeployedInForce, NamedInForce
    <3>3. /\ Recorded(c).inbox /\ Recorded(c).oracle = r.oracle[c]
          /\ Recorded(c) \in [inbox : BOOLEAN, oracle : Nat, executor : BOOLEAN]
      BY <1>6, <2>3
    <3>. HIDE DEF Recorded
    <3>. QED  BY <1>8, <3>2, <3>3 DEF Recordable
  <2>. QED  BY <1>4, <2>1, <2>2, <2>3 DEF RecordFits
<1>10. /\ \A c \in Chain : Fine(c, config'[c])
       /\ config' = [c \in Chain |-> config'[c]]
  <2>. HIDE DEF Recorded, Fine
  <2>. QED  BY <1>1, <1>7, <1>9
<1>11. Usable(config', ledger, pool)
  <2>1. config' \in ConfigSet
    BY <1>10 DEF ConfigSet
  <2>. QED  BY <1>10, <2>1 DEF Usable
<1>12. RunSound(Past(r), ledger, pool) /\ Past(r).pc = "ready"
  <2>1. InForce(ledger[h.chain], pool[h.chain], r.oracle[h.chain], h)
    <3>1. h.op = "record"
      BY <1>1
    <3>. HIDE DEF h, r, Recorded, Fine
    <3>. QED  BY <3>1, FileSteps
  <2>2. h.op # "choose" /\ r.todo # <<>>
    BY <1>1
  <2>. HIDE DEF Recorded, Fine, r
  <2>. QED  BY <1>2, <2>1, <2>2, PastSound, PastFields
<1>. HIDE DEF Recorded
<1>. QED  BY <1>1, <1>11, <1>12, RunIs, RunChanges

-----------------------------------------------------------------------------
(* A transaction is sent.                                                  *)

\* What lasts through any move of the chains.
LEMMA Moved ==
  ASSUME DeployInv, Moves(ledger, pool, ledger', pool')
  PROVE  /\ \A p \in Run : RunSound(run[p], ledger', pool')
         /\ Usable(config, ledger', pool')
         /\ \A c \in Chain : \A tx \in TxSet :
              TxSound(c, tx, ledger[c]) => TxSound(c, tx, ledger'[c])
<1>1. \A p \in Run : RunSound(run[p], ledger', pool')
  BY RunIs, RunSoundMoves
<1>2. Usable(config, ledger', pool')
  <2>1. Usable(config, ledger, pool)
    BY DEF DeployInv
  <2>. QED  BY <2>1, UsableMoves
<1>3. \A c \in Chain : Grows(ledger[c], ledger'[c])
  BY DEF Moves
<1>. QED  BY <1>1, <1>2, <1>3, TxSoundGrows

LEMMA TemplatesTyped ==
  ASSUME NEW c
  PROVE  TestnetMinFeeConfigsForChain(c) \in FeePair
<1>1. FEE_CONFIG_SEPOLIA_SIDE \in FeeConfigTuple /\ FEE_CONFIG_COTI_SIDE \in FeeConfigTuple
  BY SMT DEF FEE_CONFIG_SEPOLIA_SIDE, FEE_CONFIG_COTI_SIDE, FeeConfigTuple,
       MEASURED_INGEST_GAS_PER_BYTE, MAX_ERROR_RETURN_DATA_BYTES,
       DEFAULT_MAX_METHOD_CALL_BYTES, PROTOCOL_MAX_EXECUTION_GAS
<1>. QED  BY <1>1 DEF TestnetMinFeeConfigsForChain, FeePair

LEMMA FeesTyped ==
  ASSUME NEW p, NEW fees \in FeesOf(p)
  PROVE  fees \subseteq FeePair
<1>1. ASSUME NEW c, NEW entry \in FeeEntries
      PROVE  ReadFeeConfigForChain(c, entry) \subseteq FeePair
  BY DeployAssumption, TemplatesTyped DEF ReadFeeConfigForChain
<1>. QED  BY <1>1 DEF FeesOf

\* A transaction that is sent has what it depends on.
LEMMA SentSound ==
  ASSUME DeployInv, NEW p \in Run, Sending(p), NEW fees \in FeesOf(p), ~Refused(p, fees)
  PROVE  /\ TxOf(p, fees) \in TxSet
         /\ TxSound(Now(p).chain, TxOf(p, fees), ledger[Now(p).chain])
<1>. DEFINE r == run[p]
            h == Head(r.todo)
            c == h.chain
            l == ledger[c]
            tx == TxOf(p, fees)
<1>1. Now(p) = h /\ r.todo # <<>> /\ h.op \notin Local
  BY DEF Sending, Now
<1>2. RunSound(r, ledger, pool) /\ r \in RunSet
  BY RunIs
<1>3. h \in StepSet /\ c \in Chain /\ h \in Elements(r.todo) /\ Fits(Behind(r), h)
  BY <1>1, <1>2, AtHead
<1>. DEFINE codec == Step(c, "create", "codec") \in r.done
<1>4. tx = [step |-> h, oracle |-> r.oracle[c], fees |-> fees, codec |-> codec,
            by |-> IF Awaited(h) THEN {p} ELSE {}]
  BY <1>1 DEF TxOf, CodecOf
<1>5. r.oracle[c] \in Nat /\ r.oracle[c] <= Len(l.oracles)
  BY <1>2, <1>3, RunSteps DEF RunSound
<1>6. /\ tx \in TxSet /\ tx.step = h /\ tx.oracle = r.oracle[c] /\ tx.fees = fees
      /\ tx.codec = codec
  BY <1>3, <1>4, <1>5, FeesTyped DEF TxSet
<1>7. ASSUME NEW b \in Behind(r), b.chain = c PROVE InForce(l, pool[c], r.oracle[c], b)
  BY <1>2, <1>7 DEF RunSound, Behind
<1>8. h.op = "create" =>
        /\ h.what \in {"codec", "feeManager", "inbox"}
        /\ h.what = "inbox" => /\ "feeManager" \in l.code
                               /\ tx.codec => "codec" \in l.code
                               /\ NeedsCodec(c) => tx.codec
  <2>1. ASSUME NEW what, Step(c, "create", what) \in Behind(r) PROVE what \in l.code
    <3>. DEFINE b == Step(c, "create", what)
    <3>1. b.chain = c /\ b.op = "create" /\ b.what = what /\ b \in Behind(r)
      BY <2>1, StepFields
    <3>. HIDE DEF b
    <3>2. InForce(l, pool[c], r.oracle[c], b)
      BY <1>7, <3>1
    <3>. QED  BY <3>1, <3>2 DEF InForce
  <2>2. codec <=> Step(c, "create", "codec") \in Behind(r)
    BY StepFields DEF Behind
  <2>. HIDE DEF codec, tx
  <2>. QED  BY <1>3, <1>6, <2>1, <2>2 DEF Fits
<1>9. OfOracle(h) => r.oracle[c] # NoOracle
  <2>1. OfOracle(h) => HasOracle(Behind(r), c)
    BY <1>3 DEF Fits
  <2>2. Len(l.oracles) \in Nat
    BY <1>3, RunIs, Lengths
  <2>. QED  BY <1>2, <2>1, <2>2, OracleThere DEF NoOracle
<1>10. h.op \in {"setPrice", "resetPrice"} => h.what \in Leg
  BY <1>3 DEF Fits
<1>11. h.op = "setPriceOracle" => Good(l, r.oracle[c])
  <2>1. CASE h.op = "setPriceOracle" /\ h.what = "preset"
    <3>1. h = Preset(c)
      BY <1>3, <2>1 DEF Preset, Step, StepSet
    <3>. QED  BY <1>2, <1>3, <3>1 DEF RunSound
  <2>2. CASE h.op = "setPriceOracle" /\ h.what # "preset"
    <3>1. Legs(c) \in Behind(r)
      BY <1>3, <2>2 DEF Fits
    <3>. QED  BY <1>2, <1>3, <3>1, NamedInForce DEF Behind
  <2>. QED  BY <2>1, <2>2
<1>12. h.op = "updateMinFeeConfigs" => fees # {}
  BY <1>1 DEF Refused
<1>13. TxSound(c, tx, l)
  <2>. HIDE DEF tx, r, h, c, l, codec
  <2>1. tx.step.chain = c
    BY <1>6 DEF c
  <2>. QED  BY <1>1, <1>5, <1>6, <1>8, <1>9, <1>10, <1>11, <1>12, <2>1 DEF TxSound
<1>. QED  BY <1>1, <1>6, <1>13

\* A script does not wait where a later step of it would need the effect.
LEMMA NotAwaited ==
  ASSUME NEW B, NEW h, Fits(B, h), ~Awaited(h), NEW l, NEW queue, NEW o, InQueue(queue, h)
  PROVE  InForce(l, queue, o, h)
<1>1. CASE h.op = "configure"
  BY <1>1, NamedSteps DEF InForce, OracleMade, OfOracle
<1>2. CASE h.what = "preset"
  <2>1. h.op = "setPriceOracle" /\ h \in StepSet
    BY <1>2 DEF Fits
  <2>2. h = Preset(h.chain)
    BY <1>2, <2>1 DEF Preset, Step, StepSet
  <2>. QED  BY <1>2, <2>1, <2>2, NamedSteps DEF InForce, OracleMade, OfOracle
<1>. QED  BY <1>1, <1>2 DEF Awaited

LEMMA AppendFields ==
  ASSUME NEW S, NEW seq \in Seq(S), NEW x \in S
  PROVE  /\ Append(seq, x) \in Seq(S)
         /\ Len(seq) \in Nat /\ DOMAIN seq = 1 .. Len(seq)
         /\ DOMAIN Append(seq, x) = DOMAIN seq \cup {Len(seq) + 1}
         /\ Len(seq) + 1 \notin DOMAIN seq
         /\ \A i \in DOMAIN seq : Append(seq, x)[i] = seq[i]
         /\ Append(seq, x)[Len(seq) + 1] = x
OBVIOUS

LEMMA SendKeeps ==
  ASSUME DeployInv, NEW p \in Run, Send(p)
  PROVE  DeployInv'
<1>. DEFINE r == run[p]
            h == Head(r.todo)
            c == h.chain
            s == IF Awaited(h) THEN [r EXCEPT !.pc = "wait"] ELSE Past(r)
<1>1. /\ Sending(p) /\ r.todo # <<>> /\ h.op \notin Local /\ r.pc # "wait"
      /\ run' = [run EXCEPT ![p] = s]
      /\ UNCHANGED <<ledger, config, starts, faults>>
  BY DEF Send, Sending, Becomes, Now
<1>2. PICK fees \in FeesOf(p) : /\ ~Refused(p, fees)
                                /\ pool' = [pool EXCEPT ![c] = Append(@, TxOf(p, fees))]
  BY DEF Send, Now
<1>. DEFINE tx == TxOf(p, fees)
<1>3. /\ tx \in TxSet /\ TxSound(c, tx, ledger[c])
      /\ tx.step = h /\ tx.oracle = r.oracle[c]
      /\ tx.by = (IF Awaited(h) THEN {p} ELSE {})
  BY <1>1, <1>2, SentSound DEF Now, TxOf
<1>4. RunSound(r, ledger, pool) /\ r \in RunSet
  BY RunIs
<1>5. h \in StepSet /\ c \in Chain /\ Fits(Behind(r), h)
  BY <1>1, <1>4, AtHead
<1>6. /\ \A d \in Chain : pool[d] \in Seq(TxSet) /\ Len(pool[d]) \in Nat
      /\ \A d \in Chain : DOMAIN pool[d] = 1 .. Len(pool[d])
      /\ \A d \in Chain : \A i \in DOMAIN pool[d] : pool[d][i] \in TxSet
      /\ pool = [d \in Chain |-> pool[d]]
  <2>1. pool \in [Chain -> Seq(TxSet)]
    BY DEF DeployInv
  <2>. QED  BY <2>1
<1>. HIDE DEF tx, s
<1>7. /\ pool' = [d \in Chain |-> pool'[d]]
      /\ pool'[c] = Append(pool[c], tx)
      /\ \A d \in Chain \ {c} : pool'[d] = pool[d]
  BY <1>2, <1>5, <1>6 DEF tx
<1>. DEFINE last == Len(pool[c]) + 1
<1>8. /\ \A i \in DOMAIN pool[c] : pool'[c][i] = pool[c][i]
      /\ pool'[c][last] = tx
      /\ pool'[c] \in Seq(TxSet)
      /\ DOMAIN pool'[c] = DOMAIN pool[c] \cup {last}
      /\ last \notin DOMAIN pool[c]
  <2>. DEFINE seq == pool[c]
  <2>1. seq \in Seq(TxSet) /\ tx \in TxSet /\ pool'[c] = Append(seq, tx)
    BY <1>3, <1>5, <1>6, <1>7
  <2>. HIDE DEF seq
  <2>2. /\ \A i \in DOMAIN seq : pool'[c][i] = seq[i]
        /\ pool'[c][Len(seq) + 1] = tx
        /\ pool'[c] \in Seq(TxSet)
        /\ DOMAIN pool'[c] = DOMAIN seq \cup {Len(seq) + 1}
        /\ Len(seq) + 1 \notin DOMAIN seq
    BY <2>1, AppendFields
  <2>. QED  BY <2>2 DEF seq
<1>9. /\ \A i \in DOMAIN pool'[c] : i \in DOMAIN pool[c] \/ i = last
      /\ \A i \in DOMAIN pool[c] : i \in DOMAIN pool'[c]
      /\ last \in DOMAIN pool'[c] /\ last \notin DOMAIN pool[c]
  BY <1>8
<1>. HIDE DEF last
<1>10. Moves(ledger, pool, ledger', pool')
  <2>1. \A d \in Chain : Grows(ledger[d], ledger[d]) /\ Serves(pool[d], pool[d], ledger[d])
    BY RunIs, Stays
  <2>2. Serves(pool[c], pool'[c], ledger[c])
    BY <1>8, <1>9 DEF Serves, InQueue
  <2>. QED  BY <1>1, <1>7, <2>1, <2>2 DEF Moves
<1>11. RunSound(s, ledger, pool') /\ s.pc # "idle" /\ (s.pc = "wait" <=> Awaited(h))
       /\ (s.pc = "wait" => s.todo = r.todo /\ s.oracle = r.oracle)
  <2>1. RunSound(r, ledger, pool')
    BY <1>1, <1>10, Moved
  <2>2. CASE Awaited(h)
    <3>1. /\ s \in RunSet /\ s.todo = r.todo /\ s.done = r.done /\ s.pc = "wait"
          /\ s.oracle = r.oracle /\ s.snapshot = r.snapshot
      BY <1>4, <2>2 DEF s, RunSet
    <3>2. Usable(s.snapshot, ledger, pool')
      BY <2>1, <3>1 DEF RunSound
    <3>3. RunSound(s, ledger, pool')
      BY <1>1, <2>1, <3>1, <3>2, SameSteps
    <3>. QED  BY <2>2, <3>1, <3>3
  <2>3. CASE ~Awaited(h)
    <3>1. InQueue(pool'[c], h)
      BY <1>3, <1>8, <1>9 DEF InQueue
    <3>2. InForce(ledger[c], pool'[c], r.oracle[c], h)
      BY <1>5, <2>3, <3>1, NotAwaited
    <3>3. h.op # "choose"
      BY <1>1 DEF Local
    <3>. HIDE DEF r
    <3>4. RunSound(Past(r), ledger, pool') /\ Past(r).pc = "ready"
      BY <1>1, <1>4, <2>1, <3>2, <3>3, PastSound, PastFields
    <3>. QED  BY <2>3, <3>4 DEF s
  <2>. QED  BY <2>2, <2>3
<1>12. /\ run' = [q \in Run |-> run'[q]]
       /\ run'[p] = s /\ \A q \in Run \ {p} : run'[q] = run[q]
  BY <1>1 DEF DeployInv
<1>13. Waiting
  BY DEF DeployInv
<1>14. \A d \in Chain : \A i \in DOMAIN pool[d] : p \notin pool[d][i].by
  BY <1>1, <1>13 DEF Waiting
<1>15. Waiting'
  <2>1. ASSUME NEW d \in Chain, NEW i \in DOMAIN pool'[d], NEW q \in pool'[d][i].by
        PROVE  /\ run'[q].pc = "wait"
               /\ Head(run'[q].todo) = pool'[d][i].step
               /\ run'[q].oracle[d] = pool'[d][i].oracle
               /\ \A j \in DOMAIN pool'[d] : q \in pool'[d][j].by => j = i
    <3>1. CASE i \in DOMAIN pool[d]
      <4>1. pool'[d][i] = pool[d][i] /\ q \in Run /\ q # p
        <5>1. pool'[d][i] = pool[d][i]
          BY <1>7, <1>8, <3>1
        <5>2. pool[d][i] \in TxSet
          BY <1>6, <3>1
        <5>. QED  BY <1>14, <2>1, <3>1, <5>1, <5>2 DEF TxSet
      <4>2. run'[q] = run[q]
        BY <1>12, <4>1
      <4>3. \A j \in DOMAIN pool'[d] : q \in pool'[d][j].by =>
              j \in DOMAIN pool[d] /\ pool'[d][j] = pool[d][j]
        BY ZenonT(60), <1>3, <1>7, <1>8, <1>9, <4>1
      <4>. QED  BY <1>13, <2>1, <3>1, <4>1, <4>2, <4>3 DEF Waiting
    <3>2. CASE i \notin DOMAIN pool[d]
      <4>1. d = c /\ i = last /\ q = p /\ Awaited(h)
        BY <1>3, <1>7, <1>8, <1>9, <2>1, <3>2
      <4>2. \A j \in DOMAIN pool'[c] : p \in pool'[c][j].by => j = i
        BY <1>5, <1>8, <1>9, <1>14, <4>1
      <4>. QED  BY <1>3, <1>8, <1>11, <1>12, <4>1, <4>2
    <3>. QED  BY <3>1, <3>2
  <2>2. ASSUME NEW q \in Run, run'[q].pc = "wait"
        PROVE  \E d \in Chain : \E i \in DOMAIN pool'[d] : q \in pool'[d][i].by
    <3>1. CASE q = p
      BY <1>3, <1>5, <1>8, <1>9, <1>11, <1>12, <2>2, <3>1
    <3>2. CASE q # p
      <4>1. PICK d \in Chain : \E i \in DOMAIN pool[d] : q \in pool[d][i].by
        BY <1>12, <1>13, <2>2, <3>2 DEF Waiting
      <4>2. PICK i \in DOMAIN pool[d] : q \in pool[d][i].by
        BY <4>1
      <4>3. i \in DOMAIN pool'[d] /\ pool'[d][i] = pool[d][i]
        BY <1>7, <1>8, <1>9
      <4>. QED  BY <4>2, <4>3
    <3>. QED  BY <3>1, <3>2
  <2>. QED  BY <2>1, <2>2 DEF Waiting
<1>16. \A d \in Chain : \A i \in DOMAIN pool'[d] : TxSound(d, pool'[d][i], ledger'[d])
  BY ZenonT(60), <1>1, <1>3, <1>7, <1>8, <1>9 DEF DeployInv
<1>17. \A q \in Run : RunSound(run'[q], ledger', pool')
  BY <1>1, <1>10, <1>11, <1>12, Moved
<1>18. Usable(config', ledger', pool')
  BY <1>1, <1>10, Moved
<1>19. pool' \in [Chain -> Seq(TxSet)]
  BY <1>6, <1>7, <1>8
<1>. QED  BY <1>1, <1>12, <1>15, <1>16, <1>17, <1>18, <1>19 DEF DeployInv

-----------------------------------------------------------------------------
(* A transaction is mined.                                                 *)

\* The oracle of a script whose transaction tx was mined on a chain with l.
OracleAfter(tx, l) == IF OracleMade(tx.step) THEN Len(l.oracles) + 1 ELSE tx.oracle

\* l2 is the record of c after transaction tx, which found l.
Took(c, tx, l, l2) ==
  /\ Grows(l, l2)
  /\ LedgerOK(c, l2)
  /\ \A queue : InForce(l2, queue, OracleAfter(tx, l), tx.step)

\* tx is about to take effect on c.
Takes(c, tx, l) ==
  /\ c \in Chain /\ tx \in TxSet /\ LedgerOK(c, l) /\ TxSound(c, tx, l)
  /\ l = ledger[c] /\ ~Reverts(c, tx)

LEMMA TakesFields ==
  ASSUME NEW c, NEW tx, NEW l, Takes(c, tx, l)
  PROVE  /\ tx.step \in StepSet /\ tx.step.op \in Op /\ tx.step.what \in What
         /\ tx.step.chain = c
         /\ l \in LedgerSet /\ Len(l.oracles) \in Nat /\ DOMAIN l.oracles = 1 .. Len(l.oracles)
         /\ l.oracles \in Seq(OracleSet)
         /\ \A o \in 1 .. Len(l.oracles) : l.oracles[o] \in OracleSet
         /\ tx.oracle \in Nat /\ tx.oracle <= Len(l.oracles)
         /\ OfOracle(tx.step) => tx.oracle \in 1 .. Len(l.oracles)
         /\ Grows(l, l)
<1>1. l \in LedgerSet /\ tx \in TxSet /\ tx.step \in StepSet /\ tx.oracle \in Nat
  BY DEF Takes, LedgerOK, TxSet
<1>2. Len(l.oracles) \in Nat /\ DOMAIN l.oracles = 1 .. Len(l.oracles)
      /\ l.oracles \in Seq(OracleSet)
  BY <1>1 DEF LedgerSet
<1>3. \A o \in 1 .. Len(l.oracles) : l.oracles[o] \in OracleSet
  BY <1>2
<1>4. OfOracle(tx.step) => tx.oracle # NoOracle
  BY DEF Takes, TxSound
<1>5. tx.oracle <= Len(l.oracles) /\ tx.step.chain = c
  BY DEF Takes, TxSound
<1>6. Grows(l, l)
  BY <1>1, <1>2 DEF Grows
<1>. QED  BY <1>1, <1>2, <1>3, <1>4, <1>5, <1>6 DEF StepSet, NoOracle

LEMMA CreateTaken ==
  ASSUME NEW c, NEW tx, NEW l, Takes(c, tx, l), tx.step.op = "create"
  PROVE  Took(c, tx, l, Effect(c, tx))
<1>. DEFINE what == tx.step.what
            l2 == [l EXCEPT !.code = @ \cup {what},
                            !.owner = IF what = "inbox" THEN "deployer" ELSE @,
                            !.mpcAbiReEncode = IF what = "inbox" THEN tx.codec ELSE @]
<1>1. Effect(c, tx) = l2
  BY DEF Effect, Takes, OracleMade
<1>2. l \in LedgerSet /\ LedgerOK(c, l) /\ Len(l.oracles) \in Nat /\ tx.codec \in BOOLEAN
  BY TakesFields DEF Takes, TxSet
<1>3. /\ what \in {"codec", "feeManager", "inbox"}
      /\ what = "inbox" => /\ "feeManager" \in l.code
                           /\ tx.codec => "codec" \in l.code
                           /\ NeedsCodec(c) => tx.codec
  BY DEF Takes, TxSound
<1>4. /\ l2 \in LedgerSet
      /\ l2.code = l.code \cup {what}
      /\ l2.owner = IF what = "inbox" THEN "deployer" ELSE l.owner
      /\ l2.mpcAbiReEncode = IF what = "inbox" THEN tx.codec ELSE l.mpcAbiReEncode
      /\ l2.miner = l.miner /\ l2.oracle = l.oracle /\ l2.fees = l.fees
      /\ l2.oracles = l.oracles /\ l2.factory = l.factory /\ l2.apps = l.apps
  BY <1>2, <1>3 DEF LedgerSet
<1>. HIDE DEF l2
<1>5. Grows(l, l2)
  BY <1>2, <1>4 DEF Grows
<1>6. LedgerOK(c, l2)
  BY <1>2, <1>3, <1>4 DEF LedgerOK, Good
<1>7. \A queue, o : InForce(l2, queue, o, tx.step)
  BY <1>4, NamedSteps DEF InForce, OracleMade, OfOracle
<1>. QED  BY <1>1, <1>5, <1>6, <1>7 DEF Took

LEMMA MinerTaken ==
  ASSUME NEW c, NEW tx, NEW l, Takes(c, tx, l), tx.step.op = "addMiner"
  PROVE  Took(c, tx, l, Effect(c, tx))
<1>. DEFINE l2 == [l EXCEPT !.miner = TRUE]
<1>1. Effect(c, tx) = l2
  BY DEF Effect, Takes, OracleMade
<1>2. l \in LedgerSet /\ LedgerOK(c, l) /\ Len(l.oracles) \in Nat
  BY TakesFields DEF Takes
<1>3. /\ l2 \in LedgerSet /\ l2.code = l.code /\ l2.owner = l.owner
      /\ l2.mpcAbiReEncode = l.mpcAbiReEncode
      /\ l2.miner /\ l2.oracle = l.oracle /\ l2.fees = l.fees
      /\ l2.oracles = l.oracles /\ l2.factory = l.factory /\ l2.apps = l.apps
  BY <1>2 DEF LedgerSet
<1>. HIDE DEF l2
<1>4. Grows(l, l2)
  BY <1>2, <1>3 DEF Grows
<1>5. LedgerOK(c, l2)
  BY <1>2, <1>3 DEF LedgerOK, Good
<1>6. \A queue, o : InForce(l2, queue, o, tx.step)
  BY <1>3, NamedSteps DEF InForce, OracleMade, OfOracle
<1>. QED  BY <1>1, <1>4, <1>5, <1>6 DEF Took

LEMMA FeesTaken ==
  ASSUME NEW c, NEW tx, NEW l, Takes(c, tx, l), tx.step.op = "updateMinFeeConfigs"
  PROVE  Took(c, tx, l, Effect(c, tx))
<1>. DEFINE l2 == [l EXCEPT !.fees = tx.fees]
<1>1. Effect(c, tx) = l2
  BY DEF Effect, Takes, OracleMade
<1>2. /\ l \in LedgerSet /\ LedgerOK(c, l) /\ Len(l.oracles) \in Nat
      /\ tx.fees # {} /\ tx.fees \subseteq FeePair
  BY TakesFields DEF Takes, TxSound, TxSet
<1>3. /\ l2 \in LedgerSet /\ l2.code = l.code /\ l2.owner = l.owner
      /\ l2.mpcAbiReEncode = l.mpcAbiReEncode
      /\ l2.miner = l.miner /\ l2.oracle = l.oracle /\ l2.fees = tx.fees
      /\ l2.oracles = l.oracles /\ l2.factory = l.factory /\ l2.apps = l.apps
  BY <1>2 DEF LedgerSet
<1>. HIDE DEF l2
<1>4. Grows(l, l2)
  BY <1>2, <1>3 DEF Grows
<1>5. LedgerOK(c, l2)
  BY <1>2, <1>3 DEF LedgerOK, Good
<1>6. \A queue, o : InForce(l2, queue, o, tx.step)
  BY <1>2, <1>3, NamedSteps DEF InForce, OracleMade, OfOracle
<1>. QED  BY <1>1, <1>4, <1>5, <1>6 DEF Took

LEMMA WireTaken ==
  ASSUME NEW c, NEW tx, NEW l, Takes(c, tx, l), tx.step.op = "setPriceOracle"
  PROVE  Took(c, tx, l, Effect(c, tx))
<1>. DEFINE o == tx.oracle
            l2 == IF tx.step.what = "factory" THEN [l EXCEPT !.factory = o]
                  ELSE [l EXCEPT !.oracle = o]
<1>1. Effect(c, tx) = l2
  BY DEF Effect, Takes, OracleMade
<1>2. /\ l \in LedgerSet /\ LedgerOK(c, l) /\ Len(l.oracles) \in Nat
      /\ Good(l, o) /\ o \in Nat /\ o # NoOracle /\ o <= Len(l.oracles)
  BY TakesFields DEF Takes, TxSound, Good, NoOracle
<1>3. /\ l2 \in LedgerSet /\ l2.code = l.code /\ l2.owner = l.owner
      /\ l2.mpcAbiReEncode = l.mpcAbiReEncode
      /\ l2.miner = l.miner /\ l2.fees = l.fees
      /\ l2.oracles = l.oracles /\ l2.apps = l.apps
      /\ l2.oracle = IF tx.step.what = "factory" THEN l.oracle ELSE o
      /\ l2.factory = IF tx.step.what = "factory" THEN o ELSE l.factory
  BY <1>2 DEF LedgerSet
<1>. HIDE DEF l2
<1>4. Grows(l, l2)
  BY <1>2, <1>3 DEF Grows
<1>5. LedgerOK(c, l2)
  BY <1>2, <1>3 DEF LedgerOK, Good
<1>6. \A queue, x : InForce(l2, queue, x, tx.step)
  BY <1>2, <1>3, NamedSteps DEF InForce, OracleMade, OfOracle
<1>. QED  BY <1>1, <1>4, <1>5, <1>6 DEF Took

LEMMA AppTaken ==
  ASSUME NEW c, NEW tx, NEW l, Takes(c, tx, l),
         tx.step.op \in {"deploy", "fund", "configure"}, ~OracleMade(tx.step)
  PROVE  Took(c, tx, l, Effect(c, tx))
<1>. DEFINE l2 == [l EXCEPT !.apps = @ \cup {tx.step}]
<1>1. Effect(c, tx) = l2
  BY DEF Effect, Takes, OracleMade
<1>2. /\ l \in LedgerSet /\ LedgerOK(c, l) /\ Len(l.oracles) \in Nat
      /\ tx.step \in StepSet
  BY TakesFields DEF Takes
<1>3. /\ l2 \in LedgerSet /\ l2.code = l.code /\ l2.owner = l.owner
      /\ l2.mpcAbiReEncode = l.mpcAbiReEncode
      /\ l2.miner = l.miner /\ l2.oracle = l.oracle /\ l2.fees = l.fees
      /\ l2.oracles = l.oracles /\ l2.factory = l.factory /\ l2.apps = l.apps \cup {tx.step}
  BY <1>2 DEF LedgerSet
<1>. HIDE DEF l2
<1>4. Grows(l, l2)
  BY <1>2, <1>3 DEF Grows
<1>5. LedgerOK(c, l2)
  BY <1>2, <1>3 DEF LedgerOK, Good
<1>6. \A queue, o : InForce(l2, queue, o, tx.step)
  BY <1>3, NamedSteps DEF InForce, OfOracle
<1>. QED  BY <1>1, <1>4, <1>5, <1>6 DEF Took

LEMMA OracleTaken ==
  ASSUME NEW c, NEW tx, NEW l, Takes(c, tx, l), OracleMade(tx.step)
  PROVE  Took(c, tx, l, Effect(c, tx)) /\ Len(Effect(c, tx).oracles) = Len(l.oracles) + 1
<1>. DEFINE l2 == [l EXCEPT !.oracles = Append(@, Bare)]
<1>1. Effect(c, tx) = l2
  BY DEF Effect, Takes, OracleMade
<1>2. /\ l \in LedgerSet /\ LedgerOK(c, l) /\ l.oracles \in Seq(OracleSet)
      /\ Len(l.oracles) \in Nat
  BY TakesFields DEF Takes
<1>3. Bare \in OracleSet
  BY DEF Bare, OracleSet, NoPrice
<1>4. /\ Append(l.oracles, Bare) \in Seq(OracleSet)
      /\ Len(Append(l.oracles, Bare)) = Len(l.oracles) + 1
      /\ \A o \in 1 .. Len(l.oracles) : Append(l.oracles, Bare)[o] = l.oracles[o]
  BY <1>2, <1>3
<1>5. /\ l2 \in LedgerSet /\ l2.code = l.code /\ l2.owner = l.owner
      /\ l2.mpcAbiReEncode = l.mpcAbiReEncode
      /\ l2.miner = l.miner /\ l2.oracle = l.oracle /\ l2.fees = l.fees
      /\ l2.oracles = Append(l.oracles, Bare)
      /\ l2.factory = l.factory /\ l2.apps = l.apps
  BY <1>2, <1>4 DEF LedgerSet
<1>. HIDE DEF l2
<1>6. Grows(l, l2)
  BY <1>2, <1>4, <1>5 DEF Grows
<1>7. LedgerOK(c, l2)
  <2>1. l2.oracle <= Len(l2.oracles) /\ l2.factory <= Len(l2.oracles)
    BY <1>2, <1>4, <1>5 DEF LedgerOK, LedgerSet
  <2>2. l2.oracle # NoOracle => Good(l2, l2.oracle)
    BY <1>2, <1>5, <1>6, GoodGrows DEF LedgerOK
  <2>. QED  BY <1>2, <1>5, <2>1, <2>2 DEF LedgerOK
<1>8. \A queue : InForce(l2, queue, Len(l.oracles) + 1, tx.step)
  BY <1>2, <1>4, <1>5, NamedSteps DEF InForce, OracleMade, OfOracle
<1>. QED  BY <1>1, <1>4, <1>5, <1>6, <1>7, <1>8 DEF Took, OracleAfter

\* An oracle is changed, without losing a price or a setting.
LEMMA OracleChanges ==
  ASSUME NEW c, NEW l, LedgerOK(c, l), NEW o \in 1 .. Len(l.oracles), NEW x \in OracleSet,
         NEW l2, l2 = [l EXCEPT !.oracles = [@ EXCEPT ![o] = x]],
         l.oracles[o].set \subseteq x.set,
         \A leg \in Leg : l.oracles[o].legs[leg] # NoPrice => x.legs[leg] # NoPrice
  PROVE  /\ Grows(l, l2) /\ LedgerOK(c, l2)
         /\ l2.oracles[o] = x /\ Len(l2.oracles) = Len(l.oracles)
<1>1. /\ l \in LedgerSet /\ l.oracles \in Seq(OracleSet) /\ Len(l.oracles) \in Nat
      /\ DOMAIN l.oracles = 1 .. Len(l.oracles)
  BY DEF LedgerOK, LedgerSet
<1>. DEFINE seq == [l.oracles EXCEPT ![o] = x]
<1>2. /\ seq \in Seq(OracleSet) /\ Len(seq) = Len(l.oracles) /\ seq[o] = x
      /\ \A i \in 1 .. Len(l.oracles) : i # o => seq[i] = l.oracles[i]
  BY <1>1
<1>3. l2 = [l EXCEPT !.oracles = seq]
  BY <1>1
<1>. HIDE DEF seq
<1>4. /\ l2 \in LedgerSet /\ l2.code = l.code /\ l2.owner = l.owner
      /\ l2.mpcAbiReEncode = l.mpcAbiReEncode
      /\ l2.miner = l.miner /\ l2.oracle = l.oracle /\ l2.fees = l.fees
      /\ l2.oracles = seq
      /\ l2.factory = l.factory /\ l2.apps = l.apps
  BY <1>1, <1>2, <1>3 DEF LedgerSet
<1>5. Grows(l, l2)
  BY <1>1, <1>2, <1>4 DEF Grows
<1>6. LedgerOK(c, l2)
  <2>1. l2.oracle <= Len(l2.oracles) /\ l2.factory <= Len(l2.oracles)
    BY <1>2, <1>4 DEF LedgerOK
  <2>2. l2.oracle # NoOracle => Good(l2, l2.oracle)
    BY <1>4, <1>5, GoodGrows DEF LedgerOK
  <2>. QED  BY <1>4, <2>1, <2>2 DEF LedgerOK
<1>. QED  BY <1>2, <1>4, <1>5, <1>6

\* The tables name a token for each leg of both chains.
LEMMA TokensTyped ==
  ASSUME NEW c \in Chain
  PROVE  /\ NativeToken(c) \in {"ETH", "AVAX", "COTI"}
         /\ NativeToken(Paired(c)) \in {"ETH", "AVAX", "COTI"}
         /\ \A leg \in Leg : OracleUsdPricesForChain(c)[leg] \in {"ETH", "AVAX", "COTI"}
         /\ NoPrice \notin {"ETH", "AVAX", "COTI"}
<1>1. SourceChain \in {"sepolia", "avalancheFuji", "localhost"} /\ CotiTestnet = "cotiTestnet"
  BY DeployAssumption DEF SourceTestnets, CotiTestnet
<1>2. Paired(c) \in {SourceChain, CotiTestnet} /\ c \in {SourceChain, CotiTestnet}
  BY DEF Chain, Paired
<1>. QED  BY <1>1, <1>2 DEF NativeToken, OracleUsdPricesForChain, Leg, NoPrice

LEMMA SetTaken ==
  ASSUME NEW c, NEW tx, NEW l, Takes(c, tx, l), tx.step.op \in {"setToken", "setFeed"}
  PROVE  Took(c, tx, l, Effect(c, tx))
<1>. DEFINE o == tx.oracle
            x == [l.oracles[o] EXCEPT !.set = @ \cup {tx.step.what}]
            l2 == [l EXCEPT !.oracles = [@ EXCEPT ![o] = x]]
<1>1. Effect(c, tx) = l2
  BY DEF Effect, Takes, OracleMade
<1>2. /\ LedgerOK(c, l) /\ o \in 1 .. Len(l.oracles) /\ l.oracles[o] \in OracleSet
      /\ tx.step.what \in What
  BY TakesFields DEF Takes, OfOracle
<1>3. /\ x \in OracleSet /\ x.set = l.oracles[o].set \cup {tx.step.what}
      /\ x.legs = l.oracles[o].legs
  BY <1>2 DEF OracleSet
<1>. HIDE DEF x
<1>4. /\ Grows(l, l2) /\ LedgerOK(c, l2)
      /\ l2.oracles[o] = x /\ Len(l2.oracles) = Len(l.oracles)
  BY <1>2, <1>3, OracleChanges
<1>. HIDE DEF l2
<1>5. \A queue : InForce(l2, queue, o, tx.step)
  BY <1>2, <1>3, <1>4, NamedSteps DEF InForce, OracleMade, OfOracle
<1>. QED  BY <1>1, <1>4, <1>5 DEF Took, OracleAfter, OracleMade

LEMMA PriceTaken ==
  ASSUME NEW c, NEW tx, NEW l, Takes(c, tx, l), tx.step.op \in {"setPrice", "resetPrice"}
  PROVE  Took(c, tx, l, Effect(c, tx))
<1>. DEFINE o == tx.oracle
            what == tx.step.what
            price == OracleUsdPricesForChain(c)[what]
            x == [l.oracles[o] EXCEPT !.legs[what] = price]
            l2 == [l EXCEPT !.oracles = [@ EXCEPT ![o] = x]]
<1>1. Effect(c, tx) = l2
  BY DEF Effect, Takes, OracleMade
<1>2. /\ LedgerOK(c, l) /\ o \in 1 .. Len(l.oracles) /\ l.oracles[o] \in OracleSet
      /\ what \in Leg /\ c \in Chain
  BY TakesFields DEF Takes, OfOracle, TxSound
<1>3. price \in {"ETH", "AVAX", "COTI"} /\ price # NoPrice
  BY <1>2, TokensTyped
<1>. HIDE DEF price, what
<1>4. /\ x \in OracleSet /\ x.set = l.oracles[o].set
      /\ x.legs[what] = price
      /\ \A leg \in Leg \ {what} : x.legs[leg] = l.oracles[o].legs[leg]
  BY <1>2, <1>3 DEF OracleSet
<1>. HIDE DEF x
<1>5. /\ Grows(l, l2) /\ LedgerOK(c, l2)
      /\ l2.oracles[o] = x /\ Len(l2.oracles) = Len(l.oracles)
  BY <1>2, <1>3, <1>4, OracleChanges
<1>. HIDE DEF l2
<1>6. \A queue : InForce(l2, queue, o, tx.step)
  BY <1>2, <1>3, <1>4, <1>5, NamedSteps DEF InForce, OracleMade, OfOracle, what
<1>. QED  BY <1>1, <1>5, <1>6 DEF Took, OracleAfter, OracleMade

LEMMA RefreshTaken ==
  ASSUME NEW c, NEW tx, NEW l, Takes(c, tx, l), tx.step.op = "refreshCache"
  PROVE  Took(c, tx, l, Effect(c, tx))
<1>. DEFINE o == tx.oracle
            old == l.oracles[o]
            token(leg) == NativeToken(IF leg = "local" THEN c ELSE Paired(c))
            x == [old EXCEPT !.legs = [leg \in Leg |-> IF leg \in old.set THEN token(leg)
                                                       ELSE @[leg]]]
            l2 == [l EXCEPT !.oracles = [@ EXCEPT ![o] = x]]
<1>1. Effect(c, tx) = l2
  BY DEF Effect, Takes, OracleMade
<1>2. /\ LedgerOK(c, l) /\ o \in 1 .. Len(l.oracles) /\ old \in OracleSet
      /\ c \in Chain
  BY TakesFields DEF Takes, OfOracle, TxSound
<1>3. \A leg : token(leg) \in {"ETH", "AVAX", "COTI"} /\ token(leg) # NoPrice
  BY <1>2, TokensTyped
<1>. HIDE DEF token
<1>4. /\ x \in OracleSet /\ x.set = old.set
      /\ \A leg \in Leg : x.legs[leg] = IF leg \in old.set THEN token(leg) ELSE old.legs[leg]
  BY <1>2, <1>3 DEF OracleSet
<1>. HIDE DEF x
<1>5. /\ Grows(l, l2) /\ LedgerOK(c, l2)
      /\ l2.oracles[o] = x /\ Len(l2.oracles) = Len(l.oracles)
  BY <1>2, <1>3, <1>4, OracleChanges
<1>. HIDE DEF l2
<1>6. \A queue : InForce(l2, queue, o, tx.step)
  BY <1>2, <1>5, NamedSteps DEF InForce, OracleMade, OfOracle
<1>. QED  BY <1>1, <1>5, <1>6 DEF Took, OracleAfter, OracleMade

\* Whatever is mined, the chain's record gains and stays in order, and the
\* transaction's step is in force for the script that waits for it.
LEMMA EveryTaken ==
  ASSUME NEW c, NEW tx, NEW l, Takes(c, tx, l)
  PROVE  /\ Took(c, tx, l, Effect(c, tx))
         /\ OracleMade(tx.step) => Len(Effect(c, tx).oracles) = Len(l.oracles) + 1
<1>1. tx.step.op \in Op \ Local
  BY TakesFields DEF Takes, TxSound
<1>2. tx.step.op \in {"create", "addMiner", "deploy", "setToken", "setFeed", "setPrice",
                      "resetPrice", "refreshCache", "setPriceOracle", "updateMinFeeConfigs",
                      "fund", "configure"}
  BY <1>1 DEF Op, Local
<1>3. CASE OracleMade(tx.step)
  BY <1>3, OracleTaken
<1>4. CASE ~OracleMade(tx.step)
  BY <1>2, <1>4, CreateTaken, MinerTaken, AppTaken, SetTaken, PriceTaken, RefreshTaken,
     WireTaken, FeesTaken
<1>. QED  BY <1>3, <1>4

-----------------------------------------------------------------------------
\* What can revert although its step was checked: a create of what is there
\* already, a miner that is registered, fees the inbox refuses.
LEMMA RevertsFew ==
  ASSUME DeployInv, NEW c \in Chain, NEW tx \in TxSet, TxSound(c, tx, ledger[c]), Reverts(c, tx)
  PROVE  /\ tx.step.op \notin {"setPriceOracle", "fund", "configure", "deploy"}
         /\ tx.step.op = "create" => tx.step.what \in ledger[c].code
<1>1. tx.step.op = "setPriceOracle" => Priced(c, tx.oracle)
  BY DEF TxSound, Good, Priced
<1>. QED  BY <1>1 DEF Reverts, TxSound

\* r once it has made oracle n of chain c.
Made(r, c, n) == [r EXCEPT !.oracle[c] = n]

LEMMA NoPresetAfterOracle ==
  ASSUME NEW B, NEW h, OracleMade(h), NEW seq \in Seq(StepSet), Orderly(B \cup {h}, seq)
  PROVE  Preset(h.chain) \notin Elements(seq)
<1>1. ASSUME NEW k \in DOMAIN seq, seq[k] = Preset(h.chain) PROVE FALSE
  <2>. DEFINE S == {seq[j] : j \in 1 .. k - 1}
  <2>1. Fits((B \cup {h}) \cup S, Preset(h.chain))
    BY <1>1 DEF Orderly
  <2>. HIDE DEF S
  <2>2. ~HasOracle((B \cup {h}) \cup S, h.chain)
    BY <2>1, NamedSteps DEF Fits
  <2>. QED  BY <2>2 DEF HasOracle
<1>. QED  BY <1>1 DEF Elements

LEMMA MadeSound ==
  ASSUME NEW r, NEW L, NEW P, RunSound(r, L, P), r.todo # <<>>,
         NEW c, Head(r.todo).chain = c, OracleMade(Head(r.todo)),
         NEW n \in Nat, n \in 1 .. Len(L[c].oracles)
  PROVE  RunSound(Made(r, c, n), L, P)
<1>. DEFINE h == Head(r.todo)
            s == Made(r, c, n)
<1>1. /\ r \in RunSet /\ h \in StepSet /\ c \in Chain /\ h \in Elements(r.todo)
      /\ Fits(Behind(r), h) /\ Orderly(Behind(r) \cup {h}, Tail(r.todo))
      /\ Tail(r.todo) \in Seq(StepSet)
      /\ Elements(r.todo) = {h} \cup Elements(Tail(r.todo))
  BY AtHead
<1>2. h.chain = c /\ OracleMade(h) /\ h.op = "deploy"
  BY DEF OracleMade
<1>3. r.oracle \in [Chain -> Nat]
  BY <1>1 DEF RunSet
<1>4. /\ s \in RunSet /\ s.pc = r.pc /\ s.done = r.done /\ s.todo = r.todo
      /\ s.snapshot = r.snapshot
      /\ s.oracle[c] = n /\ \A d \in Chain \ {c} : s.oracle[d] = r.oracle[d]
  BY <1>1, <1>3 DEF RunSet, Made
<1>. HIDE DEF h, s
<1>5. All(s) = All(r) /\ Behind(s) = Behind(r)
  BY <1>4 DEF All, Behind
<1>6. ASSUME NEW step \in s.done
      PROVE  InForce(L[step.chain], P[step.chain], s.oracle[step.chain], step)
  <2>1. step \in StepSet /\ step.chain \in Chain
          /\ InForce(L[step.chain], P[step.chain], r.oracle[step.chain], step)
    BY <1>1, <1>4, RunSteps DEF RunSound
  <2>2. CASE step.chain # c
    BY <1>4, <2>1, <2>2
  <2>3. CASE step.chain = c
    <3>1. ~OfOracle(step)
      <4>1. CASE step.op = "choose"
        BY <4>1 DEF OfOracle
      <4>2. CASE step.op # "choose"
        <5>1. step \in Behind(r)
          BY <1>4, <4>2 DEF Behind
        <5>. QED  BY <1>1, <1>2, <2>3, <5>1 DEF Fits
      <4>. QED  BY <4>1, <4>2
    <3>2. step # Legs(c)
      BY <3>1, NamedSteps DEF OfOracle
    <3>. QED  BY <1>4, <2>1, <2>3, <3>1, <3>2 DEF InForce, OfOracle
  <2>. QED  BY <2>2, <2>3
<1>7. Preset(c) \notin Elements(s.todo)
  <2>1. Preset(c) # h
    BY <1>2, NamedSteps
  <2>. QED  BY <1>1, <1>2, <1>4, <2>1, NoPresetAfterOracle
<1>8. ASSUME NEW d \in Chain
      PROVE  /\ s.oracle[d] <= Len(L[d].oracles)
             /\ Preset(d) \in Elements(s.todo) => Good(L[d], s.oracle[d])
             /\ Chosen(s, d, L[d])
  <2>1. /\ r.oracle[d] <= Len(L[d].oracles)
        /\ Preset(d) \in Elements(r.todo) => Good(L[d], r.oracle[d])
        /\ Chosen(r, d, L[d])
    BY DEF RunSound
  <2>2. CASE d = c
    <3>1. s.oracle[c] <= Len(L[c].oracles)
      BY <1>4
    <3>2. Chosen(s, c, L[c])
      BY <1>1, <1>2, <1>4, <1>5, <2>1, <2>2 DEF Chosen
    <3>. QED  BY <1>7, <2>2, <3>1, <3>2
  <2>3. CASE d # c
    BY <1>4, <1>5, <2>1, <2>3 DEF Chosen
  <2>. QED  BY <2>2, <2>3
<1>9. RunSound(s, L, P)
  BY <1>4, <1>5, <1>6, <1>8 DEF RunSound
<1>. QED  BY <1>9 DEF s

\* A script gets the receipt of the transaction of its step.
Gets(r, step, n) ==
  IF OracleMade(step) THEN [Past(r) EXCEPT !.oracle[step.chain] = n] ELSE Past(r)

LEMMA GetsSound ==
  ASSUME NEW r, NEW L, NEW P, RunSound(r, L, P), r.todo # <<>>,
         NEW step, Head(r.todo) = step, step.op \notin Local,
         NEW n, NEW o, o = (IF OracleMade(step) THEN n ELSE r.oracle[step.chain]),
         InForce(L[step.chain], P[step.chain], o, step), L[step.chain] \in LedgerSet
  PROVE  RunSound(Gets(r, step, n), L, P) /\ Gets(r, step, n).pc = "ready"
<1>1. r \in RunSet /\ step.chain \in Chain /\ step.op # "choose" /\ r.oracle \in [Chain -> Nat]
  <2>1. r \in RunSet /\ step.chain \in Chain
    BY AtHead
  <2>. QED  BY <2>1 DEF Local, RunSet
<1>2. CASE ~OracleMade(step)
  BY <1>1, <1>2, PastSound, PastFields DEF Gets
<1>3. CASE OracleMade(step)
  <2>. DEFINE s == Made(r, step.chain, n)
  <2>1. n \in 1 .. Len(L[step.chain].oracles)
    BY <1>3 DEF InForce
  <2>2. n \in Nat
    BY <2>1, Lengths
  <2>3. RunSound(s, L, P)
    BY <1>3, <2>1, <2>2, MadeSound
  <2>4. s.todo = r.todo /\ s.oracle[step.chain] = n /\ s \in RunSet
    BY <1>1, <2>2, <2>3 DEF Made, RunSet, RunSound
  <2>. HIDE DEF s
  <2>5. RunSound(Past(s), L, P) /\ Past(s).pc = "ready"
    BY <1>1, <1>3, <2>3, <2>4, PastSound, PastFields
  <2>6. Past(s) = Gets(r, step, n)
    BY <1>1, <1>3, <2>2 DEF s, Made, Past, Gets, RunSet
  <2>. QED  BY <2>5, <2>6
<1>. QED  BY <1>2, <1>3

\* The oldest transaction leaves; only those who waited for it stop waiting.
LEMMA QueueServed ==
  ASSUME DeployInv, NEW c \in Chain, pool[c] # <<>>,
         pool' = [pool EXCEPT ![c] = Tail(@)],
         \A q \in Run : q \notin Head(pool[c]).by => run'[q] = run[q],
         \A q \in Run : q \in Head(pool[c]).by => run'[q].pc # "wait"
  PROVE  /\ pool' \in [Chain -> Seq(TxSet)]
         /\ Waiting'
         /\ \A d \in Chain : \A i \in DOMAIN pool'[d] : TxSound(d, pool'[d][i], ledger[d])
         /\ \A d \in Chain \ {c} : pool'[d] = pool[d]
         /\ \A step : InQueue(pool[c], step) =>
              InQueue(pool'[c], step) \/ step = Head(pool[c]).step
<1>. DEFINE queue == pool[c]
            tx == Head(queue)
<1>1. /\ queue \in Seq(TxSet) /\ Len(queue) \in Nat \ {0} /\ DOMAIN queue = 1 .. Len(queue)
      /\ tx = queue[1]
      /\ \A d \in Chain : pool[d] \in Seq(TxSet)
  BY DEF DeployInv
<1>2. /\ pool'[c] = Tail(queue)
      /\ \A d \in Chain \ {c} : pool'[d] = pool[d]
      /\ pool' = [d \in Chain |-> pool'[d]]
  BY DEF DeployInv
<1>3. /\ Tail(queue) \in Seq(TxSet)
      /\ DOMAIN Tail(queue) = 1 .. Len(queue) - 1
      /\ \A i \in 1 .. Len(queue) - 1 : Tail(queue)[i] = queue[i + 1]
  BY <1>1
<1>. HIDE DEF queue
<1>4. \A i \in DOMAIN pool'[c] : i + 1 \in DOMAIN pool[c] /\ pool'[c][i] = pool[c][i + 1]
                                 /\ i + 1 # 1 /\ i \in Nat
  <2>1. SUFFICES ASSUME NEW i \in 1 .. Len(queue) - 1
                 PROVE  /\ i + 1 \in 1 .. Len(queue) /\ Tail(queue)[i] = queue[i + 1]
                        /\ i + 1 # 1 /\ i \in Nat
    BY <1>1, <1>2, <1>3 DEF queue
  <2>. QED  BY <1>1, <1>3, <2>1
<1>5. \A i \in DOMAIN pool[c] : i # 1 =>
        i - 1 \in DOMAIN pool'[c] /\ pool'[c][i - 1] = pool[c][i]
  <2>1. SUFFICES ASSUME NEW i \in 1 .. Len(queue), i # 1
                 PROVE  i - 1 \in 1 .. Len(queue) - 1 /\ Tail(queue)[i - 1] = queue[i]
    BY <1>1, <1>2, <1>3 DEF queue
  <2>2. i - 1 \in 1 .. Len(queue) - 1 /\ (i - 1) + 1 = i
    BY <1>1, <2>1
  <2>. QED  BY <1>3, <2>2
<1>6. Waiting /\ tx = pool[c][1] /\ 1 \in DOMAIN pool[c]
  BY <1>1 DEF DeployInv, queue
<1>. HIDE DEF tx
<1>7. ASSUME NEW d \in Chain, NEW i \in DOMAIN pool[d], d # c \/ i # 1, NEW q \in pool[d][i].by
      PROVE  q \in Run /\ q \notin tx.by /\ run'[q] = run[q]
  <2>1. q \in Run
    <3>1. pool[d][i] \in TxSet
      BY <1>1
    <3>. QED  BY <1>7, <3>1 DEF TxSet
  <2>2. q \notin tx.by
    <3>1. ASSUME q \in pool[c][1].by PROVE FALSE
      <4>1. Head(run[q].todo) = pool[c][1].step /\ Head(run[q].todo) = pool[d][i].step
        BY <1>6, <1>7, <3>1 DEF Waiting
      <4>2. TxSound(c, pool[c][1], ledger[c]) /\ TxSound(d, pool[d][i], ledger[d])
        BY <1>6 DEF DeployInv
      <4>3. c = d
        BY <4>1, <4>2 DEF TxSound
      <4>. QED  BY <1>6, <1>7, <3>1, <4>3 DEF Waiting
    <3>. QED  BY <1>6, <3>1
  <2>. QED  BY <2>1, <2>2 DEF tx, queue
<1>8. Waiting'
  <2>1. ASSUME NEW d \in Chain, NEW i \in DOMAIN pool'[d], NEW q \in pool'[d][i].by
        PROVE  /\ run'[q].pc = "wait"
               /\ Head(run'[q].todo) = pool'[d][i].step
               /\ run'[q].oracle[d] = pool'[d][i].oracle
               /\ \A j \in DOMAIN pool'[d] : q \in pool'[d][j].by => j = i
    <3>1. CASE d = c
      <4>1. /\ i + 1 \in DOMAIN pool[c] /\ pool'[c][i] = pool[c][i + 1] /\ i + 1 # 1 /\ i \in Nat
        BY <1>4, <2>1, <3>1
      <4>2. q \in Run /\ run'[q] = run[q]
        BY <1>7, <2>1, <3>1, <4>1
      <4>3. ASSUME NEW j \in DOMAIN pool'[c], q \in pool'[c][j].by PROVE j = i
        <5>1. j + 1 \in DOMAIN pool[c] /\ q \in pool[c][j + 1].by /\ j \in Nat
          BY <1>4, <4>3
        <5>2. j + 1 = i + 1
          BY <1>6, <2>1, <3>1, <4>1, <5>1 DEF Waiting
        <5>. QED  BY <4>1, <5>1, <5>2
      <4>. QED  BY <1>6, <2>1, <3>1, <4>1, <4>2, <4>3 DEF Waiting
    <3>2. CASE d # c
      <4>1. pool'[d] = pool[d]
        BY <1>2, <3>2
      <4>2. i \in DOMAIN pool[d] /\ q \in pool[d][i].by
        BY <2>1, <4>1
      <4>3. q \in Run /\ run'[q] = run[q]
        BY <1>7, <3>2, <4>2
      <4>4. /\ run[q].pc = "wait" /\ Head(run[q].todo) = pool[d][i].step
            /\ run[q].oracle[d] = pool[d][i].oracle
            /\ \A j \in DOMAIN pool[d] : q \in pool[d][j].by => j = i
        BY <1>6, <4>2 DEF Waiting
      <4>. QED  BY <4>1, <4>3, <4>4
    <3>. QED  BY <3>1, <3>2
  <2>2. ASSUME NEW q \in Run, run'[q].pc = "wait"
        PROVE  \E d \in Chain : \E i \in DOMAIN pool'[d] : q \in pool'[d][i].by
    <3>1. q \notin tx.by /\ run[q].pc = "wait"
      BY <2>2 DEF tx, queue
    <3>2. PICK d \in Chain : \E i \in DOMAIN pool[d] : q \in pool[d][i].by
      BY <1>6, <3>1 DEF Waiting
    <3>3. PICK i \in DOMAIN pool[d] : q \in pool[d][i].by
      BY <3>2
    <3>4. CASE d = c
      BY <1>5, <1>6, <3>1, <3>3, <3>4
    <3>5. CASE d # c
      BY <1>2, <3>3, <3>5
    <3>. QED  BY <3>4, <3>5
  <2>. QED  BY <2>1, <2>2 DEF Waiting
<1>9. \A d \in Chain : \A i \in DOMAIN pool'[d] : TxSound(d, pool'[d][i], ledger[d])
  <2>1. \A d \in Chain : \A i \in DOMAIN pool[d] : TxSound(d, pool[d][i], ledger[d])
    BY DEF DeployInv
  <2>. QED  BY <1>2, <1>4, <2>1
<1>10. pool' \in [Chain -> Seq(TxSet)]
  BY <1>1, <1>2, <1>3
<1>11. \A step : InQueue(pool[c], step) => InQueue(pool'[c], step) \/ step = tx.step
  BY ZenonT(60), <1>5, <1>6 DEF InQueue
<1>. QED  BY <1>2, <1>8, <1>9, <1>10, <1>11 DEF tx, queue

LEMMA HeadTx ==
  ASSUME DeployInv, NEW c \in Chain, pool[c] # <<>>, NEW tx, tx = Head(pool[c])
  PROVE  /\ tx \in TxSet /\ TxSound(c, tx, ledger[c]) /\ tx.step \in StepSet
         /\ tx.by \subseteq Run
         /\ \A q \in tx.by : /\ run[q].pc = "wait" /\ run[q].todo # <<>>
                             /\ Head(run[q].todo) = tx.step
                             /\ run[q].oracle[c] = tx.oracle
<1>1. /\ pool[c] \in Seq(TxSet) /\ 1 \in DOMAIN pool[c] /\ tx = pool[c][1] /\ tx \in TxSet
  BY DEF DeployInv
<1>2. TxSound(c, tx, ledger[c]) /\ Waiting
  BY <1>1 DEF DeployInv
<1>3. tx.step \in StepSet /\ tx.by \subseteq Run
  BY <1>1 DEF TxSet
<1>4. ASSUME NEW q \in tx.by
      PROVE  /\ run[q].pc = "wait" /\ run[q].todo # <<>>
             /\ Head(run[q].todo) = tx.step /\ run[q].oracle[c] = tx.oracle
  <2>1. /\ run[q].pc = "wait" /\ Head(run[q].todo) = tx.step /\ run[q].oracle[c] = tx.oracle
    BY <1>1, <1>2, <1>4 DEF Waiting
  <2>2. RunSound(run[q], ledger, pool)
    BY <1>3, <1>4, RunIs
  <2>. QED  BY <2>1, <2>2 DEF RunSound
<1>. QED  BY <1>1, <1>2, <1>3, <1>4

LEMMA MineKeeps ==
  ASSUME DeployInv, NEW c \in Chain, Mine(c)
  PROVE  DeployInv'
<1>. DEFINE tx == Head(pool[c])
            l == ledger[c]
            l2 == Effect(c, tx)
            n == Len(l.oracles) + 1
            ok == ~Reverts(c, tx)
<1>1. /\ pool[c] # <<>> /\ pool' = [pool EXCEPT ![c] = Tail(@)]
      /\ ledger' = IF ok THEN [ledger EXCEPT ![c] = l2] ELSE ledger
      /\ run' = [q \in Run |-> IF q \in tx.by THEN Received(q, tx, ok) ELSE run[q]]
      /\ UNCHANGED <<config, starts, faults>>
  BY DEF Mine
<1>2. /\ tx \in TxSet /\ TxSound(c, tx, l) /\ tx.step \in StepSet /\ tx.step.chain = c
      /\ tx.by \subseteq Run /\ tx.step.op \notin Local
      /\ \A q \in tx.by : /\ run[q].pc = "wait" /\ run[q].todo # <<>>
                          /\ Head(run[q].todo) = tx.step
                          /\ run[q].oracle[c] = tx.oracle
  BY <1>1, HeadTx DEF TxSound
<1>3. /\ LedgerOK(c, l) /\ \A d \in Chain : ledger[d] \in LedgerSet /\ LedgerOK(d, ledger[d])
      /\ ledger = [d \in Chain |-> ledger[d]]
  BY DEF DeployInv, LedgerOK
<1>4. ok => /\ Took(c, tx, l, l2)
            /\ OracleMade(tx.step) => Len(l2.oracles) = n
  <2>1. ok => Takes(c, tx, l)
    BY <1>2, <1>3 DEF Takes
  <2>. HIDE DEF ok, tx, l
  <2>. QED  BY <2>1, EveryTaken
<1>5. ~ok => /\ tx.step.op \notin {"setPriceOracle", "fund", "configure", "deploy"}
             /\ tx.step.op = "create" => tx.step.what \in l.code
  BY <1>2, RevertsFew
<1>. HIDE DEF tx, l, l2, ok, n
<1>6. /\ ledger' = [d \in Chain |-> ledger'[d]]
      /\ ledger'[c] = IF ok THEN l2 ELSE l
      /\ \A d \in Chain \ {c} : ledger'[d] = ledger[d]
  BY <1>1, <1>3 DEF l
<1>7. \A d \in Chain : Grows(ledger[d], ledger'[d]) /\ LedgerOK(d, ledger'[d])
  <2>1. \A d \in Chain : Grows(ledger[d], ledger[d])
    BY <1>3, Stays
  <2>. QED  BY <1>3, <1>4, <1>6, <2>1 DEF Took, l
<1>8. \A q \in Run : q \in tx.by => run'[q].pc # "wait"
  <2>1. SUFFICES ASSUME NEW q \in tx.by PROVE Received(q, tx, ok).pc # "wait"
    BY <1>1, <1>2
  <2>2. Ended(q, "failed").pc = "idle"
    BY <1>2, EndedSound
  <2>3. Past(run[q]).pc = "ready" /\ Past(run[q]) \in RunSet
    BY <1>2, PastFields, RunIs
  <2>4. [Past(run[q]) EXCEPT !.oracle[tx.step.chain] = Len(ledger[tx.step.chain].oracles) + 1].pc
          = "ready"
    BY <2>3 DEF RunSet
  <2>. QED  BY <2>2, <2>3, <2>4 DEF Received
<1>9. /\ pool' \in [Chain -> Seq(TxSet)]
      /\ Waiting'
      /\ \A d \in Chain : \A i \in DOMAIN pool'[d] : TxSound(d, pool'[d][i], ledger[d])
      /\ \A d \in Chain \ {c} : pool'[d] = pool[d]
      /\ \A step : InQueue(pool[c], step) => InQueue(pool'[c], step) \/ step = tx.step
  <2>1. /\ \A q \in Run : q \notin Head(pool[c]).by => run'[q] = run[q]
        /\ \A q \in Run : q \in Head(pool[c]).by => run'[q].pc # "wait"
    BY <1>1, <1>8 DEF tx
  <2>. QED  BY <1>1, <2>1, QueueServed DEF tx
<1>10. Moves(ledger, pool, ledger', pool')
  <2>1. \A d \in Chain : Serves(pool[d], pool[d], ledger[d])
    BY DEF Serves
  <2>2. Serves(pool[c], pool'[c], ledger'[c])
    <3>1. CASE ok
      <4>1. InForce(l2, <<>>, OracleAfter(tx, l), tx.step)
        BY <1>4, <3>1 DEF Took
      <4>2. ~InQueue(<<>>, tx.step)
        BY DEF InQueue
      <4>3. /\ tx.step = Preset(tx.step.chain) => l2.oracle # NoOracle
            /\ tx.step.op \in {"fund", "configure"} => tx.step \in l2.apps
        BY <4>1, <4>2, NamedSteps DEF InForce
      <4>. QED  BY <1>6, <1>9, <3>1, <4>3 DEF Serves
    <3>2. CASE ~ok
      <4>1. /\ tx.step # Preset(tx.step.chain)
            /\ tx.step.op \notin {"fund", "configure"}
        BY <1>5, <3>2, NamedSteps
      <4>. QED  BY <1>9, <4>1 DEF Serves
    <3>. QED  BY <3>1, <3>2
  <2>. QED  BY <1>6, <1>7, <1>9, <2>1, <2>2 DEF Moves
<1>11. ASSUME NEW q \in tx.by PROVE RunSound(Received(q, tx, ok), ledger', pool')
  <2>1. RunSound(run[q], ledger', pool') /\ q \in Run
    BY <1>2, <1>10, <1>11, Moved
  <2>2. CASE ~ok /\ ~StatusUnread(tx.step)
    <3>1. run[q].calm \in BOOLEAN
      BY <2>1, RunIs DEF RunSet
    <3>2. \A d \in Chain : ledger'[d] \in LedgerSet
      BY <1>7 DEF LedgerOK
    <3>. QED  BY <2>2, <3>1, <3>2, IdleSound DEF Received, Ended
  <2>3. CASE ok \/ StatusUnread(tx.step)
    <3>1. OracleMade(tx.step) => ok
      BY <2>3 DEF OracleMade, StatusUnread
    <3>. DEFINE o == IF OracleMade(tx.step) THEN n ELSE run[q].oracle[tx.step.chain]
    <3>2. InForce(ledger'[c], pool'[c], o, tx.step)
      <4>1. CASE ok
        <5>1. o = OracleAfter(tx, l)
          BY <1>2, <1>11 DEF OracleAfter, n
        <5>. QED  BY <1>4, <1>6, <4>1, <5>1 DEF Took
      <4>2. CASE ~ok
        <5>1. tx.step.op = "create" /\ tx.step.what \in ledger'[c].code
          BY <1>5, <1>6, <2>3, <4>2 DEF StatusUnread
        <5>. QED  BY <5>1, NamedSteps DEF InForce, OracleMade, OfOracle
      <4>. QED  BY <4>1, <4>2
    <3>3. ledger'[c] \in LedgerSet
      BY <1>7 DEF LedgerOK
    <3>4. Received(q, tx, ok) = Gets(run[q], tx.step, n)
      BY <1>2, <2>3 DEF Received, Gets, n, l
    <3>. HIDE DEF o
    <3>5. run[q].todo # <<>> /\ Head(run[q].todo) = tx.step
      BY <1>2, <1>11
    <3>6. o = IF OracleMade(tx.step) THEN n ELSE run[q].oracle[tx.step.chain]
      BY DEF o
    <3>7. RunSound(Gets(run[q], tx.step, n), ledger', pool')
      BY <1>2, <2>1, <3>2, <3>3, <3>5, <3>6, GetsSound
    <3>. QED  BY <3>4, <3>7
  <2>. QED  BY <2>2, <2>3
<1>12. \A q \in Run : RunSound(run'[q], ledger', pool')
  BY <1>1, <1>10, <1>11, Moved
<1>13. Usable(config', ledger', pool')
  BY <1>1, <1>10, Moved
<1>14. \A d \in Chain : \A i \in DOMAIN pool'[d] : TxSound(d, pool'[d][i], ledger'[d])
  <2>1. \A d \in Chain : \A i \in DOMAIN pool'[d] : pool'[d][i] \in TxSet
    BY <1>9
  <2>. QED  BY <1>9, <1>10, <2>1, Moved
<1>15. run' = [q \in Run |-> run'[q]]
  BY <1>1
<1>16. starts' \in 0 .. MaxStarts /\ faults' \in 0 .. MaxFaults
  BY <1>1 DEF DeployInv
<1>. QED  BY <1>6, <1>7, <1>9, <1>12, <1>13, <1>14, <1>15, <1>16 DEF DeployInv

\* A script that is no longer alone.
LEMMA CalmDropped ==
  ASSUME NEW r, NEW L, NEW P, RunSound(r, L, P)
  PROVE  /\ RunSound([r EXCEPT !.calm = FALSE], L, P)
         /\ [r EXCEPT !.calm = FALSE].pc = r.pc
         /\ [r EXCEPT !.calm = FALSE].todo = r.todo
         /\ [r EXCEPT !.calm = FALSE].oracle = r.oracle
<1>. DEFINE s == [r EXCEPT !.calm = FALSE]
<1>1. r \in RunSet
  BY DEF RunSound
<1>2. /\ s \in RunSet /\ s.pc = r.pc /\ s.todo = r.todo /\ s.done = r.done
      /\ s.oracle = r.oracle /\ s.snapshot = r.snapshot
  BY <1>1 DEF RunSet
<1>. HIDE DEF s
<1>3. RunSound(s, L, P)
  <2>1. /\ Usable(r.snapshot, L, P)
        /\ r.pc \in {"send", "wait"} => r.todo # <<>>
        /\ r.pc = "send" => Head(r.todo).op \in Looking
        /\ r.pc = "wait" => Head(r.todo).op \notin Local
    BY DEF RunSound
  <2>. QED  BY <1>2, <2>1, SameSteps
<1>. QED  BY <1>2, <1>3 DEF s

LEMMA MineDeadFeedKeeps ==
  ASSUME DeployInv, NEW c \in Chain, MineDeadFeed(c)
  PROVE  DeployInv'
<1>. DEFINE tx == Head(pool[c])
<1>1. /\ pool[c] # <<>> /\ pool' = [pool EXCEPT ![c] = Tail(@)]
      /\ tx.step.op = "refreshCache" /\ faults < MaxFaults
      /\ run' = [q \in Run |->
           IF q \in tx.by THEN [Received(q, tx, TRUE) EXCEPT !.calm = FALSE] ELSE run[q]]
      /\ faults' = faults + 1
      /\ UNCHANGED <<ledger, config, starts>>
  BY DEF MineDeadFeed
<1>2. /\ tx \in TxSet /\ TxSound(c, tx, ledger[c]) /\ tx.step \in StepSet /\ tx.step.chain = c
      /\ tx.by \subseteq Run
      /\ \A q \in tx.by : /\ run[q].pc = "wait" /\ run[q].todo # <<>>
                          /\ Head(run[q].todo) = tx.step
                          /\ run[q].oracle[c] = tx.oracle
  BY <1>1, HeadTx DEF TxSound
<1>. HIDE DEF tx
<1>3. ASSUME NEW q \in tx.by, NEW P, RunSound(run[q], ledger, P)
      PROVE  /\ RunSound([Received(q, tx, TRUE) EXCEPT !.calm = FALSE], ledger, P)
             /\ [Received(q, tx, TRUE) EXCEPT !.calm = FALSE].pc = "ready"
  <2>1. Received(q, tx, TRUE) = Past(run[q])
    BY <1>1 DEF Received, OracleMade
  <2>2. /\ tx.oracle # NoOracle /\ tx.oracle \in Nat /\ tx.oracle <= Len(ledger[c].oracles)
        /\ Len(ledger[c].oracles) \in Nat
    BY <1>1, <1>2, RunIs, Lengths DEF TxSound, OfOracle, TxSet
  <2>3. InForce(ledger[c], P[c], tx.oracle, tx.step)
    BY <1>1, <2>2, NamedSteps DEF InForce, OracleMade, NoOracle
  <2>. DEFINE r == run[q]
  <2>4. /\ r.todo # <<>> /\ Head(r.todo) = tx.step /\ r.oracle[c] = tx.oracle
        /\ tx.step.op # "choose" /\ r \in RunSet
    BY <1>1, <1>2, <1>3 DEF RunSound
  <2>. HIDE DEF r
  <2>5. RunSound(Past(r), ledger, P) /\ Past(r).pc = "ready"
    <3>1. RunSound(r, ledger, P)
      BY <1>3 DEF r
    <3>. QED  BY <1>2, <2>3, <2>4, <3>1, PastSound, PastFields
  <2>. QED  BY <2>1, <2>5, CalmDropped DEF r
<1>4. \A q \in Run : q \in tx.by => run'[q].pc # "wait"
  BY <1>1, <1>3, RunIs
<1>5. /\ pool' \in [Chain -> Seq(TxSet)]
      /\ Waiting'
      /\ \A d \in Chain : \A i \in DOMAIN pool'[d] : TxSound(d, pool'[d][i], ledger[d])
      /\ \A d \in Chain \ {c} : pool'[d] = pool[d]
      /\ \A step : InQueue(pool[c], step) => InQueue(pool'[c], step) \/ step = tx.step
  <2>1. /\ \A q \in Run : q \notin Head(pool[c]).by => run'[q] = run[q]
        /\ \A q \in Run : q \in Head(pool[c]).by => run'[q].pc # "wait"
    BY <1>1, <1>4 DEF tx
  <2>. QED  BY <1>1, <2>1, QueueServed DEF tx
<1>6. Moves(ledger, pool, ledger', pool')
  <2>0. \A d \in Chain : ledger[d] \in LedgerSet
    BY DEF DeployInv, LedgerOK
  <2>1. \A d \in Chain : Grows(ledger[d], ledger[d]) /\ Serves(pool[d], pool[d], ledger[d])
    BY <2>0, Stays
  <2>2. Serves(pool[c], pool'[c], ledger[c])
    BY <1>1, <1>5, NamedSteps DEF Serves
  <2>. QED  BY <1>1, <1>5, <2>1, <2>2 DEF Moves
<1>7. \A q \in Run : RunSound(run[q], ledger, pool')
  BY <1>1, <1>6, Moved
<1>8. \A q \in Run : RunSound(run'[q], ledger', pool')
  BY <1>1, <1>3, <1>7
<1>9. Usable(config', ledger', pool')
  BY <1>1, <1>6, Moved
<1>10. run' = [q \in Run |-> run'[q]]
  BY <1>1
<1>11. starts' \in 0 .. MaxStarts /\ faults' \in 0 .. MaxFaults
  BY <1>1, DeployAssumption DEF DeployInv
<1>. QED  BY <1>1, <1>5, <1>8, <1>9, <1>10, <1>11 DEF DeployInv

-----------------------------------------------------------------------------
(* A script is started, and a script is given up.                          *)

Without(tx, p) == [tx EXCEPT !.by = @ \ {p}]

LEMMA WithoutFields ==
  ASSUME NEW tx \in TxSet, NEW p
  PROVE  /\ Without(tx, p) \in TxSet
         /\ Without(tx, p).step = tx.step /\ Without(tx, p).oracle = tx.oracle
         /\ Without(tx, p).fees = tx.fees /\ Without(tx, p).codec = tx.codec
         /\ Without(tx, p).by = tx.by \ {p}
BY DEF Without, TxSet

\* What is pending is the same transactions, which nobody waits for.
LEMMA DisownedFields ==
  ASSUME pool \in [Chain -> Seq(TxSet)], NEW p
  PROVE  /\ Disowned(p) \in [Chain -> Seq(TxSet)]
         /\ \A c \in Chain :
              /\ DOMAIN Disowned(p)[c] = DOMAIN pool[c]
              /\ \A i \in DOMAIN pool[c] :
                   /\ pool[c][i] \in TxSet
                   /\ Disowned(p)[c][i] = Without(pool[c][i], p)
<1>1. ASSUME NEW c \in Chain
      PROVE  /\ Disowned(p)[c] \in Seq(TxSet)
             /\ DOMAIN Disowned(p)[c] = DOMAIN pool[c]
             /\ \A i \in DOMAIN pool[c] :
                  pool[c][i] \in TxSet /\ Disowned(p)[c][i] = Without(pool[c][i], p)
  <2>. DEFINE queue == pool[c]
  <2>1. queue \in Seq(TxSet)
    OBVIOUS
  <2>2. Disowned(p)[c] = [i \in DOMAIN queue |-> Without(queue[i], p)]
    BY DEF Disowned, Without
  <2>. HIDE DEF queue
  <2>3. Len(queue) \in Nat /\ DOMAIN queue = 1 .. Len(queue)
    BY <2>1
  <2>4. \A i \in DOMAIN queue : queue[i] \in TxSet /\ Without(queue[i], p) \in TxSet
    BY <2>1, WithoutFields
  <2>5. [i \in 1 .. Len(queue) |-> Without(queue[i], p)] \in Seq(TxSet)
    BY <2>3, <2>4
  <2>. QED  BY <2>2, <2>3, <2>4, <2>5 DEF queue
<1>2. Disowned(p) = [c \in Chain |-> Disowned(p)[c]]
  BY DEF Disowned
<1>. QED  BY <1>1, <1>2

LEMMA GiveUpKeeps ==
  ASSUME DeployInv, NEW p \in Run, GiveUp(p)
  PROVE  DeployInv'
<1>. DEFINE r == [Ended(p, "failed") EXCEPT !.calm = FALSE]
<1>1. /\ run' = [run EXCEPT ![p] = r] /\ pool' = Disowned(p)
      /\ faults < MaxFaults /\ faults' = faults + 1
      /\ UNCHANGED <<ledger, config, starts>>
  BY DEF GiveUp, Becomes
<1>2. RunSound(r, ledger, pool) /\ r.pc = "idle"
  BY EndedSound, CalmDropped
<1>. HIDE DEF r
<1>3. /\ run' = [q \in Run |-> run'[q]] /\ run'[p] = r
      /\ \A q \in Run \ {p} : run'[q] = run[q]
  BY <1>1 DEF DeployInv
<1>4. /\ pool' \in [Chain -> Seq(TxSet)]
      /\ \A c \in Chain :
           /\ DOMAIN pool'[c] = DOMAIN pool[c]
           /\ \A i \in DOMAIN pool[c] :
                /\ pool[c][i] \in TxSet /\ pool'[c][i] \in TxSet
                /\ pool'[c][i].step = pool[c][i].step
                /\ pool'[c][i].oracle = pool[c][i].oracle
                /\ pool'[c][i].fees = pool[c][i].fees
                /\ pool'[c][i].codec = pool[c][i].codec
                /\ pool'[c][i].by = pool[c][i].by \ {p}
  <2>1. pool \in [Chain -> Seq(TxSet)]
    BY DEF DeployInv
  <2>. QED  BY <1>1, <2>1, DisownedFields, WithoutFields
<1>5. \A c \in Chain : ledger[c] \in LedgerSet /\ LedgerOK(c, ledger'[c])
  BY <1>1 DEF DeployInv, LedgerOK
<1>6. Moves(ledger, pool, ledger', pool')
  <2>1. \A c \in Chain : Grows(ledger[c], ledger[c])
    BY <1>5, Stays
  <2>2. \A c \in Chain : Serves(pool[c], pool'[c], ledger[c])
    BY <1>4 DEF Serves, InQueue
  <2>. QED  BY <1>1, <2>1, <2>2 DEF Moves
<1>7. \A q \in Run : RunSound(run[q], ledger', pool')
  BY <1>6, Moved
<1>8. RunSound(r, ledger', pool')
  BY <1>2, <1>6, RunSoundMoves
<1>9. \A q \in Run : RunSound(run'[q], ledger', pool')
  BY <1>3, <1>7, <1>8
<1>10. Usable(config', ledger', pool')
  BY <1>1, <1>6, Moved
<1>11. \A c \in Chain : \A i \in DOMAIN pool'[c] : TxSound(c, pool'[c][i], ledger'[c])
  <2>1. \A c \in Chain : \A i \in DOMAIN pool[c] : TxSound(c, pool[c][i], ledger[c])
    BY DEF DeployInv
  <2>. QED  BY <1>1, <1>4, <2>1 DEF TxSound
<1>12. Waiting'
  <2>0. Waiting
    BY DEF DeployInv
  <2>1. ASSUME NEW c \in Chain, NEW i \in DOMAIN pool'[c], NEW q \in pool'[c][i].by
        PROVE  /\ run'[q].pc = "wait"
               /\ Head(run'[q].todo) = pool'[c][i].step
               /\ run'[q].oracle[c] = pool'[c][i].oracle
               /\ \A j \in DOMAIN pool'[c] : q \in pool'[c][j].by => j = i
    <3>1. i \in DOMAIN pool[c] /\ q \in pool[c][i].by /\ q \in Run \ {p}
      BY <1>4, <2>1 DEF TxSet
    <3>2. run'[q] = run[q]
      BY <1>3, <3>1
    <3>3. /\ run[q].pc = "wait"
          /\ Head(run[q].todo) = pool[c][i].step
          /\ run[q].oracle[c] = pool[c][i].oracle
          /\ \A j \in DOMAIN pool[c] : q \in pool[c][j].by => j = i
      BY <2>0, <3>1 DEF Waiting
    <3>. QED  BY <1>4, <3>1, <3>2, <3>3
  <2>2. ASSUME NEW q \in Run, run'[q].pc = "wait"
        PROVE  \E c \in Chain : \E i \in DOMAIN pool'[c] : q \in pool'[c][i].by
    <3>1. q # p /\ run[q].pc = "wait"
      BY <1>2, <1>3, <2>2
    <3>2. PICK c \in Chain : \E i \in DOMAIN pool[c] : q \in pool[c][i].by
      BY <2>0, <3>1 DEF Waiting
    <3>. QED  BY <1>4, <3>1, <3>2
  <2>. QED  BY <2>1, <2>2 DEF Waiting
<1>13. starts' \in 0 .. MaxStarts /\ faults' \in 0 .. MaxFaults
  BY <1>1, DeployAssumption DEF DeployInv
<1>14. ledger' = [c \in Chain |-> ledger'[c]]
  BY <1>1 DEF DeployInv
<1>. QED  BY <1>3, <1>4, <1>5, <1>9, <1>10, <1>11, <1>12, <1>13, <1>14 DEF DeployInv

\* A script at its beginning.
Begun(s, calm) == [Idle EXCEPT !.pc = "ready", !.todo = Program(s), !.calm = calm]

LEMMA BegunSound ==
  ASSUME NEW L, NEW P, \A c \in Chain : L[c] \in LedgerSet, NEW calm \in BOOLEAN,
         NEW s \in Scripts
  PROVE  RunSound(Begun(s, calm), L, P) /\ Begun(s, calm).pc = "ready"
<1>. DEFINE r == Begun(s, calm)
<1>1. /\ r.pc = "ready" /\ r.todo = Program(s) /\ r.done = {} /\ r.snapshot = NotRecorded
      /\ r.oracle = [c \in Chain |-> NoOracle]
  BY DEF Begun, Idle
<1>2. Planned(Program(s))
  BY ProgramPlanned
<1>3. r \in RunSet
  <2>1. NotRecorded \in ConfigSet /\ [c \in Chain |-> NoOracle] \in [Chain -> Nat]
    BY DEF NotRecorded, ConfigSet, NoOracle
  <2>2. {} \in SUBSET StepSet /\ Program(s) \in Seq(StepSet)
    BY <1>2 DEF Planned
  <2>. QED  BY <2>1, <2>2 DEF Begun, Idle, RunSet
<1>. HIDE DEF r
<1>4. /\ Orderly(Behind(r), r.todo)
      /\ \A step \in Elements(r.todo) :
           step.op = "record" /\ step.what = "inbox" => Choose(step.chain) \in All(r)
  <2>1. Behind(r) = {} /\ All(r) = Elements(r.todo)
    BY <1>1 DEF Behind, All
  <2>. QED  BY <1>1, <1>2, <2>1 DEF Planned
<1>5. ASSUME NEW c \in Chain
      PROVE  /\ r.oracle[c] <= Len(L[c].oracles)
             /\ Preset(c) \in Elements(r.todo) => Good(L[c], r.oracle[c])
             /\ Chosen(r, c, L[c])
  <2>1. r.oracle[c] <= Len(L[c].oracles)
    BY <1>1, Lengths DEF NoOracle
  <2>2. Preset(c) \notin Elements(r.todo)
    BY <1>1, <1>2, NamedSteps DEF Planned
  <2>3. Chosen(r, c, L[c])
    BY <1>1 DEF Chosen
  <2>. QED  BY <2>1, <2>2, <2>3
<1>6. Usable(r.snapshot, L, P)
  BY <1>1, NothingRecorded
<1>. QED  BY <1>1, <1>3, <1>4, <1>5, <1>6 DEF RunSound, r

LEMMA StartKeeps ==
  ASSUME DeployInv, NEW p \in Run, NEW s \in Scripts, Start(p, s)
  PROVE  DeployInv'
<1>. DEFINE calm == /\ \A other \in Run : run[other].pc = "idle"
                    /\ \A c \in Chain : pool[c] = <<>>
<1>1. /\ run[p].pc = "idle" /\ starts < MaxStarts /\ starts' = starts + 1
      /\ run' = [q \in Run |-> IF q # p THEN [run[q] EXCEPT !.calm = FALSE]
                               ELSE Begun(s, calm)]
      /\ UNCHANGED <<ledger, pool, config, faults>>
  BY DEF Start, Begun
<1>2. \A c \in Chain : ledger[c] \in LedgerSet
  BY RunIs
<1>3. calm \in BOOLEAN /\ s \in Script
  BY DeployAssumption
<1>. HIDE DEF calm
<1>4. RunSound(Begun(s, calm), ledger, pool) /\ Begun(s, calm).pc = "ready"
  BY <1>2, <1>3, BegunSound
<1>5. ASSUME NEW q \in Run, q # p
      PROVE  /\ RunSound(run'[q], ledger, pool) /\ run'[q].pc = run[q].pc
             /\ run'[q].todo = run[q].todo /\ run'[q].oracle = run[q].oracle
  BY <1>1, <1>5, RunIs, CalmDropped
<1>6. \A q \in Run : RunSound(run'[q], ledger, pool)
  BY <1>1, <1>4, <1>5
<1>7. Waiting'
  <2>0. Waiting
    BY DEF DeployInv
  <2>1. ASSUME NEW c \in Chain, NEW i \in DOMAIN pool[c], NEW q \in pool[c][i].by
        PROVE  /\ run'[q].pc = "wait"
               /\ Head(run'[q].todo) = pool[c][i].step
               /\ run'[q].oracle[c] = pool[c][i].oracle
               /\ \A j \in DOMAIN pool[c] : q \in pool[c][j].by => j = i
    <3>1. q \in Run
      <4>1. pool[c] \in Seq(TxSet)
        BY DEF DeployInv
      <4>2. pool[c][i] \in TxSet
        BY <4>1
      <4>. QED  BY <4>2 DEF TxSet
    <3>2. /\ run[q].pc = "wait"
          /\ Head(run[q].todo) = pool[c][i].step
          /\ run[q].oracle[c] = pool[c][i].oracle
          /\ \A j \in DOMAIN pool[c] : q \in pool[c][j].by => j = i
      BY <2>0, <2>1 DEF Waiting
    <3>. QED  BY <1>1, <1>5, <3>1, <3>2
  <2>2. ASSUME NEW q \in Run, run'[q].pc = "wait"
        PROVE  \E c \in Chain : \E i \in DOMAIN pool[c] : q \in pool[c][i].by
    <3>1. q # p => run[q].pc = "wait"
      BY <1>5, <2>2
    <3>2. run'[p] = Begun(s, calm)
      BY <1>1
    <3>3. q # p
      BY <1>4, <2>2, <3>2
    <3>. QED  BY <2>0, <3>1, <3>3 DEF Waiting
  <2>3. pool' = pool
    BY <1>1
  <2>. QED  BY <2>1, <2>2, <2>3 DEF Waiting
<1>8. run' = [q \in Run |-> run'[q]]
  BY <1>1
<1>9. starts' \in 0 .. MaxStarts /\ faults' \in 0 .. MaxFaults
  BY <1>1, DeployAssumption DEF DeployInv
<1>. QED  BY <1>1, <1>6, <1>7, <1>8, <1>9 DEF DeployInv

-----------------------------------------------------------------------------
(* The invariant holds, and with it what the scripts promise.              *)

LEMMA DeployInit == Init => DeployInv
<1>. SUFFICES ASSUME Init PROVE DeployInv
  OBVIOUS
<1>. DEFINE l == [code |-> {}, owner |-> "none", mpcAbiReEncode |-> FALSE,
                  miner |-> FALSE, oracle |-> NoOracle,
                  fees |-> {}, oracles |-> <<>>, factory |-> NoOracle, apps |-> {}]
<1>1. /\ ledger = [c \in Chain |-> l] /\ pool = [c \in Chain |-> <<>>]
      /\ config = NotRecorded /\ run = [p \in Run |-> Idle] /\ starts = 0 /\ faults = 0
  BY DEF Init
<1>2. l \in LedgerSet
  BY DEF LedgerSet, NoOracle
<1>3. \A c \in Chain : LedgerOK(c, l)
  BY <1>2 DEF LedgerOK, NoOracle
<1>4. \A p \in Run : run[p].pc = "idle" /\ RunSound(run[p], ledger, pool)
  <2>. DEFINE r == [Idle EXCEPT !.calm = FALSE, !.outcome = "none"]
  <2>1. /\ Idle \in RunSet /\ Idle.pc = "idle" /\ Idle.snapshot = NotRecorded
        /\ Idle.todo = r.todo /\ Idle.done = r.done /\ Idle.oracle = r.oracle
    <3>1. NotRecorded \in ConfigSet /\ [c \in Chain |-> NoOracle] \in [Chain -> Nat]
      BY DEF NotRecorded, ConfigSet, NoOracle
    <3>2. {} \in SUBSET StepSet /\ <<>> \in Seq(StepSet)
      OBVIOUS
    <3>. QED  BY <3>1, <3>2 DEF Idle, RunSet
  <2>2. \A c \in Chain : ledger[c] \in LedgerSet
    BY <1>1, <1>2
  <2>3. RunSound(Idle, ledger, pool) /\ Idle.pc = "idle"
    <3>1. RunSound(r, ledger, pool)
      BY <2>2, IdleSound
    <3>. HIDE DEF r
    <3>. QED  BY <2>1, <3>1, NothingRecorded, SameSteps
  <2>. QED  BY <1>1, <2>3
<1>5. Waiting
  BY <1>1, <1>4 DEF Waiting
<1>6. starts \in 0 .. MaxStarts /\ faults \in 0 .. MaxFaults
  BY <1>1, DeployAssumption
<1>7. /\ pool \in [Chain -> Seq(TxSet)]
      /\ \A c \in Chain : \A i \in DOMAIN pool[c] : TxSound(c, pool[c][i], ledger[c])
  BY <1>1
<1>8. /\ ledger = [c \in Chain |-> ledger[c]] /\ run = [p \in Run |-> run[p]]
      /\ \A c \in Chain : LedgerOK(c, ledger[c])
  <2>. HIDE DEF l
  <2>. QED  BY <1>1, <1>3
<1>9. Usable(config, ledger, pool)
  BY <1>1, NothingRecorded
<1>. QED  BY <1>4, <1>5, <1>6, <1>7, <1>8, <1>9 DEF DeployInv

LEMMA DeployStep == DeployInv /\ [Next]_vars => DeployInv'
<1>. SUFFICES ASSUME DeployInv, [Next]_vars PROVE DeployInv'
  OBVIOUS
<1>1. ASSUME NEW p \in Run, NEW s \in Scripts, Start(p, s) PROVE DeployInv'
  BY <1>1, StartKeeps
<1>2. ASSUME NEW p \in Run, Work(p) PROVE DeployInv'
  BY <1>2, ReadConfigKeeps, LookKeeps, InspectKeeps, ChooseOracleKeeps, RecordKeeps,
     SendKeeps, SendThrowsKeeps, UnderpricedKeeps, FinishKeeps DEF Work
<1>3. ASSUME NEW p \in Run, GiveUp(p) PROVE DeployInv'
  BY <1>3, GiveUpKeeps
<1>4. ASSUME NEW c \in Chain, Mine(c) PROVE DeployInv'
  BY <1>4, MineKeeps
<1>5. ASSUME NEW c \in Chain, MineDeadFeed(c) PROVE DeployInv'
  BY <1>5, MineDeadFeedKeeps
<1>6. CASE UNCHANGED vars
  <2>1. UNCHANGED <<ledger, pool, config, run, starts, faults>>
    BY <1>6 DEF vars
  <2>2. Waiting'
    <3>1. Waiting
      BY DEF DeployInv
    <3>. QED  BY <2>1, <3>1 DEF Waiting
  <2>. QED  BY <2>1, <2>2 DEF DeployInv
<1>. QED  BY <1>1, <1>2, <1>3, <1>4, <1>5, <1>6 DEF Next

\* Whatever scripts are started on whatever terminals, in any order, killed at
\* any await and run again: no script does a step before what the step depends
\* on, and what a script, the file or a pending transaction relies on is there.
THEOREM DeployInvariant == Spec => []DeployInv
<1>1. Init => DeployInv
  BY DeployInit
<1>2. DeployInv /\ [Next]_vars => DeployInv'
  BY DeployStep
<1>. QED  BY <1>1, <1>2, PTL DEF Spec

\* Types; and an oracle that is wired, recorded or in a script's hands is one of
\* its chain, and a script that waits has its transaction still pending.
THEOREM DeployTyped == Spec => []DeployTypeOK
<1>1. DeployInv => DeployTypeOK
  <2>. SUFFICES ASSUME DeployInv PROVE DeployTypeOK
    OBVIOUS
  <2>1. ASSUME NEW c \in Chain
        PROVE  /\ ledger[c].code \subseteq {"codec", "feeManager", "inbox"}
               /\ ledger[c].owner \in {"none", "deployer"}
               /\ ledger[c].mpcAbiReEncode \in BOOLEAN
               /\ ledger[c].fees \subseteq FeePair
               /\ ledger[c].oracle \in 0 .. Len(ledger[c].oracles)
               /\ ledger[c].factory \in 0 .. Len(ledger[c].oracles)
    <3>1. LedgerOK(c, ledger[c])
      BY DEF DeployInv
    <3>2. ledger[c] \in LedgerSet /\ Len(ledger[c].oracles) \in Nat
      BY <3>1, Lengths DEF LedgerOK
    <3>. QED  BY <3>1, <3>2 DEF LedgerOK, LedgerSet
  <2>2. ASSUME NEW c \in Chain PROVE config[c].oracle \in 0 .. Len(ledger[c].oracles)
    <3>1. Usable(config, ledger, pool) /\ LedgerOK(c, ledger[c])
      BY DEF DeployInv
    <3>2. Len(ledger[c].oracles) \in Nat /\ config[c].oracle \in Nat
      BY <3>1, Lengths DEF LedgerOK, Usable, ConfigSet
    <3>. QED  BY <3>1, <3>2 DEF Usable, Good, NoOracle
  <2>3. ASSUME NEW c \in Chain, NEW i \in DOMAIN pool[c]
        PROVE  pool[c][i].step.chain = c /\ pool[c][i].by \subseteq Run
    <3>1. pool[c] \in Seq(TxSet) /\ TxSound(c, pool[c][i], ledger[c])
      BY DEF DeployInv
    <3>2. pool[c][i] \in TxSet
      BY <3>1
    <3>. QED  BY <3>1, <3>2 DEF TxSound, TxSet
  <2>4. ASSUME NEW p \in Run
        PROVE  /\ run[p].pc \in {"idle", "ready", "send", "wait"}
               /\ run[p].outcome \in {"none", "done", "failed", "refused"}
               /\ \A c \in Chain : run[p].oracle[c] \in 0 .. Len(ledger[c].oracles)
    <3>1. RunSound(run[p], ledger, pool) /\ run[p] \in RunSet
      BY RunIs
    <3>2. \A c \in Chain : Len(ledger[c].oracles) \in Nat /\ run[p].oracle[c] \in Nat
      BY <3>1, RunIs, Lengths, RunSteps
    <3>. QED  BY <3>1, <3>2 DEF RunSound, RunSet
  <2>5. \A p \in Run : run[p].pc = "wait" =>
          \E c \in Chain : \E i \in DOMAIN pool[c] : p \in pool[c][i].by
    BY DEF DeployInv, Waiting
  <2>6. starts \in 0 .. MaxStarts /\ faults \in 0 .. MaxFaults
    BY DEF DeployInv
  <2>. QED  BY <2>1, <2>2, <2>3, <2>4, <2>5, <2>6 DEF DeployTypeOK
<1>. QED  BY <1>1, DeployInvariant, PTL

\* Wherever an inbox is, its fee manager and its owner are too, and the codec if
\* it was initialized with one, as on COTI: a script finds each there, or made it
\* before, and nothing is undone.  deploy-inbox.ts on COTI would make an inbox
\* without a codec; it is for the source chain.
THEOREM DependenciesHold ==
  ASSUME InboxAtSource
  PROVE  Spec => []DependenciesInPlace
<1>1. DeployInv => DependenciesInPlace
  BY DEF DeployInv, LedgerOK, DependenciesInPlace, NeedsCodec
<1>. QED  BY <1>1, DeployInvariant, PTL

\* A step a script has behind it is in effect, or on its way where the script
\* does not wait, though no status is read of some receipts.
THEOREM BehindHolds == Spec => []BehindIsInEffect
<1>1. DeployInv => BehindIsInEffect
  <2>. SUFFICES ASSUME DeployInv, NEW p \in Run, NEW step \in run[p].done
                PROVE  InEffect(p, step)
    BY DEF BehindIsInEffect
  <2>1. step \in StepSet /\ step.chain \in Chain
    BY RunIs, RunSteps
  <2>2. InForce(ledger[step.chain], pool[step.chain], run[p].oracle[step.chain], step)
    BY RunIs DEF RunSound
  <2>3. InQueue(pool[step.chain], step) => Pending(step)
    BY DEF InQueue, Pending
  <2>. QED  BY <2>2, <2>3 DEF InForce, InEffect
<1>. QED  BY <1>1, DeployInvariant, PTL

\* What deployConfig.json names can be used, whoever wrote it from whatever it
\* had read before.
THEOREM RecordedHolds == Spec => []RecordedIsUsable
<1>1. DeployInv => RecordedIsUsable
  <2>. SUFFICES ASSUME DeployInv, NEW c \in Chain
                PROVE  /\ config[c].oracle # NoOracle => Priced(c, config[c].oracle)
                       /\ config[c].inbox =>
                            /\ "inbox" \in ledger[c].code
                            /\ ledger[c].miner
                            /\ ledger[c].fees # {}
                            /\ config[c].oracle # NoOracle
                            /\ \/ ledger[c].oracle # NoOracle
                               \/ Pending(Step(c, "setPriceOracle", "preset"))
    BY DEF RecordedIsUsable
  <2>1. Usable(config, ledger, pool)
    BY DEF DeployInv
  <2>2. InQueue(pool[c], Preset(c)) => Pending(Step(c, "setPriceOracle", "preset"))
    BY StepFields DEF InQueue, Pending, Preset
  <2>. QED  BY <2>1, <2>2 DEF Usable, Good, Priced
<1>. QED  BY <1>1, DeployInvariant, PTL

-----------------------------------------------------------------------------
(* What an oracle prices.                                                  *)

\* The token of a leg, of the chain itself or of the one it is paired with.
Native(c, leg) == NativeToken(IF leg = "local" THEN c ELSE Paired(c))

\* Oracles of c that price nothing but the tokens of its pair.
PriceOwn(c, oracles) ==
  \A i \in DOMAIN oracles : \A leg \in Leg : oracles[i].legs[leg] \in {NoPrice, Native(c, leg)}

PairInv == \A c \in Chain : PriceOwn(c, ledger[c].oracles)

\* The table has the tokens of the pair, unless that is Avalanche's.
LEMMA TableNative ==
  ASSUME SourceChain # "avalancheFuji", NEW c \in Chain, NEW leg \in Leg
  PROVE  OracleUsdPricesForChain(c)[leg] = Native(c, leg)
<1>1. SourceChain \in {"sepolia", "localhost"} /\ CotiTestnet = "cotiTestnet"
  BY DeployAssumption DEF SourceTestnets, CotiTestnet
<1>2. c \in {SourceChain, CotiTestnet} /\ leg \in {"local", "remote"}
  BY DEF Chain, Leg
<1>. QED  BY <1>1, <1>2 DEF OracleUsdPricesForChain, NativeToken, Native, Paired

\* The record l with x in the place of oracle o.
WithOracle(l, o, x) == [l EXCEPT !.oracles = [@ EXCEPT ![o] = x]]

\* One oracle is changed.
LEMMA OneChanged ==
  ASSUME NEW c, NEW l \in LedgerSet, PriceOwn(c, l.oracles), NEW o \in 1 .. Len(l.oracles), NEW x,
         \A leg \in Leg : x.legs[leg] \in {NoPrice, Native(c, leg)}
  PROVE  PriceOwn(c, WithOracle(l, o, x).oracles)
<1>1. /\ l.oracles \in Seq(OracleSet) /\ Len(l.oracles) \in Nat
      /\ DOMAIN l.oracles = 1 .. Len(l.oracles)
  BY DEF LedgerSet
<1>. DEFINE seq == [l.oracles EXCEPT ![o] = x]
<1>2. [l EXCEPT !.oracles = seq].oracles = seq
  BY DEF LedgerSet
<1>3. /\ DOMAIN seq = DOMAIN l.oracles /\ seq[o] = x
      /\ \A i \in DOMAIN l.oracles \ {o} : seq[i] = l.oracles[i]
  BY <1>1
<1>. HIDE DEF seq
<1>4. PriceOwn(c, seq)
  BY <1>3 DEF PriceOwn
<1>. QED  BY <1>2, <1>4 DEF seq, WithOracle

LEMMA TakenPrices ==
  ASSUME SourceChain # "avalancheFuji", NEW c, NEW tx, NEW l, Takes(c, tx, l),
         PriceOwn(c, l.oracles)
  PROVE  PriceOwn(c, Effect(c, tx).oracles)
<1>. DEFINE o == tx.oracle
            op == tx.step.op
            what == tx.step.what
            old == l.oracles[o]
<1>1. /\ c \in Chain /\ l = ledger[c] /\ op \in Op \ Local /\ l \in LedgerSet
      /\ l.oracles \in Seq(OracleSet) /\ Len(l.oracles) \in Nat
      /\ DOMAIN l.oracles = 1 .. Len(l.oracles)
      /\ OfOracle(tx.step) => o \in 1 .. Len(l.oracles) /\ old \in OracleSet
      /\ op \in {"setPrice", "resetPrice"} => what \in Leg
  BY TakesFields DEF Takes, TxSound
<1>2. CASE OracleMade(tx.step)
  <2>. DEFINE seq == Append(l.oracles, Bare)
  <2>1. Effect(c, tx) = [l EXCEPT !.oracles = seq]
    BY <1>1, <1>2 DEF Effect, OracleMade
  <2>2. Bare \in OracleSet /\ \A leg \in Leg : Bare.legs[leg] = NoPrice
    BY DEF Bare, OracleSet, NoPrice
  <2>3. /\ DOMAIN seq = 1 .. Len(l.oracles) + 1 /\ seq[Len(l.oracles) + 1] = Bare
        /\ \A i \in 1 .. Len(l.oracles) : seq[i] = l.oracles[i]
    BY <1>1, <2>2
  <2>. HIDE DEF seq
  <2>4. \A i \in DOMAIN seq : i \in DOMAIN l.oracles \/ i = Len(l.oracles) + 1
    BY <1>1, <2>3
  <2>5. PriceOwn(c, seq)
    BY <1>1, <2>2, <2>3, <2>4 DEF PriceOwn
  <2>6. Effect(c, tx).oracles = seq
    BY <1>1, <2>1 DEF LedgerSet
  <2>. QED  BY <2>5, <2>6
<1>3. CASE op \in {"setToken", "setFeed"}
  <2>. DEFINE x == [old EXCEPT !.set = @ \cup {what}]
  <2>1. Effect(c, tx) = WithOracle(l, o, x)
    BY <1>1, <1>3 DEF Effect, OracleMade, WithOracle
  <2>2. o \in 1 .. Len(l.oracles) /\ old \in OracleSet
    BY <1>1, <1>3 DEF OfOracle
  <2>3. x.legs = old.legs
    BY <2>2 DEF OracleSet
  <2>4. \A leg \in Leg : old.legs[leg] \in {NoPrice, Native(c, leg)}
    BY <1>1, <2>2 DEF PriceOwn
  <2>. HIDE DEF x, old
  <2>. QED  BY ZenonT(60), <1>1, <2>1, <2>2, <2>3, <2>4, OneChanged
<1>4. CASE op \in {"setPrice", "resetPrice"}
  <2>. DEFINE x == [old EXCEPT !.legs[what] = OracleUsdPricesForChain(c)[what]]
  <2>1. Effect(c, tx) = WithOracle(l, o, x)
    BY <1>1, <1>4 DEF Effect, OracleMade, WithOracle
  <2>2. o \in 1 .. Len(l.oracles) /\ old \in OracleSet /\ what \in Leg
    BY <1>1, <1>4 DEF OfOracle
  <2>3. OracleUsdPricesForChain(c)[what] = Native(c, what)
    BY <1>1, <2>2, TableNative
  <2>4. \A leg \in Leg : old.legs[leg] \in {NoPrice, Native(c, leg)}
    BY <1>1, <2>2 DEF PriceOwn
  <2>5. \A leg \in Leg : x.legs[leg] \in {NoPrice, Native(c, leg)}
    BY <2>2, <2>3, <2>4 DEF OracleSet
  <2>. HIDE DEF x, old
  <2>. QED  BY ZenonT(60), <1>1, <2>1, <2>2, <2>5, OneChanged
<1>5. CASE op = "refreshCache"
  <2>. DEFINE x == [old EXCEPT !.legs = [leg \in Leg |-> IF leg \in old.set THEN Native(c, leg)
                                                       ELSE @[leg]]]
  <2>1. Effect(c, tx) = WithOracle(l, o, x)
    BY <1>1, <1>5 DEF Effect, OracleMade, Native, WithOracle
  <2>2. o \in 1 .. Len(l.oracles) /\ old \in OracleSet
    BY <1>1, <1>5 DEF OfOracle
  <2>4. \A leg \in Leg : old.legs[leg] \in {NoPrice, Native(c, leg)}
    BY <1>1, <2>2 DEF PriceOwn
  <2>5. \A leg \in Leg : x.legs[leg] \in {NoPrice, Native(c, leg)}
    BY <2>2, <2>4 DEF OracleSet
  <2>. HIDE DEF x, old
  <2>. QED  BY ZenonT(60), <1>1, <2>1, <2>2, <2>5, OneChanged
<1>6. CASE /\ ~OracleMade(tx.step)
           /\ op \notin {"setToken", "setFeed", "setPrice", "resetPrice", "refreshCache"}
  <2>1. Effect(c, tx).oracles = l.oracles
    <3>1. op \in {"create", "addMiner", "deploy", "setPriceOracle", "updateMinFeeConfigs",
                  "fund", "configure"}
      BY <1>1, <1>6 DEF Op, Local
    <3>. HIDE DEF old
    <3>. QED  BY <1>1, <1>6, <3>1 DEF Effect, LedgerSet, OracleMade
  <2>. QED  BY <2>1
<1>. QED  BY <1>2, <1>3, <1>4, <1>5, <1>6

LEMMA PairStep ==
  ASSUME SourceChain # "avalancheFuji", DeployInv, PairInv, [Next]_vars
  PROVE  PairInv'
<1>1. ASSUME NEW c \in Chain, Mine(c) PROVE PairInv'
  <2>. DEFINE tx == Head(pool[c])
              l == ledger[c]
              l2 == Effect(c, tx)
              ok == ~Reverts(c, tx)
  <2>1. /\ pool[c] # <<>>
        /\ ledger' = IF ok THEN [ledger EXCEPT ![c] = l2] ELSE ledger
    BY <1>1 DEF Mine
  <2>2. tx \in TxSet /\ TxSound(c, tx, l) /\ LedgerOK(c, l)
    BY <2>1, HeadTx DEF DeployInv
  <2>3. ok => Takes(c, tx, l)
    BY <2>2 DEF Takes
  <2>. HIDE DEF tx, l, ok
  <2>4. PriceOwn(c, l.oracles)
    BY DEF PairInv, l
  <2>5. ok => PriceOwn(c, l2.oracles)
    BY <2>3, <2>4, TakenPrices
  <2>. HIDE DEF l2
  <2>6. \A d \in Chain : ledger'[d] = ledger[d] \/ (ok /\ d = c /\ ledger'[d] = l2)
    BY <2>1 DEF DeployInv
  <2>. QED  BY <2>5, <2>6 DEF PairInv
<1>2. CASE UNCHANGED ledger
  BY <1>2 DEF PairInv
<1>3. ASSUME NEW p \in Run, Work(p) PROVE UNCHANGED ledger
  BY <1>3 DEF Work, ReadConfig, Look, Inspect, ChooseOracle, Record, Send, SendThrows,
       Underpriced, Finish
<1>4. ASSUME NEW p \in Run, GiveUp(p) PROVE UNCHANGED ledger
  BY <1>4 DEF GiveUp
<1>5. ASSUME NEW p \in Run, NEW s \in Scripts, Start(p, s) PROVE UNCHANGED ledger
  BY <1>5 DEF Start
<1>6. ASSUME NEW c \in Chain, MineDeadFeed(c) PROVE UNCHANGED ledger
  BY <1>6 DEF MineDeadFeed
<1>7. CASE UNCHANGED vars
  BY <1>2, <1>7 DEF vars
<1>. QED  BY <1>1, <1>2, <1>3, <1>4, <1>5, <1>6, <1>7 DEF Next

\* An inbox is wired to prices of its own pair's tokens, each on its own leg,
\* whether the deployer, a feed or another script's oracle gave them: for every
\* pair but Avalanche's, where COTI's remote leg is a price of another token.
THEOREM LegsPriceHolds ==
  ASSUME SourceChain # "avalancheFuji"
  PROVE  Spec => []LegsPricePair
<1>1. Init => PairInv
  <2>. SUFFICES ASSUME Init, NEW c \in Chain PROVE PriceOwn(c, ledger[c].oracles)
    BY DEF PairInv
  <2>1. ledger[c].oracles = <<>>
    BY DEF Init
  <2>. QED  BY <2>1 DEF PriceOwn
<1>2. PairInv /\ DeployInv /\ [Next]_vars => PairInv'
  BY PairStep
<1>3. PairInv /\ DeployInv => LegsPricePair
  <2>. SUFFICES ASSUME PairInv, DeployInv, NEW c \in Chain, ledger[c].oracle # NoOracle
                PROVE  ledger[c].oracles[ledger[c].oracle].legs =
                         [local |-> NativeToken(c), remote |-> NativeToken(Paired(c))]
    BY DEF LegsPricePair
  <2>. DEFINE l == ledger[c]
              legs == l.oracles[l.oracle].legs
  <2>1. l \in LedgerSet /\ Good(l, l.oracle)
    BY DEF DeployInv, LedgerOK
  <2>2. l.oracles[l.oracle] \in OracleSet /\ l.oracle \in DOMAIN l.oracles
    BY <2>1 DEF LedgerSet, Good
  <2>3. \A leg \in Leg : legs[leg] = Native(c, leg)
    BY <2>1, <2>2 DEF PairInv, PriceOwn, Good
  <2>4. legs = [leg \in Leg |-> legs[leg]]
    BY <2>2 DEF OracleSet
  <2>. HIDE DEF legs
  <2>5. legs = [local |-> NativeToken(c), remote |-> NativeToken(Paired(c))]
    <3>1. /\ legs = [leg \in {"local", "remote"} |-> legs[leg]]
          /\ legs["local"] = NativeToken(c) /\ legs["remote"] = NativeToken(Paired(c))
      BY <2>3, <2>4 DEF Leg, Native
    <3>. QED  BY <3>1
  <2>. QED  BY <2>5 DEF legs
<1>. QED  BY <1>1, <1>2, <1>3, DeployInvariant, PTL DEF Spec

-----------------------------------------------------------------------------
(* A script that is alone.                                                 *)

\* What a script on COTI would not wait for, or would choose, only the other
\* chain has.
Quiet(step) == ~Awaited(step) \/ step.op = "choose" => step.chain = SourceChain

QuietRun(r) == \A step \in Elements(r.todo) : Quiet(step)

\* The inbox will take fees that are pending, and of an oracle nothing but its
\* wiring is pending with nobody to wait for it.
Tame(tx) ==
  /\ tx.step.op = "updateMinFeeConfigs" =>
       \A pair \in tx.fees, leg \in Leg : RequireValidFeeConfig(pair[leg])
  /\ tx.step.what = "preset" => tx.step.op = "setPriceOracle"

\* Nothing is under way but p and what p sent.
Alone(p, R, P) ==
  /\ \A q \in Run \ {p} : R[q].pc = "idle"
  /\ \A c \in Chain : \A i \in DOMAIN P[c] :
       p \in P[c][i].by \/ (~Awaited(P[c][i].step) /\ c = SourceChain)

\* A script finds what it looked at as it was, and its feeds were up.
Undisturbed(r, L) ==
  LET h == Head(r.todo)
  IN  /\ r.pc = "send" /\ h.op = "create" => h.what \notin L[h.chain].code
      /\ r.pc \in {"send", "wait"} /\ h.op = "addMiner" => ~L[h.chain].miner
      /\ \A step \in r.done : step.op = "refreshCache" =>
           \A leg \in FeedLegs(step.chain) :
             L[step.chain].oracles[r.oracle[step.chain]].legs[leg] # NoPrice

CalmSound(p, R, L, P) ==
  R[p].calm =>
    /\ R[p].outcome # "failed"
    /\ R[p].pc # "idle" => Alone(p, R, P) /\ Undisturbed(R[p], L)

CalmInv ==
  /\ \A c \in Chain : \A i \in DOMAIN pool[c] : Tame(pool[c][i])
  /\ \A p \in Run : QuietRun(run[p]) /\ CalmSound(p, run, ledger, pool)

\* A part of a script that configures and chooses on the source chain only.
QuietPart(seq) ==
  /\ seq \in Seq(StepSet)
  /\ \A step \in Elements(seq) : step.op \in {"configure", "choose"} => step.chain = SourceChain

LEMMA QuietThen ==
  ASSUME NEW s, NEW t, QuietPart(s), QuietPart(t)
  PROVE  QuietPart(s \o t)
<1>1. /\ s \in Seq(StepSet) /\ t \in Seq(StepSet)
      /\ Len(s) \in Nat /\ DOMAIN s = 1 .. Len(s)
      /\ Len(t) \in Nat /\ DOMAIN t = 1 .. Len(t)
  BY DEF QuietPart
<1>. DEFINE u == s \o t
<1>2. /\ u \in Seq(StepSet)
      /\ DOMAIN u = 1 .. Len(s) + Len(t)
      /\ \A i \in 1 .. Len(s) : u[i] = s[i]
      /\ \A i \in 1 .. Len(t) : u[Len(s) + i] = t[i]
  BY <1>1
<1>. HIDE DEF u
<1>3. ASSUME NEW k \in DOMAIN u PROVE u[k] \in Elements(s) \cup Elements(t)
  <2>1. CASE k \in 1 .. Len(s)
    BY <1>1, <1>2, <2>1 DEF Elements
  <2>2. CASE k \notin 1 .. Len(s)
    <3>1. k - Len(s) \in 1 .. Len(t) /\ k = Len(s) + (k - Len(s))
      BY <1>1, <1>2, <2>2
    <3>2. u[k] = t[k - Len(s)]
      BY <1>2, <3>1
    <3>. QED  BY <1>1, <3>1, <3>2 DEF Elements
  <2>. QED  BY <2>1, <2>2
<1>4. \A x \in Elements(u) : x \in Elements(s) \cup Elements(t)
  BY <1>3 DEF Elements
<1>. QED  BY <1>2, <1>4 DEF QuietPart, u

LEMMA QuietEmpty == QuietPart(<<>>)
BY DEF QuietPart, Elements

LEMMA QuietOne ==
  ASSUME NEW step \in StepSet, step.op \in {"configure", "choose"} => step.chain = SourceChain
  PROVE  QuietPart(<<step>>)
BY DEF QuietPart, Elements

LEMMA QuietFresh ==
  ASSUME NEW seq, NEW E, Part({}, seq, E), Fresh(E), \A x \in E : x.op # "configure"
  PROVE  QuietPart(seq)
BY DEF QuietPart, Part, Fresh

\* The blocks that scripts share.
LEMMA BlocksQuiet ==
  ASSUME NEW c \in Chain
  PROVE  /\ \A b \in BOOLEAN :
              (NeedsCodec(c) => b) => QuietPart(DeployDeterministicInbox(c, b))
         /\ QuietPart(EnsureMinerRegistered(c))
         /\ QuietPart(ConfigureTestnetInboxMinFees(c))
         /\ QuietPart(SetPriceOracle(c, "inbox")) /\ QuietPart(SetPriceOracle(c, "factory"))
         /\ \A b \in BOOLEAN : QuietPart(When(b, <<Step(c, "deploy", "MpcExecutor")>>))
<1>1. /\ {"addMiner", "updateMinFeeConfigs", "setPriceOracle", "deploy"} \subseteq Op
      /\ {"miner", "fees", "inbox", "factory", "MpcExecutor"} \subseteq What
  BY DEF Op, What
<1>2. ASSUME NEW b \in BOOLEAN, NeedsCodec(c) => b
      PROVE  QuietPart(DeployDeterministicInbox(c, b))
  <2>1. \A x \in InboxSteps(c, b) : x.op # "configure"
    BY StepFields DEF InboxSteps
  <2>. QED  BY <1>2, <2>1, FreshEmpty, InboxPart, InboxStepsOn, QuietFresh DEF OnChain
<1>3. /\ QuietPart(EnsureMinerRegistered(c)) /\ QuietPart(ConfigureTestnetInboxMinFees(c))
      /\ QuietPart(SetPriceOracle(c, "inbox")) /\ QuietPart(SetPriceOracle(c, "factory"))
      /\ QuietPart(<<Step(c, "deploy", "MpcExecutor")>>)
  BY <1>1, StepFields, QuietOne DEF EnsureMinerRegistered, ConfigureTestnetInboxMinFees,
     SetPriceOracle
<1>. QED  BY <1>2, <1>3, QuietEmpty DEF When

LEMMA NewOracleQuiet ==
  ASSUME NEW s \in Script
  PROVE  QuietPart(NewOracle(s))
<1>1. \A x \in NewOracleSteps(s) : x.op # "configure"
  BY StepFields DEF NewOracleSteps, TestnetSteps, ChainlinkSteps, FeedSteps, RefreshSteps,
     UsdcSteps, Prices, Legs
<1>. QED  BY <1>1, NewOraclePart, QuietFresh DEF OnChain

LEMMA FullOfQuiet ==
  ASSUME NEW c \in Chain
  PROVE  QuietPart(FullScriptOf(c))
<1>1. \A x \in FullSteps(c) : x.op # "configure"
  BY StepFields DEF FullSteps, InboxSteps, ExecutorSteps, TestnetSteps, Prices, Legs, Wire,
     Miner, Fees
<1>. QED  BY <1>1, FreshEmpty, FullPart, FullStepsOn, QuietFresh DEF OnChain

LEMMA ApplicationsQuiet ==
  ASSUME NEW s
  PROVE  QuietPart(Applications(s))
<1>1. /\ SourceChain \in Chain /\ {"deploy", "fund", "configure"} \subseteq Op
      /\ {"Millionaire", "MpcAdder", "PErc20"} \subseteq What
  BY DEF Chain, Op, What
<1>2. ASSUME NEW what \in {"Millionaire", "MpcAdder", "PErc20"}
      PROVE  /\ QuietPart(App(what)) /\ QuietPart(Fund(what)) /\ QuietPart(Configure(what))
             /\ QuietPart(App(what) \o Configure(what))
             /\ QuietPart(App(what) \o Fund(what) \o Configure(what))
  <2>1. QuietPart(App(what)) /\ QuietPart(Fund(what)) /\ QuietPart(Configure(what))
    BY <1>1, StepFields, QuietOne DEF App, Fund, Configure
  <2>. QED  BY <2>1, QuietThen
<1>. DEFINE M == When("ONLY_MPC_ADDER" \notin s.env, App("Millionaire") \o Configure("Millionaire"))
            A == App("MpcAdder") \o Fund("MpcAdder") \o Configure("MpcAdder")
            P == When("ONLY_MPC_ADDER" \notin s.env,
                      App("PErc20") \o Fund("PErc20") \o Configure("PErc20"))
<1>3. QuietPart(M) /\ QuietPart(P)
  BY <1>2, QuietEmpty DEF When
<1>4. QuietPart(App("MpcAdder")) /\ QuietPart(Fund("MpcAdder")) /\ QuietPart(Configure("MpcAdder"))
  BY <1>2
<1>. HIDE DEF M, P
<1>5. QuietPart(M \o App("MpcAdder") \o Fund("MpcAdder") \o Configure("MpcAdder") \o P)
  <2>1. QuietPart(M \o App("MpcAdder"))
    BY <1>3, <1>4, QuietThen
  <2>2. QuietPart(M \o App("MpcAdder") \o Fund("MpcAdder"))
    BY <1>4, <2>1, QuietThen
  <2>3. QuietPart(M \o App("MpcAdder") \o Fund("MpcAdder") \o Configure("MpcAdder"))
    BY <1>4, <2>2, QuietThen
  <2>. QED  BY <1>3, <2>3, QuietThen
<1>. QED  BY <1>5 DEF Applications, M, P

\* With deploy-inbox.ts on the source chain only, as it is run, no script
\* chooses an oracle on COTI, or writes there without waiting.
LEMMA ProgramQuiet ==
  ASSUME NEW s \in Script, s.name = "inbox" => s.chain = SourceChain
  PROVE  QuietPart(Program(s))
<1>. DEFINE c == s.chain
<1>1. /\ c \in Chain /\ SourceChain \in Chain /\ CotiTestnet \in Chain
      /\ {"readConfig", "record", "choose", "deploy"} \subseteq Op
      /\ {"inbox", "oracle", "full", "MpcExecutor", "PErc20Coti"} \subseteq What
  BY DEF Script, Chain, Op, What
<1>. HIDE DEF c
<1>2. CASE s.name = "inbox"
  <2>. DEFINE q == <<Step(c, "readConfig", "inbox")>>
              i == DeployDeterministicInbox(c, FALSE)
              m == EnsureMinerRegistered(c)
              o == <<Step(c, "choose", "oracle")>>
              f == ConfigureTestnetInboxMinFees(c)
              w == <<Step(c, "record", "inbox")>>
  <2>1. c = SourceChain /\ ~NeedsCodec(c)
    BY <1>2, DeployAssumption DEF c, NeedsCodec, SourceTestnets, CotiTestnet
  <2>2. QuietPart(q) /\ QuietPart(o) /\ QuietPart(w)
    BY <1>1, <2>1, StepFields, QuietOne
  <2>3. QuietPart(i) /\ QuietPart(m) /\ QuietPart(f)
    BY <1>1, <2>1, BlocksQuiet
  <2>4. Program(s) = q \o i \o m \o o \o f \o w
    BY <1>2 DEF Program, InboxScript, c
  <2>. HIDE DEF q, i, m, o, f, w
  <2>5. QuietPart(q \o i)
    BY <2>2, <2>3, QuietThen
  <2>6. QuietPart(q \o i \o m)
    BY <2>3, <2>5, QuietThen
  <2>7. QuietPart(q \o i \o m \o o)
    BY <2>2, <2>6, QuietThen
  <2>8. QuietPart(q \o i \o m \o o \o f)
    BY <2>3, <2>7, QuietThen
  <2>. QED  BY <2>2, <2>4, <2>8, QuietThen
<1>3. CASE s.name = "executor"
  <2>. DEFINE i == DeployDeterministicInbox(c, TRUE)
              x == <<Step(c, "deploy", "MpcExecutor")>>
              m == EnsureMinerRegistered(c)
  <2>1. QuietPart(i) /\ QuietPart(m)
    BY <1>1, BlocksQuiet
  <2>2. QuietPart(x)
    BY <1>1, StepFields, QuietOne
  <2>3. Program(s) = i \o x \o m
    BY <1>3 DEF Program, ExecutorScript, c
  <2>. HIDE DEF i, x, m
  <2>. QED  BY <2>1, <2>2, <2>3, QuietThen
<1>4. CASE s.name = "full"
  <2>. DEFINE f == FullScriptOf(SourceChain)
              g == FullScriptOf(CotiTestnet)
              h == Applications(s)
              x == <<Step(CotiTestnet, "deploy", "PErc20Coti")>>
              q == <<Step(SourceChain, "readConfig", "full")>>
              w == <<Step(SourceChain, "record", "full")>>
              t == <<Step(CotiTestnet, "deploy", "PErc20Coti"),
                     Step(SourceChain, "readConfig", "full"),
                     Step(SourceChain, "record", "full")>>
  <2>1. QuietPart(f) /\ QuietPart(g) /\ QuietPart(h)
    BY <1>1, FullOfQuiet, ApplicationsQuiet
  <2>2. QuietPart(x) /\ QuietPart(q) /\ QuietPart(w)
    BY <1>1, StepFields, QuietOne
  <2>3. t = x \o q \o w
    OBVIOUS
  <2>4. Program(s) = f \o g \o h \o t
    BY <1>4 DEF Program, FullScript
  <2>. HIDE DEF f, g, h, x, q, w, t
  <2>5. QuietPart(t)
    BY <2>2, <2>3, QuietThen
  <2>6. QuietPart(f \o g) /\ QuietPart(f \o g \o h)
    BY <2>1, QuietThen
  <2>. QED  BY <2>4, <2>5, <2>6, QuietThen
<1>5. CASE s.name \in {"oracle", "migrate"}
  <2>. DEFINE n == NewOracle(s)
              I == SetPriceOracle(c, "inbox")
              i == When("INBOX_ADDRESS" \in s.env, I)
              f == When("FACTORY_ADDRESS" \in s.env, SetPriceOracle(c, "factory"))
              q == <<Step(c, "readConfig", "oracle")>>
              w == <<Step(c, "record", "oracle")>>
              t == <<Step(c, "readConfig", "oracle"), Step(c, "record", "oracle")>>
  <2>1. QuietPart(n) /\ QuietPart(I) /\ QuietPart(i) /\ QuietPart(f)
    BY <1>1, BlocksQuiet, NewOracleQuiet, QuietEmpty DEF When
  <2>2. QuietPart(q) /\ QuietPart(w)
    BY <1>1, StepFields, QuietOne
  <2>3. t = q \o w
    OBVIOUS
  <2>4. /\ s.name = "oracle" => Program(s) = n \o i \o f \o t
        /\ s.name = "migrate" => Program(s) = n \o I \o f
    BY <1>5 DEF Program, OracleScript, MigrateScript, c
  <2>. HIDE DEF n, I, i, f, q, w, t
  <2>5. QuietPart(t)
    BY <2>2, <2>3, QuietThen
  <2>6. QuietPart(n \o i \o f) /\ QuietPart(n \o I \o f)
    BY <2>1, QuietThen
  <2>7. QuietPart(n \o i \o f \o t)
    BY <2>5, <2>6, QuietThen
  <2>. QED  BY <1>5, <2>4, <2>6, <2>7
<1>. QED  BY <1>2, <1>3, <1>4, <1>5 DEF Script

\* So each of its steps is quiet.
LEMMA ProgramSteps ==
  ASSUME NEW s \in Scripts, s.name = "inbox" => s.chain = SourceChain
  PROVE  \A step \in Elements(Program(s)) : Quiet(step)
<1>1. Planned(Program(s)) /\ QuietPart(Program(s))
  BY DeployAssumption, ProgramPlanned, ProgramQuiet
<1>2. ASSUME NEW step \in Elements(Program(s)) PROVE step.what # "preset"
  <2>1. PICK k \in DOMAIN Program(s) : step = Program(s)[k]
    BY <1>2 DEF Elements
  <2>2. \E B : Fits(B, step)
    BY <1>1, <2>1 DEF Planned, Orderly
  <2>. QED  BY <1>1, <1>2, <2>2 DEF Fits, Planned
<1>. QED  BY <1>1, <1>2 DEF QuietPart, Quiet, Awaited

\* A script that ended, or has one step behind it, keeps quiet.
LEMMA QuietGoes ==
  ASSUME NEW r, NEW L, NEW P, RunSound(r, L, P), QuietRun(r)
  PROVE  /\ r.todo # <<>> => Quiet(Head(r.todo))
         /\ r.todo # <<>> => \A s : s.todo = Tail(r.todo) => QuietRun(s)
         /\ \A s : s.todo = <<>> => QuietRun(s)
<1>1. r.todo # <<>> => Elements(r.todo) = {Head(r.todo)} \cup Elements(Tail(r.todo))
  BY AtHead
<1>2. Elements(<<>>) = {}
  BY DEF Elements
<1>. QED  BY <1>1, <1>2 DEF QuietRun

LEMMA EndedFields ==
  ASSUME NEW p, NEW outcome
  PROVE  /\ Ended(p, outcome).pc = "idle" /\ Ended(p, outcome).todo = <<>>
         /\ Ended(p, outcome).calm = run[p].calm /\ Ended(p, outcome).outcome = outcome
BY DEF Ended, Idle

\* A script that has a step behind it finds what it found before.
LEMMA UndisturbedPast ==
  ASSUME NEW r, NEW s, NEW h, NEW L, Undisturbed(r, L), s.pc = "ready",
         s.done = r.done \cup {h}, s.oracle = r.oracle, h.op # "refreshCache"
  PROVE  Undisturbed(s, L)
BY DEF Undisturbed

\* What a script may rely on that has nobody beside it.
LEMMA CalmIs ==
  ASSUME CalmInv, NEW p \in Run, run[p].pc # "idle", run[p].calm
  PROVE  /\ run[p].outcome # "failed"
         /\ \A q \in Run \ {p} : run[q].pc = "idle"
         /\ \A c \in Chain : \A i \in DOMAIN pool[c] :
              p \in pool[c][i].by \/ (~Awaited(pool[c][i].step) /\ c = SourceChain)
         /\ Undisturbed(run[p], ledger)
BY DEF CalmInv, CalmSound, Alone

\* While a script works, one that is alone is that script.
LEMMA CalmOthers ==
  ASSUME DeployInv, CalmInv, NEW p \in Run, run[p].pc # "idle",
         NEW r, run' = [run EXCEPT ![p] = r], QuietRun(r),
         \A c \in Chain : \A i \in DOMAIN pool'[c] : Tame(pool'[c][i]),
         CalmSound(p, run', ledger', pool')
  PROVE  CalmInv'
<1>1. run'[p] = r /\ \A q \in Run \ {p} : run'[q] = run[q]
  BY DEF DeployInv
<1>2. ASSUME NEW q \in Run, q # p PROVE CalmSound(q, run', ledger', pool')
  <2>1. run'[q] = run[q]
    BY <1>1, <1>2
  <2>2. ~run[q].calm \/ run[q].pc = "idle"
    BY <1>2, CalmIs
  <2>3. run[q].calm => run[q].outcome # "failed"
    BY DEF CalmInv, CalmSound
  <2>. QED  BY <2>1, <2>2, <2>3 DEF CalmSound
<1>3. \A q \in Run : QuietRun(run'[q])
  BY <1>1 DEF CalmInv
<1>. QED  BY <1>2, <1>3 DEF CalmInv

\* A step of a script that nothing on the chains comes of.
LEMMA CalmAlone ==
  ASSUME DeployInv, CalmInv, NEW p \in Run, run[p].pc # "idle", UNCHANGED <<ledger, pool>>,
         NEW r, run' = [run EXCEPT ![p] = r], QuietRun(r), r.calm => run[p].calm,
         r.calm => r.outcome # "failed" /\ (r.pc # "idle" => Undisturbed(r, ledger))
  PROVE  CalmInv'
<1>1. run'[p] = r /\ \A q \in Run \ {p} : run'[q] = run[q]
  BY DEF DeployInv
<1>2. ledger' = ledger /\ pool' = pool
  OBVIOUS
<1>3. r.calm => Alone(p, run', pool')
  BY <1>1, <1>2, CalmIs DEF Alone
<1>4. CalmSound(p, run', ledger', pool')
  BY <1>1, <1>2, <1>3 DEF CalmSound
<1>5. \A c \in Chain : \A i \in DOMAIN pool'[c] : Tame(pool'[c][i])
  BY <1>2 DEF CalmInv
<1>. QED  BY <1>4, <1>5, CalmOthers

LEMMA CalmPast ==
  ASSUME DeployInv, CalmInv, NEW p \in Run, run[p].pc # "idle", run[p].todo # <<>>,
         Head(run[p].todo).op # "refreshCache", UNCHANGED <<ledger, pool>>,
         NEW r, run' = [run EXCEPT ![p] = r], r.pc = "ready", r.todo = Tail(run[p].todo),
         r.done = run[p].done \cup {Head(run[p].todo)}, r.oracle = run[p].oracle,
         r.calm = run[p].calm, r.outcome = run[p].outcome
  PROVE  CalmInv'
<1>1. RunSound(run[p], ledger, pool) /\ QuietRun(run[p])
  BY RunIs DEF CalmInv
<1>2. QuietRun(r)
  BY <1>1, QuietGoes
<1>3. ASSUME r.calm PROVE r.outcome # "failed" /\ Undisturbed(r, ledger)
  <2>1. run[p].outcome # "failed" /\ Undisturbed(run[p], ledger)
    BY <1>3, CalmIs
  <2>2. Undisturbed(r, ledger)
    BY <2>1, UndisturbedPast
  <2>. QED  BY <2>1, <2>2
<1>. QED  BY <1>2, <1>3, CalmAlone

LEMMA CalmEnds ==
  ASSUME DeployInv, CalmInv, NEW p \in Run, run[p].pc # "idle", UNCHANGED <<ledger, pool>>,
         NEW outcome, run' = [run EXCEPT ![p] = Ended(p, outcome)],
         run[p].calm => outcome # "failed"
  PROVE  CalmInv'
<1>. DEFINE r == Ended(p, outcome)
<1>1. r.pc = "idle" /\ r.todo = <<>> /\ r.calm = run[p].calm /\ r.outcome = outcome
  BY EndedFields
<1>. HIDE DEF r
<1>2. QuietRun(r)
  BY <1>1 DEF QuietRun, Elements
<1>3. run' = [run EXCEPT ![p] = r]
  BY DEF r
<1>. QED  BY <1>1, <1>2, <1>3, CalmAlone

-----------------------------------------------------------------------------
LEMMA ReadConfigCalm ==
  ASSUME DeployInv, CalmInv, NEW p \in Run, ReadConfig(p)
  PROVE  CalmInv'
<1>. DEFINE s == [run[p] EXCEPT !.snapshot = config]
<1>1. /\ run[p].pc = "ready" /\ run[p].todo # <<>> /\ Head(run[p].todo).op = "readConfig"
      /\ run' = [run EXCEPT ![p] = Past(s)] /\ UNCHANGED <<ledger, pool>>
  BY DEF ReadConfig, At, Becomes
<1>2. /\ s \in RunSet /\ s.todo = run[p].todo /\ s.done = run[p].done
      /\ s.oracle = run[p].oracle /\ s.calm = run[p].calm /\ s.outcome = run[p].outcome
  BY <1>1, RunIs DEF RunSet, Usable
<1>. HIDE DEF s
<1>3. /\ Past(s).pc = "ready" /\ Past(s).done = s.done \cup {Head(s.todo)}
      /\ Past(s).todo = Tail(s.todo) /\ Past(s).oracle = s.oracle
      /\ Past(s).calm = s.calm /\ Past(s).outcome = s.outcome
  BY <1>1, <1>2, PastFields
<1>. QED  BY <1>1, <1>2, <1>3, CalmPast

\* A script's first step, once it is behind.
LEMMA PastCalm ==
  ASSUME DeployInv, CalmInv, NEW p \in Run, run[p].pc # "idle", run[p].todo # <<>>,
         Head(run[p].todo).op # "refreshCache", UNCHANGED <<ledger, pool>>,
         run' = [run EXCEPT ![p] = Past(run[p])]
  PROVE  CalmInv'
<1>. DEFINE r == Past(run[p])
<1>1. run[p] \in RunSet
  BY RunIs
<1>2. /\ r.pc = "ready" /\ r.done = run[p].done \cup {Head(run[p].todo)}
      /\ r.todo = Tail(run[p].todo) /\ r.oracle = run[p].oracle
      /\ r.calm = run[p].calm /\ r.outcome = run[p].outcome
  BY <1>1, PastFields
<1>3. run' = [run EXCEPT ![p] = r]
  OBVIOUS
<1>. HIDE DEF r
<1>. QED  BY <1>2, <1>3, CalmPast

LEMMA RecordCalm ==
  ASSUME DeployInv, CalmInv, NEW p \in Run, Record(p)
  PROVE  CalmInv'
<1>1. /\ run[p].pc = "ready" /\ run[p].todo # <<>> /\ Head(run[p].todo).op = "record"
      /\ run' = [run EXCEPT ![p] = Past(run[p])] /\ UNCHANGED <<ledger, pool>>
  BY DEF Record, At, Becomes
<1>. QED  BY <1>1, PastCalm

LEMMA LookCalm ==
  ASSUME DeployInv, CalmInv, NEW p \in Run, Look(p)
  PROVE  CalmInv'
<1>1. /\ run[p].pc = "ready" /\ run[p].todo # <<>> /\ Head(run[p].todo).op \in Looking
      /\ run' = [run EXCEPT ![p] = IF There(p) THEN Past(run[p])
                                   ELSE [run[p] EXCEPT !.pc = "send"]]
      /\ UNCHANGED <<ledger, pool>>
  BY DEF Look, At, Becomes
<1>2. CASE There(p)
  BY <1>1, <1>2, PastCalm DEF Looking
<1>3. CASE ~There(p)
  <2>. DEFINE r == [run[p] EXCEPT !.pc = "send"]
  <2>1. /\ r.pc = "send" /\ r.todo = run[p].todo /\ r.done = run[p].done
        /\ r.oracle = run[p].oracle /\ r.calm = run[p].calm /\ r.outcome = run[p].outcome
    BY RunIs DEF RunSet
  <2>2. run' = [run EXCEPT ![p] = r]
    BY <1>1, <1>3
  <2>. HIDE DEF r
  <2>3. QuietRun(r)
    BY <2>1 DEF QuietRun, CalmInv
  <2>4. /\ Head(r.todo).op = "create" =>
             Head(r.todo).what \notin ledger[Head(r.todo).chain].code
        /\ Head(r.todo).op = "addMiner" => ~ledger[Head(r.todo).chain].miner
    BY <1>3, <2>1 DEF There, Now
  <2>5. ASSUME r.calm PROVE r.outcome # "failed" /\ Undisturbed(r, ledger)
    <3>1. run[p].outcome # "failed" /\ Undisturbed(run[p], ledger)
      BY <1>1, <2>1, <2>5, CalmIs
    <3>. QED  BY <2>1, <2>4, <3>1 DEF Undisturbed
  <2>. QED  BY <1>1, <2>1, <2>2, <2>3, <2>5, CalmAlone
<1>. QED  BY <1>2, <1>3

LEMMA FinishCalm ==
  ASSUME DeployInv, CalmInv, NEW p \in Run, Finish(p)
  PROVE  CalmInv'
<1>1. /\ run[p].pc = "ready" /\ run' = [run EXCEPT ![p] = Ended(p, "done")]
      /\ UNCHANGED <<ledger, pool>>
  BY DEF Finish, Becomes
<1>. QED  BY <1>1, CalmEnds

LEMMA UnderpricedCalm ==
  ASSUME DeployInv, CalmInv, NEW p \in Run, Underpriced(p)
  PROVE  CalmInv'
<1>1. /\ Sending(p) /\ pool[CotiTestnet] # <<>>
      /\ run' = [run EXCEPT ![p] = Ended(p, "failed")] /\ UNCHANGED <<ledger, pool>>
  BY DEF Underpriced, Becomes
<1>2. run[p].pc # "idle" /\ run[p].pc # "wait"
  BY <1>1 DEF Sending
<1>3. ASSUME run[p].calm PROVE FALSE
  <2>1. CotiTestnet \in Chain /\ CotiTestnet # SourceChain
    BY DeployAssumption DEF Chain, CotiTestnet, SourceTestnets
  <2>2. 1 \in DOMAIN pool[CotiTestnet]
    <3>1. pool[CotiTestnet] \in Seq(TxSet)
      BY <2>1 DEF DeployInv
    <3>. QED  BY <1>1, <3>1
  <2>3. p \in pool[CotiTestnet][1].by
    BY <1>2, <1>3, <2>1, <2>2, CalmIs
  <2>4. Waiting
    BY DEF DeployInv
  <2>. QED  BY <1>2, <2>1, <2>2, <2>3, <2>4 DEF Waiting
<1>. QED  BY <1>1, <1>2, <1>3, CalmEnds

\* Alone, a script finds the owner and the prices right.
LEMMA InspectCalm ==
  ASSUME DeployInv, CalmInv, NEW p \in Run, Inspect(p)
  PROVE  CalmInv'
<1>. DEFINE r == run[p]
            h == Head(r.todo)
            c == h.chain
            right == \/ h.what = "owner" /\ ledger[c].owner = "deployer"
                     \/ h.what = "legs" /\ Priced(c, r.oracle[c])
<1>1. /\ r.pc = "ready" /\ r.todo # <<>> /\ h.op = "inspect"
      /\ run' = [run EXCEPT ![p] = IF right THEN Past(r) ELSE Ended(p, "failed")]
      /\ UNCHANGED <<ledger, pool>>
  BY DEF Inspect, At, Becomes, Now
<1>2. RunSound(r, ledger, pool) /\ r \in RunSet
  BY RunIs
<1>3. h \in StepSet /\ c \in Chain /\ Fits(Behind(r), h)
  BY <1>1, <1>2, AtHead
<1>4. ASSUME NEW b \in Behind(r), b.chain = c PROVE InForce(ledger[c], pool[c], r.oracle[c], b)
  BY <1>2, <1>4 DEF RunSound, Behind
<1>5. ASSUME r.calm PROVE right
  <2>1. Undisturbed(r, ledger)
    BY <1>1, <1>5, CalmIs
  <2>2. CASE h.what = "owner"
    <3>. DEFINE b == Step(c, "create", "inbox")
    <3>1. b \in Behind(r) /\ b.op = "create" /\ b.what = "inbox" /\ b.chain = c
      BY <1>1, <1>3, <2>2, StepFields DEF Fits
    <3>. HIDE DEF b
    <3>2. "inbox" \in ledger[c].code
      BY <1>4, <3>1 DEF InForce
    <3>3. LedgerOK(c, ledger[c])
      BY <1>3 DEF DeployInv
    <3>. QED  BY <2>2, <3>2, <3>3 DEF LedgerOK
  <2>3. CASE h.what = "legs"
    <3>1. ASSUME NEW leg \in Leg PROVE ledger[c].oracles[r.oracle[c]].legs[leg] # NoPrice
      <4>1. PricedBy(Behind(r), c, leg)
        BY <1>1, <1>3, <2>3 DEF Fits
      <4>2. CASE Step(c, "setPrice", leg) \in Behind(r)
        <5>. DEFINE b == Step(c, "setPrice", leg)
        <5>1. b \in Behind(r) /\ b.op = "setPrice" /\ b.what = leg /\ b.chain = c
          BY <4>2, StepFields
        <5>. HIDE DEF b
        <5>. QED  BY <1>4, <5>1 DEF InForce
      <4>3. CASE leg \in FeedLegs(c) /\ Step(c, "refreshCache", "feeds") \in Behind(r)
        <5>. DEFINE b == Step(c, "refreshCache", "feeds")
        <5>1. b \in r.done /\ b.op = "refreshCache" /\ b.chain = c
          BY <4>3, StepFields DEF Behind
        <5>. HIDE DEF b
        <5>. QED  BY <2>1, <4>3, <5>1 DEF Undisturbed
      <4>. QED  BY <4>1, <4>2, <4>3 DEF PricedBy
    <3>. QED  BY <2>3, <3>1 DEF Priced
  <2>. QED  BY <1>1, <1>3, <2>2, <2>3 DEF Fits
<1>6. CASE right
  BY <1>1, <1>6, PastCalm
<1>7. CASE ~right
  <2>. HIDE DEF right
  <2>1. run' = [run EXCEPT ![p] = Ended(p, "failed")]
    BY <1>1, <1>7
  <2>. QED  BY <1>1, <1>5, <1>7, <2>1, CalmEnds
<1>. QED  BY <1>6, <1>7

\* The steps taken for a choice are of the chain it is made on, which a script
\* on COTI does not make one for.
LEMMA ChooseOracleCalm ==
  ASSUME DeployInv, CalmInv, NEW p \in Run, ChooseOracle(p)
  PROVE  CalmInv'
<1>. DEFINE r == run[p]
            c == Now(p).chain
            h == Head(r.todo)
            t == Tail(r.todo)
<1>1. /\ r.pc = "ready" /\ r.todo # <<>> /\ c \in Chain /\ h = Choose(c)
      /\ UNCHANGED <<ledger, pool>>
  BY ChoiceMade DEF Now
<1>2. PICK o, steps, E : /\ Makes(r, c, o, steps, E)
                         /\ run' = [run EXCEPT ![p] = Taken(r, c, o, steps)]
  BY ChoiceMade
<1>3. RunSound(r, ledger, pool) /\ r \in RunSet /\ QuietRun(r)
  BY RunIs DEF CalmInv
<1>4. /\ Elements(r.todo) = {h} \cup Elements(t) /\ t \in Seq(StepSet)
      /\ Fits(Behind(r), h)
  BY <1>1, <1>3, AtHead
<1>5. h.op = "choose" /\ c = SourceChain
  BY <1>1, <1>3, <1>4, NamedSteps DEF QuietRun, Quiet
<1>. DEFINE s == Taken(r, c, o, steps)
<1>6. /\ s.pc = "ready" /\ s.todo = steps \o t /\ s.done = r.done \cup {h}
      /\ s.calm = r.calm /\ s.outcome = r.outcome
      /\ \A d \in Chain \ {c} : s.oracle[d] = r.oracle[d]
  <2>1. /\ Past(r) \in RunSet /\ Past(r).pc = "ready" /\ Past(r).done = r.done \cup {h}
        /\ Past(r).oracle = r.oracle /\ Past(r).calm = r.calm /\ Past(r).outcome = r.outcome
    BY <1>1, <1>3, PastFields
  <2>2. Past(r).oracle \in [Chain -> Nat]
    BY <2>1 DEF RunSet
  <2>. HIDE DEF r, c, h, t
  <2>. QED  BY <2>1, <2>2 DEF Taken, RunSet, t
<1>7. /\ steps \in Seq(StepSet) /\ Elements(steps) = E
      /\ \A e \in E : e.chain = c
  BY <1>2 DEF Makes, Part, Choice
<1>. HIDE DEF r, c, h, t, s
<1>8. Elements(steps \o t) \subseteq E \cup Elements(t)
  <2>1. /\ Len(steps) \in Nat /\ DOMAIN steps = 1 .. Len(steps)
        /\ Len(t) \in Nat /\ DOMAIN t = 1 .. Len(t)
        /\ DOMAIN (steps \o t) = 1 .. Len(steps) + Len(t)
        /\ \A k \in 1 .. Len(steps) + Len(t) :
             (steps \o t)[k] = IF k <= Len(steps) THEN steps[k] ELSE t[k - Len(steps)]
    BY <1>4, <1>7
  <2>. DEFINE u == steps \o t
  <2>. HIDE DEF u
  <2>2. ASSUME NEW k \in DOMAIN u PROVE u[k] \in E \cup Elements(t)
    <3>1. CASE k <= Len(steps)
      BY <1>7, <2>1, <3>1 DEF Elements, u
    <3>2. CASE ~(k <= Len(steps))
      <4>1. k - Len(steps) \in DOMAIN t /\ u[k] = t[k - Len(steps)]
        BY <2>1, <3>2 DEF u
      <4>. QED  BY <4>1 DEF Elements
    <3>. QED  BY <3>1, <3>2
  <2>. QED  BY <2>2 DEF Elements, u
<1>9. QuietRun(s)
  <2>1. \A step \in E : Quiet(step)
    BY <1>5, <1>7 DEF Quiet
  <2>2. \A step \in Elements(t) : Quiet(step)
    BY <1>3, <1>4 DEF QuietRun
  <2>. QED  BY <1>6, <1>8, <2>1, <2>2 DEF QuietRun
<1>10. ASSUME s.calm PROVE s.outcome # "failed" /\ Undisturbed(s, ledger)
  <2>1. r.outcome # "failed" /\ Undisturbed(r, ledger)
    BY <1>1, <1>6, <1>10, CalmIs DEF r
  <2>2. ASSUME NEW step \in s.done, step.op = "refreshCache", NEW leg \in FeedLegs(step.chain)
        PROVE  ledger[step.chain].oracles[s.oracle[step.chain]].legs[leg] # NoPrice
    <3>1. step \in Behind(r) /\ step \in r.done
      BY <1>5, <1>6, <2>2 DEF Behind
    <3>2. step.chain \in Chain
      BY <1>3, <3>1, RunSteps
    <3>3. step.chain # c
      BY <1>1, <1>4, <1>5, <2>2, <3>1, NamedSteps DEF Fits, OfOracle
    <3>. QED  BY <1>6, <2>1, <2>2, <3>1, <3>2, <3>3 DEF Undisturbed
  <2>. QED  BY <1>6, <2>1, <2>2 DEF Undisturbed
<1>11. run' = [run EXCEPT ![p] = s]
  BY <1>2 DEF s
<1>12. run[p].pc # "idle" /\ (s.calm => run[p].calm)
  BY <1>1, <1>6 DEF r
<1>. QED  BY <1>1, <1>9, <1>10, <1>11, <1>12, CalmAlone

\* A transaction that does the step of p, which has found what it looked at,
\* does not revert.
LEMMA DoesNotRevert ==
  ASSUME DeployInv, NEW p \in Run, run[p].todo # <<>>, NEW tx, NEW c,
         c = Head(run[p].todo).chain, TxSound(c, tx, ledger[c]),
         tx.step = Head(run[p].todo), tx.oracle = run[p].oracle[c],
         tx.step.op = "create" => tx.step.what \notin ledger[c].code,
         tx.step.op = "addMiner" => ~ledger[c].miner,
         tx.step.op = "updateMinFeeConfigs" =>
           \A pair \in tx.fees, leg \in Leg : RequireValidFeeConfig(pair[leg])
  PROVE  ~Reverts(c, tx)
<1>. DEFINE r == run[p]
            h == tx.step
<1>1. RunSound(r, ledger, pool)
  BY RunIs
<1>2. h \in StepSet /\ c \in Chain /\ Fits(Behind(r), h)
  BY <1>1, AtHead
<1>3. h.op = "create" /\ h.what = "inbox" => "feeManager" \in ledger[c].code
  BY DEF TxSound
<1>4. h.op \in {"setPrice", "resetPrice"} => "inbox" \in ledger[c].oracles[tx.oracle].set
  <2>. DEFINE b == Step(c, "setToken", "inbox")
  <2>1. b.op = "setToken" /\ b.what = "inbox" /\ b.chain = c
    BY SMTT(30), StepFields
  <2>2. h.op \in {"setPrice", "resetPrice"} => b \in r.done
    BY <1>2 DEF Fits, Behind
  <2>. HIDE DEF b
  <2>3. b \in r.done => InForce(ledger[c], pool[c], r.oracle[c], b)
    BY <1>1, <2>1 DEF RunSound
  <2>. QED  BY <2>1, <2>2, <2>3 DEF InForce
<1>5. h.op = "setPriceOracle" => Priced(c, tx.oracle)
  BY DEF TxSound, Good, Priced
<1>. QED  BY <1>3, <1>4, <1>5 DEF Reverts

\* Alone, a script is only stopped by fees that are refused.
LEMMA SendThrowsCalm ==
  ASSUME DeployInv, CalmInv, NEW p \in Run, SendThrows(p)
  PROVE  CalmInv'
<1>. DEFINE r == run[p]
            h == Head(r.todo)
            c == h.chain
<1>1. PICK fees \in FeesOf(p) :
        /\ Refused(p, fees) \/ Reverts(c, TxOf(p, fees))
        /\ run' = [run EXCEPT ![p] = Ended(p, IF h.op = "updateMinFeeConfigs" THEN "refused"
                                              ELSE "failed")]
  BY DEF SendThrows, Becomes, Now
<1>2. Sending(p) /\ UNCHANGED <<ledger, pool>>
  BY DEF SendThrows
<1>3. /\ r.todo # <<>> /\ r.pc = (IF h.op \in Looking THEN "send" ELSE "ready")
  BY <1>2 DEF Sending, Now
<1>4. r.pc # "idle"
  BY <1>3
<1>5. ASSUME r.calm, h.op # "updateMinFeeConfigs" PROVE FALSE
  <2>. DEFINE tx == TxOf(p, fees)
  <2>1. ~Refused(p, fees)
    BY <1>5 DEF Refused, Now
  <2>2. TxSound(c, tx, ledger[c]) /\ tx.step = h /\ tx.oracle = r.oracle[c]
    BY <1>2, <2>1, SentSound DEF Now, TxOf
  <2>3. Undisturbed(r, ledger)
    BY <1>4, <1>5, CalmIs
  <2>4. /\ h.op = "create" => h.what \notin ledger[c].code
        /\ h.op = "addMiner" => ~ledger[c].miner
    BY <1>3, <2>3 DEF Undisturbed, Looking
  <2>. HIDE DEF tx
  <2>5. ~Reverts(c, tx)
    BY <1>3, <1>5, <2>2, <2>4, DoesNotRevert
  <2>. QED  BY <1>1, <2>1, <2>5 DEF tx
<1>. DEFINE outcome == IF h.op = "updateMinFeeConfigs" THEN "refused" ELSE "failed"
<1>6. r.calm => outcome # "failed"
  BY <1>5
<1>7. run' = [run EXCEPT ![p] = Ended(p, outcome)]
  BY <1>1
<1>. HIDE DEF outcome
<1>. QED  BY <1>2, <1>4, <1>6, <1>7, CalmEnds

LEMMA SendCalm ==
  ASSUME DeployInv, CalmInv, NEW p \in Run, Send(p)
  PROVE  CalmInv'
<1>. DEFINE r == run[p]
            h == Head(r.todo)
            c == h.chain
            s == IF Awaited(h) THEN [r EXCEPT !.pc = "wait"] ELSE Past(r)
<1>1. /\ Sending(p) /\ run' = [run EXCEPT ![p] = s] /\ ledger' = ledger
  BY DEF Send, Becomes, Now
<1>2. PICK fees \in FeesOf(p) : /\ ~Refused(p, fees) /\ ~Reverts(c, TxOf(p, fees))
                                /\ pool' = [pool EXCEPT ![c] = Append(@, TxOf(p, fees))]
  BY DEF Send, Now
<1>. DEFINE tx == TxOf(p, fees)
<1>3. /\ tx \in TxSet /\ tx.step = h
      /\ tx.by = (IF Awaited(h) THEN {p} ELSE {})
  BY <1>1, <1>2, SentSound DEF Now, TxOf
<1>4. RunSound(r, ledger, pool) /\ r \in RunSet /\ QuietRun(r)
  BY RunIs DEF CalmInv
<1>5. /\ r.todo # <<>> /\ r.pc = (IF h.op \in Looking THEN "send" ELSE "ready")
  BY <1>1 DEF Sending, Now
<1>6. h \in StepSet /\ c \in Chain /\ Fits(Behind(r), h) /\ Quiet(h)
  <2>1. h \in StepSet /\ c \in Chain /\ Fits(Behind(r), h)
    BY <1>4, <1>5, AtHead
  <2>2. Quiet(h)
    BY <1>4, <1>5, QuietGoes
  <2>. QED  BY <2>1, <2>2
<1>7. Tame(tx)
  <2>1. tx.step.op = "updateMinFeeConfigs" =>
          \A pair \in tx.fees, leg \in Leg : RequireValidFeeConfig(pair[leg])
    BY <1>2 DEF Reverts
  <2>2. h.what = "preset" => h.op = "setPriceOracle"
    BY <1>6 DEF Fits
  <2>. QED  BY <1>3, <2>1, <2>2 DEF Tame
<1>8. /\ pool' = [d \in Chain |-> pool'[d]] /\ pool'[c] = Append(pool[c], tx)
      /\ \A d \in Chain \ {c} : pool'[d] = pool[d]
      /\ pool[c] \in Seq(TxSet)
  BY <1>2, <1>6 DEF DeployInv
<1>. HIDE DEF tx, s
<1>9. /\ \A i \in DOMAIN pool'[c] : \/ i \in DOMAIN pool[c] /\ pool'[c][i] = pool[c][i]
                                    \/ pool'[c][i] = tx
  <2>. DEFINE seq == pool[c]
  <2>1. seq \in Seq(TxSet) /\ pool'[c] = Append(seq, tx)
    BY <1>8
  <2>. HIDE DEF seq
  <2>2. \A i \in DOMAIN Append(seq, tx) : \/ i \in DOMAIN seq /\ Append(seq, tx)[i] = seq[i]
                                          \/ Append(seq, tx)[i] = tx
    BY <1>3, <2>1, AppendFields
  <2>. QED  BY <2>1, <2>2 DEF seq
<1>10. \A d \in Chain : \A i \in DOMAIN pool'[d] : Tame(pool'[d][i])
  BY <1>7, <1>8, <1>9 DEF CalmInv
<1>11. /\ s.calm = r.calm /\ s.outcome = r.outcome /\ QuietRun(s)
       /\ r.pc # "idle" /\ (Undisturbed(r, ledger) => Undisturbed(s, ledger))
  <2>1. CASE Awaited(h)
    <3>1. /\ s.calm = r.calm /\ s.outcome = r.outcome /\ s.pc = "wait" /\ s.todo = r.todo
          /\ s.done = r.done /\ s.oracle = r.oracle
      BY <1>4, <2>1 DEF s, RunSet
    <3>2. QuietRun(s)
      BY <1>4, <3>1 DEF QuietRun
    <3>3. ASSUME Undisturbed(r, ledger) PROVE Undisturbed(s, ledger)
      <4>1. h.op = "addMiner" => ~ledger[c].miner
        BY <1>5, <3>3 DEF Undisturbed, Looking
      <4>. QED  BY <3>1, <3>3, <4>1 DEF Undisturbed
    <3>. QED  BY <1>5, <3>1, <3>2, <3>3
  <2>2. CASE ~Awaited(h)
    <3>1. /\ s.calm = r.calm /\ s.outcome = r.outcome /\ s.pc = "ready" /\ s.todo = Tail(r.todo)
          /\ s.done = r.done \cup {h} /\ s.oracle = r.oracle
      BY <1>4, <1>5, <2>2, PastFields DEF s
    <3>2. QuietRun(s)
      BY <1>4, <1>5, <3>1, QuietGoes
    <3>3. h.op # "refreshCache"
      BY <1>6, <2>2 DEF Awaited, Fits
    <3>. HIDE DEF r, h
    <3>4. Undisturbed(r, ledger) => Undisturbed(s, ledger)
      BY <3>1, <3>3, UndisturbedPast
    <3>. QED  BY <1>5, <3>1, <3>2, <3>4
  <2>. QED  BY <2>1, <2>2
<1>12. CalmSound(p, run', ledger', pool')
  <2>1. run'[p] = s /\ \A q \in Run \ {p} : run'[q] = run[q]
    BY <1>1 DEF DeployInv
  <2>2. ASSUME s.calm PROVE s.outcome # "failed" /\ Alone(p, run', pool') /\ Undisturbed(s, ledger)
    <3>1. /\ r.outcome # "failed" /\ Undisturbed(r, ledger)
          /\ \A q \in Run \ {p} : run[q].pc = "idle"
          /\ \A d \in Chain : \A i \in DOMAIN pool[d] :
               p \in pool[d][i].by \/ (~Awaited(pool[d][i].step) /\ d = SourceChain)
      BY <1>11, <2>2, CalmIs
    <3>2. p \in tx.by \/ (~Awaited(tx.step) /\ c = SourceChain)
      BY <1>3, <1>6 DEF Quiet
    <3>3. \A d \in Chain : \A i \in DOMAIN pool'[d] :
            p \in pool'[d][i].by \/ (~Awaited(pool'[d][i].step) /\ d = SourceChain)
      BY <1>8, <1>9, <3>1, <3>2
    <3>. QED  BY <1>11, <2>1, <3>1, <3>3 DEF Alone
  <2>. QED  BY <1>1, <2>1, <2>2 DEF CalmSound
<1>. QED  BY <1>1, <1>10, <1>11, <1>12, CalmOthers

\* What is pending once the oldest transaction has left was pending before.
LEMMA LeftPending ==
  ASSUME DeployInv, NEW c \in Chain, pool[c] # <<>>, pool' = [pool EXCEPT ![c] = Tail(@)]
  PROVE  /\ \A d \in Chain : \A i \in DOMAIN pool'[d] :
              \E j \in DOMAIN pool[d] : pool'[d][i] = pool[d][j]
         /\ \E j \in DOMAIN pool[c] : Head(pool[c]) = pool[c][j]
<1>. DEFINE queue == pool[c]
<1>1. /\ queue \in Seq(TxSet) /\ queue # <<>>
      /\ pool'[c] = Tail(queue) /\ \A d \in Chain \ {c} : pool'[d] = pool[d]
  BY DEF DeployInv
<1>. HIDE DEF queue
<1>2. /\ Len(queue) \in Nat \ {0} /\ DOMAIN queue = 1 .. Len(queue) /\ Head(queue) = queue[1]
      /\ DOMAIN Tail(queue) = 1 .. Len(queue) - 1
      /\ \A i \in 1 .. Len(queue) - 1 : Tail(queue)[i] = queue[i + 1]
  BY <1>1
<1>3. \A i \in DOMAIN Tail(queue) : i + 1 \in DOMAIN queue /\ Tail(queue)[i] = queue[i + 1]
  BY <1>2
<1>4. 1 \in DOMAIN queue
  BY <1>2
<1>. QED  BY <1>1, <1>2, <1>3, <1>4 DEF queue

\* A transaction nobody waits for creates nothing, registers nobody, and changes
\* no oracle.
LEMMA UnawaitedEffect ==
  ASSUME NEW c, ledger[c] \in LedgerSet, NEW tx, Tame(tx), ~Awaited(tx.step)
  PROVE  /\ Effect(c, tx).code = ledger[c].code
         /\ Effect(c, tx).miner = ledger[c].miner
         /\ Effect(c, tx).oracles = ledger[c].oracles
<1>. DEFINE l == ledger[c]
<1>1. tx.step.op \in {"configure", "setPriceOracle"}
  BY DEF Awaited, Tame
<1>2. Effect(c, tx) \in {[l EXCEPT !.apps = @ \cup {tx.step}], [l EXCEPT !.factory = tx.oracle],
                         [l EXCEPT !.oracle = tx.oracle]}
  <2>1. CASE tx.step.op = "configure"
    BY <2>1 DEF Effect, OracleMade
  <2>2. CASE tx.step.op = "setPriceOracle"
    BY <2>2 DEF Effect, OracleMade
  <2>. QED  BY <1>1, <2>1, <2>2
<1>. QED  BY <1>2 DEF LedgerSet

\* What a script reads of the chains of the refreshes it has behind it.
LEMMA FedStill ==
  ASSUME NEW r, NEW L, NEW P, RunSound(r, L, P), Undisturbed(r, L),
         NEW step \in r.done, step.op = "refreshCache", NEW leg \in FeedLegs(step.chain),
         NEW l2, Grows(L[step.chain], l2)
  PROVE  /\ step.chain \in Chain
         /\ l2.oracles[r.oracle[step.chain]].legs[leg] # NoPrice
<1>. DEFINE d == step.chain
            o == r.oracle[d]
<1>1. d \in Chain
  BY RunSteps DEF RunSound
<1>2. o \in 1 .. Len(L[d].oracles)
  BY DEF RunSound, InForce, OfOracle
<1>3. L[d].oracles[o].legs[leg] # NoPrice
  BY DEF Undisturbed
<1>4. leg \in Leg
  BY DEF FeedLegs, Leg
<1>. QED  BY <1>1, <1>2, <1>3, <1>4 DEF Grows

\* A refresh prices every leg that has a feed.
LEMMA RefreshPrices ==
  ASSUME NEW r, NEW c \in Chain, RunSound(r, ledger, pool), ledger[c] \in LedgerSet,
         r.todo # <<>>, NEW tx, Head(r.todo) = tx.step, tx.step.chain = c,
         tx.oracle = r.oracle[c], tx.step.op = "refreshCache", NEW leg \in FeedLegs(c)
  PROVE  Effect(c, tx).oracles[tx.oracle].legs[leg] # NoPrice
<1>. DEFINE o == tx.oracle
            l == ledger[c]
            old == l.oracles[o]
            token(y) == NativeToken(IF y = "local" THEN c ELSE Paired(c))
            x == [old EXCEPT !.legs = [y \in Leg |-> IF y \in old.set THEN token(y) ELSE @[y]]]
            l2 == [l EXCEPT !.oracles = [@ EXCEPT ![o] = x]]
            b == Step(c, "setFeed", leg)
<1>1. Fits(Behind(r), tx.step)
  BY AtHead
<1>2. b \in r.done /\ b.op = "setFeed" /\ b.what = leg /\ b.chain = c
  BY <1>1, StepFields DEF Fits, Behind
<1>3. leg \in old.set /\ o \in 1 .. Len(l.oracles)
  <2>. HIDE DEF b
  <2>1. InForce(l, pool[c], r.oracle[c], b)
    BY <1>2 DEF RunSound
  <2>. QED  BY <1>2, <2>1 DEF InForce, OfOracle
<1>4. token(leg) # NoPrice /\ leg \in Leg
  BY TokensTyped DEF FeedLegs, Leg
<1>5. l.oracles \in Seq(OracleSet) /\ old \in OracleSet
  BY <1>3 DEF LedgerSet
<1>6. Effect(c, tx) = l2
  BY DEF Effect, OracleMade
<1>. HIDE DEF token, b
<1>7. x.legs[leg] # NoPrice
  BY <1>3, <1>4, <1>5 DEF OracleSet
<1>. HIDE DEF x
<1>8. l2.oracles[o] = x
  BY <1>3, <1>5 DEF LedgerSet
<1>. QED  BY <1>6, <1>7, <1>8

\* The receipt a script gets that is alone: its transaction did not revert, or
\* the script does not look.
LEMMA AloneReceives ==
  ASSUME DeployInv, CalmInv, NEW c \in Chain, pool[c] # <<>>, NEW tx, tx = Head(pool[c]),
         NEW q \in tx.by, run[q].calm
  PROVE  ~Reverts(c, tx) \/ tx.step.op = "create"
<1>1. /\ TxSound(c, tx, ledger[c]) /\ q \in Run
      /\ run[q].pc = "wait" /\ run[q].todo # <<>> /\ Head(run[q].todo) = tx.step
      /\ run[q].oracle[c] = tx.oracle
  BY HeadTx
<1>2. Undisturbed(run[q], ledger)
  BY <1>1, CalmIs
<1>3. c = tx.step.chain
  BY <1>1 DEF TxSound
<1>4. tx.step.op = "addMiner" => ~ledger[c].miner
  BY <1>1, <1>2, <1>3 DEF Undisturbed
<1>5. Tame(tx)
  <2>1. pool[c] \in Seq(TxSet)
    BY DEF DeployInv
  <2>2. 1 \in DOMAIN pool[c] /\ Head(pool[c]) = pool[c][1]
    BY <2>1
  <2>. QED  BY <2>2 DEF CalmInv
<1>6. CASE tx.step.op # "create"
  BY <1>1, <1>3, <1>4, <1>5, <1>6, DoesNotRevert DEF Tame
<1>. QED  BY <1>6

\* A script that got its receipt, with step h behind it and oracle n.
LEMMA ReceivedFields ==
  ASSUME DeployInv, NEW c \in Chain, pool[c] # <<>>, NEW tx, tx = Head(pool[c]),
         NEW q \in tx.by, NEW ok \in BOOLEAN
  PROVE  /\ Received(q, tx, ok).calm = run[q].calm
         /\ QuietRun(run[q]) => QuietRun(Received(q, tx, ok))
         /\ ok \/ tx.step.op = "create" =>
              /\ Received(q, tx, ok).outcome = run[q].outcome
              /\ Received(q, tx, ok).pc = "ready"
              /\ Received(q, tx, ok).done = run[q].done \cup {tx.step}
              /\ \A d \in Chain : ~OracleMade(tx.step) \/ d # c =>
                   Received(q, tx, ok).oracle[d] = run[q].oracle[d]
<1>. DEFINE r == run[q]
            n == Len(ledger[tx.step.chain].oracles) + 1
<1>1. /\ q \in Run /\ r.todo # <<>> /\ Head(r.todo) = tx.step /\ tx.step.chain = c
  BY HeadTx DEF TxSound
<1>2. RunSound(r, ledger, pool) /\ r \in RunSet
  BY <1>1, RunIs
<1>3. /\ Past(r) \in RunSet /\ Past(r).pc = "ready" /\ Past(r).done = r.done \cup {tx.step}
      /\ Past(r).todo = Tail(r.todo) /\ Past(r).oracle = r.oracle
      /\ Past(r).calm = r.calm /\ Past(r).outcome = r.outcome
  BY <1>1, <1>2, PastFields
<1>. DEFINE m == [Past(r) EXCEPT !.oracle[tx.step.chain] = n]
<1>4. /\ m.pc = "ready" /\ m.done = r.done \cup {tx.step} /\ m.todo = Tail(r.todo)
      /\ m.calm = r.calm /\ m.outcome = r.outcome
      /\ \A d \in Chain : d # c => m.oracle[d] = r.oracle[d]
  <2>1. r.oracle \in [Chain -> Nat]
    BY <1>2 DEF RunSet
  <2>. HIDE DEF n, r
  <2>. QED  BY <1>1, <1>3, <2>1 DEF RunSet
<1>5. Received(q, tx, ok) = IF ~ok /\ ~StatusUnread(tx.step) THEN Ended(q, "failed")
                            ELSE IF OracleMade(tx.step) THEN m ELSE Past(r)
  BY DEF Received
<1>6. QuietRun(r) => QuietRun(m) /\ QuietRun(Past(r)) /\ QuietRun(Ended(q, "failed"))
  <2>. HIDE DEF r, m
  <2>. QED  BY <1>1, <1>2, <1>3, <1>4, QuietGoes, EndedFields
<1>7. Ended(q, "failed").calm = r.calm
  BY EndedFields
<1>8. tx.step.op = "create" => StatusUnread(tx.step)
  BY DEF StatusUnread
<1>. HIDE DEF r, m
<1>. QED  BY <1>3, <1>4, <1>5, <1>6, <1>7, <1>8 DEF r

\* Alone, the script that waits finds what it has behind it as it was, and the
\* legs that were refreshed have prices.
LEMMA MinedFed ==
  ASSUME DeployInv, CalmInv, NEW c \in Chain, Mine(c), NEW tx, tx = Head(pool[c]),
         NEW q \in tx.by, run[q].calm
  PROVE  Undisturbed(run'[q], ledger')
<1>. DEFINE r == run[q]
            s == run'[q]
            ok == ~Reverts(c, tx)
<1>1. /\ pool[c] # <<>> /\ q \in Run
      /\ ledger' = IF ok THEN [ledger EXCEPT ![c] = Effect(c, tx)] ELSE ledger
  BY HeadTx DEF Mine
<1>2. s = Received(q, tx, ok)
  BY <1>1 DEF Mine
<1>3. ok \/ tx.step.op = "create"
  BY <1>1, AloneReceives
<1>4. /\ s.pc = "ready" /\ s.done = r.done \cup {tx.step}
      /\ \A d \in Chain : ~OracleMade(tx.step) \/ d # c => s.oracle[d] = r.oracle[d]
  <2>. HIDE DEF ok, s
  <2>1. ok \in BOOLEAN
    BY DEF ok
  <2>. QED  BY <1>1, <1>2, <1>3, <2>1, ReceivedFields DEF r
<1>5. /\ tx \in TxSet /\ TxSound(c, tx, ledger[c]) /\ tx.step.chain = c
      /\ r.pc = "wait" /\ r.todo # <<>> /\ Head(r.todo) = tx.step /\ r.oracle[c] = tx.oracle
  BY <1>1, HeadTx DEF TxSound
<1>6. RunSound(r, ledger, pool) /\ Undisturbed(r, ledger) /\ Fits(Behind(r), tx.step)
  <2>1. RunSound(r, ledger, pool) /\ Undisturbed(r, ledger)
    BY <1>1, <1>5, RunIs, CalmIs
  <2>. QED  BY <1>5, <2>1, AtHead
<1>7. /\ \A d \in Chain : ledger[d] \in LedgerSet /\ LedgerOK(d, ledger[d])
      /\ ledger = [d \in Chain |-> ledger[d]]
  BY DEF DeployInv, LedgerOK
<1>8. \A d \in Chain : Grows(ledger[d], ledger'[d])
  <2>1. \A d \in Chain : Grows(ledger[d], ledger[d])
    BY <1>7, Stays
  <2>2. ok => Grows(ledger[c], Effect(c, tx))
    <3>. DEFINE l == ledger[c]
    <3>1. ok => Takes(c, tx, l)
      BY <1>5, <1>7 DEF Takes
    <3>. HIDE DEF ok, l
    <3>2. ok => Took(c, tx, l, Effect(c, tx))
      BY <3>1, EveryTaken
    <3>. QED  BY <3>2 DEF Took, l
  <2>. QED  BY <1>1, <1>7, <2>1, <2>2
<1>. HIDE DEF s, ok, r
<1>9. ASSUME NEW step \in s.done, step.op = "refreshCache", NEW leg \in FeedLegs(step.chain)
      PROVE  ledger'[step.chain].oracles[s.oracle[step.chain]].legs[leg] # NoPrice
  <2>1. CASE step \in r.done
    <3>1. step.chain \in Chain
      BY <1>6, <2>1, RunSteps DEF RunSound
    <3>2. OracleMade(tx.step) => step.chain # c
      <4>1. step \in Behind(r) /\ OfOracle(step)
        BY <1>9, <2>1 DEF Behind, OfOracle
      <4>. QED  BY <1>5, <1>6, <4>1 DEF Fits
    <3>3. s.oracle[step.chain] = r.oracle[step.chain]
      BY <1>4, <3>1, <3>2
    <3>4. Grows(ledger[step.chain], ledger'[step.chain])
      BY <1>8, <3>1
    <3>5. ledger'[step.chain].oracles[r.oracle[step.chain]].legs[leg] # NoPrice
      BY <1>6, <1>9, <2>1, <3>4, FedStill
    <3>. QED  BY <3>3, <3>5
  <2>2. CASE step = tx.step
    <3>1. ok /\ ~OracleMade(tx.step)
      BY <1>3, <1>9, <2>2 DEF OracleMade
    <3>2. ledger'[c] = Effect(c, tx)
      BY <1>1, <1>7, <3>1
    <3>3. Effect(c, tx).oracles[tx.oracle].legs[leg] # NoPrice
      <4>1. leg \in FeedLegs(c) /\ tx.step.op = "refreshCache" /\ ledger[c] \in LedgerSet
        BY <1>5, <1>7, <1>9, <2>2
      <4>. QED  BY <1>5, <1>6, <4>1, RefreshPrices
    <3>. QED  BY ZenonT(60), <1>4, <1>5, <2>2, <3>1, <3>2, <3>3
  <2>. QED  BY <1>4, <1>9, <2>1, <2>2
<1>. QED  BY <1>4, <1>9 DEF Undisturbed, s

LEMMA UndisturbedSame ==
  ASSUME NEW r, NEW L, NEW L2, Undisturbed(r, L),
         r.pc \in {"send", "wait"} => Head(r.todo).chain \in Chain,
         \A step \in r.done : step.chain \in Chain,
         \A d \in Chain : /\ L2[d].code = L[d].code
                          /\ L2[d].miner = L[d].miner
                          /\ L2[d].oracles = L[d].oracles
  PROVE  Undisturbed(r, L2)
<1>. DEFINE h == Head(r.todo)
<1>1. /\ r.pc = "send" /\ h.op = "create" => h.what \notin L2[h.chain].code
      /\ r.pc \in {"send", "wait"} /\ h.op = "addMiner" => ~L2[h.chain].miner
  BY DEF Undisturbed
<1>2. ASSUME NEW step \in r.done, step.op = "refreshCache", NEW leg \in FeedLegs(step.chain)
      PROVE  L2[step.chain].oracles[r.oracle[step.chain]].legs[leg] # NoPrice
  <2>1. L2[step.chain].oracles = L[step.chain].oracles
    OBVIOUS
  <2>2. L[step.chain].oracles[r.oracle[step.chain]].legs[leg] # NoPrice
    BY <1>2 DEF Undisturbed
  <2>. QED  BY <2>1, <2>2
<1>. QED  BY <1>1, <1>2 DEF Undisturbed

LEMMA MineCalm ==
  ASSUME DeployInv, CalmInv, NEW c \in Chain, Mine(c)
  PROVE  CalmInv'
<1>. DEFINE tx == Head(pool[c])
            ok == ~Reverts(c, tx)
<1>1. /\ pool[c] # <<>> /\ pool' = [pool EXCEPT ![c] = Tail(@)]
      /\ ledger' = IF ok THEN [ledger EXCEPT ![c] = Effect(c, tx)] ELSE ledger
      /\ run' = [q \in Run |-> IF q \in tx.by THEN Received(q, tx, ok) ELSE run[q]]
  BY DEF Mine
<1>2. /\ \A d \in Chain : \A i \in DOMAIN pool'[d] :
           \E j \in DOMAIN pool[d] : pool'[d][i] = pool[d][j]
      /\ \E j \in DOMAIN pool[c] : tx = pool[c][j]
  BY <1>1, LeftPending
<1>3. tx.by \subseteq Run /\ \A q \in tx.by : run[q].pc = "wait"
  BY <1>1, HeadTx
<1>4. Tame(tx) /\ \A d \in Chain : \A i \in DOMAIN pool'[d] : Tame(pool'[d][i])
  BY <1>2 DEF CalmInv
<1>5. ledger[c] \in LedgerSet /\ ledger = [d \in Chain |-> ledger[d]]
  BY RunIs DEF DeployInv, LedgerOK
<1>. HIDE DEF ok
<1>6. /\ ok \in BOOLEAN
      /\ \A q \in tx.by : run'[q] = Received(q, tx, ok)
      /\ \A q \in Run : q \notin tx.by => run'[q] = run[q]
  BY <1>1, <1>3 DEF ok
<1>7. ASSUME NEW q \in tx.by, run[q].calm PROVE ok \/ tx.step.op = "create"
  BY <1>1, <1>7, AloneReceives DEF ok
<1>8. \A q \in Run : QuietRun(run'[q])
  <2>1. \A q \in tx.by : QuietRun(run[q])
    BY <1>3 DEF CalmInv
  <2>2. \A q \in tx.by : QuietRun(Received(q, tx, ok))
    BY <1>1, <1>6, <2>1, ReceivedFields
  <2>. QED  BY <1>6, <2>2 DEF CalmInv
<1>9. ASSUME NEW q \in Run, run'[q].calm
      PROVE  /\ run'[q].outcome # "failed" /\ run[q].calm
             /\ run'[q].pc # "idle" => run[q].pc # "idle"
  <2>1. run[q].calm => run[q].outcome # "failed"
    BY DEF CalmInv, CalmSound
  <2>2. CASE q \in tx.by
    <3>1. Received(q, tx, ok).calm = run[q].calm
      BY <1>1, <1>6, <2>2, ReceivedFields
    <3>2. run[q].calm
      BY <1>6, <1>9, <2>2, <3>1
    <3>3. ok \/ tx.step.op = "create"
      BY <1>7, <2>2, <3>2
    <3>4. Received(q, tx, ok).outcome = run[q].outcome
      BY <1>1, <1>6, <2>2, <3>3, ReceivedFields
    <3>. QED  BY <1>3, <1>6, <2>1, <2>2, <3>2, <3>4
  <2>3. CASE q \notin tx.by
    BY <1>6, <1>9, <2>1, <2>3
  <2>. QED  BY <2>2, <2>3
<1>10. ASSUME NEW q \in Run, run'[q].calm, run'[q].pc # "idle"
       PROVE  Alone(q, run', pool') /\ Undisturbed(run'[q], ledger')
  <2>1. run[q].calm /\ run[q].pc # "idle"
    BY <1>9, <1>10
  <2>2. /\ \A p \in Run \ {q} : run[p].pc = "idle"
        /\ \A d \in Chain : \A i \in DOMAIN pool[d] :
             q \in pool[d][i].by \/ (~Awaited(pool[d][i].step) /\ d = SourceChain)
        /\ Undisturbed(run[q], ledger)
    BY <2>1, CalmIs
  <2>3. \A p \in Run \ {q} : run'[p].pc = "idle"
    BY <1>3, <1>6, <2>2
  <2>4. \A d \in Chain : \A i \in DOMAIN pool'[d] :
          q \in pool'[d][i].by \/ (~Awaited(pool'[d][i].step) /\ d = SourceChain)
    BY <1>2, <2>2
  <2>5. Undisturbed(run'[q], ledger')
    <3>1. CASE q \in tx.by
      BY <1>1, <2>1, <3>1, MinedFed
    <3>2. CASE q \notin tx.by
      <4>1. ~Awaited(tx.step)
        BY <1>2, <2>2, <3>2
      <4>2. \A d \in Chain :
                   /\ ledger'[d].code = ledger[d].code
                   /\ ledger'[d].miner = ledger[d].miner
                   /\ ledger'[d].oracles = ledger[d].oracles
        <5>. HIDE DEF tx
        <5>1. /\ Effect(c, tx).code = ledger[c].code
              /\ Effect(c, tx).miner = ledger[c].miner
              /\ Effect(c, tx).oracles = ledger[c].oracles
          BY <1>4, <1>5, <4>1, UnawaitedEffect
        <5>. DEFINE e == Effect(c, tx)
        <5>. HIDE DEF e
        <5>2. ledger' = ledger \/ ledger' = [ledger EXCEPT ![c] = e]
          BY <1>1 DEF e
        <5>. QED  BY <1>5, <5>1, <5>2 DEF e
      <4>3. run'[q] = run[q]
        BY <1>6, <3>2
      <4>4. /\ run[q].pc \in {"send", "wait"} => Head(run[q].todo).chain \in Chain
            /\ \A step \in run[q].done : step.chain \in Chain
        <5>1. RunSound(run[q], ledger, pool) /\ run[q] \in RunSet
          BY RunIs
        <5>2. run[q].pc \in {"send", "wait"} => run[q].todo # <<>>
          BY <5>1 DEF RunSound
        <5>. QED  BY <5>1, <5>2, AtHead, RunSteps
      <4>. QED  BY <2>2, <4>2, <4>3, <4>4, UndisturbedSame
    <3>. QED  BY <3>1, <3>2
  <2>. QED  BY <2>3, <2>4, <2>5 DEF Alone
<1>11. \A q \in Run : CalmSound(q, run', ledger', pool')
  BY <1>9, <1>10 DEF CalmSound
<1>. QED  BY <1>4, <1>8, <1>11 DEF CalmInv

\* A feed that is down is a fault: whoever waits for it is no longer calm.
LEMMA MineDeadFeedCalm ==
  ASSUME DeployInv, CalmInv, NEW c \in Chain, MineDeadFeed(c)
  PROVE  CalmInv'
<1>. DEFINE tx == Head(pool[c])
            after(q) == [Received(q, tx, TRUE) EXCEPT !.calm = FALSE]
<1>1. /\ pool[c] # <<>> /\ pool' = [pool EXCEPT ![c] = Tail(@)]
      /\ tx.step.op = "refreshCache" /\ ledger' = ledger
      /\ run' = [q \in Run |-> IF q \in tx.by THEN after(q) ELSE run[q]]
  BY DEF MineDeadFeed
<1>2. /\ \A d \in Chain : \A i \in DOMAIN pool'[d] :
           \E j \in DOMAIN pool[d] : pool'[d][i] = pool[d][j]
      /\ \E j \in DOMAIN pool[c] : tx = pool[c][j]
  BY <1>1, LeftPending
<1>3. /\ tx.by \subseteq Run
      /\ \A q \in tx.by : run[q].pc = "wait" /\ run[q].todo # <<>>
  BY <1>1, HeadTx
<1>4. Tame(tx) /\ \A d \in Chain : \A i \in DOMAIN pool'[d] : Tame(pool'[d][i])
  BY <1>2 DEF CalmInv
<1>5. ASSUME NEW q \in tx.by PROVE after(q).calm = FALSE /\ QuietRun(after(q))
  <2>. DEFINE r == run[q]
  <2>1. RunSound(r, ledger, pool) /\ r \in RunSet /\ QuietRun(r) /\ r.todo # <<>>
    BY <1>3, <1>5, RunIs DEF CalmInv
  <2>2. Received(q, tx, TRUE) = Past(r)
    BY <1>1 DEF Received, OracleMade
  <2>3. Past(r) \in RunSet /\ Past(r).todo = Tail(r.todo)
    BY <2>1, PastFields
  <2>. DEFINE s == [Past(r) EXCEPT !.calm = FALSE]
  <2>4. s.calm = FALSE /\ s.todo = Tail(r.todo)
    BY <2>3 DEF RunSet
  <2>. HIDE DEF r, s
  <2>5. QuietRun(s)
    BY <2>1, <2>4, QuietGoes
  <2>. QED  BY <2>2, <2>4, <2>5 DEF s
<1>. HIDE DEF after
<1>6. \A q \in Run : QuietRun(run'[q])
  BY <1>1, <1>5 DEF CalmInv
<1>7. ASSUME NEW q \in Run, run'[q].calm PROVE run'[q].outcome # "failed" /\ run'[q].pc = "idle"
  <2>1. q \notin tx.by /\ run'[q] = run[q]
    BY <1>1, <1>3, <1>5, <1>7
  <2>2. Awaited(tx.step)
    BY <1>1, <1>4 DEF Awaited, Tame
  <2>3. run[q].pc = "idle"
    BY <1>2, <1>7, <2>1, <2>2, CalmIs
  <2>4. run[q].outcome # "failed"
    BY <1>7, <2>1 DEF CalmInv, CalmSound
  <2>. QED  BY <2>1, <2>3, <2>4
<1>. QED  BY <1>4, <1>6, <1>7 DEF CalmInv, CalmSound

LEMMA GiveUpCalm ==
  ASSUME DeployInv, CalmInv, NEW p \in Run, GiveUp(p)
  PROVE  CalmInv'
<1>. DEFINE r == [Ended(p, "failed") EXCEPT !.calm = FALSE]
<1>1. /\ run' = [run EXCEPT ![p] = r] /\ pool' = Disowned(p) /\ run[p].pc # "idle"
  BY DEF GiveUp, Becomes
<1>2. r.calm = FALSE /\ r.todo = <<>>
  BY DEF Ended, Idle
<1>. HIDE DEF r
<1>3. QuietRun(r)
  BY <1>2 DEF QuietRun, Elements
<1>4. run'[p] = r
  BY <1>1 DEF DeployInv
<1>5. \A c \in Chain : \A i \in DOMAIN pool'[c] : Tame(pool'[c][i])
  <2>1. pool \in [Chain -> Seq(TxSet)]
    BY DEF DeployInv
  <2>2. ASSUME NEW c \in Chain, NEW i \in DOMAIN pool'[c] PROVE Tame(pool'[c][i])
    <3>1. i \in DOMAIN pool[c] /\ pool[c][i] \in TxSet /\ pool'[c][i] = Without(pool[c][i], p)
      BY <1>1, <2>1, <2>2, DisownedFields
    <3>2. Without(pool[c][i], p).step = pool[c][i].step /\ Without(pool[c][i], p).fees = pool[c][i].fees
      BY <3>1, WithoutFields
    <3>. QED  BY <3>1, <3>2 DEF CalmInv, Tame
  <2>. QED  BY <2>2
<1>6. CalmSound(p, run', ledger', pool')
  BY <1>2, <1>4 DEF CalmSound
<1>. QED  BY <1>1, <1>3, <1>5, <1>6, CalmOthers

LEMMA StartCalm ==
  ASSUME DeployInv, CalmInv, InboxAtSource, NEW p \in Run, NEW s \in Scripts, Start(p, s)
  PROVE  CalmInv'
<1>. DEFINE calm == /\ \A other \in Run : run[other].pc = "idle"
                    /\ \A c \in Chain : pool[c] = <<>>
            r == Begun(s, calm)
<1>1. /\ run' = [q \in Run |-> IF q # p THEN [run[q] EXCEPT !.calm = FALSE] ELSE r]
      /\ UNCHANGED <<ledger, pool>>
  BY DEF Start, Begun
<1>2. /\ r.pc = "ready" /\ r.todo = Program(s) /\ r.done = {} /\ r.outcome = "none"
      /\ r.calm = calm
  BY DEF Begun, Idle
<1>3. s \in Script
  BY DeployAssumption
<1>. HIDE DEF r
<1>4. QuietRun(r)
  BY <1>2, <1>3, ProgramSteps DEF QuietRun, InboxAtSource
<1>5. /\ run'[p] = r
      /\ \A q \in Run \ {p} : /\ run'[q].calm = FALSE /\ run'[q].todo = run[q].todo
                              /\ run'[q].pc = run[q].pc
  BY <1>1, RunIs DEF RunSet
<1>6. \A q \in Run : QuietRun(run'[q])
  BY <1>4, <1>5 DEF CalmInv, QuietRun
<1>7. CalmSound(p, run', ledger', pool')
  <2>1. Undisturbed(r, ledger)
    BY <1>2 DEF Undisturbed
  <2>2. calm => Alone(p, run', pool')
    BY <1>1, <1>5 DEF Alone
  <2>. QED  BY <1>1, <1>2, <1>5, <2>1, <2>2 DEF CalmSound
<1>8. \A q \in Run : CalmSound(q, run', ledger', pool')
  BY <1>5, <1>7 DEF CalmSound
<1>9. \A c \in Chain : \A i \in DOMAIN pool'[c] : Tame(pool'[c][i])
  BY <1>1 DEF CalmInv
<1>. QED  BY <1>6, <1>8, <1>9 DEF CalmInv

LEMMA CalmInit == Init => CalmInv
BY DEF Init, CalmInv, CalmSound, QuietRun, Elements, Idle

LEMMA CalmStep == DeployInv /\ CalmInv /\ InboxAtSource /\ [Next]_vars => CalmInv'
<1>. SUFFICES ASSUME DeployInv, CalmInv, InboxAtSource, [Next]_vars PROVE CalmInv'
  OBVIOUS
<1>1. ASSUME NEW p \in Run, NEW s \in Scripts, Start(p, s) PROVE CalmInv'
  BY <1>1, StartCalm
<1>2. ASSUME NEW p \in Run, Work(p) PROVE CalmInv'
  BY <1>2, ReadConfigCalm, LookCalm, InspectCalm, ChooseOracleCalm, RecordCalm, SendCalm,
     SendThrowsCalm, UnderpricedCalm, FinishCalm DEF Work
<1>3. ASSUME NEW p \in Run, GiveUp(p) PROVE CalmInv'
  BY <1>3, GiveUpCalm
<1>4. ASSUME NEW c \in Chain, Mine(c) PROVE CalmInv'
  BY <1>4, MineCalm
<1>5. ASSUME NEW c \in Chain, MineDeadFeed(c) PROVE CalmInv'
  BY <1>5, MineDeadFeedCalm
<1>6. CASE UNCHANGED vars
  <2>1. UNCHANGED <<ledger, pool, run>>
    BY <1>6 DEF vars
  <2>. QED  BY <2>1 DEF CalmInv, CalmSound, Alone
<1>. QED  BY <1>1, <1>2, <1>3, <1>4, <1>5, <1>6 DEF Next

\* A script that is alone, on chains where nothing of another is pending, does
\* not fail as long as nothing fails under it, wherever others were killed
\* before: what was done already is found done, and what is looked at stays.
THEOREM CalmHolds ==
  ASSUME InboxAtSource
  PROVE  Spec => []CalmRunsSucceed
<1>1. Init => CalmInv
  BY CalmInit
<1>2. DeployInv /\ CalmInv /\ [Next]_vars => CalmInv'
  BY CalmStep
<1>3. CalmInv => CalmRunsSucceed
  BY DEF CalmInv, CalmSound, CalmRunsSucceed
<1>. QED  BY <1>1, <1>2, <1>3, DeployInvariant, PTL DEF Spec

=============================================================================
