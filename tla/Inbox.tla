------------------------------- MODULE Inbox -------------------------------
(***************************************************************************)
(* The PoD inboxes of a set of chains and the miner that relays between    *)
(* them.  Every chain holds one Inbox contract (InboxBase + InboxMiner);   *)
(* applications send one-way and two-way messages, the miner copies the    *)
(* requests a source chain has logged into batchProcessRequests of the     *)
(* target chain, the target contract runs inside that transaction and may  *)
(* answer with respond or raise, and the answer is itself a request that   *)
(* the miner carries back.                                                 *)
(*                                                                         *)
(* Storage of an inbox is a record, and a handler is an operator from      *)
(* storage to storage.  store[c] is what chain c has committed.  tx is the *)
(* transaction in progress: it works on copies of the storage (tx.work for *)
(* the batch, tx.inner for the call into the target contract), so that a   *)
(* call that fails loses what it wrote and a batch that reverts leaves     *)
(* nothing behind.                                                         *)
(***************************************************************************)
EXTENDS Integers

CONSTANTS
  Chain,              \* lane ids; one inbox per chain
  Contract,           \* accounts that can call an inbox, and be called by it
  MpcChain,           \* chains whose inbox has a re-encode helper
  SystemSender,       \* SYSTEM_SENDER, sender of inbox-made error legs
  ZeroAddress,        \* address(0)
  NoId,               \* bytes32(0)
  NoContext,          \* cleared _currentContext
  NoTx,               \* no transaction in progress
  SendCalls,          \* kinds of method call applications send
  FeeGas,             \* gas budgets the fee manager can return for a send
  Weight,             \* payload weights of sends and replies
  SystemErrorWeight,  \* payload weight of a system-error leg
  InitConfig,         \* configuration of each inbox after deployment
  FeeCaps,            \* fee templates the owner may install
  ReplyCaps,          \* maxReplyMethodCallBytes the owner may install
  Lives,              \* maxMessageLife the owner may install
  MaxNonce,           \* largest nonce a request id can hold
  SendBound,          \* bound: application sends on a lane stop at this nonce
  MaxBatch,           \* bound: items of one batch
  MaxTime             \* bound: last block.timestamp of each chain

Id == Chain \X Chain \X (Nat \ {0})
Address == Contract \cup {SystemSender, ZeroAddress}
Context == [remoteChain : Chain, remoteContract : Address, requestId : Id]
MethodCall == {"raw", "rawTyped", "typed"}
Handler == {"none", "callback", "error"}    \* which handler a leg calls
Cap == [bytes : Nat, gas : Nat]
Config == [paused : BOOLEAN, local : Cap, remote : Cap,
           maxReply : Nat, life : Nat]

ASSUME ConstantsAssumption ==
  /\ MpcChain \subseteq Chain
  /\ SystemSender \notin Contract
  /\ ZeroAddress \notin Contract \cup {SystemSender}
  /\ NoId \notin Id
  /\ NoContext \notin Context
  /\ SendCalls \subseteq MethodCall
  /\ FeeGas \subseteq Nat \ {0}
  /\ Weight \subseteq Nat
  /\ SystemErrorWeight \in Nat
  /\ InitConfig \in [Chain -> Config]
  /\ FeeCaps \subseteq Cap
  /\ ReplyCaps \subseteq Nat \ {0}
  /\ Lives \subseteq Nat
  /\ MaxNonce \in Nat
  /\ MaxBatch \in Nat \ {0}
  /\ MaxTime \in [Chain -> Nat]

VARIABLES
  store,    \* committed storage of every inbox
  config,   \* pause flag, caps and message life of every inbox
  now,      \* block.timestamp of every chain
  tx        \* the batch or retry in progress, or NoTx

vars == <<store, config, now, tx>>

Source(id) == id[1]
Target(id) == id[2]
Nonce(id) == id[3]

Request ==
  [targetContract : Address, sender : Address, methodCall : MethodCall,
   weight : Nat, callback : BOOLEAN, error : BOOLEAN, twoWay : BOOLEAN,
   executed : BOOLEAN, sourceRequest : Id \cup {NoId},
   handler : Handler,
   targetFee : Nat, callerFee : Nat, timestamp : Nat]

\* Error codes, as InboxBase numbers them.
ExecutionFailed == 1
EncodeFailed == 2
MinerRejected == 3
Expired == 4

EmptyMap == [x \in {} |-> NoId]
Put(f, k, v) == [x \in DOMAIN f \cup {k} |-> IF x = k THEN v ELSE f[x]]
Remove(f, k) == [x \in DOMAIN f \ {k} |-> f[x]]

EmptyStore ==
  [requests |-> EmptyMap, nonce |-> [d \in Chain |-> 0],
   incoming |-> EmptyMap, responses |-> EmptyMap, errors |-> EmptyMap,
   last |-> [s \in Chain |-> NoId], context |-> NoContext,
   succeeded |-> {}]

Init ==
  /\ store = [c \in Chain |-> EmptyStore]
  /\ config = InitConfig
  /\ now = [c \in Chain |-> 0]
  /\ tx = NoTx

-----------------------------------------------------------------------------
(* A message call reads and writes the innermost storage of its chain: the *)
(* call in progress if there is one, the committed storage otherwise.      *)

InCall(c) == tx # NoTx /\ tx.chain = c /\ tx.calling
Running(c) == tx = NoTx \/ InCall(c)
Current(c) == IF tx = NoTx THEN store[c] ELSE tx.inner

Write(c, st) ==
  IF tx = NoTx
  THEN store' = [store EXCEPT ![c] = st] /\ UNCHANGED tx
  ELSE tx' = [tx EXCEPT !.inner = st] /\ UNCHANGED store

-----------------------------------------------------------------------------
(* Outbound requests.                                                      *)

\* _createRequest does not revert.
CanCreate(st, c, d, r) ==
  /\ d # c
  /\ r.targetContract # ZeroAddress
  /\ r.sender # ZeroAddress
  /\ r.weight <= config[c].remote.bytes
  /\ r.targetFee <= config[c].remote.gas
  /\ r.callerFee <= config[c].local.gas
  /\ st.nonce[d] < MaxNonce

CreatedId(st, c, d) == <<c, d, st.nonce[d] + 1>>

\* Mutant: one nonce for all target chains.
CreateRequestGlobalNonce(st, c, d, r) ==
  [st EXCEPT !.nonce = [x \in Chain |-> @[x] + 1],
             !.requests = Put(@, CreatedId(st, c, d), r)]

CreateRequest(st, c, d, r) ==
  [st EXCEPT !.nonce[d] = @ + 1,
             !.requests = Put(@, CreatedId(st, c, d), r)]

OutboundRequest(c, who, target, call, w, twoWay, tf, cf) ==
  [targetContract |-> target, sender |-> who, methodCall |-> call,
   weight |-> w, callback |-> twoWay, error |-> twoWay, twoWay |-> twoWay,
   executed |-> FALSE, sourceRequest |-> NoId, handler |-> "none",
   targetFee |-> tf, callerFee |-> cf, timestamp |-> now[c]]

Send(c, d, r) ==
  /\ Running(c)
  /\ ~ config[c].paused
  /\ Current(c).nonce[d] < SendBound[c][d]
  /\ CanCreate(Current(c), c, d, r)
  /\ Write(c, CreateRequest(Current(c), c, d, r))
  /\ UNCHANGED <<config, now>>

SendTwoWayMessage(c, d, who, target, call, w, tf, cf) ==
  Send(c, d, OutboundRequest(c, who, target, call, w, TRUE, tf, cf))

SendOneWayMessage(c, d, who, target, call, w, tf) ==
  Send(c, d, OutboundRequest(c, who, target, call, w, FALSE, tf, 0))

-----------------------------------------------------------------------------
(* Return legs: respond, raise and system errors.                          *)

\* A leg answers request id; it is one-way and pays with the caller fee.
ReturnLeg(st, c, id, sender, handler, w) ==
  LET incoming == st.incoming[id]
  IN  [targetContract |-> incoming.sender, sender |-> sender,
       methodCall |-> "raw", weight |-> w, callback |-> FALSE,
       error |-> incoming.error, twoWay |-> FALSE, executed |-> FALSE,
       sourceRequest |-> id, handler |-> handler,
       targetFee |-> incoming.callerFee, callerFee |-> 0,
       timestamp |-> now[c]]

SendLeg(st, c, d, id, leg) ==
  [CreateRequest(st, c, d, leg) EXCEPT
     !.responses = Put(@, id, CreatedId(st, c, d))]

\* Mutants: an answered item may be answered again; anyone may answer.
CanReplyAgain(st, id, who, isRaise) ==
  /\ id \in DOMAIN st.incoming
  /\ who = st.incoming[id].targetContract
  /\ st.incoming[id].twoWay
  /\ st.incoming[id].callerFee # 0

CanReplyAnyone(st, id, who, isRaise) ==
  /\ id \in DOMAIN st.incoming \ DOMAIN st.responses
  /\ st.incoming[id].twoWay
  /\ st.incoming[id].callerFee # 0

\* The checks of _reply for the item of the current context.
CanReply(st, id, who, isRaise) ==
  /\ id \notin DOMAIN st.responses
  /\ id \in DOMAIN st.incoming
  /\ who = st.incoming[id].targetContract
  /\ st.incoming[id].twoWay
  /\ st.incoming[id].callerFee # 0
  /\ IF isRaise THEN st.incoming[id].error ELSE st.incoming[id].callback
  /\ st.incoming[id].sender # ZeroAddress

\* respond (isRaise = FALSE) and raise (isRaise = TRUE).
Reply(c, who, isRaise, w) ==
  /\ Running(c)
  /\ Current(c).context # NoContext
  /\ LET st == Current(c)
         id == st.context.requestId
         d == st.context.remoteChain
         leg == ReturnLeg(st, c, id, who,
                          IF isRaise THEN "error" ELSE "callback", w)
     IN  /\ CanReply(st, id, who, isRaise)
         /\ w <= config[c].maxReply
         /\ CanCreate(st, c, d, leg)
         /\ Write(c, SendLeg(st, c, d, id, leg))
  /\ UNCHANGED <<config, now>>

\* Mutants: no leg for a request already executed; no leg, instead of a
\* revert, when the leg's budget is above the cap.
SystemErrorSendsUnexecuted(st, id) ==
  /\ st.incoming[id].error
  /\ id \notin DOMAIN st.responses
  /\ st.incoming[id].callerFee # 0
  /\ ~ st.incoming[id].executed

SystemErrorSendsIfCheap(st, id) ==
  /\ st.incoming[id].error
  /\ id \notin DOMAIN st.responses
  /\ st.incoming[id].callerFee \in 1 .. config[Target(id)].remote.gas

\* _sendSystemErrorCallbackWithCode: whether it creates a leg, whether
\* creating it reverts, and the storage it leaves.
SystemErrorSends(st, id) ==
  /\ st.incoming[id].error
  /\ id \notin DOMAIN st.responses
  /\ st.incoming[id].sender # ZeroAddress
  /\ st.incoming[id].callerFee # 0

\* Mutant: the leg is given the unused target budget as well.
SystemErrorLegDouble(st, c, id) ==
  [ReturnLeg(st, c, id, SystemSender, "error", SystemErrorWeight) EXCEPT
     !.targetFee = @ + st.incoming[id].targetFee]

SystemErrorLeg(st, c, id) ==
  ReturnLeg(st, c, id, SystemSender, "error", SystemErrorWeight)

CanSystemError(st, c, id) ==
  SystemErrorSends(st, id) =>
    CanCreate(st, c, Source(id), SystemErrorLeg(st, c, id))

SystemErrorCallback(st, c, id) ==
  IF SystemErrorSends(st, id)
  THEN SendLeg(st, c, Source(id), id, SystemErrorLeg(st, c, id))
  ELSE st

\* Mutant: system errors are recognised by their having an error handler.
InboxErrorTypeByHandler(st) ==
  LET incoming == st.incoming[st.context.requestId]
  IN  IF incoming.error THEN "SystemError" ELSE "NotErrorContext"

\* inboxErrorType, as a target contract sees it during its call.
InboxErrorType(st) ==
  LET incoming == st.incoming[st.context.requestId]
      original == st.requests[incoming.sourceRequest]
  IN  CASE incoming.sender = SystemSender -> "SystemError"
        [] /\ incoming.sender # SystemSender
           /\ incoming.sourceRequest \in DOMAIN st.requests
           /\ original.error -> "Exception"
        [] OTHER -> "NotErrorContext"

-----------------------------------------------------------------------------
(* Batches.                                                                *)

\* Mutants: the first nonce is zero; the last nonce is expected again.
NextNonceFromZero(st, s) == IF st.last[s] = NoId THEN 0 ELSE Nonce(st.last[s]) + 1
NextNonceStale(st, s) == IF st.last[s] = NoId THEN 1 ELSE Nonce(st.last[s])

\* The nonce batchProcessRequests expects next from s.
NextNonce(st, s) == IF st.last[s] = NoId THEN 1 ELSE Nonce(st.last[s]) + 1

BeginBatch(c, s) ==
  /\ tx = NoTx
  /\ ~ config[c].paused
  /\ s # c
  /\ tx' = [kind |-> "batch", chain |-> c, source |-> s, item |-> NoId,
            allowedNonce |-> NextNonce(store[c], s), count |-> 0,
            calling |-> FALSE, work |-> store[c], inner |-> store[c]]
  /\ UNCHANGED <<store, config, now>>

\* Mutant: any nonce not seen yet will do.
AdmissibleWithGaps(id, r) ==
  /\ Source(id) = tx.source
  /\ Target(id) = tx.chain
  /\ Nonce(id) >= tx.allowedNonce
  /\ id \notin DOMAIN tx.work.incoming

\* Checks every item passes, whatever its target.
Admissible(id, r) ==
  /\ Source(id) = tx.source
  /\ Target(id) = tx.chain
  /\ Nonce(id) = tx.allowedNonce
  /\ id \notin DOMAIN tx.work.incoming
  /\ r.sender # ZeroAddress

WithinCaps(c, r) ==
  /\ r.weight <= config[c].local.bytes
  /\ r.targetFee <= config[c].local.gas
  /\ r.callerFee <= config[c].remote.gas

\* The miner takes its items from the logs of the source chains.
Loading(id) ==
  /\ tx # NoTx
  /\ tx.kind = "batch"
  /\ ~ tx.calling
  /\ tx.count < MaxBatch
  /\ id \in DOMAIN store[Source(id)].requests
  /\ Admissible(id, store[Source(id)].requests[id])

\* The record an ingested request leaves in incomingRequests.
Ingested(id, executed) ==
  [store[Source(id)].requests[id] EXCEPT !.executed = executed,
                                         !.timestamp = now[tx.chain]]

Reject(id) ==
  [Ingested(id, TRUE) EXCEPT !.targetContract = ZeroAddress,
                             !.methodCall = "raw", !.weight = 0,
                             !.handler = "none"]

\* A one-way item that answers a request of this chain marks it executed.
AnswersPending(st, id) ==
  /\ st.incoming[id].sourceRequest # NoId
  /\ ~ st.incoming[id].twoWay
  /\ st.incoming[id].sourceRequest \in DOMAIN st.requests
  /\ ~ st.requests[st.incoming[id].sourceRequest].executed

\* Mutants: only a leg whose callback succeeded marks the original; a failed
\* callback is signalled as success.
MarkOnSuccess(st, id) ==
  IF AnswersPending(st, id) /\ id \notin DOMAIN st.errors
  THEN [st EXCEPT
          !.requests[st.incoming[id].sourceRequest].executed = TRUE,
          !.succeeded = @ \cup {<<"mined", id>>}]
  ELSE st

MarkAndSignal(st, id) ==
  IF AnswersPending(st, id)
  THEN [st EXCEPT
          !.requests[st.incoming[id].sourceRequest].executed = TRUE,
          !.succeeded = @ \cup {<<"mined", id>>}]
  ELSE st

\* Success is signalled for a leg that left no error; a rejected one has one.
MarkOriginal(st, id) ==
  IF AnswersPending(st, id)
  THEN [st EXCEPT
          !.requests[st.incoming[id].sourceRequest].executed = TRUE,
          !.succeeded = IF id \in DOMAIN st.errors
                        THEN @ ELSE @ \cup {<<"mined", id>>}]
  ELSE st

\* The item is done: the batch goes on with the next nonce.
Finish(id, st) ==
  tx' = [tx EXCEPT !.item = id, !.allowedNonce = @ + 1, !.count = @ + 1,
                   !.calling = FALSE, !.work = st, !.inner = st]

RejectItem(id) ==
  /\ Loading(id)
  /\ LET st == [tx.work EXCEPT
                  !.incoming = Put(@, id, Reject(id)),
                  !.errors = Put(@, id, MinerRejected)]
         twoWay == st.incoming[id].twoWay
     IN  /\ twoWay => CanSystemError(st, tx.chain, id)
         /\ Finish(id, MarkOriginal(
              IF twoWay THEN SystemErrorCallback(st, tx.chain, id) ELSE st, id))
  /\ UNCHANGED <<store, config, now>>

\* What _safeEncodeMethodCall can return for a call on chain c.
EncodeResults(c, call) ==
  CASE call = "raw"      -> {TRUE}
    [] call = "rawTyped" -> {FALSE}
    [] call = "typed"    -> IF c \in MpcChain THEN BOOLEAN ELSE {FALSE}

MineEncodeFailure(id) ==
  /\ Loading(id)
  /\ WithinCaps(tx.chain, store[Source(id)].requests[id])
  /\ FALSE \in EncodeResults(tx.chain, store[Source(id)].requests[id].methodCall)
  /\ LET st == [tx.work EXCEPT
                  !.incoming = Put(@, id, Ingested(id, TRUE)),
                  !.errors = Put(@, id, EncodeFailed)]
     IN  /\ CanSystemError(st, tx.chain, id)
         /\ Finish(id, MarkOriginal(SystemErrorCallback(st, tx.chain, id), id))
  /\ UNCHANGED <<store, config, now>>

ContextOf(st, id) ==
  [remoteChain |-> Source(id), remoteContract |-> st.incoming[id].sender,
   requestId |-> id]

\* Record the item, set the context and call the target contract.
MineCall(id) ==
  /\ Loading(id)
  /\ WithinCaps(tx.chain, store[Source(id)].requests[id])
  /\ TRUE \in EncodeResults(tx.chain, store[Source(id)].requests[id].methodCall)
  /\ LET recorded == [tx.work EXCEPT
                        !.incoming = Put(@, id, Ingested(id, FALSE))]
         st == [recorded EXCEPT !.context = ContextOf(recorded, id)]
     IN  tx' = [tx EXCEPT !.item = id, !.calling = TRUE,
                          !.work = st, !.inner = st]
  /\ UNCHANGED <<store, config, now>>

\* Mutant: the context survives the call.
ExecutedInContext(st, id) == [st EXCEPT !.incoming[id].executed = TRUE]

Executed(st, id) ==
  [st EXCEPT !.context = NoContext, !.incoming[id].executed = TRUE]

CallReturns ==
  /\ tx # NoTx
  /\ tx.kind = "batch"
  /\ tx.calling
  /\ Finish(tx.item, MarkOriginal(Executed(tx.inner, tx.item), tx.item))
  /\ UNCHANGED <<store, config, now>>

\* The call failed or ran out of gas: what it wrote is gone.
CallReverts ==
  /\ tx # NoTx
  /\ tx.kind = "batch"
  /\ tx.calling
  /\ LET st == [Executed(tx.work, tx.item) EXCEPT
                  !.errors = Put(@, tx.item, ExecutionFailed)]
     IN  Finish(tx.item, MarkOriginal(st, tx.item))
  /\ UNCHANGED <<store, config, now>>

CommitBatch ==
  /\ tx # NoTx
  /\ tx.kind = "batch"
  /\ ~ tx.calling
  /\ tx.count > 0
  /\ store' = [store EXCEPT ![tx.chain] =
                 [tx.work EXCEPT !.last[tx.source] = tx.item]]
  /\ tx' = NoTx
  /\ UNCHANGED <<config, now>>

\* Any transaction can revert as a whole; a retry whose call fails must.
Revert ==
  /\ tx # NoTx
  /\ tx' = NoTx
  /\ UNCHANGED <<store, config, now>>

-----------------------------------------------------------------------------
(* Retries.                                                                *)

\* Mutants: retries ignore the pause; any recorded error is retryable.
RetryableWhilePaused(c, id) ==
  /\ tx = NoTx
  /\ id \in DOMAIN store[c].incoming \cap DOMAIN store[c].errors
  /\ store[c].incoming[id].executed
  /\ store[c].errors[id] = ExecutionFailed

RetryableAnyError(c, id) ==
  /\ tx = NoTx
  /\ ~ config[c].paused
  /\ id \in DOMAIN store[c].incoming \cap DOMAIN store[c].errors
  /\ store[c].incoming[id].executed

Retryable(c, id) ==
  /\ tx = NoTx
  /\ ~ config[c].paused
  /\ id \in DOMAIN store[c].incoming
  /\ store[c].incoming[id].executed
  /\ id \in DOMAIN store[c].errors
  /\ store[c].errors[id] = ExecutionFailed

PastLife(c, id) ==
  /\ config[c].life # 0
  /\ now[c] > store[c].incoming[id].timestamp + config[c].life

ExpireOnRetry(c, id) ==
  /\ Retryable(c, id)
  /\ PastLife(c, id)
  /\ LET st == [store[c] EXCEPT !.errors[id] = Expired]
     IN  /\ CanSystemError(st, c, id)
         /\ store' = [store EXCEPT ![c] = SystemErrorCallback(st, c, id)]
  /\ UNCHANGED <<config, now, tx>>

BeginRetry(c, id) ==
  /\ Retryable(c, id)
  /\ ~ PastLife(c, id)
  /\ TRUE \in EncodeResults(c, store[c].incoming[id].methodCall)
  /\ LET st == [store[c] EXCEPT !.context = ContextOf(store[c], id)]
     IN  tx' = [kind |-> "retry", chain |-> c, source |-> Source(id),
                item |-> id, allowedNonce |-> Nonce(id), count |-> 0,
                calling |-> TRUE, work |-> st, inner |-> st]
  /\ UNCHANGED <<store, config, now>>

RetrySucceeds ==
  /\ tx # NoTx
  /\ tx.kind = "retry"
  /\ store' = [store EXCEPT ![tx.chain] =
       [tx.inner EXCEPT !.context = NoContext,
                        !.errors = Remove(@, tx.item),
                        !.succeeded = @ \cup {<<"retried", tx.item>>}]]
  /\ tx' = NoTx
  /\ UNCHANGED <<config, now>>

-----------------------------------------------------------------------------
(* Owner and clock.                                                        *)

SetMessageProcessingPaused(c, b) ==
  /\ tx = NoTx
  /\ config' = [config EXCEPT ![c].paused = b]
  /\ UNCHANGED <<store, now, tx>>

UpdateMinFeeConfigs(c, local, remote) ==
  /\ tx = NoTx
  /\ config' = [config EXCEPT ![c].local = local, ![c].remote = remote]
  /\ UNCHANGED <<store, now, tx>>

SetMaxReplyMethodCallBytes(c, bytes) ==
  /\ tx = NoTx
  /\ config' = [config EXCEPT ![c].maxReply = bytes]
  /\ UNCHANGED <<store, now, tx>>

SetMaxMessageLife(c, life) ==
  /\ tx = NoTx
  /\ config' = [config EXCEPT ![c].life = life]
  /\ UNCHANGED <<store, now, tx>>

Tick(c) ==
  /\ tx = NoTx
  /\ now[c] < MaxTime[c]
  /\ now' = [now EXCEPT ![c] = @ + 1]
  /\ UNCHANGED <<store, config, tx>>

-----------------------------------------------------------------------------

Sends ==
  \E c, d \in Chain, who, target \in Contract, call \in SendCalls,
     w \in Weight, tf \in FeeGas :
    \/ SendOneWayMessage(c, d, who, target, call, w, tf)
    \/ \E cf \in FeeGas :
         SendTwoWayMessage(c, d, who, target, call, w, tf, cf)

Replies ==
  \E c \in Chain, who \in Contract, isRaise \in BOOLEAN, w \in Weight :
    Reply(c, who, isRaise, w)

Batches ==
  \/ \E c, s \in Chain : BeginBatch(c, s)
  \/ \E s \in Chain : \E id \in DOMAIN store[s].requests :
       RejectItem(id) \/ MineEncodeFailure(id) \/ MineCall(id)
  \/ CallReturns
  \/ CallReverts
  \/ CommitBatch
  \/ Revert

Retries ==
  \/ \E c \in Chain : \E id \in DOMAIN store[c].incoming :
       ExpireOnRetry(c, id) \/ BeginRetry(c, id)
  \/ RetrySucceeds

Administration ==
  \E c \in Chain :
    \/ \E b \in BOOLEAN : SetMessageProcessingPaused(c, b)
    \/ \E local, remote \in FeeCaps : UpdateMinFeeConfigs(c, local, remote)
    \/ \E bytes \in ReplyCaps : SetMaxReplyMethodCallBytes(c, bytes)
    \/ \E life \in Lives : SetMaxMessageLife(c, life)

Next == Sends \/ Replies \/ Batches \/ Retries \/ Administration
          \/ \E c \in Chain : Tick(c)

Spec == Init /\ [][Next]_vars

=============================================================================
