-------------------------- MODULE InboxProperties --------------------------
(***************************************************************************)
(* What the inboxes promise.  Invariants of one inbox are predicates of a  *)
(* storage, so that they can be asserted of the committed storage and of   *)
(* the copies a transaction in progress works on.                          *)
(***************************************************************************)
EXTENDS Inbox

IsMap(f, S, T) ==
  /\ f = [x \in DOMAIN f |-> f[x]]
  /\ DOMAIN f \subseteq S
  /\ \A x \in DOMAIN f : f[x] \in T

StoreField == {"requests", "nonce", "incoming", "responses", "errors",
               "last", "context", "succeeded"}

StoreOK(st) ==
  /\ DOMAIN st = StoreField
  /\ st = [field \in StoreField |-> st[field]]
  /\ IsMap(st.requests, Id, Request)
  /\ st.nonce \in [Chain -> Nat]
  /\ IsMap(st.incoming, Id, Request)
  /\ IsMap(st.responses, Id, Id)
  /\ IsMap(st.errors, Id, ExecutionFailed .. Expired)
  /\ st.last \in [Chain -> Id \cup {NoId}]
  /\ st.context \in Context \cup {NoContext}
  /\ st.succeeded \subseteq {"mined", "retried"} \X Id

TxField == {"kind", "chain", "source", "item", "allowedNonce", "count",
            "calling", "work", "inner"}

TxOK ==
  /\ DOMAIN tx = TxField
  /\ tx = [field \in TxField |-> tx[field]]
  /\ tx.kind \in {"batch", "retry"}
  /\ tx.chain \in Chain
  /\ tx.source \in Chain
  /\ tx.item \in Id \cup {NoId}
  /\ tx.kind = "retry" \/ tx.calling \/ tx.count > 0 => tx.item \in Id
  /\ tx.allowedNonce \in Nat \ {0}
  /\ tx.count \in 0 .. MaxBatch
  /\ tx.calling => tx.count < MaxBatch
  /\ tx.calling \in BOOLEAN
  /\ StoreOK(tx.work)
  /\ StoreOK(tx.inner)

\* Every variable has its type.
TypeOK ==
  /\ store = [c \in Chain |-> store[c]]
  /\ \A c \in Chain : StoreOK(store[c])
  /\ config \in [Chain -> Config]
  /\ now \in [Chain -> Nat]
  /\ tx = NoTx \/ TxOK

\* The storages of chain c: committed, and those of a transaction on it.
Storages(c) ==
  {store[c]} \cup
  IF tx # NoTx /\ tx.chain = c THEN {tx.work, tx.inner} ELSE {}

-----------------------------------------------------------------------------
(* Answers.                                                                *)

\* inboxResponses and the linked requests name each other.
AnswersLinked(st) ==
  /\ \A id \in DOMAIN st.responses :
       /\ st.responses[id] \in DOMAIN st.requests
       /\ st.requests[st.responses[id]].sourceRequest = id
       /\ Target(st.responses[id]) = Source(id)
  /\ \A leg \in DOMAIN st.requests :
       LET id == st.requests[leg].sourceRequest
       IN  id # NoId => /\ id \in DOMAIN st.responses
                        /\ st.responses[id] = leg

\* An inbox sends at most one return leg for an incoming request, back to the
\* chain it came from, whatever mix of respond, raise, system errors, failed
\* calls, retries and expiry happens: inboxResponses and the outbound legs
\* are a bijection, in committed storage and inside every transaction.
OneReturnLeg == \A c \in Chain : \A st \in Storages(c) : AnswersLinked(st)

\* The storage a call in progress leaves if it returns now: a retry that
\* returns removes the error of its item.
IfCallReturns ==
  IF tx.kind = "retry"
  THEN [tx.inner EXCEPT !.errors = Remove(@, tx.item)]
  ELSE tx.inner

\* Error codes and answers of one incoming request agree.
OutcomesAgree(st) ==
  /\ \A id \in DOMAIN st.errors :
       /\ id \in DOMAIN st.incoming
       /\ st.incoming[id].executed
       /\ st.errors[id] = ExecutionFailed => id \notin DOMAIN st.responses
       /\ /\ st.errors[id] # ExecutionFailed
          /\ st.incoming[id].error
          /\ st.incoming[id].callerFee # 0
          => id \in DOMAIN st.responses
  /\ \A id \in DOMAIN st.responses :
       /\ id \in DOMAIN st.incoming
       /\ st.incoming[id].twoWay
       /\ id \in DOMAIN st.errors <=>
            st.requests[st.responses[id]].sender = SystemSender

\* POD-03 of the audit: failing is retryable, answering is terminal, and the
\* two exclude each other.  A request whose call failed has sent no answer;
\* a terminal failure (encode, reject, expiry) of a funded two-way request
\* has been answered by the inbox itself; an application's answer leaves no
\* error behind.
OutcomesExclusive ==
  /\ \A c \in Chain : OutcomesAgree(store[c])
  /\ tx # NoTx => OutcomesAgree(tx.work) /\ OutcomesAgree(IfCallReturns)

\* A return leg is made by the contract the request was addressed to, or by
\* the inbox, goes to the account that sent the request, under its error
\* selector, carries the whole prepaid callback budget, and cannot ask for an
\* answer itself: legs never start a ping-pong.
LegsAnswerTheirRequest ==
  \A c \in Chain : \A id \in DOMAIN store[c].responses :
    LET leg == store[c].requests[store[c].responses[id]]
        request == store[Source(id)].requests[id]
    IN  /\ leg.sender \in {request.targetContract, SystemSender}
        /\ leg.targetContract = request.sender
        /\ leg.targetFee = request.callerFee
        /\ leg.error = request.error
        /\ ~ leg.twoWay /\ leg.callerFee = 0

-----------------------------------------------------------------------------
(* Lanes.                                                                  *)

\* The outbound log of a chain has no gaps, per target chain.
LogContiguous(c, st) ==
  /\ \A id \in DOMAIN st.requests :
       Source(id) = c /\ Target(id) # c /\ Nonce(id) <= st.nonce[Target(id)]
  /\ \A d \in Chain, n \in 1 .. MaxNonce :
       n <= st.nonce[d] => <<c, d, n>> \in DOMAIN st.requests

\* What was ingested is the record the source chain logged; a rejected item
\* keeps its header and loses its target and its payload.
SameMessage(received, sent, rejected) ==
  /\ received.sender = sent.sender
  /\ received.callback = sent.callback
  /\ received.error = sent.error
  /\ received.twoWay = sent.twoWay
  /\ received.sourceRequest = sent.sourceRequest
  /\ received.targetFee = sent.targetFee
  /\ received.callerFee = sent.callerFee
  /\ received.targetContract =
       IF rejected THEN ZeroAddress ELSE sent.targetContract

\* Each lane is a FIFO channel that delivers exactly once: what chain c has
\* ingested from s is a prefix of what s has logged for c, without gaps,
\* duplicates or foreign messages, even though several miners may submit
\* overlapping or stale batches and batches may revert half way.
FifoExactlyOnce ==
  \A c \in Chain :
    /\ LogContiguous(c, store[c])
    /\ \A id \in DOMAIN store[c].incoming :
         /\ Target(id) = c
         /\ Nonce(id) < NextNonce(store[c], Source(id))
         /\ id \in DOMAIN store[Source(id)].requests
         /\ SameMessage(store[c].incoming[id], store[Source(id)].requests[id],
                        /\ id \in DOMAIN store[c].errors
                        /\ store[c].errors[id] = MinerRejected)
    /\ \A s \in Chain \ {c} : \A n \in 1 .. NextNonce(store[c], s) - 1 :
         <<s, c, n>> \in DOMAIN store[c].incoming

-----------------------------------------------------------------------------
(* Acknowledgement at the source.                                          *)

\* A request is marked executed at its source exactly when a return leg that
\* answers it was ingested there, and that leg is the one answer its target
\* inbox recorded: the mark never appears early, twice or for another
\* request, and never gets lost, even if the callback itself failed.
ExecutedMeansAnswered ==
  \A c \in Chain : \A id \in DOMAIN store[c].requests :
    store[c].requests[id].executed <=>
      /\ id \in DOMAIN store[Target(id)].responses
      /\ store[Target(id)].responses[id] \in DOMAIN store[c].incoming

\* Success signals (ReturnLegCallbackSucceeded, RetryFailedRequestSuccess)
\* are final and complete: a signalled message has no error and never gets
\* one, and an ingested return leg without an error has been signalled by
\* one of the two events, never by both.
SignalsAgree(st) ==
  /\ \A signal \in st.succeeded :
       signal[2] \in DOMAIN st.incoming /\ signal[2] \notin DOMAIN st.errors
  /\ \A id \in DOMAIN st.incoming \ DOMAIN st.errors :
       st.incoming[id].sourceRequest # NoId =>
         (<<"mined", id>> \in st.succeeded) # (<<"retried", id>> \in st.succeeded)

SuccessSignalsFinal == \A c \in Chain : SignalsAgree(store[c])

\* The execution context is set exactly while a target contract runs, and
\* names the item being executed: no committed storage carries a context
\* that a later transaction could answer under.
ContextOnlyDuringCall ==
  /\ \A c \in Chain : store[c].context = NoContext
  /\ tx # NoTx =>
       IF tx.calling
       THEN /\ tx.inner.context # NoContext
            /\ tx.inner.context.requestId = tx.item
            /\ tx.inner.context.remoteChain = tx.source
       ELSE tx.inner.context = NoContext

\* The storage the running target contract sees through the inbox.
CallContext == tx # NoTx /\ tx.calling /\ tx.inner.context # NoContext

\* A contract called on its own chain can tell from inboxErrorType() why it
\* is called: SystemError exactly if the peer inbox gave the request up (its
\* error is on record there), NotErrorContext exactly if it is called by a
\* new request and not by an answer.
ErrorTypeTellsOrigin ==
  CallContext =>
    LET id == tx.inner.context.requestId
        original == tx.inner.incoming[id].sourceRequest
        type == InboxErrorType(tx.inner)
    IN  /\ type = "NotErrorContext" <=> original = NoId
        /\ type = "SystemError" <=>
             /\ original # NoId
             /\ original \in DOMAIN store[Source(id)].errors

-----------------------------------------------------------------------------
(* Steps.                                                                  *)

\* While messaging is paused the inbox's messages do not change: no send, no
\* ingestion, no retry, no expiry and no answer gets through.
PauseHaltsMessaging ==
  [][\A c \in Chain : config[c].paused => store'[c] = store[c]]_vars

-----------------------------------------------------------------------------
(* The reject hatch.                                                       *)

\* The next item of a lane: logged by s, not yet ingested by c.
Pending(s, c) ==
  /\ s # c
  /\ <<s, c, NextNonce(store[c], s)>> \in DOMAIN store[s].requests

\* Rejecting the next item of a lane would not revert: its system-error leg
\* can be created.
CanReject(s, c) ==
  LET id == <<s, c, NextNonce(store[c], s)>>
      st == [store[c] EXCEPT !.incoming = Put(@, id, store[s].requests[id])]
  IN  st.incoming[id].twoWay => CanSystemError(st, c, id)

\* The miner's way out of an item it cannot or will not execute is to submit
\* it as a reject item.  As long as no owner changes the fee caps, every
\* pending item of every lane can be rejected at any time.
RejectHatchOpen ==
  tx = NoTx => \A s, c \in Chain : Pending(s, c) => CanReject(s, c)

\* SIZE_CAPS_AND_MINER_REJECT.md:83: if a normal item is overweight, ingest
\* reverts; resubmit that nonce as a reject item.
OverweightCanBeRejected ==
  tx = NoTx =>
    \A s, c \in Chain :
      /\ Pending(s, c)
      /\ store[s].requests[<<s, c, NextNonce(store[c], s)>>].weight
           > config[c].local.bytes
      => CanReject(s, c)

-----------------------------------------------------------------------------
(* Liveness.  The miner keeps submitting batches for every lane that has    *)
(* something pending, a transaction ends, batches do not revert for ever,  *)
(* and the owner lifts a pause at some time.  Nothing is assumed of        *)
(* applications, targets or retriers.                                      *)

IngestFrom(s, c) ==
  /\ tx # NoTx
  /\ tx.chain = c
  /\ \E id \in DOMAIN store[s].requests :
       RejectItem(id) \/ MineEncodeFailure(id) \/ MineCall(id)

CommitFrom(s, c) ==
  /\ tx # NoTx
  /\ tx.chain = c
  /\ tx.source = s
  /\ CommitBatch

Fairness ==
  /\ \A c \in Chain : \A s \in Chain \ {c} :
       /\ SF_vars(Pending(s, c) /\ BeginBatch(c, s))
       /\ SF_vars(IngestFrom(s, c))
       /\ SF_vars(CommitFrom(s, c))
  /\ SF_vars(CallReturns \/ CallReverts)
  /\ WF_vars(Revert)
  /\ \A c \in Chain :
       SF_vars(config[c].paused /\ SetMessageProcessingPaused(c, FALSE))

FairSpec == Spec /\ Fairness

\* Every request a chain has logged is ingested by its target chain, as a
\* call, an encode failure or a rejection: no message, failure, reverting
\* batch or pause blocks the messages behind it for ever.
EveryRequestIngested ==
  \A c \in Chain : \A s \in Chain \ {c} : \A n \in 1 .. MaxNonce :
    <<s, c, n>> \in DOMAIN store[s].requests
      ~> <<s, c, n>> \in DOMAIN store[c].incoming

\* Every answer, from the application or from the inbox, reaches the chain
\* that asked and marks the request there.
EveryAnswerReturns ==
  \A c \in Chain : \A s \in Chain \ {c} : \A n \in 1 .. MaxNonce :
    <<s, c, n>> \in DOMAIN store[c].responses
      ~> /\ <<s, c, n>> \in DOMAIN store[s].requests
         /\ store[s].requests[<<s, c, n>>].executed

=============================================================================
