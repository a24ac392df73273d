---------------------------- MODULE InboxProofs ----------------------------
(* Proofs about the inboxes, for all chains, contracts, caps and bounds.   *)
EXTENDS InboxProperties, TLAPS

-----------------------------------------------------------------------------
(* Maps and ids.                                                           *)

\* Writing an entry of the right type keeps a mapping well typed.
LEMMA PutMap ==
  ASSUME NEW S, NEW T, NEW f, IsMap(f, S, T), NEW k \in S, NEW v \in T
  PROVE  IsMap(Put(f, k, v), S, T)
BY DEF IsMap, Put

\* Deleting an entry keeps a mapping well typed.
LEMMA RemoveMap ==
  ASSUME NEW S, NEW T, NEW f, IsMap(f, S, T), NEW k
  PROVE  IsMap(Remove(f, k), S, T)
BY DEF IsMap, Remove

\* The parts of a request id have their types.
LEMMA IdParts ==
  ASSUME NEW id \in Id
  PROVE  /\ Source(id) \in Chain
         /\ Target(id) \in Chain
         /\ Nonce(id) \in Nat \ {0}
         /\ id = <<Source(id), Target(id), Nonce(id)>>
BY DEF Id, Source, Target, Nonce

-----------------------------------------------------------------------------
(* Handlers map well-typed storage to well-typed storage.                  *)

\* _createRequest appends a well-typed request.
LEMMA CreateRequestType ==
  ASSUME NEW st, StoreOK(st), NEW c \in Chain, NEW d \in Chain,
         NEW r \in Request
  PROVE  /\ StoreOK(CreateRequest(st, c, d, r))
         /\ CreatedId(st, c, d) \in Id
<1>1. st.nonce[d] \in Nat
  BY DEF StoreOK
<1>2. CreatedId(st, c, d) \in Id
  BY <1>1 DEF CreatedId, Id
<1>3. IsMap(Put(st.requests, CreatedId(st, c, d), r), Id, Request)
  BY <1>2, PutMap DEF StoreOK
<1>4. [st.nonce EXCEPT ![d] = @ + 1] \in [Chain -> Nat]
  BY DEF StoreOK
<1>5. QED
  BY <1>2, <1>3, <1>4 DEF CreateRequest, StoreOK, StoreField

\* A return leg for an ingested request is a request.
LEMMA ReturnLegType ==
  ASSUME NEW st, StoreOK(st), NEW c \in Chain, NEW id \in DOMAIN st.incoming,
         NEW sender \in Address, NEW handler \in Handler, NEW w \in Nat,
         now \in [Chain -> Nat]
  PROVE  ReturnLeg(st, c, id, sender, handler, w) \in Request
BY DEF ReturnLeg, StoreOK, IsMap, Request, MethodCall

\* Sending a leg keeps storage well typed.
LEMMA SendLegType ==
  ASSUME NEW st, StoreOK(st), NEW c \in Chain, NEW d \in Chain,
         NEW id \in Id, NEW leg \in Request
  PROVE  StoreOK(SendLeg(st, c, d, id, leg))
<1>1. /\ StoreOK(CreateRequest(st, c, d, leg))
      /\ CreatedId(st, c, d) \in Id
  BY CreateRequestType
<1> DEFINE sent == CreateRequest(st, c, d, leg)
<1>2. IsMap(Put(sent.responses, id, CreatedId(st, c, d)), Id, Id)
  BY <1>1, PutMap DEF StoreOK
<1>3. QED
  BY <1>1, <1>2 DEF SendLeg, StoreOK, StoreField

\* A system-error callback keeps storage well typed.
LEMMA SystemErrorType ==
  ASSUME NEW st, StoreOK(st), NEW c \in Chain, NEW id \in DOMAIN st.incoming,
         now \in [Chain -> Nat]
  PROVE  StoreOK(SystemErrorCallback(st, c, id))
<1>1. id \in Id
  BY DEF StoreOK, IsMap
<1>2. SystemErrorLeg(st, c, id) \in Request
  BY ReturnLegType, ConstantsAssumption DEF SystemErrorLeg, Address, Handler
<1>3. StoreOK(SendLeg(st, c, Source(id), id, SystemErrorLeg(st, c, id)))
  BY <1>1, <1>2, SendLegType, IdParts
<1>4. QED
  BY <1>3 DEF SystemErrorCallback

\* Marking the original request keeps storage well typed.
LEMMA MarkOriginalType ==
  ASSUME NEW st, StoreOK(st), NEW id \in Id
  PROVE  StoreOK(MarkOriginal(st, id))
<1> DEFINE original == st.incoming[id].sourceRequest
           marked == [st.requests EXCEPT ![original].executed = TRUE]
<1>1. CASE ~ AnswersPending(st, id)
  BY <1>1 DEF MarkOriginal
<1>2. CASE AnswersPending(st, id)
  <2>1. original \in DOMAIN st.requests
    BY <1>2 DEF AnswersPending
  <2>2. st.requests[original] \in Request
    BY <2>1 DEF StoreOK, IsMap
  <2>3. [st.requests[original] EXCEPT !.executed = TRUE] \in Request
    BY <2>2 DEF Request
  <2>4. IsMap(marked, Id, Request)
    BY <2>1, <2>3 DEF StoreOK, IsMap
  <2>5. <<"mined", id>> \in {"mined", "retried"} \X Id
    OBVIOUS
  <2>6. st.succeeded \cup {<<"mined", id>>} \subseteq {"mined", "retried"} \X Id
    BY <2>5 DEF StoreOK
  <2>7. QED
    BY <1>2, <2>4, <2>6 DEF MarkOriginal, StoreOK, StoreField
<1>3. QED
  BY <1>1, <1>2

\* Setting the executed flag and clearing the context keeps storage well typed.
LEMMA ExecutedType ==
  ASSUME NEW st, StoreOK(st), NEW id
  PROVE  StoreOK(Executed(st, id))
<1>1. ASSUME NEW r \in Request
      PROVE  [r EXCEPT !.executed = TRUE] \in Request
  BY DEF Request
<1>2. \A x \in DOMAIN st.incoming : st.incoming[x] \in Request
  BY DEF StoreOK, IsMap
<1>3. IsMap([st.incoming EXCEPT ![id].executed = TRUE], Id, Request)
  BY <1>1, <1>2 DEF StoreOK, IsMap
<1>4. QED
  BY <1>3 DEF Executed, StoreOK, StoreField

\* Recording an ingested item and its error code keeps storage well typed.
LEMMA RecordType ==
  ASSUME NEW st, StoreOK(st), NEW id \in Id, NEW r \in Request,
         NEW code \in ExecutionFailed .. Expired
  PROVE  StoreOK([st EXCEPT !.incoming = Put(@, id, r),
                            !.errors = Put(@, id, code)])
<1>1. IsMap(Put(st.incoming, id, r), Id, Request)
  BY PutMap DEF StoreOK
<1>2. IsMap(Put(st.errors, id, code), Id, ExecutionFailed .. Expired)
  BY PutMap DEF StoreOK
<1>3. QED
  BY <1>1, <1>2 DEF StoreOK, StoreField

\* Recording an error code keeps storage well typed.
LEMMA ErrorType ==
  ASSUME NEW st, StoreOK(st), NEW id \in Id,
         NEW code \in ExecutionFailed .. Expired
  PROVE  StoreOK([st EXCEPT !.errors = Put(@, id, code)])
<1>1. IsMap(Put(st.errors, id, code), Id, ExecutionFailed .. Expired)
  BY PutMap DEF StoreOK
<1>2. QED
  BY <1>1 DEF StoreOK, StoreField

-----------------------------------------------------------------------------
(* Writing storage.                                                        *)

\* The storage a message call works on is well typed.
LEMMA CurrentType ==
  ASSUME TypeOK, NEW c \in Chain, Running(c)
  PROVE  StoreOK(Current(c))
BY DEF TypeOK, TxOK, Current, Running, InCall

\* Writing well-typed storage keeps every variable well typed.
LEMMA WriteType ==
  ASSUME TypeOK, NEW c \in Chain, Running(c), NEW st, StoreOK(st),
         Write(c, st), UNCHANGED <<config, now>>
  PROVE  TypeOK'
<1>1. CASE tx = NoTx
  <2>1. store' = [store EXCEPT ![c] = st] /\ tx' = NoTx
    BY <1>1 DEF Write
  <2>2. /\ store' = [d \in Chain |-> store'[d]]
        /\ \A d \in Chain : store'[d] = IF d = c THEN st ELSE store[d]
    BY <2>1 DEF TypeOK
  <2>3. \A d \in Chain : StoreOK(store'[d])
    BY <2>2 DEF TypeOK
  <2>4. QED
    BY <2>1, <2>2, <2>3 DEF TypeOK
<1>2. CASE tx # NoTx
  <2>1. TxOK
    BY <1>2 DEF TypeOK
  <2>2. tx' = [tx EXCEPT !.inner = st] /\ store' = store
    BY <1>2 DEF Write
  <2>3. TxOK'
    BY <2>1, <2>2 DEF TxOK, TxField
  <2>4. QED
    BY <2>2, <2>3 DEF TypeOK
<1>3. QED
  BY <1>1, <1>2

\* Finishing an item keeps every variable well typed.
LEMMA FinishType ==
  ASSUME TypeOK, tx # NoTx, tx.count < MaxBatch, NEW id \in Id,
         NEW st, StoreOK(st), Finish(id, st), UNCHANGED <<store, config, now>>
  PROVE  TypeOK'
<1>1. TxOK
  BY DEF TypeOK
<1>2. /\ DOMAIN tx' = TxField
      /\ tx' = [field \in TxField |-> tx'[field]]
      /\ tx'.kind = tx.kind /\ tx'.chain = tx.chain /\ tx'.source = tx.source
      /\ tx'.item = id /\ tx'.allowedNonce = tx.allowedNonce + 1
      /\ tx'.count = tx.count + 1 /\ tx'.calling = FALSE
      /\ tx'.work = st /\ tx'.inner = st
  BY <1>1 DEF TxOK, TxField, Finish
<1>3. /\ tx.allowedNonce + 1 \in Nat \ {0}
      /\ tx.count + 1 \in 0 .. MaxBatch
  BY <1>1, ConstantsAssumption DEF TxOK
<1>4. TxOK'
  BY <1>1, <1>2, <1>3 DEF TxOK
<1>5. QED
  BY <1>4 DEF TypeOK

-----------------------------------------------------------------------------
(* Every action keeps every variable well typed.                           *)

\* Application sends, one-way and two-way.
LEMMA SendsType ==
  ASSUME TypeOK, Sends
  PROVE  TypeOK'
<1>1. ASSUME NEW c \in Chain, NEW d \in Chain, NEW who \in Contract,
             NEW target \in Contract, NEW call \in SendCalls, NEW w \in Weight,
             NEW tf \in FeeGas, NEW cf \in Nat, NEW twoWay \in BOOLEAN,
             Send(c, d, OutboundRequest(c, who, target, call, w, twoWay, tf, cf))
      PROVE  TypeOK'
  <2> DEFINE r == OutboundRequest(c, who, target, call, w, twoWay, tf, cf)
  <2>1. r \in Request
    BY <1>1, ConstantsAssumption DEF OutboundRequest, Request, Address, Handler, TypeOK
  <2>2. Running(c) /\ StoreOK(Current(c))
    BY <1>1, CurrentType DEF Send
  <2>3. StoreOK(CreateRequest(Current(c), c, d, r))
    BY <2>1, <2>2, CreateRequestType
  <2>4. QED
    BY <1>1, <2>2, <2>3, WriteType DEF Send
<1>2. PICK c \in Chain, d \in Chain, who \in Contract, target \in Contract,
           call \in SendCalls, w \in Weight, tf \in FeeGas :
        \/ SendOneWayMessage(c, d, who, target, call, w, tf)
        \/ \E cf \in FeeGas :
             SendTwoWayMessage(c, d, who, target, call, w, tf, cf)
  BY DEF Sends
<1>3. CASE SendOneWayMessage(c, d, who, target, call, w, tf)
  BY <1>1, <1>3 DEF SendOneWayMessage
<1>4. ASSUME NEW cf \in FeeGas,
             SendTwoWayMessage(c, d, who, target, call, w, tf, cf)
      PROVE  TypeOK'
  <2>1. cf \in Nat
    BY ConstantsAssumption
  <2>2. QED
    BY <1>1, <1>4, <2>1 DEF SendTwoWayMessage
<1>5. QED
  BY <1>2, <1>3, <1>4

\* respond and raise.
LEMMA RepliesType ==
  ASSUME TypeOK, Replies
  PROVE  TypeOK'
<1>1. PICK c \in Chain, who \in Contract, isRaise \in BOOLEAN, w \in Weight :
        Reply(c, who, isRaise, w)
  BY DEF Replies
<1> DEFINE st == Current(c)
           id == st.context.requestId
           d == st.context.remoteChain
           handler == IF isRaise THEN "error" ELSE "callback"
           leg == ReturnLeg(st, c, id, who, handler, w)
<1>2. StoreOK(st) /\ Running(c)
  BY <1>1, CurrentType DEF Reply
<1>3. st.context \in Context
  BY <1>1, <1>2 DEF Reply, StoreOK
<1>4. id \in Id /\ d \in Chain
  BY <1>3 DEF Context
<1>5. id \in DOMAIN st.incoming
  BY <1>1 DEF Reply, CanReply
<1>6. leg \in Request
  <2>1. /\ who \in Address /\ handler \in Handler
        /\ w \in Nat /\ now \in [Chain -> Nat]
    BY ConstantsAssumption DEF Address, Handler, TypeOK
  <2>2. QED
    BY <1>2, <1>5, <2>1, ReturnLegType
<1>7. StoreOK(SendLeg(st, c, d, id, leg))
  BY <1>2, <1>4, <1>6, SendLegType
<1>8. QED
  BY <1>1, <1>2, <1>7, WriteType DEF Reply

\* Opening a batch.
LEMMA BeginBatchType ==
  ASSUME TypeOK, NEW c \in Chain, NEW s \in Chain, BeginBatch(c, s)
  PROVE  TypeOK'
<1>1. NextNonce(store[c], s) \in Nat \ {0}
  <2>1. store[c].last[s] \in Id \cup {NoId}
    BY DEF TypeOK, StoreOK
  <2>2. QED
    BY <2>1, IdParts DEF NextNonce
<1>2. StoreOK(store[c])
  BY DEF TypeOK
<1>3. TxOK'
  BY <1>1, <1>2, ConstantsAssumption DEF BeginBatch, TxOK, TxField
<1>4. QED
  BY <1>3 DEF BeginBatch, TypeOK

\* What a batch loads is a request of the source chain's log.
LEMMA LoadingType ==
  ASSUME TypeOK, NEW s \in Chain, NEW id \in DOMAIN store[s].requests, Loading(id)
  PROVE  /\ id \in Id
         /\ TxOK
         /\ tx.count < MaxBatch
         /\ \A executed \in BOOLEAN : Ingested(id, executed) \in Request
         /\ Reject(id) \in Request
<1>1. id \in Id
  BY DEF TypeOK, StoreOK, IsMap
<1>2. store[Source(id)].requests[id] \in Request
  BY <1>1, IdParts DEF TypeOK, StoreOK, IsMap, Loading
<1>3. TxOK /\ tx.count < MaxBatch
  BY DEF Loading, TypeOK
<1>4. now[tx.chain] \in Nat
  BY <1>3 DEF TypeOK, TxOK
<1>5. ASSUME NEW executed \in BOOLEAN
      PROVE  Ingested(id, executed) \in Request
  BY <1>2, <1>4 DEF Ingested, Request
<1>6. Reject(id) \in Request
  BY <1>5 DEF Reject, Request, Address, MethodCall, Handler
<1>7. QED
  BY <1>1, <1>3, <1>5, <1>6

\* Ingesting a reject item.
LEMMA RejectItemType ==
  ASSUME TypeOK, NEW s \in Chain, NEW id \in DOMAIN store[s].requests,
         RejectItem(id)
  PROVE  TypeOK'
<1> DEFINE st == [tx.work EXCEPT !.incoming = Put(@, id, Reject(id)),
                                 !.errors = Put(@, id, MinerRejected)]
           answered == IF st.incoming[id].twoWay
                       THEN SystemErrorCallback(st, tx.chain, id) ELSE st
<1>1. Loading(id) /\ Finish(id, MarkOriginal(answered, id))
  BY DEF RejectItem
<1>2. id \in Id /\ TxOK /\ tx.count < MaxBatch /\ Reject(id) \in Request
  BY <1>1, LoadingType
<1>3. StoreOK(st)
  <2>1. MinerRejected \in ExecutionFailed .. Expired
    BY DEF MinerRejected, ExecutionFailed, Expired
  <2>2. QED
    BY <1>2, <2>1, RecordType DEF TxOK
<1>4. id \in DOMAIN st.incoming
  BY <1>2 DEF Put, TxOK, StoreOK, StoreField
<1>5. StoreOK(answered)
  BY <1>2, <1>3, <1>4, SystemErrorType DEF TxOK, TypeOK
<1>6. StoreOK(MarkOriginal(answered, id))
  BY <1>2, <1>5, MarkOriginalType
<1>7. tx # NoTx
  BY <1>1 DEF Loading
<1>8. QED
  BY <1>1, <1>2, <1>6, <1>7, FinishType DEF RejectItem

\* Ingesting an item whose call cannot be encoded.
LEMMA MineEncodeFailureType ==
  ASSUME TypeOK, NEW s \in Chain, NEW id \in DOMAIN store[s].requests,
         MineEncodeFailure(id)
  PROVE  TypeOK'
<1> DEFINE st == [tx.work EXCEPT !.incoming = Put(@, id, Ingested(id, TRUE)),
                                 !.errors = Put(@, id, EncodeFailed)]
           answered == SystemErrorCallback(st, tx.chain, id)
<1>1. Loading(id) /\ Finish(id, MarkOriginal(answered, id))
  BY DEF MineEncodeFailure
<1>2. id \in Id /\ TxOK /\ tx.count < MaxBatch /\ Ingested(id, TRUE) \in Request
  BY <1>1, LoadingType
<1>3. StoreOK(st)
  <2>1. EncodeFailed \in ExecutionFailed .. Expired
    BY DEF EncodeFailed, ExecutionFailed, Expired
  <2>2. QED
    BY <1>2, <2>1, RecordType DEF TxOK
<1>4. id \in DOMAIN st.incoming
  BY <1>2 DEF Put, TxOK, StoreOK, StoreField
<1>5. StoreOK(answered)
  BY <1>2, <1>3, <1>4, SystemErrorType DEF TxOK, TypeOK
<1>6. StoreOK(MarkOriginal(answered, id))
  BY <1>2, <1>5, MarkOriginalType
<1>7. tx # NoTx
  BY <1>1 DEF Loading
<1>8. QED
  BY <1>1, <1>2, <1>6, <1>7, FinishType DEF MineEncodeFailure

\* Recording an item and calling its target contract.
LEMMA MineCallType ==
  ASSUME TypeOK, NEW s \in Chain, NEW id \in DOMAIN store[s].requests,
         MineCall(id)
  PROVE  TypeOK'
<1> DEFINE recorded == [tx.work EXCEPT !.incoming = Put(@, id, Ingested(id, FALSE))]
           st == [recorded EXCEPT !.context = ContextOf(recorded, id)]
<1>1. /\ Loading(id)
      /\ tx' = [tx EXCEPT !.item = id, !.calling = TRUE, !.work = st, !.inner = st]
      /\ UNCHANGED <<store, config, now>>
  BY DEF MineCall
<1>2. /\ id \in Id /\ TxOK /\ tx.count < MaxBatch
      /\ Ingested(id, FALSE) \in Request
  BY <1>1, LoadingType
<1>3. StoreOK(tx.work)
  BY <1>2 DEF TxOK
<1>4. IsMap(Put(tx.work.incoming, id, Ingested(id, FALSE)), Id, Request)
  BY <1>2, <1>3, PutMap DEF StoreOK
<1>5. StoreOK(recorded)
  BY <1>3, <1>4 DEF StoreOK, StoreField
<1>6. recorded.incoming[id] = Ingested(id, FALSE)
  BY <1>3 DEF Put, StoreOK, StoreField
<1>7. ContextOf(recorded, id) \in Context
  BY <1>2, <1>6, IdParts DEF ContextOf, Context, Request
<1>8. StoreOK(st)
  BY <1>5, <1>7 DEF StoreOK, StoreField
<1>9. TxOK'
  BY <1>1, <1>2, <1>8 DEF TxOK, TxField
<1>10. QED
  BY <1>1, <1>9 DEF TypeOK

\* The called contract returns.
LEMMA CallReturnsType ==
  ASSUME TypeOK, CallReturns
  PROVE  TypeOK'
<1>1. TxOK /\ tx.item \in Id /\ tx.count < MaxBatch /\ tx # NoTx
  BY DEF CallReturns, TypeOK, TxOK
<1>2. StoreOK(MarkOriginal(Executed(tx.inner, tx.item), tx.item))
  BY <1>1, ExecutedType, MarkOriginalType DEF TxOK
<1>3. QED
  BY <1>1, <1>2, FinishType DEF CallReturns

\* The called contract fails.
LEMMA CallRevertsType ==
  ASSUME TypeOK, CallReverts
  PROVE  TypeOK'
<1> DEFINE st == [Executed(tx.work, tx.item) EXCEPT
                    !.errors = Put(@, tx.item, ExecutionFailed)]
<1>1. TxOK /\ tx.item \in Id /\ tx.count < MaxBatch /\ tx # NoTx
  BY DEF CallReverts, TypeOK, TxOK
<1>2. ExecutionFailed \in ExecutionFailed .. Expired
  BY DEF ExecutionFailed, Expired
<1>3. StoreOK(Executed(tx.work, tx.item))
  BY <1>1, ExecutedType DEF TxOK
<1>4. StoreOK(MarkOriginal(st, tx.item))
  BY <1>1, <1>2, <1>3, ErrorType, MarkOriginalType
<1>5. QED
  BY <1>1, <1>4, FinishType DEF CallReverts

\* Replacing the committed storage of one chain and ending the transaction.
LEMMA CommitType ==
  ASSUME TypeOK, NEW c \in Chain, NEW st, StoreOK(st),
         store' = [store EXCEPT ![c] = st], tx' = NoTx \/ tx' = tx,
         UNCHANGED <<config, now>>
  PROVE  TypeOK'
<1>1. /\ store' = [d \in Chain |-> store'[d]]
      /\ \A d \in Chain : store'[d] = IF d = c THEN st ELSE store[d]
  BY DEF TypeOK
<1>2. \A d \in Chain : StoreOK(store'[d])
  BY <1>1 DEF TypeOK
<1>3. CASE tx' = NoTx
  BY <1>1, <1>2, <1>3 DEF TypeOK
<1>4. CASE tx' = tx
  <2>1. TxOK => TxOK'
    BY <1>4 DEF TxOK
  <2>2. QED
    BY <1>1, <1>2, <1>4, <2>1 DEF TypeOK
<1>5. QED
  BY <1>3, <1>4

\* Committing a batch.
LEMMA CommitBatchType ==
  ASSUME TypeOK, CommitBatch
  PROVE  TypeOK'
<1> DEFINE st == [tx.work EXCEPT !.last[tx.source] = tx.item]
<1>1. TxOK /\ tx.item \in Id
  BY DEF CommitBatch, TypeOK, TxOK
<1>2. StoreOK(st)
  <2>1. [tx.work.last EXCEPT ![tx.source] = tx.item] \in [Chain -> Id \cup {NoId}]
    BY <1>1 DEF TxOK, StoreOK
  <2>2. QED
    BY <1>1, <2>1 DEF TxOK, StoreOK, StoreField
<1>3. tx.chain \in Chain
  BY <1>1 DEF TxOK
<1>4. QED
  BY <1>2, <1>3, CommitType DEF CommitBatch

\* A transaction that reverts.
LEMMA RevertType ==
  ASSUME TypeOK, Revert
  PROVE  TypeOK'
BY DEF Revert, TypeOK

\* Expiry of a failed request.
LEMMA ExpireOnRetryType ==
  ASSUME TypeOK, NEW c \in Chain, NEW id \in DOMAIN store[c].incoming,
         ExpireOnRetry(c, id)
  PROVE  TypeOK'
<1> DEFINE st == [store[c] EXCEPT !.errors[id] = Expired]
<1>1. StoreOK(store[c])
  BY DEF TypeOK
<1>2. StoreOK(st)
  <2>1. Expired \in ExecutionFailed .. Expired
    BY DEF ExecutionFailed, Expired
  <2>2. IsMap([store[c].errors EXCEPT ![id] = Expired], Id, ExecutionFailed .. Expired)
    BY <1>1, <2>1 DEF StoreOK, IsMap
  <2>3. QED
    BY <1>1, <2>2 DEF StoreOK, StoreField
<1>3. id \in DOMAIN st.incoming
  BY <1>1 DEF StoreOK, StoreField
<1>4. StoreOK(SystemErrorCallback(st, c, id))
  BY <1>2, <1>3, SystemErrorType DEF TypeOK
<1>5. QED
  BY <1>4, CommitType DEF ExpireOnRetry

\* Starting a retry.
LEMMA BeginRetryType ==
  ASSUME TypeOK, NEW c \in Chain, NEW id \in DOMAIN store[c].incoming,
         BeginRetry(c, id)
  PROVE  TypeOK'
<1> DEFINE st == [store[c] EXCEPT !.context = ContextOf(store[c], id)]
<1>1. StoreOK(store[c])
  BY DEF TypeOK
<1>2. id \in Id /\ store[c].incoming[id] \in Request
  BY <1>1 DEF StoreOK, IsMap
<1>3. ContextOf(store[c], id) \in Context
  BY <1>2, IdParts DEF ContextOf, Context, Request
<1>4. StoreOK(st)
  BY <1>1, <1>3 DEF StoreOK, StoreField
<1>5. /\ Source(id) \in Chain /\ Nonce(id) \in Nat \ {0}
      /\ 0 \in 0 .. MaxBatch /\ 0 < MaxBatch
  BY <1>2, IdParts, ConstantsAssumption
<1>6. tx' = [kind |-> "retry", chain |-> c, source |-> Source(id),
             item |-> id, allowedNonce |-> Nonce(id), count |-> 0,
             calling |-> TRUE, work |-> st, inner |-> st]
  BY DEF BeginRetry
<1>7. TxOK'
  BY <1>2, <1>4, <1>5, <1>6 DEF TxOK, TxField
<1>8. QED
  BY <1>7 DEF BeginRetry, TypeOK

\* A retry whose call succeeds.
LEMMA RetrySucceedsType ==
  ASSUME TypeOK, RetrySucceeds
  PROVE  TypeOK'
<1> DEFINE st == [tx.inner EXCEPT
                    !.context = NoContext,
                    !.errors = Remove(@, tx.item),
                    !.succeeded = @ \cup {<<"retried", tx.item>>}]
<1>1. TxOK /\ tx.item \in Id /\ StoreOK(tx.inner)
  BY DEF RetrySucceeds, TypeOK, TxOK
<1>2. IsMap(Remove(tx.inner.errors, tx.item), Id, ExecutionFailed .. Expired)
  BY <1>1, RemoveMap DEF StoreOK
<1>3. tx.inner.succeeded \cup {<<"retried", tx.item>>}
        \subseteq {"mined", "retried"} \X Id
  <2>1. <<"retried", tx.item>> \in {"mined", "retried"} \X Id
    BY <1>1
  <2>2. QED
    BY <1>1, <2>1 DEF StoreOK
<1>4. StoreOK(st)
  BY <1>1, <1>2, <1>3 DEF StoreOK, StoreField
<1>5. tx.chain \in Chain
  BY <1>1 DEF TxOK
<1>6. QED
  BY <1>4, <1>5, CommitType DEF RetrySucceeds

\* Owner calls.
LEMMA AdministrationType ==
  ASSUME TypeOK, Administration
  PROVE  TypeOK'
<1>1. store' = store /\ now' = now /\ tx' = tx /\ tx = NoTx
  BY DEF Administration, SetMessageProcessingPaused, UpdateMinFeeConfigs,
         SetMaxReplyMethodCallBytes, SetMaxMessageLife
<1>2. PICK c \in Chain :
        \/ \E b \in BOOLEAN : SetMessageProcessingPaused(c, b)
        \/ \E local, remote \in FeeCaps : UpdateMinFeeConfigs(c, local, remote)
        \/ \E bytes \in ReplyCaps : SetMaxReplyMethodCallBytes(c, bytes)
        \/ \E life \in Lives : SetMaxMessageLife(c, life)
  BY DEF Administration
<1>3. config[c] \in Config
  BY DEF TypeOK
<1>4. ASSUME NEW b \in BOOLEAN, SetMessageProcessingPaused(c, b)
      PROVE  config' \in [Chain -> Config]
  <2>1. [config[c] EXCEPT !.paused = b] \in Config
    BY <1>3 DEF Config
  <2>2. QED
    BY <1>4, <2>1 DEF SetMessageProcessingPaused, TypeOK
<1>5. ASSUME NEW local \in FeeCaps, NEW remote \in FeeCaps,
             UpdateMinFeeConfigs(c, local, remote)
      PROVE  config' \in [Chain -> Config]
  <2>1. local \in Cap /\ remote \in Cap
    BY ConstantsAssumption
  <2>2. [config[c] EXCEPT !.local = local, !.remote = remote] \in Config
    BY <1>3, <2>1 DEF Config
  <2>3. QED
    BY <1>5, <2>2 DEF UpdateMinFeeConfigs, TypeOK
<1>6. ASSUME NEW bytes \in ReplyCaps, SetMaxReplyMethodCallBytes(c, bytes)
      PROVE  config' \in [Chain -> Config]
  <2>1. bytes \in Nat
    BY ConstantsAssumption
  <2>2. [config[c] EXCEPT !.maxReply = bytes] \in Config
    BY <1>3, <2>1 DEF Config
  <2>3. QED
    BY <1>6, <2>2 DEF SetMaxReplyMethodCallBytes, TypeOK
<1>7. ASSUME NEW life \in Lives, SetMaxMessageLife(c, life)
      PROVE  config' \in [Chain -> Config]
  <2>1. life \in Nat
    BY ConstantsAssumption
  <2>2. [config[c] EXCEPT !.life = life] \in Config
    BY <1>3, <2>1 DEF Config
  <2>3. QED
    BY <1>7, <2>2 DEF SetMaxMessageLife, TypeOK
<1>8. config' \in [Chain -> Config]
  BY <1>2, <1>4, <1>5, <1>6, <1>7
<1>9. QED
  BY <1>1, <1>8 DEF TypeOK

\* The clock.
LEMMA TickType ==
  ASSUME TypeOK, NEW c \in Chain, Tick(c)
  PROVE  TypeOK'
<1>1. now[c] + 1 \in Nat
  BY DEF TypeOK
<1>2. now' \in [Chain -> Nat]
  BY <1>1 DEF Tick, TypeOK
<1>3. QED
  BY <1>2 DEF Tick, TypeOK

-----------------------------------------------------------------------------
(* Type correctness.                                                       *)

\* Deployment leaves every variable well typed.
LEMMA InitType == Init => TypeOK
<1> SUFFICES ASSUME Init PROVE TypeOK
  OBVIOUS
<1>1. \A S, T : IsMap(EmptyMap, S, T)
  BY DEF IsMap, EmptyMap
<1>2. StoreOK(EmptyStore)
  BY <1>1 DEF EmptyStore, StoreOK, StoreField
<1>3. QED
  BY <1>2, ConstantsAssumption DEF Init, TypeOK

\* Every step keeps every variable well typed.
LEMMA NextType == TypeOK /\ [Next]_vars => TypeOK'
<1> SUFFICES ASSUME TypeOK, [Next]_vars PROVE TypeOK'
  OBVIOUS
<1>1. CASE Sends
  BY <1>1, SendsType
<1>2. CASE Replies
  BY <1>2, RepliesType
<1>3. CASE Batches
  <2>1. ASSUME NEW c \in Chain, NEW s \in Chain, BeginBatch(c, s)
        PROVE  TypeOK'
    BY <2>1, BeginBatchType
  <2>2. ASSUME NEW s \in Chain, NEW id \in DOMAIN store[s].requests,
               RejectItem(id) \/ MineEncodeFailure(id) \/ MineCall(id)
        PROVE  TypeOK'
    BY <2>2, RejectItemType, MineEncodeFailureType, MineCallType
  <2>3. QED
    BY <1>3, <2>1, <2>2, CallReturnsType, CallRevertsType, CommitBatchType,
       RevertType DEF Batches
<1>4. CASE Retries
  <2>1. ASSUME NEW c \in Chain, NEW id \in DOMAIN store[c].incoming,
               ExpireOnRetry(c, id) \/ BeginRetry(c, id)
        PROVE  TypeOK'
    BY <2>1, ExpireOnRetryType, BeginRetryType
  <2>2. QED
    BY <1>4, <2>1, RetrySucceedsType DEF Retries
<1>5. CASE Administration
  BY <1>5, AdministrationType
<1>6. ASSUME NEW c \in Chain, Tick(c)
      PROVE  TypeOK'
  BY <1>6, TickType
<1>7. CASE UNCHANGED vars
  BY <1>7 DEF vars, TypeOK, TxOK
<1>8. QED
  BY <1>1, <1>2, <1>3, <1>4, <1>5, <1>6, <1>7 DEF Next

\* Type correctness of the inboxes: storage, configuration and the
\* transaction in progress have their declared types in every reachable state.
THEOREM TypeCorrect == Spec => []TypeOK
<1>1. Init => TypeOK
  BY InitType
<1>2. TypeOK /\ [Next]_vars => TypeOK'
  BY NextType
<1>3. QED
  BY <1>1, <1>2, PTL DEF Spec

-----------------------------------------------------------------------------
(* One return leg per request.  The invariant adds to AnswersLinked that    *)
(* ids are taken from the counters, so that a new leg never overwrites an   *)
(* old one, and that the context of a running target names the item and    *)
(* the chain it came from, so that its answer goes back there.              *)

\* Logged ids belong to chain c and are covered by its nonce counters.
KeyedLog(c, st) ==
  \A id \in DOMAIN st.requests :
    Source(id) = c /\ Nonce(id) <= st.nonce[Target(id)]

Linked(c, st) == KeyedLog(c, st) /\ AnswersLinked(st)

InCallContext ==
  /\ Source(tx.item) = tx.source
  /\ tx.inner.context # NoContext
  /\ tx.inner.context.requestId = tx.item
  /\ tx.inner.context.remoteChain = tx.source

TxInv ==
  /\ Linked(tx.chain, tx.work)
  /\ Linked(tx.chain, tx.inner)
  /\ ~ config[tx.chain].paused
  /\ tx.kind = "retry" => tx.calling
  /\ IF tx.calling THEN InCallContext
     ELSE tx.work.context = NoContext /\ tx.inner.context = NoContext

LinkInv ==
  /\ \A c \in Chain : Linked(c, store[c]) /\ store[c].context = NoContext
  /\ tx # NoTx => TxInv

IInv == TypeOK /\ LinkInv

\* _createRequest uses a fresh id, appends the request under it and counts it.
LEMMA CreateRequestFresh ==
  ASSUME NEW st, StoreOK(st), NEW c \in Chain, NEW d \in Chain, NEW r,
         KeyedLog(c, st)
  PROVE  /\ CreatedId(st, c, d) \notin DOMAIN st.requests
         /\ Target(CreatedId(st, c, d)) = d
         /\ CreateRequest(st, c, d, r).requests
              = Put(st.requests, CreatedId(st, c, d), r)
         /\ CreateRequest(st, c, d, r).responses = st.responses
         /\ CreateRequest(st, c, d, r).context = st.context
         /\ KeyedLog(c, CreateRequest(st, c, d, r))
<1> DEFINE new == CreatedId(st, c, d)
           sent == CreateRequest(st, c, d, r)
<1>1. st.nonce \in [Chain -> Nat] /\ DOMAIN st.requests \subseteq Id
  BY DEF StoreOK, IsMap
<1>2. Source(new) = c /\ Target(new) = d /\ Nonce(new) = st.nonce[d] + 1
  BY DEF CreatedId, Source, Target, Nonce
<1>3. new \notin DOMAIN st.requests
  BY <1>1, <1>2 DEF KeyedLog
<1>4. /\ sent.requests = Put(st.requests, new, r)
      /\ sent.nonce = [st.nonce EXCEPT ![d] = @ + 1]
      /\ sent.responses = st.responses
      /\ sent.context = st.context
  BY DEF CreateRequest, StoreOK, StoreField
<1>5. KeyedLog(c, sent)
  <2> SUFFICES ASSUME NEW id \in DOMAIN sent.requests
               PROVE  Source(id) = c /\ Nonce(id) <= sent.nonce[Target(id)]
    BY DEF KeyedLog
  <2>1. CASE id = new
    BY <1>1, <1>2, <1>4, <2>1
  <2>2. CASE id # new
    <3>1. id \in DOMAIN st.requests
      BY <1>4, <2>2 DEF Put
    <3>2. Target(id) \in Chain /\ Nonce(id) \in Nat
      BY <1>1, <3>1, IdParts
    <3>3. Source(id) = c /\ Nonce(id) <= st.nonce[Target(id)]
      BY <3>1 DEF KeyedLog
    <3>4. QED
      BY <1>1, <1>4, <3>2, <3>3
  <2>3. QED
    BY <2>1, <2>2
<1>6. QED
  BY <1>2, <1>3, <1>4, <1>5

\* A request that answers nothing leaves the links alone.
LEMMA CreateRequestLinked ==
  ASSUME NEW st, StoreOK(st), NEW c \in Chain, NEW d \in Chain, NEW r,
         Linked(c, st), r.sourceRequest = NoId
  PROVE  Linked(c, CreateRequest(st, c, d, r))
<1> DEFINE new == CreatedId(st, c, d)
           sent == CreateRequest(st, c, d, r)
<1>1. /\ new \notin DOMAIN st.requests
      /\ sent.requests = Put(st.requests, new, r)
      /\ sent.responses = st.responses
      /\ KeyedLog(c, sent)
  BY CreateRequestFresh DEF Linked
<1>2. \A id \in DOMAIN st.requests : sent.requests[id] = st.requests[id]
  BY <1>1 DEF Put
<1>3. sent.requests[new] = r /\ DOMAIN sent.requests = DOMAIN st.requests \cup {new}
  BY <1>1 DEF Put
<1>4. AnswersLinked(sent)
  BY <1>1, <1>2, <1>3 DEF Linked, AnswersLinked
<1>5. QED
  BY <1>1, <1>4 DEF Linked

\* A leg for an unanswered request adds one link, back to its source.
LEMMA SendLegLinked ==
  ASSUME NEW st, StoreOK(st), NEW c \in Chain, NEW id \in Id,
         NEW leg \in Request, Linked(c, st), id \notin DOMAIN st.responses,
         leg.sourceRequest = id
  PROVE  /\ Linked(c, SendLeg(st, c, Source(id), id, leg))
         /\ SendLeg(st, c, Source(id), id, leg).context = st.context
<1> DEFINE d == Source(id)
           new == CreatedId(st, c, d)
           sent == CreateRequest(st, c, d, leg)
           done == SendLeg(st, c, d, id, leg)
<1>0. d \in Chain
  BY IdParts
<1>1. /\ new \notin DOMAIN st.requests
      /\ Target(new) = d
      /\ sent.requests = Put(st.requests, new, leg)
      /\ sent.responses = st.responses
      /\ sent.context = st.context
      /\ KeyedLog(c, sent)
      /\ StoreOK(sent)
  BY <1>0, CreateRequestFresh, CreateRequestType DEF Linked
<1>2. /\ done.requests = sent.requests
      /\ done.nonce = sent.nonce
      /\ done.context = sent.context
      /\ done.responses = Put(sent.responses, id, new)
  BY <1>1 DEF SendLeg, StoreOK, StoreField
<1>3. KeyedLog(c, done)
  BY <1>1, <1>2 DEF KeyedLog
<1>4. /\ DOMAIN done.requests = DOMAIN st.requests \cup {new}
      /\ done.requests[new] = leg
      /\ \A x \in DOMAIN st.requests : done.requests[x] = st.requests[x]
  BY <1>1, <1>2 DEF Put
<1>5. /\ DOMAIN done.responses = DOMAIN st.responses \cup {id}
      /\ done.responses[id] = new
      /\ \A x \in DOMAIN st.responses : done.responses[x] = st.responses[x]
  BY <1>1, <1>2 DEF Put
<1>6. ASSUME NEW x \in DOMAIN done.responses
      PROVE  /\ done.responses[x] \in DOMAIN done.requests
             /\ done.requests[done.responses[x]].sourceRequest = x
             /\ Target(done.responses[x]) = Source(x)
  <2>1. CASE x = id
    BY <1>1, <1>4, <1>5, <2>1
  <2>2. CASE x # id
    BY <1>4, <1>5, <2>2 DEF Linked, AnswersLinked
  <2>3. QED
    BY <2>1, <2>2
<1>7. ASSUME NEW x \in DOMAIN done.requests,
             done.requests[x].sourceRequest # NoId
      PROVE  /\ done.requests[x].sourceRequest \in DOMAIN done.responses
             /\ done.responses[done.requests[x].sourceRequest] = x
  <2>1. CASE x = new
    BY <1>4, <1>5, <2>1
  <2>2. CASE x # new
    BY <1>4, <1>5, <1>7, <2>2 DEF Linked, AnswersLinked
  <2>3. QED
    BY <2>1, <2>2
<1>8. AnswersLinked(done)
  BY <1>6, <1>7 DEF AnswersLinked
<1>9. QED
  BY <1>1, <1>2, <1>3, <1>8 DEF Linked

\* Links depend on three fields of storage only.
LEMMA SameLinks ==
  ASSUME NEW c, NEW st, NEW other, Linked(c, st),
         other.requests = st.requests, other.responses = st.responses,
         other.nonce = st.nonce
  PROVE  Linked(c, other)
BY DEF Linked, KeyedLog, AnswersLinked

\* A system-error callback answers only what is unanswered.
LEMMA SystemErrorLinked ==
  ASSUME NEW st, StoreOK(st), NEW c \in Chain, NEW id \in DOMAIN st.incoming,
         now \in [Chain -> Nat], Linked(c, st)
  PROVE  /\ Linked(c, SystemErrorCallback(st, c, id))
         /\ SystemErrorCallback(st, c, id).context = st.context
<1> DEFINE leg == SystemErrorLeg(st, c, id)
<1>1. id \in Id
  BY DEF StoreOK, IsMap
<1>2. leg \in Request
  BY ReturnLegType, ConstantsAssumption DEF SystemErrorLeg, Address, Handler
<1>3. leg.sourceRequest = id
  BY DEF SystemErrorLeg, ReturnLeg
<1>4. CASE SystemErrorSends(st, id)
  <2>1. id \notin DOMAIN st.responses
    BY <1>4 DEF SystemErrorSends
  <2>2. QED
    BY <1>1, <1>2, <1>3, <1>4, <2>1, SendLegLinked DEF SystemErrorCallback
<1>5. CASE ~ SystemErrorSends(st, id)
  BY <1>5 DEF SystemErrorCallback
<1>6. QED
  BY <1>4, <1>5

\* Marking the original request does not touch links.
LEMMA MarkOriginalLinked ==
  ASSUME NEW st, StoreOK(st), NEW c \in Chain, NEW id, Linked(c, st)
  PROVE  /\ Linked(c, MarkOriginal(st, id))
         /\ MarkOriginal(st, id).context = st.context
<1> DEFINE original == st.incoming[id].sourceRequest
           done == MarkOriginal(st, id)
<1>1. CASE ~ AnswersPending(st, id)
  BY <1>1 DEF MarkOriginal
<1>2. CASE AnswersPending(st, id)
  <2>1. /\ done.requests = [st.requests EXCEPT ![original].executed = TRUE]
        /\ done.responses = st.responses
        /\ done.nonce = st.nonce
        /\ done.context = st.context
    BY <1>2 DEF MarkOriginal, StoreOK, StoreField
  <2>2. DOMAIN done.requests = DOMAIN st.requests
    BY <2>1
  <2>3. ASSUME NEW r \in Request
        PROVE  [r EXCEPT !.executed = TRUE].sourceRequest = r.sourceRequest
    BY DEF Request
  <2>4. \A x \in DOMAIN st.requests : st.requests[x] \in Request
    BY DEF StoreOK, IsMap
  <2>5. \A x \in DOMAIN st.requests :
          done.requests[x].sourceRequest = st.requests[x].sourceRequest
    BY <2>1, <2>3, <2>4
  <2>6. KeyedLog(c, done)
    BY <2>1, <2>2 DEF Linked, KeyedLog
  <2>7. AnswersLinked(done)
    <3> DEFINE dones == done.requests
               dids == done.responses
    <3>1. dids = st.responses /\ DOMAIN dones = DOMAIN st.requests
      BY <2>1, <2>2
    <3>2. \A x \in DOMAIN st.requests :
            dones[x].sourceRequest = st.requests[x].sourceRequest
      BY <2>5
    <3> HIDE DEF dones, dids
    <3>3. ASSUME NEW x \in DOMAIN dids
          PROVE  /\ dids[x] \in DOMAIN dones
                 /\ dones[dids[x]].sourceRequest = x
                 /\ Target(dids[x]) = Source(x)
      BY <3>1, <3>2 DEF Linked, AnswersLinked
    <3>4. ASSUME NEW x \in DOMAIN dones, dones[x].sourceRequest # NoId
          PROVE  /\ dones[x].sourceRequest \in DOMAIN dids
                 /\ dids[dones[x].sourceRequest] = x
      BY <3>1, <3>2, <3>4 DEF Linked, AnswersLinked
    <3>5. QED
      BY <3>3, <3>4 DEF AnswersLinked, dones, dids
  <2>8. QED
    BY <2>1, <2>6, <2>7 DEF Linked
<1>3. QED
  BY <1>1, <1>2

\* A message call that keeps the links of its storage keeps the invariant.
LEMMA WriteInv ==
  ASSUME IInv, NEW c \in Chain, Running(c), NEW st, Linked(c, st),
         st.context = Current(c).context, Write(c, st), UNCHANGED <<config, now>>
  PROVE  LinkInv'
<1>1. CASE tx = NoTx
  <2>1. store' = [store EXCEPT ![c] = st] /\ tx' = NoTx
    BY <1>1 DEF Write
  <2>2. \A d \in Chain : store'[d] = IF d = c THEN st ELSE store[d]
    BY <2>1 DEF IInv, TypeOK
  <2>3. st.context = NoContext
    BY <1>1 DEF Current, IInv, LinkInv
  <2>4. QED
    BY <2>1, <2>2, <2>3 DEF IInv, LinkInv
<1>2. CASE tx # NoTx
  <2>1. TxOK /\ TxInv /\ tx.chain = c /\ tx.calling
    BY <1>2 DEF IInv, TypeOK, LinkInv, Running, InCall
  <2>2. tx' = [tx EXCEPT !.inner = st] /\ store' = store
    BY <1>2 DEF Write
  <2>3. /\ tx'.kind = tx.kind /\ tx'.chain = tx.chain /\ tx'.source = tx.source
        /\ tx'.item = tx.item /\ tx'.calling = tx.calling
        /\ tx'.work = tx.work /\ tx'.inner = st
    BY <2>1, <2>2 DEF TxOK, TxField
  <2>4. st.context = tx.inner.context
    BY <1>2 DEF Current
  <2>5. TxInv'
    BY <2>1, <2>3, <2>4 DEF TxInv, InCallContext
  <2>6. QED
    BY <2>2, <2>5 DEF IInv, LinkInv
<1>3. QED
  BY <1>1, <1>2

\* Finishing an item with linked storage and no context keeps the invariant.
LEMMA FinishInv ==
  ASSUME IInv, tx # NoTx, tx.kind = "batch", NEW id, NEW st,
         Linked(tx.chain, st), st.context = NoContext, Finish(id, st),
         UNCHANGED <<store, config, now>>
  PROVE  LinkInv'
<1>1. TxOK /\ TxInv
  BY DEF IInv, TypeOK, LinkInv
<1>2. /\ tx'.kind = "batch" /\ tx'.chain = tx.chain /\ tx'.calling = FALSE
      /\ tx'.work = st /\ tx'.inner = st
  BY <1>1 DEF TxOK, TxField, Finish
<1>3. TxInv'
  BY <1>1, <1>2 DEF TxInv
<1>4. QED
  BY <1>3 DEF IInv, LinkInv

\* Replacing the storage of one chain by linked storage and ending the
\* transaction keeps the invariant.
LEMMA CommitInv ==
  ASSUME IInv, NEW c \in Chain, NEW st, Linked(c, st), st.context = NoContext,
         store' = [store EXCEPT ![c] = st], tx' = NoTx
  PROVE  LinkInv'
<1>1. \A d \in Chain : store'[d] = IF d = c THEN st ELSE store[d]
  BY DEF IInv, TypeOK
<1>2. QED
  BY <1>1 DEF IInv, LinkInv

\* Application sends add requests that answer nothing.
LEMMA SendsInv ==
  ASSUME IInv, Sends
  PROVE  LinkInv'
<1>1. ASSUME NEW c \in Chain, NEW d \in Chain, NEW r, r.sourceRequest = NoId,
             Send(c, d, r)
      PROVE  LinkInv'
  <2> DEFINE st == Current(c)
  <2>1. Running(c) /\ StoreOK(st)
    BY <1>1, CurrentType DEF Send, IInv
  <2>2. Linked(c, st)
    BY <2>1 DEF Current, Running, InCall, IInv, LinkInv, TxInv
  <2>3. Linked(c, CreateRequest(st, c, d, r))
    BY <1>1, <2>1, <2>2, CreateRequestLinked
  <2>4. CreateRequest(st, c, d, r).context = st.context
    BY <2>1, <2>2, CreateRequestFresh DEF Linked
  <2>5. QED
    BY <1>1, <2>1, <2>3, <2>4, WriteInv DEF Send
<1>2. ASSUME NEW c \in Chain, NEW who, NEW target, NEW call, NEW w,
             NEW twoWay, NEW tf, NEW cf
      PROVE  OutboundRequest(c, who, target, call, w, twoWay, tf, cf).sourceRequest
               = NoId
  BY DEF OutboundRequest
<1>3. PICK c \in Chain, d \in Chain, who \in Contract, target \in Contract,
           call \in SendCalls, w \in Weight, tf \in FeeGas :
        \/ SendOneWayMessage(c, d, who, target, call, w, tf)
        \/ \E cf \in FeeGas :
             SendTwoWayMessage(c, d, who, target, call, w, tf, cf)
  BY DEF Sends
<1>4. CASE SendOneWayMessage(c, d, who, target, call, w, tf)
  BY <1>1, <1>2, <1>4 DEF SendOneWayMessage
<1>5. ASSUME NEW cf \in FeeGas,
             SendTwoWayMessage(c, d, who, target, call, w, tf, cf)
      PROVE  LinkInv'
  BY <1>1, <1>2, <1>5 DEF SendTwoWayMessage
<1>6. QED
  BY <1>3, <1>4, <1>5

\* respond and raise answer the item of the running call, once, to its source.
LEMMA RepliesInv ==
  ASSUME IInv, Replies
  PROVE  LinkInv'
<1>1. PICK c \in Chain, who \in Contract, isRaise \in BOOLEAN, w \in Weight :
        Reply(c, who, isRaise, w)
  BY DEF Replies
<1> DEFINE st == Current(c)
           id == st.context.requestId
           d == st.context.remoteChain
           handler == IF isRaise THEN "error" ELSE "callback"
           leg == ReturnLeg(st, c, id, who, handler, w)
<1>2. StoreOK(st) /\ Running(c) /\ st.context # NoContext
  BY <1>1, CurrentType DEF Reply, IInv
<1>3. tx # NoTx /\ InCall(c)
  BY <1>2 DEF Current, Running, IInv, LinkInv
<1>4. TxInv /\ InCallContext /\ Linked(c, st) /\ st = tx.inner
  BY <1>3 DEF InCall, Current, IInv, LinkInv, TxInv
<1>5. d = Source(id)
  BY <1>4 DEF InCallContext
<1>6. id \notin DOMAIN st.responses /\ id \in DOMAIN st.incoming
  BY <1>1 DEF Reply, CanReply
<1>7. id \in Id
  BY <1>2, <1>6 DEF StoreOK, IsMap
<1>8. leg \in Request
  <2>1. /\ who \in Address /\ handler \in Handler
        /\ w \in Nat /\ now \in [Chain -> Nat]
    BY ConstantsAssumption DEF Address, Handler, IInv, TypeOK
  <2>2. QED
    BY <1>2, <1>6, <2>1, ReturnLegType
<1>9. leg.sourceRequest = id
  BY DEF ReturnLeg
<1>10. /\ Linked(c, SendLeg(st, c, d, id, leg))
       /\ SendLeg(st, c, d, id, leg).context = st.context
  BY <1>2, <1>4, <1>5, <1>6, <1>7, <1>8, <1>9, SendLegLinked
<1>11. QED
  BY <1>1, <1>2, <1>10, WriteInv DEF Reply

\* A batch starts from committed storage.
LEMMA BeginBatchInv ==
  ASSUME IInv, NEW c \in Chain, NEW s \in Chain, BeginBatch(c, s)
  PROVE  LinkInv'
<1>1. /\ tx'.kind = "batch" /\ tx'.chain = c /\ tx'.calling = FALSE
      /\ tx'.work = store[c] /\ tx'.inner = store[c]
  BY DEF BeginBatch
<1>2. TxInv'
  BY <1>1 DEF BeginBatch, TxInv, IInv, LinkInv
<1>3. QED
  BY <1>2 DEF BeginBatch, IInv, LinkInv

\* What an item is loaded into: linked storage without a context.
LEMMA LoadingInv ==
  ASSUME IInv, NEW s \in Chain, NEW id \in DOMAIN store[s].requests, Loading(id)
  PROVE  /\ tx # NoTx /\ tx.kind = "batch" /\ TxOK /\ TxInv /\ id \in Id
         /\ tx.chain \in Chain /\ StoreOK(tx.work) /\ Linked(tx.chain, tx.work)
         /\ tx.work.context = NoContext /\ Source(id) = tx.source
BY LoadingType DEF Loading, Admissible, IInv, LinkInv, TxInv, TxOK

\* A rejected item: recorded, and answered by the inbox if two-way.
LEMMA RejectItemInv ==
  ASSUME IInv, NEW s \in Chain, NEW id \in DOMAIN store[s].requests,
         RejectItem(id)
  PROVE  LinkInv'
<1> DEFINE st == [tx.work EXCEPT !.incoming = Put(@, id, Reject(id)),
                                 !.errors = Put(@, id, MinerRejected)]
           answered == IF st.incoming[id].twoWay
                       THEN SystemErrorCallback(st, tx.chain, id) ELSE st
<1>1. Loading(id) /\ Finish(id, MarkOriginal(answered, id))
  BY DEF RejectItem
<1>2. /\ tx # NoTx /\ tx.kind = "batch" /\ TxOK /\ id \in Id
      /\ tx.chain \in Chain /\ StoreOK(tx.work) /\ Linked(tx.chain, tx.work)
      /\ tx.work.context = NoContext
  BY <1>1, LoadingInv
<1>3. Reject(id) \in Request
  BY <1>1, LoadingType DEF IInv
<1>4. StoreOK(st)
  <2>1. MinerRejected \in ExecutionFailed .. Expired
    BY DEF MinerRejected, ExecutionFailed, Expired
  <2>2. QED
    BY <1>2, <1>3, <2>1, RecordType
<1>5. /\ id \in DOMAIN st.incoming /\ st.context = NoContext
      /\ st.requests = tx.work.requests /\ st.responses = tx.work.responses
      /\ st.nonce = tx.work.nonce
  BY <1>2 DEF Put, StoreOK, StoreField
<1>6. Linked(tx.chain, st)
  BY <1>2, <1>5, SameLinks
<1>7. now \in [Chain -> Nat]
  BY DEF IInv, TypeOK
<1>8. /\ Linked(tx.chain, answered) /\ answered.context = NoContext
      /\ StoreOK(answered)
  BY <1>2, <1>4, <1>5, <1>6, <1>7, SystemErrorLinked, SystemErrorType
<1>9. /\ Linked(tx.chain, MarkOriginal(answered, id))
      /\ MarkOriginal(answered, id).context = NoContext
  BY ZenonT(60), <1>2, <1>8, MarkOriginalLinked
<1>10. QED
  BY <1>1, <1>2, <1>9, FinishInv DEF RejectItem

\* An item that cannot be encoded: recorded, and answered by the inbox.
LEMMA MineEncodeFailureInv ==
  ASSUME IInv, NEW s \in Chain, NEW id \in DOMAIN store[s].requests,
         MineEncodeFailure(id)
  PROVE  LinkInv'
<1> DEFINE st == [tx.work EXCEPT !.incoming = Put(@, id, Ingested(id, TRUE)),
                                 !.errors = Put(@, id, EncodeFailed)]
           answered == SystemErrorCallback(st, tx.chain, id)
<1>1. Loading(id) /\ Finish(id, MarkOriginal(answered, id))
  BY DEF MineEncodeFailure
<1>2. /\ tx # NoTx /\ tx.kind = "batch" /\ TxOK /\ id \in Id
      /\ tx.chain \in Chain /\ StoreOK(tx.work) /\ Linked(tx.chain, tx.work)
      /\ tx.work.context = NoContext
  BY <1>1, LoadingInv
<1>3. Ingested(id, TRUE) \in Request
  BY <1>1, LoadingType DEF IInv
<1>4. StoreOK(st)
  <2>1. EncodeFailed \in ExecutionFailed .. Expired
    BY DEF EncodeFailed, ExecutionFailed, Expired
  <2>2. QED
    BY <1>2, <1>3, <2>1, RecordType
<1>5. /\ id \in DOMAIN st.incoming /\ st.context = NoContext
      /\ st.requests = tx.work.requests /\ st.responses = tx.work.responses
      /\ st.nonce = tx.work.nonce
  BY <1>2 DEF Put, StoreOK, StoreField
<1>6. Linked(tx.chain, st)
  BY <1>2, <1>5, SameLinks
<1>7. now \in [Chain -> Nat]
  BY DEF IInv, TypeOK
<1>8. /\ Linked(tx.chain, answered) /\ answered.context = NoContext
      /\ StoreOK(answered)
  BY <1>2, <1>4, <1>5, <1>6, <1>7, SystemErrorLinked, SystemErrorType
<1>9. /\ Linked(tx.chain, MarkOriginal(answered, id))
      /\ MarkOriginal(answered, id).context = NoContext
  BY <1>2, <1>8, MarkOriginalLinked
<1>10. QED
  BY <1>1, <1>2, <1>9, FinishInv DEF MineEncodeFailure

\* The context of an item is not the cleared context.
LEMMA ContextOfItem ==
  ASSUME NEW st, NEW id \in Id, NEW r \in Request, st.incoming[id] = r
  PROVE  ContextOf(st, id) # NoContext
<1>1. ContextOf(st, id) \in Context
  BY IdParts DEF ContextOf, Context, Request
<1>2. QED
  BY <1>1, ConstantsAssumption

\* Marking an item executed clears the context and leaves the links alone.
LEMMA ExecutedLinked ==
  ASSUME NEW st, StoreOK(st), NEW c, NEW id, Linked(c, st)
  PROVE  /\ Linked(c, Executed(st, id))
         /\ Executed(st, id).context = NoContext
<1>1. /\ Executed(st, id).requests = st.requests
      /\ Executed(st, id).responses = st.responses
      /\ Executed(st, id).nonce = st.nonce
      /\ Executed(st, id).context = NoContext
  BY DEF Executed, StoreOK, StoreField
<1>2. QED
  BY <1>1, SameLinks

\* The target is called under the context of its item.
LEMMA MineCallInv ==
  ASSUME IInv, NEW s \in Chain, NEW id \in DOMAIN store[s].requests,
         MineCall(id)
  PROVE  LinkInv'
<1> DEFINE recorded == [tx.work EXCEPT !.incoming = Put(@, id, Ingested(id, FALSE))]
           st == [recorded EXCEPT !.context = ContextOf(recorded, id)]
<1>1. /\ Loading(id)
      /\ tx' = [tx EXCEPT !.item = id, !.calling = TRUE, !.work = st, !.inner = st]
      /\ UNCHANGED <<store, config, now>>
  BY DEF MineCall
<1>2. /\ tx # NoTx /\ tx.kind = "batch" /\ TxOK /\ TxInv /\ id \in Id
      /\ tx.chain \in Chain /\ StoreOK(tx.work) /\ Linked(tx.chain, tx.work)
      /\ Source(id) = tx.source
  BY <1>1, LoadingInv
<1>3. Ingested(id, FALSE) \in Request
  BY <1>1, LoadingType DEF IInv
<1>4. recorded.incoming[id] = Ingested(id, FALSE)
  BY <1>2 DEF Put, StoreOK, StoreField
<1>5. ContextOf(recorded, id) # NoContext
  BY <1>2, <1>3, <1>4, ContextOfItem
<1>6. /\ st.requests = tx.work.requests /\ st.responses = tx.work.responses
      /\ st.nonce = tx.work.nonce /\ st.context = ContextOf(recorded, id)
  BY <1>2 DEF StoreOK, StoreField
<1>7. Linked(tx.chain, st)
  BY <1>2, <1>6, SameLinks
<1>8. /\ ContextOf(recorded, id).requestId = id
      /\ ContextOf(recorded, id).remoteChain = tx.source
  BY <1>2 DEF ContextOf
<1>9. /\ tx'.kind = "batch" /\ tx'.chain = tx.chain /\ tx'.source = tx.source
      /\ tx'.item = id /\ tx'.calling = TRUE /\ tx'.work = st /\ tx'.inner = st
  BY <1>1, <1>2 DEF TxOK, TxField
<1> HIDE DEF recorded, st
<1>10. TxInv'
  BY <1>1, <1>2, <1>5, <1>6, <1>7, <1>8, <1>9 DEF TxInv, InCallContext
<1>11. QED
  BY <1>1, <1>10 DEF IInv, LinkInv

\* The target returned: what it wrote is kept, its context is not.
LEMMA CallReturnsInv ==
  ASSUME IInv, CallReturns
  PROVE  LinkInv'
<1> DEFINE done == Executed(tx.inner, tx.item)
<1>1. /\ tx # NoTx /\ tx.kind = "batch" /\ tx.chain \in Chain
      /\ StoreOK(tx.inner) /\ Linked(tx.chain, tx.inner)
  BY DEF CallReturns, IInv, TypeOK, TxOK, LinkInv, TxInv
<1>2. Linked(tx.chain, done) /\ done.context = NoContext /\ StoreOK(done)
  BY <1>1, ExecutedLinked, ExecutedType
<1>3. /\ Linked(tx.chain, MarkOriginal(done, tx.item))
      /\ MarkOriginal(done, tx.item).context = NoContext
  BY <1>1, <1>2, MarkOriginalLinked
<1>4. QED
  BY <1>1, <1>3, FinishInv DEF CallReturns

\* The target failed: the batch goes on from the storage before the call.
LEMMA CallRevertsInv ==
  ASSUME IInv, CallReverts
  PROVE  LinkInv'
<1> DEFINE done == Executed(tx.work, tx.item)
           st == [done EXCEPT !.errors = Put(@, tx.item, ExecutionFailed)]
<1>1. /\ tx # NoTx /\ tx.kind = "batch" /\ tx.chain \in Chain /\ tx.item \in Id
      /\ StoreOK(tx.work) /\ Linked(tx.chain, tx.work)
  BY DEF CallReverts, IInv, TypeOK, TxOK, LinkInv, TxInv
<1>2. Linked(tx.chain, done) /\ done.context = NoContext /\ StoreOK(done)
  BY <1>1, ExecutedLinked, ExecutedType
<1>3. ExecutionFailed \in ExecutionFailed .. Expired
  BY DEF ExecutionFailed, Expired
<1>4. StoreOK(st)
  BY <1>1, <1>2, <1>3, ErrorType
<1>5. /\ st.requests = done.requests /\ st.responses = done.responses
      /\ st.nonce = done.nonce /\ st.context = NoContext
  BY <1>2 DEF StoreOK, StoreField
<1>6. Linked(tx.chain, st)
  BY <1>2, <1>5, SameLinks
<1>7. /\ Linked(tx.chain, MarkOriginal(st, tx.item))
      /\ MarkOriginal(st, tx.item).context = NoContext
  BY <1>1, <1>4, <1>5, <1>6, MarkOriginalLinked
<1>8. QED
  BY <1>1, <1>7, FinishInv DEF CallReverts

\* A batch commits between items, when no context is set.
LEMMA CommitBatchInv ==
  ASSUME IInv, CommitBatch
  PROVE  LinkInv'
<1> DEFINE st == [tx.work EXCEPT !.last[tx.source] = tx.item]
<1>1. /\ tx.chain \in Chain /\ StoreOK(tx.work) /\ Linked(tx.chain, tx.work)
      /\ tx.work.context = NoContext
  BY DEF CommitBatch, IInv, TypeOK, TxOK, LinkInv, TxInv
<1>2. /\ st.requests = tx.work.requests /\ st.responses = tx.work.responses
      /\ st.nonce = tx.work.nonce /\ st.context = NoContext
  BY <1>1 DEF StoreOK, StoreField
<1>3. Linked(tx.chain, st)
  BY <1>1, <1>2, SameLinks
<1>4. QED
  BY <1>1, <1>2, <1>3, CommitInv DEF CommitBatch

\* Expiry answers a request that has not been answered.
LEMMA ExpireOnRetryInv ==
  ASSUME IInv, NEW c \in Chain, NEW id \in DOMAIN store[c].incoming,
         ExpireOnRetry(c, id)
  PROVE  LinkInv'
<1> DEFINE st == [store[c] EXCEPT !.errors[id] = Expired]
<1>1. StoreOK(store[c]) /\ Linked(c, store[c]) /\ store[c].context = NoContext
  BY DEF IInv, TypeOK, LinkInv
<1>2. /\ st.requests = store[c].requests /\ st.responses = store[c].responses
      /\ st.nonce = store[c].nonce /\ st.context = NoContext
      /\ id \in DOMAIN st.incoming
  BY <1>1 DEF StoreOK, StoreField
<1>3. Linked(c, st)
  BY <1>1, <1>2, SameLinks
<1>4. StoreOK(st)
  <2>1. Expired \in ExecutionFailed .. Expired
    BY DEF ExecutionFailed, Expired
  <2>2. IsMap([store[c].errors EXCEPT ![id] = Expired], Id, ExecutionFailed .. Expired)
    BY <1>1, <2>1 DEF StoreOK, IsMap
  <2>3. QED
    BY <1>1, <2>2 DEF StoreOK, StoreField
<1>5. now \in [Chain -> Nat]
  BY DEF IInv, TypeOK
<1>6. /\ Linked(c, SystemErrorCallback(st, c, id))
      /\ SystemErrorCallback(st, c, id).context = NoContext
  BY <1>2, <1>3, <1>4, <1>5, SystemErrorLinked
<1>7. tx' = NoTx
  BY DEF ExpireOnRetry, Retryable
<1>8. store' = [store EXCEPT ![c] = SystemErrorCallback(st, c, id)]
  BY DEF ExpireOnRetry
<1>9. QED
  BY <1>6, <1>7, <1>8, CommitInv

\* A retry calls the target under the context of its item.
LEMMA BeginRetryInv ==
  ASSUME IInv, NEW c \in Chain, NEW id \in DOMAIN store[c].incoming,
         BeginRetry(c, id)
  PROVE  LinkInv'
<1> DEFINE context == ContextOf(store[c], id)
           st == [store[c] EXCEPT !.context = context]
<1>1. StoreOK(store[c]) /\ Linked(c, store[c])
  BY DEF IInv, TypeOK, LinkInv
<1>2. id \in Id /\ store[c].incoming[id] \in Request
  BY <1>1 DEF StoreOK, IsMap
<1>3. context # NoContext
  BY <1>2, ContextOfItem
<1>4. context.requestId = id /\ context.remoteChain = Source(id)
  BY DEF ContextOf
<1>5. /\ st.requests = store[c].requests /\ st.responses = store[c].responses
      /\ st.nonce = store[c].nonce /\ st.context = context
  BY <1>1 DEF StoreOK, StoreField
<1>6. Linked(c, st)
  BY <1>1, <1>5, SameLinks
<1>7. /\ tx'.kind = "retry" /\ tx'.chain = c /\ tx'.source = Source(id)
      /\ tx'.item = id /\ tx'.calling = TRUE /\ tx'.work = st /\ tx'.inner = st
      /\ store' = store /\ config' = config /\ ~ config[c].paused
  BY DEF BeginRetry, Retryable
<1> HIDE DEF context, st
<1>8. TxInv'
  BY <1>3, <1>4, <1>5, <1>6, <1>7 DEF TxInv, InCallContext
<1>9. QED
  BY <1>7, <1>8 DEF IInv, LinkInv

\* A retry that succeeds commits what its call wrote, without the context.
LEMMA RetrySucceedsInv ==
  ASSUME IInv, RetrySucceeds
  PROVE  LinkInv'
<1> DEFINE st == [tx.inner EXCEPT
                    !.context = NoContext,
                    !.errors = Remove(@, tx.item),
                    !.succeeded = @ \cup {<<"retried", tx.item>>}]
<1>1. tx.chain \in Chain /\ StoreOK(tx.inner) /\ Linked(tx.chain, tx.inner)
  BY DEF RetrySucceeds, IInv, TypeOK, TxOK, LinkInv, TxInv
<1>2. /\ st.requests = tx.inner.requests /\ st.responses = tx.inner.responses
      /\ st.nonce = tx.inner.nonce /\ st.context = NoContext
  BY <1>1 DEF StoreOK, StoreField
<1>3. Linked(tx.chain, st)
  BY <1>1, <1>2, SameLinks
<1>4. QED
  BY <1>1, <1>2, <1>3, CommitInv DEF RetrySucceeds

\* Deployed inboxes have empty logs.
LEMMA InitInv == Init => IInv
<1> SUFFICES ASSUME Init PROVE LinkInv
  BY InitType DEF IInv
<1>1. /\ EmptyStore.requests = EmptyMap /\ EmptyStore.responses = EmptyMap
      /\ EmptyStore.context = NoContext
  BY DEF EmptyStore
<1>2. DOMAIN EmptyMap = {}
  BY DEF EmptyMap
<1>3. \A c \in Chain : Linked(c, EmptyStore)
  BY <1>1, <1>2 DEF Linked, KeyedLog, AnswersLinked
<1>4. QED
  BY <1>1, <1>3 DEF Init, LinkInv

\* Every step keeps the invariant.
LEMMA NextInv == IInv /\ [Next]_vars => IInv'
<1> SUFFICES ASSUME IInv, [Next]_vars PROVE LinkInv'
  BY NextType DEF IInv
<1>1. CASE Sends
  BY <1>1, SendsInv
<1>2. CASE Replies
  BY <1>2, RepliesInv
<1>3. CASE Batches
  <2>1. ASSUME NEW c \in Chain, NEW s \in Chain, BeginBatch(c, s)
        PROVE  LinkInv'
    BY <2>1, BeginBatchInv
  <2>2. ASSUME NEW s \in Chain, NEW id \in DOMAIN store[s].requests,
               RejectItem(id) \/ MineEncodeFailure(id) \/ MineCall(id)
        PROVE  LinkInv'
    BY <2>2, RejectItemInv, MineEncodeFailureInv, MineCallInv
  <2>3. CASE Revert
    BY <2>3 DEF Revert, IInv, LinkInv
  <2>4. QED
    BY <1>3, <2>1, <2>2, <2>3, CallReturnsInv, CallRevertsInv, CommitBatchInv
       DEF Batches
<1>4. CASE Retries
  <2>1. ASSUME NEW c \in Chain, NEW id \in DOMAIN store[c].incoming,
               ExpireOnRetry(c, id) \/ BeginRetry(c, id)
        PROVE  LinkInv'
    BY <2>1, ExpireOnRetryInv, BeginRetryInv
  <2>2. QED
    BY <1>4, <2>1, RetrySucceedsInv DEF Retries
<1>5. CASE Administration
  <2>1. store' = store /\ tx' = tx /\ tx = NoTx
    BY <1>5 DEF Administration, SetMessageProcessingPaused, UpdateMinFeeConfigs,
           SetMaxReplyMethodCallBytes, SetMaxMessageLife
  <2>2. QED
    BY <2>1 DEF IInv, LinkInv
<1>6. ASSUME NEW c \in Chain, Tick(c)
      PROVE  LinkInv'
  BY <1>6 DEF Tick, IInv, LinkInv
<1>7. CASE UNCHANGED vars
  BY <1>7 DEF vars, IInv, LinkInv, TxInv, InCallContext
<1>8. QED
  BY <1>1, <1>2, <1>3, <1>4, <1>5, <1>6, <1>7 DEF Next

\* The inductive invariant of the inboxes holds in every reachable state.
THEOREM InvariantHolds == Spec => []IInv
<1>1. Init => IInv
  BY InitInv
<1>2. IInv /\ [Next]_vars => IInv'
  BY NextInv
<1>3. QED
  BY <1>1, <1>2, PTL DEF Spec

-----------------------------------------------------------------------------
(* Safety properties that follow from the invariant.                       *)

\* An inbox sends at most one return leg for an incoming request, and sends
\* it to the chain the request came from, in committed storage and inside
\* every batch and retry.
THEOREM AnswersUnique == Spec => []OneReturnLeg
<1>1. IInv => OneReturnLeg
  BY DEF IInv, LinkInv, TxInv, Linked, OneReturnLeg, Storages
<1>2. QED
  BY <1>1, InvariantHolds, PTL

\* No committed storage has an execution context, and during a call the
\* context names the item that is being executed.
THEOREM ContextSafe == Spec => []ContextOnlyDuringCall
<1>1. IInv => ContextOnlyDuringCall
  BY DEF IInv, LinkInv, TxInv, InCallContext, ContextOnlyDuringCall
<1>2. QED
  BY <1>1, InvariantHolds, PTL

\* Changing the storage of chain c leaves the others alone.
LEMMA OtherStorages ==
  ASSUME IInv, NEW c \in Chain, NEW st, store' = [store EXCEPT ![c] = st]
  PROVE  \A d \in Chain \ {c} : store'[d] = store[d]
BY DEF IInv, TypeOK

\* No step changes the storage of a paused inbox: a transaction that commits
\* began before the pause, and no owner call falls inside it.
LEMMA PauseStep ==
  ASSUME IInv, [Next]_vars
  PROVE  \A c \in Chain : config[c].paused => store'[c] = store[c]
<1>1. ASSUME NEW c \in Chain, NEW st, ~ config[c].paused,
             store' = [store EXCEPT ![c] = st]
      PROVE  \A d \in Chain : config[d].paused => store'[d] = store[d]
  BY <1>1, OtherStorages
<1>2. tx # NoTx => TxInv /\ tx.chain \in Chain
  BY DEF IInv, TypeOK, LinkInv, TxOK
<1>3. CASE store' = store
  BY <1>3
<1>4. CASE Sends
  <2>1. ASSUME NEW c \in Chain, NEW d \in Chain, NEW r, Send(c, d, r)
        PROVE  \A e \in Chain : config[e].paused => store'[e] = store[e]
    BY <1>1, <1>3, <2>1 DEF Send, Write
  <2>2. QED
    BY <1>4, <2>1 DEF Sends, SendOneWayMessage, SendTwoWayMessage
<1>5. CASE Replies
  <2>1. PICK c \in Chain : Running(c) /\ Current(c).context # NoContext
                             /\ \E st : Write(c, st)
    BY <1>5 DEF Replies, Reply
  <2>2. tx # NoTx
    BY <2>1 DEF Current, IInv, LinkInv
  <2>3. QED
    BY <1>3, <2>1, <2>2 DEF Write
<1>6. CASE Batches
  <2>1. CASE CommitBatch
    BY <1>1, <1>2, <2>1 DEF CommitBatch, TxInv
  <2>2. CASE ~ CommitBatch
    <3>1. store' = store
      BY <1>6, <2>2 DEF Batches, BeginBatch, RejectItem, MineEncodeFailure,
                        MineCall, CallReturns, CallReverts, Revert
    <3>2. QED
      BY <1>3, <3>1
  <2>3. QED
    BY <2>1, <2>2
<1>7. CASE Retries
  <2>1. ASSUME NEW c \in Chain, NEW id \in DOMAIN store[c].incoming,
               ExpireOnRetry(c, id) \/ BeginRetry(c, id)
        PROVE  \A d \in Chain : config[d].paused => store'[d] = store[d]
    BY <1>1, <1>3, <2>1 DEF ExpireOnRetry, BeginRetry, Retryable
  <2>2. CASE RetrySucceeds
    BY <1>1, <1>2, <2>2 DEF RetrySucceeds, TxInv
  <2>3. QED
    BY <1>7, <2>1, <2>2 DEF Retries
<1>8. CASE Administration \/ UNCHANGED vars \/ \E c \in Chain : Tick(c)
  <2>1. store' = store
    BY <1>8 DEF Administration, SetMessageProcessingPaused, UpdateMinFeeConfigs,
           SetMaxReplyMethodCallBytes, SetMaxMessageLife, Tick, vars
  <2>2. QED
    BY <1>3, <2>1
<1>9. QED
  BY <1>4, <1>5, <1>6, <1>7, <1>8 DEF Next

\* While messaging is paused on a chain nothing sends, ingests, answers,
\* retries or expires there.
THEOREM PauseSafe == Spec => PauseHaltsMessaging
<1>1. IInv /\ [Next]_vars =>
        [\A c \in Chain : config[c].paused => store'[c] = store[c]]_vars
  BY PauseStep
<1>2. QED
  BY <1>1, InvariantHolds, PTL DEF Spec, PauseHaltsMessaging

=============================================================================
