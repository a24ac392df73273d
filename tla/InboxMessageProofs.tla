------------------------- MODULE InboxMessageProofs -------------------------
(***************************************************************************)
(* Proofs about the messages of all inboxes together: lanes, outcomes,     *)
(* answers, marks and signals, and the calls they amount to.               *)
(***************************************************************************)
EXTENDS InboxProofs, InboxCalls

-----------------------------------------------------------------------------
(* The invariant.  Sound says of the storage st of chain c what the        *)
(* properties need, with respect to the committed storages S of all        *)
(* chains.  A transaction works on one storage, so the parts that are in   *)
(* flux are parameters: last, the items its source is known to have        *)
(* reached; fresh, the item not counted as ingested yet, or NoId; open,    *)
(* the item whose outcome and signal are not settled yet, or NoId.         *)

\* The nonce that follows the last one ingested from s.
Ahead(last, s) == IF last[s] = NoId THEN 1 ELSE Nonce(last[s]) + 1

\* q is the record r, up to its mark.
SameRequest(r, q) ==
  /\ q.targetContract = r.targetContract
  /\ q.sender = r.sender
  /\ q.callback = r.callback
  /\ q.error = r.error
  /\ q.twoWay = r.twoWay
  /\ q.sourceRequest = r.sourceRequest
  /\ q.targetFee = r.targetFee
  /\ q.callerFee = r.callerFee

\* A call that failed and may be tried again, and an item the miner rejected.
Failed(st, id) == id \in DOMAIN st.errors /\ st.errors[id] = ExecutionFailed
Rejected(st, id) == id \in DOMAIN st.errors /\ st.errors[id] = MinerRejected

\* A request is two-way exactly if its answer is prepaid; then it has an
\* error handler.  Answers are one-way.  Applications are not the inbox.
WellFormed(r) ==
  /\ r.sender # ZeroAddress
  /\ r.twoWay <=> r.callerFee # 0
  /\ r.twoWay => r.error
  /\ r.sourceRequest # NoId => ~ r.twoWay
  /\ r.sourceRequest = NoId => r.sender # SystemSender

\* The log of c: to other chains, and without gaps.
LogOK(c, st) ==
  /\ \A id \in DOMAIN st.requests :
       Target(id) # c /\ WellFormed(st.requests[id])
  /\ \A d \in Chain :
       /\ st.nonce[d] <= MaxNonce
       /\ \A n \in 1 .. st.nonce[d] : <<c, d, n>> \in DOMAIN st.requests

\* leg answers request, if it is not made by a stranger.
LegFits(leg, request) ==
  /\ leg.sender \in {request.targetContract, SystemSender}
  /\ leg.targetContract = request.sender
  /\ leg.targetFee = request.callerFee
  /\ leg.error = request.error

\* Every answer fits the two-way request it answers.
LegsFit(st) ==
  \A id \in DOMAIN st.responses :
    /\ id \in DOMAIN st.incoming
    /\ st.incoming[id].twoWay
    /\ LegFits(st.requests[st.responses[id]], st.incoming[id])

\* An item of c is the record its source logged, and is not past last.
ArrivalOK(c, st, last, S, id) ==
  /\ Target(id) = c
  /\ Nonce(id) < Ahead(last, Source(id))
  /\ id \in DOMAIN S[Source(id)].requests
  /\ SameMessage(st.incoming[id], S[Source(id)].requests[id], Rejected(st, id))
  /\ WellFormed(st.incoming[id])

\* Of every source, c has all items up to last and no others.
Lane(c, st, last, S) ==
  /\ \A id \in DOMAIN st.incoming : ArrivalOK(c, st, last, S, id)
  /\ \A s \in Chain \ {c} : \A n \in 1 .. Ahead(last, s) - 1 :
       <<s, c, n>> \in DOMAIN st.incoming

\* The answer to request id of st has been ingested.
AnswerHere(st, fresh, S, id) ==
  /\ id \in DOMAIN S[Target(id)].responses
  /\ S[Target(id)].responses[id] \in DOMAIN st.incoming \ {fresh}

\* A request is marked exactly if its answer has been ingested.
Marks(st, fresh, S) ==
  \A id \in DOMAIN st.requests :
    st.requests[id].executed <=> AnswerHere(st, fresh, S, id)

\* An error and an answer of item id agree.
OutcomeOf(st, id) ==
  /\ id \in DOMAIN st.errors =>
       /\ id \in DOMAIN st.incoming
       /\ st.incoming[id].executed
       /\ st.errors[id] = ExecutionFailed => id \notin DOMAIN st.responses
       /\ st.errors[id] # ExecutionFailed /\ st.incoming[id].twoWay
            => id \in DOMAIN st.responses
  /\ id \in DOMAIN st.responses =>
       (id \in DOMAIN st.errors <=>
          st.requests[st.responses[id]].sender = SystemSender)

\* So do those of every settled item.
Outcomes(st, open) ==
  \A id \in (DOMAIN st.errors \cup DOMAIN st.responses) \ {open} : OutcomeOf(st, id)

\* Success was signalled once for every settled leg, and for no failed item.
Signals(st, open) ==
  /\ \A signal \in st.succeeded :
       /\ signal[2] \in DOMAIN st.incoming \ DOMAIN st.errors
       /\ signal[2] # open
  /\ \A id \in DOMAIN st.incoming \ (DOMAIN st.errors \cup {open}) :
       st.incoming[id].sourceRequest # NoId =>
         (<<"mined", id>> \in st.succeeded) # (<<"retried", id>> \in st.succeeded)

\* All of the above.
Sound(c, st, last, fresh, open, S) ==
  /\ LogOK(c, st)
  /\ LegsFit(st)
  /\ Lane(c, st, last, S)
  /\ Marks(st, fresh, S)
  /\ Outcomes(st, open)
  /\ Signals(st, open)

\* What later storage keeps of earlier storage: the log up to marks, the
\* answers, and every item; the outcome of an item is final unless its call
\* failed.
Evolves(old, new) ==
  /\ \A id \in DOMAIN old.requests :
       /\ id \in DOMAIN new.requests
       /\ SameRequest(old.requests[id], new.requests[id])
  /\ \A id \in DOMAIN old.responses :
       /\ id \in DOMAIN new.responses
       /\ new.responses[id] = old.responses[id]
  /\ \A id \in DOMAIN old.incoming :
       /\ id \in DOMAIN new.incoming
       /\ ~ Failed(old, id) =>
            /\ id \in DOMAIN new.responses => id \in DOMAIN old.responses
            /\ id \in DOMAIN new.errors <=> id \in DOMAIN old.errors
            /\ ~ Failed(new, id)

\* Committed storages: each is sound with nothing in flux.
Peers(S) ==
  \A c \in Chain :
    /\ StoreOK(S[c])
    /\ Linked(c, S[c])
    /\ Sound(c, S[c], S[c].last, NoId, NoId, S)

\* A storage that a message call or a batch may go on from.
Workable(c, st, last, fresh, open, S) ==
  /\ Peers(S)
  /\ StoreOK(st)
  /\ Linked(c, st)
  /\ Sound(c, st, last, fresh, open, S)
  /\ Evolves(S[c], st)

\* A request that can be logged for chain d.
Sendable(c, st, d, r) ==
  /\ d # c
  /\ st.nonce[d] < MaxNonce
  /\ r \in Request
  /\ WellFormed(r)
  /\ r.executed = FALSE

\* A storage that could be committed now, with the items of last.
Landed(c, st, last, S) ==
  /\ Sound(c, st, last, NoId, NoId, S)
  /\ Evolves(S[c], st)
  /\ st.last = S[c].last

\* A storage of a call in progress on item.
InFlight(c, st, last, fresh, item, S) ==
  /\ Sound(c, st, last, fresh, item, S)
  /\ Evolves(S[c], st)
  /\ st.last = S[c].last
  /\ item \in DOMAIN st.incoming \ DOMAIN st.errors
  /\ OutcomeOf(st, item)

\* The last items, once the batch commits.
TxLast ==
  IF tx.kind = "batch" /\ (tx.calling \/ tx.count > 0)
  THEN [store[tx.chain].last EXCEPT ![tx.source] = tx.item]
  ELSE store[tx.chain].last

\* A batch: its item in flux during a call, nothing in flux between items.
BatchSound ==
  IF tx.calling
  THEN /\ Source(tx.item) = tx.source
       /\ Nonce(tx.item) = tx.allowedNonce
       /\ tx.item \notin DOMAIN store[tx.chain].incoming
       /\ tx.item \notin DOMAIN tx.work.responses
       /\ InFlight(tx.chain, tx.work, TxLast, tx.item, tx.item, store)
       /\ InFlight(tx.chain, tx.inner, TxLast, tx.item, tx.item, store)
  ELSE /\ Ahead(TxLast, tx.source) = tx.allowedNonce
       /\ tx.inner = tx.work
       /\ Landed(tx.chain, tx.work, TxLast, store)

\* A retry: the item had failed, and its outcome is open until the call ends.
RetrySound ==
  /\ Failed(store[tx.chain], tx.item)
  /\ tx.work.incoming = store[tx.chain].incoming
  /\ Outcomes(tx.work, NoId)
  /\ LegsFit(tx.work)
  /\ InFlight(tx.chain, IfCallReturns, TxLast, NoId, tx.item, store)

\* The inductive invariant.
MessageInv ==
  /\ IInv
  /\ Peers(store)
  /\ tx # NoTx => IF tx.kind = "batch" THEN BatchSound ELSE RetrySound

\* A step changes one storage at most, and that one evolves.
Committed ==
  \/ store' = store
  \/ \E c \in Chain :
       /\ Evolves(store[c], store'[c])
       /\ \A d \in Chain \ {c} : store'[d] = store[d]

-----------------------------------------------------------------------------
(* Soundness under changes of storage.                                     *)

\* Soundness does not depend on the context nor on the last ids.
LEMMA SameSound ==
  ASSUME NEW c, NEW st, NEW done, NEW last, NEW fresh, NEW open, NEW S,
         Sound(c, st, last, fresh, open, S),
         done.requests = st.requests, done.nonce = st.nonce,
         done.incoming = st.incoming, done.responses = st.responses,
         done.errors = st.errors, done.succeeded = st.succeeded
  PROVE  Sound(c, done, last, fresh, open, S)
<1>1. LogOK(c, done) /\ LegsFit(done)
  BY DEF Sound, LogOK, LegsFit
<1>2. Lane(c, done, last, S)
  BY DEF Sound, Lane, ArrivalOK, Rejected
<1>3. Marks(done, fresh, S)
  BY DEF Sound, Marks, AnswerHere
<1>4. Outcomes(done, open)
  BY DEF Sound, Outcomes, OutcomeOf
<1>5. Signals(done, open)
  BY DEF Sound, Signals
<1>6. QED
  BY <1>1, <1>2, <1>3, <1>4, <1>5 DEF Sound

\* Evolution is transitive.
LEMMA EvolvesTransitive ==
  ASSUME NEW old, NEW mid, NEW new, Evolves(old, mid), Evolves(mid, new)
  PROVE  Evolves(old, new)
<1>1. \A id \in DOMAIN old.requests :
        /\ id \in DOMAIN new.requests
        /\ SameRequest(old.requests[id], new.requests[id])
  BY DEF Evolves, SameRequest
<1>2. \A id \in DOMAIN old.responses :
        /\ id \in DOMAIN new.responses
        /\ new.responses[id] = old.responses[id]
  BY DEF Evolves
<1>3. \A id \in DOMAIN old.incoming :
        /\ id \in DOMAIN new.incoming
        /\ ~ Failed(old, id) =>
             /\ id \in DOMAIN new.responses => id \in DOMAIN old.responses
             /\ id \in DOMAIN new.errors <=> id \in DOMAIN old.errors
             /\ ~ Failed(new, id)
  BY DEF Evolves
<1>4. QED
  BY <1>1, <1>2, <1>3 DEF Evolves

\* A new request extends the log without a gap.
LEMMA LogExtended ==
  ASSUME NEW c \in Chain, NEW st, StoreOK(st), KeyedLog(c, st), LogOK(c, st),
         NEW d \in Chain, d # c, st.nonce[d] < MaxNonce,
         NEW r, WellFormed(r), NEW done,
         done.requests = Put(st.requests, CreatedId(st, c, d), r),
         done.nonce = [st.nonce EXCEPT ![d] = @ + 1]
  PROVE  LogOK(c, done)
<1> DEFINE new == CreatedId(st, c, d)
<1>1. /\ new \notin DOMAIN st.requests
      /\ Target(new) = d
      /\ st.nonce \in [Chain -> Nat]
  BY ZenonT(60), CreateRequestFresh DEF StoreOK
<1>2. /\ DOMAIN done.requests = DOMAIN st.requests \cup {new}
      /\ done.requests[new] = r
      /\ \A id \in DOMAIN st.requests : done.requests[id] = st.requests[id]
  BY <1>1 DEF Put
<1>3. \A id \in DOMAIN done.requests :
        Target(id) # c /\ WellFormed(done.requests[id])
  BY <1>1, <1>2 DEF LogOK
<1>4. ASSUME NEW e \in Chain
      PROVE  /\ done.nonce[e] <= MaxNonce
             /\ \A n \in 1 .. done.nonce[e] : <<c, e, n>> \in DOMAIN done.requests
  <2>1. CASE e # d
    <3>1. done.nonce[e] = st.nonce[e]
      BY <1>1, <2>1
    <3>2. QED
      BY <1>2, <3>1 DEF LogOK
  <2>2. CASE e = d
    <3>1. done.nonce[e] = st.nonce[d] + 1 /\ st.nonce[d] \in Nat
      BY <1>1, <2>2
    <3>2. done.nonce[e] <= MaxNonce
      BY <3>1, ConstantsAssumption
    <3>3. ASSUME NEW n \in 1 .. done.nonce[e]
          PROVE  <<c, e, n>> \in DOMAIN done.requests
      <4>1. n \in 1 .. st.nonce[d] \/ n = st.nonce[d] + 1
        BY <3>1
      <4>2. CASE n \in 1 .. st.nonce[d]
        BY <1>2, <2>2, <4>2 DEF LogOK
      <4>3. CASE n = st.nonce[d] + 1
        BY <1>2, <2>2, <4>3 DEF CreatedId
      <4>4. QED
        BY <4>1, <4>2, <4>3
    <3>4. QED
      BY <3>2, <3>3
  <2>3. QED
    BY <2>1, <2>2
<1>5. QED
  BY <1>3, <1>4 DEF LogOK

\* A peer answers only requests that the log already holds.
LEMMA NewUnanswered ==
  ASSUME NEW S, Peers(S), NEW c \in Chain, NEW st, Evolves(S[c], st),
         NEW d \in Chain, NEW id, Source(id) = c, id \notin DOMAIN st.requests
  PROVE  id \notin DOMAIN S[d].responses
<1>1. id \in DOMAIN S[d].responses => id \in DOMAIN S[d].incoming
  BY DEF Peers, Sound, LegsFit
<1>2. id \in DOMAIN S[d].incoming => id \in DOMAIN S[c].requests
  BY DEF Peers, Sound, Lane, ArrivalOK
<1>3. id \in DOMAIN S[c].requests => id \in DOMAIN st.requests
  BY DEF Evolves
<1>4. QED
  BY <1>1, <1>2, <1>3

\* An application's request keeps storage sound.
LEMMA SendSound ==
  ASSUME NEW c \in Chain, NEW st, NEW last, NEW fresh, NEW open, NEW S,
         Workable(c, st, last, fresh, open, S),
         NEW d \in Chain, NEW r, Sendable(c, st, d, r)
  PROVE  /\ Sound(c, CreateRequest(st, c, d, r), last, fresh, open, S)
         /\ Evolves(S[c], CreateRequest(st, c, d, r))
         /\ CreateRequest(st, c, d, r).incoming = st.incoming
         /\ CreateRequest(st, c, d, r).errors = st.errors
         /\ CreateRequest(st, c, d, r).responses = st.responses
         /\ CreateRequest(st, c, d, r).last = st.last
         /\ \A id \in DOMAIN st.requests :
              /\ id \in DOMAIN CreateRequest(st, c, d, r).requests
              /\ CreateRequest(st, c, d, r).requests[id] = st.requests[id]
<1> DEFINE new == CreatedId(st, c, d)
           done == CreateRequest(st, c, d, r)
<1>0. /\ Peers(S) /\ StoreOK(st) /\ Linked(c, st)
      /\ Sound(c, st, last, fresh, open, S) /\ Evolves(S[c], st)
      /\ d # c /\ st.nonce[d] < MaxNonce
      /\ r \in Request /\ WellFormed(r) /\ r.executed = FALSE
  BY DEF Workable, Sendable
<1>1. /\ done.requests = Put(st.requests, new, r)
      /\ done.nonce = [st.nonce EXCEPT ![d] = @ + 1]
      /\ done.incoming = st.incoming
      /\ done.responses = st.responses
      /\ done.errors = st.errors
      /\ done.last = st.last
      /\ done.succeeded = st.succeeded
  BY <1>0 DEF CreateRequest, StoreOK, StoreField
<1>2. new \notin DOMAIN st.requests /\ Target(new) = d
  BY <1>0, CreateRequestFresh DEF Linked
<1>3. Source(new) = c
  BY DEF CreatedId, Source
<1> HIDE DEF new, done
<1>4. \A id \in DOMAIN st.requests :
        id \in DOMAIN done.requests /\ done.requests[id] = st.requests[id]
  BY <1>1, <1>2 DEF Put
<1>5. LogOK(c, done)
  BY <1>0, <1>1, LogExtended DEF Linked, Sound, new
<1>6. Marks(done, fresh, S)
  <2>1. new \notin DOMAIN S[d].responses
    BY <1>0, <1>2, <1>3, NewUnanswered
  <2>2. DOMAIN done.requests = DOMAIN st.requests \cup {new}
    BY <1>1 DEF Put
  <2>3. done.requests[new] = r
    BY <1>1 DEF Put
  <2>4. \A id \in DOMAIN st.requests :
          done.requests[id].executed <=> AnswerHere(done, fresh, S, id)
    BY <1>0, <1>1, <1>4 DEF Sound, Marks, AnswerHere
  <2>5. done.requests[new].executed <=> AnswerHere(done, fresh, S, new)
    BY <1>0, <1>2, <2>1, <2>3 DEF AnswerHere
  <2>6. QED
    BY <2>2, <2>4, <2>5 DEF Marks
<1>7. \A id \in DOMAIN st.responses : st.responses[id] \in DOMAIN st.requests
  BY <1>0 DEF Linked, AnswersLinked
<1>8. LegsFit(done)
  BY <1>0, <1>1, <1>4, <1>7 DEF Sound, LegsFit
<1>9. Lane(c, done, last, S)
  BY <1>0, <1>1 DEF Sound, Lane, ArrivalOK, Rejected
<1>10. Outcomes(done, open)
  BY <1>0, <1>1, <1>4, <1>7 DEF Sound, Outcomes, OutcomeOf
<1>11. Signals(done, open)
  BY <1>0, <1>1 DEF Sound, Signals
<1>12. Evolves(S[c], done)
  BY <1>0, <1>1, <1>4 DEF Evolves, Failed
<1>13. QED
  BY <1>1, <1>4, <1>5, <1>6, <1>8, <1>9, <1>10, <1>11, <1>12 DEF Sound, done

\* The source of an ingested item is another chain.
LEMMA ArrivedFromPeer ==
  ASSUME NEW S, Peers(S), NEW c \in Chain, NEW st, NEW last, StoreOK(st),
         Lane(c, st, last, S), NEW id \in DOMAIN st.incoming
  PROVE  /\ id \in Id /\ Source(id) \in Chain /\ Source(id) # c /\ Target(id) = c
         /\ id \in DOMAIN S[Source(id)].requests
<1>1. id \in Id
  BY DEF StoreOK, IsMap
<1>2. Source(id) \in Chain
  BY <1>1, IdParts
<1>3. Target(id) = c /\ id \in DOMAIN S[Source(id)].requests
  BY DEF Lane, ArrivalOK
<1>4. Target(id) # Source(id)
  BY <1>2, <1>3 DEF Peers, Sound, LogOK
<1>5. QED
  BY <1>1, <1>2, <1>3, <1>4

\* A leg for the open item keeps storage sound.
LEMMA LegSound ==
  ASSUME NEW c \in Chain, NEW st, NEW last, NEW fresh, NEW S,
         NEW id \in DOMAIN st.incoming, Workable(c, st, last, fresh, id, S),
         id \in DOMAIN S[c].incoming => Failed(S[c], id),
         id \notin DOMAIN st.responses, st.incoming[id].twoWay,
         NEW leg, Sendable(c, st, Source(id), leg), LegFits(leg, st.incoming[id])
  PROVE  /\ Sound(c, SendLeg(st, c, Source(id), id, leg), last, fresh, id, S)
         /\ Evolves(S[c], SendLeg(st, c, Source(id), id, leg))
         /\ SendLeg(st, c, Source(id), id, leg).incoming = st.incoming
         /\ SendLeg(st, c, Source(id), id, leg).errors = st.errors
         /\ SendLeg(st, c, Source(id), id, leg).last = st.last
         /\ id \in DOMAIN SendLeg(st, c, Source(id), id, leg).responses
         /\ SendLeg(st, c, Source(id), id, leg).requests
              [SendLeg(st, c, Source(id), id, leg).responses[id]] = leg
<1> DEFINE d == Source(id)
           new == CreatedId(st, c, d)
           sent == CreateRequest(st, c, d, leg)
           done == SendLeg(st, c, d, id, leg)
<1>0. /\ Peers(S) /\ StoreOK(st) /\ Linked(c, st)
      /\ Sound(c, st, last, fresh, id, S) /\ Evolves(S[c], st)
      /\ leg \in Request
  BY DEF Workable, Sendable
<1>1. d \in Chain /\ d # c
  BY <1>0, ArrivedFromPeer DEF Sound
<1>2. /\ Sound(c, sent, last, fresh, id, S)
      /\ Evolves(S[c], sent)
      /\ sent.incoming = st.incoming /\ sent.errors = st.errors
      /\ sent.responses = st.responses /\ sent.last = st.last
  BY <1>1, SendSound
<1>3. /\ sent.requests = Put(st.requests, new, leg)
      /\ new \notin DOMAIN st.requests
  BY <1>0, <1>1, CreateRequestFresh DEF Linked
<1>4. StoreOK(sent)
  BY <1>0, <1>1, CreateRequestType
<1>5. /\ done.requests = sent.requests
      /\ done.nonce = sent.nonce
      /\ done.incoming = sent.incoming
      /\ done.responses = Put(sent.responses, id, new)
      /\ done.errors = sent.errors
      /\ done.last = sent.last
      /\ done.succeeded = sent.succeeded
  BY <1>4 DEF SendLeg, StoreOK, StoreField
<1> HIDE DEF new, sent, done
<1>6. /\ DOMAIN done.responses = DOMAIN st.responses \cup {id}
      /\ done.responses[id] = new
      /\ \A x \in DOMAIN st.responses : done.responses[x] = st.responses[x]
  BY <1>2, <1>5 DEF Put
<1>7. done.requests[new] = leg
  BY <1>3, <1>5 DEF Put
<1>8. LogOK(c, done) /\ Marks(done, fresh, S)
  BY <1>2, <1>5 DEF Sound, LogOK, Marks, AnswerHere
<1>9. LegsFit(done)
  BY <1>2, <1>5, <1>6, <1>7 DEF Sound, LegsFit
<1>10. Lane(c, done, last, S)
  BY <1>2, <1>5 DEF Sound, Lane, ArrivalOK, Rejected
<1>11. Outcomes(done, id)
  BY <1>2, <1>5, <1>6 DEF Sound, Outcomes, OutcomeOf
<1>12. Signals(done, id)
  BY <1>2, <1>5 DEF Sound, Signals
<1>13. Evolves(S[c], done)
  BY <1>2, <1>5, <1>6 DEF Evolves, Failed
<1>14. QED
  BY <1>2, <1>5, <1>6, <1>7, <1>8, <1>9, <1>10, <1>11, <1>12, <1>13 DEF Sound, done

\* done is st with item id recorded, perhaps with an error.
Arrives(c, st, last, id, done, S) ==
  /\ id \in Id
  /\ Target(id) = c
  /\ Nonce(id) = Ahead(last, Source(id))
  /\ id \in DOMAIN S[Source(id)].requests
  /\ id \notin DOMAIN st.incoming
  /\ done.requests = st.requests
  /\ done.nonce = st.nonce
  /\ done.incoming = Put(st.incoming, id, done.incoming[id])
  /\ done.responses = st.responses
  /\ DOMAIN done.errors \subseteq DOMAIN st.errors \cup {id}
  /\ \A x \in DOMAIN st.errors :
       x \in DOMAIN done.errors /\ done.errors[x] = st.errors[x]
  /\ done.succeeded = st.succeeded
  /\ SameMessage(done.incoming[id], S[Source(id)].requests[id], Rejected(done, id))

\* The next item of a lane, recorded, is the item in flux.
LEMMA ArrivalSound ==
  ASSUME NEW c \in Chain, NEW st, NEW last \in [Chain -> Id \cup {NoId}], NEW S,
         Workable(c, st, last, NoId, NoId, S),
         NEW id, NEW done, Arrives(c, st, last, id, done, S)
  PROVE  /\ Sound(c, done, [last EXCEPT ![Source(id)] = id], id, id, S)
         /\ Evolves(S[c], done)
         /\ id \in DOMAIN done.incoming
         /\ id \notin DOMAIN S[c].incoming
         /\ id \notin DOMAIN done.responses
         /\ id \notin DOMAIN st.errors
         /\ WellFormed(done.incoming[id])
<1> DEFINE s == Source(id)
           reached == [last EXCEPT ![s] = id]
<1>0. /\ Peers(S) /\ StoreOK(st) /\ Linked(c, st)
      /\ Sound(c, st, last, NoId, NoId, S) /\ Evolves(S[c], st)
  BY DEF Workable
<1>1. s \in Chain /\ Nonce(id) \in Nat \ {0}
  BY IdParts DEF Arrives
<1>2. /\ DOMAIN done.incoming = DOMAIN st.incoming \cup {id}
      /\ \A x \in DOMAIN st.incoming : done.incoming[x] = st.incoming[x]
      /\ id \notin DOMAIN st.incoming
  <2>1. /\ done.incoming = Put(st.incoming, id, done.incoming[id])
        /\ id \notin DOMAIN st.incoming
    BY DEF Arrives
  <2>2. DOMAIN Put(st.incoming, id, done.incoming[id]) = DOMAIN st.incoming \cup {id}
    BY DEF Put
  <2>3. \A x \in DOMAIN st.incoming :
          Put(st.incoming, id, done.incoming[id])[x] = st.incoming[x]
    BY <2>1 DEF Put
  <2>4. QED
    BY <2>1, <2>2, <2>3
<1>3. /\ done.requests = st.requests /\ done.nonce = st.nonce
      /\ done.responses = st.responses /\ done.succeeded = st.succeeded
      /\ DOMAIN done.errors \subseteq DOMAIN st.errors \cup {id}
      /\ \A x \in DOMAIN st.errors :
           x \in DOMAIN done.errors /\ done.errors[x] = st.errors[x]
  BY DEF Arrives
<1>4. /\ id \notin DOMAIN st.responses
      /\ id \notin DOMAIN st.errors
  BY <1>0, <1>2, ConstantsAssumption DEF Sound, LegsFit, Outcomes, OutcomeOf, Arrives
<1>5. LogOK(c, done)
  BY <1>0, <1>3 DEF Sound, LogOK
<1>6. LegsFit(done)
  BY <1>0, <1>2, <1>3 DEF Sound, LegsFit
<1>7. WellFormed(done.incoming[id])
  <2>1. WellFormed(S[s].requests[id])
    BY <1>0, <1>1 DEF Peers, Sound, LogOK, Arrives
  <2>2. QED
    BY <2>1 DEF Arrives, SameMessage, WellFormed
<1>8. Lane(c, done, reached, S)
  <2>1. /\ Ahead(reached, s) = Nonce(id) + 1
        /\ \A t \in Chain \ {s} : Ahead(reached, t) = Ahead(last, t)
    BY <1>1, ConstantsAssumption DEF Ahead, Arrives
  <2>2. Ahead(last, s) = Nonce(id)
    BY DEF Arrives
  <2>3. ASSUME NEW x \in DOMAIN done.incoming
        PROVE  ArrivalOK(c, done, reached, S, x)
    <3>1. CASE x = id
      <4>1. Nonce(id) < Ahead(reached, s)
        BY <1>1, <2>1
      <4>2. QED
        BY <1>7, <3>1, <4>1 DEF ArrivalOK, Arrives
    <3>2. CASE x # id
      <4>1. x \in DOMAIN st.incoming /\ ArrivalOK(c, st, last, S, x)
        BY <1>0, <1>2, <3>2 DEF Sound, Lane
      <4>2. x \in Id /\ Source(x) \in Chain /\ Nonce(x) \in Nat
        BY <1>0, <4>1, IdParts DEF StoreOK, IsMap
      <4>3. Nonce(x) < Ahead(reached, Source(x))
        <5>1. Nonce(x) < Ahead(last, Source(x))
          BY <4>1 DEF ArrivalOK
        <5>2. CASE Source(x) = s
          BY <1>1, <2>1, <2>2, <4>2, <5>1, <5>2
        <5>3. CASE Source(x) # s
          BY <2>1, <4>2, <5>1, <5>3
        <5>4. QED
          BY <5>2, <5>3
      <4>4. done.incoming[x] = st.incoming[x] /\ (Rejected(done, x) <=> Rejected(st, x))
        BY <1>2, <1>3, <3>2, <4>1 DEF Rejected
      <4>5. QED
        BY <4>1, <4>3, <4>4 DEF ArrivalOK, SameMessage
    <3>3. QED
      BY <3>1, <3>2
  <2>4. ASSUME NEW t \in Chain \ {c}, NEW n \in 1 .. Ahead(reached, t) - 1
        PROVE  <<t, c, n>> \in DOMAIN done.incoming
    <3>1. CASE t # s
      BY <1>0, <1>2, <2>1, <3>1 DEF Sound, Lane
    <3>2. CASE t = s /\ n = Nonce(id)
      BY <1>2, <3>2, IdParts DEF Arrives
    <3>3. CASE t = s /\ n # Nonce(id)
      <4>1. n \in 1 .. Ahead(last, s) - 1
        BY <1>1, <2>1, <2>2, <3>3
      <4>2. QED
        BY <1>0, <1>2, <3>3, <4>1 DEF Sound, Lane
    <3>4. QED
      BY <3>1, <3>2, <3>3
  <2>5. QED
    BY <2>3, <2>4 DEF Lane
<1>9. Marks(done, id, S)
  <2>1. DOMAIN st.incoming \ {NoId} = DOMAIN done.incoming \ {id}
    BY <1>0, <1>2, ConstantsAssumption DEF StoreOK, IsMap
  <2>2. \A x : AnswerHere(st, NoId, S, x) <=> AnswerHere(done, id, S, x)
    BY <2>1 DEF AnswerHere
  <2>3. QED
    BY <1>0, <1>3, <2>2 DEF Sound, Marks
<1>10. Outcomes(done, id)
  <2> SUFFICES ASSUME NEW x \in (DOMAIN done.errors \cup DOMAIN done.responses) \ {id}
               PROVE  OutcomeOf(done, x)
    BY DEF Outcomes
  <2>1. x \in DOMAIN st.errors \cup DOMAIN st.responses
    BY <1>3
  <2>2. x # NoId
    BY <1>0, <2>1, ConstantsAssumption DEF StoreOK, IsMap
  <2>3. OutcomeOf(st, x)
    BY <1>0, <2>1, <2>2 DEF Sound, Outcomes
  <2>4. QED
    BY <1>2, <1>3, <2>3 DEF OutcomeOf
<1>11. Signals(done, id)
  <2>1. Signals(st, NoId) /\ NoId \notin DOMAIN st.incoming
    BY <1>0, ConstantsAssumption DEF Sound, StoreOK, IsMap
  <2>2. \A signal \in done.succeeded :
          /\ signal[2] \in DOMAIN done.incoming \ DOMAIN done.errors
          /\ signal[2] # id
    BY <1>2, <1>3, <2>1 DEF Signals
  <2>3. ASSUME NEW x \in DOMAIN done.incoming \ (DOMAIN done.errors \cup {id})
        PROVE  done.incoming[x].sourceRequest # NoId =>
                 (<<"mined", x>> \in done.succeeded)
                   # (<<"retried", x>> \in done.succeeded)
    <3>1. /\ x \in DOMAIN st.incoming \ (DOMAIN st.errors \cup {NoId})
          /\ done.incoming[x] = st.incoming[x]
      BY <1>2, <1>3, <2>1
    <3>2. QED
      BY <1>3, <2>1, <3>1 DEF Signals
  <2>4. QED
    BY <2>2, <2>3 DEF Signals
<1>12. id \notin DOMAIN S[c].incoming
  BY <1>0, <1>2 DEF Evolves
<1>13. Evolves(S[c], done)
  BY <1>0, <1>2, <1>3, <1>12 DEF Evolves, Failed
<1>14. QED
  BY <1>2, <1>3, <1>4, <1>5, <1>6, <1>7, <1>8, <1>9, <1>10, <1>11, <1>12, <1>13 DEF Sound

\* An ingested answer names a request of this chain, which its source has
\* answered with it and with nothing else.
LEMMA AnswerNamesRequest ==
  ASSUME NEW c \in Chain, NEW st, NEW last, NEW fresh, NEW open, NEW S,
         Workable(c, st, last, fresh, open, S),
         NEW id \in DOMAIN st.incoming
  PROVE  /\ st.incoming[id].sourceRequest # NoId =>
              /\ st.incoming[id].sourceRequest \in DOMAIN st.requests
              /\ st.incoming[id].sourceRequest \in DOMAIN S[c].requests
              /\ Target(st.incoming[id].sourceRequest) = Source(id)
              /\ st.incoming[id].sourceRequest \in DOMAIN S[Source(id)].responses
              /\ S[Source(id)].responses[st.incoming[id].sourceRequest] = id
         /\ \A x \in DOMAIN st.requests :
              /\ x \in DOMAIN S[Target(x)].responses
              /\ S[Target(x)].responses[x] = id
              => x = st.incoming[id].sourceRequest
<1> DEFINE original == st.incoming[id].sourceRequest
           s == Source(id)
<1>0. /\ Peers(S) /\ StoreOK(st) /\ Linked(c, st)
      /\ Sound(c, st, last, fresh, open, S) /\ Evolves(S[c], st)
  BY DEF Workable
<1>1. /\ id \in Id /\ s \in Chain /\ s # c /\ Target(id) = c
      /\ id \in DOMAIN S[s].requests
  BY <1>0, ArrivedFromPeer DEF Sound
<1>2. original = S[s].requests[id].sourceRequest
  BY <1>0 DEF Sound, Lane, ArrivalOK, SameMessage
<1>3. StoreOK(S[s]) /\ Linked(s, S[s]) /\ Sound(s, S[s], S[s].last, NoId, NoId, S)
  BY <1>0, <1>1 DEF Peers
<1>4. ASSUME original # NoId
      PROVE  /\ original \in DOMAIN st.requests
             /\ original \in DOMAIN S[c].requests
             /\ Target(original) = s
             /\ original \in DOMAIN S[s].responses
             /\ S[s].responses[original] = id
  <2>1. original \in DOMAIN S[s].responses /\ S[s].responses[original] = id
    BY <1>1, <1>2, <1>3, <1>4 DEF Linked, AnswersLinked
  <2>2. Source(original) = c
    BY <1>1, <1>3, <2>1 DEF Linked, AnswersLinked
  <2>3. original \in DOMAIN S[s].incoming
    BY <1>3, <2>1 DEF Sound, LegsFit
  <2>4. original \in DOMAIN S[c].requests /\ Target(original) = s
    BY <1>3, <2>2, <2>3 DEF Sound, Lane, ArrivalOK
  <2>5. QED
    BY <1>0, <2>1, <2>4 DEF Evolves
<1>5. ASSUME NEW x \in DOMAIN st.requests,
             x \in DOMAIN S[Target(x)].responses, S[Target(x)].responses[x] = id
      PROVE  x = original
  <2>1. Target(x) \in Chain
    BY <1>0, IdParts DEF StoreOK, IsMap
  <2>2. /\ id \in DOMAIN S[Target(x)].requests
        /\ S[Target(x)].requests[id].sourceRequest = x
    BY <1>0, <1>5, <2>1 DEF Peers, Linked, AnswersLinked
  <2>3. Target(x) = s
    BY <1>0, <2>1, <2>2 DEF Peers, Linked, KeyedLog
  <2>4. QED
    BY <1>2, <2>2, <2>3
<1>6. QED
  BY <1>4, <1>5

\* A leg in flux finds the request it answers unmarked.
LEMMA AnswerIsPending ==
  ASSUME NEW c \in Chain, NEW st, NEW last, NEW S, NEW id \in DOMAIN st.incoming,
         Workable(c, st, last, id, id, S)
  PROVE  AnswersPending(st, id) <=> st.incoming[id].sourceRequest # NoId
<1> DEFINE original == st.incoming[id].sourceRequest
<1>1. Sound(c, st, last, id, id, S)
  BY DEF Workable
<1>2. CASE original # NoId
  <2>1. /\ original \in DOMAIN st.requests
        /\ Target(original) = Source(id)
        /\ S[Source(id)].responses[original] = id
    BY <1>2, AnswerNamesRequest
  <2>2. ~ AnswerHere(st, id, S, original)
    BY <2>1 DEF AnswerHere
  <2>3. ~ st.requests[original].executed
    BY <1>1, <2>1, <2>2 DEF Sound, Marks
  <2>4. WellFormed(st.incoming[id])
    BY <1>1 DEF Sound, Lane, ArrivalOK
  <2>5. ~ st.incoming[id].twoWay
    BY <1>2, <2>4 DEF WellFormed
  <2>6. QED
    BY <1>2, <2>1, <2>3, <2>5 DEF AnswersPending
<1>3. CASE original = NoId
  BY <1>3 DEF AnswersPending
<1>4. QED
  BY <1>2, <1>3

\* Marking settles the item in flux, once its outcome is settled.
LEMMA MarkSound ==
  ASSUME NEW c \in Chain, NEW st, NEW last, NEW S, NEW id \in DOMAIN st.incoming,
         Workable(c, st, last, id, id, S), OutcomeOf(st, id)
  PROVE  /\ Sound(c, MarkOriginal(st, id), last, NoId, NoId, S)
         /\ Evolves(S[c], MarkOriginal(st, id))
         /\ MarkOriginal(st, id).last = st.last
<1> DEFINE original == st.incoming[id].sourceRequest
           done == MarkOriginal(st, id)
<1>0. /\ Peers(S) /\ StoreOK(st) /\ Linked(c, st)
      /\ Sound(c, st, last, id, id, S) /\ Evolves(S[c], st)
  BY DEF Workable
<1>1. AnswersPending(st, id) <=> original # NoId
  BY AnswerIsPending
<1>2. /\ DOMAIN done.requests = DOMAIN st.requests
      /\ done.nonce = st.nonce
      /\ done.incoming = st.incoming
      /\ done.responses = st.responses
      /\ done.errors = st.errors
      /\ done.last = st.last
      /\ done.succeeded = IF original # NoId /\ id \notin DOMAIN st.errors
                          THEN st.succeeded \cup {<<"mined", id>>}
                          ELSE st.succeeded
      /\ done.requests = IF original # NoId
                         THEN [st.requests EXCEPT ![original].executed = TRUE]
                         ELSE st.requests
  BY <1>0, <1>1 DEF MarkOriginal, StoreOK, StoreField
<1> HIDE DEF done
<1>3. \A x \in DOMAIN st.requests :
        /\ SameRequest(st.requests[x], done.requests[x])
        /\ x = original => done.requests[x].executed = TRUE
        /\ x # original => done.requests[x] = st.requests[x]
  <2> SUFFICES ASSUME NEW x \in DOMAIN st.requests
               PROVE  /\ SameRequest(st.requests[x], done.requests[x])
                      /\ x = original => done.requests[x].executed = TRUE
                      /\ x # original => done.requests[x] = st.requests[x]
    OBVIOUS
  <2>1. st.requests[x] \in Request /\ x # NoId
    BY <1>0, ConstantsAssumption DEF StoreOK, IsMap
  <2>2. \A r \in Request : /\ SameRequest(r, [r EXCEPT !.executed = TRUE])
                           /\ [r EXCEPT !.executed = TRUE].executed = TRUE
                           /\ SameRequest(r, r)
    BY DEF Request, SameRequest
  <2>3. CASE x = original
    <3>1. done.requests[x] = [st.requests[x] EXCEPT !.executed = TRUE]
      BY <1>2, <2>1, <2>3
    <3>2. QED
      BY <2>1, <2>2, <2>3, <3>1
  <2>4. CASE x # original
    <3>1. done.requests[x] = st.requests[x]
      BY <1>2, <2>4
    <3>2. QED
      BY <2>1, <2>2, <2>4, <3>1
  <2>5. QED
    BY <2>3, <2>4
<1>4. LogOK(c, done)
  <2>1. \A x \in DOMAIN st.requests : WellFormed(done.requests[x])
    BY <1>0, <1>3 DEF Sound, LogOK, WellFormed, SameRequest
  <2>2. QED
    BY <1>0, <1>2, <2>1 DEF Sound, LogOK
<1>5. \A x \in DOMAIN st.responses : st.responses[x] \in DOMAIN st.requests
  BY <1>0 DEF Linked, AnswersLinked
<1>6. LegsFit(done)
  <2> SUFFICES ASSUME NEW x \in DOMAIN st.responses
               PROVE  /\ x \in DOMAIN st.incoming
                      /\ st.incoming[x].twoWay
                      /\ LegFits(done.requests[st.responses[x]], st.incoming[x])
    BY <1>2 DEF LegsFit
  <2>1. /\ x \in DOMAIN st.incoming
        /\ st.incoming[x].twoWay
        /\ LegFits(st.requests[st.responses[x]], st.incoming[x])
    BY <1>0 DEF Sound, LegsFit
  <2>2. SameRequest(st.requests[st.responses[x]], done.requests[st.responses[x]])
    BY <1>3, <1>5
  <2>3. QED
    BY <2>1, <2>2 DEF LegFits, SameRequest
<1>7. Lane(c, done, last, S)
  BY <1>0, <1>2 DEF Sound, Lane, ArrivalOK, Rejected
<1>8. Marks(done, NoId, S)
  <2>0. id # NoId /\ id \in DOMAIN done.incoming
    BY <1>0, <1>2, ConstantsAssumption DEF StoreOK, IsMap
  <2> SUFFICES ASSUME NEW x \in DOMAIN st.requests
               PROVE  done.requests[x].executed <=> AnswerHere(done, NoId, S, x)
    BY <1>2 DEF Marks
  <2>1. CASE x = original
    <3>1. original # NoId
      BY <1>0, <2>1, ConstantsAssumption DEF StoreOK, IsMap
    <3>2. AnswerHere(done, NoId, S, x)
      BY <2>0, <2>1, <3>1, AnswerNamesRequest DEF AnswerHere
    <3>3. QED
      BY <1>3, <2>1, <3>2
  <2>2. CASE x # original
    <3>1. /\ x \in DOMAIN S[Target(x)].responses => S[Target(x)].responses[x] # id
          /\ NoId \notin DOMAIN st.incoming
      <4>1. x \in DOMAIN S[Target(x)].responses => S[Target(x)].responses[x] # id
        BY <2>2, AnswerNamesRequest
      <4>2. NoId \notin DOMAIN st.incoming
        BY <1>0, ConstantsAssumption DEF StoreOK, IsMap
      <4>3. QED
        BY <4>1, <4>2
    <3>2. AnswerHere(done, NoId, S, x) <=> AnswerHere(st, id, S, x)
      BY <1>2, <3>1 DEF AnswerHere
    <3>3. QED
      BY <1>0, <1>3, <2>2, <3>2 DEF Sound, Marks
  <2>3. QED
    BY <2>1, <2>2
<1>9. Outcomes(done, NoId)
  <2> SUFFICES ASSUME NEW x \in DOMAIN st.errors \cup DOMAIN st.responses
               PROVE  OutcomeOf(done, x)
    BY <1>2 DEF Outcomes
  <2>1. OutcomeOf(st, x)
    BY <1>0 DEF Sound, Outcomes
  <2>2. x \in DOMAIN st.responses =>
          done.requests[st.responses[x]].sender = st.requests[st.responses[x]].sender
    BY <1>3, <1>5 DEF SameRequest
  <2>3. QED
    BY <1>2, <2>1, <2>2 DEF OutcomeOf
<1>10. Signals(done, NoId)
  <2>0. Signals(st, id) /\ NoId \notin DOMAIN st.incoming
    BY <1>0, ConstantsAssumption DEF Sound, StoreOK, IsMap
  <2>1. ASSUME NEW signal \in done.succeeded
        PROVE  signal[2] \in DOMAIN st.incoming \ DOMAIN st.errors
    <3>1. CASE signal \in st.succeeded
      BY <2>0, <3>1 DEF Signals
    <3>2. CASE signal \notin st.succeeded
      BY <1>2, <2>1, <3>2
    <3>3. QED
      BY <3>1, <3>2
  <2>2. ASSUME NEW x \in DOMAIN st.incoming \ DOMAIN st.errors,
               st.incoming[x].sourceRequest # NoId
        PROVE  (<<"mined", x>> \in done.succeeded)
                 # (<<"retried", x>> \in done.succeeded)
    <3>1. CASE x = id
      <4>1. <<"retried", id>> \notin st.succeeded
        BY <2>0 DEF Signals
      <4>2. done.succeeded = st.succeeded \cup {<<"mined", id>>}
        BY <1>2, <2>2, <3>1
      <4>3. QED
        BY <3>1, <4>1, <4>2
    <3>2. CASE x # id
      <4>1. (<<"mined", x>> \in st.succeeded) # (<<"retried", x>> \in st.succeeded)
        BY <2>0, <2>2, <3>2 DEF Signals
      <4>2. /\ <<"mined", x>> \in done.succeeded <=> <<"mined", x>> \in st.succeeded
            /\ <<"retried", x>> \in done.succeeded
                 <=> <<"retried", x>> \in st.succeeded
        BY <1>2, <3>2
      <4>3. QED
        BY <4>1, <4>2
    <3>3. QED
      BY <3>1, <3>2
  <2>3. QED
    BY <1>2, <2>0, <2>1, <2>2 DEF Signals
<1>11. Evolves(S[c], done)
  <2>1. Evolves(st, done)
    BY <1>2, <1>3 DEF Evolves, Failed
  <2>2. QED
    BY <1>0, <2>1, EvolvesTransitive
<1>12. QED
  BY <1>2, <1>4, <1>6, <1>7, <1>8, <1>9, <1>10, <1>11 DEF Sound, done

\* Marking the running item executed settles nothing yet.
LEMMA ExecutedSound ==
  ASSUME NEW c, NEW st, NEW last, NEW fresh, NEW S, NEW id,
         Sound(c, st, last, fresh, id, S), Evolves(S[c], st), StoreOK(st),
         id \in DOMAIN st.incoming
  PROVE  /\ Sound(c, Executed(st, id), last, fresh, id, S)
         /\ Evolves(S[c], Executed(st, id))
         /\ Executed(st, id).last = st.last
         /\ DOMAIN Executed(st, id).incoming = DOMAIN st.incoming
         /\ Executed(st, id).incoming[id].executed = TRUE
         /\ Executed(st, id).errors = st.errors
         /\ Executed(st, id).responses = st.responses
         /\ Executed(st, id).requests = st.requests
<1> DEFINE done == Executed(st, id)
<1>1. /\ done.requests = st.requests
      /\ done.nonce = st.nonce
      /\ done.incoming = [st.incoming EXCEPT ![id].executed = TRUE]
      /\ done.responses = st.responses
      /\ done.errors = st.errors
      /\ done.last = st.last
      /\ done.succeeded = st.succeeded
  BY DEF Executed, StoreOK, StoreField
<1>2. /\ DOMAIN done.incoming = DOMAIN st.incoming
      /\ \A x \in DOMAIN st.incoming : SameRequest(st.incoming[x], done.incoming[x])
      /\ \A x \in DOMAIN st.incoming \ {id} : done.incoming[x] = st.incoming[x]
      /\ done.incoming[id].executed = TRUE
  <2>1. \A x \in DOMAIN st.incoming : st.incoming[x] \in Request
    BY DEF StoreOK, IsMap
  <2>2. \A r \in Request : /\ SameRequest(r, [r EXCEPT !.executed = TRUE])
                           /\ [r EXCEPT !.executed = TRUE].executed = TRUE
                           /\ SameRequest(r, r)
    BY DEF Request, SameRequest
  <2>3. QED
    BY ZenonT(60), <1>1, <2>1, <2>2
<1> HIDE DEF done
<1>3. LogOK(c, done) /\ Marks(done, fresh, S)
  BY <1>1, <1>2 DEF Sound, LogOK, Marks, AnswerHere
<1>4. LegsFit(done)
  <2>1. LegsFit(st)
    BY DEF Sound
  <2>2. \A x \in DOMAIN st.incoming :
          /\ done.incoming[x].twoWay = st.incoming[x].twoWay
          /\ \A leg : LegFits(leg, st.incoming[x]) => LegFits(leg, done.incoming[x])
    BY <1>2 DEF SameRequest, LegFits
  <2>3. QED
    BY <1>1, <1>2, <2>1, <2>2 DEF LegsFit
<1>5. Lane(c, done, last, S)
  BY <1>1, <1>2 DEF Sound, Lane, ArrivalOK, Rejected, SameMessage, SameRequest,
                    WellFormed
<1>6. Outcomes(done, id)
  BY <1>1, <1>2 DEF Sound, Outcomes, OutcomeOf
<1>7. Signals(done, id)
  BY <1>1, <1>2 DEF Sound, Signals
<1>8. Evolves(S[c], done)
  BY <1>1, <1>2 DEF Evolves, Failed
<1>9. QED
  BY <1>1, <1>2, <1>3, <1>4, <1>5, <1>6, <1>7, <1>8 DEF Sound, done

\* Replacing the storage of chain c by a sound one that evolved from it keeps
\* every storage sound.
LEMMA CommitPeers ==
  ASSUME NEW c \in Chain, NEW st, NEW S, NEW T,
         Workable(c, st, st.last, NoId, NoId, S),
         \A d \in Chain : T[d] = IF d = c THEN st ELSE S[d]
  PROVE  Peers(T)
<1>0. /\ Peers(S) /\ StoreOK(st) /\ Linked(c, st)
      /\ Sound(c, st, st.last, NoId, NoId, S) /\ Evolves(S[c], st)
  BY DEF Workable
<1>1. T[c] = st /\ \A d \in Chain \ {c} : T[d] = S[d]
  OBVIOUS
<1>2. ASSUME NEW d \in Chain
      PROVE  /\ StoreOK(T[d]) /\ Linked(d, T[d])
             /\ Sound(d, T[d], T[d].last, NoId, NoId, S)
  BY <1>0, <1>1 DEF Peers
<1>3. \A id \in DOMAIN st.responses \ DOMAIN S[c].responses :
        st.responses[id] \notin DOMAIN S[c].requests
  <2> SUFFICES ASSUME NEW id \in DOMAIN st.responses \ DOMAIN S[c].responses,
                      st.responses[id] \in DOMAIN S[c].requests
               PROVE  FALSE
    OBVIOUS
  <2> DEFINE leg == st.responses[id]
  <2>1. st.requests[leg].sourceRequest = id
    BY <1>0 DEF Linked, AnswersLinked
  <2>2. S[c].requests[leg].sourceRequest = id
    BY <1>0, <2>1 DEF Evolves, SameRequest
  <2>3. id # NoId
    BY <1>0, ConstantsAssumption DEF StoreOK, IsMap
  <2>4. QED
    BY <1>0, <2>2, <2>3 DEF Peers, Linked, AnswersLinked
<1>4. ASSUME NEW d \in Chain
      PROVE  Lane(d, T[d], T[d].last, T)
  <2>1. Lane(d, T[d], T[d].last, S) /\ StoreOK(T[d])
    BY <1>2 DEF Sound
  <2>2. ASSUME NEW id \in DOMAIN T[d].incoming
        PROVE  ArrivalOK(d, T[d], T[d].last, T, id)
    <3>1. Source(id) \in Chain /\ id \in DOMAIN S[Source(id)].requests
      BY <1>0, <2>1, ArrivedFromPeer
    <3>2. /\ id \in DOMAIN T[Source(id)].requests
          /\ SameRequest(S[Source(id)].requests[id], T[Source(id)].requests[id])
      BY <1>0, <1>1, <3>1 DEF Evolves, SameRequest
    <3>3. ArrivalOK(d, T[d], T[d].last, S, id)
      BY <2>1 DEF Lane
    <3>4. SameMessage(T[d].incoming[id], T[Source(id)].requests[id],
                      Rejected(T[d], id))
      BY <3>2, <3>3 DEF ArrivalOK, SameMessage, SameRequest
    <3>5. QED
      BY <3>2, <3>3, <3>4 DEF ArrivalOK
  <2>3. QED
    BY <2>1, <2>2 DEF Lane
<1>5. ASSUME NEW d \in Chain
      PROVE  Marks(T[d], NoId, T)
  <2> SUFFICES ASSUME NEW id \in DOMAIN T[d].requests
               PROVE  AnswerHere(T[d], NoId, S, id) <=> AnswerHere(T[d], NoId, T, id)
    BY <1>2 DEF Sound, Marks
  <2>1. Target(id) \in Chain /\ Target(id) # d
    BY <1>2, IdParts DEF StoreOK, IsMap, Sound, LogOK
  <2>2. CASE Target(id) # c
    BY <1>1, <2>1, <2>2 DEF AnswerHere
  <2>3. CASE Target(id) = c
    <3>1. T[d] = S[d] /\ T[Target(id)] = st
      BY <1>1, <2>1, <2>3
    <3>2. CASE id \in DOMAIN S[c].responses
      BY <1>0, <2>3, <3>1, <3>2 DEF AnswerHere, Evolves
    <3>3. CASE id \in DOMAIN st.responses \ DOMAIN S[c].responses
      <4>1. st.responses[id] \notin DOMAIN S[c].requests
        BY <1>3, <3>3
      <4>2. Source(st.responses[id]) = c
        BY <1>0, <3>3 DEF Linked, AnswersLinked, KeyedLog
      <4>3. st.responses[id] \in DOMAIN S[d].incoming =>
              st.responses[id] \in DOMAIN S[c].requests
        BY <1>0, <4>2 DEF Peers, Sound, Lane, ArrivalOK
      <4>4. QED
        BY <2>3, <3>1, <3>3, <4>1, <4>3 DEF AnswerHere
    <3>4. CASE id \notin DOMAIN st.responses
      BY <1>0, <2>3, <3>1, <3>4 DEF AnswerHere, Evolves
    <3>5. QED
      BY <3>2, <3>3, <3>4
  <2>4. QED
    BY <2>2, <2>3
<1>6. QED
  BY <1>2, <1>4, <1>5 DEF Peers, Sound

-----------------------------------------------------------------------------
(* The storage that would be committed if the call in progress returned.   *)

\* It, its last ids, its item not counted yet and its item not settled.
Base(c) == IF tx = NoTx THEN store[c] ELSE IfCallReturns
BaseLast(c) == IF tx = NoTx THEN store[c].last ELSE TxLast
FreshItem == IF tx # NoTx /\ tx.kind = "batch" THEN tx.item ELSE NoId
OpenItem == IF tx = NoTx THEN NoId ELSE tx.item

\* Two storages agree on everything but the execution context.
Same(st, done) ==
  /\ done.requests = st.requests
  /\ done.nonce = st.nonce
  /\ done.incoming = st.incoming
  /\ done.responses = st.responses
  /\ done.errors = st.errors
  /\ done.last = st.last
  /\ done.succeeded = st.succeeded

\* The execution context does not matter to messages in flight.
LEMMA SameFlight ==
  ASSUME NEW c, NEW st, NEW done, NEW last, NEW fresh, NEW item, NEW S,
         InFlight(c, st, last, fresh, item, S), Same(st, done)
  PROVE  InFlight(c, done, last, fresh, item, S)
<1>1. Sound(c, st, last, fresh, item, S)
  BY DEF InFlight
<1>2. LogOK(c, done) /\ LegsFit(done)
  BY <1>1 DEF Sound, LogOK, LegsFit, Same
<1>3. Lane(c, done, last, S)
  BY <1>1 DEF Sound, Lane, ArrivalOK, Rejected, Same
<1>4. Marks(done, fresh, S)
  BY <1>1 DEF Sound, Marks, AnswerHere, Same
<1>5. Outcomes(done, item) /\ OutcomeOf(done, item)
  BY <1>1 DEF Sound, Outcomes, OutcomeOf, Same, InFlight
<1>6. Signals(done, item)
  BY <1>1 DEF Sound, Signals, Same
<1>7. Evolves(S[c], done)
  BY DEF InFlight, Evolves, Failed, Same
<1>8. QED
  BY <1>2, <1>3, <1>4, <1>5, <1>6, <1>7 DEF InFlight, Sound, Same

\* What the storage of a call is, and that it is sound.
LEMMA CallBase ==
  ASSUME MessageInv, tx # NoTx, tx.calling
  PROVE  /\ TxOK /\ TxInv /\ tx.chain \in Chain /\ tx.item \in Id
         /\ StoreOK(IfCallReturns) /\ Linked(tx.chain, IfCallReturns)
         /\ InFlight(tx.chain, IfCallReturns, TxLast, FreshItem, tx.item, store)
         /\ Workable(tx.chain, IfCallReturns, TxLast, FreshItem, tx.item, store)
         /\ tx.item \in DOMAIN store[tx.chain].incoming
              => Failed(store[tx.chain], tx.item)
         /\ IfCallReturns.requests = tx.inner.requests
         /\ IfCallReturns.nonce = tx.inner.nonce
         /\ IfCallReturns.incoming = tx.inner.incoming
         /\ IfCallReturns.responses = tx.inner.responses
         /\ IfCallReturns.errors = IF tx.kind = "retry"
                                   THEN Remove(tx.inner.errors, tx.item)
                                   ELSE tx.inner.errors
         /\ IfCallReturns.last = tx.inner.last
         /\ IfCallReturns.succeeded = tx.inner.succeeded
<1>1. TxOK /\ TxInv /\ tx.chain \in Chain /\ tx.item \in Id /\ StoreOK(tx.inner)
  BY DEF MessageInv, IInv, TypeOK, LinkInv, TxOK
<1>2. /\ IfCallReturns.requests = tx.inner.requests
      /\ IfCallReturns.nonce = tx.inner.nonce
      /\ IfCallReturns.incoming = tx.inner.incoming
      /\ IfCallReturns.responses = tx.inner.responses
      /\ IfCallReturns.errors = IF tx.kind = "retry"
                                THEN Remove(tx.inner.errors, tx.item)
                                ELSE tx.inner.errors
      /\ IfCallReturns.last = tx.inner.last
      /\ IfCallReturns.succeeded = tx.inner.succeeded
  BY <1>1 DEF IfCallReturns, StoreOK, StoreField
<1>3. StoreOK(IfCallReturns)
  <2>1. IsMap(Remove(tx.inner.errors, tx.item), Id, ExecutionFailed .. Expired)
    BY <1>1, RemoveMap DEF StoreOK
  <2>2. QED
    BY <1>1, <2>1 DEF IfCallReturns, StoreOK, StoreField
<1>4. Linked(tx.chain, IfCallReturns)
  BY <1>1, <1>2, SameLinks DEF TxInv
<1>5. CASE tx.kind = "batch"
  <2>1. IfCallReturns = tx.inner /\ FreshItem = tx.item /\ BatchSound
    BY <1>5 DEF IfCallReturns, FreshItem, MessageInv
  <2>2. /\ InFlight(tx.chain, IfCallReturns, TxLast, FreshItem, tx.item, store)
        /\ tx.item \notin DOMAIN store[tx.chain].incoming
    BY <2>1 DEF BatchSound
  <2>3. QED
    BY <1>1, <1>2, <1>3, <1>4, <2>2 DEF Workable, InFlight, MessageInv
<1>6. CASE tx.kind = "retry"
  <2>1. FreshItem = NoId /\ RetrySound
    BY <1>6 DEF FreshItem, MessageInv
  <2>2. /\ InFlight(tx.chain, IfCallReturns, TxLast, FreshItem, tx.item, store)
        /\ Failed(store[tx.chain], tx.item)
    BY <2>1 DEF RetrySound
  <2>3. QED
    BY <1>1, <1>2, <1>3, <1>4, <2>2 DEF Workable, InFlight, MessageInv
<1>7. QED
  BY <1>1, <1>5, <1>6 DEF TxOK

\* A message call goes on from a workable storage.
LEMMA RunningBase ==
  ASSUME MessageInv, NEW c \in Chain, Running(c)
  PROVE  /\ Workable(c, Base(c), BaseLast(c), FreshItem, OpenItem, store)
         /\ Base(c).requests = Current(c).requests
         /\ Base(c).nonce = Current(c).nonce
         /\ Base(c).incoming = Current(c).incoming
         /\ Base(c).responses = Current(c).responses
         /\ Base(c).last = Current(c).last
         /\ Base(c).succeeded = Current(c).succeeded
<1>1. CASE tx = NoTx
  <2>1. /\ Base(c) = store[c] /\ BaseLast(c) = store[c].last
        /\ FreshItem = NoId /\ OpenItem = NoId /\ Current(c) = store[c]
    BY <1>1 DEF Base, BaseLast, FreshItem, OpenItem, Current
  <2>2. Evolves(store[c], store[c])
    BY DEF Evolves, SameRequest
  <2>3. QED
    BY <2>1, <2>2 DEF Workable, MessageInv, Peers
<1>2. CASE tx # NoTx
  <2>1. tx.calling /\ tx.chain = c
    BY <1>2 DEF Running, InCall
  <2>2. /\ Base(c) = IfCallReturns /\ BaseLast(c) = TxLast
        /\ OpenItem = tx.item /\ Current(c) = tx.inner
    BY <1>2 DEF Base, BaseLast, OpenItem, Current
  <2>3. QED
    BY <1>2, <2>1, <2>2, CallBase
<1>3. QED
  BY <1>1, <1>2

\* done is what a message call makes of the base of chain c; st is the storage
\* it writes.
Written(c, st, done) ==
  /\ StoreOK(st)
  /\ Linked(c, st)
  /\ done.requests = st.requests
  /\ done.nonce = st.nonce
  /\ done.incoming = st.incoming
  /\ done.responses = st.responses
  /\ done.last = st.last
  /\ done.succeeded = st.succeeded
  /\ st.errors = Current(c).errors
  /\ done.errors = Base(c).errors
  /\ done.last = Base(c).last
  /\ done.incoming = Base(c).incoming
  /\ Sound(c, done, BaseLast(c), FreshItem, OpenItem, store)
  /\ Evolves(store[c], done)
  /\ tx # NoTx => OutcomeOf(done, tx.item)

\* A message call that keeps its storage sound keeps the invariant.
LEMMA WriteMessage ==
  ASSUME MessageInv, IInv', NEW c \in Chain, Running(c), NEW st, NEW done,
         Written(c, st, done), Write(c, st), UNCHANGED <<config, now>>
  PROVE  MessageInv' /\ Committed
<1>1. CASE tx = NoTx
  <2>1. store' = [store EXCEPT ![c] = st] /\ tx' = NoTx
    BY <1>1 DEF Write
  <2>2. \A d \in Chain : store'[d] = IF d = c THEN st ELSE store[d]
    BY <2>1 DEF MessageInv, IInv, TypeOK
  <2>3. /\ Base(c) = store[c] /\ BaseLast(c) = store[c].last
        /\ FreshItem = NoId /\ OpenItem = NoId /\ Current(c) = store[c]
    BY <1>1 DEF Base, BaseLast, FreshItem, OpenItem, Current
  <2>4. Same(done, st) /\ st.last = store[c].last
    BY <2>3 DEF Written, Same
  <2>5. Sound(c, done, st.last, NoId, NoId, store)
    BY <2>3, <2>4 DEF Written
  <2>6. Sound(c, st, st.last, NoId, NoId, store)
    BY <2>4, <2>5, SameSound DEF Same
  <2>7. Evolves(store[c], st)
    BY <2>4 DEF Written, Same, Evolves, Failed
  <2>8. Workable(c, st, st.last, NoId, NoId, store)
    BY <2>6, <2>7 DEF Workable, Written, MessageInv
  <2>9. Peers(store')
    BY <2>2, <2>8, CommitPeers
  <2>10. Committed
    BY <2>2, <2>7 DEF Committed
  <2>11. QED
    BY <2>1, <2>9, <2>10 DEF MessageInv
<1>2. CASE tx # NoTx
  <2>1. tx.calling /\ tx.chain = c
    BY <1>2 DEF Running, InCall
  <2>2. /\ TxOK /\ tx.item \in Id
        /\ InFlight(c, IfCallReturns, TxLast, FreshItem, tx.item, store)
    BY <1>2, <2>1, CallBase
  <2>3. tx' = [tx EXCEPT !.inner = st] /\ store' = store
    BY <1>2 DEF Write
  <2>4. /\ tx'.kind = tx.kind /\ tx'.chain = tx.chain /\ tx'.source = tx.source
        /\ tx'.item = tx.item /\ tx'.allowedNonce = tx.allowedNonce
        /\ tx'.count = tx.count /\ tx'.calling = tx.calling
        /\ tx'.work = tx.work /\ tx'.inner = st
    BY <2>2, <2>3 DEF TxOK, TxField
  <2>5. /\ Base(c) = IfCallReturns /\ BaseLast(c) = TxLast
        /\ OpenItem = tx.item /\ Current(c) = tx.inner
    BY <1>2 DEF Base, BaseLast, OpenItem, Current
  <2>6. InFlight(c, done, TxLast, FreshItem, tx.item, store)
    BY <1>2, <2>2, <2>5 DEF Written, InFlight
  <2>7. TxLast' = TxLast
    BY <2>3, <2>4 DEF TxLast
  <2>8. CASE tx.kind = "batch"
    <3>1. Same(done, st)
      BY <2>5, <2>8 DEF Written, Same, IfCallReturns
    <3>2. InFlight(c, st, TxLast, FreshItem, tx.item, store)
      BY <2>6, <3>1, SameFlight
    <3>3. FreshItem = tx.item /\ BatchSound
      BY <1>2, <2>8 DEF FreshItem, MessageInv
    <3>4. BatchSound'
      BY <2>1, <2>3, <2>4, <2>7, <3>2, <3>3 DEF BatchSound
    <3>5. QED
      BY <2>3, <2>4, <2>8, <3>4 DEF MessageInv, Committed
  <2>9. CASE tx.kind = "retry"
    <3> DEFINE returned == [st EXCEPT !.errors = Remove(@, tx.item)]
    <3>1. IfCallReturns' = returned
      BY <2>4, <2>9 DEF IfCallReturns
    <3>2. Same(done, returned)
      <4>1. done.errors = Remove(st.errors, tx.item)
        BY <1>2, <2>1, <2>5, <2>9, CallBase DEF Written
      <4>2. QED
        BY <4>1 DEF Written, Same, StoreOK, StoreField
    <3>3. InFlight(c, returned, TxLast, FreshItem, tx.item, store)
      BY <2>6, <3>2, SameFlight
    <3>4. FreshItem = NoId /\ RetrySound
      BY <1>2, <2>9 DEF FreshItem, MessageInv
    <3>5. RetrySound'
      BY <2>1, <2>3, <2>4, <2>7, <3>1, <3>3, <3>4 DEF RetrySound
    <3>6. QED
      BY <2>3, <2>4, <2>9, <3>5 DEF MessageInv, Committed
  <2>10. QED
    BY <2>2, <2>8, <2>9 DEF TxOK
<1>3. QED
  BY <1>1, <1>2

-----------------------------------------------------------------------------
(* Errors of the item in flux.                                             *)

\* done is st up to the error recorded for id, which is not a rejection.
ErrorSet(st, id, done) ==
  /\ done.requests = st.requests
  /\ done.nonce = st.nonce
  /\ done.incoming = st.incoming
  /\ done.responses = st.responses
  /\ done.last = st.last
  /\ done.succeeded = st.succeeded
  /\ DOMAIN done.errors \ {id} = DOMAIN st.errors \ {id}
  /\ \A x \in DOMAIN st.errors \ {id} : done.errors[x] = st.errors[x]
  /\ ~ Rejected(st, id)
  /\ ~ Rejected(done, id)

\* The error of the open item may change.
LEMMA ErrorSound ==
  ASSUME NEW c, NEW st, NEW last, NEW fresh, NEW id, NEW S, NEW done,
         Sound(c, st, last, fresh, id, S), ErrorSet(st, id, done)
  PROVE  Sound(c, done, last, fresh, id, S)
<1>1. LogOK(c, done) /\ LegsFit(done)
  BY DEF Sound, LogOK, LegsFit, ErrorSet
<1>2. \A x \in DOMAIN st.incoming : Rejected(done, x) <=> Rejected(st, x)
  BY DEF ErrorSet, Rejected
<1>3. Lane(c, done, last, S)
  BY <1>2 DEF Sound, Lane, ArrivalOK, SameMessage, ErrorSet
<1>4. Marks(done, fresh, S)
  BY DEF Sound, Marks, AnswerHere, ErrorSet
<1>5. Outcomes(done, id)
  <2> SUFFICES ASSUME NEW x \in (DOMAIN done.errors \cup DOMAIN done.responses) \ {id}
               PROVE  OutcomeOf(done, x)
    BY DEF Outcomes
  <2>1. x \in (DOMAIN st.errors \cup DOMAIN st.responses) \ {id}
    BY DEF ErrorSet
  <2>2. OutcomeOf(st, x)
    BY <2>1 DEF Sound, Outcomes
  <2>3. QED
    BY <2>1, <2>2 DEF OutcomeOf, ErrorSet
<1>6. Signals(done, id)
  <2>1. Signals(st, id)
    BY DEF Sound
  <2>2. \A x : x # id => (x \in DOMAIN done.errors <=> x \in DOMAIN st.errors)
    BY DEF ErrorSet
  <2>3. \A signal \in done.succeeded :
          /\ signal[2] \in DOMAIN done.incoming \ DOMAIN done.errors
          /\ signal[2] # id
    BY <2>1, <2>2 DEF Signals, ErrorSet
  <2>4. ASSUME NEW x \in DOMAIN done.incoming \ (DOMAIN done.errors \cup {id})
        PROVE  done.incoming[x].sourceRequest # NoId =>
                 (<<"mined", x>> \in done.succeeded)
                   # (<<"retried", x>> \in done.succeeded)
    <3>1. x \in DOMAIN st.incoming \ (DOMAIN st.errors \cup {id})
      BY <2>2 DEF ErrorSet
    <3>2. QED
      BY <2>1, <3>1 DEF Signals, ErrorSet
  <2>5. QED
    BY <2>3, <2>4 DEF Signals
<1>7. QED
  BY <1>1, <1>3, <1>4, <1>5, <1>6 DEF Sound

\* Items that were not there before, or failed before, may change their error.
LEMMA ErrorEvolves ==
  ASSUME NEW old, NEW st, NEW id, NEW done, Evolves(old, st),
         ErrorSet(st, id, done), id \in DOMAIN old.incoming => Failed(old, id)
  PROVE  Evolves(old, done)
BY DEF Evolves, ErrorSet, Failed

\* Nothing more is open about an item whose outcome is settled, unless it has
\* to be signalled.
LEMMA SoundClosed ==
  ASSUME NEW c, NEW st, NEW last, NEW fresh, NEW id, NEW S,
         Sound(c, st, last, fresh, id, S), id \in DOMAIN st.errors,
         OutcomeOf(st, id), NoId \notin DOMAIN st.incoming
  PROVE  Sound(c, st, last, fresh, NoId, S)
<1>1. Outcomes(st, NoId)
  BY DEF Sound, Outcomes
<1>2. Signals(st, NoId)
  <2>1. Signals(st, id)
    BY DEF Sound
  <2>2. QED
    BY <2>1 DEF Signals
<1>3. QED
  BY <1>1, <1>2 DEF Sound

\* An item with an error has not been signalled, so it can be opened.
LEMMA SoundOpened ==
  ASSUME NEW c, NEW st, StoreOK(st), NEW last, NEW fresh, NEW id, NEW S,
         Sound(c, st, last, fresh, NoId, S), id \in DOMAIN st.errors
  PROVE  /\ Sound(c, st, last, fresh, id, S)
         /\ OutcomeOf(st, id)
<1>1. Outcomes(st, id) /\ OutcomeOf(st, id)
  <2>1. NoId \notin DOMAIN st.errors \cup DOMAIN st.responses
    BY ConstantsAssumption DEF StoreOK, IsMap
  <2>2. QED
    BY <2>1 DEF Sound, Outcomes
<1>2. Signals(st, id)
  <2>1. Signals(st, NoId) /\ NoId \notin DOMAIN st.incoming
    BY ConstantsAssumption DEF Sound, StoreOK, IsMap
  <2>2. QED
    BY <2>1 DEF Signals
<1>3. QED
  BY <1>1, <1>2 DEF Sound

\* A system-error callback settles the outcome of an item that is given up.
LEMMA SystemErrorSound ==
  ASSUME NEW c \in Chain, NEW st, NEW last, NEW fresh, NEW S,
         NEW id \in DOMAIN st.incoming, Workable(c, st, last, fresh, id, S),
         id \in DOMAIN S[c].incoming => Failed(S[c], id),
         CanSystemError(st, c, id), now \in [Chain -> Nat],
         id \notin DOMAIN st.responses, id \in DOMAIN st.errors,
         st.incoming[id].executed, st.errors[id] # ExecutionFailed
  PROVE  /\ Workable(c, SystemErrorCallback(st, c, id), last, fresh, id, S)
         /\ OutcomeOf(SystemErrorCallback(st, c, id), id)
         /\ SystemErrorCallback(st, c, id).incoming = st.incoming
         /\ SystemErrorCallback(st, c, id).errors = st.errors
         /\ SystemErrorCallback(st, c, id).last = st.last
<1> DEFINE leg == SystemErrorLeg(st, c, id)
           done == SystemErrorCallback(st, c, id)
           request == st.incoming[id]
<1>0. /\ Peers(S) /\ StoreOK(st) /\ Linked(c, st)
      /\ Sound(c, st, last, fresh, id, S) /\ Evolves(S[c], st)
  BY DEF Workable
<1>1. StoreOK(done) /\ Linked(c, done)
  BY <1>0, SystemErrorType, SystemErrorLinked
<1>2. WellFormed(request) /\ id # NoId
  BY <1>0, ConstantsAssumption DEF Sound, Lane, ArrivalOK, StoreOK, IsMap
<1>3. CASE ~ SystemErrorSends(st, id)
  <2>1. done = st
    BY <1>3 DEF SystemErrorCallback
  <2>2. ~ request.twoWay
    BY <1>2, <1>3 DEF SystemErrorSends, WellFormed
  <2>3. OutcomeOf(st, id)
    BY <2>2 DEF OutcomeOf
  <2>4. QED
    BY <2>1, <2>3
<1>4. CASE SystemErrorSends(st, id)
  <2>1. done = SendLeg(st, c, Source(id), id, leg)
    BY <1>4 DEF SystemErrorCallback
  <2>2. CanCreate(st, c, Source(id), leg)
    BY <1>4 DEF CanSystemError
  <2>3. leg \in Request
    BY <1>0, ReturnLegType, ConstantsAssumption DEF SystemErrorLeg, Address, Handler
  <2>4. /\ leg.sender = SystemSender
        /\ leg.targetContract = request.sender
        /\ leg.targetFee = request.callerFee
        /\ leg.error = request.error
        /\ leg.twoWay = FALSE
        /\ leg.callerFee = 0
        /\ leg.sourceRequest = id
        /\ leg.executed = FALSE
    BY DEF SystemErrorLeg, ReturnLeg
  <2> HIDE DEF leg, done
  <2>5. WellFormed(leg)
    BY <1>2, <2>4, ConstantsAssumption DEF WellFormed
  <2>6. LegFits(leg, request)
    BY <2>4 DEF LegFits
  <2>7. Sendable(c, st, Source(id), leg)
    BY <2>2, <2>3, <2>4, <2>5 DEF Sendable, CanCreate
  <2>8. request.twoWay
    BY <1>2, <1>4 DEF WellFormed, SystemErrorSends
  <2>9. /\ Sound(c, done, last, fresh, id, S)
        /\ Evolves(S[c], done)
        /\ done.incoming = st.incoming /\ done.errors = st.errors
        /\ done.last = st.last
        /\ id \in DOMAIN done.responses
        /\ done.requests[done.responses[id]] = leg
    BY <2>1, <2>6, <2>7, <2>8, LegSound
  <2>10. OutcomeOf(done, id)
    BY <2>4, <2>9 DEF OutcomeOf
  <2>11. QED
    BY <1>0, <1>1, <2>9, <2>10 DEF Workable, done
<1>5. QED
  BY <1>3, <1>4

-----------------------------------------------------------------------------
(* Every action keeps the invariant.                                       *)

\* Application sends, one-way and two-way.
LEMMA SendsMessage ==
  ASSUME MessageInv, IInv', Sends
  PROVE  MessageInv' /\ Committed
<1>1. ASSUME NEW c \in Chain, NEW d \in Chain, NEW r \in Request, WellFormed(r),
             r.executed = FALSE, r.sourceRequest = NoId, Send(c, d, r)
      PROVE  MessageInv' /\ Committed
  <2> DEFINE st == Current(c)
             base == Base(c)
             done == CreateRequest(base, c, d, r)
             sent == CreateRequest(st, c, d, r)
  <2>1. Running(c) /\ StoreOK(st) /\ CanCreate(st, c, d, r) /\ Write(c, sent)
    BY <1>1, CurrentType DEF Send, MessageInv, IInv
  <2>2. Linked(c, st)
    BY <2>1 DEF Current, Running, InCall, MessageInv, IInv, LinkInv, TxInv
  <2>3. /\ Workable(c, base, BaseLast(c), FreshItem, OpenItem, store)
        /\ base.requests = st.requests /\ base.nonce = st.nonce
        /\ base.incoming = st.incoming /\ base.responses = st.responses
        /\ base.last = st.last /\ base.succeeded = st.succeeded
    BY <2>1, RunningBase
  <2>4. StoreOK(base) /\ Linked(c, base)
    BY <2>3 DEF Workable
  <2> HIDE DEF base, st
  <2>5. Sendable(c, base, d, r)
    BY <1>1, <2>1, <2>3 DEF Sendable, CanCreate
  <2>6. /\ Sound(c, done, BaseLast(c), FreshItem, OpenItem, store)
        /\ Evolves(store[c], done)
        /\ done.incoming = base.incoming /\ done.errors = base.errors
        /\ done.responses = base.responses /\ done.last = base.last
        /\ \A id \in DOMAIN base.requests :
             id \in DOMAIN done.requests /\ done.requests[id] = base.requests[id]
    BY <2>3, <2>5, SendSound
  <2>7. StoreOK(sent) /\ Linked(c, sent)
    BY <1>1, <2>1, <2>2, CreateRequestType, CreateRequestLinked
  <2>8. /\ sent.requests = done.requests /\ sent.nonce = done.nonce
        /\ sent.succeeded = done.succeeded /\ sent.incoming = done.incoming
        /\ sent.responses = done.responses /\ sent.last = done.last
        /\ sent.errors = st.errors
    BY <2>1, <2>3, <2>4 DEF CreateRequest, CreatedId, StoreOK, StoreField
  <2>9. ASSUME tx # NoTx
        PROVE  OutcomeOf(done, tx.item)
    <3>1. OutcomeOf(base, tx.item)
      BY <2>1, <2>9, CallBase DEF base, Base, Running, InCall, InFlight
    <3>2. \A id \in DOMAIN base.responses : base.responses[id] \in DOMAIN base.requests
      BY <2>4 DEF Linked, AnswersLinked
    <3>3. QED
      BY <2>6, <3>1, <3>2 DEF OutcomeOf
  <2>10. Written(c, sent, done)
    BY <2>6, <2>7, <2>8, <2>9 DEF Written, base, st
  <2>11. QED
    BY <1>1, <2>1, <2>10, WriteMessage DEF Send
<1>2. ASSUME NEW c \in Chain, NEW who \in Contract, NEW target \in Contract,
             NEW call \in SendCalls, NEW w \in Weight, NEW tf \in FeeGas,
             NEW twoWay \in BOOLEAN, NEW cf \in Nat, twoWay <=> cf # 0
      PROVE  LET r == OutboundRequest(c, who, target, call, w, twoWay, tf, cf)
             IN  /\ r \in Request /\ WellFormed(r)
                 /\ r.executed = FALSE /\ r.sourceRequest = NoId
  <2> DEFINE r == OutboundRequest(c, who, target, call, w, twoWay, tf, cf)
  <2>1. r \in Request
    BY ConstantsAssumption DEF OutboundRequest, Request, Address, Handler,
                               MessageInv, IInv, TypeOK
  <2>2. /\ r.sender = who /\ r.twoWay = twoWay /\ r.error = twoWay
        /\ r.callerFee = cf /\ r.executed = FALSE /\ r.sourceRequest = NoId
    BY DEF OutboundRequest
  <2> HIDE DEF r
  <2>3. WellFormed(r)
    BY <1>2, <2>2, ConstantsAssumption DEF WellFormed
  <2>4. QED
    BY <2>1, <2>2, <2>3 DEF r
<1>3. PICK c \in Chain, d \in Chain, who \in Contract, target \in Contract,
           call \in SendCalls, w \in Weight, tf \in FeeGas :
        \/ SendOneWayMessage(c, d, who, target, call, w, tf)
        \/ \E cf \in FeeGas :
             SendTwoWayMessage(c, d, who, target, call, w, tf, cf)
  BY DEF Sends
<1>4. CASE SendOneWayMessage(c, d, who, target, call, w, tf)
  BY <1>1, <1>2, <1>4 DEF SendOneWayMessage
<1>5. ASSUME NEW cf \in FeeGas,
             SendTwoWayMessage(c, d, who, target, call, w, tf, cf)
      PROVE  MessageInv' /\ Committed
  <2>1. cf \in Nat /\ cf # 0
    BY ConstantsAssumption
  <2>2. QED
    BY <1>1, <1>2, <1>5, <2>1 DEF SendTwoWayMessage
<1>6. QED
  BY <1>3, <1>4, <1>5

\* respond and raise.
LEMMA RepliesMessage ==
  ASSUME MessageInv, IInv', Replies
  PROVE  MessageInv' /\ Committed
<1>1. PICK c \in Chain, who \in Contract, isRaise \in BOOLEAN, w \in Weight :
        Reply(c, who, isRaise, w)
  BY DEF Replies
<1> DEFINE st == Current(c)
           base == Base(c)
           id == tx.item
           handler == IF isRaise THEN "error" ELSE "callback"
           leg == ReturnLeg(st, c, id, who, handler, w)
           done == SendLeg(base, c, Source(id), id, leg)
           sent == SendLeg(st, c, Source(id), id, leg)
<1>2. StoreOK(st) /\ Running(c) /\ st.context # NoContext
  BY <1>1, CurrentType DEF Reply, MessageInv, IInv
<1>3. tx # NoTx /\ tx.chain = c /\ tx.calling
  BY <1>2 DEF Current, Running, InCall, MessageInv, IInv, LinkInv
<1>4. /\ TxInv /\ Linked(c, st) /\ st = tx.inner /\ InCallContext
  BY <1>3 DEF Current, MessageInv, IInv, LinkInv, TxInv
<1>5. st.context.requestId = id /\ st.context.remoteChain = Source(id)
  BY <1>4 DEF InCallContext
<1>6. /\ CanReply(st, id, who, isRaise)
      /\ CanCreate(st, c, Source(id), leg)
      /\ Write(c, sent)
      /\ UNCHANGED <<config, now>>
  BY <1>1, <1>5 DEF Reply
<1>7. /\ Workable(c, base, BaseLast(c), FreshItem, id, store)
      /\ base.requests = st.requests /\ base.nonce = st.nonce
      /\ base.incoming = st.incoming /\ base.responses = st.responses
      /\ base.last = st.last /\ base.succeeded = st.succeeded
  BY <1>2, <1>3, RunningBase DEF OpenItem
<1>8. /\ StoreOK(base) /\ id \in Id /\ base = IfCallReturns
      /\ InFlight(c, base, BaseLast(c), FreshItem, id, store)
      /\ id \in DOMAIN store[c].incoming => Failed(store[c], id)
  BY <1>3, CallBase DEF Base, BaseLast
<1>9. /\ id \notin DOMAIN st.responses /\ id \in DOMAIN st.incoming
      /\ who = st.incoming[id].targetContract /\ st.incoming[id].twoWay
  BY <1>6 DEF CanReply
<1>10. leg \in Request
  <2>1. /\ who \in Address /\ handler \in Handler
        /\ w \in Nat /\ now \in [Chain -> Nat]
    BY ConstantsAssumption DEF Address, Handler, MessageInv, IInv, TypeOK
  <2>2. QED
    BY <1>2, <1>9, <2>1, ReturnLegType
<1>11. /\ leg.sender = who
       /\ leg.targetContract = st.incoming[id].sender
       /\ leg.targetFee = st.incoming[id].callerFee
       /\ leg.error = st.incoming[id].error
       /\ leg.twoWay = FALSE
       /\ leg.callerFee = 0
       /\ leg.sourceRequest = id
       /\ leg.executed = FALSE
  BY DEF ReturnLeg
<1>12. StoreOK(sent) /\ Linked(c, sent)
  <2>1. /\ StoreOK(st) /\ Linked(c, st) /\ c \in Chain /\ id \in Id
        /\ id \notin DOMAIN st.responses /\ leg \in Request
        /\ leg.sourceRequest = id
    BY <1>2, <1>4, <1>8, <1>9, <1>10, <1>11
  <2>. HIDE DEF leg, st, id
  <2>2. Source(id) \in Chain
    BY <2>1, IdParts
  <2>3. StoreOK(sent)
    BY <2>1, <2>2, SendLegType
  <2>4. Linked(c, sent)
    BY <2>1, SendLegLinked
  <2>. QED  BY <2>3, <2>4
<1> HIDE DEF leg, base, st, id
<1>13. WellFormed(leg) /\ LegFits(leg, base.incoming[id])
  BY <1>7, <1>8, <1>9, <1>11, ConstantsAssumption DEF WellFormed, LegFits
<1>14. Sendable(c, base, Source(id), leg)
  BY <1>6, <1>7, <1>10, <1>11, <1>13 DEF Sendable, CanCreate
<1>15. /\ Sound(c, done, BaseLast(c), FreshItem, id, store)
       /\ Evolves(store[c], done)
       /\ done.incoming = base.incoming /\ done.errors = base.errors
       /\ done.last = base.last
       /\ id \in DOMAIN done.responses
       /\ done.requests[done.responses[id]] = leg
  BY <1>7, <1>8, <1>9, <1>13, <1>14, LegSound
<1>16. OutcomeOf(done, id)
  BY <1>8, <1>11, <1>15, ConstantsAssumption DEF OutcomeOf, InFlight
<1>17. /\ sent.requests = done.requests /\ sent.nonce = done.nonce
       /\ sent.succeeded = done.succeeded /\ sent.incoming = done.incoming
       /\ sent.responses = done.responses /\ sent.last = done.last
       /\ sent.errors = st.errors
  BY <1>2, <1>7, <1>8 DEF SendLeg, CreateRequest, CreatedId, StoreOK, StoreField
<1>18. Written(c, sent, done)
  BY <1>3, <1>12, <1>15, <1>16, <1>17 DEF Written, base, st, id, OpenItem
<1>19. QED
  BY <1>2, <1>6, <1>18, WriteMessage

\* Opening a batch.
LEMMA BeginBatchMessage ==
  ASSUME MessageInv, IInv', NEW c \in Chain, NEW s \in Chain, BeginBatch(c, s)
  PROVE  MessageInv'
<1>1. /\ tx' = [kind |-> "batch", chain |-> c, source |-> s, item |-> NoId,
                allowedNonce |-> NextNonce(store[c], s), count |-> 0,
                calling |-> FALSE, work |-> store[c], inner |-> store[c]]
      /\ store' = store
  BY DEF BeginBatch
<1>2. TxLast' = store[c].last
  BY <1>1 DEF TxLast
<1>3. Evolves(store[c], store[c])
  BY DEF Evolves, SameRequest
<1>4. Landed(c, store[c], store[c].last, store)
  BY <1>3 DEF Landed, MessageInv, Peers
<1>5. Ahead(store[c].last, s) = NextNonce(store[c], s)
  BY DEF Ahead, NextNonce
<1>6. BatchSound'
  BY <1>1, <1>2, <1>4, <1>5 DEF BatchSound
<1>7. QED
  BY <1>1, <1>6 DEF MessageInv

\* Finishing an item with storage that can be committed.
LEMMA FinishMessage ==
  ASSUME MessageInv, IInv', tx # NoTx, tx.kind = "batch", NEW id \in Id,
         Source(id) = tx.source, Nonce(id) = tx.allowedNonce, NEW st,
         Landed(tx.chain, st, [store[tx.chain].last EXCEPT ![tx.source] = id], store),
         Finish(id, st), UNCHANGED <<store, config, now>>
  PROVE  MessageInv'
<1>1. TxOK
  BY DEF MessageInv, IInv, TypeOK
<1>2. /\ tx'.kind = "batch" /\ tx'.chain = tx.chain /\ tx'.source = tx.source
      /\ tx'.item = id /\ tx'.allowedNonce = tx.allowedNonce + 1
      /\ tx'.count = tx.count + 1 /\ tx'.calling = FALSE
      /\ tx'.work = st /\ tx'.inner = st
  BY <1>1 DEF TxOK, TxField, Finish
<1> DEFINE reached == [store[tx.chain].last EXCEPT ![tx.source] = id]
<1>3. tx.count + 1 > 0
  BY <1>1 DEF TxOK
<1>4. TxLast' = reached
  BY <1>2, <1>3 DEF TxLast
<1>5. Ahead(reached, tx.source) = tx.allowedNonce + 1
  <2>1. store[tx.chain].last \in [Chain -> Id \cup {NoId}] /\ tx.source \in Chain
    BY <1>1 DEF TxOK, MessageInv, Peers, StoreOK
  <2>2. reached[tx.source] = id /\ id # NoId
    BY <2>1, ConstantsAssumption
  <2>3. QED
    BY <2>2 DEF Ahead
<1> HIDE DEF reached
<1>6. Landed(tx.chain, st, reached, store)
  BY DEF reached
<1>7. BatchSound'
  BY <1>2, <1>4, <1>5, <1>6 DEF BatchSound
<1>8. QED
  BY <1>2, <1>7 DEF MessageInv

\* What a batch loads the next item of its lane into.
LEMMA LoadingBase ==
  ASSUME MessageInv, NEW s \in Chain, NEW id \in DOMAIN store[s].requests,
         Loading(id)
  PROVE  /\ tx # NoTx /\ tx.kind = "batch" /\ TxOK /\ id \in Id
         /\ tx.chain \in Chain /\ Source(id) = tx.source /\ Target(id) = tx.chain
         /\ Nonce(id) = tx.allowedNonce
         /\ Workable(tx.chain, tx.work, TxLast, NoId, NoId, store)
         /\ TxLast \in [Chain -> Id \cup {NoId}]
         /\ Nonce(id) = Ahead(TxLast, Source(id))
         /\ id \in DOMAIN store[Source(id)].requests
         /\ id \notin DOMAIN tx.work.incoming
         /\ tx.work.last = store[tx.chain].last
         /\ [TxLast EXCEPT ![Source(id)] = id]
              = [store[tx.chain].last EXCEPT ![tx.source] = id]
         /\ WellFormed(store[Source(id)].requests[id])
<1>1. /\ tx # NoTx /\ tx.kind = "batch" /\ TxOK /\ TxInv /\ id \in Id
      /\ tx.chain \in Chain /\ StoreOK(tx.work) /\ Linked(tx.chain, tx.work)
      /\ Source(id) = tx.source
  BY LoadingInv DEF MessageInv
<1>2. /\ Target(id) = tx.chain /\ Nonce(id) = tx.allowedNonce
      /\ id \notin DOMAIN tx.work.incoming /\ ~ tx.calling
      /\ id \in DOMAIN store[Source(id)].requests
  BY DEF Loading, Admissible
<1>3. /\ Landed(tx.chain, tx.work, TxLast, store)
      /\ Ahead(TxLast, tx.source) = tx.allowedNonce
  BY <1>1, <1>2 DEF MessageInv, BatchSound
<1>4. Workable(tx.chain, tx.work, TxLast, NoId, NoId, store)
  BY <1>1, <1>3 DEF Workable, Landed, MessageInv
<1>5. store[tx.chain].last \in [Chain -> Id \cup {NoId}]
  BY <1>1 DEF MessageInv, Peers, StoreOK
<1>6. /\ TxLast \in [Chain -> Id \cup {NoId}]
      /\ [TxLast EXCEPT ![Source(id)] = id]
           = [store[tx.chain].last EXCEPT ![tx.source] = id]
  BY <1>1, <1>5 DEF TxLast, TxOK
<1>7. WellFormed(store[Source(id)].requests[id])
  BY <1>1, <1>2, IdParts DEF MessageInv, Peers, Sound, LogOK
<1>8. QED
  BY <1>1, <1>2, <1>3, <1>4, <1>6, <1>7 DEF Landed

\* What the miner ingests is the record the source logged.
LEMMA IngestedSame ==
  ASSUME MessageInv, NEW s \in Chain, NEW id \in DOMAIN store[s].requests,
         Loading(id), NEW executed \in BOOLEAN
  PROVE  /\ SameMessage(Ingested(id, executed), store[Source(id)].requests[id], FALSE)
         /\ SameMessage(Reject(id), store[Source(id)].requests[id], TRUE)
         /\ Ingested(id, executed).executed = executed
         /\ Reject(id).executed = TRUE
<1>1. store[Source(id)].requests[id] \in Request
  BY LoadingBase, IdParts DEF MessageInv, Peers, StoreOK, IsMap
<1>2. QED
  BY <1>1 DEF Ingested, Reject, SameMessage, Request

\* The record r of an item given up at ingestion.
AtIngestion(id, r, code) ==
  [tx.work EXCEPT !.incoming = Put(@, id, r), !.errors = Put(@, id, code)]

\* An item given up at ingestion is answered by the inbox.
LEMMA GivenUpMessage ==
  ASSUME MessageInv, IInv', NEW s \in Chain, NEW id \in DOMAIN store[s].requests,
         Loading(id), NEW r \in Request, NEW code \in {EncodeFailed, MinerRejected},
         r.executed = TRUE,
         SameMessage(r, store[Source(id)].requests[id], code = MinerRejected),
         CanSystemError(AtIngestion(id, r, code), tx.chain, id),
         Finish(id, MarkOriginal(
           SystemErrorCallback(AtIngestion(id, r, code), tx.chain, id), id)),
         UNCHANGED <<store, config, now>>
  PROVE  MessageInv'
<1> DEFINE c == tx.chain
           st == AtIngestion(id, r, code)
           reached == [TxLast EXCEPT ![Source(id)] = id]
           answered == SystemErrorCallback(st, c, id)
           done == MarkOriginal(answered, id)
<1>1. /\ tx # NoTx /\ tx.kind = "batch" /\ TxOK /\ id \in Id
      /\ c \in Chain /\ Source(id) = tx.source /\ Target(id) = c
      /\ Nonce(id) = tx.allowedNonce
      /\ Workable(c, tx.work, TxLast, NoId, NoId, store)
      /\ TxLast \in [Chain -> Id \cup {NoId}]
      /\ Nonce(id) = Ahead(TxLast, Source(id))
      /\ id \in DOMAIN store[Source(id)].requests
      /\ id \notin DOMAIN tx.work.incoming
      /\ tx.work.last = store[c].last
      /\ reached = [store[c].last EXCEPT ![tx.source] = id]
  BY LoadingBase
<1>2. StoreOK(tx.work) /\ Linked(c, tx.work)
  BY <1>1 DEF Workable
<1>3. /\ st.requests = tx.work.requests /\ st.nonce = tx.work.nonce
      /\ st.incoming = Put(tx.work.incoming, id, r)
      /\ st.responses = tx.work.responses
      /\ st.errors = Put(tx.work.errors, id, code)
      /\ st.last = tx.work.last
      /\ st.succeeded = tx.work.succeeded
  BY <1>2 DEF AtIngestion, StoreOK, StoreField
<1>4. StoreOK(st) /\ Linked(c, st)
  <2>1. code \in ExecutionFailed .. Expired
    BY DEF ExecutionFailed, EncodeFailed, MinerRejected, Expired
  <2>2. StoreOK(st)
    BY <1>1, <1>2, <2>1, RecordType DEF AtIngestion
  <2>3. QED
    BY <1>2, <1>3, <2>2, SameLinks
<1>5. /\ st.incoming[id] = r /\ id \in DOMAIN st.incoming
      /\ id \in DOMAIN st.errors /\ st.errors[id] = code
      /\ DOMAIN st.errors = DOMAIN tx.work.errors \cup {id}
      /\ \A x \in DOMAIN tx.work.errors :
           x # id => st.errors[x] = tx.work.errors[x]
  BY <1>3 DEF Put
<1> HIDE DEF st, reached, answered, done, c
<1>6. id \notin DOMAIN tx.work.errors
  BY <1>1, ConstantsAssumption DEF Workable, Sound, Outcomes, OutcomeOf
<1>7. Rejected(st, id) <=> code = MinerRejected
  BY <1>5 DEF Rejected
<1>8. Arrives(c, tx.work, TxLast, id, st, store)
  <2>1. SameMessage(r, store[Source(id)].requests[id], Rejected(st, id))
    BY <1>7 DEF SameMessage
  <2>2. \A x \in DOMAIN tx.work.errors :
          x \in DOMAIN st.errors /\ st.errors[x] = tx.work.errors[x]
    BY <1>5, <1>6
  <2>3. QED
    BY <1>1, <1>3, <1>5, <2>1, <2>2 DEF Arrives
<1>9. /\ Sound(c, st, reached, id, id, store)
      /\ Evolves(store[c], st)
      /\ id \notin DOMAIN store[c].incoming
      /\ id \notin DOMAIN st.responses
  <2>1. /\ c \in Chain /\ TxLast \in [Chain -> Id \cup {NoId}]
        /\ Workable(c, tx.work, TxLast, NoId, NoId, store)
    BY <1>1
  <2>2. /\ Sound(c, st, [TxLast EXCEPT ![Source(id)] = id], id, id, store)
        /\ Evolves(store[c], st)
        /\ id \notin DOMAIN store[c].incoming
        /\ id \notin DOMAIN st.responses
    BY ZenonT(60), <1>8, <2>1, ArrivalSound
  <2>3. QED
    BY <2>2 DEF reached
<1>10. Workable(c, st, reached, id, id, store)
  BY <1>4, <1>9 DEF Workable, MessageInv
<1>11. /\ Workable(c, answered, reached, id, id, store)
       /\ OutcomeOf(answered, id)
       /\ answered.incoming = st.incoming
       /\ answered.last = st.last
  <2>1. st.errors[id] # ExecutionFailed
    BY <1>5 DEF ExecutionFailed, EncodeFailed, MinerRejected
  <2>2. now \in [Chain -> Nat]
    BY DEF MessageInv, IInv, TypeOK
  <2>3. CanSystemError(st, c, id)
    BY DEF st, c
  <2>4. st.incoming[id].executed
    BY <1>5
  <2>5. /\ id \in DOMAIN st.incoming /\ id \in DOMAIN st.errors
        /\ id \notin DOMAIN st.responses /\ c \in Chain
        /\ id \in DOMAIN store[c].incoming => Failed(store[c], id)
    BY <1>1, <1>5, <1>9
  <2>6. QED
    BY SMTT(30), <1>10, <2>1, <2>2, <2>3, <2>4, <2>5, SystemErrorSound DEF answered, Workable
<1>12. /\ Sound(c, done, reached, NoId, NoId, store)
       /\ Evolves(store[c], done)
       /\ done.last = answered.last
  BY <1>1, <1>5, <1>11, MarkSound DEF done
<1>13. Landed(c, done, reached, store)
  BY <1>1, <1>3, <1>11, <1>12 DEF Landed
<1>14. Finish(id, done)
  BY DEF done, answered, st, c
<1>15. QED
  BY <1>1, <1>13, <1>14, FinishMessage DEF c

\* Ingesting a reject item.
LEMMA RejectItemMessage ==
  ASSUME MessageInv, IInv', NEW s \in Chain, NEW id \in DOMAIN store[s].requests,
         RejectItem(id)
  PROVE  MessageInv'
<1> DEFINE st == AtIngestion(id, Reject(id), MinerRejected)
           answered == IF st.incoming[id].twoWay
                       THEN SystemErrorCallback(st, tx.chain, id) ELSE st
<1>1. /\ Loading(id) /\ Finish(id, MarkOriginal(answered, id))
      /\ st.incoming[id].twoWay => CanSystemError(st, tx.chain, id)
      /\ UNCHANGED <<store, config, now>>
  BY DEF RejectItem, AtIngestion
<1>2. /\ Reject(id) \in Request /\ Reject(id).executed = TRUE
      /\ SameMessage(Reject(id), store[Source(id)].requests[id], TRUE)
  BY <1>1, LoadingType, IngestedSame DEF MessageInv, IInv
<1>3. StoreOK(tx.work) /\ WellFormed(store[Source(id)].requests[id])
  BY <1>1, LoadingBase DEF Workable
<1>4. st.incoming[id] = Reject(id)
  BY <1>3 DEF AtIngestion, Put, StoreOK, StoreField
<1>5. ~ st.incoming[id].twoWay => ~ SystemErrorSends(st, id)
  BY <1>2, <1>3, <1>4 DEF SystemErrorSends, WellFormed, SameMessage
<1> HIDE DEF st
<1>6. answered = SystemErrorCallback(st, tx.chain, id)
  BY <1>5 DEF SystemErrorCallback
<1>7. CanSystemError(st, tx.chain, id)
  BY <1>1, <1>5 DEF CanSystemError
<1>8. Finish(id, MarkOriginal(SystemErrorCallback(st, tx.chain, id), id))
  BY <1>1, <1>6
<1>9. SameMessage(Reject(id), store[Source(id)].requests[id],
                  MinerRejected = MinerRejected)
  BY <1>2 DEF SameMessage
<1>10. QED
  BY <1>1, <1>2, <1>7, <1>8, <1>9, GivenUpMessage DEF st

\* Ingesting an item whose call cannot be encoded.
LEMMA MineEncodeFailureMessage ==
  ASSUME MessageInv, IInv', NEW s \in Chain, NEW id \in DOMAIN store[s].requests,
         MineEncodeFailure(id)
  PROVE  MessageInv'
<1> DEFINE st == AtIngestion(id, Ingested(id, TRUE), EncodeFailed)
<1>1. /\ Loading(id) /\ CanSystemError(st, tx.chain, id)
      /\ Finish(id, MarkOriginal(SystemErrorCallback(st, tx.chain, id), id))
      /\ UNCHANGED <<store, config, now>>
  BY DEF MineEncodeFailure, AtIngestion
<1>2. /\ Ingested(id, TRUE) \in Request /\ Ingested(id, TRUE).executed = TRUE
      /\ SameMessage(Ingested(id, TRUE), store[Source(id)].requests[id], FALSE)
  BY <1>1, LoadingType, IngestedSame DEF MessageInv, IInv
<1>3. SameMessage(Ingested(id, TRUE), store[Source(id)].requests[id],
                  EncodeFailed = MinerRejected)
  <2>1. EncodeFailed # MinerRejected
    BY DEF EncodeFailed, MinerRejected
  <2>2. QED
    BY <1>2, <2>1 DEF SameMessage
<1>4. QED
  BY <1>1, <1>2, <1>3, GivenUpMessage

\* Calling the target of an item.
LEMMA MineCallMessage ==
  ASSUME MessageInv, IInv', NEW s \in Chain, NEW id \in DOMAIN store[s].requests,
         MineCall(id)
  PROVE  MessageInv'
<1> DEFINE c == tx.chain
           recorded == [tx.work EXCEPT !.incoming = Put(@, id, Ingested(id, FALSE))]
           st == [recorded EXCEPT !.context = ContextOf(recorded, id)]
           reached == [TxLast EXCEPT ![Source(id)] = id]
<1>1. /\ Loading(id)
      /\ tx' = [tx EXCEPT !.item = id, !.calling = TRUE, !.work = st, !.inner = st]
      /\ UNCHANGED <<store, config, now>>
  BY DEF MineCall
<1>2. /\ tx # NoTx /\ tx.kind = "batch" /\ TxOK /\ id \in Id
      /\ c \in Chain /\ Source(id) = tx.source /\ Target(id) = c
      /\ Nonce(id) = tx.allowedNonce
      /\ Workable(c, tx.work, TxLast, NoId, NoId, store)
      /\ TxLast \in [Chain -> Id \cup {NoId}]
      /\ Nonce(id) = Ahead(TxLast, Source(id))
      /\ id \in DOMAIN store[Source(id)].requests
      /\ id \notin DOMAIN tx.work.incoming
      /\ tx.work.last = store[c].last
      /\ reached = [store[c].last EXCEPT ![tx.source] = id]
  BY <1>1, LoadingBase
<1>3. /\ st.requests = tx.work.requests /\ st.nonce = tx.work.nonce
      /\ st.incoming = Put(tx.work.incoming, id, Ingested(id, FALSE))
      /\ st.responses = tx.work.responses
      /\ st.errors = tx.work.errors
      /\ st.last = tx.work.last
      /\ st.succeeded = tx.work.succeeded
  BY <1>2 DEF Workable, StoreOK, StoreField
<1>4. st.incoming[id] = Ingested(id, FALSE) /\ id \in DOMAIN st.incoming
  BY <1>3 DEF Put
<1>5. /\ tx'.kind = "batch" /\ tx'.chain = c /\ tx'.source = tx.source
      /\ tx'.item = id /\ tx'.allowedNonce = tx.allowedNonce
      /\ tx'.calling = TRUE /\ tx'.work = st /\ tx'.inner = st
  BY <1>1, <1>2 DEF TxOK, TxField
<1> HIDE DEF st, reached, c
<1>6. id \notin DOMAIN tx.work.errors
  BY <1>2, ConstantsAssumption DEF Workable, Sound, Outcomes, OutcomeOf
<1>7. Arrives(c, tx.work, TxLast, id, st, store)
  <2>1. SameMessage(Ingested(id, FALSE), store[Source(id)].requests[id], FALSE)
    BY <1>1, IngestedSame
  <2>2. SameMessage(st.incoming[id], store[Source(id)].requests[id], Rejected(st, id))
    BY <1>3, <1>4, <1>6, <2>1 DEF SameMessage, Rejected
  <2>3. QED
    BY <1>2, <1>3, <1>4, <2>2 DEF Arrives
<1>8. /\ Sound(c, st, reached, id, id, store)
      /\ Evolves(store[c], st)
      /\ id \notin DOMAIN store[c].incoming
      /\ id \notin DOMAIN st.responses
  <2>1. /\ c \in Chain /\ TxLast \in [Chain -> Id \cup {NoId}]
        /\ Workable(c, tx.work, TxLast, NoId, NoId, store)
    BY <1>2
  <2>2. QED
    BY <1>7, <2>1, ArrivalSound DEF reached
<1>9. OutcomeOf(st, id)
  BY <1>3, <1>6, <1>8 DEF OutcomeOf
<1>10. InFlight(c, st, reached, id, id, store)
  BY <1>2, <1>3, <1>4, <1>6, <1>8, <1>9 DEF InFlight
<1>11. TxLast' = reached
  BY <1>1, <1>2, <1>5 DEF TxLast
<1>12. BatchSound'
  BY <1>1, <1>2, <1>5, <1>8, <1>10, <1>11 DEF BatchSound
<1>13. QED
  BY <1>1, <1>5, <1>12 DEF MessageInv

\* The called contract returns.
LEMMA CallReturnsMessage ==
  ASSUME MessageInv, IInv', CallReturns
  PROVE  MessageInv'
<1> DEFINE c == tx.chain
           id == tx.item
           st == Executed(tx.inner, id)
           done == MarkOriginal(st, id)
           reached == [store[c].last EXCEPT ![tx.source] = id]
<1>1. /\ tx # NoTx /\ tx.kind = "batch" /\ tx.calling /\ Finish(id, done)
      /\ UNCHANGED <<store, config, now>>
  BY DEF CallReturns
<1>2. /\ TxOK /\ TxInv /\ c \in Chain /\ id \in Id
      /\ Source(id) = tx.source /\ Nonce(id) = tx.allowedNonce
      /\ InFlight(c, tx.inner, TxLast, id, id, store)
      /\ StoreOK(tx.inner) /\ Linked(c, tx.inner)
  BY <1>1 DEF MessageInv, BatchSound, IInv, TypeOK, TxOK, LinkInv, TxInv
<1>3. TxLast = reached
  BY <1>1 DEF TxLast
<1> HIDE DEF st, done, c, id, reached
<1>4. /\ Sound(c, st, reached, id, id, store)
      /\ Evolves(store[c], st)
      /\ st.last = tx.inner.last
      /\ DOMAIN st.incoming = DOMAIN tx.inner.incoming
      /\ st.errors = tx.inner.errors
      /\ st.responses = tx.inner.responses
      /\ st.requests = tx.inner.requests
  <2>1. /\ Sound(c, tx.inner, reached, id, id, store)
        /\ Evolves(store[c], tx.inner)
        /\ id \in DOMAIN tx.inner.incoming
        /\ StoreOK(tx.inner)
    BY <1>2, <1>3 DEF InFlight
  <2>2. Sound(c, Executed(tx.inner, id), reached, id, id, store)
    BY <2>1, ExecutedSound
  <2>3. Evolves(store[c], Executed(tx.inner, id))
    BY <2>1, ExecutedSound
  <2>4. /\ st.last = tx.inner.last
        /\ DOMAIN st.incoming = DOMAIN tx.inner.incoming
        /\ st.errors = tx.inner.errors
        /\ st.responses = tx.inner.responses
        /\ st.requests = tx.inner.requests
    BY <2>1 DEF st, Executed, StoreOK, StoreField, IsMap
  <2>5. QED
    BY <2>2, <2>3, <2>4 DEF st
<1>5. id \in DOMAIN st.incoming \ DOMAIN st.errors
  BY <1>2, <1>4 DEF InFlight
<1>6. OutcomeOf(st, id)
  BY <1>2, <1>4, <1>5 DEF OutcomeOf, InFlight
<1>7. StoreOK(st) /\ Linked(c, st)
  BY <1>2, ExecutedType, ExecutedLinked DEF st
<1>8. Workable(c, st, reached, id, id, store)
  BY <1>4, <1>7 DEF Workable, MessageInv
<1>9. /\ Sound(c, done, reached, NoId, NoId, store)
      /\ Evolves(store[c], done)
      /\ done.last = st.last
  BY <1>2, <1>5, <1>6, <1>8, MarkSound DEF done
<1>10. Landed(c, done, reached, store)
  BY <1>2, <1>4, <1>9 DEF Landed, InFlight
<1>11. QED
  BY <1>1, <1>2, <1>10, FinishMessage DEF c, id, reached

\* The called contract fails, and the item may be retried.
LEMMA CallRevertsMessage ==
  ASSUME MessageInv, IInv', CallReverts
  PROVE  MessageInv'
<1> DEFINE c == tx.chain
           id == tx.item
           run == Executed(tx.work, id)
           st == [run EXCEPT !.errors = Put(@, id, ExecutionFailed)]
           done == MarkOriginal(st, id)
           reached == [store[c].last EXCEPT ![tx.source] = id]
<1>1. /\ tx # NoTx /\ tx.kind = "batch" /\ tx.calling /\ Finish(id, done)
      /\ UNCHANGED <<store, config, now>>
  BY DEF CallReverts
<1>2. /\ TxOK /\ TxInv /\ c \in Chain /\ id \in Id
      /\ Source(id) = tx.source /\ Nonce(id) = tx.allowedNonce
      /\ id \notin DOMAIN store[c].incoming
      /\ id \notin DOMAIN tx.work.responses
      /\ InFlight(c, tx.work, TxLast, id, id, store)
      /\ StoreOK(tx.work) /\ Linked(c, tx.work)
  BY <1>1 DEF MessageInv, BatchSound, IInv, TypeOK, TxOK, LinkInv, TxInv
<1>3. TxLast = reached
  BY <1>1 DEF TxLast
<1>4. StoreOK(run) /\ Linked(c, run)
  BY <1>2, ExecutedType, ExecutedLinked
<1> HIDE DEF run
<1>5. /\ st.requests = run.requests /\ st.nonce = run.nonce
      /\ st.incoming = run.incoming /\ st.responses = run.responses
      /\ st.last = run.last /\ st.succeeded = run.succeeded
      /\ st.errors = Put(run.errors, id, ExecutionFailed)
  BY <1>4 DEF StoreOK, StoreField
<1>6. StoreOK(st) /\ Linked(c, st)
  <2>1. ExecutionFailed \in ExecutionFailed .. Expired
    BY DEF ExecutionFailed, Expired
  <2>2. StoreOK(st)
    BY <1>2, <1>4, <2>1, ErrorType
  <2>3. QED
    BY <1>4, <1>5, <2>2, SameLinks
<1> HIDE DEF st, done, c, id, reached
<1>7. /\ Sound(c, run, reached, id, id, store)
      /\ Evolves(store[c], run)
      /\ run.last = tx.work.last
      /\ DOMAIN run.incoming = DOMAIN tx.work.incoming
      /\ run.incoming[id].executed = TRUE
      /\ run.errors = tx.work.errors
      /\ run.responses = tx.work.responses
  <2>1. /\ Sound(c, tx.work, reached, id, id, store)
        /\ Evolves(store[c], tx.work)
        /\ id \in DOMAIN tx.work.incoming
        /\ StoreOK(tx.work)
    BY <1>2, <1>3 DEF InFlight
  <2>2. Sound(c, Executed(tx.work, id), reached, id, id, store)
    BY <2>1, ExecutedSound
  <2>3. Evolves(store[c], Executed(tx.work, id))
    BY <2>1, ExecutedSound
  <2>4. /\ run.last = tx.work.last
        /\ DOMAIN run.incoming = DOMAIN tx.work.incoming
        /\ run.errors = tx.work.errors
        /\ run.responses = tx.work.responses
        /\ run.incoming[id].executed = TRUE
    BY <2>1 DEF run, Executed, StoreOK, StoreField, IsMap
  <2>5. QED
    BY <2>2, <2>3, <2>4 DEF run
<1>8. id \in DOMAIN run.incoming \ DOMAIN run.errors
  BY <1>2, <1>7 DEF InFlight
<1>9. /\ DOMAIN st.errors = DOMAIN run.errors \cup {id}
      /\ \A x \in DOMAIN run.errors : x # id => st.errors[x] = run.errors[x]
      /\ st.errors[id] = ExecutionFailed
  BY <1>5 DEF Put
<1>10. ErrorSet(run, id, st)
  <2>1. ~ Rejected(run, id) /\ ~ Rejected(st, id)
    BY <1>8, <1>9 DEF Rejected, ExecutionFailed, MinerRejected
  <2>2. QED
    BY <1>5, <1>9, <2>1 DEF ErrorSet
<1>11. Sound(c, st, reached, id, id, store) /\ Evolves(store[c], st)
  BY <1>2, <1>7, <1>10, ErrorSound, ErrorEvolves
<1>12. id \in DOMAIN st.incoming /\ OutcomeOf(st, id)
  BY <1>2, <1>5, <1>7, <1>8, <1>9 DEF OutcomeOf
<1>13. Workable(c, st, reached, id, id, store)
  BY <1>6, <1>11 DEF Workable, MessageInv
<1>14. /\ Sound(c, done, reached, NoId, NoId, store)
       /\ Evolves(store[c], done)
       /\ done.last = st.last
  BY <1>2, <1>12, <1>13, MarkSound DEF done
<1>15. Landed(c, done, reached, store)
  BY <1>2, <1>5, <1>7, <1>14 DEF Landed, InFlight
<1>16. QED
  BY <1>1, <1>2, <1>15, FinishMessage DEF c, id, reached

\* Committing a sound storage that evolved from the committed one.
LEMMA CommitMessage ==
  ASSUME MessageInv, IInv', NEW c \in Chain, NEW st,
         \A d \in Chain : store'[d] = IF d = c THEN st ELSE store[d], tx' = NoTx,
         Sound(c, st, st.last, NoId, NoId, store), Evolves(store[c], st)
  PROVE  MessageInv' /\ Committed
<1>1. \A d \in Chain : store'[d] = IF d = c THEN st ELSE store[d]
  OBVIOUS
<1>2. StoreOK(st) /\ Linked(c, st)
  BY <1>1 DEF IInv, TypeOK, LinkInv
<1>3. Workable(c, st, st.last, NoId, NoId, store)
  BY <1>2 DEF Workable, MessageInv
<1>4. Peers(store')
  BY <1>1, <1>3, CommitPeers
<1>5. QED
  BY <1>1, <1>4 DEF MessageInv, Committed

\* The batch commits.
LEMMA CommitBatchMessage ==
  ASSUME MessageInv, IInv', CommitBatch
  PROVE  MessageInv' /\ Committed
<1> DEFINE c == tx.chain
           st == [tx.work EXCEPT !.last[tx.source] = tx.item]
<1>1. /\ tx # NoTx /\ tx.kind = "batch" /\ ~ tx.calling /\ tx.count > 0
      /\ store' = [store EXCEPT ![c] = st] /\ tx' = NoTx
  BY DEF CommitBatch
<1>2. TxOK /\ c \in Chain /\ StoreOK(tx.work)
  BY <1>1 DEF MessageInv, IInv, TypeOK, TxOK
<1>3. Landed(c, tx.work, TxLast, store)
  BY <1>1 DEF MessageInv, BatchSound
<1>4. /\ st.requests = tx.work.requests /\ st.nonce = tx.work.nonce
      /\ st.incoming = tx.work.incoming /\ st.responses = tx.work.responses
      /\ st.errors = tx.work.errors /\ st.succeeded = tx.work.succeeded
      /\ st.last = [tx.work.last EXCEPT ![tx.source] = tx.item]
  BY <1>2 DEF StoreOK, StoreField
<1>5. st.last = TxLast
  BY <1>1, <1>3, <1>4 DEF TxLast, Landed
<1> HIDE DEF st, c
<1>6. Sound(c, tx.work, st.last, NoId, NoId, store) /\ Evolves(store[c], tx.work)
  BY <1>3, <1>5 DEF Landed
<1>7. Sound(c, st, st.last, NoId, NoId, store)
  BY <1>4, <1>6, SameSound
<1>8. Evolves(store[c], st)
  BY <1>4, <1>6 DEF Evolves, Failed
<1>9. \A d \in Chain : store'[d] = IF d = c THEN st ELSE store[d]
  BY <1>1 DEF MessageInv, IInv, TypeOK
<1>10. QED
  BY <1>1, <1>2, <1>7, <1>8, <1>9, CommitMessage

\* A reverted transaction leaves nothing behind.
LEMMA RevertMessage ==
  ASSUME MessageInv, IInv', Revert
  PROVE  MessageInv'
BY DEF Revert, MessageInv

\* Expiry of a failed request.
LEMMA ExpireOnRetryMessage ==
  ASSUME MessageInv, IInv', NEW c \in Chain, NEW id \in DOMAIN store[c].incoming,
         ExpireOnRetry(c, id)
  PROVE  MessageInv' /\ Committed
<1> DEFINE st == [store[c] EXCEPT !.errors[id] = Expired]
           answered == SystemErrorCallback(st, c, id)
           last == store[c].last
<1>1. /\ tx' = NoTx /\ CanSystemError(st, c, id)
      /\ store' = [store EXCEPT ![c] = answered]
      /\ Failed(store[c], id) /\ store[c].incoming[id].executed
  BY DEF ExpireOnRetry, Retryable, Failed
<1>2. /\ StoreOK(store[c]) /\ Linked(c, store[c]) /\ Peers(store)
      /\ Sound(c, store[c], last, NoId, NoId, store)
      /\ id \in Id /\ id \in DOMAIN store[c].errors
  BY <1>1 DEF MessageInv, Peers, StoreOK, IsMap, Failed
<1>3. /\ st.requests = store[c].requests /\ st.nonce = store[c].nonce
      /\ st.incoming = store[c].incoming /\ st.responses = store[c].responses
      /\ st.last = last /\ st.succeeded = store[c].succeeded
      /\ st.errors = [store[c].errors EXCEPT ![id] = Expired]
  BY <1>2 DEF StoreOK, StoreField
<1>4. StoreOK(st) /\ Linked(c, st)
  <2>1. Expired \in ExecutionFailed .. Expired
    BY DEF ExecutionFailed, Expired
  <2>2. IsMap([store[c].errors EXCEPT ![id] = Expired], Id, ExecutionFailed .. Expired)
    BY <1>2, <2>1 DEF StoreOK, IsMap
  <2>3. StoreOK(st)
    BY <1>2, <2>2 DEF StoreOK, StoreField
  <2>4. QED
    BY <1>2, <1>3, <2>3, SameLinks
<1> HIDE DEF st, answered, last
<1>5. Sound(c, store[c], last, NoId, id, store) /\ OutcomeOf(store[c], id)
  BY <1>2, SoundOpened
<1>6. /\ DOMAIN st.errors = DOMAIN store[c].errors
      /\ st.errors[id] = Expired
      /\ \A x \in DOMAIN store[c].errors : x # id => st.errors[x] = store[c].errors[x]
  BY <1>2, <1>3
<1>7. ErrorSet(store[c], id, st)
  <2>1. ~ Rejected(store[c], id) /\ ~ Rejected(st, id)
    BY <1>1, <1>6 DEF Rejected, Failed, ExecutionFailed, MinerRejected, Expired
  <2>2. QED
    BY <1>3, <1>6, <2>1 DEF ErrorSet, last
<1>8. Sound(c, st, last, NoId, id, store)
  BY <1>5, <1>7, ErrorSound
<1>9. Evolves(store[c], st)
  <2>1. Evolves(store[c], store[c])
    BY DEF Evolves, SameRequest
  <2>2. QED
    BY <1>1, <1>7, <2>1, ErrorEvolves
<1>10. Workable(c, st, last, NoId, id, store)
  BY <1>2, <1>4, <1>8, <1>9 DEF Workable
<1>11. /\ Workable(c, answered, last, NoId, id, store)
       /\ OutcomeOf(answered, id)
       /\ answered.incoming = st.incoming
       /\ answered.errors = st.errors
       /\ answered.last = st.last
  <2>1. /\ id \in DOMAIN st.incoming /\ id \in DOMAIN st.errors
        /\ id \notin DOMAIN st.responses
        /\ st.errors[id] # ExecutionFailed
    BY <1>1, <1>2, <1>3, <1>5, <1>6 DEF Failed, OutcomeOf, Expired, ExecutionFailed
  <2>2. now \in [Chain -> Nat]
    BY DEF MessageInv, IInv, TypeOK
  <2>3. st.incoming[id].executed
    BY <1>1, <1>3
  <2>4. id \in DOMAIN store[c].incoming => Failed(store[c], id)
    BY <1>1
  <2>5. CanSystemError(st, c, id)
    BY <1>1
  <2>6. QED
    BY SMTT(30), <1>10, <2>1, <2>2, <2>3, <2>4, <2>5, SystemErrorSound DEF answered, Workable
<1>12. NoId \notin DOMAIN answered.incoming /\ id \in DOMAIN answered.errors
  BY <1>2, <1>4, <1>6, <1>11, ConstantsAssumption DEF StoreOK, IsMap
<1>13. Sound(c, answered, last, NoId, id, store) /\ Evolves(store[c], answered)
  BY <1>11 DEF Workable
<1>14. Sound(c, answered, last, NoId, NoId, store)
  BY <1>11, <1>12, <1>13, SoundClosed
<1>15. answered.last = last
  BY <1>3, <1>11
<1>16. Sound(c, answered, answered.last, NoId, NoId, store)
  BY <1>14, <1>15
<1>17. \A d \in Chain : store'[d] = IF d = c THEN answered ELSE store[d]
  BY <1>1 DEF MessageInv, IInv, TypeOK
<1>18. QED
  BY <1>1, <1>13, <1>16, <1>17, CommitMessage

\* Calling the target of a failed request again.
LEMMA BeginRetryMessage ==
  ASSUME MessageInv, IInv', NEW c \in Chain, NEW id \in DOMAIN store[c].incoming,
         BeginRetry(c, id)
  PROVE  MessageInv'
<1> DEFINE st == [store[c] EXCEPT !.context = ContextOf(store[c], id)]
           done == [st EXCEPT !.errors = Remove(@, id)]
           last == store[c].last
<1>1. /\ tx' = [kind |-> "retry", chain |-> c, source |-> Source(id),
                item |-> id, allowedNonce |-> Nonce(id), count |-> 0,
                calling |-> TRUE, work |-> st, inner |-> st]
      /\ store' = store
      /\ Failed(store[c], id)
  BY DEF BeginRetry, Retryable, Failed
<1>2. /\ StoreOK(store[c]) /\ Peers(store)
      /\ Sound(c, store[c], last, NoId, NoId, store)
      /\ id \in DOMAIN store[c].errors
  BY <1>1 DEF MessageInv, Peers, Failed
<1>3. /\ st.requests = store[c].requests /\ st.nonce = store[c].nonce
      /\ st.incoming = store[c].incoming /\ st.responses = store[c].responses
      /\ st.last = last /\ st.succeeded = store[c].succeeded
      /\ st.errors = store[c].errors
  BY <1>2 DEF StoreOK, StoreField
<1>4. /\ done.requests = store[c].requests /\ done.nonce = store[c].nonce
      /\ done.incoming = store[c].incoming /\ done.responses = store[c].responses
      /\ done.last = last /\ done.succeeded = store[c].succeeded
      /\ done.errors = Remove(store[c].errors, id)
  BY <1>2 DEF StoreOK, StoreField
<1>5. IfCallReturns' = done
  BY <1>1 DEF IfCallReturns
<1>6. TxLast' = last
  BY <1>1 DEF TxLast
<1> HIDE DEF st, done, last
<1>7. Sound(c, store[c], last, NoId, id, store) /\ OutcomeOf(store[c], id)
  BY <1>2, SoundOpened
<1>8. /\ DOMAIN done.errors = DOMAIN store[c].errors \ {id}
      /\ \A x \in DOMAIN done.errors : done.errors[x] = store[c].errors[x]
  BY <1>4 DEF Remove
<1>9. ErrorSet(store[c], id, done)
  <2>1. ~ Rejected(store[c], id) /\ ~ Rejected(done, id)
    BY <1>1, <1>8 DEF Rejected, Failed, ExecutionFailed, MinerRejected
  <2>2. QED
    BY <1>4, <1>8, <2>1 DEF ErrorSet, last
<1>10. Sound(c, done, last, NoId, id, store)
  BY <1>7, <1>9, ErrorSound
<1>11. Evolves(store[c], done)
  <2>1. Evolves(store[c], store[c])
    BY DEF Evolves, SameRequest
  <2>2. QED
    BY <1>1, <1>9, <2>1, ErrorEvolves
<1>12. OutcomeOf(done, id)
  BY <1>1, <1>4, <1>7, <1>8 DEF OutcomeOf, Failed
<1>13. InFlight(c, done, last, NoId, id, store)
  BY <1>4, <1>8, <1>10, <1>11, <1>12 DEF InFlight, last
<1>14. Outcomes(st, NoId) /\ LegsFit(st)
  BY <1>2, <1>3 DEF Sound, Outcomes, OutcomeOf, LegsFit
<1>15. RetrySound'
  BY <1>1, <1>3, <1>5, <1>6, <1>13, <1>14 DEF RetrySound
<1>16. QED
  BY <1>1, <1>15 DEF MessageInv

\* Signalling success settles the item in flux.
LEMMA SignalSound ==
  ASSUME NEW c, NEW st, NEW done, NEW last, NEW fresh, NEW id, NEW S,
         Sound(c, st, last, fresh, id, S), OutcomeOf(st, id),
         id \in DOMAIN st.incoming \ DOMAIN st.errors,
         NoId \notin DOMAIN st.incoming,
         done.requests = st.requests, done.nonce = st.nonce,
         done.incoming = st.incoming, done.responses = st.responses,
         done.errors = st.errors,
         done.succeeded = st.succeeded \cup {<<"retried", id>>}
  PROVE  Sound(c, done, last, fresh, NoId, S)
<1>1. LogOK(c, done) /\ LegsFit(done)
  BY DEF Sound, LogOK, LegsFit
<1>2. Lane(c, done, last, S)
  BY DEF Sound, Lane, ArrivalOK, Rejected
<1>3. Marks(done, fresh, S)
  BY DEF Sound, Marks, AnswerHere
<1>4. Outcomes(done, NoId)
  BY DEF Sound, Outcomes, OutcomeOf
<1>5. Signals(done, NoId)
  <2>0. Signals(st, id)
    BY DEF Sound
  <2>1. ASSUME NEW signal \in done.succeeded
        PROVE  /\ signal[2] \in DOMAIN done.incoming \ DOMAIN done.errors
               /\ signal[2] # NoId
    <3>1. CASE signal \in st.succeeded
      BY <2>0, <3>1 DEF Signals
    <3>2. CASE signal = <<"retried", id>>
      BY <3>2
    <3>3. QED
      BY <2>1, <3>1, <3>2
  <2>2. ASSUME NEW x \in DOMAIN done.incoming \ DOMAIN done.errors,
               done.incoming[x].sourceRequest # NoId
        PROVE  (<<"mined", x>> \in done.succeeded)
                 # (<<"retried", x>> \in done.succeeded)
    <3>1. CASE x = id
      <4>1. <<"mined", id>> \notin st.succeeded
        BY <2>0 DEF Signals
      <4>2. QED
        BY <3>1, <4>1
    <3>2. CASE x # id
      <4>1. (<<"mined", x>> \in st.succeeded) # (<<"retried", x>> \in st.succeeded)
        BY <2>0, <2>2, <3>2 DEF Signals
      <4>2. /\ <<"mined", x>> \in done.succeeded <=> <<"mined", x>> \in st.succeeded
            /\ <<"retried", x>> \in done.succeeded
                 <=> <<"retried", x>> \in st.succeeded
        BY <3>2
      <4>3. QED
        BY <4>1, <4>2
    <3>3. QED
      BY <3>1, <3>2
  <2>3. QED
    BY <2>1, <2>2 DEF Signals
<1>6. QED
  BY <1>1, <1>2, <1>3, <1>4, <1>5 DEF Sound

\* A retry that succeeds.
LEMMA RetrySucceedsMessage ==
  ASSUME MessageInv, IInv', RetrySucceeds
  PROVE  MessageInv' /\ Committed
<1> DEFINE c == tx.chain
           id == tx.item
           base == IfCallReturns
           st == [tx.inner EXCEPT !.context = NoContext,
                                  !.errors = Remove(@, id),
                                  !.succeeded = @ \cup {<<"retried", id>>}]
<1>1. /\ tx # NoTx /\ tx.kind = "retry"
      /\ store' = [store EXCEPT ![c] = st] /\ tx' = NoTx
  BY DEF RetrySucceeds
<1>2. TxOK /\ TxInv /\ tx.calling /\ c \in Chain /\ StoreOK(tx.inner)
  BY <1>1 DEF MessageInv, IInv, TypeOK, LinkInv, TxInv, TxOK
<1>3. /\ StoreOK(base)
      /\ InFlight(c, base, TxLast, FreshItem, id, store)
      /\ base.requests = tx.inner.requests /\ base.nonce = tx.inner.nonce
      /\ base.incoming = tx.inner.incoming /\ base.responses = tx.inner.responses
      /\ base.errors = Remove(tx.inner.errors, id)
      /\ base.last = tx.inner.last /\ base.succeeded = tx.inner.succeeded
  BY <1>1, <1>2, CallBase
<1>4. FreshItem = NoId /\ TxLast = store[c].last
  BY <1>1 DEF FreshItem, TxLast
<1>5. /\ st.requests = tx.inner.requests /\ st.nonce = tx.inner.nonce
      /\ st.incoming = tx.inner.incoming /\ st.responses = tx.inner.responses
      /\ st.errors = Remove(tx.inner.errors, id) /\ st.last = tx.inner.last
      /\ st.succeeded = tx.inner.succeeded \cup {<<"retried", id>>}
  BY <1>2 DEF StoreOK, StoreField
<1> HIDE DEF st, base, c, id
<1>6. /\ Sound(c, base, st.last, NoId, id, store) /\ Evolves(store[c], base)
      /\ OutcomeOf(base, id) /\ id \in DOMAIN base.incoming \ DOMAIN base.errors
      /\ NoId \notin DOMAIN base.incoming
  BY <1>3, <1>4, <1>5, ConstantsAssumption DEF InFlight, StoreOK, IsMap
<1>7. /\ st.requests = base.requests /\ st.nonce = base.nonce
      /\ st.incoming = base.incoming /\ st.responses = base.responses
      /\ st.errors = base.errors
      /\ st.succeeded = base.succeeded \cup {<<"retried", id>>}
  BY <1>3, <1>5
<1>8. Sound(c, st, st.last, NoId, NoId, store)
  BY <1>6, <1>7, SignalSound
<1>9. Evolves(store[c], st)
  BY <1>6, <1>7 DEF Evolves, Failed
<1>10. \A d \in Chain : store'[d] = IF d = c THEN st ELSE store[d]
  BY <1>1 DEF MessageInv, IInv, TypeOK
<1>11. QED
  BY <1>1, <1>2, <1>8, <1>9, <1>10, CommitMessage

\* The owner's transactions and the clocks leave the messages alone.
LEMMA AdministrationMessage ==
  ASSUME MessageInv, IInv',
         Administration \/ (\E c \in Chain : Tick(c)) \/ UNCHANGED vars
  PROVE  MessageInv'
<1>1. store' = store /\ tx' = tx
  BY DEF Administration, SetMessageProcessingPaused, UpdateMinFeeConfigs,
         SetMaxReplyMethodCallBytes, SetMaxMessageLife, Tick, vars
<1>2. Peers(store')
  BY <1>1 DEF MessageInv
<1>3. /\ BatchSound => BatchSound'
      /\ RetrySound => RetrySound'
  BY <1>1 DEF BatchSound, RetrySound, TxLast, IfCallReturns
<1>4. QED
  BY <1>1, <1>2, <1>3 DEF MessageInv

\* Deployment: every inbox is empty.
LEMMA InitMessage == Init => MessageInv
<1> SUFFICES ASSUME Init PROVE MessageInv
  OBVIOUS
<1>1. IInv /\ tx = NoTx
  BY InitInv DEF Init
<1>2. /\ \A c \in Chain : store[c] = EmptyStore
      /\ EmptyStore.requests = EmptyMap /\ EmptyStore.incoming = EmptyMap
      /\ EmptyStore.responses = EmptyMap /\ EmptyStore.errors = EmptyMap
      /\ EmptyStore.nonce = [d \in Chain |-> 0]
      /\ EmptyStore.last = [s \in Chain |-> NoId]
      /\ EmptyStore.succeeded = {}
      /\ DOMAIN EmptyMap = {}
  BY DEF Init, EmptyStore, EmptyMap
<1>3. ASSUME NEW c \in Chain
      PROVE  Sound(c, EmptyStore, EmptyStore.last, NoId, NoId, store)
  <2>1. LogOK(c, EmptyStore)
    BY <1>2, ConstantsAssumption DEF LogOK
  <2>2. Lane(c, EmptyStore, EmptyStore.last, store)
    BY <1>2 DEF Lane, Ahead
  <2>3. LegsFit(EmptyStore) /\ Marks(EmptyStore, NoId, store)
    BY <1>2 DEF LegsFit, Marks
  <2>4. Outcomes(EmptyStore, NoId) /\ Signals(EmptyStore, NoId)
    BY <1>2 DEF Outcomes, Signals
  <2>5. QED
    BY <2>1, <2>2, <2>3, <2>4 DEF Sound
<1>4. Peers(store)
  BY <1>1, <1>2, <1>3 DEF Peers, IInv, TypeOK, LinkInv
<1>5. QED
  BY <1>1, <1>4 DEF MessageInv

\* Every step keeps the invariant, and changes the storage of one chain at
\* most, as evolution allows.
LEMMA NextMessage == MessageInv /\ [Next]_vars => MessageInv' /\ Committed
<1> SUFFICES ASSUME MessageInv, [Next]_vars PROVE MessageInv' /\ Committed
  OBVIOUS
<1>0. IInv'
  BY NextInv DEF MessageInv
<1>1. CASE Sends
  BY <1>0, <1>1, SendsMessage
<1>2. CASE Replies
  BY <1>0, <1>2, RepliesMessage
<1>3. CASE Batches
  <2>1. ASSUME NEW c \in Chain, NEW s \in Chain, BeginBatch(c, s)
        PROVE  MessageInv' /\ Committed
    BY <1>0, <2>1, BeginBatchMessage DEF BeginBatch, Committed
  <2>2. ASSUME NEW s \in Chain, NEW id \in DOMAIN store[s].requests,
               RejectItem(id) \/ MineEncodeFailure(id) \/ MineCall(id)
        PROVE  MessageInv' /\ Committed
    BY <1>0, <2>2, RejectItemMessage, MineEncodeFailureMessage, MineCallMessage
       DEF RejectItem, MineEncodeFailure, MineCall, Committed
  <2>3. CASE CallReturns \/ CallReverts \/ CommitBatch \/ Revert
    BY <1>0, <2>3, CallReturnsMessage, CallRevertsMessage, CommitBatchMessage,
       RevertMessage DEF CallReturns, CallReverts, Revert, Committed
  <2>4. QED
    BY <1>3, <2>1, <2>2, <2>3 DEF Batches
<1>4. CASE Retries
  <2>1. ASSUME NEW c \in Chain, NEW id \in DOMAIN store[c].incoming,
               ExpireOnRetry(c, id) \/ BeginRetry(c, id)
        PROVE  MessageInv' /\ Committed
    BY <1>0, <2>1, ExpireOnRetryMessage, BeginRetryMessage DEF BeginRetry, Committed
  <2>2. CASE RetrySucceeds
    BY <1>0, <2>2, RetrySucceedsMessage
  <2>3. QED
    BY <1>4, <2>1, <2>2 DEF Retries
<1>5. CASE Administration \/ (\E c \in Chain : Tick(c)) \/ UNCHANGED vars
  <2>1. store' = store
    BY <1>5 DEF Administration, SetMessageProcessingPaused, UpdateMinFeeConfigs,
                SetMaxReplyMethodCallBytes, SetMaxMessageLife, Tick, vars
  <2>2. QED
    BY <1>0, <1>5, <2>1, AdministrationMessage DEF Committed
<1>6. QED
  BY <1>1, <1>2, <1>3, <1>4, <1>5 DEF Next

\* The inductive invariant of messaging: the committed storages of all chains
\* are sound with respect to each other, and what a transaction works on is
\* sound but for the item in flux.
THEOREM MessageInvariant == Spec => []MessageInv
<1>1. Init => MessageInv
  BY InitMessage
<1>2. MessageInv /\ [Next]_vars => MessageInv'
  BY NextMessage
<1>3. QED
  BY <1>1, <1>2, PTL DEF Spec

-----------------------------------------------------------------------------
(* What the invariant says of the properties.                              *)

\* Each lane delivers a prefix of the source's log, once and in order.
THEOREM FifoHolds == Spec => []FifoExactlyOnce
<1>1. MessageInv => FifoExactlyOnce
  <2> SUFFICES ASSUME MessageInv, NEW c \in Chain
               PROVE  /\ LogContiguous(c, store[c])
                      /\ \A id \in DOMAIN store[c].incoming :
                           /\ Target(id) = c
                           /\ Nonce(id) < NextNonce(store[c], Source(id))
                           /\ id \in DOMAIN store[Source(id)].requests
                           /\ SameMessage(store[c].incoming[id],
                                store[Source(id)].requests[id],
                                /\ id \in DOMAIN store[c].errors
                                /\ store[c].errors[id] = MinerRejected)
                      /\ \A s \in Chain \ {c} :
                           \A n \in 1 .. NextNonce(store[c], s) - 1 :
                             <<s, c, n>> \in DOMAIN store[c].incoming
    BY DEF FifoExactlyOnce
  <2>1. /\ StoreOK(store[c]) /\ Linked(c, store[c]) /\ LogOK(c, store[c])
        /\ Lane(c, store[c], store[c].last, store)
    BY DEF MessageInv, Peers, Sound
  <2>2. \A s : NextNonce(store[c], s) = Ahead(store[c].last, s)
    BY DEF NextNonce, Ahead
  <2>3. LogContiguous(c, store[c])
    <3>1. \A id \in DOMAIN store[c].requests :
            Source(id) = c /\ Target(id) # c /\ Nonce(id) <= store[c].nonce[Target(id)]
      BY <2>1 DEF Linked, KeyedLog, LogOK
    <3>2. \A d \in Chain, n \in 1 .. MaxNonce :
            n <= store[c].nonce[d] => <<c, d, n>> \in DOMAIN store[c].requests
      <4>1. \A d \in Chain : store[c].nonce[d] \in Nat
        BY <2>1 DEF StoreOK
      <4>2. QED
        BY <2>1, <4>1, ConstantsAssumption DEF LogOK
    <3>3. QED
      BY <3>1, <3>2 DEF LogContiguous
  <2>4. \A id \in DOMAIN store[c].incoming :
          ArrivalOK(c, store[c], store[c].last, store, id)
    BY <2>1 DEF Lane
  <2>5. \A s \in Chain \ {c} : \A n \in 1 .. Ahead(store[c].last, s) - 1 :
          <<s, c, n>> \in DOMAIN store[c].incoming
    BY <2>1 DEF Lane
  <2>6. QED
    BY <2>2, <2>3, <2>4, <2>5 DEF ArrivalOK, SameMessage, Rejected
<1>2. QED
  BY <1>1, MessageInvariant, PTL

\* The outcomes of all items agree, in every storage of a well-formed lane.
LEMMA OutcomesMeanAgreement ==
  ASSUME NEW st, Outcomes(st, NoId), LegsFit(st), NoId \notin DOMAIN st.errors,
         NoId \notin DOMAIN st.responses,
         \A id \in DOMAIN st.incoming : WellFormed(st.incoming[id])
  PROVE  OutcomesAgree(st)
<1>1. \A id \in DOMAIN st.errors \cup DOMAIN st.responses : OutcomeOf(st, id)
  BY DEF Outcomes
<1>2. \A id \in DOMAIN st.errors :
        /\ id \in DOMAIN st.incoming
        /\ st.incoming[id].executed
        /\ st.errors[id] = ExecutionFailed => id \notin DOMAIN st.responses
        /\ /\ st.errors[id] # ExecutionFailed
           /\ st.incoming[id].error
           /\ st.incoming[id].callerFee # 0
           => id \in DOMAIN st.responses
  BY <1>1 DEF OutcomeOf, WellFormed
<1>3. \A id \in DOMAIN st.responses :
        /\ id \in DOMAIN st.incoming
        /\ st.incoming[id].twoWay
        /\ id \in DOMAIN st.errors <=>
             st.requests[st.responses[id]].sender = SystemSender
  BY <1>1 DEF OutcomeOf, LegsFit
<1>4. QED
  BY <1>2, <1>3 DEF OutcomesAgree

\* Failing is retryable, answering is terminal, and the two exclude each other.
THEOREM OutcomesHold == Spec => []OutcomesExclusive
<1>1. ASSUME NEW c, NEW st, NEW last, NEW fresh, NEW S, StoreOK(st),
             Sound(c, st, last, fresh, NoId, S)
      PROVE  OutcomesAgree(st)
  <2>1. \A id \in DOMAIN st.incoming : WellFormed(st.incoming[id])
    BY <1>1 DEF Sound, Lane, ArrivalOK
  <2>2. NoId \notin DOMAIN st.errors /\ NoId \notin DOMAIN st.responses
    BY <1>1, ConstantsAssumption DEF StoreOK, IsMap
  <2>3. QED
    BY <1>1, <2>1, <2>2, OutcomesMeanAgreement DEF Sound
<1>2. ASSUME NEW c, NEW st, NEW last, NEW fresh, NEW item, StoreOK(st),
             InFlight(c, st, last, fresh, item, store)
      PROVE  OutcomesAgree(st)
  <2>1. Outcomes(st, NoId)
    BY <1>2 DEF InFlight, Sound, Outcomes
  <2>2. \A id \in DOMAIN st.incoming : WellFormed(st.incoming[id])
    BY <1>2 DEF InFlight, Sound, Lane, ArrivalOK
  <2>3. NoId \notin DOMAIN st.errors /\ NoId \notin DOMAIN st.responses
    BY <1>2, ConstantsAssumption DEF StoreOK, IsMap
  <2>4. LegsFit(st)
    BY <1>2 DEF InFlight, Sound
  <2>5. QED
    BY <2>1, <2>2, <2>3, <2>4, OutcomesMeanAgreement
<1>3. MessageInv => OutcomesExclusive
  <2> SUFFICES ASSUME MessageInv PROVE OutcomesExclusive
    OBVIOUS
  <2>1. \A c \in Chain : OutcomesAgree(store[c])
    BY <1>1 DEF MessageInv, Peers
  <2>2. CASE tx # NoTx /\ tx.kind = "batch"
    <3>1. /\ StoreOK(tx.work) /\ StoreOK(tx.inner) /\ BatchSound
          /\ IfCallReturns = tx.inner
      BY <2>2 DEF MessageInv, IInv, TypeOK, TxOK, IfCallReturns
    <3>2. OutcomesAgree(tx.work) /\ OutcomesAgree(IfCallReturns)
      <4>1. CASE tx.calling
        BY <1>2, <3>1, <4>1 DEF BatchSound
      <4>2. CASE ~ tx.calling
        <5>1. /\ Sound(tx.chain, tx.work, TxLast, NoId, NoId, store)
              /\ tx.inner = tx.work
          BY <3>1, <4>2 DEF BatchSound, Landed
        <5>2. QED
          BY <1>1, <3>1, <5>1
      <4>3. QED
        BY <4>1, <4>2
    <3>3. QED
      BY <2>1, <3>2 DEF OutcomesExclusive
  <2>3. CASE tx # NoTx /\ tx.kind # "batch"
    <3>1. TxOK /\ TxInv /\ RetrySound /\ StoreOK(tx.work) /\ tx.calling
      BY <2>3 DEF MessageInv, IInv, TypeOK, TxOK, LinkInv, TxInv
    <3>2. /\ StoreOK(IfCallReturns)
          /\ InFlight(tx.chain, IfCallReturns, TxLast, FreshItem, tx.item, store)
      BY <2>3, <3>1, CallBase
    <3>3. OutcomesAgree(IfCallReturns)
      BY <1>2, <3>2
    <3>4. \A id \in DOMAIN tx.work.incoming : WellFormed(tx.work.incoming[id])
      BY <3>1 DEF RetrySound, MessageInv, Peers, Sound, Lane, ArrivalOK, TxOK
    <3>5. NoId \notin DOMAIN tx.work.errors /\ NoId \notin DOMAIN tx.work.responses
      BY <3>1, ConstantsAssumption DEF StoreOK, IsMap
    <3>6. OutcomesAgree(tx.work)
      BY <3>1, <3>4, <3>5, OutcomesMeanAgreement DEF RetrySound
    <3>7. QED
      BY <2>1, <3>3, <3>6 DEF OutcomesExclusive
  <2>4. QED
    BY <2>1, <2>2, <2>3 DEF OutcomesExclusive
<1>4. QED
  BY <1>3, MessageInvariant, PTL

\* A return leg is the recorded request's answer, with its budget and no more.
THEOREM LegsHold == Spec => []LegsAnswerTheirRequest
<1>1. MessageInv => LegsAnswerTheirRequest
  <2> SUFFICES ASSUME MessageInv, NEW c \in Chain, NEW id \in DOMAIN store[c].responses
               PROVE  LET leg == store[c].requests[store[c].responses[id]]
                          request == store[Source(id)].requests[id]
                      IN  /\ leg.sender \in {request.targetContract, SystemSender}
                          /\ leg.targetContract = request.sender
                          /\ leg.targetFee = request.callerFee
                          /\ leg.error = request.error
                          /\ ~ leg.twoWay /\ leg.callerFee = 0
    BY DEF LegsAnswerTheirRequest
  <2> DEFINE leg == store[c].requests[store[c].responses[id]]
             request == store[Source(id)].requests[id]
             incoming == store[c].incoming[id]
  <2>1. /\ StoreOK(store[c]) /\ Linked(c, store[c]) /\ LogOK(c, store[c])
        /\ Lane(c, store[c], store[c].last, store) /\ LegsFit(store[c])
    BY DEF MessageInv, Peers, Sound
  <2>2. id \in DOMAIN store[c].incoming /\ LegFits(leg, incoming)
    BY <2>1 DEF LegsFit
  <2>3. SameMessage(incoming, request, Rejected(store[c], id))
    BY <2>1, <2>2 DEF Lane, ArrivalOK
  <2>4. id # NoId /\ leg.sourceRequest = id /\ WellFormed(leg)
    BY <2>1, ConstantsAssumption DEF StoreOK, IsMap, Linked, AnswersLinked, LogOK
  <2>5. incoming.targetContract \in {request.targetContract, ZeroAddress}
    BY <2>3 DEF SameMessage
  <2>6. leg.sender \in {request.targetContract, SystemSender}
    BY <2>2, <2>4, <2>5 DEF LegFits, WellFormed
  <2>7. /\ leg.targetContract = request.sender
        /\ leg.targetFee = request.callerFee
    BY <2>2, <2>3 DEF LegFits, SameMessage
  <2>8. leg.error = request.error
    BY <2>2, <2>3 DEF LegFits, SameMessage
  <2>9. ~ leg.twoWay /\ leg.callerFee = 0
    BY <2>4 DEF WellFormed
  <2>10. QED
    BY <2>6, <2>7, <2>8, <2>9
<1>2. QED
  BY <1>1, MessageInvariant, PTL

\* The mark at the source and the answer at the target appear together.
THEOREM ExecutedHolds == Spec => []ExecutedMeansAnswered
<1>1. MessageInv => ExecutedMeansAnswered
  <2> SUFFICES ASSUME MessageInv, NEW c \in Chain, NEW id \in DOMAIN store[c].requests
               PROVE  store[c].requests[id].executed <=>
                        /\ id \in DOMAIN store[Target(id)].responses
                        /\ store[Target(id)].responses[id] \in DOMAIN store[c].incoming
    BY DEF ExecutedMeansAnswered
  <2>1. NoId \notin DOMAIN store[c].incoming
    BY ConstantsAssumption DEF MessageInv, Peers, StoreOK, IsMap
  <2>2. store[c].requests[id].executed <=> AnswerHere(store[c], NoId, store, id)
    BY DEF MessageInv, Peers, Sound, Marks
  <2>3. QED
    BY <2>1, <2>2 DEF AnswerHere
<1>2. QED
  BY <1>1, MessageInvariant, PTL

\* Success signals are final, complete and given once.
THEOREM SignalsHold == Spec => []SuccessSignalsFinal
<1>1. MessageInv => SuccessSignalsFinal
  <2> SUFFICES ASSUME MessageInv, NEW c \in Chain PROVE SignalsAgree(store[c])
    BY DEF SuccessSignalsFinal
  <2>1. Signals(store[c], NoId) /\ NoId \notin DOMAIN store[c].incoming
    BY ConstantsAssumption DEF MessageInv, Peers, Sound, StoreOK, IsMap
  <2>2. QED
    BY <2>1 DEF Signals, SignalsAgree
<1>2. QED
  BY <1>1, MessageInvariant, PTL

\* What inboxErrorType() tells a running contract is true.
THEOREM ErrorTypeHolds == Spec => []ErrorTypeTellsOrigin
<1>1. MessageInv => ErrorTypeTellsOrigin
  <2> DEFINE id == tx.inner.context.requestId
             original == tx.inner.incoming[id].sourceRequest
             type == InboxErrorType(tx.inner)
             c == tx.chain
             s == Source(id)
             base == IfCallReturns
  <2> SUFFICES ASSUME MessageInv, CallContext
               PROVE  /\ type = "NotErrorContext" <=> original = NoId
                      /\ type = "SystemError" <=>
                           /\ original # NoId
                           /\ original \in DOMAIN store[s].errors
    BY DEF ErrorTypeTellsOrigin
  <2>1. tx # NoTx /\ tx.calling
    BY DEF CallContext
  <2>2. id = tx.item
    BY <2>1 DEF MessageInv, IInv, LinkInv, TxInv, InCallContext
  <2>3. /\ c \in Chain
        /\ Workable(c, base, TxLast, FreshItem, tx.item, store)
        /\ InFlight(c, base, TxLast, FreshItem, tx.item, store)
        /\ base.incoming = tx.inner.incoming /\ base.requests = tx.inner.requests
    BY <2>1, CallBase
  <2>4. /\ id \in DOMAIN base.incoming /\ StoreOK(base) /\ Evolves(store[c], base)
        /\ Lane(c, base, TxLast, store) /\ LogOK(c, base)
    BY <2>2, <2>3 DEF InFlight, Workable, Sound
  <2>5. original # NoId =>
          /\ original \in DOMAIN base.requests
          /\ original \in DOMAIN store[c].requests
          /\ original \in DOMAIN store[s].responses
          /\ store[s].responses[original] = id
    <3>1. /\ c \in Chain /\ Workable(c, base, TxLast, FreshItem, tx.item, store)
          /\ id \in DOMAIN base.incoming
          /\ original = base.incoming[id].sourceRequest /\ s = Source(id)
      BY <2>3, <2>4
    <3> HIDE DEF original, base, s, c, id
    <3>2. base.incoming[id].sourceRequest # NoId =>
            /\ base.incoming[id].sourceRequest \in DOMAIN base.requests
            /\ base.incoming[id].sourceRequest \in DOMAIN store[c].requests
            /\ base.incoming[id].sourceRequest \in DOMAIN store[Source(id)].responses
            /\ store[Source(id)].responses[base.incoming[id].sourceRequest] = id
      BY <3>1, AnswerNamesRequest
    <3>3. QED
      BY <3>1, <3>2
  <2>6. /\ s \in Chain
        /\ base.incoming[id].sender = store[s].requests[id].sender
    BY ZenonT(60), <2>3, <2>4, ArrivedFromPeer DEF Workable, Lane, ArrivalOK, SameMessage
  <2>7. WellFormed(base.incoming[id])
    BY <2>4 DEF Lane, ArrivalOK
  <2>8. NoId \notin DOMAIN base.requests
    BY <2>4, ConstantsAssumption DEF StoreOK, IsMap
  <2> HIDE DEF id, original, c, s, base
  <2>9. CASE original = NoId
    <3>1. base.incoming[id].sender # SystemSender
      BY <2>3, <2>7, <2>9 DEF WellFormed, original
    <3>2. type = "NotErrorContext"
      BY <2>3, <2>8, <2>9, <3>1 DEF InboxErrorType, original, id
    <3>3. QED
      BY <2>9, <3>2
  <2>10. CASE original # NoId
    <3>1. /\ StoreOK(store[s]) /\ LegsFit(store[s])
          /\ Lane(s, store[s], store[s].last, store) /\ Outcomes(store[s], NoId)
      BY <2>6 DEF MessageInv, Peers, Sound
    <3>2. original \in DOMAIN store[s].incoming /\ store[s].incoming[original].twoWay
      BY <2>5, <2>10, <3>1 DEF LegsFit
    <3>3. Source(original) = c
      BY <2>3, <2>5, <2>10 DEF MessageInv, Peers, Linked, KeyedLog
    <3>4. store[c].requests[original].twoWay
      BY <3>1, <3>2, <3>3 DEF Lane, ArrivalOK, SameMessage
    <3>5. base.requests[original].twoWay
      BY <2>4, <2>5, <2>10, <3>4 DEF Evolves, SameRequest
    <3>6. base.requests[original].error
      BY <2>4, <2>5, <2>10, <3>5 DEF LogOK, WellFormed
    <3>7. /\ type # "NotErrorContext"
          /\ type = "SystemError" <=> base.incoming[id].sender = SystemSender
      BY <2>3, <2>5, <2>10, <3>6 DEF InboxErrorType, original, id
    <3>8. OutcomeOf(store[s], original)
      BY <2>5, <2>10, <3>1 DEF Outcomes
    <3>9. original \in DOMAIN store[s].errors <=>
            store[s].requests[id].sender = SystemSender
      BY <2>5, <2>10, <3>8 DEF OutcomeOf
    <3>10. QED
      BY <2>6, <2>10, <3>7, <3>9
  <2>11. QED
    BY <2>9, <2>10
<1>2. QED
  BY <1>1, MessageInvariant, PTL

-----------------------------------------------------------------------------
(* The inboxes implement TwoWayCall.  A step changes the storage of one    *)
(* chain c at most, so a call is either sent or returned there (its source *)
(* is c), or run, given up or answered there (its target is c), or stays.  *)

\* The answer of a call, and whether it asks for one.
LegOf(id) == IF Answered(id) THEN store[Target(id)].responses[id] ELSE NoId
Asks(id) == Logged(id) /\ store[Source(id)].requests[id].twoWay

\* The two kinds of step that leave a call's answer as it is.
LEMMA CallStays ==
  ASSUME NEW i \in CallId, NEW leg \in CallId \cup {NoId},
         LegOf(i) = leg, LegOf(i)' = leg, Asks(i)' <=> Asks(i),
         CallStatus(i)' = CallStatus(i),
         CallStatus(i) = "answered" =>
           leg \in CallId /\ (CallStatus(leg) = "sent" => CallStatus(leg)' = "sent")
  PROVE  Calls!Stay(i)
BY DEF Calls!Stay, Calls!Keeps, Calls!Delivered, LegOf, Asks, CallId

\* A call that is run: it fails, or it is done.
LEMMA CallRuns ==
  ASSUME NEW i \in CallId, LegOf(i)' = LegOf(i), Asks(i)' <=> Asks(i),
         CallStatus(i) \in {"sent", "failed"},
         CallStatus(i)' \in {"failed", "done"} \ {CallStatus(i)}
  PROVE  Calls!Run(i)
BY DEF Calls!Run, Calls!Keeps, LegOf, Asks

\* A call without an answer that is closed by the inbox.
LEMMA CallGivenUp ==
  ASSUME NEW i \in CallId, LegOf(i)' = LegOf(i), Asks(i)' <=> Asks(i), ~ Asks(i),
         CallStatus(i) \in {"sent", "failed"}, CallStatus(i)' = "closed"
  PROVE  Calls!GiveUp(i)
BY DEF Calls!GiveUp, Calls!Keeps, LegOf, Asks

\* A call that is logged.
LEMMA CallSent ==
  ASSUME NEW i \in CallId, LegOf(i)' = LegOf(i),
         CallStatus(i) = "unsent", CallStatus(i)' = "sent"
  PROVE  Calls!Send(i)
BY DEF Calls!Send, LegOf

\* A call whose answer is ingested by its source.
LEMMA CallReturned ==
  ASSUME NEW i \in CallId, NEW leg \in CallId, LegOf(i) = leg, LegOf(i)' = leg,
         Asks(i)' <=> Asks(i), CallStatus(i) = "answered",
         CallStatus(i)' = "returned",
         CallStatus(leg) = "sent", CallStatus(leg)' # "sent"
  PROVE  Calls!Return(i)
BY DEF Calls!Return, Calls!Keeps, Calls!Delivered, LegOf, Asks

\* A call that is answered by a leg no other call has.
LEMMA CallAnswered ==
  ASSUME NEW i \in CallId, NEW leg \in CallId, LegOf(i)' = leg,
         Asks(i), Asks(i)', ~ Asks(leg)',
         CallStatus(i) \in {"sent", "failed"}, CallStatus(i)' = "answered",
         CallStatus(leg) = "unsent", CallStatus(leg)' = "sent",
         \A j \in CallId \ {i} : LegOf(j)' # leg
  PROVE  Calls!Answer(i)
BY DEF Calls!Answer, LegOf, Asks

\* What sound storages say of call i and of its answer.
AnswerOK(S, i, leg) ==
  /\ leg \in CallId
  /\ Source(leg) = Target(i)
  /\ Target(leg) = Source(i)
  /\ leg \in DOMAIN S[Target(i)].requests
  /\ ~ S[Target(i)].requests[leg].twoWay
  /\ S[Target(i)].requests[leg].sourceRequest = i

\* What they say of call i itself.
CallOK(S, i) ==
  /\ i \in DOMAIN S[Target(i)].incoming =>
       /\ i \in DOMAIN S[Source(i)].requests
       /\ S[Target(i)].incoming[i].twoWay <=> S[Source(i)].requests[i].twoWay
  /\ i \in DOMAIN S[Target(i)].responses =>
       /\ i \in DOMAIN S[Target(i)].incoming
       /\ S[Target(i)].incoming[i].twoWay
       /\ AnswerOK(S, i, S[Target(i)].responses[i])
  /\ i \in DOMAIN S[Source(i)].requests =>
       (S[Source(i)].requests[i].executed <=>
          /\ i \in DOMAIN S[Target(i)].responses
          /\ S[Target(i)].responses[i] \in DOMAIN S[Source(i)].incoming)
  /\ i \in DOMAIN S[Target(i)].errors =>
       /\ i \in DOMAIN S[Target(i)].incoming
       /\ S[Target(i)].errors[i] = ExecutionFailed
            => i \notin DOMAIN S[Target(i)].responses
       /\ S[Target(i)].errors[i] # ExecutionFailed /\ S[Target(i)].incoming[i].twoWay
            => i \in DOMAIN S[Target(i)].responses

\* The ends of a call.
LEMMA CallEnds ==
  ASSUME NEW i \in CallId
  PROVE  /\ i \in Id /\ i # NoId
         /\ Source(i) \in Chain /\ Target(i) \in Chain /\ Source(i) # Target(i)
BY ConstantsAssumption DEF CallId, Id, Source, Target

\* A logged id is a call.
LEMMA LoggedIsCall ==
  ASSUME NEW c \in Chain, NEW st, StoreOK(st), Linked(c, st), LogOK(c, st),
         NEW id \in DOMAIN st.requests
  PROVE  id \in CallId /\ Source(id) = c
<1>1. id \in Id /\ Source(id) = c /\ Target(id) # c /\ Nonce(id) <= st.nonce[Target(id)]
  BY DEF StoreOK, IsMap, Linked, KeyedLog, LogOK
<1>2. Target(id) \in Chain /\ Nonce(id) \in Nat \ {0} /\ Source(id) \in Chain
      /\ id = <<Source(id), Target(id), Nonce(id)>>
  BY <1>1, IdParts
<1>3. st.nonce[Target(id)] \in Nat /\ st.nonce[Target(id)] <= MaxNonce
  BY <1>2 DEF StoreOK, LogOK
<1>4. Nonce(id) \in 1 .. MaxNonce
  BY <1>1, <1>2, <1>3, ConstantsAssumption
<1>5. QED
  BY <1>1, <1>2, <1>4 DEF CallId

\* Sound storages say it of every call.
LEMMA CallsOK ==
  ASSUME NEW S, Peers(S), NEW i \in CallId
  PROVE  CallOK(S, i)
<1> DEFINE s == Source(i)
           t == Target(i)
<1>1. i \in Id /\ i # NoId /\ s \in Chain /\ t \in Chain /\ s # t
  BY CallEnds
<1>2. /\ StoreOK(S[s]) /\ Linked(s, S[s]) /\ Sound(s, S[s], S[s].last, NoId, NoId, S)
      /\ StoreOK(S[t]) /\ Linked(t, S[t]) /\ Sound(t, S[t], S[t].last, NoId, NoId, S)
  BY <1>1 DEF Peers
<1>3. i \in DOMAIN S[t].incoming =>
        /\ i \in DOMAIN S[s].requests
        /\ S[t].incoming[i].twoWay <=> S[s].requests[i].twoWay
  BY <1>2 DEF Sound, Lane, ArrivalOK, SameMessage
<1>4. ASSUME i \in DOMAIN S[t].responses
      PROVE  /\ i \in DOMAIN S[t].incoming
             /\ S[t].incoming[i].twoWay
             /\ AnswerOK(S, i, S[t].responses[i])
  <2> DEFINE leg == S[t].responses[i]
  <2>1. i \in DOMAIN S[t].incoming /\ S[t].incoming[i].twoWay
    BY <1>2, <1>4 DEF Sound, LegsFit
  <2>2. /\ leg \in DOMAIN S[t].requests
        /\ S[t].requests[leg].sourceRequest = i
        /\ Target(leg) = s
    BY <1>2, <1>4 DEF Linked, AnswersLinked
  <2>3. leg \in CallId /\ Source(leg) = t
    BY <1>1, <1>2, <2>2, LoggedIsCall DEF Sound
  <2>4. ~ S[t].requests[leg].twoWay
    BY <1>1, <1>2, <2>2 DEF Sound, LogOK, WellFormed
  <2>5. QED
    BY <2>1, <2>2, <2>3, <2>4 DEF AnswerOK
<1>5. ASSUME i \in DOMAIN S[s].requests
      PROVE  S[s].requests[i].executed <=>
               /\ i \in DOMAIN S[t].responses
               /\ S[t].responses[i] \in DOMAIN S[s].incoming
  <2>1. NoId \notin DOMAIN S[s].incoming
    BY <1>2, ConstantsAssumption DEF StoreOK, IsMap
  <2>2. S[s].requests[i].executed <=> AnswerHere(S[s], NoId, S, i)
    BY <1>2, <1>5 DEF Sound, Marks
  <2>3. QED
    BY <2>1, <2>2 DEF AnswerHere
<1>6. ASSUME i \in DOMAIN S[t].errors
      PROVE  /\ i \in DOMAIN S[t].incoming
             /\ S[t].errors[i] = ExecutionFailed => i \notin DOMAIN S[t].responses
             /\ S[t].errors[i] # ExecutionFailed /\ S[t].incoming[i].twoWay
                  => i \in DOMAIN S[t].responses
  BY <1>1, <1>2, <1>6 DEF Sound, Outcomes, OutcomeOf
<1>7. QED
  BY <1>3, <1>4, <1>5, <1>6 DEF CallOK

\* An answer that a step adds has not been logged before.
LEMMA NewAnswerUnlogged ==
  ASSUME NEW S, Peers(S), NEW c \in Chain, NEW st, Linked(c, st), Evolves(S[c], st),
         NEW i, i # NoId, i \in DOMAIN st.responses, i \notin DOMAIN S[c].responses
  PROVE  st.responses[i] \notin DOMAIN S[c].requests
<1> SUFFICES ASSUME st.responses[i] \in DOMAIN S[c].requests PROVE FALSE
  OBVIOUS
<1> DEFINE leg == st.responses[i]
<1>1. st.requests[leg].sourceRequest = i
  BY DEF Linked, AnswersLinked
<1>2. S[c].requests[leg].sourceRequest = i
  BY <1>1 DEF Evolves, SameRequest
<1>3. QED
  BY <1>2 DEF Peers, Linked, AnswersLinked

-----------------------------------------------------------------------------
(* Steps of chain c.                                                       *)

\* The step changed chain c only.
ChainStep(c) ==
  /\ c \in Chain
  /\ Peers(store)
  /\ Peers(store')
  /\ Evolves(store[c], store'[c])
  /\ \A d \in Chain \ {c} : store'[d] = store[d]

\* A call between other chains stays.
LEMMA OtherCallStays ==
  ASSUME NEW c, ChainStep(c), NEW i \in CallId, Source(i) # c, Target(i) # c
  PROVE  Calls!Stay(i)
<1> DEFINE s == Source(i)
           t == Target(i)
<1>1. s \in Chain /\ t \in Chain /\ i # NoId
  BY CallEnds
<1>2. store'[s] = store[s] /\ store'[t] = store[t]
  BY <1>1 DEF ChainStep
<1>3. /\ LegOf(i)' = LegOf(i)
      /\ Asks(i)' <=> Asks(i)
      /\ CallStatus(i)' = CallStatus(i)
  BY <1>2 DEF LegOf, Asks, CallStatus, Logged, Arrived, Marked, Answered, GivenUp,
              Retriable
<1>4. CallOK(store, i)
  BY CallsOK DEF ChainStep
<1>5. Answered(i) => AnswerOK(store, i, LegOf(i))
  BY <1>4 DEF CallOK, Answered, LegOf
<1>6. LegOf(i) \in CallId \cup {NoId}
  BY <1>5 DEF AnswerOK, LegOf
<1>7. ASSUME NEW leg \in CallId, AnswerOK(store, i, leg)
      PROVE  CallStatus(leg)' = CallStatus(leg)
  BY <1>2, <1>7 DEF AnswerOK, CallStatus, Logged, Arrived, Marked, Answered,
                    GivenUp, Retriable
<1>8. CallStatus(i) = "answered" => Answered(i)
  BY DEF CallStatus
<1>9. PICK leg \in CallId \cup {NoId} : leg = LegOf(i)
  BY <1>6
<1>10. CallStatus(i) = "answered" =>
         leg \in CallId /\ (CallStatus(leg) = "sent" => CallStatus(leg)' = "sent")
  BY <1>5, <1>7, <1>8, <1>9 DEF AnswerOK
<1>11. LegOf(i) = leg /\ LegOf(i)' = leg
  BY <1>3, <1>9
<1>12. QED
  BY <1>3, <1>10, <1>11, CallStays

\* At its source a call is sent, or it returns with its answer.
LEMMA SourceCallStep ==
  ASSUME NEW c, ChainStep(c), NEW i \in CallId, Source(i) = c
  PROVE  Calls!Send(i) \/ Calls!Return(i) \/ Calls!Stay(i)
<1> DEFINE t == Target(i)
<1>1. c \in Chain /\ t \in Chain /\ t # c /\ i # NoId
  BY CallEnds
<1>2. /\ store'[t] = store[t]
      /\ Evolves(store[c], store'[c])
  BY <1>1 DEF ChainStep
<1>3. CallOK(store, i) /\ CallOK(store', i)
  BY CallsOK DEF ChainStep
<1>4. /\ LegOf(i)' = LegOf(i)
      /\ Arrived(i)' <=> Arrived(i)
      /\ Answered(i)' <=> Answered(i)
      /\ GivenUp(i)' <=> GivenUp(i)
      /\ Retriable(i)' <=> Retriable(i)
  BY <1>2 DEF LegOf, Arrived, Answered, GivenUp, Retriable
<1>5. Answered(i) => AnswerOK(store, i, LegOf(i)) /\ Arrived(i)
  BY <1>3 DEF CallOK, Answered, LegOf, Arrived
<1>6. LegOf(i) \in CallId \cup {NoId}
  BY <1>5 DEF AnswerOK, LegOf
<1>7. PICK leg \in CallId \cup {NoId} : leg = LegOf(i)
  BY <1>6
<1>8. LegOf(i) = leg /\ LegOf(i)' = leg
  BY <1>4, <1>7
<1>9. Arrived(i) => Logged(i)
  BY <1>3 DEF CallOK, Arrived, Logged
<1>10. CASE ~ Logged(i)
  <2>1. CallStatus(i) = "unsent" /\ ~ Arrived(i)
    BY <1>9, <1>10 DEF CallStatus
  <2>2. CASE Logged(i)'
    <3>1. CallStatus(i)' = "sent"
      BY <1>4, <2>1, <2>2 DEF CallStatus
    <3>2. QED
      BY <1>4, <2>1, <3>1, CallSent
  <2>3. CASE ~ Logged(i)'
    <3>1. CallStatus(i)' = "unsent"
      BY <2>3 DEF CallStatus
    <3>2. Asks(i)' <=> Asks(i)
      BY <1>10, <2>3 DEF Asks
    <3>3. QED
      BY <1>8, <2>1, <3>1, <3>2, CallStays
  <2>4. QED
    BY <2>2, <2>3
<1>11. CASE Logged(i)
  <2>1. /\ Logged(i)'
        /\ SameRequest(store[c].requests[i], store'[c].requests[i])
    BY <1>2, <1>11 DEF Evolves, Logged
  <2>2. Asks(i)' <=> Asks(i)
    BY <1>11, <2>1 DEF Asks, SameRequest
  <2>3. Marked(i) => Answered(i) /\ LegOf(i) \in DOMAIN store[c].incoming
    BY <1>3, <1>11 DEF CallOK, Marked, Answered, LegOf, Logged
  <2>4. Marked(i)' <=> Answered(i) /\ leg \in DOMAIN store'[c].incoming
    BY <1>2, <1>3, <1>7, <2>1 DEF CallOK, Marked, Answered, LegOf, Logged
  <2>5. ~ Marked(i) => ~ (Answered(i) /\ leg \in DOMAIN store[c].incoming)
    BY <1>3, <1>7, <1>11 DEF CallOK, Marked, Answered, LegOf, Logged
  <2>6. Marked(i) => Marked(i)'
    BY <1>2, <1>7, <2>3, <2>4 DEF Evolves
  <2>7. ASSUME Answered(i)
        PROVE  /\ leg \in CallId /\ Source(leg) = t /\ Target(leg) = c
               /\ Logged(leg) /\ Logged(leg)'
               /\ Arrived(leg) <=> leg \in DOMAIN store[c].incoming
               /\ Arrived(leg)' <=> leg \in DOMAIN store'[c].incoming
    BY <1>2, <1>5, <1>7, <2>7 DEF AnswerOK, Logged, Arrived
  <2>8. CASE ~ Arrived(i)
    <3>1. CallStatus(i) = "sent" /\ CallStatus(i)' = "sent"
      BY <1>4, <1>11, <2>1, <2>8 DEF CallStatus
    <3>2. QED
      BY <1>8, <2>2, <3>1, CallStays
  <2>9. CASE Arrived(i) /\ Marked(i)
    <3>1. CallStatus(i) = "returned" /\ CallStatus(i)' = "returned"
      BY <1>4, <1>11, <2>1, <2>6, <2>9 DEF CallStatus
    <3>2. QED
      BY <1>8, <2>2, <3>1, CallStays
  <2>10. CASE Arrived(i) /\ ~ Marked(i) /\ Marked(i)'
    <3>1. CallStatus(i) = "answered" /\ CallStatus(i)' = "returned"
      BY <1>4, <1>11, <2>1, <2>4, <2>10 DEF CallStatus
    <3>2. CallStatus(leg) = "sent" /\ CallStatus(leg)' # "sent"
      BY <2>4, <2>5, <2>7, <2>10 DEF CallStatus
    <3>3. leg \in CallId
      BY <2>4, <2>7, <2>10
    <3>4. QED
      BY <1>8, <2>2, <3>1, <3>2, <3>3, CallReturned
  <2>11. CASE Arrived(i) /\ ~ Marked(i) /\ ~ Marked(i)'
    <3>1. CallStatus(i)' = CallStatus(i)
      BY <1>4, <1>11, <2>1, <2>11 DEF CallStatus
    <3>2. CallStatus(i) = "answered" => Answered(i)
      BY DEF CallStatus
    <3>3. Answered(i) => CallStatus(leg)' = "sent"
      BY <2>4, <2>7, <2>11 DEF CallStatus
    <3>4. QED
      BY <1>8, <2>2, <2>7, <3>1, <3>2, <3>3, CallStays
  <2>12. QED
    BY <2>8, <2>9, <2>10, <2>11
<1>12. QED
  BY <1>10, <1>11

\* At its target a call is run, given up or answered.
LEMMA TargetCallStep ==
  ASSUME NEW c, ChainStep(c), NEW i \in CallId, Target(i) = c
  PROVE  Calls!Run(i) \/ Calls!GiveUp(i) \/ Calls!Answer(i) \/ Calls!Stay(i)
<1> DEFINE s == Source(i)
<1>1. c \in Chain /\ s \in Chain /\ s # c /\ i # NoId
  BY CallEnds
<1>2. /\ store'[s] = store[s]
      /\ Evolves(store[c], store'[c])
  BY <1>1 DEF ChainStep
<1>3. CallOK(store, i) /\ CallOK(store', i)
  BY CallsOK DEF ChainStep
<1>4. /\ Logged(i)' <=> Logged(i)
      /\ Asks(i)' <=> Asks(i)
  BY <1>2 DEF Logged, Asks
<1>5. Answered(i) => AnswerOK(store, i, LegOf(i)) /\ Arrived(i)
  BY <1>3 DEF CallOK, Answered, LegOf, Arrived
<1>6. /\ LegOf(i)' \in CallId \cup {NoId}
      /\ Answered(i)' => AnswerOK(store', i, LegOf(i)') /\ Arrived(i)'
  BY <1>3 DEF CallOK, Answered, LegOf, Arrived, AnswerOK
<1>7. PICK leg \in CallId \cup {NoId} : leg = LegOf(i)'
  BY <1>6
<1>8. Arrived(i) => Logged(i) /\ Arrived(i)'
  BY <1>2, <1>3 DEF CallOK, Arrived, Logged, Evolves
<1>9. Answered(i) => Answered(i)' /\ LegOf(i) = leg
  BY <1>2, <1>7 DEF Answered, LegOf, Evolves
<1>10. ~ Answered(i) => LegOf(i) = NoId
  BY DEF LegOf
<1>11. Logged(i) => (Marked(i)' <=> Marked(i))
  BY <1>2 DEF Marked
<1>12. Logged(i) /\ Marked(i) => Answered(i)
  BY <1>3 DEF CallOK, Marked, Answered, Logged
<1>13. Arrived(i)' => Logged(i)'
  BY <1>3 DEF CallOK, Arrived, Logged
<1>14. CASE Answered(i)' /\ ~ Answered(i)
  <2>1. Logged(i) /\ Logged(i)' /\ Arrived(i)' /\ ~ Marked(i) /\ ~ Marked(i)'
    BY <1>4, <1>6, <1>11, <1>12, <1>13, <1>14
  <2>2. CallStatus(i)' = "answered"
    BY <1>14, <2>1 DEF CallStatus
  <2>3. CallStatus(i) \in {"sent", "failed"}
    <3>1. Arrived(i) => Retriable(i)
      BY <1>2, <1>14 DEF Arrived, Retriable, GivenUp, Answered, Evolves, Failed
    <3>2. QED
      BY <1>14, <2>1, <3>1 DEF CallStatus
  <2>4. AnswerOK(store', i, leg)
    BY <1>6, <1>7, <1>14
  <2>5. leg \in CallId /\ Source(leg) = c /\ Target(leg) = s /\ Logged(leg)'
    BY <2>4 DEF AnswerOK, Logged
  <2>6. ~ Logged(leg)
    <3>1. /\ i \in DOMAIN store'[c].responses /\ i \notin DOMAIN store[c].responses
          /\ leg = store'[c].responses[i]
      BY <1>7, <1>14 DEF Answered, LegOf
    <3>2. Linked(c, store'[c]) /\ Peers(store)
      BY <1>1 DEF ChainStep, Peers
    <3>3. leg \notin DOMAIN store[c].requests
      BY <1>1, <1>2, <3>1, <3>2, NewAnswerUnlogged
    <3>4. QED
      BY <2>5, <3>3 DEF Logged
  <2>7. ~ Arrived(leg)'
    <3>1. CallOK(store, leg)
      BY <2>5, CallsOK DEF ChainStep
    <3>2. ~ Arrived(leg)
      BY <2>6, <3>1 DEF CallOK, Arrived, Logged
    <3>3. QED
      BY <1>2, <2>5, <3>2 DEF Arrived
  <2>8. CallStatus(leg) = "unsent" /\ CallStatus(leg)' = "sent"
    BY <2>5, <2>6, <2>7 DEF CallStatus
  <2>9. Asks(i) /\ Asks(i)'
    BY <1>3, <1>4, <1>14, <2>1 DEF CallOK, Answered, Asks, Logged
  <2>10. ~ Asks(leg)'
    BY <2>4, <2>5 DEF AnswerOK, Asks
  <2>11. ASSUME NEW j \in CallId \ {i}
         PROVE  LegOf(j)' # leg
    <3>1. CASE ~ Answered(j)'
      <4>1. LegOf(j)' = NoId
        BY <3>1 DEF LegOf
      <4>2. QED
        BY <2>5, <4>1, CallEnds
    <3>2. CASE Answered(j)'
      <4>1. CallOK(store', j)
        BY CallsOK DEF ChainStep
      <4>2. AnswerOK(store', j, LegOf(j)')
        BY <3>2, <4>1 DEF CallOK, Answered, LegOf
      <4>3. QED
        BY <2>4, <4>2 DEF AnswerOK
    <3>3. QED
      BY <3>1, <3>2
  <2>12. LegOf(i)' = leg
    BY <1>7
  <2>13. Calls!Answer(i)
    BY <2>2, <2>3, <2>5, <2>8, <2>9, <2>10, <2>11, <2>12, CallAnswered
  <2>14. QED
    BY <2>13
<1>15. CASE Answered(i)
  <2>1. /\ Logged(i) /\ Logged(i)' /\ Arrived(i) /\ Arrived(i)' /\ Answered(i)'
        /\ LegOf(i) = leg /\ LegOf(i)' = leg
    BY <1>4, <1>5, <1>7, <1>8, <1>9, <1>15
  <2>2. CallStatus(i)' = CallStatus(i)
    BY <1>11, <1>15, <2>1 DEF CallStatus
  <2>3. /\ leg \in CallId /\ Source(leg) = c /\ Target(leg) = s
        /\ Logged(leg)
    BY <1>5, <1>15, <2>1 DEF AnswerOK, Logged
  <2>4. Logged(leg)' /\ (Arrived(leg)' <=> Arrived(leg))
    BY <1>2, <2>3 DEF Logged, Arrived, Evolves
  <2>5. CallStatus(leg) = "sent" => CallStatus(leg)' = "sent"
    BY <2>3, <2>4 DEF CallStatus
  <2>6. QED
    BY <1>4, <2>1, <2>2, <2>3, <2>5, CallStays
<1>16. CASE ~ Answered(i)' /\ ~ Answered(i)
  <2>1. /\ LegOf(i)' = LegOf(i) /\ LegOf(i) = NoId
        /\ CallStatus(i) # "answered" /\ CallStatus(i)' # "answered"
    BY <1>16 DEF LegOf, CallStatus
  <2>2. CASE CallStatus(i)' = CallStatus(i)
    BY <1>4, <2>1, <2>2, CallStays
  <2>3. CASE CallStatus(i)' # CallStatus(i)
    <3>1. Logged(i) /\ Logged(i)' /\ ~ Marked(i) /\ ~ Marked(i)' /\ Arrived(i)'
      BY <1>4, <1>8, <1>11, <1>12, <1>13, <1>16, <2>3 DEF CallStatus
    <3>2. CallStatus(i) \in {"sent", "failed"}
      <4>1. CASE ~ Arrived(i)
        BY <3>1, <4>1 DEF CallStatus
      <4>2. CASE Arrived(i) /\ Retriable(i)
        BY <1>16, <3>1, <4>2 DEF CallStatus
      <4>3. CASE Arrived(i) /\ ~ Retriable(i)
        <5>1. /\ GivenUp(i)' <=> GivenUp(i)
              /\ ~ Retriable(i)'
          BY <1>2, <4>3 DEF Arrived, Retriable, GivenUp, Evolves, Failed
        <5>2. QED
          BY <1>16, <2>3, <3>1, <4>3, <5>1 DEF CallStatus
      <4>4. QED
        BY <4>1, <4>2, <4>3
    <3>3. CallStatus(i)' \in {"failed", "done", "closed"}
      BY <1>16, <3>1 DEF CallStatus
    <3>4. CASE CallStatus(i)' = "closed"
      <4>1. GivenUp(i)' /\ ~ Retriable(i)'
        BY <3>4 DEF CallStatus
      <4>2. ~ Asks(i)
        BY <1>3, <1>4, <1>16, <4>1
           DEF CallOK, GivenUp, Retriable, Answered, Asks, Logged
      <4>3. QED
        BY <1>4, <2>1, <3>2, <3>4, <4>2, CallGivenUp
    <3>5. CASE CallStatus(i)' # "closed"
      BY <1>4, <2>1, <2>3, <3>2, <3>3, <3>5, CallRuns
    <3>6. QED
      BY <3>4, <3>5
  <2>4. QED
    BY <2>2, <2>3
<1>17. QED
  BY <1>14, <1>15, <1>16

\* Every step of the inboxes moves every call by a step of TwoWayCall.
LEMMA StepSimulates ==
  ASSUME MessageInv, MessageInv', Committed
  PROVE  Calls!Next \/ UNCHANGED Calls!vars
<1>1. CASE store' = store
  <2>1. \A i \in CallId : CallStatus(i)' = CallStatus(i)
    BY <1>1 DEF CallStatus, Logged, Arrived, Marked, Answered, GivenUp, Retriable
  <2>2. UNCHANGED Calls!vars
    BY <1>1, <2>1 DEF Calls!vars, Logged, Answered
  <2>3. QED
    BY <2>2
<1>2. ASSUME NEW c \in Chain, Evolves(store[c], store'[c]),
             \A d \in Chain \ {c} : store'[d] = store[d]
      PROVE  Calls!Next
  <2>1. ChainStep(c)
    BY <1>2 DEF ChainStep, MessageInv
  <2>2. ASSUME NEW i \in CallId
        PROVE  \/ Calls!Stay(i) \/ Calls!Send(i) \/ Calls!Run(i) \/ Calls!GiveUp(i)
               \/ Calls!Answer(i) \/ Calls!Return(i)
    <3>1. CASE Source(i) = c
      BY <2>1, <3>1, SourceCallStep
    <3>2. CASE Target(i) = c
      BY <2>1, <3>2, TargetCallStep
    <3>3. CASE Source(i) # c /\ Target(i) # c
      BY <2>1, <3>3, OtherCallStays
    <3>4. QED
      BY <3>1, <3>2, <3>3
  <2>3. QED
    BY <2>2 DEF Calls!Next
<1>3. QED
  BY <1>1, <1>2 DEF Committed

\* Nothing is sent yet when the inboxes are deployed.
LEMMA InitSimulates == Init => Calls!Init
<1> SUFFICES ASSUME Init PROVE Calls!Init
  OBVIOUS
<1>1. \A c \in Chain : /\ DOMAIN store[c].requests = {}
                       /\ DOMAIN store[c].responses = {}
  BY DEF Init, EmptyStore, EmptyMap
<1>2. \A i \in CallId : ~ Logged(i) /\ ~ Answered(i) /\ CallStatus(i) = "unsent"
  BY <1>1, CallEnds DEF Logged, Answered, CallStatus
<1>3. QED
  BY <1>2 DEF Calls!Init

\* Batches, rejections, failures, retries, expiry and answers, in any order
\* and on any number of chains, amount to calls that are run or given up once
\* and answered at most once.
THEOREM CallsImplemented == Spec => ImplementsCalls
<1>1. Init => Calls!Init
  BY InitSimulates
<1>2. MessageInv /\ MessageInv' /\ [Next]_vars => [Calls!Next]_(Calls!vars)
  BY NextMessage, StepSimulates
<1>3. QED
  BY <1>1, <1>2, MessageInvariant, PTL DEF Spec, ImplementsCalls, Calls!Spec

-----------------------------------------------------------------------------
(* The reject hatch.  level[c] bounds what senders on chain c can prepay   *)
(* for an answer.                                                          *)

\* No request of st has prepaid more than g for its answer.
Prepaid(st, g) == \A id \in DOMAIN st.requests : st.requests[id].callerFee <= g

\* The caps agree across chains: what the local template of a chain lets its
\* senders prepay, the remote templates of the others let the answer spend.
CapsMatch(level) ==
  \A c \in Chain :
    /\ config[c].local.gas <= level[c]
    /\ SystemErrorWeight <= config[c].remote.bytes
    /\ \A s \in Chain \ {c} : level[s] <= config[c].remote.gas

NoncesLeft == \A c \in Chain : \A d \in Chain \ {c} : store[c].nonce[d] < MaxNonce

BudgetInv(level) ==
  /\ \A c \in Chain : Prepaid(store[c], level[c])
  /\ tx # NoTx => Prepaid(tx.work, level[tx.chain]) /\ Prepaid(tx.inner, level[tx.chain])

\* A request that has prepaid no more may be added.
LEMMA CreatePrepaid ==
  ASSUME NEW st, StoreOK(st), NEW g, Prepaid(st, g), NEW c, NEW d,
         NEW r, r.callerFee <= g
  PROVE  Prepaid(CreateRequest(st, c, d, r), g)
<1>1. CreateRequest(st, c, d, r).requests = Put(st.requests, CreatedId(st, c, d), r)
  BY DEF CreateRequest, StoreOK, StoreField
<1>2. QED
  BY <1>1 DEF Prepaid, Put

\* A return leg prepays nothing.
LEMMA LegPrepaid ==
  ASSUME NEW st, StoreOK(st), NEW g \in Nat, Prepaid(st, g), NEW c \in Chain,
         NEW d \in Chain, NEW id, NEW leg \in Request, leg.callerFee = 0
  PROVE  Prepaid(SendLeg(st, c, d, id, leg), g)
<1>1. Prepaid(CreateRequest(st, c, d, leg), g)
  BY CreatePrepaid
<1>2. StoreOK(CreateRequest(st, c, d, leg))
  BY CreateRequestType
<1>3. SendLeg(st, c, d, id, leg).requests = CreateRequest(st, c, d, leg).requests
  BY <1>2 DEF SendLeg, StoreOK, StoreField
<1>4. QED
  BY <1>1, <1>3 DEF Prepaid

\* Nor does the inbox's own answer.
LEMMA SystemErrorPrepaid ==
  ASSUME NEW st, StoreOK(st), NEW g \in Nat, Prepaid(st, g), NEW c \in Chain,
         NEW id \in DOMAIN st.incoming, now \in [Chain -> Nat]
  PROVE  Prepaid(SystemErrorCallback(st, c, id), g)
<1>1. id \in Id /\ Source(id) \in Chain
  BY IdParts DEF StoreOK, IsMap
<1>2. SystemErrorLeg(st, c, id) \in Request
  <2>1. /\ SystemSender \in Address /\ "error" \in Handler /\ SystemErrorWeight \in Nat
    BY ConstantsAssumption DEF Address, Handler
  <2>2. QED
    BY <2>1, ReturnLegType DEF SystemErrorLeg
<1>3. SystemErrorLeg(st, c, id).callerFee = 0
  BY DEF SystemErrorLeg, ReturnLeg
<1>4. QED
  BY <1>1, <1>2, <1>3, LegPrepaid DEF SystemErrorCallback

\* A mark changes no budget.
LEMMA MarkPrepaid ==
  ASSUME NEW st, StoreOK(st), NEW g, Prepaid(st, g), NEW id
  PROVE  Prepaid(MarkOriginal(st, id), g)
<1> DEFINE original == st.incoming[id].sourceRequest
<1>1. CASE ~ AnswersPending(st, id)
  BY <1>1 DEF MarkOriginal
<1>2. CASE AnswersPending(st, id)
  <2>1. MarkOriginal(st, id).requests = [st.requests EXCEPT ![original].executed = TRUE]
    BY <1>2 DEF MarkOriginal, StoreOK, StoreField
  <2>2. \A x \in DOMAIN st.requests : st.requests[x] \in Request
    BY DEF StoreOK, IsMap
  <2>3. \A x \in DOMAIN st.requests :
          MarkOriginal(st, id).requests[x].callerFee = st.requests[x].callerFee
    BY <2>1, <2>2 DEF Request
  <2>4. DOMAIN MarkOriginal(st, id).requests = DOMAIN st.requests
    BY <2>1
  <2>5. QED
    BY <2>3, <2>4 DEF Prepaid
<1>3. QED
  BY <1>1, <1>2

\* A message call leaves budgets bounded if what it writes is bounded.
LEMMA WritePrepaid ==
  ASSUME NEW level, IInv, BudgetInv(level), NEW c \in Chain, Running(c), NEW st,
         Prepaid(st, level[c]), Write(c, st)
  PROVE  BudgetInv(level)'
<1>1. CASE tx = NoTx
  <2>1. store' = [store EXCEPT ![c] = st] /\ tx' = NoTx
    BY <1>1 DEF Write
  <2>2. \A d \in Chain : store'[d] = IF d = c THEN st ELSE store[d]
    BY <2>1 DEF IInv, TypeOK
  <2>3. QED
    BY <2>1, <2>2 DEF BudgetInv
<1>2. CASE tx # NoTx
  <2>1. TxOK /\ tx.chain = c
    BY <1>2 DEF IInv, TypeOK, Running, InCall
  <2>2. tx' = [tx EXCEPT !.inner = st] /\ store' = store
    BY <1>2 DEF Write
  <2>3. tx'.chain = c /\ tx'.work = tx.work /\ tx'.inner = st
    BY <2>1, <2>2 DEF TxOK, TxField
  <2>4. QED
    BY <1>2, <2>1, <2>2, <2>3 DEF BudgetInv
<1>3. QED
  BY <1>1, <1>2

\* So does the end of an item.
LEMMA FinishPrepaid ==
  ASSUME NEW level, IInv, BudgetInv(level), tx # NoTx, NEW id, NEW st,
         Prepaid(st, level[tx.chain]), Finish(id, st), store' = store
  PROVE  BudgetInv(level)'
<1>1. TxOK
  BY DEF IInv, TypeOK
<1>2. tx'.chain = tx.chain /\ tx'.work = st /\ tx'.inner = st
  BY <1>1 DEF TxOK, TxField, Finish
<1>3. QED
  BY <1>2 DEF BudgetInv

\* So does the end of a transaction.
LEMMA CommitPrepaid ==
  ASSUME NEW level, IInv, BudgetInv(level), NEW c \in Chain, NEW st,
         Prepaid(st, level[c]), store' = [store EXCEPT ![c] = st], tx' = NoTx
  PROVE  BudgetInv(level)'
<1>1. \A d \in Chain : store'[d] = IF d = c THEN st ELSE store[d]
  BY DEF IInv, TypeOK
<1>2. QED
  BY <1>1 DEF BudgetInv

\* Prepaid depends on the log only.
LEMMA SamePrepaid ==
  ASSUME NEW st, NEW done, NEW g, Prepaid(st, g), done.requests = st.requests
  PROVE  Prepaid(done, g)
BY DEF Prepaid

\* Applications prepay what the local template allows; answers prepay nothing.
LEMMA CallsPrepaid ==
  ASSUME NEW level \in [Chain -> Nat], IInv, BudgetInv(level), CapsMatch(level),
         Sends \/ Replies
  PROVE  BudgetInv(level)'
<1>1. ASSUME NEW c \in Chain, Running(c)
      PROVE  StoreOK(Current(c)) /\ Prepaid(Current(c), level[c])
  BY <1>1, CurrentType DEF Running, Current, InCall, BudgetInv, IInv
<1>2. ASSUME NEW c \in Chain, NEW d \in Chain, NEW r, r.callerFee \in Nat, Send(c, d, r)
      PROVE  BudgetInv(level)'
  <2>1. Running(c) /\ r.callerFee <= config[c].local.gas
    BY <1>2 DEF Send, CanCreate
  <2>2. config[c].local.gas \in Nat
    BY DEF IInv, TypeOK, Config, Cap
  <2>3. r.callerFee <= level[c]
    BY <1>2, <2>1, <2>2 DEF CapsMatch
  <2>4. Prepaid(CreateRequest(Current(c), c, d, r), level[c])
    BY <1>1, <2>1, <2>3, CreatePrepaid
  <2>5. QED
    BY <1>2, <2>1, <2>4, WritePrepaid DEF Send
<1>3. CASE Sends
  <2>1. PICK c \in Chain, d \in Chain, who \in Contract, target \in Contract,
             call \in SendCalls, w \in Weight, tf \in FeeGas :
          \/ SendOneWayMessage(c, d, who, target, call, w, tf)
          \/ \E cf \in FeeGas :
               SendTwoWayMessage(c, d, who, target, call, w, tf, cf)
    BY <1>3 DEF Sends
  <2>2. ASSUME NEW twoWay, NEW cf \in Nat
        PROVE  OutboundRequest(c, who, target, call, w, twoWay, tf, cf).callerFee \in Nat
    BY DEF OutboundRequest
  <2>3. FeeGas \subseteq Nat
    BY ConstantsAssumption
  <2>4. CASE SendOneWayMessage(c, d, who, target, call, w, tf)
    BY <1>2, <2>2, <2>4 DEF SendOneWayMessage
  <2>5. ASSUME NEW cf \in FeeGas, SendTwoWayMessage(c, d, who, target, call, w, tf, cf)
        PROVE  BudgetInv(level)'
    BY <1>2, <2>2, <2>3, <2>5 DEF SendTwoWayMessage
  <2>6. QED
    BY <2>1, <2>4, <2>5
<1>4. CASE Replies
  <2>1. PICK c \in Chain, who \in Contract, isRaise \in BOOLEAN, w \in Weight :
          Reply(c, who, isRaise, w)
    BY <1>4 DEF Replies
  <2> DEFINE st == Current(c)
             id == st.context.requestId
             d == st.context.remoteChain
             handler == IF isRaise THEN "error" ELSE "callback"
             leg == ReturnLeg(st, c, id, who, handler, w)
  <2>2. /\ Running(c) /\ id \in DOMAIN st.incoming /\ st.context # NoContext
        /\ Write(c, SendLeg(st, c, d, id, leg))
    BY <2>1 DEF Reply, CanReply
  <2>3. StoreOK(st) /\ Prepaid(st, level[c])
    BY <1>1, <2>2
  <2>4. leg \in Request
    <3>1. /\ who \in Address /\ handler \in Handler
          /\ w \in Nat /\ now \in [Chain -> Nat]
      BY ConstantsAssumption DEF Address, Handler, IInv, TypeOK
    <3>2. QED
      BY <2>2, <2>3, <3>1, ReturnLegType
  <2>5. leg.callerFee = 0
    BY DEF ReturnLeg
  <2>6. d \in Chain
    BY <2>2, <2>3 DEF StoreOK, Context
  <2>7. Prepaid(SendLeg(st, c, d, id, leg), level[c])
    BY <2>3, <2>4, <2>5, <2>6, LegPrepaid
  <2>8. QED
    BY <2>2, <2>7, WritePrepaid
<1>5. QED
  BY <1>3, <1>4

\* A batch adds the inbox's own answers only.
LEMMA BatchesPrepaid ==
  ASSUME NEW level \in [Chain -> Nat], IInv, BudgetInv(level), Batches
  PROVE  BudgetInv(level)'
<1>1. ASSUME NEW c \in Chain, NEW s \in Chain, BeginBatch(c, s)
      PROVE  BudgetInv(level)'
  <2>1. tx'.chain = c /\ tx'.work = store[c] /\ tx'.inner = store[c] /\ store' = store
    BY <1>1 DEF BeginBatch
  <2>2. QED
    BY <2>1 DEF BudgetInv
<1>2. ASSUME tx # NoTx
      PROVE  /\ TxOK /\ StoreOK(tx.work) /\ StoreOK(tx.inner) /\ tx.chain \in Chain
             /\ Prepaid(tx.work, level[tx.chain]) /\ Prepaid(tx.inner, level[tx.chain])
             /\ now \in [Chain -> Nat]
  BY <1>2 DEF IInv, TypeOK, TxOK, BudgetInv
<1>3. ASSUME NEW s \in Chain, NEW id \in DOMAIN store[s].requests, Loading(id),
             NEW r \in Request, NEW code \in ExecutionFailed .. Expired, NEW st,
             st = [tx.work EXCEPT !.incoming = Put(@, id, r), !.errors = Put(@, id, code)]
      PROVE  /\ Prepaid(MarkOriginal(st, id), level[tx.chain])
             /\ Prepaid(MarkOriginal(SystemErrorCallback(st, tx.chain, id), id),
                        level[tx.chain])
  <2>1. tx # NoTx /\ id \in Id
    BY <1>3, LoadingType DEF Loading, IInv
  <2>2. StoreOK(st)
    BY <1>2, <1>3, <2>1, RecordType
  <2>3. st.requests = tx.work.requests /\ id \in DOMAIN st.incoming
    BY <1>2, <1>3, <2>1 DEF StoreOK, StoreField, Put
  <2>4. Prepaid(st, level[tx.chain]) /\ level[tx.chain] \in Nat
    BY <1>2, <2>1, <2>3, SamePrepaid
  <2>5. Prepaid(SystemErrorCallback(st, tx.chain, id), level[tx.chain])
    BY <1>2, <2>1, <2>2, <2>3, <2>4, SystemErrorPrepaid
  <2>6. StoreOK(SystemErrorCallback(st, tx.chain, id))
    BY <1>2, <2>1, <2>2, <2>3, SystemErrorType
  <2>7. QED
    BY <2>2, <2>4, <2>5, <2>6, MarkPrepaid
<1>4. MinerRejected \in ExecutionFailed .. Expired /\ EncodeFailed \in ExecutionFailed .. Expired
  BY DEF MinerRejected, EncodeFailed, ExecutionFailed, Expired
<1>5. ASSUME NEW s \in Chain, NEW id \in DOMAIN store[s].requests, RejectItem(id)
      PROVE  BudgetInv(level)'
  <2> DEFINE st == [tx.work EXCEPT !.incoming = Put(@, id, Reject(id)),
                                   !.errors = Put(@, id, MinerRejected)]
             answered == IF st.incoming[id].twoWay
                         THEN SystemErrorCallback(st, tx.chain, id) ELSE st
  <2>1. Loading(id) /\ Finish(id, MarkOriginal(answered, id)) /\ store' = store
    BY <1>5 DEF RejectItem
  <2>2. Reject(id) \in Request /\ tx # NoTx
    BY <2>1, LoadingType DEF Loading, IInv
  <2>3. Prepaid(MarkOriginal(answered, id), level[tx.chain])
    BY <1>3, <1>4, <2>1, <2>2
  <2> HIDE DEF answered
  <2>4. QED
    BY <2>1, <2>2, <2>3, FinishPrepaid
<1>6. ASSUME NEW s \in Chain, NEW id \in DOMAIN store[s].requests, MineEncodeFailure(id)
      PROVE  BudgetInv(level)'
  <2> DEFINE st == [tx.work EXCEPT !.incoming = Put(@, id, Ingested(id, TRUE)),
                                   !.errors = Put(@, id, EncodeFailed)]
             answered == SystemErrorCallback(st, tx.chain, id)
  <2>1. Loading(id) /\ Finish(id, MarkOriginal(answered, id)) /\ store' = store
    BY <1>6 DEF MineEncodeFailure
  <2>2. Ingested(id, TRUE) \in Request /\ tx # NoTx
    BY <2>1, LoadingType DEF Loading, IInv
  <2>3. Prepaid(MarkOriginal(answered, id), level[tx.chain])
    BY <1>3, <1>4, <2>1, <2>2
  <2> HIDE DEF answered
  <2>4. QED
    BY <2>1, <2>2, <2>3, FinishPrepaid
<1>7. ASSUME NEW s \in Chain, NEW id \in DOMAIN store[s].requests, MineCall(id)
      PROVE  BudgetInv(level)'
  <2>1. tx # NoTx
    BY <1>7 DEF MineCall, Loading
  <2>2. /\ tx'.chain = tx.chain /\ store' = store
        /\ tx'.work.requests = tx.work.requests /\ tx'.inner.requests = tx.work.requests
    BY <1>2, <1>7, <2>1 DEF MineCall, TxOK, TxField, StoreOK, StoreField
  <2>3. QED
    BY <1>2, <2>1, <2>2 DEF BudgetInv, Prepaid
<1>8. ASSUME CallReturns \/ CallReverts PROVE BudgetInv(level)'
  <2>1. tx # NoTx /\ store' = store /\ tx.item \in Id
    BY <1>2, <1>8 DEF CallReturns, CallReverts, TxOK
  <2>2. ASSUME NEW st, StoreOK(st), Prepaid(st, level[tx.chain])
        PROVE  /\ StoreOK(Executed(st, tx.item))
               /\ Prepaid(Executed(st, tx.item), level[tx.chain])
    <3>1. Executed(st, tx.item).requests = st.requests
      BY <2>2 DEF Executed, StoreOK, StoreField
    <3>2. QED
      BY <2>2, <3>1, ExecutedType, SamePrepaid
  <2>3. CASE CallReturns
    <3>1. Prepaid(MarkOriginal(Executed(tx.inner, tx.item), tx.item), level[tx.chain])
      BY <1>2, <2>1, <2>2, MarkPrepaid
    <3>2. QED
      BY <2>1, <2>3, <3>1, FinishPrepaid DEF CallReturns
  <2>4. CASE CallReverts
    <3> DEFINE st == [Executed(tx.work, tx.item) EXCEPT
                        !.errors = Put(@, tx.item, ExecutionFailed)]
    <3>1. StoreOK(Executed(tx.work, tx.item)) /\ Prepaid(Executed(tx.work, tx.item), level[tx.chain])
      BY <1>2, <2>1, <2>2
    <3>2. ExecutionFailed \in ExecutionFailed .. Expired
      BY DEF ExecutionFailed, Expired
    <3>3. StoreOK(st)
      BY <2>1, <3>1, <3>2, ErrorType
    <3>4. st.requests = Executed(tx.work, tx.item).requests
      BY <3>1 DEF StoreOK, StoreField
    <3>5. Finish(tx.item, MarkOriginal(st, tx.item))
      BY <2>4 DEF CallReverts
    <3> HIDE DEF st
    <3>6. Prepaid(st, level[tx.chain])
      BY <3>1, <3>4, SamePrepaid
    <3>7. Prepaid(MarkOriginal(st, tx.item), level[tx.chain])
      BY <3>3, <3>6, MarkPrepaid
    <3>8. QED
      BY <2>1, <3>5, <3>7, FinishPrepaid
  <2>5. QED
    BY <1>8, <2>3, <2>4
<1>9. ASSUME CommitBatch PROVE BudgetInv(level)'
  <2> DEFINE st == [tx.work EXCEPT !.last[tx.source] = tx.item]
  <2>1. tx # NoTx /\ tx' = NoTx /\ store' = [store EXCEPT ![tx.chain] = st]
    BY <1>9 DEF CommitBatch
  <2>2. st.requests = tx.work.requests
    BY <1>2, <2>1 DEF StoreOK, StoreField
  <2> HIDE DEF st
  <2>3. Prepaid(st, level[tx.chain]) /\ tx.chain \in Chain
    BY <1>2, <2>1, <2>2, SamePrepaid
  <2>4. QED
    BY <2>1, <2>3, CommitPrepaid
<1>10. ASSUME Revert PROVE BudgetInv(level)'
  BY <1>10 DEF Revert, BudgetInv
<1>11. QED
  BY <1>1, <1>5, <1>6, <1>7, <1>8, <1>9, <1>10 DEF Batches

\* So does expiry; a retry that succeeds keeps what its call logged.
LEMMA RetriesPrepaid ==
  ASSUME NEW level \in [Chain -> Nat], IInv, BudgetInv(level), Retries
  PROVE  BudgetInv(level)'
<1>1. ASSUME NEW c \in Chain, NEW id \in DOMAIN store[c].incoming, ExpireOnRetry(c, id)
      PROVE  BudgetInv(level)'
  <2> DEFINE st == [store[c] EXCEPT !.errors[id] = Expired]
             done == SystemErrorCallback(st, c, id)
  <2>1. /\ store' = [store EXCEPT ![c] = done] /\ tx' = NoTx
        /\ id \in DOMAIN store[c].errors
    BY <1>1 DEF ExpireOnRetry, Retryable
  <2>2. StoreOK(store[c]) /\ Prepaid(store[c], level[c]) /\ now \in [Chain -> Nat]
    BY DEF IInv, TypeOK, BudgetInv
  <2>3. Expired \in ExecutionFailed .. Expired
    BY DEF Expired, ExecutionFailed
  <2>4. IsMap([store[c].errors EXCEPT ![id] = Expired], Id, ExecutionFailed .. Expired)
    BY <2>2, <2>3 DEF StoreOK, IsMap
  <2>5. StoreOK(st)
    BY <2>2, <2>4 DEF StoreOK, StoreField
  <2>6. st.requests = store[c].requests /\ st.incoming = store[c].incoming
    BY <2>2 DEF StoreOK, StoreField
  <2>7. Prepaid(st, level[c]) /\ level[c] \in Nat
    BY <2>2, <2>6, SamePrepaid
  <2> HIDE DEF st
  <2>8. Prepaid(done, level[c])
    BY <2>2, <2>5, <2>6, <2>7, SystemErrorPrepaid
  <2> HIDE DEF done
  <2>9. QED
    BY <2>1, <2>8, CommitPrepaid
<1>2. ASSUME NEW c \in Chain, NEW id \in DOMAIN store[c].incoming, BeginRetry(c, id)
      PROVE  BudgetInv(level)'
  <2>1. StoreOK(store[c])
    BY DEF IInv, TypeOK
  <2>2. /\ tx'.chain = c /\ store' = store
        /\ tx'.work.requests = store[c].requests /\ tx'.inner.requests = store[c].requests
    BY <1>2, <2>1 DEF BeginRetry, StoreOK, StoreField
  <2>3. QED
    BY <2>2 DEF BudgetInv, Prepaid
<1>3. ASSUME RetrySucceeds PROVE BudgetInv(level)'
  <2> DEFINE st == [tx.inner EXCEPT !.context = NoContext,
                                    !.errors = Remove(@, tx.item),
                                    !.succeeded = @ \cup {<<"retried", tx.item>>}]
  <2>1. tx # NoTx /\ tx' = NoTx /\ store' = [store EXCEPT ![tx.chain] = st]
    BY <1>3 DEF RetrySucceeds
  <2>2. StoreOK(tx.inner) /\ tx.chain \in Chain /\ Prepaid(tx.inner, level[tx.chain])
    BY <2>1 DEF IInv, TypeOK, TxOK, BudgetInv
  <2>3. st.requests = tx.inner.requests
    BY <2>2 DEF StoreOK, StoreField
  <2> HIDE DEF st
  <2>4. QED
    BY <2>1, <2>2, <2>3, SamePrepaid, CommitPrepaid
<1>4. QED
  BY <1>1, <1>2, <1>3 DEF Retries

\* Budgets stay within the level that the caps respect.
LEMMA BudgetStep ==
  ASSUME NEW level \in [Chain -> Nat]
  PROVE  IInv /\ BudgetInv(level) /\ CapsMatch(level) /\ [Next]_vars => BudgetInv(level)'
<1> SUFFICES ASSUME IInv, BudgetInv(level), CapsMatch(level), [Next]_vars
             PROVE  BudgetInv(level)'
  OBVIOUS
<1>1. CASE Administration \/ (\E c \in Chain : Tick(c)) \/ UNCHANGED vars
  <2>1. UNCHANGED <<store, tx>>
    BY <1>1 DEF Administration, SetMessageProcessingPaused, UpdateMinFeeConfigs,
                SetMaxReplyMethodCallBytes, SetMaxMessageLife, Tick, vars
  <2>2. QED
    BY <2>1 DEF BudgetInv
<1>2. QED
  BY <1>1, CallsPrepaid, BatchesPrepaid, RetriesPrepaid DEF Next

\* Rejecting an item whose answer fits the caps does not revert.
LEMMA RejectIsOpen ==
  ASSUME NEW level \in [Chain -> Nat], MessageInv, BudgetInv(level), CapsMatch(level),
         NoncesLeft, NEW s \in Chain, NEW c \in Chain, Pending(s, c)
  PROVE  CanReject(s, c)
<1> DEFINE id == <<s, c, NextNonce(store[c], s)>>
           r == store[s].requests[id]
           st == [store[c] EXCEPT !.incoming = Put(@, id, r)]
           leg == SystemErrorLeg(st, c, id)
<1>1. s # c /\ id \in DOMAIN store[s].requests /\ Source(id) = s
  BY DEF Pending, Source
<1>2. StoreOK(store[c]) /\ StoreOK(store[s]) /\ LogOK(s, store[s])
  BY DEF MessageInv, Peers, Sound
<1>3. r \in Request /\ WellFormed(r)
  BY <1>1, <1>2 DEF StoreOK, IsMap, LogOK
<1>4. st.incoming[id] = r /\ st.nonce = store[c].nonce
  BY <1>2 DEF Put, StoreOK, StoreField
<1>5. /\ leg.targetContract = r.sender /\ leg.sender = SystemSender
      /\ leg.weight = SystemErrorWeight /\ leg.targetFee = r.callerFee
      /\ leg.callerFee = 0
  BY <1>4 DEF SystemErrorLeg, ReturnLeg
<1>6. r.sender # ZeroAddress /\ SystemSender # ZeroAddress
  BY <1>3, ConstantsAssumption DEF WellFormed
<1>7. r.callerFee <= level[s] /\ level[s] \in Nat /\ r.callerFee \in Nat
  BY <1>1, <1>3 DEF BudgetInv, Prepaid, Request
<1>8. level[s] <= config[c].remote.gas /\ SystemErrorWeight <= config[c].remote.bytes
  BY <1>1 DEF CapsMatch
<1>9. config[c].remote.gas \in Nat /\ config[c].local.gas \in Nat
  BY DEF MessageInv, IInv, TypeOK, Config, Cap
<1>10. r.callerFee <= config[c].remote.gas /\ 0 <= config[c].local.gas
  BY <1>7, <1>8, <1>9
<1>11. store[c].nonce[s] < MaxNonce
  BY <1>1 DEF NoncesLeft
<1>12. CanCreate(st, c, Source(id), leg)
  <2> HIDE DEF st, leg, id
  <2>1. QED
    BY <1>1, <1>4, <1>5, <1>6, <1>8, <1>10, <1>11 DEF CanCreate
<1>13. QED
  BY <1>12 DEF CanReject, CanSystemError

\* The miner's way out stays open (InboxMiner, reject items): as long as the
\* caps of the chains agree and nonces are left, the next item of every lane
\* can be rejected, whatever was sent, answered, retried or rejected before.
\* The templates of the deployment scripts agree so: each chain's local cap is
\* the remote cap of the other.
THEOREM RejectHatchHolds ==
  ASSUME NEW CONSTANT level \in [Chain -> Nat]
  PROVE  Spec /\ []CapsMatch(level) => [](NoncesLeft => RejectHatchOpen)
<1>1. Init => BudgetInv(level)
  BY DEF Init, BudgetInv, Prepaid, EmptyStore, EmptyMap
<1>2. IInv /\ BudgetInv(level) /\ CapsMatch(level) /\ [Next]_vars => BudgetInv(level)'
  BY BudgetStep
<1>3. MessageInv /\ BudgetInv(level) /\ CapsMatch(level) => (NoncesLeft => RejectHatchOpen)
  BY RejectIsOpen DEF RejectHatchOpen
<1>4. MessageInv => IInv
  BY DEF MessageInv
<1>5. QED
  BY <1>1, <1>2, <1>3, <1>4, MessageInvariant, PTL DEF Spec

=============================================================================
