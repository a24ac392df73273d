---------------------------- MODULE RelayProofs ----------------------------
(* Proofs about the relay, for any relays, windows, lanes, gas and faults. *)
EXTENDS Relay, TLAPS

LEMMA Chains ==
  /\ \A c \in Chain : Other(c) \in Chain /\ Other(Other(c)) = c /\ Other(c) # c
  /\ \A r \in Relay : SourceOf[r] \in Chain /\ TargetOf(r) \in Chain
                      /\ Other(TargetOf(r)) = SourceOf[r]
BY RelayAssumption DEF Chain, Other, TargetOf

LEMMA IdleType ==
  Idle \in Call /\ Idle.upto = 0 /\ Idle.todo = {} /\ Idle.pc = "idle"
BY DEF Idle, Call

\* What the type invariant says of one relay.
CallTypeOK(r) ==
  /\ relay[r].upto <= Len(sent[SourceOf[r]])
  /\ relay[r].todo \subseteq Window(r)
  /\ pending[r] \in Seq(1 .. Len(sent[SourceOf[r]]))

\* A relay that does nothing stays well typed while the logs grow.
LEMMA CallFrame ==
  ASSUME RelayTypeOK, NEW r \in Relay,
         relay'[r] = relay[r], pending'[r] = pending[r],
         sent' \in [Chain -> Seq(Item)],
         Len(sent[SourceOf[r]]) <= Len(sent'[SourceOf[r]])
  PROVE  CallTypeOK(r)'
<1> DEFINE len == Len(sent[SourceOf[r]])
<1>1. SourceOf[r] \in Chain
  BY Chains
<1>2. len \in Nat /\ len' \in Nat /\ relay[r] \in Call
  BY <1>1 DEF RelayTypeOK
<1>3. relay[r].upto <= len /\ relay[r].todo \subseteq Window(r)
      /\ pending[r] \in Seq(1 .. len)
  BY DEF RelayTypeOK
<1>4. relay[r].upto <= len'
  BY <1>2, <1>3 DEF Call
<1>5. pending[r] \in Seq(1 .. len')
  BY <1>2, <1>3
<1>6. Window(r)' = Window(r)
  BY DEF Window
<1>7. QED
  BY <1>3, <1>4, <1>5, <1>6 DEF CallTypeOK

\* A relay may change its own call and its own transactions.
LEMMA OneCall ==
  ASSUME RelayTypeOK, NEW r \in Relay, NEW call \in Call, NEW txs,
         Becomes(r, call),
         pending' = [pending EXCEPT ![r] = txs],
         call.upto <= Len(sent[SourceOf[r]]),
         call.todo \subseteq call.from + 1 .. call.upto,
         txs \in Seq(1 .. Len(sent[SourceOf[r]])),
         sent' = sent, executed' \in [Chain -> SUBSET Nat],
         latest' \in [Chain -> Nat],
         \A c \in Chain : latest'[c] <= Len(sent[Other(c)]),
         paused' = paused, faults' \in 0 .. MaxFaults
  PROVE  RelayTypeOK'
<1>1. relay' \in [Relay -> Call] /\ relay'[r] = call
  BY DEF RelayTypeOK, Becomes
<1>2. txs \in Seq(Nat)
  OBVIOUS
<1>3. pending' \in [Relay -> Seq(Nat)] /\ pending'[r] = txs
  BY <1>2 DEF RelayTypeOK
<1>4. CallTypeOK(r)'
  BY <1>1, <1>3 DEF CallTypeOK, Window
<1>5. ASSUME NEW q \in Relay \ {r} PROVE CallTypeOK(q)'
  <2>1. relay'[q] = relay[q] /\ pending'[q] = pending[q]
    BY DEF RelayTypeOK, Becomes
  <2>2. sent' \in [Chain -> Seq(Item)] /\ Len(sent[SourceOf[q]]) <= Len(sent'[SourceOf[q]])
    BY Chains DEF RelayTypeOK
  <2>3. QED
    BY <2>1, <2>2, CallFrame
<1>6. \A q \in Relay : CallTypeOK(q)'
  BY <1>4, <1>5
<1>7. QED
  BY <1>1, <1>3, <1>6 DEF RelayTypeOK, CallTypeOK

\* A longer log keeps what it had.
LEMMA SentGrows ==
  ASSUME RelayTypeOK, NEW c \in Chain, NEW q \in Item,
         sent' = [sent EXCEPT ![c] = Append(@, q)]
  PROVE  /\ sent' \in [Chain -> Seq(Item)]
         /\ Len(sent'[c]) = Len(sent[c]) + 1
         /\ \A d \in Chain \ {c} : sent'[d] = sent[d]
         /\ \A d \in Chain : Len(sent[d]) \in Nat /\ Len(sent[d]) <= Len(sent'[d])
         /\ \A d \in Chain : \A i \in 1 .. Len(sent[d]) : sent'[d][i] = sent[d][i]
         /\ sent'[c][Len(sent[c]) + 1] = q
<1>1. \A d \in Chain : sent[d] \in Seq(Item)
  BY DEF RelayTypeOK
<1>2. sent'[c] = Append(sent[c], q) /\ \A d \in Chain \ {c} : sent'[d] = sent[d]
  BY DEF RelayTypeOK
<1>3. Append(sent[c], q) \in Seq(Item) /\ sent[c] \in Seq(Item)
  BY <1>1
<1>4. sent' \in [Chain -> Seq(Item)]
  BY <1>3 DEF RelayTypeOK
<1>5. \A d \in Chain : Len(sent[d]) \in Nat
  BY <1>1
<1>6. /\ Len(sent'[c]) = Len(sent[c]) + 1
      /\ \A i \in 1 .. Len(sent[c]) : sent'[c][i] = sent[c][i]
      /\ sent'[c][Len(sent[c]) + 1] = q
  BY <1>2, <1>3
<1>7. QED
  BY <1>2, <1>4, <1>5, <1>6

\* A request more on a log.
LEMMA SentType ==
  ASSUME RelayTypeOK, NEW c \in Chain, NEW q \in Item, Len(sent[c]) < MaxSent[c],
         sent' = [sent EXCEPT ![c] = Append(@, q)],
         UNCHANGED <<executed, latest, paused, relay, pending, faults>>
  PROVE  RelayTypeOK'
<1>1. /\ sent' \in [Chain -> Seq(Item)]
      /\ \A d \in Chain : Len(sent[d]) \in Nat /\ Len(sent[d]) <= Len(sent'[d])
  BY SentGrows
<1>2. \A d \in Chain : MaxSent[d] \in Nat /\ Len(sent[d]) <= MaxSent[d]
  BY RelayAssumption DEF RelayTypeOK
<1>3. \A d \in Chain : Len(sent'[d]) <= MaxSent[d]
  BY <1>1, <1>2, SentGrows
<1>4. \A d \in Chain : latest'[d] <= Len(sent'[Other(d)])
  <2>1. \A d \in Chain : latest[d] \in Nat /\ latest[d] <= Len(sent[Other(d)])
    BY DEF RelayTypeOK
  <2>2. \A d \in Chain : Other(d) \in Chain /\ Len(sent'[Other(d)]) \in Nat
    BY <1>1, Chains
  <2>3. QED
    BY <1>1, <2>1, <2>2
<1>5. \A r \in Relay : CallTypeOK(r)'
  BY <1>1, CallFrame, Chains
<1>6. QED
  BY <1>1, <1>3, <1>4, <1>5 DEF RelayTypeOK, CallTypeOK

\* An ingested request was sent, and the target's nonce moves to it.
LEMMA IngestType ==
  ASSUME RelayTypeOK, NEW c \in Chain, NEW n \in 1 .. Len(sent[Other(c)]),
         Accepts(c, n), BatchProcessRequests(c, n)
  PROVE  /\ latest' \in [Chain -> Nat] /\ executed' \in [Chain -> SUBSET Nat]
         /\ latest'[c] = n
         /\ \A d \in Chain \ {c} : latest'[d] = latest[d] /\ executed'[d] = executed[d]
         /\ \A d \in Chain : latest[d] <= latest'[d]
         /\ \A d \in Chain : latest'[d] <= Len(sent[Other(d)])
         /\ executed'[c] = executed[c] \cup ({sent[Other(c)][n].answers} \ {NotAnswer})
<1>1. sent[Other(c)] \in Seq(Item)
  BY Chains DEF RelayTypeOK
<1>2. sent[Other(c)][n].answers \in Nat
  <2>1. sent[Other(c)][n] \in Item
    BY <1>1
  <2>2. QED
    BY <2>1 DEF Item
<1>3. n \in Nat
  BY <1>1
<1>4. /\ executed' \in [Chain -> SUBSET Nat]
      /\ executed'[c] = executed[c] \cup ({sent[Other(c)][n].answers} \ {NotAnswer})
      /\ \A d \in Chain \ {c} : executed'[d] = executed[d]
  BY <1>2 DEF RelayTypeOK, BatchProcessRequests
<1>5. /\ latest' \in [Chain -> Nat] /\ latest'[c] = n
      /\ \A d \in Chain \ {c} : latest'[d] = latest[d]
      /\ \A d \in Chain : latest[d] <= latest'[d]
  BY <1>3 DEF RelayTypeOK, Accepts, BatchProcessRequests
<1>6. \A d \in Chain : latest'[d] <= Len(sent[Other(d)])
  <2>1. latest'[c] <= Len(sent[Other(c)])
    BY <1>1, <1>5
  <2>2. QED
    BY <1>5, <2>1 DEF RelayTypeOK
<1>7. QED
  BY <1>4, <1>5, <1>6

\* Every step keeps every variable well typed.
LEMMA RelayNextType == RelayTypeOK /\ [Next]_vars => RelayTypeOK'
<1> SUFFICES ASSUME RelayTypeOK, [Next]_vars PROVE RelayTypeOK'
  OBVIOUS
<1>a. \A r \in Relay : relay[r] \in Call /\ CallTypeOK(r) /\ pending[r] \in Seq(Nat)
  BY DEF RelayTypeOK, CallTypeOK
<1>b. /\ executed \in [Chain -> SUBSET Nat] /\ latest \in [Chain -> Nat]
      /\ \A c \in Chain : latest[c] <= Len(sent[Other(c)])
      /\ faults \in 0 .. MaxFaults /\ MaxFaults \in Nat
      /\ pending \in [Relay -> Seq(Nat)]
  BY RelayAssumption DEF RelayTypeOK
<1>c. ASSUME NEW r \in Relay, NEW call \in Call, Becomes(r, call),
             call.upto <= Len(sent[SourceOf[r]]),
             call.todo \subseteq call.from + 1 .. call.upto,
             faults' \in 0 .. MaxFaults,
             UNCHANGED <<sent, executed, latest, paused, pending>>
      PROVE  RelayTypeOK'
  <2>1. pending' = [pending EXCEPT ![r] = pending[r]]
    BY <1>b, <1>c
  <2>2. QED
    BY <1>a, <1>b, <1>c, <2>1, OneCall DEF CallTypeOK
<1>1. ASSUME NEW c \in Chain, NEW fits \in BOOLEAN, Send(c, fits)
      PROVE  RelayTypeOK'
  BY <1>1, SentType DEF Send, NotAnswer, Item
<1>2. ASSUME NEW c \in Chain, NEW fits \in BOOLEAN, NEW n \in 1 .. Len(TargetFee),
             Answer(c, n, fits)
      PROVE  RelayTypeOK'
  <2>1. n \in Nat
    BY RelayAssumption
  <2>2. [fits |-> fits, answers |-> n] \in Item
    BY <2>1 DEF Item
  <2>3. QED
    BY <1>2, <2>2, SentType DEF Answer
<1>3. ASSUME NEW c \in Chain, MinedElsewhere(c)
      PROVE  RelayTypeOK'
  <2> DEFINE n == latest[c] + 1
  <2>1. n \in 1 .. Len(sent[Other(c)]) /\ Accepts(c, n) /\ BatchProcessRequests(c, n)
    BY <1>3 DEF MinedElsewhere, RelayTypeOK
  <2>2. /\ latest' \in [Chain -> Nat] /\ executed' \in [Chain -> SUBSET Nat]
        /\ \A d \in Chain : latest'[d] <= Len(sent[Other(d)])
    BY <2>1, IngestType
  <2>3. QED
    BY <1>3, <2>2 DEF MinedElsewhere, RelayTypeOK, Window
<1>4. ASSUME NEW c \in Chain, SetPaused(c) \/ SetUnpaused(c)
      PROVE  RelayTypeOK'
  BY <1>4, <1>b DEF SetPaused, SetUnpaused, RelayTypeOK, Window
<1>5. ASSUME NEW r \in Relay, NEW mode \in {"mine", "all"}, NEW from \in From,
             NEW len \in Length, CountRequests(r, mode, from, len)
      PROVE  RelayTypeOK'
  <2> DEFINE remaining == Len(sent[SourceOf[r]]) - from
             call == [Idle EXCEPT !.pc = "counted", !.mode = mode, !.from = from,
                                  !.upto = from + Take(len, remaining)]
  <2>1. remaining \in Nat /\ from \in Nat /\ len \in Nat /\ Len(sent[SourceOf[r]]) \in Nat
    <3>1. Len(sent[SourceOf[r]]) \in Nat
      BY Chains DEF RelayTypeOK
    <3>2. QED
      BY <1>5, <3>1, RelayAssumption DEF CountRequests
  <2>2. Take(len, remaining) \in Nat /\ Take(len, remaining) <= remaining
    BY <2>1 DEF Take
  <2>3. from + Take(len, remaining) \in Nat
        /\ from + Take(len, remaining) <= Len(sent[SourceOf[r]])
    BY <2>1, <2>2
  <2>4. call \in Call /\ call.upto <= Len(sent[SourceOf[r]]) /\ call.todo = {}
    <3> HIDE DEF remaining
    <3>1. QED
      BY <2>1, <2>3 DEF Idle, Call
  <2>5. Becomes(r, call) /\ faults' = faults
        /\ UNCHANGED <<sent, executed, latest, paused, pending>>
    BY <1>5 DEF CountRequests
  <2>6. QED
    <3> HIDE DEF call
    <3>1. QED
      BY <1>b, <1>c, <2>4, <2>5
<1>6. ASSUME NEW r \in Relay, GetRequests(r) PROVE RelayTypeOK'
  <2>0. relay[r] \in Call /\ Window(r) \subseteq Nat
        /\ Window(r) = relay[r].from + 1 .. relay[r].upto
        /\ relay[r].upto <= Len(sent[SourceOf[r]])
    BY <1>a DEF Call, CallTypeOK, Window
  <2> DEFINE mined == [relay[r] EXCEPT !.pc = "listed",
                                       !.todo = Window(r) \ executed[SourceOf[r]]]
             every == [relay[r] EXCEPT !.pc = "submitting", !.todo = Window(r)]
  <2>1. \A w \in SUBSET Window(r) : \A pc \in {"listed", "submitting"} :
          LET call == [relay[r] EXCEPT !.pc = pc, !.todo = w]
          IN  /\ call \in Call /\ call.upto <= Len(sent[SourceOf[r]])
              /\ call.todo \subseteq call.from + 1 .. call.upto
    <3> SUFFICES ASSUME NEW w \in SUBSET Window(r), NEW pc \in {"listed", "submitting"}
        PROVE  LET call == [relay[r] EXCEPT !.pc = pc, !.todo = w]
               IN  /\ call \in Call /\ call.upto = relay[r].upto
                   /\ call.from = relay[r].from /\ call.todo = w
      BY <2>0
    <3>1. w \in SUBSET Nat
      BY <2>0
    <3>2. QED
      BY <2>0, <3>1 DEF Call
  <2>2. /\ mined \in Call /\ mined.upto <= Len(sent[SourceOf[r]])
        /\ mined.todo \subseteq mined.from + 1 .. mined.upto
    BY <2>1
  <2>3. /\ every \in Call /\ every.upto <= Len(sent[SourceOf[r]])
        /\ every.todo \subseteq every.from + 1 .. every.upto
    BY <2>1
  <2>4. Becomes(r, mined) \/ Becomes(r, every)
    BY <1>6 DEF GetRequests
  <2>5. faults' = faults /\ UNCHANGED <<sent, executed, latest, paused, pending>>
    BY <1>6 DEF GetRequests
  <2> HIDE DEF mined, every
  <2>6. QED
    BY <1>b, <1>c, <2>2, <2>3, <2>4, <2>5
<1>7. ASSUME NEW r \in Relay, GetLatestMinedNonce(r) PROVE RelayTypeOK'
  <2> DEFINE call == [relay[r] EXCEPT !.pc = "selecting",
                                      !.latestMinedNonce = latest[TargetOf(r)]]
  <2>1. latest[TargetOf(r)] \in Nat
    BY <1>b, Chains
  <2>2. /\ call \in Call /\ call.upto <= Len(sent[SourceOf[r]])
        /\ call.todo \subseteq call.from + 1 .. call.upto
    BY <1>a, <2>1 DEF Call, CallTypeOK, Window
  <2>3. Becomes(r, call) /\ faults' = faults
        /\ UNCHANGED <<sent, executed, latest, paused, pending>>
    BY <1>7 DEF GetLatestMinedNonce
  <2> HIDE DEF call
  <2>4. QED
    BY <1>b, <1>c, <2>2, <2>3
<1>8. ASSUME NEW r \in Relay, SelectMined(r) PROVE RelayTypeOK'
  <2>1. PICK skipped : Becomes(r, [relay[r] EXCEPT !.pc = "submitting",
                                                  !.todo = Unmined(r) \ skipped])
    BY <1>8 DEF SelectMined
  <2> DEFINE call == [relay[r] EXCEPT !.pc = "submitting", !.todo = Unmined(r) \ skipped]
  <2>2. /\ call \in Call /\ call.upto <= Len(sent[SourceOf[r]])
        /\ call.todo \subseteq call.from + 1 .. call.upto
    BY <1>a DEF Call, CallTypeOK, Window, Unmined
  <2>3. Becomes(r, call) /\ faults' = faults
        /\ UNCHANGED <<sent, executed, latest, paused, pending>>
    BY <1>8, <2>1 DEF SelectMined
  <2> HIDE DEF call
  <2>4. QED
    BY <1>b, <1>c, <2>2, <2>3
<1>9. ASSUME NEW r \in Relay, Submit(r) PROVE RelayTypeOK'
  <2>1. PICK n \in relay[r].todo :
          /\ pending' = [pending EXCEPT ![r] = Append(@, n)]
          /\ Becomes(r, [relay[r] EXCEPT !.pc = IF Mining(r) THEN "waiting" ELSE @,
                                         !.todo = @ \ {n}])
    BY <1>9 DEF Submit, NextToSubmit
  <2> DEFINE call == [relay[r] EXCEPT !.pc = IF Mining(r) THEN "waiting" ELSE @,
                                      !.todo = @ \ {n}]
             txs == Append(pending[r], n)
  <2>2. n \in 1 .. Len(sent[SourceOf[r]])
    <3>1. Len(sent[SourceOf[r]]) \in Nat
      BY Chains DEF RelayTypeOK
    <3>2. QED
      BY <1>a, <3>1 DEF Call, CallTypeOK, Window
  <2>3. txs \in Seq(1 .. Len(sent[SourceOf[r]]))
    BY <1>a, <2>2 DEF CallTypeOK
  <2>4. /\ call \in Call /\ call.upto <= Len(sent[SourceOf[r]])
        /\ call.todo \subseteq call.from + 1 .. call.upto
    BY <1>a DEF Call, CallTypeOK, Window
  <2>5. /\ pending' = [pending EXCEPT ![r] = txs] /\ Becomes(r, call)
        /\ UNCHANGED <<sent, executed, latest, paused, faults>>
    BY <1>b, <1>9, <2>1 DEF Submit
  <2> HIDE DEF call, txs
  <2>6. QED
    BY <1>b, <2>3, <2>4, <2>5, OneCall
<1>10. ASSUME NEW r \in Relay, SubmitRefused(r) \/ Return(r) \/ Crash(r)
       PROVE  RelayTypeOK'
  <2>1. Becomes(r, Idle) /\ UNCHANGED <<sent, executed, latest, paused, pending>>
    BY <1>10 DEF SubmitRefused, Return, Crash
  <2>2. faults' \in 0 .. MaxFaults
    BY <1>b, <1>10 DEF SubmitRefused, Return, Crash
  <2>3. Idle.upto <= Len(sent[SourceOf[r]])
    BY IdleType, Chains DEF RelayTypeOK
  <2>4. QED
    BY <1>c, <2>1, <2>2, <2>3, IdleType
<1>11. ASSUME NEW r \in Relay, Land(r) PROVE RelayTypeOK'
  <2> DEFINE n == Head(pending[r])
             c == TargetOf(r)
             txs == Tail(pending[r])
             call == relay'[r]
  <2>1. pending[r] # <<>> /\ pending[r] \in Seq(1 .. Len(sent[SourceOf[r]]))
    BY <1>11, <1>a DEF Land, CallTypeOK
  <2>2. n \in 1 .. Len(sent[Other(c)]) /\ c \in Chain
        /\ txs \in Seq(1 .. Len(sent[SourceOf[r]]))
    <3>1. c \in Chain /\ Other(c) = SourceOf[r]
      BY Chains
    <3>2. \A S : \A s \in Seq(S) : s # <<>> => Head(s) \in S /\ Tail(s) \in Seq(S)
      OBVIOUS
    <3>3. QED
      BY <2>1, <3>1, <3>2
  <2>3. /\ pending' = [pending EXCEPT ![r] = txs]
        /\ UNCHANGED <<sent, paused, faults>>
    BY <1>11, <1>b DEF Land
  <2>4. /\ Becomes(r, call) /\ call \in Call /\ call.upto = relay[r].upto
        /\ call.from = relay[r].from /\ call.todo = relay[r].todo
    <3>1. CASE relay' = relay
      BY <1>a, <3>1 DEF RelayTypeOK, Becomes
    <3>2. CASE \E missed \in BOOLEAN :
                 Becomes(r, [relay[r] EXCEPT !.pc = "submitting", !.missed = @ \/ missed])
      <4>1. PICK missed \in BOOLEAN :
              Becomes(r, [relay[r] EXCEPT !.pc = "submitting", !.missed = @ \/ missed])
        BY <3>2
      <4> DEFINE next == [relay[r] EXCEPT !.pc = "submitting", !.missed = @ \/ missed]
      <4>2. PICK b \in BOOLEAN :
              next = [relay[r] EXCEPT !.pc = "submitting", !.missed = b]
        <5>1. (relay[r].missed \/ missed) \in BOOLEAN
          OBVIOUS
        <5>2. QED
          BY <5>1, Zenon
      <4>3. /\ next \in Call /\ next.upto = relay[r].upto
            /\ next.from = relay[r].from /\ next.todo = relay[r].todo
        BY <1>a, <4>2 DEF Call
      <4> HIDE DEF next
      <4>4. relay'[r] = next
        BY <4>1 DEF RelayTypeOK, Becomes, next
      <4>5. QED
        BY <4>1, <4>3, <4>4 DEF Becomes, next
    <3>3. QED
      BY <1>11, <3>1, <3>2 DEF Land, Received
  <2>5. /\ latest' \in [Chain -> Nat] /\ executed' \in [Chain -> SUBSET Nat]
        /\ \A d \in Chain : latest'[d] <= Len(sent[Other(d)])
    <3>1. CASE Accepts(c, n) /\ BatchProcessRequests(c, n)
      BY <2>2, <3>1, IngestType
    <3>2. CASE UNCHANGED <<executed, latest>>
      BY <1>b, <3>2
    <3>3. QED
      BY <1>11, <3>1, <3>2 DEF Land
  <2>6. call.upto <= Len(sent[SourceOf[r]]) /\ call.todo \subseteq call.from + 1 .. call.upto
    BY <1>a, <2>4 DEF CallTypeOK, Window
  <2> HIDE DEF call, txs
  <2>7. QED
    BY <1>b, <2>2, <2>3, <2>4, <2>5, <2>6, OneCall
<1>12. CASE UNCHANGED vars
  BY <1>12 DEF vars, RelayTypeOK, Window
<1>13. QED
  BY <1>1, <1>2, <1>3, <1>4, <1>5, <1>6, <1>7, <1>8, <1>9, <1>10, <1>11, <1>12
     DEF Next, Work

\* Type correctness of the relay.
THEOREM RelayTypeCorrect == Spec => []RelayTypeOK
<1>1. Init => RelayTypeOK
  BY RelayAssumption, IdleType, Chains DEF Init, RelayTypeOK, Window
<1>2. QED
  BY <1>1, RelayNextType, PTL DEF Spec

-----------------------------------------------------------------------------
(* Nothing is skipped: each filter of a call drops only what the target has. *)

\* An answer is to a request its chain has; so is what an answer has marked.
AnswersIngested(c) ==
  /\ \A i \in DOMAIN sent[c] : sent[c][i].answers <= latest[c]
  /\ executed[c] \subseteq 1 .. latest[Other(c)]

\* What a call has learnt of the target, and what it still has to do.
CallSound(r) ==
  /\ relay[r].pc \in {"listed", "selecting", "waiting"} => Mining(r)
  /\ relay[r].latestMinedNonce <= latest[TargetOf(r)]
  /\ relay[r].pc \in {"listed", "selecting"} =>
       Window(r) \ relay[r].todo \subseteq 1 .. latest[TargetOf(r)]
  /\ At(r, "waiting") => pending[r] # <<>>
  /\ Sound(r) => 1 .. relay[r].upto \subseteq
       1 .. latest[TargetOf(r)] \cup relay[r].todo \cup AwaitedNonces(r)
  /\ Sound(r) => \A n \in AwaitedNonces(r) : n <= latest[TargetOf(r)] + 1

RelayInv ==
  /\ RelayTypeOK
  /\ \A c \in Chain : AnswersIngested(c)
  /\ \A r \in Relay : CallSound(r)

\* Nonces ingested stay ingested.
LEMMA LatestGrows ==
  ASSUME RelayTypeOK, [Next]_vars
  PROVE  \A c \in Chain : latest[c] <= latest'[c]
<1>1. \A c \in Chain : latest[c] \in Nat /\ latest \in [Chain -> Nat]
  BY DEF RelayTypeOK
<1>2. ASSUME NEW c \in Chain, NEW n \in Nat, Accepts(c, n), BatchProcessRequests(c, n)
      PROVE  \A d \in Chain : latest[d] <= latest'[d]
  BY <1>1, <1>2 DEF Accepts, BatchProcessRequests
<1>3. ASSUME NEW c \in Chain, MinedElsewhere(c)
      PROVE  \A d \in Chain : latest[d] <= latest'[d]
  BY <1>1, <1>2, <1>3 DEF MinedElsewhere
<1>4. ASSUME NEW r \in Relay, Land(r)
      PROVE  \A d \in Chain : latest[d] <= latest'[d]
  <2>1. TargetOf(r) \in Chain
    BY Chains
  <2>2. CASE Accepts(TargetOf(r), Head(pending[r]))
             /\ BatchProcessRequests(TargetOf(r), Head(pending[r]))
    <3>1. Head(pending[r]) = latest[TargetOf(r)] + 1
      BY <2>2 DEF Accepts
    <3>2. Head(pending[r]) \in Nat
      BY <1>1, <2>1, <3>1
    <3>3. QED
      BY <1>2, <2>1, <2>2, <3>2
  <2>3. CASE UNCHANGED latest
    BY <1>1, <2>3
  <2>4. QED
    BY <1>4, <2>2, <2>3 DEF Land
<1>5. CASE UNCHANGED latest
  BY <1>1, <1>5
<1>6. QED
  BY <1>3, <1>4, <1>5 DEF Next, Work, vars, Send, Answer, SetPaused, SetUnpaused,
     CountRequests, GetRequests, GetLatestMinedNonce, SelectMined, Submit,
     SubmitRefused, Return, Crash

\* A request that is ingested leaves the answers as they should be.
LEMMA IngestAnswers ==
  ASSUME RelayTypeOK, \A d \in Chain : AnswersIngested(d),
         NEW c \in Chain, NEW n \in 1 .. Len(sent[Other(c)]),
         Accepts(c, n), BatchProcessRequests(c, n), sent' = sent
  PROVE  \A d \in Chain : AnswersIngested(d)'
<1>1. /\ latest' \in [Chain -> Nat]
      /\ \A d \in Chain : latest[d] <= latest'[d]
      /\ executed'[c] = executed[c] \cup ({sent[Other(c)][n].answers} \ {NotAnswer})
      /\ \A d \in Chain \ {c} : executed'[d] = executed[d]
  BY IngestType
<1>2. \A d \in Chain : latest[d] \in Nat /\ Other(d) \in Chain /\ sent[d] \in Seq(Item)
  BY Chains DEF RelayTypeOK
<1>3. \A d \in Chain : \A i \in DOMAIN sent[d] : sent[d][i].answers \in Nat
  <2>1. \A d \in Chain : \A i \in DOMAIN sent[d] : sent[d][i] \in Item
    BY <1>2
  <2>2. QED
    BY <2>1 DEF Item
<1>4. ASSUME NEW d \in Chain, NEW i \in DOMAIN sent[d]
      PROVE  sent[d][i].answers <= latest'[d]
  <2>1. sent[d][i].answers <= latest[d] /\ latest[d] <= latest'[d]
    BY <1>1 DEF AnswersIngested
  <2>2. latest[d] \in Nat /\ latest'[d] \in Nat /\ sent[d][i].answers \in Nat
    BY <1>1, <1>2, <1>3
  <2>3. QED
    BY <2>1, <2>2
<1>5. ASSUME NEW d \in Chain
      PROVE  executed[d] \subseteq 1 .. latest'[Other(d)]
  BY <1>1, <1>2 DEF AnswersIngested
<1>6. {sent[Other(c)][n].answers} \ {NotAnswer} \subseteq 1 .. latest'[Other(c)]
  <2>1. n \in DOMAIN sent[Other(c)] /\ Other(c) \in Chain
    BY <1>2
  <2>2. sent[Other(c)][n].answers \in Nat /\ sent[Other(c)][n].answers <= latest'[Other(c)]
    BY <1>3, <1>4, <2>1
  <2>3. latest'[Other(c)] \in Nat
    BY <1>1, <2>1
  <2>4. QED
    BY <2>2, <2>3 DEF NotAnswer
<1>7. ASSUME NEW d \in Chain PROVE executed'[d] \subseteq 1 .. latest'[Other(d)]
  BY <1>1, <1>5, <1>6
<1>8. QED
  BY <1>4, <1>7 DEF AnswersIngested

\* So does a request that is sent, if it answers nothing or what its chain has.
LEMMA SendAnswers ==
  ASSUME RelayTypeOK, \A d \in Chain : AnswersIngested(d),
         NEW c \in Chain, NEW q \in Item, q.answers <= latest[c],
         sent' = [sent EXCEPT ![c] = Append(@, q)],
         UNCHANGED <<executed, latest>>
  PROVE  \A d \in Chain : AnswersIngested(d)'
<1>1. /\ \A d \in Chain \ {c} : sent'[d] = sent[d]
      /\ Len(sent'[c]) = Len(sent[c]) + 1 /\ Len(sent[c]) \in Nat
      /\ \A i \in 1 .. Len(sent[c]) : sent'[c][i] = sent[c][i]
      /\ sent'[c][Len(sent[c]) + 1] = q
      /\ sent' \in [Chain -> Seq(Item)] /\ sent \in [Chain -> Seq(Item)]
  BY SentGrows DEF RelayTypeOK
<1>2. DOMAIN sent'[c] = 1 .. Len(sent[c]) + 1 /\ DOMAIN sent[c] = 1 .. Len(sent[c])
  BY <1>1
<1>3. \A i \in DOMAIN sent'[c] : sent'[c][i].answers <= latest[c]
  BY <1>1, <1>2 DEF AnswersIngested
<1>4. QED
  BY <1>1, <1>3 DEF AnswersIngested

\* Answers are to ingested requests in every state.
LEMMA AnswersNext ==
  ASSUME RelayInv, [Next]_vars
  PROVE  \A c \in Chain : AnswersIngested(c)'
<1>1. RelayTypeOK /\ \A c \in Chain : AnswersIngested(c)
  BY DEF RelayInv
<1>2. \A c \in Chain : latest[c] \in Nat
  BY <1>1 DEF RelayTypeOK
<1>3. ASSUME NEW c \in Chain, NEW fits \in BOOLEAN, Send(c, fits)
      PROVE  \A d \in Chain : AnswersIngested(d)'
  <2> DEFINE q == [fits |-> fits, answers |-> NotAnswer]
  <2>1. q \in Item /\ q.answers <= latest[c]
    BY <1>2 DEF Item, NotAnswer
  <2>2. sent' = [sent EXCEPT ![c] = Append(@, q)] /\ UNCHANGED <<executed, latest>>
    BY <1>3 DEF Send
  <2> HIDE DEF q
  <2>3. QED
    BY <1>1, <2>1, <2>2, SendAnswers
<1>4. ASSUME NEW c \in Chain, NEW fits \in BOOLEAN, NEW n \in 1 .. Len(TargetFee),
             Answer(c, n, fits)
      PROVE  \A d \in Chain : AnswersIngested(d)'
  <2> DEFINE q == [fits |-> fits, answers |-> n]
  <2>1. n \in 1 .. latest[c] /\ sent' = [sent EXCEPT ![c] = Append(@, q)]
        /\ UNCHANGED <<executed, latest>>
    BY <1>4 DEF Answer
  <2>2. q \in Item /\ q.answers <= latest[c]
    BY <1>2, <2>1 DEF Item
  <2> HIDE DEF q
  <2>3. QED
    BY <1>1, <2>1, <2>2, SendAnswers
<1>5. ASSUME NEW c \in Chain, MinedElsewhere(c)
      PROVE  \A d \in Chain : AnswersIngested(d)'
  <2>1. latest[c] + 1 \in 1 .. Len(sent[Other(c)])
    BY <1>1, <1>2, <1>5, Chains DEF MinedElsewhere, RelayTypeOK
  <2>2. QED
    BY <1>1, <1>5, <2>1, IngestAnswers DEF MinedElsewhere
<1>6. ASSUME NEW r \in Relay, Land(r)
      PROVE  \A d \in Chain : AnswersIngested(d)'
  <2>1. CASE UNCHANGED <<executed, latest>>
    BY <1>1, <1>6, <2>1 DEF Land, AnswersIngested
  <2>2. CASE Accepts(TargetOf(r), Head(pending[r]))
             /\ BatchProcessRequests(TargetOf(r), Head(pending[r]))
    <3>1. pending[r] # <<>> /\ pending[r] \in Seq(1 .. Len(sent[SourceOf[r]]))
      BY <1>1, <1>6 DEF Land, RelayTypeOK
    <3>2. \A S : \A s \in Seq(S) : s # <<>> => Head(s) \in S
      OBVIOUS
    <3>3. Head(pending[r]) \in 1 .. Len(sent[Other(TargetOf(r))]) /\ TargetOf(r) \in Chain
      BY <3>1, <3>2, Chains
    <3>4. QED
      BY <1>1, <1>6, <2>2, <3>3, IngestAnswers DEF Land
  <2>3. QED
    BY <1>6, <2>1, <2>2 DEF Land
<1>7. CASE UNCHANGED <<sent, executed, latest>>
  BY <1>1, <1>7 DEF AnswersIngested
<1>8. QED
  BY <1>3, <1>4, <1>5, <1>6, <1>7 DEF Next, Work, vars, SetPaused, SetUnpaused,
     CountRequests, GetRequests, GetLatestMinedNonce, SelectMined, Submit,
     SubmitRefused, Return, Crash

\* What a call knows stays true while others move the target forward.
LEMMA CallSoundFrame ==
  ASSUME RelayTypeOK, RelayTypeOK', NEW r \in Relay, CallSound(r),
         relay'[r] = relay[r], pending'[r] = pending[r],
         latest[TargetOf(r)] <= latest'[TargetOf(r)]
  PROVE  CallSound(r)'
<1> DEFINE c == TargetOf(r)
<1>1. latest[c] \in Nat /\ latest'[c] \in Nat /\ relay[r] \in Call
  BY Chains DEF RelayTypeOK
<1>2. 1 .. latest[c] \subseteq 1 .. latest'[c] /\ relay[r].latestMinedNonce <= latest'[c]
  BY <1>1 DEF CallSound, Call
<1>3. /\ Sound(r)' = Sound(r) /\ AwaitedNonces(r)' = AwaitedNonces(r)
      /\ Window(r)' = Window(r) /\ Mining(r)' = Mining(r)
      /\ \A pc : At(r, pc)' = At(r, pc)
      /\ TargetOf(r)' = TargetOf(r)
  BY DEF Sound, AwaitedNonces, Window, Mining, At, TargetOf
<1>4. ASSUME At(r, "waiting") PROVE \A n \in AwaitedNonces(r) : n \in Nat
  <2>1. pending[r] # <<>> /\ pending[r] \in Seq(Nat)
    BY <1>4 DEF CallSound, RelayTypeOK
  <2>2. \A s \in Seq(Nat) : s # <<>> => s[Len(s)] \in Nat
    OBVIOUS
  <2>3. QED
    BY <2>1, <2>2 DEF AwaitedNonces
<1>5. ASSUME Sound(r), NEW n \in AwaitedNonces(r) PROVE n <= latest'[c] + 1
  <2>1. n \in Nat
    BY <1>4, <1>5 DEF AwaitedNonces
  <2>2. n <= latest[c] + 1
    BY <1>5 DEF CallSound
  <2>3. QED
    BY <1>1, <2>1, <2>2
<1>6. QED
  BY <1>2, <1>3, <1>5 DEF CallSound

\* The calls a step does not touch keep what they know.
LEMMA OtherCalls ==
  ASSUME RelayInv, RelayTypeOK', [Next]_vars, NEW r \in Relay, NEW call, NEW txs,
         Becomes(r, call), pending' = [pending EXCEPT ![r] = txs],
         CallSound(r)'
  PROVE  \A q \in Relay : CallSound(q)'
<1>1. ASSUME NEW q \in Relay \ {r} PROVE CallSound(q)'
  <2>1. relay'[q] = relay[q] /\ pending'[q] = pending[q]
    BY DEF RelayInv, RelayTypeOK, Becomes
  <2>2. latest[TargetOf(q)] <= latest'[TargetOf(q)]
    BY LatestGrows, Chains DEF RelayInv
  <2>3. QED
    BY <2>1, <2>2, CallSoundFrame DEF RelayInv
<1>2. QED
  BY <1>1

\* A mining call that has looked at the target left out only what is there.
LEMMA SelectSound ==
  ASSUME RelayInv, RelayTypeOK', NEW r \in Relay, SelectMined(r)
  PROVE  CallSound(r)'
<1> DEFINE c == TargetOf(r)
<1>1. PICK skipped \in SUBSET (Unmined(r) \cap 1 .. latest[c]) :
        Becomes(r, [relay[r] EXCEPT !.pc = "submitting", !.todo = Unmined(r) \ skipped])
  BY DEF SelectMined
<1>2. relay[r] \in Call /\ latest[c] \in Nat /\ latest' = latest /\ At(r, "selecting")
  BY Chains DEF RelayInv, RelayTypeOK, SelectMined
<1>3. /\ relay'[r].pc = "submitting" /\ relay'[r].todo = Unmined(r) \ skipped
      /\ relay'[r].upto = relay[r].upto /\ relay'[r].from = relay[r].from
      /\ relay'[r].mode = relay[r].mode
      /\ relay'[r].latestMinedNonce = relay[r].latestMinedNonce
  BY <1>1, <1>2 DEF RelayInv, RelayTypeOK, Becomes, Call
<1>4. relay[r].latestMinedNonce <= latest[c]
      /\ Window(r) \ relay[r].todo \subseteq 1 .. latest[c]
  BY <1>2 DEF RelayInv, CallSound, At
<1>5. ASSUME relay[r].from <= relay[r].latestMinedNonce, NEW n \in 1 .. relay[r].upto,
             n \notin 1 .. latest[c]
      PROVE  n \in Unmined(r) \ skipped
  <2>1. relay[r].from \in Nat /\ relay[r].upto \in Nat /\ relay[r].latestMinedNonce \in Nat
    BY <1>2 DEF Call
  <2>2. n > latest[c]
    BY <1>2, <1>5, <2>1
  <2>3. n \in Window(r) /\ n > relay[r].latestMinedNonce
    BY <1>2, <1>4, <1>5, <2>1, <2>2 DEF Window
  <2>4. n \in relay[r].todo
    BY <1>4, <1>5, <2>3
  <2>5. QED
    BY <1>5, <2>3, <2>4 DEF Unmined
<1>6. QED
  BY <1>2, <1>3, <1>4, <1>5
     DEF CallSound, Sound, Mining, At, AwaitedNonces, TargetOf

\* The next request to go out is at most one ahead of the target.
LEMMA SubmitSound ==
  ASSUME RelayInv, RelayTypeOK', NEW r \in Relay, Submit(r)
  PROVE  CallSound(r)'
<1> DEFINE c == TargetOf(r)
<1>1. PICK n \in NextToSubmit(relay[r].todo) :
        /\ pending' = [pending EXCEPT ![r] = Append(@, n)]
        /\ Becomes(r, [relay[r] EXCEPT !.pc = IF Mining(r) THEN "waiting" ELSE @,
                                       !.todo = @ \ {n}])
  BY DEF Submit
<1>2. /\ relay[r] \in Call /\ latest[c] \in Nat /\ latest' = latest
      /\ pending[r] \in Seq(Nat) /\ At(r, "submitting") /\ CallSound(r)
      /\ relay[r].todo \subseteq Window(r)
  BY Chains DEF RelayInv, RelayTypeOK, Submit
<1>3. /\ relay[r].from \in Nat /\ relay[r].upto \in Nat /\ relay[r].todo \in SUBSET Nat
      /\ relay[r].latestMinedNonce \in Nat
  BY <1>2 DEF Call
<1>4. n \in relay[r].todo /\ n \in Nat /\ n \in 1 .. relay[r].upto
      /\ \A m \in relay[r].todo : n <= m
  BY <1>1, <1>2, <1>3 DEF NextToSubmit, Window
<1>5. /\ relay'[r].pc = IF Mining(r) THEN "waiting" ELSE "submitting"
      /\ relay'[r].todo = relay[r].todo \ {n}
      /\ relay'[r].upto = relay[r].upto /\ relay'[r].from = relay[r].from
      /\ relay'[r].mode = relay[r].mode /\ relay'[r].missed = relay[r].missed
      /\ relay'[r].latestMinedNonce = relay[r].latestMinedNonce
  BY <1>1, <1>2 DEF RelayInv, RelayTypeOK, Becomes, Call, At
<1>6. pending'[r] = Append(pending[r], n)
  BY <1>1 DEF RelayInv, RelayTypeOK
<1>7. pending'[r] # <<>> /\ pending'[r][Len(pending'[r])] = n
  <2>1. \A s \in Seq(Nat) : \A m \in Nat :
          Append(s, m) # <<>> /\ Append(s, m)[Len(Append(s, m))] = m
    OBVIOUS
  <2>2. QED
    BY <1>2, <1>4, <1>6, <2>1
<1>8. AwaitedNonces(r) = {} /\ (Sound(r) => 1 .. relay[r].upto \subseteq
                                  1 .. latest[c] \cup relay[r].todo)
  BY <1>2 DEF AwaitedNonces, At, CallSound
<1>9. CASE Mining(r)
  <2>1. AwaitedNonces(r)' = {n} /\ Sound(r)' = Sound(r)
    BY <1>2, <1>5, <1>7, <1>9 DEF AwaitedNonces, At, Sound, Mining
  <2>2. Sound(r) => 1 .. relay[r].upto \subseteq
                      1 .. latest[c] \cup (relay[r].todo \ {n}) \cup {n}
    BY <1>8
  <2>3. ASSUME Sound(r) PROVE n <= latest[c] + 1
    <3>1. CASE n = 1
      BY <1>2, <3>1
    <3>2. CASE n > 1
      <4>1. n - 1 \in 1 .. relay[r].upto /\ n - 1 \notin relay[r].todo
        BY <1>3, <1>4, <3>2
      <4>2. n - 1 \in 1 .. latest[c]
        BY <1>8, <2>3, <4>1
      <4>3. QED
        BY <1>2, <1>4, <4>2
    <3>3. QED
      BY <1>4, <3>1, <3>2
  <2>4. QED
    BY <1>2, <1>5, <1>7, <1>9, <2>1, <2>2, <2>3
       DEF CallSound, Mining, At, TargetOf
<1>10. CASE ~Mining(r)
  BY <1>2, <1>5, <1>10 DEF CallSound, Sound, Mining, At, TargetOf
<1>11. QED
  BY <1>9, <1>10

\* A receipt is missed only with the flag up.
LEMMA LandSound ==
  ASSUME RelayInv, RelayTypeOK', [Next]_vars, NEW r \in Relay, Land(r)
  PROVE  CallSound(r)'
<1> DEFINE c == TargetOf(r)
           n == Head(pending[r])
<1>1. /\ relay[r] \in Call /\ latest[c] \in Nat /\ latest'[c] \in Nat
      /\ latest[c] <= latest'[c] /\ CallSound(r)
      /\ pending[r] \in Seq(Nat) /\ pending[r] # <<>>
      /\ pending'[r] = Tail(pending[r]) /\ c \in Chain
  BY Chains, LatestGrows DEF RelayInv, RelayTypeOK, Land
<1>2. \A s \in Seq(Nat) : s # <<>> =>
        /\ Head(s) \in Nat /\ Len(s) \in Nat /\ Len(s) > 0 /\ Head(s) = s[1]
        /\ Len(s) # 1 => Tail(s) # <<>> /\ Tail(s)[Len(Tail(s))] = s[Len(s)]
  <2> SUFFICES ASSUME NEW s \in Seq(Nat), s # <<>>
      PROVE  /\ Head(s) \in Nat /\ Len(s) \in Nat /\ Len(s) > 0 /\ Head(s) = s[1]
             /\ Len(s) # 1 => Tail(s) # <<>> /\ Tail(s)[Len(Tail(s))] = s[Len(s)]
    OBVIOUS
  <2>1. Head(s) \in Nat /\ Len(s) \in Nat /\ Len(s) > 0 /\ Head(s) = s[1]
    OBVIOUS
  <2>2. Tail(s) \in Seq(Nat) /\ Len(Tail(s)) = Len(s) - 1
        /\ \A i \in 1 .. Len(s) - 1 : Tail(s)[i] = s[i + 1]
    OBVIOUS
  <2>3. Len(s) # 1 => Len(Tail(s)) \in 1 .. Len(s) - 1 /\ Len(Tail(s)) # 0
    <3>1. Len(Tail(s)) = Len(s) - 1
      BY <2>2
    <3>2. QED
      BY <2>1, <3>1
  <2>4. Len(s) # 1 => Tail(s) # <<>>
    BY <2>3
  <2>5. QED
    BY <2>1, <2>2, <2>3, <2>4
<1>3. 1 .. latest[c] \subseteq 1 .. latest'[c]
  BY <1>1
<1>4. relay[r].latestMinedNonce \in Nat /\ relay[r].latestMinedNonce <= latest'[c]
  BY <1>1 DEF CallSound, Call
<1>5. CASE At(r, "waiting") /\ Len(pending[r]) = 1
  <2>1. PICK missed \in BOOLEAN :
          /\ Becomes(r, [relay[r] EXCEPT !.pc = "submitting", !.missed = @ \/ missed])
          /\ n > latest[c] /\ ~missed => Accepts(c, n) /\ latest' = [latest EXCEPT ![c] = n]
    BY <1>1, <1>5 DEF Land, Received, BatchProcessRequests
  <2>2. /\ relay'[r].pc = "submitting" /\ relay'[r].todo = relay[r].todo
        /\ relay'[r].upto = relay[r].upto /\ relay'[r].from = relay[r].from
        /\ relay'[r].mode = relay[r].mode
        /\ relay'[r].missed = (relay[r].missed \/ missed)
        /\ relay'[r].latestMinedNonce = relay[r].latestMinedNonce
    BY <1>1, <2>1, Zenon DEF RelayInv, RelayTypeOK, Becomes, Call
  <2>3. n \in Nat /\ AwaitedNonces(r) = {n}
    BY <1>1, <1>2, <1>5 DEF AwaitedNonces
  <2>4. ASSUME Sound(r)' PROVE Sound(r) /\ n <= latest'[c]
    <3>1. Sound(r) /\ ~missed
      BY <1>1, <1>5, <2>2, <2>4 DEF Sound, Mining, At
    <3>2. CASE n > latest[c]
      <4>1. latest'[c] = n
        BY <1>1, <2>1, <3>1, <3>2 DEF RelayInv, RelayTypeOK
      <4>2. QED
        BY <2>3, <3>1, <4>1
    <3>3. CASE ~(n > latest[c])
      BY <1>1, <2>3, <3>1, <3>3
    <3>4. QED
      BY <3>2, <3>3
  <2>5. ASSUME Sound(r)', NEW m \in 1 .. relay[r].upto
        PROVE  m \in 1 .. latest'[c] \cup relay[r].todo
    <3>1. m \in 1 .. latest[c] \cup relay[r].todo \cup {n}
      BY <1>1, <2>3, <2>4, <2>5 DEF CallSound
    <3>2. n >= 1 => n \in 1 .. latest'[c]
      BY <1>1, <2>3, <2>4, <2>5
    <3>3. relay[r].upto \in Nat
      BY <1>1 DEF Call
    <3>4. QED
      BY <1>3, <3>1, <3>2, <3>3
  <2>6. AwaitedNonces(r)' = {} /\ TargetOf(r)' = TargetOf(r)
    BY <2>2 DEF AwaitedNonces, At, TargetOf
  <2>7. QED
    BY <1>4, <2>2, <2>5, <2>6 DEF CallSound, At
<1>6. CASE ~(At(r, "waiting") /\ Len(pending[r]) = 1)
  <2>1. relay' = relay
    BY <1>6 DEF Land, Received
  <2>2. /\ Sound(r)' = Sound(r) /\ Window(r)' = Window(r) /\ Mining(r)' = Mining(r)
        /\ \A pc : At(r, pc)' = At(r, pc)
        /\ TargetOf(r)' = TargetOf(r)
    BY <2>1 DEF Sound, Window, Mining, At, TargetOf
  <2>3. At(r, "waiting") =>
          pending'[r] # <<>> /\ AwaitedNonces(r)' = AwaitedNonces(r)
          /\ AwaitedNonces(r) \subseteq Nat
    <3>1. \A s \in Seq(Nat) : s # <<>> => s[Len(s)] \in Nat
      OBVIOUS
    <3>2. QED
      BY <1>1, <1>2, <1>6, <2>1, <3>1 DEF AwaitedNonces, At
  <2>4. ~At(r, "waiting") => AwaitedNonces(r)' = {} /\ AwaitedNonces(r) = {}
    BY <2>2 DEF AwaitedNonces
  <2>5. ASSUME Sound(r), NEW m \in AwaitedNonces(r) PROVE m <= latest'[c] + 1
    <3>1. m <= latest[c] + 1 /\ m \in Nat
      BY <1>1, <2>3, <2>4, <2>5 DEF CallSound
    <3>2. QED
      BY <1>1, <3>1
  <2>6. QED
    BY <1>1, <1>3, <1>4, <2>1, <2>2, <2>3, <2>4, <2>5 DEF CallSound
<1>7. QED
  BY <1>5, <1>6

\* The steps of a call that only read.
LEMMA ReadSound ==
  ASSUME RelayInv, RelayTypeOK', NEW r \in Relay,
         GetRequests(r) \/ GetLatestMinedNonce(r)
  PROVE  CallSound(r)'
<1> DEFINE c == TargetOf(r)
<1>1. /\ relay[r] \in Call /\ latest[c] \in Nat /\ CallSound(r) /\ latest' = latest
      /\ executed[SourceOf[r]] \subseteq 1 .. latest[c]
  BY Chains DEF RelayInv, RelayTypeOK, GetRequests, GetLatestMinedNonce,
     AnswersIngested, TargetOf
<1>2. CASE GetRequests(r) /\ Mining(r)
  <2>1. relay'[r] = [relay[r] EXCEPT !.pc = "listed",
                                     !.todo = Window(r) \ executed[SourceOf[r]]]
    BY <1>2 DEF GetRequests, RelayInv, RelayTypeOK, Becomes
  <2>2. /\ relay'[r].pc = "listed" /\ relay'[r].todo = Window(r) \ executed[SourceOf[r]]
        /\ relay'[r].mode = relay[r].mode /\ Window(r)' = Window(r)
        /\ relay'[r].latestMinedNonce = relay[r].latestMinedNonce
    BY <1>1, <2>1 DEF Call, Window
  <2>3. QED
    BY <1>1, <1>2, <2>2 DEF CallSound, Sound, At, Mining, TargetOf
<1>3. CASE GetRequests(r) /\ ~Mining(r)
  <2>1. relay'[r] = [relay[r] EXCEPT !.pc = "submitting", !.todo = Window(r)]
    BY <1>3 DEF GetRequests, RelayInv, RelayTypeOK, Becomes
  <2>2. /\ relay'[r].pc = "submitting" /\ relay'[r].mode = relay[r].mode
        /\ relay'[r].latestMinedNonce = relay[r].latestMinedNonce
    BY <1>1, <2>1 DEF Call
  <2>3. QED
    BY <1>1, <1>3, <2>2 DEF CallSound, Sound, At, Mining, TargetOf
<1>4. CASE GetLatestMinedNonce(r)
  <2>1. relay'[r] = [relay[r] EXCEPT !.pc = "selecting", !.latestMinedNonce = latest[c]]
    BY <1>4 DEF GetLatestMinedNonce, RelayInv, RelayTypeOK, Becomes
  <2>2. /\ relay'[r].pc = "selecting" /\ relay'[r].todo = relay[r].todo
        /\ relay'[r].mode = relay[r].mode /\ Window(r)' = Window(r)
        /\ relay'[r].latestMinedNonce = latest[c]
    BY <1>1, <2>1 DEF Call, Window
  <2>3. relay[r].pc = "listed"
    BY <1>4 DEF GetLatestMinedNonce, At
  <2>4. QED
    BY <1>1, <2>2, <2>3 DEF CallSound, Sound, At, Mining, TargetOf
<1>5. QED
  BY <1>2, <1>3, <1>4

\* A call that starts, or is over, knows nothing.
LEMMA FreshSound ==
  ASSUME RelayTypeOK', NEW r \in Relay, relay'[r].latestMinedNonce = 0,
         relay'[r].pc \in {"idle", "counted"}
  PROVE  CallSound(r)'
<1>1. TargetOf(r) \in Chain /\ TargetOf(r)' = TargetOf(r)
  BY Chains DEF TargetOf
<1>2. latest'[TargetOf(r)] \in Nat
  BY <1>1 DEF RelayTypeOK
<1>3. QED
  BY <1>1, <1>2 DEF CallSound, Sound, At

\* The invariant is inductive.
LEMMA RelayInvNext == RelayInv /\ [Next]_vars => RelayInv'
<1> SUFFICES ASSUME RelayInv, [Next]_vars PROVE RelayInv'
  OBVIOUS
<1>1. RelayTypeOK'
  BY RelayNextType DEF RelayInv
<1>2. \A c \in Chain : AnswersIngested(c)'
  BY AnswersNext
<1>3. ASSUME NEW r \in Relay, NEW call, Becomes(r, call), UNCHANGED pending, CallSound(r)'
      PROVE  \A q \in Relay : CallSound(q)'
  <2>1. pending' = [pending EXCEPT ![r] = pending[r]]
    BY <1>3 DEF RelayInv, RelayTypeOK
  <2>2. QED
    BY <1>1, <1>3, <2>1, OtherCalls
<1>4. ASSUME NEW r \in Relay, NEW mode, NEW from, NEW len, CountRequests(r, mode, from, len)
      PROVE  \A q \in Relay : CallSound(q)'
  <2>1. PICK call : Becomes(r, call) /\ call.latestMinedNonce = 0 /\ call.pc = "counted"
    <3> DEFINE call == [Idle EXCEPT !.pc = "counted", !.mode = mode, !.from = from,
                 !.upto = from + Take(len, Len(sent[SourceOf[r]]) - from)]
    <3>1. Becomes(r, call)
      BY <1>4 DEF CountRequests
    <3>2. call.latestMinedNonce = 0 /\ call.pc = "counted"
      BY DEF Idle
    <3> HIDE DEF call
    <3>3. QED
      BY <3>1, <3>2
  <2>2. CallSound(r)'
    BY <1>1, <2>1, FreshSound DEF RelayInv, RelayTypeOK, Becomes
  <2>3. QED
    BY <1>3, <1>4, <2>1, <2>2 DEF CountRequests
<1>5. ASSUME NEW r \in Relay, SubmitRefused(r) \/ Return(r) \/ Crash(r)
      PROVE  \A q \in Relay : CallSound(q)'
  <2>1. Becomes(r, Idle) /\ UNCHANGED pending
    BY <1>5 DEF SubmitRefused, Return, Crash
  <2>2. CallSound(r)'
    BY <1>1, <2>1, FreshSound DEF RelayInv, RelayTypeOK, Becomes, Idle
  <2>3. QED
    BY <1>3, <2>1, <2>2
<1>6. ASSUME NEW r \in Relay, GetRequests(r) \/ GetLatestMinedNonce(r) \/ SelectMined(r)
      PROVE  \A q \in Relay : CallSound(q)'
  <2>1. CallSound(r)'
    BY <1>1, <1>6, ReadSound, SelectSound
  <2>2. (\E call : Becomes(r, call)) /\ UNCHANGED pending
    BY <1>6 DEF GetRequests, GetLatestMinedNonce, SelectMined
  <2>3. QED
    BY <1>3, <2>1, <2>2
<1>7. ASSUME NEW r \in Relay, Submit(r)
      PROVE  \A q \in Relay : CallSound(q)'
  <2>1. CallSound(r)'
    BY <1>1, <1>7, SubmitSound
  <2>2. \E call, txs : Becomes(r, call) /\ pending' = [pending EXCEPT ![r] = txs]
    BY <1>7 DEF Submit
  <2>3. QED
    BY <1>1, <2>1, <2>2, OtherCalls
<1>8. ASSUME NEW r \in Relay, Land(r)
      PROVE  \A q \in Relay : CallSound(q)'
  <2>1. CallSound(r)'
    BY <1>1, <1>8, LandSound
  <2>2. pending' = [pending EXCEPT ![r] = Tail(pending[r])]
    BY <1>8 DEF Land, RelayInv, RelayTypeOK
  <2>3. \E call : Becomes(r, call)
    <3>1. CASE UNCHANGED relay
      BY <3>1 DEF Becomes, RelayInv, RelayTypeOK
    <3>2. QED
      BY <1>8, <3>1 DEF Land, Received
  <2>4. QED
    BY <1>1, <2>1, <2>2, <2>3, OtherCalls
<1>9. ASSUME UNCHANGED <<relay, pending>>
      PROVE  \A q \in Relay : CallSound(q)'
  <2>1. \A q \in Relay : latest[TargetOf(q)] <= latest'[TargetOf(q)]
    BY LatestGrows, Chains DEF RelayInv
  <2>2. QED
    BY <1>1, <1>9, <2>1, CallSoundFrame DEF RelayInv
<1>10. \A q \in Relay : CallSound(q)'
  BY <1>4, <1>5, <1>6, <1>7, <1>8, <1>9 DEF Next, Work, vars, Send, Answer,
     MinedElsewhere, SetPaused, SetUnpaused
<1>11. QED
  BY <1>1, <1>2, <1>10 DEF RelayInv

\* The invariant holds at the start.
LEMMA RelayInvInit == Init => RelayInv
<1> SUFFICES ASSUME Init PROVE RelayInv
  OBVIOUS
<1>1. RelayTypeOK
  BY RelayAssumption, IdleType, Chains DEF Init, RelayTypeOK, Window
<1>2. \A c \in Chain : AnswersIngested(c)
  BY DEF Init, AnswersIngested
<1>3. \A r \in Relay : CallSound(r)
  <2> SUFFICES ASSUME NEW r \in Relay PROVE CallSound(r)
    OBVIOUS
  <2>1. relay[r].pc = "idle" /\ relay[r].latestMinedNonce = 0
        /\ latest[TargetOf(r)] = 0
    BY Chains DEF Init, Idle
  <2>2. QED
    BY <2>1 DEF CallSound, Sound, At
<1>4. QED
  BY <1>1, <1>2, <1>3 DEF RelayInv

\* In every behaviour.
LEMMA RelayInvHolds == Spec => []RelayInv
BY RelayInvInit, RelayInvNext, PTL DEF Spec

\* A mining call of any relay, on any lane, skips only what the target has.
THEOREM NothingIsSkipped == Spec => []NothingSkipped
<1>1. RelayInv => NothingSkipped
  BY DEF RelayInv, CallSound, NothingSkipped
<1>2. QED
  BY <1>1, RelayInvHolds, PTL

\* What it submits never meets a gap on the target.
THEOREM NoGapIsSubmitted == Spec => []NoGapSubmitted
<1>1. RelayInv => NoGapSubmitted
  BY DEF RelayInv, CallSound, NoGapSubmitted
<1>2. QED
  BY <1>1, RelayInvHolds, PTL

-----------------------------------------------------------------------------
(* The gas of a batch.                                                     *)

\* What is left of the batch's gas covers the prepaid gas of its request.
LEMMA StipendFits ==
  ASSUME NEW t \in Nat, NEW o \in Nat,
         o <= MIN_BATCH_TX_GAS_HEADROOM - POST_CALL_GAS_RESERVE
  PROVE  ComputeUserCallGas(
           MinBatchTxGasForInnerStipend(IF t > 0 THEN t ELSE DEFAULT_MINED_TARGET_EXECUTION_GAS)
           - o, t) = t
<1>0. o <= 3800000
  BY SMT DEF MIN_BATCH_TX_GAS_HEADROOM, POST_CALL_GAS_RESERVE
<1>1. CASE t = 0
  <2> DEFINE gas == MinBatchTxGasForInnerStipend(DEFAULT_MINED_TARGET_EXECUTION_GAS) - o
  <2>1. \A u \in Nat : (u * 64 + 62) \div 63 \in Nat
    OBVIOUS
  <2>2. gas \in Nat
    BY <1>0, <2>1, SMT DEF MinBatchTxGasForInnerStipend, DEFAULT_MINED_TARGET_EXECUTION_GAS,
       MIN_BATCH_TX_GAS_HEADROOM, POST_CALL_GAS_RESERVE
  <2> HIDE DEF gas
  <2>3. gas - gas \div 64 >= 0
    BY <2>2
  <2>4. ComputeUserCallGas(gas, 0) = 0
    BY <2>2, <2>3, SMT DEF ComputeUserCallGas, Least, POST_CALL_GAS_RESERVE
  <2>5. QED
    BY <1>1, <2>4 DEF gas
<1>2. CASE t > 0
  <2> DEFINE up == (t * 64 + 62) \div 63
             gas == up + MIN_BATCH_TX_GAS_HEADROOM - o
  <2>1. up \in Nat /\ 63 * up >= 64 * t
    OBVIOUS
  <2>2. gas \in Nat /\ gas >= up + POST_CALL_GAS_RESERVE /\ up > 0
    <3> HIDE DEF up
    <3>1. QED
      BY <1>0, <1>2, <2>1, SMT DEF MIN_BATCH_TX_GAS_HEADROOM, POST_CALL_GAS_RESERVE
  <2>3. gas > POST_CALL_GAS_RESERVE /\ gas - POST_CALL_GAS_RESERVE >= t
    BY <2>1, <2>2, SMT DEF POST_CALL_GAS_RESERVE
  <2>4. gas - gas \div 64 >= t
    <3>1. 63 * gas >= 64 * t
      BY <2>1, <2>2, SMT DEF POST_CALL_GAS_RESERVE
    <3> HIDE DEF gas, up
    <3>2. 64 * (gas \div 64) <= gas /\ gas \div 64 \in Nat
      BY <2>2
    <3>3. QED
      BY <2>2, <3>1, <3>2
  <2>5. MinBatchTxGasForInnerStipend(t) - o = gas
    BY <1>2, <2>1, SMT DEF MinBatchTxGasForInnerStipend, MIN_BATCH_TX_GAS_HEADROOM
  <2> HIDE DEF gas
  <2>6. ComputeUserCallGas(gas, t) = t
    BY <2>2, <2>3, <2>4, SMT DEF ComputeUserCallGas, Least, POST_CALL_GAS_RESERVE
  <2>7. QED
    BY <1>2, <2>5, <2>6
<1>3. QED
  BY <1>1, <1>2

\* Every transaction of every relay leaves its request all its prepaid gas.
THEOREM StipendIsFull == Spec => []FullStipend
<1>1. RelayTypeOK => FullStipend
  <2> SUFFICES ASSUME RelayTypeOK, NEW r \in Relay, NEW i \in DOMAIN pending[r],
                      NEW o \in Overhead
      PROVE  ComputeUserCallGas(BatchGasForMinedRequest(pending[r][i]) - o,
                                TargetFee[pending[r][i]]) = TargetFee[pending[r][i]]
    BY DEF FullStipend
  <2>1. pending[r] \in Seq(1 .. Len(sent[SourceOf[r]])) /\ SourceOf[r] \in Chain
    BY Chains DEF RelayTypeOK
  <2>2. pending[r][i] \in 1 .. Len(sent[SourceOf[r]])
    BY <2>1
  <2>3. Len(sent[SourceOf[r]]) \in Nat /\ Len(sent[SourceOf[r]]) <= MaxSent[SourceOf[r]]
    BY <2>1 DEF RelayTypeOK
  <2>4. MaxSent[SourceOf[r]] \in Nat /\ MaxSent[SourceOf[r]] <= Len(TargetFee)
        /\ TargetFee \in Seq(Nat)
    BY <2>1, RelayAssumption
  <2>5. pending[r][i] \in DOMAIN TargetFee
    BY <2>2, <2>3, <2>4
  <2>6. TargetFee[pending[r][i]] \in Nat
    BY <2>4, <2>5
  <2>7. o \in Nat /\ o <= MIN_BATCH_TX_GAS_HEADROOM - POST_CALL_GAS_RESERVE
    <3>1. o \in 0 .. (MIN_BATCH_TX_GAS_HEADROOM - POST_CALL_GAS_RESERVE)
      BY RelayAssumption
    <3>2. MIN_BATCH_TX_GAS_HEADROOM \in Int /\ POST_CALL_GAS_RESERVE \in Int
      BY SMT DEF MIN_BATCH_TX_GAS_HEADROOM, POST_CALL_GAS_RESERVE
    <3>3. QED
      BY <3>1, <3>2
  <2>8. QED
    BY <2>6, <2>7, StipendFits DEF BatchGasForMinedRequest
<1>2. QED
  BY <1>1, RelayTypeCorrect, PTL

=============================================================================
