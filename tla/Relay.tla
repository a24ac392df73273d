------------------------------- MODULE Relay -------------------------------
(***************************************************************************)
(* RelayHelper: scripts that carry requests from the inbox of one chain to *)
(* the inbox of the other.  Every await of a script is a step of its own,  *)
(* so relays that serve one lane race each other, the targets' answers and *)
(* the owners' pauses; a transaction outlives the script that sent it.     *)
(*                                                                         *)
(* A request is its nonce on its lane.  Module Inbox has the inboxes in    *)
(* full; here they keep what a relay reads and what makes a batch revert.  *)
(***************************************************************************)
EXTENDS Integers, Sequences

CONSTANTS
  Relay,       \* relay scripts
  SourceOf,    \* the chain each relay reads requests from
  Users,       \* chains with users who send requests; the others answer
  TargetFee,   \* prepaid gas of the n-th request of a lane
  Overhead,    \* gas a batch spends outside the target's call
  From,        \* where callers let a window start
  Length,      \* and how long it may be; 0 is "to the end"
  MaxSent,     \* bound: requests of each chain
  MaxPending,  \* bound: transactions of one relay in flight
  MaxFaults    \* bound: crashes and pauses

Chain == {1, 2}
Other(c) == 3 - c

POST_CALL_GAS_RESERVE == 200000
DEFAULT_MINED_TARGET_EXECUTION_GAS == 2500000
MIN_BATCH_TX_GAS_HEADROOM == 4000000

ASSUME RelayAssumption ==
  /\ SourceOf \in [Relay -> Chain]
  /\ Users \subseteq Chain
  /\ TargetFee \in Seq(Nat)
  /\ \A c \in Chain : MaxSent[c] <= Len(TargetFee)
  /\ Overhead \subseteq 0 .. (MIN_BATCH_TX_GAS_HEADROOM - POST_CALL_GAS_RESERVE)
  /\ From \subseteq Nat
  /\ Length \subseteq Nat
  /\ MaxSent \in [Chain -> Nat]
  /\ MaxPending \in Nat
  /\ MaxFaults \in Nat

VARIABLES
  sent,      \* requests of a chain to the other one, by nonce
  executed,  \* own requests whose answer has come
  latest,    \* nonce in lastIncomingRequestId, 0 if none
  paused,    \* chains whose inbox is paused
  relay,     \* the call each relay is in
  pending,   \* nonces of its transactions in flight, oldest first
  faults     \* crashes and pauses so far

chainVars == <<sent, executed, latest, paused>>
vars == <<sent, executed, latest, paused, relay, pending, faults>>

TargetOf(r) == Other(SourceOf[r])

NotAnswer == 0

Item == [fits : BOOLEAN, answers : Nat]

Call ==
  [pc : {"idle", "counted", "listed", "selecting", "submitting", "waiting"},
   mode : {"mine", "all"}, from : Nat, upto : Nat, todo : SUBSET Nat,
   latestMinedNonce : Nat, missed : BOOLEAN]

Idle == [pc |-> "idle", mode |-> "mine", from |-> 0, upto |-> 0, todo |-> {},
         latestMinedNonce |-> 0, missed |-> FALSE]

Init ==
  /\ sent = [c \in Chain |-> <<>>]
  /\ executed = [c \in Chain |-> {}]
  /\ latest = [c \in Chain |-> 0]
  /\ paused = {}
  /\ relay = [r \in Relay |-> Idle]
  /\ pending = [r \in Relay |-> <<>>]
  /\ faults = 0

-----------------------------------------------------------------------------
(* The inboxes.                                                            *)

\* Nobody checks that a request fits the caps the other chain has by now.
Send(c, fits) ==
  /\ c \in Users
  /\ Len(sent[c]) < MaxSent[c]
  /\ c \notin paused
  /\ sent' = [sent EXCEPT ![c] = Append(@, [fits |-> fits, answers |-> NotAnswer])]
  /\ UNCHANGED <<executed, latest, paused, relay, pending, faults>>

Answered(c) == {sent[c][i].answers : i \in DOMAIN sent[c]}

\* A target answers while it runs, when it is run again, or never.
Answer(c, n, fits) ==
  /\ Len(sent[c]) < MaxSent[c]
  /\ c \notin paused
  /\ n \in 1 .. latest[c]
  /\ sent[Other(c)][n].answers = NotAnswer
  /\ n \notin Answered(c)
  /\ sent' = [sent EXCEPT ![c] = Append(@, [fits |-> fits, answers |-> n])]
  /\ UNCHANGED <<executed, latest, paused, relay, pending, faults>>

\* Whether c takes request n of the other chain.
Accepts(c, n) ==
  /\ c \notin paused
  /\ n = latest[c] + 1
  /\ sent[Other(c)][n].fits

\* An ingested answer marks the request it answers.
BatchProcessRequests(c, n) ==
  /\ latest' = [latest EXCEPT ![c] = n]
  /\ executed' = [executed EXCEPT ![c] = @ \cup ({sent[Other(c)][n].answers} \ {NotAnswer})]

\* Another miner of c takes the next request.
MinedElsewhere(c) ==
  LET n == latest[c] + 1
  IN  /\ n <= Len(sent[Other(c)])
      /\ Accepts(c, n)
      /\ BatchProcessRequests(c, n)
      /\ UNCHANGED <<sent, paused, relay, pending, faults>>

SetPaused(c) ==
  /\ c \notin paused
  /\ faults < MaxFaults
  /\ paused' = paused \cup {c}
  /\ faults' = faults + 1
  /\ UNCHANGED <<sent, executed, latest, relay, pending>>

SetUnpaused(c) ==
  /\ c \in paused
  /\ paused' = paused \ {c}
  /\ UNCHANGED <<sent, executed, latest, relay, pending, faults>>

-----------------------------------------------------------------------------
(* Gas of a batch of one request, and what its call gets of it.            *)

\* Mutant: the target's gas without the 64th the call holds back.
MinBatchTxGasFlat(targetFee) ==
  IF targetFee = 0 THEN 0 ELSE targetFee + POST_CALL_GAS_RESERVE

MinBatchTxGasForInnerStipend(targetFee) ==
  IF targetFee = 0 THEN 0
  ELSE (targetFee * 64 + 62) \div 63 + MIN_BATCH_TX_GAS_HEADROOM

BatchGasForMinedRequest(n) ==
  MinBatchTxGasForInnerStipend(
    IF TargetFee[n] > 0 THEN TargetFee[n] ELSE DEFAULT_MINED_TARGET_EXECUTION_GAS)

Least(a, b) == IF a < b THEN a ELSE b

\* The inbox keeps a reserve, the machine a 64th; nobody gives more than budget.
ComputeUserCallGas(gasLeft, budget) ==
  Least(Least(IF gasLeft > POST_CALL_GAS_RESERVE
              THEN gasLeft - POST_CALL_GAS_RESERVE ELSE gasLeft, budget),
        gasLeft - gasLeft \div 64)

-----------------------------------------------------------------------------
(* A call of mineFromAToB (mode "mine") or relayAllPendingMessages ("all"). *)

At(r, pc) == relay[r].pc = pc
Becomes(r, call) == relay' = [relay EXCEPT ![r] = call]
Mining(r) == relay[r].mode = "mine"

\* Mutant: a length past the end is taken as it is.
TakeUnclipped(len, remaining) == IF len = 0 THEN remaining ELSE len

Take(len, remaining) == IF len = 0 \/ len > remaining THEN remaining ELSE len

\* getRequestsLen; a window past the end ends the call at once.
CountRequests(r, mode, from, len) ==
  LET remaining == Len(sent[SourceOf[r]]) - from
  IN  /\ At(r, "idle")
      /\ remaining > 0
      /\ Becomes(r, [Idle EXCEPT !.pc = "counted", !.mode = mode, !.from = from,
                                 !.upto = from + Take(len, remaining)])
      /\ UNCHANGED <<sent, executed, latest, paused, pending, faults>>

Window(r) == relay[r].from + 1 .. relay[r].upto

\* getRequests; mining skips what the source marks as executed.
GetRequests(r) ==
  /\ At(r, "counted")
  /\ IF Mining(r)
     THEN Becomes(r, [relay[r] EXCEPT !.pc = "listed",
                                      !.todo = Window(r) \ executed[SourceOf[r]]])
     ELSE Becomes(r, [relay[r] EXCEPT !.pc = "submitting", !.todo = Window(r)])
  /\ UNCHANGED <<sent, executed, latest, paused, pending, faults>>

\* lastIncomingRequestId, read after the requests.
GetLatestMinedNonce(r) ==
  /\ At(r, "listed")
  /\ Becomes(r, [relay[r] EXCEPT !.pc = "selecting",
                                 !.latestMinedNonce = latest[TargetOf(r)]])
  /\ UNCHANGED <<sent, executed, latest, paused, pending, faults>>

\* Mutant: the latest mined nonce counted as a number of requests still open.
UnminedOffByOne(r) ==
  {n \in relay[r].todo : n > relay[r].latestMinedNonce + 1}

Unmined(r) == {n \in relay[r].todo : n > relay[r].latestMinedNonce}

\* Each request is looked up on the target; a lookup may fail to decode.
SelectMined(r) ==
  /\ At(r, "selecting")
  /\ \E skipped \in SUBSET (Unmined(r) \cap 1 .. latest[TargetOf(r)]) :
       Becomes(r, [relay[r] EXCEPT !.pc = "submitting", !.todo = Unmined(r) \ skipped])
  /\ UNCHANGED <<sent, executed, latest, paused, pending, faults>>

\* Mutant: the last request first.
NewestFirst(S) == {n \in S : \A m \in S : m <= n}

\* Requests go out in the order of their nonces.
NextToSubmit(S) == {n \in S : \A m \in S : n <= m}

\* One transaction per request; only mining waits for it.
Submit(r) ==
  /\ At(r, "submitting")
  /\ Len(pending[r]) < MaxPending
  /\ \E n \in NextToSubmit(relay[r].todo) :
       /\ pending' = [pending EXCEPT ![r] = Append(@, n)]
       /\ Becomes(r, [relay[r] EXCEPT !.pc = IF Mining(r) THEN "waiting" ELSE @,
                                      !.todo = @ \ {n}])
  /\ UNCHANGED <<sent, executed, latest, paused, faults>>

\* A node that runs the transaction first refuses one that would revert.
SubmitRefused(r) ==
  /\ At(r, "submitting")
  /\ \E n \in NextToSubmit(relay[r].todo) : ~Accepts(TargetOf(r), n)
  /\ Becomes(r, Idle)
  /\ UNCHANGED <<sent, executed, latest, paused, pending, faults>>

\* The call waits for its last transaction and does not look at its status.
Received(r, missed) ==
  IF At(r, "waiting") /\ Len(pending[r]) = 1
  THEN Becomes(r, [relay[r] EXCEPT !.pc = "submitting", !.missed = @ \/ missed])
  ELSE UNCHANGED relay

\* The oldest transaction of r is mined, and does its work or reverts.
Land(r) ==
  LET c == TargetOf(r)
      n == Head(pending[r])
  IN  /\ pending[r] # <<>>
      /\ pending' = [pending EXCEPT ![r] = Tail(@)]
      /\ \/ /\ Accepts(c, n)
            /\ BatchProcessRequests(c, n)
            /\ Received(r, FALSE)
         \/ /\ ~Accepts(c, n)
            /\ Received(r, n > latest[c])
            /\ UNCHANGED <<executed, latest>>
      /\ UNCHANGED <<sent, paused, faults>>

Return(r) ==
  /\ At(r, "submitting")
  /\ relay[r].todo = {}
  /\ Becomes(r, Idle)
  /\ UNCHANGED <<sent, executed, latest, paused, pending, faults>>

\* The script is killed or its node fails: the call is gone, not its transactions.
Crash(r) ==
  /\ ~At(r, "idle")
  /\ faults < MaxFaults
  /\ Becomes(r, Idle)
  /\ faults' = faults + 1
  /\ UNCHANGED <<sent, executed, latest, paused, pending>>

-----------------------------------------------------------------------------
Work(r) ==
  \/ GetRequests(r) \/ GetLatestMinedNonce(r) \/ SelectMined(r)
  \/ Submit(r) \/ SubmitRefused(r) \/ Return(r)

Next ==
  \/ \E c \in Chain, fits \in BOOLEAN : Send(c, fits)
  \/ \E c \in Chain, fits \in BOOLEAN, n \in 1 .. Len(TargetFee) : Answer(c, n, fits)
  \/ \E c \in Chain : MinedElsewhere(c) \/ SetPaused(c) \/ SetUnpaused(c)
  \/ \E r \in Relay, mode \in {"mine", "all"}, from \in From, len \in Length :
       CountRequests(r, mode, from, len)
  \/ \E r \in Relay : Work(r) \/ Land(r) \/ Crash(r)

Spec == Init /\ [][Next]_vars

\* Every relay keeps polling its lane from the start, every transaction is
\* mined or reverts, and an owner ends a pause.
FairSpec ==
  /\ Spec
  /\ \A r \in Relay :
       /\ WF_vars(Work(r))
       /\ WF_vars(Land(r))
       /\ SF_vars(CountRequests(r, "mine", 0, 0))
  /\ \A c \in Chain : WF_vars(SetUnpaused(c))

-----------------------------------------------------------------------------
(* Types; windows and transactions are about requests that were sent.      *)
RelayTypeOK ==
  /\ sent \in [Chain -> Seq(Item)]
  /\ executed \in [Chain -> SUBSET Nat]
  /\ latest \in [Chain -> Nat]
  /\ paused \subseteq Chain
  /\ relay \in [Relay -> Call]
  /\ pending \in [Relay -> Seq(Nat)]
  /\ faults \in 0 .. MaxFaults
  /\ \A c \in Chain : Len(sent[c]) <= MaxSent[c] /\ latest[c] <= Len(sent[Other(c)])
  /\ \A r \in Relay :
       /\ relay[r].upto <= Len(sent[SourceOf[r]])
       /\ relay[r].todo \subseteq Window(r)
       /\ pending[r] \in Seq(1 .. Len(sent[SourceOf[r]]))

\* A mining call that looked at the target, in a window that starts no later
\* than the target's next request, and with no revert it failed to notice.
Sound(r) ==
  /\ Mining(r)
  /\ relay[r].pc \in {"submitting", "waiting"}
  /\ relay[r].from <= relay[r].latestMinedNonce
  /\ ~relay[r].missed

AwaitedNonces(r) == IF At(r, "waiting") THEN {pending[r][Len(pending[r])]} ELSE {}

\* mineFromAToB skips a request only if the target has it, by this relay or by
\* another: its three filters look at two chains at three different times.  So
\* when it returns, every request of its window is on the target.
NothingSkipped ==
  \A r \in Relay : Sound(r) =>
    1 .. relay[r].upto \subseteq
      1 .. latest[TargetOf(r)] \cup relay[r].todo \cup AwaitedNonces(r)

\* What such a call sends is never ahead of the target's next nonce: the target
\* may have taken it from another relay, but it never meets a gap.
NoGapSubmitted ==
  \A r \in Relay : Sound(r) =>
    \A n \in AwaitedNonces(r) : n <= latest[TargetOf(r)] + 1

\* The gas of every transaction leaves the target's call all the request has
\* prepaid, past the reserve of the inbox and the 64th the machine keeps.
FullStipend ==
  \A r \in Relay : \A i \in DOMAIN pending[r] : \A o \in Overhead :
    ComputeUserCallGas(BatchGasForMinedRequest(pending[r][i]) - o,
                       TargetFee[pending[r][i]]) = TargetFee[pending[r][i]]

Fits(c, n) == \A i \in 1 .. n : sent[c][i].fits

\* With a polling relay on its lane, a request arrives unless one before it
\* does not fit the target's caps, however many relays race on the lane.
FitRequestsArrive ==
  \A r \in Relay : LET c == SourceOf[r] IN
    \A n \in 1 .. MaxSent[c] :
      n <= Len(sent[c]) /\ Fits(c, n) ~> latest[Other(c)] >= n

=============================================================================
