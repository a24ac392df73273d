------------------------------ MODULE MCInbox ------------------------------
(* Chains for TLC: A is an application's chain, B mostly the MPC chain.    *)
EXTENDS InboxCalls

CONSTANTS A, B, app

Cap1 == [bytes |-> 1, gas |-> 1]

MCInitConfig ==
  [c \in Chain |-> [paused |-> FALSE, local |-> Cap1, remote |-> Cap1,
                    maxReply |-> 1, life |-> 1]]

MCFeeCaps == {Cap1}

\* Caps for payloads and budgets of one or two units, both unit and mixed.
Cap2 == [bytes |-> 2, gas |-> 2]

MCWideConfig ==
  [c \in Chain |-> [paused |-> FALSE, local |-> Cap2, remote |-> Cap2,
                    maxReply |-> 2, life |-> 0]]

MCRetunedCaps == {Cap1, Cap2}

\* A sends twice to B, B only answers.
MCOneLane ==
  [c \in Chain |-> [d \in Chain |-> IF c = A /\ d = B THEN 2 ELSE 0]]

\* One message from A to B.
MCOne ==
  [c \in Chain |-> [d \in Chain |-> IF c = A /\ d = B THEN 1 ELSE 0]]

\* A sends once to every other chain, and B, where targets send too, to A: a
\* send of B competes with its answers for nonces.
MCLanes ==
  [c \in Chain |-> [d \in Chain |->
     IF (c = A /\ d # A) \/ (c = B /\ d = A) THEN 1 ELSE 0]]

\* The clock of B, where calls fail, moves; the clock of A does not.
MCNoTime == [c \in Chain |-> 0]
MCTimeOnB == [c \in Chain |-> IF c = B THEN 2 ELSE 0]

\* Caps that hold two units of gas, or one.
MCGasCaps == {[bytes |-> 1, gas |-> g] : g \in {1, 2}}

MCGasConfig ==
  [c \in Chain |-> [paused |-> FALSE, local |-> [bytes |-> 1, gas |-> 2],
                    remote |-> [bytes |-> 1, gas |-> 2], maxReply |-> 1, life |-> 1]]

\* An application call is one of app to app: one unit of gas for the call, two
\* for the answer, and only A and B are asked for one.
OneApplication(st) ==
  \A id \in DOMAIN st.requests :
    LET request == st.requests[id] IN
    request.sourceRequest = NoId =>
      /\ request.sender = app /\ request.targetContract = app
      /\ request.targetFee = 1
      /\ request.callerFee = IF request.twoWay THEN 2 ELSE 0
      /\ request.twoWay => Target(id) \in {A, B}

\* Bounds of the three lanes: the owner of B retunes its cap for answers, other
\* contracts only try to answer, and nobody pauses.  A pause only disables
\* steps: whatever an inbox stores can also be reached without one.
LaneBounds ==
  /\ \A c \in Chain :
       /\ ~ config[c].paused
       /\ config[c].local = InitConfig[c].local
       /\ c # B => config[c].remote = InitConfig[c].remote
       /\ OneApplication(store[c])
  /\ tx # NoTx => OneApplication(tx.inner)

=============================================================================
