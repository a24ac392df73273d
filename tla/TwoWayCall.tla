----------------------------- MODULE TwoWayCall -----------------------------
(***************************************************************************)
(* What the inboxes of all chains promise about calls, without saying how: *)
(* a call is sent, run once with success or given up, and, if it asks for  *)
(* an answer, answered at most once by a new call, whose delivery is the   *)
(* moment the answered call returns.                                       *)
(*                                                                         *)
(* A transaction moves several calls at once, each by one of the steps     *)
(* below: a batch runs a queue of calls, and their answers are sent with   *)
(* it.                                                                     *)
(***************************************************************************)
CONSTANTS
  Call,       \* every call that may ever be made, answers included
  NoAnswer

VARIABLES
  status,     \* "unsent", "sent", "failed", "done", "closed", "answered",
              \* "returned"
  asks,       \* the calls that ask for an answer
  answer      \* the call that answers a call, or NoAnswer

vars == <<status, asks, answer>>

Init ==
  /\ status = [i \in Call |-> "unsent"]
  /\ asks = {}
  /\ answer = [i \in Call |-> NoAnswer]

Keeps(i) == answer'[i] = answer[i] /\ (i \in asks' <=> i \in asks)

Delivered(i) == status[i] = "sent" /\ status'[i] # "sent"

\* The delivery of its answer leaves no answered call as it is.
Stay(i) ==
  /\ status'[i] = status[i]
  /\ status[i] = "answered" => ~ Delivered(answer[i])
  /\ Keeps(i)

Send(i) ==
  /\ status[i] = "unsent"
  /\ status'[i] = "sent"
  /\ answer'[i] = answer[i]

\* The target fails, and may be run again, or is done.
Run(i) ==
  /\ status[i] \in {"sent", "failed"}
  /\ status'[i] \in {"failed", "done"} \ {status[i]}
  /\ Keeps(i)

\* The inbox gives a call up; one that asks for an answer gets one instead.
GiveUp(i) ==
  /\ status[i] \in {"sent", "failed"}
  /\ i \notin asks
  /\ status'[i] = "closed"
  /\ Keeps(i)

\* The answer is a new call, asks nothing itself, and answers nothing else.
Answer(i) ==
  /\ status[i] \in {"sent", "failed"}
  /\ i \in asks
  /\ status'[i] = "answered"
  /\ answer'[i] \in Call \ asks'
  /\ status[answer'[i]] = "unsent" /\ status'[answer'[i]] = "sent"
  /\ \A j \in Call \ {i} : answer'[j] # answer'[i]
  /\ i \in asks'

Return(i) ==
  /\ status[i] = "answered"
  /\ Delivered(answer[i])
  /\ status'[i] = "returned"
  /\ Keeps(i)

Next ==
  \A i \in Call :
    Stay(i) \/ Send(i) \/ Run(i) \/ GiveUp(i) \/ Answer(i) \/ Return(i)

Spec == Init /\ [][Next]_vars

=============================================================================
