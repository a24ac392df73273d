----------------------------- MODULE InboxCalls -----------------------------
(***************************************************************************)
(* The inboxes implement TwoWayCall: what has become of a call is read off *)
(* the committed storage of the two inboxes it concerns.                   *)
(***************************************************************************)
EXTENDS InboxProperties

CallId == {id \in Chain \X Chain \X (1 .. MaxNonce) : Source(id) # Target(id)}

Logged(id) == id \in DOMAIN store[Source(id)].requests
Arrived(id) == id \in DOMAIN store[Target(id)].incoming
Marked(id) == store[Source(id)].requests[id].executed
Answered(id) == id \in DOMAIN store[Target(id)].responses
GivenUp(id) == id \in DOMAIN store[Target(id)].errors
Retriable(id) == GivenUp(id) /\ store[Target(id)].errors[id] = ExecutionFailed

CallStatus(id) ==
  IF ~ Logged(id) THEN "unsent"
  ELSE IF ~ Arrived(id) THEN "sent"
  ELSE IF Marked(id) THEN "returned"
  ELSE IF Answered(id) THEN "answered"
  ELSE IF Retriable(id) THEN "failed"
  ELSE IF GivenUp(id) THEN "closed"
  ELSE "done"

Calls == INSTANCE TwoWayCall WITH
  Call <- CallId,
  NoAnswer <- NoId,
  status <- [id \in CallId |-> CallStatus(id)],
  asks <- {id \in CallId : Logged(id) /\ store[Source(id)].requests[id].twoWay},
  answer <- [id \in CallId |-> IF Answered(id) THEN store[Target(id)].responses[id]
                               ELSE NoId]

\* Batches, rejections, encode failures, retries, expiry and answers in any
\* order amount to calls that are sent, run or given up once, answered at most
\* once, and returned with the delivery of their answer; a call that asked is
\* never given up without one, and a call that ended is never run again.
ImplementsCalls == Calls!Spec

=============================================================================
