--------------------------------- MODULE Rpc ---------------------------------
(***************************************************************************)
(* What a pipelined request/response channel promises its caller: calls    *)
(* settle in the order they were made, each at most once, a call that      *)
(* succeeds got the answers to its own commands, in order, and when the    *)
(* connection fails every call still waiting fails with it.                *)
(*                                                                         *)
(* JsTransport and PyClient implement this module (their Channel).         *)
(***************************************************************************)
EXTENDS Naturals, Sequences

CONSTANTS Requests,      \* 1 .. n, in the order they are made
          BatchSizes     \* how many commands a request may hold

VARIABLES status,        \* status[r]: idle, pending, resolved or rejected
          answers,       \* answers[r]: what r resolved with
          size           \* size[r]: the commands of r

vars == <<status, answers, size>>

Settled(r) == status[r] \in {"resolved", "rejected"}
Pending    == {r \in Requests : status[r] = "pending"}

Init ==
  /\ status  = [r \in Requests |-> "idle"]
  /\ answers = [r \in Requests |-> <<>>]
  /\ size    = [r \in Requests |-> 0]

\* The next request is made; without a connection it fails at once.
Issue(r) ==
  /\ status[r] = "idle"
  /\ \A q \in 1 .. r - 1 : status[q] # "idle"
  /\ \E s \in {"pending", "rejected"} : status' = [status EXCEPT ![r] = s]
  /\ \E n \in BatchSizes : size' = [size EXCEPT ![r] = n]
  /\ UNCHANGED answers

\* The oldest waiting request resolves, with the answers to its own commands.
Resolve(r) ==
  /\ status[r] = "pending"
  /\ \A q \in Pending : r <= q
  /\ status'  = [status EXCEPT ![r] = "resolved"]
  /\ answers' = [answers EXCEPT ![r] = [i \in 1 .. size[r] |-> <<r, i>>]]
  /\ UNCHANGED size

\* The connection failed: nobody is left waiting.
FailAll ==
  /\ status' = [r \in Requests |-> IF r \in Pending THEN "rejected" ELSE status[r]]
  /\ UNCHANGED <<answers, size>>

Next ==
  \/ \E r \in Requests : Issue(r) \/ Resolve(r)
  \/ FailAll

Spec == Init /\ [][Next]_vars
=============================================================================
