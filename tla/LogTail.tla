------------------------------- MODULE LogTail -------------------------------
(***************************************************************************)
(* What a change-feed tailer promises, whatever it does with the events.   *)
(*                                                                         *)
(* Each table has a feed of numbered events of which only the last         *)
(* RingCap can still be read.  The tailer keeps a position per table and a *)
(* durable acknowledgement per table.  Delivery is in order and AT LEAST   *)
(* once: a restart may rewind the position, but only down to what is       *)
(* durable, and nothing at or below the position was left undelivered      *)
(* unless the ring dropped it first.                                       *)
(*                                                                         *)
(* Replicator implements this module (Replicator!Feed).                    *)
(***************************************************************************)
EXTENDS Integers

CONSTANTS Tables,    \* the tables being tailed
          RingCap    \* how many events of a table can still be read

VARIABLES head,      \* head[t]: events of t ever published
          at,        \* at[t]: events of t consumed or skipped so far
          ack,       \* ack[t]: the durable position of t
          seen,      \* seen[t]: the events of t delivered at least once
          missed     \* missed[t]: the events of t the ring dropped unread

vars == <<head, at, ack, seen, missed>>

Init ==
  /\ head \in [Tables -> Nat]
  /\ at     = [t \in Tables |-> 0]
  /\ ack    = [t \in Tables |-> 0]
  /\ seen   = [t \in Tables |-> {}]
  /\ missed = [t \in Tables |-> {}]

\* The primary records one more event.
Publish(t) ==
  /\ head' = [head EXCEPT ![t] = @ + 1]
  /\ UNCHANGED <<at, ack, seen, missed>>

\* The next event is delivered; no event is ever delivered out of turn.
Deliver(t) ==
  /\ at[t] < head[t]
  /\ at'   = [at EXCEPT ![t] = @ + 1]
  /\ seen' = [seen EXCEPT ![t] = @ \cup {at[t] + 1}]
  /\ UNCHANGED <<head, ack, missed>>

\* A reader that fell behind by more than the ring jumps to its oldest event.
Overrun(t) ==
  /\ head[t] - at[t] > RingCap
  /\ at'     = [at EXCEPT ![t] = head[t] - RingCap]
  /\ missed' = [missed EXCEPT ![t] = @ \cup (at[t] + 1 .. head[t] - RingCap)]
  /\ UNCHANGED <<head, ack, seen>>

\* The durable position moves, never past what was consumed.  It may also move
\* back: a checkpoint file that is lost or torn acknowledges nothing.
Acknowledge ==
  /\ ack' \in [Tables -> Nat]
  /\ \A t \in Tables : ack'[t] <= at[t]
  /\ UNCHANGED <<head, at, seen, missed>>

\* An aborted batch or a restart moves positions back, never below what is
\* durable and never forward.
Rewind ==
  /\ at' \in [Tables -> Nat]
  /\ \A t \in Tables : ack[t] <= at'[t] /\ at'[t] <= at[t]
  /\ UNCHANGED <<head, ack, seen, missed>>

Next ==
  \/ \E t \in Tables : Publish(t) \/ Deliver(t) \/ Overrun(t)
  \/ Acknowledge
  \/ Rewind

Spec == Init /\ [][Next]_vars
=============================================================================
