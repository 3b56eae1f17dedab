-------------------------- MODULE ReplicatorProofs --------------------------
(***************************************************************************)
(* Theorems about Replicator for every number of tables and replicas,      *)
(* every workload, ring size and mix of failures, checked by TLAPS.        *)
(*                                                                         *)
(* IInv is the inductive invariant.  TypeOK alone is not inductive: that   *)
(* GET and the replayed INSERT stay well typed needs the batch to lie      *)
(* inside the feed (BatchInFeed), which needs the cursors to (Ordered);    *)
(* and that nothing at or below the checkpoint is lost needs the same of   *)
(* the cursors and of the batch, from which the checkpoint is written      *)
(* (Accounted).  GivenUpToRing is a fact of the external ring, carried for *)
(* the theorem on rings that hold every event.                             *)
(*                                                                         *)
(* Unrepeated adds to it, for a replicator that never crashed, that what   *)
(* was replayed stands below the cursor.  InStep adds what makes a replica *)
(* that caught up equal to its primary: at every event it has the rows the *)
(* primary had there, because nothing was missed or replayed twice.  The   *)
(* refinement of LogTail needs IInv alone.                                 *)
(***************************************************************************)
EXTENDS Replicator, SequenceTheorems, TLAPS

\* The events 1 .. n of table t were replayed, or had left the ring.
Covered(t, n) == 1 .. n \subseteq seen[t] \cup missed[t]

\* A batch lies inside the feed; an event is being applied only if the batch
\* still holds it, and an INSERT only with the row that GET returned.
BatchInFeed ==
  /\ pc \in {"event", "apply"} => /\ tab \in Tables
                                  /\ pos <= next /\ next <= Len(feed[tab])
                                  /\ cursors[tab] <= pos
  /\ pc = "apply" => /\ pos < next
                     /\ Current.op \in {"I", "D"}
                     /\ Current.op = "I" => row \in Row

\* The checkpoint never passes the cursors, nor the cursors the feed.
Ordered ==
  \A t \in Tables : /\ saved[t] <= Len(feed[t])
                    /\ cursors[t] <= Len(feed[t])
                    /\ pc # "down" => saved[t] <= cursors[t]

\* Everything at or below the checkpoint, the cursor, the batch is accounted for.
Accounted ==
  /\ \A t \in Tables : Covered(t, saved[t]) /\ Covered(t, cursors[t])
  /\ pc \in {"event", "apply"} => Covered(tab, pos)

\* What the model says of the ring: an event that LOG no longer returned was
\* overwritten by RingCap later ones.
GivenUpToRing ==
  \A t \in Tables : \A i \in missed[t] : i <= Len(feed[t]) - RingCap

IInv ==
  /\ TypeOK
  /\ BatchInFeed
  /\ Ordered
  /\ Accounted
  /\ GivenUpToRing

-----------------------------------------------------------------------------
(* Lemmas about the operators the model is built from.                     *)

\* A function on 1 .. n is a sequence of its values.
LEMMA FunctionIsSeq ==
  ASSUME NEW S, NEW n \in Nat, NEW f \in [1 .. n -> S]
  PROVE  f \in Seq(S) /\ Len(f) = n
OBVIOUS

\* The number of events before the first one LOG returns.
LEMMA LargerOfNat ==
  ASSUME NEW x \in Nat, NEW y \in Int
  PROVE  /\ LargerOf(x, y) \in Nat
         /\ x <= LargerOf(x, y) /\ y <= LargerOf(x, y)
         /\ LargerOf(x, y) = x \/ LargerOf(x, y) = y
BY DEF LargerOf

\* DELETE keeps a table a sequence of rows and adds none, whatever the row id.
LEMMA SwapDeleteSeq ==
  ASSUME NEW S, NEW s \in Seq(S), NEW id \in Nat
  PROVE  SwapDelete(s, id) \in Seq(S) /\ Len(SwapDelete(s, id)) <= Len(s)
<1>1. CASE id >= Len(s)
  BY <1>1, LenProperties DEF SwapDelete
<1>2. CASE id < Len(s)
  <2> DEFINE u == [s EXCEPT ![id + 1] = s[Len(s)]]
  <2>1. Len(s) \in Nat /\ Len(s) \in 1 .. Len(s) /\ id + 1 \in 1 .. Len(s)
    BY <1>2, LenProperties
  <2>2. s[Len(s)] \in S
    BY <2>1, ElementOfSeq
  <2>3. u \in Seq(S) /\ Len(u) = Len(s)
    BY <2>1, <2>2, ExceptSeq
  <2>4. \A i \in 1 .. Len(s) - 1 : u[i] \in S
    BY <2>1, <2>3, ElementOfSeq
  <2>5. SubSeq(u, 1, Len(s) - 1) \in Seq(S) /\ Len(SubSeq(u, 1, Len(s) - 1)) <= Len(s)
    BY <2>1, <2>4, SubSeqProperties
  <2>6. SwapDelete(s, id) = SubSeq(u, 1, Len(s) - 1)
    BY <1>2 DEF SwapDelete
  <2>7. QED
    BY <2>5, <2>6
<1>3. QED
  BY <1>1, <1>2, LenProperties

-----------------------------------------------------------------------------
(* The invariant holds initially.                                          *)

\* The replicator has not started.
LEMMA InitInv == Init => IInv
<1> SUFFICES ASSUME Init PROVE IInv
  OBVIOUS
<1> USE SizesAssumption, KindsAssumption
<1>1. Base \in Nat /\ Snapshot - Base \in Nat
  BY DEF Base
<1>2. PICK snap \in [Tables -> [1 .. Snapshot -> Row]] :
         rows = snap /\ copy = [r \in Replicas |-> snap]
  BY DEF Init
<1>3. snap \in [Tables -> Seq(Row)]
  BY <1>2, FunctionIsSeq
<1>4. \A t \in Tables : feed[t] \in Seq(Event) /\ Len(feed[t]) \in Nat
  BY <1>1, FunctionIsSeq DEF Init, Event
<1>5. /\ saved = Zero /\ cursors = Zero /\ pc = "down" /\ running = FALSE
      /\ starts = 0 /\ tab = 1 /\ pos = 0 /\ next = 0 /\ row = NoRow /\ rep = 1
      /\ seen = [t \in Tables |-> {}]
      /\ again = [t \in Tables |-> {}] /\ missed = [t \in Tables |-> {}]
  BY DEF Init
<1>6. TypeOK
  <2>1. rows \in [Tables -> Seq(Row)] /\ copy \in [Replicas -> [Tables -> Seq(Row)]]
    BY <1>2, <1>3
  <2>2. feed \in [Tables -> Seq(Event)]
    BY <1>4 DEF Init
  <2>3. Zero \in [Tables -> Nat] /\ 1 \in Replicas /\ 1 \in 1 .. NTables + 1
    BY DEF Zero, Replicas
  <2>4. QED
    BY <1>5, <2>1, <2>2, <2>3 DEF TypeOK, Stages
<1>7. BatchInFeed
  BY <1>5 DEF BatchInFeed
<1>8. Ordered
  BY <1>4, <1>5 DEF Ordered, Zero
<1>9. Accounted
  BY <1>5 DEF Accounted, Covered, Zero
<1>10. GivenUpToRing
  BY <1>5 DEF GivenUpToRing
<1>11. QED
  BY <1>6, <1>7, <1>8, <1>9, <1>10 DEF IInv

-----------------------------------------------------------------------------
(* Every step keeps the invariant: one lemma per group of actions.         *)

\* A write replaces one table by a sequence of rows and records one event.
LEMMA WriteEffect ==
  ASSUME TypeOK, NEW t \in Tables, Write(t)
  PROVE  \E e \in Event, u \in Seq(Row) : /\ rows' = [rows EXCEPT ![t] = u]
                                         /\ feed' = [feed EXCEPT ![t] = Append(@, e)]
<1>1. rows[t] \in Seq(Row) /\ Len(rows[t]) \in Nat
  BY LenProperties DEF TypeOK
<1>2. CASE \E v \in Row : rows' = [rows EXCEPT ![t] = Append(@, v)]
                         /\ Record(t, Len(rows[t]), "I")
  <2>1. PICK v \in Row : rows' = [rows EXCEPT ![t] = Append(@, v)]
                         /\ Record(t, Len(rows[t]), "I")
    BY <1>2
  <2>2. Append(rows[t], v) \in Seq(Row)
    BY <1>1, AppendProperties
  <2>3. [row |-> Len(rows[t]), op |-> "I"] \in Event
    BY <1>1 DEF Event
  <2>4. QED
    BY <2>1, <2>2, <2>3 DEF Record
<1>3. CASE \E id \in 0 .. Len(rows[t]) - 1 :
             rows' = [rows EXCEPT ![t] = SwapDelete(@, id)] /\ Record(t, id, "D")
  <2>1. PICK id \in 0 .. Len(rows[t]) - 1 :
             rows' = [rows EXCEPT ![t] = SwapDelete(@, id)] /\ Record(t, id, "D")
    BY <1>3
  <2>2. id \in Nat
    BY <1>1
  <2>3. SwapDelete(rows[t], id) \in Seq(Row)
    BY <1>1, <2>2, SwapDeleteSeq
  <2>4. [row |-> id, op |-> "D"] \in Event
    BY <2>2 DEF Event
  <2>5. QED
    BY <2>1, <2>3, <2>4 DEF Record
<1>4. CASE \E id \in 0 .. Len(rows[t]) - 1, v \in Row :
             rows' = [rows EXCEPT ![t][id + 1] = v] /\ Record(t, id, "U")
  <2>1. PICK id \in 0 .. Len(rows[t]) - 1, v \in Row :
             rows' = [rows EXCEPT ![t][id + 1] = v] /\ Record(t, id, "U")
    BY <1>4
  <2>2. id \in Nat /\ id + 1 \in 1 .. Len(rows[t])
    BY <1>1
  <2>3. [rows[t] EXCEPT ![id + 1] = v] \in Seq(Row)
    BY <1>1, <2>2, ExceptSeq
  <2>4. [row |-> id, op |-> "U"] \in Event
    BY <2>2 DEF Event
  <2>5. QED
    BY <2>1, <2>3, <2>4 DEF Record
<1>5. QED
  BY <1>2, <1>3, <1>4 DEF Write

\* The writers only append to the feeds, so whatever lies inside a feed stays
\* inside it, and the current event of a batch does not change.
LEMMA WriteInv ==
  ASSUME IInv, NEW t \in Tables, Write(t)
  PROVE  IInv'
<1> USE SizesAssumption DEF IInv
<1>1. /\ UNCHANGED <<copy, saved, process, batch, history>>
      /\ rows[t] \in Seq(Row) /\ feed[t] \in Seq(Event)
  BY DEF Write, TypeOK
<1>2. PICK e \in Event, u \in Seq(Row) : /\ rows' = [rows EXCEPT ![t] = u]
                                        /\ feed' = [feed EXCEPT ![t] = Append(@, e)]
  BY WriteEffect
<1>3. rows' \in [Tables -> Seq(Row)]
  BY <1>2 DEF TypeOK
<1>4. \A s \in Tables :
        /\ feed'[s] \in Seq(Event)
        /\ Len(feed[s]) \in Nat /\ Len(feed'[s]) \in Nat /\ Len(feed[s]) <= Len(feed'[s])
        /\ \A i \in 1 .. Len(feed[s]) : feed'[s][i] = feed[s][i]
  BY <1>1, <1>2, LenProperties, AppendProperties DEF TypeOK
<1>5. TypeOK'
  BY <1>1, <1>2, <1>3, <1>4 DEF TypeOK, process, batch, history
<1>6. BatchInFeed'
  <2>1. UNCHANGED <<pc, tab, pos, next, row, cursors>> /\ pos \in Nat /\ next \in Nat
    BY <1>1 DEF process, batch, TypeOK
  <2>2. CASE pc \notin {"event", "apply"}
    BY <2>1, <2>2 DEF BatchInFeed
  <2>3. CASE pc \in {"event", "apply"}
    <3>1. /\ tab \in Tables /\ pos <= next /\ next <= Len(feed[tab]) /\ cursors[tab] <= pos
      BY <2>3 DEF BatchInFeed
    <3>2. next' <= Len(feed'[tab'])
      BY <2>1, <3>1, <1>4
    <3>3. pos < next => Current' = Current
      BY <2>1, <3>1, <1>4, SMTT(30) DEF Current
    <3>4. QED
      BY <2>1, <2>3, <3>1, <3>2, <3>3 DEF BatchInFeed
  <2>4. QED
    BY <2>2, <2>3
<1>7. Ordered'
  BY <1>1, <1>4, SMTT(60) DEF Ordered, TypeOK, process, batch, history
<1>8. Accounted'
  BY <1>1 DEF Accounted, Covered, process, batch, history
<1>9. GivenUpToRing'
  BY <1>1, <1>4, SMTT(30) DEF GivenUpToRing, TypeOK, history
<1>10. QED
  BY <1>5, <1>6, <1>7, <1>8, <1>9

\* Steps outside a batch that touch neither the feeds, the copies nor the
\* history: it is enough that cursors and checkpoint stay in order.
LEMMA OutsideBatchInv ==
  ASSUME IInv, TypeOK',
         pc' \notin {"event", "apply"},
         UNCHANGED <<feed, history>>,
         saved' \in {saved, cursors, Zero} , cursors' \in {saved, cursors, Zero},
         pc' # "down" => \A t \in Tables : saved'[t] <= cursors'[t]
  PROVE  IInv'
<1> USE SizesAssumption DEF IInv
<1>1. \A t \in Tables : Len(feed[t]) \in Nat
  BY LenProperties DEF TypeOK
<1>2. \A t \in Tables : Zero[t] = 0 /\ Covered(t, 0)
  BY DEF Zero, Covered
<1>3. BatchInFeed'
  BY DEF BatchInFeed
<1>4. Ordered'
  <2>1. \A t \in Tables : /\ saved[t] \in Nat /\ cursors[t] \in Nat
                         /\ saved[t] <= Len(feed[t]) /\ cursors[t] <= Len(feed[t])
    BY DEF Ordered, TypeOK
  <2>2. \A t \in Tables : saved'[t] <= Len(feed'[t]) /\ cursors'[t] <= Len(feed'[t])
    BY <1>1, <1>2, <2>1
  <2>3. QED
    BY <2>2 DEF Ordered
<1>5. Accounted'
  <2>1. \A t \in Tables : Covered(t, saved'[t]) /\ Covered(t, cursors'[t])
    BY <1>2 DEF Accounted
  <2>2. QED
    BY <2>1 DEF Accounted, Covered, history
<1>6. GivenUpToRing'
  BY DEF GivenUpToRing, history
<1>7. QED
  BY <1>3, <1>4, <1>5, <1>6

\* The steps of the life of the process.
LEMMA LifeInv ==
  ASSUME IInv, Start \/ Stop \/ Loop \/ Kill
  PROVE  IInv'
<1> USE SizesAssumption
<1>1. IInv /\ TypeOK /\ Zero \in [Tables -> Nat] /\ 1 \in Replicas
      /\ 1 \in 1 .. NTables + 1 /\ \A t \in Tables : Zero[t] = 0
  BY DEF IInv, Zero, Replicas
<1>2. CASE Start
  <2>1. TypeOK'
    BY <1>1, <1>2 DEF Start, TypeOK, Stages, primary, batch, history
  <2>2. \A t \in Tables : saved'[t] <= cursors'[t]
    BY <1>1, <1>2 DEF Start, TypeOK
  <2>3. QED
    BY <1>2, <2>1, <2>2, OutsideBatchInv DEF Start, primary, history
<1>3. CASE Stop
  <2>1. TypeOK'
    BY <1>1, <1>3 DEF Stop, TypeOK, primary, batch, history
  <2>2. BatchInFeed' /\ Ordered' /\ Accounted' /\ GivenUpToRing'
    BY <1>1, <1>3 DEF Stop, IInv, BatchInFeed, Current, Ordered, Accounted, Covered,
                      GivenUpToRing, primary, batch, history
  <2>3. QED
    BY <2>1, <2>2 DEF IInv
<1>4. CASE Loop
  <2>1. TypeOK'
    BY <1>1, <1>4 DEF Loop, TypeOK, Stages, primary, history
  <2>2. \A t \in Tables : saved'[t] <= cursors'[t]
    BY <1>1, <1>4 DEF Loop, IInv, Ordered
  <2>3. QED
    BY <1>1, <1>4, <2>1, <2>2, OutsideBatchInv DEF Loop, primary, history
<1>5. CASE Kill
  <2>1. TypeOK'
    BY <1>1, <1>5 DEF Kill, GoDown, Forget, TypeOK, Stages, primary, history
  <2>2. QED
    BY <1>1, <1>5, <2>1, OutsideBatchInv DEF Kill, GoDown, Forget, primary, history
<1>6. QED
  BY <1>2, <1>3, <1>4, <1>5

\* After _save_checkpoint the process is back in its loop or gone.
LEMMA SavedEffect ==
  ASSUME TypeOK, Saved
  PROVE  /\ \/ pc' = "loop" /\ cursors' = cursors
            \/ pc' = "down" /\ cursors' = Zero
         /\ running' \in BOOLEAN /\ cursors' \in [Tables -> Nat]
         /\ tab' \in 1 .. NTables + 1 /\ rep' \in Replicas
         /\ pos' \in Nat /\ next' \in Nat /\ row' \in Row \cup {NoRow}
<1> USE SizesAssumption
<1>1. Zero \in [Tables -> Nat] /\ 1 \in Replicas /\ 1 \in 1 .. NTables + 1
  BY DEF Zero, Replicas
<1>2. CASE GoDown
  BY <1>1, <1>2 DEF GoDown, Forget
<1>3. CASE pc' = "loop" /\ UNCHANGED <<running, cursors, batch>>
  BY <1>3 DEF TypeOK, batch
<1>4. QED
  BY <1>2, <1>3 DEF Saved

\* Writing the checkpoint: what is written is the cursors, and a file that is
\* truncated or not written acknowledges less, never more.
LEMMA CheckpointInv ==
  ASSUME IInv, Checkpoint
  PROVE  IInv'
<1> USE SizesAssumption
<1>1. IInv /\ TypeOK /\ Zero \in [Tables -> Nat] /\ 1 \in Replicas
      /\ 1 \in 1 .. NTables + 1 /\ \A t \in Tables : Zero[t] = 0
  BY DEF IInv, Zero, Replicas
<1>2. ASSUME pc # "down" PROVE \A t \in Tables : saved[t] <= cursors[t]
  BY <1>1, <1>2 DEF IInv, Ordered
<1>3. CASE SkipCheckpoint
  <2>1. TypeOK'
    BY <1>1, <1>3 DEF SkipCheckpoint, TypeOK, Stages, primary, batch, history
  <2>2. QED
    BY <1>1, <1>2, <1>3, <2>1, OutsideBatchInv DEF SkipCheckpoint, primary, history
<1>4. CASE Truncate
  <2>1. TypeOK'
    BY <1>1, <1>4 DEF Truncate, TypeOK, Stages, primary, batch, history
  <2>2. \A t \in Tables : saved'[t] <= cursors'[t]
    BY <1>1, <1>4 DEF Truncate, TypeOK
  <2>3. QED
    BY <1>1, <1>4, <2>1, <2>2, OutsideBatchInv DEF Truncate, primary, history
<1>5. CASE WriteCheckpoint
  <2>1. TypeOK'
    BY <1>1, <1>5, SavedEffect DEF WriteCheckpoint, TypeOK, Stages, primary, history
  <2>2. pc' # "down" => \A t \in Tables : saved'[t] <= cursors'[t]
    BY <1>1, <1>5, SavedEffect DEF WriteCheckpoint, TypeOK
  <2>3. QED
    BY <1>1, <1>5, <2>1, <2>2, SavedEffect, OutsideBatchInv
       DEF WriteCheckpoint, primary, history
<1>6. CASE CheckpointFails
  <2>1. TypeOK'
    BY <1>1, <1>6, SavedEffect DEF CheckpointFails, TypeOK, Stages, primary, history
  <2>2. pc' # "down" => \A t \in Tables : saved'[t] <= cursors'[t]
    BY <1>1, <1>2, <1>6, SavedEffect DEF CheckpointFails, Saved
  <2>3. QED
    BY <1>1, <1>6, <2>1, <2>2, SavedEffect, OutsideBatchInv
       DEF CheckpointFails, primary, history
<1>7. QED
  BY <1>3, <1>4, <1>5, <1>6 DEF Checkpoint

\* An event replayed to the end: the batch moves on by one, and that one is seen.
LEMMA ReplayedInv ==
  ASSUME IInv, pc \in {"event", "apply"}, pos < next, Replayed,
         UNCHANGED <<feed, saved, cursors, tab, next, missed>>, TypeOK'
  PROVE  IInv'
<1> USE SizesAssumption DEF IInv
<1>1. /\ tab \in Tables /\ pos \in Nat /\ next \in Nat /\ next <= Len(feed[tab])
      /\ cursors[tab] \in Nat /\ cursors[tab] <= pos /\ pc' = "event" /\ pos' = pos + 1
  BY DEF BatchInFeed, TypeOK, Replayed
<1>2. \A t \in Tables : seen[t] \subseteq seen'[t]
  BY <1>1 DEF Replayed, TypeOK
<1>3. pos + 1 \in seen'[tab]
  BY <1>1 DEF Replayed, TypeOK
<1>4. BatchInFeed'
  BY <1>1 DEF BatchInFeed
<1>5. Ordered'
  BY <1>1 DEF Ordered
<1>6. Accounted'
  <2>1. \A t \in Tables : Covered(t, saved[t])' /\ Covered(t, cursors[t])'
    BY <1>2 DEF Accounted, Covered
  <2>2. 1 .. pos + 1 = (1 .. pos) \cup {pos + 1}
    BY <1>1
  <2>3. Covered(tab, pos)'
    BY <1>1, <1>2, <1>3, <2>2 DEF Accounted, Covered
  <2>4. QED
    BY <2>1, <2>3 DEF Accounted
<1>7. GivenUpToRing'
  BY DEF GivenUpToRing
<1>8. QED
  BY <1>4, <1>5, <1>6, <1>7

\* Replayed keeps the variables it sets well typed.
LEMMA ReplayedType ==
  ASSUME TypeOK, tab \in Tables, Replayed
  PROVE  /\ pos' \in Nat /\ row' \in Row \cup {NoRow} /\ rep' \in Replicas
         /\ pc' \in Stages
         /\ seen' \in [Tables -> SUBSET Nat] /\ again' \in [Tables -> SUBSET Nat]
<1>1. pos + 1 \in Nat /\ 1 \in Replicas
  BY SizesAssumption DEF TypeOK, Replicas
<1>2. {pos + 1} \in SUBSET Nat /\ ({pos + 1} \cap seen[tab]) \in SUBSET Nat
  BY <1>1
<1>3. QED
  BY <1>1, <1>2 DEF TypeOK, Replayed, Stages

\* LOG opens a batch at the first event the ring still has.
LEMMA LogInv ==
  ASSUME IInv, Log
  PROVE  IInv'
<1> USE SizesAssumption DEF IInv
<1> DEFINE n == Len(feed[tab])
<1>1. /\ tab \in Tables /\ n \in Nat /\ cursors[tab] \in Nat /\ cursors[tab] <= n
      /\ pc = "log" /\ pc' = "event" /\ next' = n
  BY LenProperties DEF Log, TypeOK, Ordered
<1>2. /\ pos' \in Nat /\ cursors[tab] <= pos' /\ pos' <= n
      /\ pos' = cursors[tab] \/ pos' = n - RingCap
  <2>1. n - RingCap \in Int /\ n - RingCap <= n
    BY <1>1
  <2>2. pos' = LargerOf(cursors[tab], n - RingCap)
    BY DEF Log, FirstKept
  <2>3. QED
    BY <1>1, <2>1, <2>2, LargerOfNat
<1>3. /\ UNCHANGED <<feed, saved, cursors, tab, seen>>
      /\ missed' = [missed EXCEPT ![tab] = @ \cup (cursors[tab] + 1 .. pos')]
  BY DEF Log, primary
<1>4. \A t \in Tables : missed[t] \subseteq missed'[t]
  BY <1>1, <1>3 DEF TypeOK
<1>5. TypeOK'
  <2>1. (cursors[tab] + 1 .. pos') \subseteq Nat
    BY <1>1, <1>2
  <2>2. missed' \in [Tables -> SUBSET Nat]
    BY <1>3, <2>1 DEF TypeOK
  <2>3. QED
    BY <1>1, <1>2, <2>2 DEF Log, TypeOK, Stages, primary
<1>6. BatchInFeed'
  BY <1>1, <1>2, <1>3 DEF BatchInFeed
<1>7. Ordered'
  BY <1>1, <1>3 DEF Ordered
<1>8. Accounted'
  <2>1. \A t \in Tables : Covered(t, saved[t])' /\ Covered(t, cursors[t])'
    BY <1>3, <1>4 DEF Accounted, Covered
  <2>2. 1 .. pos' = (1 .. cursors[tab]) \cup (cursors[tab] + 1 .. pos')
    BY <1>1, <1>2
  <2>3. Covered(tab, pos)'
    BY <1>1, <1>3, <2>1, <2>2 DEF Covered, TypeOK
  <2>4. QED
    BY <2>1, <2>3 DEF Accounted
<1>9. GivenUpToRing'
  <2>1. \A i \in cursors[tab] + 1 .. pos' : i <= n - RingCap
    BY <1>1, <1>2
  <2>2. QED
    BY <1>1, <1>3, <2>1 DEF GivenUpToRing, TypeOK
<1>10. QED
  BY <1>5, <1>6, <1>7, <1>8, <1>9

\* The end of a batch: the cursor takes over what the batch has accounted for.
LEMMA EndOfBatchInv ==
  ASSUME IInv, EndOfBatch
  PROVE  IInv'
<1> USE SizesAssumption DEF IInv
<1>1. /\ tab \in Tables /\ pos \in Nat /\ next = pos /\ pos <= Len(feed[tab])
      /\ cursors[tab] <= pos /\ pc = "event" /\ pc' = "log"
      /\ cursors' = [cursors EXCEPT ![tab] = pos]
      /\ tab' = tab + 1 /\ pos' = 0 /\ next' = 0
      /\ UNCHANGED <<primary, copy, saved, running, starts, row, rep, history>>
  BY DEF EndOfBatch, NextTable, BatchInFeed, TypeOK
<1>2. TypeOK'
  <2>1. tab + 1 \in 1 .. NTables + 1
    BY <1>1 DEF Tables
  <2>2. cursors' \in [Tables -> Nat]
    BY <1>1 DEF TypeOK
  <2>3. QED
    BY <1>1, <2>1, <2>2 DEF TypeOK, Stages, primary, history
<1>3. BatchInFeed'
  BY <1>1 DEF BatchInFeed
<1>4. Ordered'
  BY <1>1 DEF Ordered, TypeOK, primary
<1>5. Accounted'
  BY <1>1 DEF Accounted, Covered, TypeOK, history
<1>6. GivenUpToRing'
  BY <1>1 DEF GivenUpToRing, primary, history
<1>7. QED
  BY <1>2, <1>3, <1>4, <1>5, <1>6

\* What an event of the batch is, and that GET answers with a row.
LEMMA CurrentEvent ==
  ASSUME IInv, pc \in {"event", "apply"}, pos < next
  PROVE  /\ tab \in Tables /\ Current \in Event /\ Current.row \in Nat
         /\ Current.row < Len(rows[tab]) => rows[tab][Current.row + 1] \in Row
<1>1. /\ tab \in Tables /\ pos \in Nat /\ next \in Nat /\ next <= Len(feed[tab])
      /\ feed[tab] \in Seq(Event) /\ rows[tab] \in Seq(Row)
  BY DEF IInv, BatchInFeed, TypeOK
<1>2. pos + 1 \in 1 .. Len(feed[tab])
  BY <1>1, LenProperties
<1>3. Current \in Event /\ Current.row \in Nat
  <2>1. Current \in Event
    BY <1>1, <1>2, ElementOfSeq DEF Current
  <2>2. QED
    BY <2>1 DEF Event
<1>4. Current.row < Len(rows[tab]) => Current.row + 1 \in 1 .. Len(rows[tab])
  BY <1>1, <1>3, LenProperties
<1>5. QED
  BY <1>1, <1>3, <1>4, ElementOfSeq

\* A write to a replica leaves every copy a table of rows.
LEMMA EffectType ==
  ASSUME IInv, pc = "apply", NEW applied \in BOOLEAN, Effect(applied)
  PROVE  copy' \in [Replicas -> [Tables -> Seq(Row)]]
<1>1. /\ tab \in Tables /\ rep \in Replicas /\ copy[rep][tab] \in Seq(Row)
      /\ copy \in [Replicas -> [Tables -> Seq(Row)]]
      /\ Current.row \in Nat /\ (Current.op = "I" => row \in Row)
  BY CurrentEvent DEF IInv, BatchInFeed, TypeOK
<1>2. SwapDelete(copy[rep][tab], Current.row) \in Seq(Row)
  BY <1>1, SwapDeleteSeq
<1>3. Current.op = "I" => Append(copy[rep][tab], row) \in Seq(Row)
  BY <1>1, AppendProperties
<1>4. QED
  BY <1>1, <1>2, <1>3 DEF Effect

\* The steps of replay_once and _replay_event.
LEMMA ReplayInv ==
  ASSUME IInv, Replay
  PROVE  IInv'
<1> USE SizesAssumption
<1>1. IInv /\ TypeOK /\ BatchInFeed /\ 1 \in Replicas /\ 1 \in 1 .. NTables + 1
  BY DEF IInv, Replicas
<1>2. CASE Log
  BY <1>2, LogInv
<1>3. CASE EndOfBatch
  BY <1>3, EndOfBatchInv
<1>4. CASE LogFails
  <2>1. tab + 1 \in 1 .. NTables + 1 /\ UNCHANGED <<primary, copy, saved, running,
                                cursors, starts, row, rep, history>>
        /\ pc = "log" /\ tab' = tab + 1 /\ pos' = 0 /\ next' = 0 /\ pc' = "log"
    BY <1>4 DEF LogFails, NextTable, Tables
  <2>2. TypeOK'
    BY <1>1, <2>1 DEF TypeOK, Stages, primary, history
  <2>3. \A t \in Tables : saved'[t] <= cursors'[t]
    BY <1>1, <2>1 DEF IInv, Ordered
  <2>4. QED
    BY <1>1, <2>1, <2>2, <2>3, OutsideBatchInv DEF primary, history
<1>5. CASE EndOfPass
  <2>1. TypeOK'
    BY <1>1, <1>5 DEF EndOfPass, TypeOK, Stages, primary, history
  <2>2. \A t \in Tables : saved'[t] <= cursors'[t]
    BY <1>1, <1>5 DEF EndOfPass, IInv, Ordered
  <2>3. QED
    BY <1>1, <1>5, <2>1, <2>2, OutsideBatchInv DEF EndOfPass, primary, history
<1>6. CASE Fetch
  <2>1. /\ row' \in Row /\ pc' = "apply" /\ pc = "event" /\ pos < next /\ Current.op = "I"
        /\ UNCHANGED <<primary, copy, saved, running, cursors, starts, tab, pos, next,
                       rep, history>>
    BY <1>1, <1>6, CurrentEvent DEF Fetch
  <2>2. TypeOK'
    BY <1>1, <2>1 DEF TypeOK, Stages, primary, history
  <2>3. BatchInFeed'
    BY <1>1, <2>1 DEF BatchInFeed, Current, primary
  <2>4. Ordered' /\ Accounted' /\ GivenUpToRing'
    BY <1>1, <2>1 DEF IInv, Ordered, Accounted, Covered, GivenUpToRing, primary, history
  <2>5. QED
    BY <2>2, <2>3, <2>4 DEF IInv
<1>7. CASE SkipInsert \/ IgnoreUpdate
  <2>1. /\ pc = "event" /\ pos < next /\ Replayed /\ tab \in Tables
        /\ UNCHANGED <<primary, copy, saved, running, cursors, starts, tab, next, missed>>
    BY <1>1, <1>7 DEF SkipInsert, IgnoreUpdate, BatchInFeed
  <2>2. TypeOK'
    BY <1>1, <2>1, ReplayedType DEF TypeOK, primary
  <2>3. QED
    BY <1>1, <2>1, <2>2, ReplayedInv DEF primary
<1>8. CASE StartDelete
  <2>1. TypeOK'
    BY <1>1, <1>8 DEF StartDelete, TypeOK, Stages, primary, batch, history
  <2>2. BatchInFeed' /\ Ordered' /\ Accounted' /\ GivenUpToRing'
    BY <1>1, <1>8 DEF StartDelete, IInv, BatchInFeed, Current, Ordered, Accounted, Covered,
                      GivenUpToRing, primary, batch, history
  <2>3. QED
    BY <2>1, <2>2 DEF IInv
<1>9. CASE Apply
  <2>1. /\ pc = "apply" /\ pos < next /\ tab \in Tables
        /\ UNCHANGED <<primary, saved, running, cursors, starts, tab, next, missed>>
    BY <1>1, <1>9 DEF Apply, BatchInFeed
  <2>2. copy' \in [Replicas -> [Tables -> Seq(Row)]]
    BY <1>1, <1>9, EffectType DEF Apply
  <2>3. CASE rep < NReplicas /\ rep' = rep + 1 /\ UNCHANGED <<pc, pos, row, seen, again>>
    <3>1. rep + 1 \in Replicas
      BY <1>1, <2>3 DEF TypeOK, Replicas
    <3>2. TypeOK'
      BY <1>1, <2>1, <2>2, <2>3, <3>1 DEF TypeOK, primary
    <3>3. BatchInFeed' /\ Ordered' /\ Accounted' /\ GivenUpToRing'
      BY <1>1, <2>1, <2>3 DEF IInv, BatchInFeed, Current, Ordered, Accounted, Covered,
                              GivenUpToRing, primary
    <3>4. QED
      BY <3>2, <3>3 DEF IInv
  <2>4. CASE Replayed
    <3>1. TypeOK'
      BY <1>1, <2>1, <2>2, <2>4, ReplayedType DEF TypeOK, primary
    <3>2. QED
      BY <1>1, <2>1, <2>4, <3>1, ReplayedInv DEF primary
  <2>5. QED
    BY <1>9, <2>3, <2>4 DEF Apply
<1>10. CASE Abort
  <2>1. copy' \in [Replicas -> [Tables -> Seq(Row)]]
    BY <1>1, <1>10, EffectType DEF Abort, TypeOK
  <2>2. /\ pc' = "close" /\ pc # "down"
        /\ tab' = 1 /\ pos' = 0 /\ next' = 0 /\ row' = NoRow /\ rep' = 1
        /\ UNCHANGED <<primary, saved, running, cursors, starts, history>>
    BY <1>10 DEF Abort
  <2>3. TypeOK'
    BY <1>1, <2>1, <2>2 DEF TypeOK, Stages, primary, history
  <2>4. \A t \in Tables : saved'[t] <= cursors'[t]
    BY <1>1, <2>2 DEF IInv, Ordered
  <2>5. QED
    BY <1>1, <2>2, <2>3, <2>4, OutsideBatchInv DEF primary, history
<1>11. QED
  BY <1>2, <1>3, <1>4, <1>5, <1>6, <1>7, <1>8, <1>9, <1>10 DEF Replay

\* Every write of the primary and every step of the replicator keeps the invariant.
LEMMA NextInv == IInv /\ [Next]_vars => IInv'
<1> SUFFICES ASSUME IInv, [Next]_vars PROVE IInv'
  OBVIOUS
<1>1. CASE \E t \in Tables : Write(t)
  BY <1>1, WriteInv
<1>2. CASE Start \/ Stop \/ Loop \/ Kill
  BY <1>2, LifeInv
<1>3. CASE Checkpoint
  BY <1>3, CheckpointInv
<1>4. CASE Replay
  BY <1>4, ReplayInv
<1>5. CASE UNCHANGED vars
  BY <1>5 DEF IInv, TypeOK, BatchInFeed, Current, Ordered, Accounted, Covered,
              GivenUpToRing, vars, primary, process, batch, history
<1>6. QED
  BY <1>1, <1>2, <1>3, <1>4, <1>5 DEF Next

\* The inductive invariant holds in every state.
LEMMA Invariance == Spec => []IInv
BY InitInv, NextInv, PTL DEF Spec

-----------------------------------------------------------------------------
(* The theorems.                                                           *)

\* The replicator's state is well typed in every reachable state; in
\* particular GET and the replayed writes only ever carry rows.
THEOREM TypeCorrect == Spec => []TypeOK
<1>1. IInv => TypeOK
  BY DEF IInv
<1>2. QED
  BY <1>1, Invariance, PTL

\* At least once: whatever is killed, aborted, torn or unwritable, every event
\* the checkpoint claims was replayed to the end or had left the LOG ring.
THEOREM CheckpointCovers == Spec => []NoEventLost
<1>1. IInv => NoEventLost
  <2> SUFFICES ASSUME IInv, NEW t \in Tables
               PROVE  saved[t] <= Position(t) /\ Covered(t, Position(t))
    BY DEF NoEventLost, Covered
  <2>1. saved[t] \in Nat /\ cursors[t] \in Nat /\ pos \in Nat
    BY DEF IInv, TypeOK
  <2>2. CASE pc = "down"
    BY <2>1, <2>2 DEF IInv, Accounted, Position
  <2>3. CASE pc # "down" /\ InBatch(t)
    BY <2>1, <2>3 DEF IInv, BatchInFeed, Ordered, Accounted, Position, InBatch
  <2>4. CASE pc # "down" /\ ~InBatch(t)
    BY <2>1, <2>4 DEF IInv, Ordered, Accounted, Position
  <2>5. QED
    BY <2>2, <2>3, <2>4
<1>2. QED
  BY <1>1, Invariance, PTL

-----------------------------------------------------------------------------
(* Nothing is replayed twice, as long as errors are all that happens.     *)

\* Position, case by case: what it is stated over in Replicator.
LEMMA PositionCases ==
  ASSUME IInv, NEW t \in Tables
  PROVE  /\ Position(t) \in Nat /\ saved[t] \in Nat /\ cursors[t] \in Nat
         /\ Position(t) <= Len(feed[t]) /\ Len(feed[t]) \in Nat
         /\ saved[t] <= Position(t)
         /\ pc = "down" => Position(t) = saved[t]
         /\ pc \notin {"down", "event", "apply"} => Position(t) = cursors[t]
         /\ pc \in {"event", "apply"} =>
              Position(t) = IF t = tab THEN pos ELSE cursors[t]
<1>1. /\ saved[t] \in Nat /\ cursors[t] \in Nat /\ pos \in Nat /\ next \in Nat
      /\ Len(feed[t]) \in Nat
  BY LenProperties DEF IInv, TypeOK
<1>2. CASE pc = "down"
  BY <1>1, <1>2 DEF Position, IInv, Ordered
<1>3. CASE pc \in {"event", "apply"}
  BY <1>1, <1>3 DEF Position, InBatch, IInv, Ordered, BatchInFeed
<1>4. CASE pc \notin {"down", "event", "apply"}
  BY <1>1, <1>4 DEF Position, InBatch, IInv, Ordered
<1>5. QED
  BY <1>2, <1>3, <1>4

\* Without kills, OSErrors and an unwritable checkpoint, what has been replayed
\* never lies beyond the position, so that no event can be replayed again.
Unrepeated ==
  Faults \subseteq {"err"} =>
    \A t \in Tables : again[t] = {} /\ \A i \in seen[t] : i <= Position(t)

\* Steps that replay nothing keep it if they lower no position.
LEMMA ForwardUnrepeated ==
  ASSUME IInv, IInv', Unrepeated, UNCHANGED <<seen, again>>,
         \A t \in Tables : Position(t) <= Position(t)'
  PROVE  Unrepeated'
<1> SUFFICES ASSUME Faults \subseteq {"err"}, NEW t \in Tables, NEW i \in seen'[t]
             PROVE  again'[t] = {} /\ i <= Position(t)'
  BY DEF Unrepeated
<1>1. again[t] = {} /\ i <= Position(t)
  BY DEF Unrepeated
<1>2. i \in Nat /\ Position(t) \in Nat /\ Position(t)' \in Nat
  BY DEF IInv, TypeOK, Position
<1>3. QED
  BY <1>1, <1>2

\* The event that is replayed was not replayed before.
LEMMA ReplayedUnrepeated ==
  ASSUME IInv, Unrepeated, pc \in {"event", "apply"}, pos < next, Replayed,
         UNCHANGED <<cursors, saved, tab>>
  PROVE  Unrepeated'
<1> SUFFICES ASSUME Faults \subseteq {"err"}, NEW t \in Tables
             PROVE  again'[t] = {} /\ \A i \in seen'[t] : i <= Position(t)'
  BY DEF Unrepeated
<1>1. /\ tab \in Tables /\ pos \in Nat /\ pos' = pos + 1 /\ pc' = "event"
      /\ seen[t] \subseteq Nat
      /\ seen' = [seen EXCEPT ![tab] = @ \cup {pos + 1}]
      /\ again' = [again EXCEPT ![tab] = @ \cup ({pos + 1} \cap seen[tab])]
      /\ seen \in [Tables -> SUBSET Nat] /\ again \in [Tables -> SUBSET Nat]
  BY DEF IInv, BatchInFeed, TypeOK, Replayed
<1>2. again[t] = {} /\ \A i \in seen[t] : i <= Position(t)
  BY DEF Unrepeated
<1>3. CASE t = tab
  <2>1. Position(t) = pos /\ Position(t)' = pos + 1
    BY <1>1, <1>3 DEF Position, InBatch
  <2>2. pos + 1 \notin seen[tab]
    BY <1>1, <1>2, <1>3, <2>1
  <2>3. QED
    BY <1>1, <1>2, <1>3, <2>1, <2>2
<1>4. CASE t # tab
  <2>1. Position(t) = cursors[t] /\ Position(t)' = cursors[t]
    BY <1>1, <1>4 DEF Position, InBatch
  <2>2. QED
    BY <1>1, <1>2, <1>4, <2>1
<1>5. QED
  BY <1>3, <1>4

\* Every step replays only what was never replayed.
LEMMA NextUnrepeated == IInv /\ IInv' /\ Unrepeated /\ [Next]_vars => Unrepeated'
<1> SUFFICES ASSUME IInv, IInv', Unrepeated, [Next]_vars, Faults \subseteq {"err"}
             PROVE  Unrepeated'
  BY DEF Unrepeated
<1>1. \A t \in Tables : /\ Position(t) \in Nat /\ cursors[t] \in Nat /\ saved[t] \in Nat
                        /\ saved[t] <= Position(t)
  BY PositionCases
<1>2. CASE \E t \in Tables : Write(t)
  BY <1>1, <1>2, ForwardUnrepeated DEF Write, Position, InBatch, process, batch, history
<1>3. CASE Start \/ Stop \/ Loop
  BY <1>1, <1>3, ForwardUnrepeated
     DEF Start, Stop, Loop, Position, InBatch, primary, batch, history
<1>4. CASE Kill
  BY <1>4 DEF Kill
<1>5. CASE Checkpoint
  <2>1. CASE SkipCheckpoint
    BY <1>1, <2>1, ForwardUnrepeated DEF SkipCheckpoint, Position, InBatch, primary, batch, history
  <2>2. CASE Truncate
    BY <1>1, <2>2, ForwardUnrepeated DEF Truncate, Position, InBatch, primary, batch, history
  <2>3. CASE WriteCheckpoint
    <3>1. \A t \in Tables : Position(t) = cursors[t] /\ Position(t)' = cursors[t]
      BY <2>3 DEF WriteCheckpoint, Saved, GoDown, Position, InBatch, batch
    <3>2. QED
      BY <1>1, <2>3, <3>1, ForwardUnrepeated DEF WriteCheckpoint, history
  <2>4. CASE CheckpointFails
    BY <2>4 DEF CheckpointFails
  <2>5. QED
    BY <1>5, <2>1, <2>2, <2>3, <2>4 DEF Checkpoint
<1>6. CASE Replay
  <2>1. CASE Log
    <3>1. Position(tab) = cursors[tab] /\ Position(tab)' = pos' /\ cursors[tab] <= pos'
      <4>1. pos' = LargerOf(cursors[tab], Len(feed[tab]) - RingCap) /\ tab \in Tables
        BY <2>1 DEF Log, FirstKept
      <4>2. Len(feed[tab]) - RingCap \in Int
        BY <4>1, PositionCases, SizesAssumption
      <4>3. QED
        BY <1>1, <2>1, <4>1, <4>2, LargerOfNat DEF Log, Position, InBatch
    <3>2. \A t \in Tables \ {tab} : Position(t)' = Position(t)
      BY <2>1 DEF Log, Position, InBatch
    <3>3. QED
      BY <1>1, <2>1, <3>1, <3>2, ForwardUnrepeated DEF Log
  <2>2. CASE LogFails \/ EndOfPass
    BY <1>1, <2>2, ForwardUnrepeated
       DEF LogFails, EndOfPass, NextTable, Position, InBatch, history
  <2>3. CASE EndOfBatch
    <3>1. \A t \in Tables : Position(t)' = Position(t)
      BY <2>3 DEF EndOfBatch, NextTable, Position, InBatch, IInv, TypeOK
    <3>2. QED
      BY <1>1, <2>3, <3>1, ForwardUnrepeated DEF EndOfBatch, history
  <2>4. CASE Fetch \/ StartDelete
    BY <1>1, <2>4, ForwardUnrepeated DEF Fetch, StartDelete, Position, InBatch, batch, history
  <2>5. CASE SkipInsert \/ IgnoreUpdate
    BY <2>5, ReplayedUnrepeated DEF SkipInsert, IgnoreUpdate
  <2>6. CASE Apply
    <3>1. pos < next
      BY <2>6 DEF Apply, IInv, BatchInFeed
    <3>2. CASE rep < NReplicas /\ rep' = rep + 1 /\ UNCHANGED <<pc, pos, row, seen, again>>
      BY <1>1, <2>6, <3>2, ForwardUnrepeated DEF Apply, Position, InBatch
    <3>3. CASE Replayed
      BY <2>6, <3>1, <3>3, ReplayedUnrepeated DEF Apply
    <3>4. QED
      BY <2>6, <3>2, <3>3 DEF Apply
  <2>7. CASE Abort
    BY <2>7 DEF Abort
  <2>8. QED
    BY <1>6, <2>1, <2>2, <2>3, <2>4, <2>5, <2>6, <2>7 DEF Replay
<1>7. CASE UNCHANGED vars
  BY <1>1, <1>7, ForwardUnrepeated DEF vars, process, batch, history, Position, InBatch
<1>8. QED
  BY <1>2, <1>3, <1>4, <1>5, <1>6, <1>7 DEF Next

\* Stopping with SIGTERM and starting again replays nothing twice, whatever the
\* writers do and however often the servers answer with an error.
THEOREM StopAndStartRepeatNothing == Spec => []NothingRepeated
<1>1. Init => Unrepeated
  BY DEF Init, Unrepeated
<1>2. Unrepeated => NothingRepeated
  BY DEF Unrepeated, NothingRepeated
<1>3. Spec => []Unrepeated
  BY <1>1, NextUnrepeated, Invariance, PTL DEF Spec
<1>4. QED
  BY <1>2, <1>3, PTL

-----------------------------------------------------------------------------
(* A replica that has caught up equals the primary.                        *)

\* Events k + 1 .. of feed f insert, in order, the rows that table u has beyond s.
Extends(s, u, f, k) ==
  /\ Len(u) = Len(s) + (Len(f) - k)
  /\ \A i \in 1 .. Len(s) : u[i] = s[i]
  /\ \A i \in k + 1 .. Len(f) : f[i].op = "I" /\ f[i].row = Len(s) + (i - k) - 1

\* A replica's table s that was given the first k events of f lacks only inserts,
\* after at most one delete that is its next event, to become u.
Behind(s, u, f, k) ==
  \/ Extends(s, u, f, k)
  \/ /\ k < Len(f) /\ f[k + 1].op = "D"
     /\ Extends(SwapDelete(s, f[k + 1].row), u, f, k + 1)

\* How many events of t replica r was given: while one is applied, the replicas
\* before rep have it already.
Given(r, t) == IF pc = "apply" /\ t = tab /\ r < rep THEN Position(t) + 1 ELSE Position(t)

NothingMissed == \A t \in Tables : missed[t] = {}

\* As long as the ring held all that was asked for.  The loop over the replicas
\* starts at the first.
InStep ==
  /\ pc # "apply" => rep = 1
  /\ NothingMissed =>
       /\ \A r \in Replicas, t \in Tables : Behind(copy[r][t], rows[t], feed[t], Given(r, t))
       /\ pc = "apply" /\ Current.op = "I" =>
            Current.row < Len(rows[tab]) /\ row = rows[tab][Current.row + 1]

\* The workload and the failures that CaughtUpInSync is about: inserts at any
\* time, deletes when the replay has caught up, no failures, and the rows of the
\* snapshot are not replayed on top of it.
InStepAssumption ==
  /\ Ops \subseteq {"I", "D"} /\ MaxLag <= 1
  /\ Faults = {} /\ (RingHasSnapshot => Snapshot = 0)

\* The primary inserts a row.
LEMMA ExtendsInsert ==
  ASSUME NEW s \in Seq(Row), NEW u \in Seq(Row), NEW f \in Seq(Event), NEW k \in Nat, k <= Len(f),
         NEW v \in Row, Extends(s, u, f, k)
  PROVE  Extends(s, Append(u, v), Append(f, [row |-> Len(u), op |-> "I"]), k)
<1>. DEFINE e == [row |-> Len(u), op |-> "I"]
            f1 == Append(f, e)
            u1 == Append(u, v)
<1>1. /\ Len(s) \in Nat /\ Len(u) \in Nat /\ Len(f) \in Nat
      /\ Len(u) = Len(s) + (Len(f) - k)
      /\ \A i \in 1 .. Len(s) : u[i] = s[i]
      /\ \A i \in k + 1 .. Len(f) : f[i].op = "I" /\ f[i].row = Len(s) + (i - k) - 1
  BY LenProperties DEF Extends
<1>2. /\ Len(u1) = Len(u) + 1 /\ \A i \in 1 .. Len(u) : u1[i] = u[i]
      /\ Len(f1) = Len(f) + 1 /\ f1[Len(f) + 1] = e /\ \A i \in 1 .. Len(f) : f1[i] = f[i]
  BY <1>1, AppendProperties
<1>3. \A i \in 1 .. Len(s) : u1[i] = s[i]
  BY <1>1, <1>2
<1>4. ASSUME NEW i \in k + 1 .. Len(f1)
      PROVE  f1[i].op = "I" /\ f1[i].row = Len(s) + (i - k) - 1
  <2>1. CASE i = Len(f) + 1
    BY <1>1, <1>2, <2>1
  <2>2. CASE i # Len(f) + 1
    <3>1. i \in 1 .. Len(f) /\ i \in k + 1 .. Len(f)
      BY <1>1, <1>2, <2>2
    <3>. QED  BY <1>1, <1>2, <3>1
  <2>. QED  BY <2>1, <2>2
<1>5. Len(u1) = Len(s) + (Len(f1) - k)
  BY <1>1, <1>2
<1>. QED  BY <1>3, <1>4, <1>5 DEF Extends

\* An INSERT at the primary: the replica falls behind by one event more.
LEMMA BehindInsert ==
  ASSUME NEW s \in Seq(Row), NEW u \in Seq(Row), NEW f \in Seq(Event), NEW k \in Nat, k <= Len(f),
         NEW v \in Row, Behind(s, u, f, k)
  PROVE  Behind(s, Append(u, v), Append(f, [row |-> Len(u), op |-> "I"]), k)
<1>. DEFINE e == [row |-> Len(u), op |-> "I"]
<1>1. CASE Extends(s, u, f, k)
  BY <1>1, ExtendsInsert DEF Behind
<1>2. CASE /\ k < Len(f) /\ f[k + 1].op = "D"
           /\ Extends(SwapDelete(s, f[k + 1].row), u, f, k + 1)
  <2>1. Len(f) \in Nat /\ k + 1 \in 1 .. Len(f) /\ f[k + 1] \in Event
    BY <1>2, LenProperties, ElementOfSeq
  <2>2. SwapDelete(s, f[k + 1].row) \in Seq(Row)
    BY <2>1, SwapDeleteSeq DEF Event
  <2>3. Extends(SwapDelete(s, f[k + 1].row), Append(u, v), Append(f, e), k + 1)
    BY <1>2, <2>1, <2>2, ExtendsInsert
  <2>4. Append(f, e)[k + 1] = f[k + 1] /\ Len(Append(f, e)) = Len(f) + 1
    BY <2>1, AppendProperties
  <2>. DEFINE f1 == Append(f, e)
              u1 == Append(u, v)
  <2>5. k < Len(f1) /\ f1[k + 1].op = "D" /\ Extends(SwapDelete(s, f1[k + 1].row), u1, f1, k + 1)
    BY <1>2, <2>1, <2>3, <2>4
  <2>. HIDE DEF f1, u1
  <2>6. Behind(s, u1, f1, k)
    BY <2>5 DEF Behind
  <2>. QED  BY <2>6 DEF f1, u1
<1>. QED  BY <1>1, <1>2 DEF Behind

\* A replica that was given all there is equals the primary.
LEMMA CaughtUp ==
  ASSUME NEW s \in Seq(Row), NEW u \in Seq(Row), NEW f \in Seq(Event), Behind(s, u, f, Len(f))
  PROVE  s = u
<1>1. Len(s) \in Nat /\ Len(u) = Len(s) /\ \A i \in 1 .. Len(s) : u[i] = s[i]
  BY LenProperties DEF Behind, Extends
<1>. QED  BY <1>1, SeqEqual

\* The primary deletes a row that is there when all before has been replayed.
LEMMA BehindDelete ==
  ASSUME NEW s \in Seq(Row), NEW u \in Seq(Row), NEW f \in Seq(Event), NEW id \in Nat,
         Behind(s, u, f, Len(f))
  PROVE  Behind(s, SwapDelete(u, id), Append(f, [row |-> id, op |-> "D"]), Len(f))
<1>. DEFINE e == [row |-> id, op |-> "D"]
            w == SwapDelete(u, id)
<1>1. s = u
  BY CaughtUp
<1>2. Len(f) \in Nat /\ Len(Append(f, e)) = Len(f) + 1 /\ Append(f, e)[Len(f) + 1] = e
  BY AppendProperties, LenProperties
<1>3. w \in Seq(Row) /\ Len(w) \in Nat
  BY SwapDeleteSeq, LenProperties
<1>4. Extends(w, w, Append(f, e), Len(f) + 1)
  <2>. HIDE DEF w, e
  <2>. QED  BY <1>2, <1>3 DEF Extends
<1>. QED  BY <1>1, <1>2, <1>4 DEF Behind

\* What the next event of a replica is, and what replaying it does.
LEMMA BehindNext ==
  ASSUME NEW s \in Seq(Row), NEW u \in Seq(Row), NEW f \in Seq(Event), NEW k \in Nat, k < Len(f),
         Behind(s, u, f, k)
  PROVE  /\ f[k + 1].op \in {"I", "D"}
         /\ f[k + 1].op = "I" => /\ f[k + 1].row < Len(u)
                                 /\ Behind(Append(s, u[f[k + 1].row + 1]), u, f, k + 1)
         /\ f[k + 1].op = "D" => Behind(SwapDelete(s, f[k + 1].row), u, f, k + 1)
<1>1. CASE Extends(s, u, f, k)
  <2>1. /\ Len(s) \in Nat /\ Len(u) \in Nat /\ Len(f) \in Nat
        /\ Len(u) = Len(s) + (Len(f) - k)
        /\ \A i \in 1 .. Len(s) : u[i] = s[i]
        /\ \A i \in k + 1 .. Len(f) : f[i].op = "I" /\ f[i].row = Len(s) + (i - k) - 1
    BY <1>1, LenProperties DEF Extends
  <2>2. f[k + 1].op = "I" /\ f[k + 1].row = Len(s) /\ Len(s) < Len(u)
    BY <2>1, SMTT(30)
  <2>. DEFINE s1 == Append(s, u[Len(s) + 1])
  <2>3. u[Len(s) + 1] \in Row
    BY <2>1, <2>2, ElementOfSeq
  <2>4. /\ Len(s1) = Len(s) + 1 /\ s1[Len(s) + 1] = u[Len(s) + 1]
        /\ \A i \in 1 .. Len(s) : s1[i] = s[i]
    BY <2>1, <2>3, AppendProperties
  <2>. HIDE DEF s1
  <2>5. \A i \in 1 .. Len(s1) : u[i] = s1[i]
    BY <2>1, <2>4
  <2>6. Extends(s1, u, f, k + 1)
    BY <2>1, <2>4, <2>5 DEF Extends
  <2>. QED  BY <2>2, <2>6 DEF Behind, s1
<1>2. CASE /\ k < Len(f) /\ f[k + 1].op = "D"
           /\ Extends(SwapDelete(s, f[k + 1].row), u, f, k + 1)
  BY <1>2 DEF Behind
<1>. QED  BY <1>1, <1>2 DEF Behind

\* A replica was given all up to the position of the table, or one event more.
LEMMA GivenType ==
  ASSUME IInv, NEW r \in Replicas, NEW t \in Tables
  PROVE  /\ Given(r, t) \in Nat /\ Given(r, t) <= Len(feed[t])
         /\ Position(t) <= Given(r, t)
         /\ Given(r, t) # Position(t) => pc = "apply" /\ t = tab /\ Position(t) < Len(feed[t])
<1>1. /\ Position(t) \in Nat /\ Position(t) <= Len(feed[t]) /\ Len(feed[t]) \in Nat
      /\ pc \in {"event", "apply"} => Position(t) = IF t = tab THEN pos ELSE cursors[t]
  BY PositionCases
<1>2. pc = "apply" => pos < next /\ next <= Len(feed[tab]) /\ pos \in Nat /\ next \in Nat
  BY DEF IInv, BatchInFeed, TypeOK
<1>. QED  BY <1>1, <1>2 DEF Given

\* Replicas start from the snapshot of the primary.
LEMMA InitInStep == ASSUME InStepAssumption, Init PROVE InStep
<1>1. PICK snap \in [Tables -> [1 .. Snapshot -> Row]] :
         rows = snap /\ copy = [r \in Replicas |-> snap]
  BY DEF Init
<1>2. \A t \in Tables : snap[t] \in Seq(Row) /\ Len(snap[t]) \in Nat
  BY <1>1, FunctionIsSeq, SizesAssumption
<1>3. Snapshot - Base = 0
  BY SizesAssumption, KindsAssumption DEF InStepAssumption, Base
<1>4. \A t \in Tables : Len(feed[t]) = 0
  BY <1>3, FunctionIsSeq DEF Init
<1>5. \A r \in Replicas, t \in Tables : Given(r, t) = 0 /\ copy[r][t] = snap[t] /\ rows[t] = snap[t]
  BY <1>1 DEF Init, Given, Position, Zero
<1>6. \A t \in Tables : Extends(snap[t], snap[t], feed[t], 0)
  BY <1>2, <1>4 DEF Extends
<1>. QED  BY <1>5, <1>6 DEF Init, InStep, Behind

\* A step that changes neither the tables nor how much was replayed.
LEMMA SameInStep ==
  ASSUME IInv, InStep, UNCHANGED <<rows, feed, copy>>, NothingMissed' => NothingMissed,
         pc' # "apply", rep' = 1,
         NothingMissed' => \A r \in Replicas, t \in Tables : Position(t)' = Given(r, t)
  PROVE  InStep'
BY DEF InStep, Given

\* A write to the primary.
LEMMA WriteInStep ==
  ASSUME InStepAssumption, IInv, InStep, NEW t \in Tables, Write(t)
  PROVE  InStep'
<1>1. UNCHANGED <<copy, saved, process, batch, history>>
  BY DEF Write
<1>2. \A r \in Replicas, b \in Tables : Given(r, b)' = Given(r, b) /\ Position(b)' = Position(b)
  BY <1>1 DEF Given, Position, InBatch, process, batch
<1>. SUFFICES ASSUME NothingMissed
              PROVE  /\ \A r \in Replicas, b \in Tables :
                          Behind(copy'[r][b], rows'[b], feed'[b], Given(r, b)')
                     /\ pc' = "apply" /\ Current'.op = "I" =>
                          Current'.row < Len(rows'[tab']) /\ row' = rows'[tab'][Current'.row + 1]
  BY <1>1 DEF InStep, NothingMissed, process, batch, history
<1>3. /\ rows[t] \in Seq(Row) /\ feed[t] \in Seq(Event) /\ Len(rows[t]) \in Nat /\ Len(feed[t]) \in Nat
      /\ \A r \in Replicas : copy[r][t] \in Seq(Row)
      /\ rows \in [Tables -> Seq(Row)] /\ feed \in [Tables -> Seq(Event)]
  BY LenProperties DEF IInv, TypeOK
<1>4. \A r \in Replicas, b \in Tables : Behind(copy[r][b], rows[b], feed[b], Given(r, b))
  BY DEF InStep
<1>5. pc = "apply" /\ Current.op = "I" =>
        Current.row < Len(rows[tab]) /\ row = rows[tab][Current.row + 1]
  BY DEF InStep
<1>6. CASE \E v \in Row : /\ rows' = [rows EXCEPT ![t] = Append(@, v)]
                          /\ Record(t, Len(rows[t]), "I")
  <2>1. PICK v \in Row : /\ rows' = [rows EXCEPT ![t] = Append(@, v)]
                         /\ feed' = [feed EXCEPT ![t] = Append(@, [row |-> Len(rows[t]), op |-> "I"])]
    BY <1>6 DEF Record
  <2>2. ASSUME NEW r \in Replicas, NEW b \in Tables
        PROVE  Behind(copy'[r][b], rows'[b], feed'[b], Given(r, b)')
    <3>1. CASE b # t
      BY <1>1, <1>2, <1>3, <1>4, <2>1, <3>1
    <3>2. CASE b = t
      <4>1. Given(r, t) \in Nat /\ Given(r, t) <= Len(feed[t])
        BY GivenType
      <4>2. Behind(copy[r][t], Append(rows[t], v),
                   Append(feed[t], [row |-> Len(rows[t]), op |-> "I"]), Given(r, t))
        BY <1>3, <1>4, <4>1, BehindInsert
      <4>. QED  BY <1>1, <1>2, <1>3, <2>1, <3>2, <4>2
    <3>. QED  BY <3>1, <3>2
  <2>3. ASSUME pc' = "apply", Current'.op = "I"
        PROVE  Current'.row < Len(rows'[tab']) /\ row' = rows'[tab'][Current'.row + 1]
    <3>1. /\ pc = "apply" /\ tab' = tab /\ pos' = pos /\ row' = row /\ tab \in Tables
          /\ pos + 1 \in 1 .. Len(feed[tab]) /\ Current \in Event
      BY <1>1, <2>3, LenProperties, ElementOfSeq, SMTT(30) DEF IInv, BatchInFeed, TypeOK, process, batch, Current
    <3>2. Current' = Current
      BY <1>3, <2>1, <3>1, AppendProperties DEF Current
    <3>3. Current.row \in Nat /\ Current.row < Len(rows[tab]) /\ row = rows[tab][Current.row + 1]
      BY <1>5, <2>3, <3>1, <3>2 DEF Event
    <3>4. rows[tab] \in Seq(Row) /\ Len(rows[tab]) \in Nat
      BY <1>3, <3>1, LenProperties
    <3>5. CASE t = tab
      <4>1. rows'[tab] = Append(rows[tab], v)
        BY <1>3, <2>1, <3>1, <3>5
      <4>2. Len(rows'[tab]) = Len(rows[tab]) + 1 /\ \A i \in 1 .. Len(rows[tab]) : rows'[tab][i] = rows[tab][i]
        BY <3>4, <4>1, AppendProperties
      <4>3. Current.row + 1 \in 1 .. Len(rows[tab])
        BY <3>3, <3>4
      <4>. QED  BY <3>1, <3>2, <3>3, <3>4, <4>2, <4>3
    <3>6. CASE t # tab
      BY <1>3, <2>1, <3>1, <3>2, <3>3, <3>6
    <3>. QED  BY <3>5, <3>6
  <2>. QED  BY <2>2, <2>3
<1>7. CASE /\ Paced(t)
           /\ \E id \in 0 .. Len(rows[t]) - 1 : /\ rows' = [rows EXCEPT ![t] = SwapDelete(@, id)]
                                                /\ Record(t, id, "D")
  <2>1. PICK id \in Nat : /\ rows' = [rows EXCEPT ![t] = SwapDelete(@, id)]
                          /\ feed' = [feed EXCEPT ![t] = Append(@, [row |-> id, op |-> "D"])]
    <3>1. PICK id \in 0 .. Len(rows[t]) - 1 : /\ rows' = [rows EXCEPT ![t] = SwapDelete(@, id)]
                                              /\ Record(t, id, "D")
      BY <1>7
    <3>2. id \in Nat
      BY <1>3
    <3>. QED  BY <3>1, <3>2 DEF Record
  <2>2. Position(t) = Len(feed[t])
    BY <1>3, <1>7, PositionCases, SizesAssumption DEF Paced, InStepAssumption
  <2>3. ~(pc = "apply" /\ t = tab) /\ \A r \in Replicas : Given(r, t) = Len(feed[t])
    <3>1. \A r \in Replicas : Given(r, t) = Len(feed[t])
      BY <1>3, <2>2, GivenType
    <3>2. pc = "apply" /\ t = tab => FALSE
      <4>. SUFFICES ASSUME pc = "apply", t = tab PROVE FALSE
        OBVIOUS
      <4>1. pos < next /\ next <= Len(feed[tab]) /\ pos \in Nat /\ next \in Nat
        BY DEF IInv, BatchInFeed, TypeOK
      <4>2. Position(t) = pos
        BY DEF Position, InBatch
      <4>. QED  BY <1>3, <2>2, <4>1, <4>2
    <3>. QED  BY <3>1, <3>2
  <2>4. ASSUME NEW r \in Replicas, NEW b \in Tables
        PROVE  Behind(copy'[r][b], rows'[b], feed'[b], Given(r, b)')
    <3>1. CASE b # t
      BY <1>1, <1>2, <1>3, <1>4, <2>1, <3>1
    <3>2. CASE b = t
      <4>1. Behind(copy[r][t], rows[t], feed[t], Len(feed[t]))
        BY <1>4, <2>3
      <4>2. Behind(copy[r][t], SwapDelete(rows[t], id), Append(feed[t], [row |-> id, op |-> "D"]), Len(feed[t]))
        BY <1>3, <4>1, BehindDelete
      <4>. QED  BY <1>1, <1>2, <1>3, <2>1, <2>3, <3>2, <4>2
    <3>. QED  BY <3>1, <3>2
  <2>5. ASSUME pc' = "apply", Current'.op = "I"
        PROVE  Current'.row < Len(rows'[tab']) /\ row' = rows'[tab'][Current'.row + 1]
    <3>1. pc = "apply" /\ tab' = tab /\ pos' = pos /\ row' = row /\ tab \in Tables /\ t # tab
      BY <1>1, <2>3, <2>5 DEF IInv, BatchInFeed, process, batch
    <3>. QED  BY <1>3, <1>5, <2>1, <2>5, <3>1 DEF Current
  <2>. QED  BY <2>4, <2>5
<1>. QED  BY <1>6, <1>7 DEF Write, InStepAssumption

\* One replica is given the event.
LEMMA ApplyInStep ==
  ASSUME InStepAssumption, IInv, InStep, Apply
  PROVE  InStep'
<1>1. /\ pc = "apply" /\ tab \in Tables /\ pos \in Nat /\ pos < next /\ rep \in Replicas
      /\ Position(tab) = pos /\ Len(feed[tab]) \in Nat /\ pos < Len(feed[tab])
      /\ copy \in [Replicas -> [Tables -> Seq(Row)]]
      /\ rows[tab] \in Seq(Row) /\ feed[tab] \in Seq(Event)
  BY LenProperties DEF Apply, IInv, TypeOK, BatchInFeed, Position, InBatch
<1>2. /\ copy' = [copy EXCEPT ![rep][tab] = IF Current.op = "I" THEN Append(@, row)
                                            ELSE SwapDelete(@, Current.row)]
      /\ UNCHANGED <<primary, saved, running, cursors, starts, tab, next, missed>>
  BY DEF Apply, Effect, InStepAssumption
<1>3. \/ rep < NReplicas /\ rep' = rep + 1 /\ pc' = "apply" /\ UNCHANGED <<pos, row>>
      \/ rep = NReplicas /\ pos' = pos + 1 /\ rep' = 1 /\ pc' = "event"
  BY <1>1 DEF Apply, Replayed
<1>. SUFFICES ASSUME NothingMissed
              PROVE  /\ \A r \in Replicas, b \in Tables :
                          Behind(copy'[r][b], rows'[b], feed'[b], Given(r, b)')
                     /\ pc' = "apply" /\ Current'.op = "I" =>
                          Current'.row < Len(rows'[tab']) /\ row' = rows'[tab'][Current'.row + 1]
  BY <1>2, <1>3 DEF InStep, NothingMissed
<1>4. \A r \in Replicas, b \in Tables : Behind(copy[r][b], rows[b], feed[b], Given(r, b))
  BY DEF InStep
<1>5. Behind(copy'[rep][tab], rows[tab], feed[tab], pos + 1)
  <2>. DEFINE s == copy[rep][tab]
  <2>1. s \in Seq(Row) /\ Behind(s, rows[tab], feed[tab], pos)
    BY <1>1, <1>4 DEF Given, Replicas
  <2>2. copy'[rep][tab] = IF Current.op = "I" THEN Append(s, row) ELSE SwapDelete(s, Current.row)
    BY <1>1, <1>2
  <2>3. Current.op = "I" => row = rows[tab][Current.row + 1]
    BY <1>1 DEF InStep
  <2>. HIDE DEF s
  <2>4. /\ Current.op \in {"I", "D"}
        /\ Current.op = "I" => Behind(Append(s, rows[tab][Current.row + 1]), rows[tab], feed[tab], pos + 1)
        /\ Current.op = "D" => Behind(SwapDelete(s, Current.row), rows[tab], feed[tab], pos + 1)
    BY <1>1, <2>1, BehindNext DEF Current
  <2>. QED  BY <2>2, <2>3, <2>4
<1>6. ASSUME NEW r \in Replicas, NEW b \in Tables
      PROVE  Behind(copy'[r][b], rows'[b], feed'[b], Given(r, b)')
  <2>1. UNCHANGED <<rows, feed>> /\ r \in Nat /\ rep \in Nat /\ r <= NReplicas /\ NReplicas \in Nat
    BY <1>1, <1>2, SizesAssumption DEF primary, Replicas
  <2>2. CASE b # tab
    <3>1. copy'[r][b] = copy[r][b]
      BY <1>1, <1>2, <2>2
    <3>2. Given(r, b)' = Given(r, b)
      BY <1>1, <1>2, <1>3, <2>2 DEF Given, Position, InBatch
    <3>. QED  BY <1>4, <2>1, <3>1, <3>2
  <2>3. CASE b = tab /\ r = rep
    <3>1. Given(r, b)' = pos + 1
      BY <1>1, <1>2, <1>3, <2>1, <2>3 DEF Given, Position, InBatch
    <3>. QED  BY <1>5, <2>1, <2>3, <3>1
  <2>4. CASE b = tab /\ r # rep
    <3>1. copy'[r][b] = copy[r][b]
      BY <1>1, <1>2, <2>4
    <3>2. Given(r, b)' = Given(r, b)
      BY <1>1, <1>2, <1>3, <2>1, <2>4 DEF Given, Position, InBatch
    <3>. QED  BY <1>4, <2>1, <3>1, <3>2
  <2>. QED  BY <2>2, <2>3, <2>4
<1>7. pc' = "apply" /\ Current'.op = "I" =>
        Current'.row < Len(rows'[tab']) /\ row' = rows'[tab'][Current'.row + 1]
  BY <1>1, <1>2, <1>3 DEF InStep, Current, primary
<1>. QED  BY <1>6, <1>7

\* Every step leaves each replica where the events it was given lead.
LEMMA NextInStep ==
  ASSUME InStepAssumption, IInv, IInv', InStep, [Next]_vars
  PROVE  InStep'
<1>1. \A r \in Replicas, t \in Tables :
         pc # "apply" => Given(r, t) = Position(t) /\ Position(t) \in Nat
  BY PositionCases DEF Given
<1>2. \A t \in Tables : /\ Position(t) \in Nat /\ cursors[t] \in Nat /\ saved[t] \in Nat
                        /\ Position(t) <= Len(feed[t]) /\ Len(feed[t]) \in Nat
  BY PositionCases
<1>3. CASE \E t \in Tables : Write(t)
  BY <1>3, WriteInStep
<1>4. CASE Start \/ Loop
  <2>1. pc' # "apply" /\ rep' = 1 /\ UNCHANGED <<rows, feed, copy, missed>>
    BY <1>4 DEF InStep, Start, Loop, primary, batch, history
  <2>2. \A r \in Replicas, t \in Tables : Position(t)' = Given(r, t)
    BY <1>4 DEF Start, Loop, Given, Position, InBatch, batch
  <2>. QED  BY <2>1, <2>2, SameInStep DEF NothingMissed
<1>5. CASE Stop
  BY <1>5 DEF InStep, Stop, NothingMissed, Given, Position, InBatch, Current, primary, batch, history
<1>6. CASE Kill \/ CheckpointFails \/ LogFails \/ Abort
  BY <1>6 DEF InStepAssumption, Kill, CheckpointFails, LogFails, Abort
<1>7. CASE SkipCheckpoint \/ Truncate \/ EndOfPass
  <2>1. pc' # "apply" /\ rep' = 1 /\ UNCHANGED <<rows, feed, copy, missed>>
    BY <1>7 DEF InStep, SkipCheckpoint, Truncate, EndOfPass, primary, batch, history
  <2>2. \A r \in Replicas, t \in Tables : Position(t)' = Given(r, t)
    BY <1>7 DEF SkipCheckpoint, Truncate, EndOfPass, Given, Position, InBatch, batch
  <2>. QED  BY <2>1, <2>2, SameInStep DEF NothingMissed
<1>8. CASE WriteCheckpoint
  <2>1. pc' # "apply" /\ rep' = 1 /\ UNCHANGED <<rows, feed, copy, missed>>
    BY <1>8 DEF InStep, WriteCheckpoint, Saved, GoDown, Forget, primary, batch, history
  <2>2. \A r \in Replicas, t \in Tables : Position(t)' = Given(r, t)
    BY <1>8 DEF WriteCheckpoint, Saved, GoDown, Given, Position, InBatch
  <2>. QED  BY <2>1, <2>2, SameInStep DEF NothingMissed
<1>9. CASE Log
  <2>1. /\ pc = "log" /\ pc' = "event" /\ tab \in Tables /\ rep' = 1 /\ UNCHANGED <<rows, feed, copy, tab, cursors>>
        /\ pos' = FirstKept(tab)
        /\ missed' = [missed EXCEPT ![tab] = @ \cup (cursors[tab] + 1 .. pos')]
    BY <1>9 DEF InStep, Log, primary
  <2>2. missed \in [Tables -> SUBSET Nat]
    BY DEF IInv, TypeOK
  <2>3. NothingMissed' => NothingMissed /\ cursors[tab] + 1 .. pos' = {}
    BY <2>1, <2>2 DEF NothingMissed
  <2>4. Position(tab) = cursors[tab] /\ pos' \in Nat /\ cursors[tab] <= pos'
    <3>1. Len(feed[tab]) - RingCap \in Int
      BY <1>2, <2>1, SizesAssumption
    <3>. QED  BY <1>2, <2>1, <3>1, LargerOfNat DEF FirstKept, Position, InBatch
  <2>5. NothingMissed' => pos' = cursors[tab]
    <3>. SUFFICES ASSUME NothingMissed', pos' # cursors[tab] PROVE FALSE
      OBVIOUS
    <3>1. pos' \in cursors[tab] + 1 .. pos'
      BY <1>2, <2>1, <2>4
    <3>. QED  BY <2>3, <3>1
  <2>6. NothingMissed' => \A r \in Replicas, t \in Tables : Position(t)' = Given(r, t)
    BY <2>1, <2>4, <2>5 DEF Given, Position, InBatch
  <2>. QED  BY <2>1, <2>3, <2>6, SameInStep
<1>10. CASE EndOfBatch
  <2>1. pc' # "apply" /\ rep' = 1 /\ UNCHANGED <<rows, feed, copy, missed>>
    BY <1>10 DEF InStep, EndOfBatch, NextTable, primary, history
  <2>2. \A r \in Replicas, t \in Tables : Position(t)' = Given(r, t)
    BY <1>10 DEF EndOfBatch, NextTable, Given, Position, InBatch, IInv, TypeOK
  <2>. QED  BY <2>1, <2>2, SameInStep DEF NothingMissed
<1>11. CASE Fetch \/ StartDelete
  <2>1. /\ pc = "event" /\ pc' = "apply" /\ rep' = 1 /\ rep = 1
        /\ UNCHANGED <<rows, feed, copy, tab, pos, cursors, saved, missed>>
    BY <1>11 DEF InStep, Fetch, StartDelete, primary, batch, history
  <2>2. \A r \in Replicas, t \in Tables : Given(r, t)' = Given(r, t)
    BY <2>1 DEF Given, Position, InBatch, Replicas
  <2>3. Current'.op = "I" => Current'.row < Len(rows'[tab']) /\ row' = rows'[tab'][Current'.row + 1]
    BY <1>11, <2>1 DEF Fetch, StartDelete, Current
  <2>. QED  BY <2>1, <2>2, <2>3 DEF InStep, NothingMissed
<1>12. CASE SkipInsert \/ IgnoreUpdate
  <2>1. ~NothingMissed
    <3>. SUFFICES ASSUME NothingMissed PROVE FALSE
      OBVIOUS
    <3>1. /\ pc = "event" /\ tab \in Tables /\ pos \in Nat /\ Position(tab) = pos /\ 1 \in Replicas
          /\ pos < Len(feed[tab]) /\ feed[tab] \in Seq(Event) /\ rows[tab] \in Seq(Row)
          /\ copy[1][tab] \in Seq(Row) /\ Len(rows[tab]) \in Nat
      BY <1>2, <1>12, SizesAssumption, LenProperties, SMTT(30)
         DEF SkipInsert, IgnoreUpdate, IInv, TypeOK, BatchInFeed, Position, InBatch, Replicas
    <3>2. Behind(copy[1][tab], rows[tab], feed[tab], pos)
      BY <1>1, <3>1 DEF InStep
    <3>3. Current \in Event /\ Current.op \in {"I", "D"} /\ (Current.op = "I" => Current.row < Len(rows[tab]))
      <4>1. pos + 1 \in 1 .. Len(feed[tab])
        BY <1>2, <3>1
      <4>. QED  BY <3>1, <3>2, <4>1, BehindNext, ElementOfSeq DEF Current
    <3>. QED  BY <1>12, <3>1, <3>3 DEF SkipInsert, IgnoreUpdate, InStepAssumption, Event
  <2>2. missed' = missed /\ rep' = 1
    BY <1>12 DEF SkipInsert, IgnoreUpdate, Replayed
  <2>. QED  BY <2>1, <2>2 DEF InStep, NothingMissed
<1>13. CASE Apply
  BY <1>13, ApplyInStep
<1>14. CASE UNCHANGED vars
  BY <1>14 DEF InStep, NothingMissed, Given, Position, InBatch, Current, vars, primary, process, batch, history
<1>. QED
  BY <1>3, <1>4, <1>5, <1>6, <1>7, <1>8, <1>9, <1>10, <1>11, <1>12, <1>13, <1>14
     DEF Next, Checkpoint, Replay

\* So it is always.
LEMMA InStepAlways == ASSUME InStepAssumption PROVE Spec => []InStep
<1>1. Init => InStep
  BY InitInStep
<1>2. IInv /\ IInv' /\ InStep /\ [Next]_vars => InStep'
  BY NextInStep
<1>. QED  BY <1>1, <1>2, Invariance, PTL DEF Spec

\* With inserts at any time and deletes only when the replay has caught up, and
\* with no failures, stops and restarts apart: as long as the ring has lost
\* nothing, a replica that has caught up equals the primary, row id by row id.
THEOREM CaughtUpEquals ==
  ASSUME InStepAssumption
  PROVE  Spec => [](NothingMissed => CaughtUpInSync)
<1>1. IInv /\ InStep => (NothingMissed => CaughtUpInSync)
  <2>. SUFFICES ASSUME IInv, InStep, NothingMissed, NEW r \in Replicas, NEW t \in Tables,
                       Position(t) = Len(feed[t])
                PROVE  copy[r][t] = rows[t]
    BY DEF CaughtUpInSync
  <2>1. /\ copy[r][t] \in Seq(Row) /\ rows[t] \in Seq(Row) /\ feed[t] \in Seq(Event)
        /\ Len(feed[t]) \in Nat
    BY LenProperties DEF IInv, TypeOK
  <2>2. Given(r, t) = Len(feed[t])
    BY <2>1, GivenType
  <2>3. Behind(copy[r][t], rows[t], feed[t], Len(feed[t]))
    BY <2>2 DEF InStep
  <2>. QED  BY <2>1, <2>3, CaughtUp
<1>. QED  BY <1>1, Invariance, InStepAlways, PTL

\* The ring loses nothing if it holds all that is ever written.
LEMMA NextNothingMissed ==
  ASSUME MaxEvents <= RingCap, IInv, [Next]_vars,
         NothingMissed, \A t \in Tables : Len(feed[t]) <= MaxEvents
  PROVE  NothingMissed' /\ \A t \in Tables : Len(feed'[t]) <= MaxEvents
<1>1. CASE \E t \in Tables : Write(t)
  <2>1. PICK t \in Tables : Write(t)
    BY <1>1
  <2>2. PICK e \in Event, u \in Seq(Row) : feed' = [feed EXCEPT ![t] = Append(@, e)]
    BY <2>1, WriteEffect DEF IInv
  <2>3. Len(feed[t]) < MaxEvents /\ missed' = missed
    BY <2>1 DEF Write, Writable, history
  <2>4. feed[t] \in Seq(Event) /\ Len(feed[t]) \in Nat /\ Len(Append(feed[t], e)) = Len(feed[t]) + 1
    BY LenProperties, AppendProperties DEF IInv, TypeOK
  <2>5. \A b \in Tables : feed'[b] = IF b = t THEN Append(feed[t], e) ELSE feed[b]
    BY <2>2 DEF IInv, TypeOK
  <2>6. \A b \in Tables : Len(feed'[b]) <= MaxEvents
    <3>1. Len(Append(feed[t], e)) <= MaxEvents
      BY <2>3, <2>4, SizesAssumption
    <3>. QED  BY <2>5, <3>1
  <2>. QED  BY <2>3, <2>6 DEF NothingMissed
<1>2. CASE Log
  <2>1. /\ tab \in Tables /\ feed' = feed /\ pos' = LargerOf(cursors[tab], Len(feed[tab]) - RingCap)
        /\ missed' = [missed EXCEPT ![tab] = @ \cup (cursors[tab] + 1 .. pos')]
    BY <1>2 DEF Log, FirstKept, primary
  <2>2. cursors[tab] \in Nat /\ Len(feed[tab]) - RingCap \in Int /\ Len(feed[tab]) - RingCap <= 0
    BY <2>1, PositionCases, SizesAssumption
  <2>3. pos' = cursors[tab]
    BY <2>1, <2>2 DEF LargerOf
  <2>4. cursors[tab] + 1 .. pos' = {}
    BY <2>2, <2>3
  <2>5. missed' = missed
    BY <2>1, <2>4 DEF IInv, TypeOK
  <2>. QED  BY <2>1, <2>5 DEF NothingMissed
<1>3. CASE UNCHANGED <<feed, missed>>
  BY <1>3 DEF NothingMissed
<1>4. CASE Start \/ Stop \/ Loop \/ Kill
  BY <1>3, <1>4 DEF Start, Stop, Loop, Kill, primary, history
<1>5. CASE Checkpoint
  BY <1>3, <1>5 DEF Checkpoint, SkipCheckpoint, Truncate, WriteCheckpoint, CheckpointFails, primary, history
<1>6. CASE Replay
  <2>1. CASE LogFails \/ EndOfBatch \/ EndOfPass \/ Fetch \/ StartDelete \/ Abort
    BY <1>3, <2>1 DEF LogFails, EndOfBatch, EndOfPass, Fetch, StartDelete, Abort, primary, history
  <2>2. CASE SkipInsert \/ IgnoreUpdate \/ Apply
    BY <1>3, <2>2 DEF SkipInsert, IgnoreUpdate, Apply, primary
  <2>. QED  BY <1>2, <1>6, <2>1, <2>2 DEF Replay
<1>7. CASE UNCHANGED vars
  BY <1>3, <1>7 DEF vars, primary, history
<1>. QED  BY <1>1, <1>4, <1>5, <1>6, <1>7 DEF Next

\* A ring that holds every event there may be makes the replicator miss none.
LEMMA RingHoldsAll == ASSUME InStepAssumption, MaxEvents <= RingCap PROVE Spec => []NothingMissed
<1>. DEFINE Kept == NothingMissed /\ \A t \in Tables : Len(feed[t]) <= MaxEvents
<1>1. Init => Kept
  <2>. SUFFICES ASSUME Init PROVE Kept
    OBVIOUS
  <2>1. Snapshot - Base = 0
    BY SizesAssumption, KindsAssumption DEF InStepAssumption, Base
  <2>2. \A t \in Tables : Len(feed[t]) = 0
    BY <2>1, FunctionIsSeq DEF Init
  <2>3. \A t \in Tables : Len(feed[t]) <= MaxEvents
    BY <2>2, SizesAssumption
  <2>4. NothingMissed
    BY DEF Init, NothingMissed
  <2>. QED  BY <2>3, <2>4
<1>2. IInv /\ Kept /\ [Next]_vars => Kept'
  BY NextNothingMissed
<1>3. Kept => NothingMissed
  OBVIOUS
<1>. HIDE DEF Kept
<1>. QED  BY <1>1, <1>2, <1>3, Invariance, PTL DEF Spec

\* So without condition, if no more events are ever written than the ring holds.
THEOREM ReplicasCatchUp ==
  ASSUME InStepAssumption, MaxEvents <= RingCap
  PROVE  Spec => []CaughtUpInSync
BY CaughtUpEquals, RingHoldsAll, PTL

\* What the insert of a row replays is the next row id of the replica.
LEMMA NextRowId ==
  ASSUME InStepAssumption, IInv, InStep, NothingMissed, [Next]_vars, NEW r \in Replicas, NEW t \in Tables,
         Len(copy'[r][t]) > Len(copy[r][t])
  PROVE  Len(copy[r][t]) = Current.row
<1>1. Len(copy[r][t]) \in Nat /\ copy[r][t] \in Seq(Row)
  BY LenProperties DEF IInv, TypeOK
<1>2. Apply
  <2>1. copy' # copy
    BY <1>1
  <2>. QED
    BY <2>1 DEF InStepAssumption, Next, Write, Start, Stop, Loop, Kill, Checkpoint, SkipCheckpoint, Truncate,
                WriteCheckpoint, CheckpointFails, Replay, Log, LogFails, EndOfBatch, EndOfPass, Fetch, SkipInsert,
                StartDelete, IgnoreUpdate, Abort, vars
<1>3. /\ pc = "apply" /\ tab \in Tables /\ pos \in Nat /\ pos < next /\ rep \in Replicas
      /\ Position(tab) = pos /\ Len(feed[tab]) \in Nat /\ pos < Len(feed[tab])
      /\ copy \in [Replicas -> [Tables -> Seq(Row)]]
      /\ rows[tab] \in Seq(Row) /\ feed[tab] \in Seq(Event)
  BY <1>2, LenProperties, SMTT(30) DEF Apply, IInv, TypeOK, BatchInFeed, Position, InBatch
<1>4. copy' = [copy EXCEPT ![rep][tab] = IF Current.op = "I" THEN Append(@, row)
                                         ELSE SwapDelete(@, Current.row)]
  BY <1>2 DEF Apply, Effect, InStepAssumption
<1>5. r = rep /\ t = tab
  BY <1>1, <1>3, <1>4
<1>6. Behind(copy[rep][tab], rows[tab], feed[tab], pos)
  BY <1>3 DEF InStep, Given, Replicas
<1>7. CASE Current.op = "I"
  <2>1. Extends(copy[rep][tab], rows[tab], feed[tab], pos)
    BY <1>6, <1>7 DEF Behind, Current
  <2>2. pos + 1 \in pos + 1 .. Len(feed[tab])
    BY <1>3
  <2>3. feed[tab][pos + 1].row = Len(copy[rep][tab]) + ((pos + 1) - pos) - 1
    BY <2>1, <2>2 DEF Extends
  <2>. QED  BY <1>1, <1>3, <1>5, <2>3 DEF Current
<1>8. CASE Current.op # "I"
  <2>1. copy'[r][t] = SwapDelete(copy[r][t], Current.row) /\ Current.op = "D"
    <3>1. copy'[r][t] = SwapDelete(copy[r][t], Current.row)
      BY <1>3, <1>4, <1>5, <1>8
    <3>2. Current.op = "D"
      BY <1>3, <1>6, <1>8, BehindNext DEF Current
    <3>. QED  BY <3>1, <3>2
  <2>2. Current \in Event
    BY <1>3, ElementOfSeq DEF Current
  <2>3. Current.row \in Nat /\ copy[r][t] \in Seq(Row)
    BY <1>1, <2>2 DEF Event
  <2>4. Len(SwapDelete(copy[r][t], Current.row)) <= Len(copy[r][t])
    BY <2>3, SwapDeleteSeq
  <2>5. Len(copy'[r][t]) \in Nat
    BY <2>1, <2>3, SwapDeleteSeq, LenProperties
  <2>. QED  BY <1>1, <2>1, <2>4, <2>5
<1>. QED  BY <1>7, <1>8

\* An insert gives the row the id on every replica that it has on the primary,
\* as long as rows are deleted only when the replay has caught up, nothing fails
\* and the ring holds all events.
THEOREM RowIdsAreThePrimarys ==
  ASSUME InStepAssumption, MaxEvents <= RingCap
  PROVE  Spec => RowIdsMatch
<1>. DEFINE A == \A r \in Replicas, t \in Tables :
                   Len(copy'[r][t]) > Len(copy[r][t]) => Len(copy[r][t]) = Current.row
<1>1. IInv /\ InStep /\ NothingMissed /\ [Next]_vars => [A]_vars
  BY NextRowId
<1>. HIDE DEF A
<1>2. Spec => [][A]_vars
  BY <1>1, Invariance, InStepAlways, RingHoldsAll, PTL DEF Spec
<1>. QED  BY <1>2 DEF RowIdsMatch, A

-----------------------------------------------------------------------------
(* The replicator implements LogTail: its initial states map to initial    *)
(* states, and each of its steps to a step of the abstract tailer or to a  *)
(* stutter.                                                                *)

\* Three ways to map a step that publishes and delivers nothing.
LEMMA MapStutter ==
  ASSUME UNCHANGED <<feed, saved, seen, missed>>,
         \A t \in Tables : Position(t)' = Position(t)
  PROVE  UNCHANGED Feed!vars
BY DEF Feed!vars

\* A restart: the position falls back to the checkpoint or not as far.
LEMMA MapRewind ==
  ASSUME UNCHANGED <<feed, saved, seen, missed>>,
         \A t \in Tables : /\ Position(t)' \in Nat
                           /\ saved[t] <= Position(t)' /\ Position(t)' <= Position(t)
  PROVE  Feed!Rewind
BY DEF Feed!Rewind

\* A checkpoint is written, whole or torn.
LEMMA MapAcknowledge ==
  ASSUME UNCHANGED <<feed, seen, missed>>, saved' \in [Tables -> Nat],
         \A t \in Tables : Position(t)' = Position(t) /\ saved'[t] <= Position(t)
  PROVE  Feed!Acknowledge
BY DEF Feed!Acknowledge

\* An event is done with: delivered.
LEMMA MapDeliver ==
  ASSUME IInv, pc \in {"event", "apply"}, pos < next, Replayed,
         UNCHANGED <<feed, saved, cursors, tab, missed>>
  PROVE  Feed!Next
<1>1. /\ tab \in Tables /\ pos' = pos + 1 /\ pc' = "event"
      /\ pos \in Nat /\ next \in Nat /\ next <= Len(feed[tab])
      /\ seen' = [seen EXCEPT ![tab] = @ \cup {pos + 1}]
  BY DEF IInv, BatchInFeed, TypeOK, Replayed
<1>2. Position(tab) = pos /\ Position(tab)' = pos + 1 /\ pos < Len(feed[tab])
  BY <1>1, PositionCases DEF Position, InBatch
<1>3. \A t \in Tables \ {tab} : Position(t)' = Position(t)
  BY <1>1, PositionCases DEF Position, InBatch
<1>4. Feed!Deliver(tab)
  BY <1>1, <1>2, <1>3 DEF Feed!Deliver
<1>5. QED
  BY <1>1, <1>4 DEF Feed!Next

-----------------------------------------------------------------------------

\* Initial states map to initial states.
LEMMA MapInit == Init => Feed!Init
<1> SUFFICES ASSUME Init PROVE Feed!Init
  OBVIOUS
<1>1. IInv /\ pc = "down" /\ saved = Zero
  BY InitInv DEF Init
<1>2. \A t \in Tables : Len(feed[t]) \in Nat /\ Position(t) = 0
  BY <1>1, PositionCases DEF Zero
<1>3. seen = [t \in Tables |-> {}] /\ missed = [t \in Tables |-> {}]
  BY DEF Init
<1>4. QED
  BY <1>1, <1>2, <1>3 DEF Feed!Init, Zero

\* A write at the primary publishes one event and moves no position.
LEMMA MapWrite ==
  ASSUME IInv, NEW t \in Tables, Write(t)
  PROVE  Feed!Next
<1>1. /\ UNCHANGED <<saved, pc, cursors, tab, pos, seen, missed>>
      /\ feed[t] \in Seq(Event) /\ feed \in [Tables -> Seq(Event)]
      /\ rows[t] \in Seq(Row) /\ Len(rows[t]) \in Nat
  BY LenProperties DEF Write, IInv, TypeOK, process, batch, history
<1>2. PICK e \in Event : feed' = [feed EXCEPT ![t] = Append(@, e)]
  BY WriteEffect DEF IInv
<1>3. \A s \in Tables : Len(feed'[s]) = IF s = t THEN Len(feed[s]) + 1 ELSE Len(feed[s])
  BY <1>1, <1>2, AppendProperties
<1>4. \A s \in Tables : Position(s)' = Position(s)
  BY <1>1 DEF Position, InBatch
<1>5. Feed!Publish(t)
  BY <1>1, <1>3, <1>4 DEF Feed!Publish
<1>6. QED
  BY <1>5 DEF Feed!Next

\* A restart resumes at the checkpoint: Kill rewinds, the others stutter.
LEMMA MapLife ==
  ASSUME IInv, IInv', Start \/ Stop \/ Loop \/ Kill
  PROVE  [Feed!Next]_(Feed!vars)
<1>1. CASE Start
  BY <1>1, MapStutter DEF Start, Position, InBatch, primary, history
<1>2. CASE Stop
  BY <1>2, MapStutter DEF Stop, Position, InBatch, primary, batch, history
<1>3. CASE Loop
  BY <1>3, MapStutter DEF Loop, Position, InBatch, primary, history
<1>4. CASE Kill
  <2>1. \A t \in Tables : Position(t)' = saved[t]
    BY <1>4 DEF Kill, GoDown, Position
  <2>2. Feed!Rewind
    BY <1>4, <2>1, PositionCases, MapRewind DEF Kill, primary, history
  <2>3. QED
    BY <2>2 DEF Feed!Next
<1>5. QED
  BY <1>1, <1>2, <1>3, <1>4

\* Truncating and writing the file acknowledge; a file that could not be
\* written and an exiting process rewind.
LEMMA MapCheckpoint ==
  ASSUME IInv, IInv', Checkpoint
  PROVE  [Feed!Next]_(Feed!vars)
<1>1. TypeOK /\ TypeOK' /\ \A t \in Tables : Zero[t] = 0
  BY DEF IInv, Zero
<1>2. CASE SkipCheckpoint
  BY <1>2, MapStutter DEF SkipCheckpoint, Position, InBatch, primary, batch, history
<1>3. CASE Truncate
  <2>1. \A t \in Tables : Position(t)' = Position(t) /\ saved'[t] <= Position(t)
    BY <1>1, <1>3, PositionCases DEF Truncate, Position, InBatch, batch
  <2>2. saved' \in [Tables -> Nat]
    BY <1>1 DEF TypeOK
  <2>3. QED
    BY <1>3, <2>1, <2>2, MapAcknowledge DEF Truncate, Feed!Next, primary, history
<1>4. CASE WriteCheckpoint
  <2>1. \A t \in Tables : Position(t) = cursors[t]
    BY <1>4, PositionCases DEF WriteCheckpoint
  <2>2. \A t \in Tables : Position(t)' = cursors[t]
    BY <1>1, <1>4, SavedEffect DEF WriteCheckpoint, Position, InBatch
  <2>3. saved' \in [Tables -> Nat] /\ \A t \in Tables : cursors[t] \in Nat
    BY <1>1 DEF TypeOK
  <2>4. Feed!Acknowledge
    BY <1>4, <2>1, <2>2, <2>3, MapAcknowledge DEF WriteCheckpoint, primary, history
  <2>5. QED
    BY <2>4 DEF Feed!Next
<1>5. CASE CheckpointFails
  <2>1. \A t \in Tables : Position(t) = cursors[t]
    BY <1>5, PositionCases DEF CheckpointFails, Saved
  <2>2. CASE pc' = "loop" /\ cursors' = cursors
    BY <1>5, <2>1, <2>2, MapStutter DEF CheckpointFails, Position, InBatch, primary, history
  <2>3. CASE pc' = "down"
    <3>1. \A t \in Tables : Position(t)' = saved[t]
      BY <1>5, <2>3 DEF CheckpointFails, Position
    <3>2. Feed!Rewind
      BY <1>5, <3>1, PositionCases, MapRewind DEF CheckpointFails, primary, history
    <3>3. QED
      BY <3>2 DEF Feed!Next
  <2>4. QED
    BY <1>1, <1>5, <2>2, <2>3, SavedEffect DEF CheckpointFails
<1>6. QED
  BY <1>2, <1>3, <1>4, <1>5 DEF Checkpoint

\* LOG jumps over what the ring has dropped, if anything.
LEMMA MapLog ==
  ASSUME IInv, Log
  PROVE  [Feed!Next]_(Feed!vars)
<1> DEFINE n == Len(feed[tab])
<1>1. /\ tab \in Tables /\ n \in Nat /\ cursors[tab] \in Nat /\ RingCap \in Nat
      /\ pc = "log" /\ pc' = "event" /\ UNCHANGED <<feed, saved, cursors, tab, seen>>
      /\ missed \in [Tables -> SUBSET Nat]
      /\ missed' = [missed EXCEPT ![tab] = @ \cup (cursors[tab] + 1 .. pos')]
  BY SizesAssumption, LenProperties DEF Log, IInv, TypeOK, primary
<1>2. /\ \A t \in Tables : Position(t) = cursors[t]
      /\ Position(tab)' = pos'
      /\ \A t \in Tables \ {tab} : Position(t)' = Position(t)
  BY <1>1, PositionCases DEF Position, InBatch
<1>3. pos' = LargerOf(cursors[tab], n - RingCap)
  BY DEF Log, FirstKept
<1>4. CASE cursors[tab] < n - RingCap
  <2>1. pos' = n - RingCap /\ n - cursors[tab] > RingCap
    BY <1>1, <1>3, <1>4 DEF LargerOf
  <2>2. Feed!Overrun(tab)
    BY <1>1, <1>2, <2>1 DEF Feed!Overrun
  <2>3. QED
    BY <1>1, <2>2 DEF Feed!Next
<1>5. CASE ~(cursors[tab] < n - RingCap)
  <2>1. pos' = cursors[tab] /\ cursors[tab] + 1 .. pos' = {}
    BY <1>1, <1>3, <1>5 DEF LargerOf
  <2>2. missed' = missed
    BY <1>1, <2>1
  <2>3. QED
    BY <1>1, <1>2, <2>1, <2>2, MapStutter
<1>6. QED
  BY <1>4, <1>5

\* The steps of the event loop.
LEMMA MapReplay ==
  ASSUME IInv, IInv', Replay
  PROVE  [Feed!Next]_(Feed!vars)
<1>1. TypeOK /\ BatchInFeed
  BY DEF IInv
<1>2. CASE Log
  BY <1>2, MapLog
<1>3. CASE LogFails \/ EndOfPass
  BY <1>3, MapStutter DEF LogFails, EndOfPass, NextTable, Position, InBatch, primary, history
<1>4. CASE EndOfBatch
  <2>1. /\ pc = "event" /\ pc' = "log" /\ next = pos /\ tab \in Tables
        /\ cursors' = [cursors EXCEPT ![tab] = pos] /\ cursors \in [Tables -> Nat]
    BY <1>1, <1>4 DEF EndOfBatch, NextTable, BatchInFeed, TypeOK
  <2>2. \A t \in Tables : Position(t)' = Position(t)
    BY <2>1, PositionCases DEF Position, InBatch
  <2>3. QED
    BY <1>4, <2>2, MapStutter DEF EndOfBatch, primary, history
<1>5. CASE Fetch \/ StartDelete
  <2>1. /\ pc = "event" /\ pc' = "apply"
        /\ UNCHANGED <<feed, saved, cursors, tab, pos, seen, missed>>
    BY <1>5 DEF Fetch, StartDelete, primary, batch, history
  <2>2. \A t \in Tables : Position(t)' = Position(t)
    BY <2>1 DEF Position, InBatch
  <2>3. QED
    BY <2>1, <2>2, MapStutter
<1>6. CASE SkipInsert \/ IgnoreUpdate
  <2>1. /\ pc = "event" /\ pos < next /\ Replayed
        /\ UNCHANGED <<feed, saved, cursors, tab, missed>>
    BY <1>6 DEF SkipInsert, IgnoreUpdate, primary
  <2>2. QED
    BY <2>1, MapDeliver
<1>7. CASE Apply
  <2>1. pc = "apply" /\ pos < next /\ UNCHANGED <<feed, saved, cursors, tab, missed>>
    BY <1>1, <1>7 DEF Apply, BatchInFeed, primary
  <2>2. CASE UNCHANGED <<pc, pos, row, seen, again>>
    <3>1. \A t \in Tables : Position(t)' = Position(t)
      BY <2>1, <2>2 DEF Position, InBatch
    <3>2. QED
      BY <2>1, <2>2, <3>1, MapStutter
  <2>3. CASE Replayed
    BY <2>1, <2>3, MapDeliver
  <2>4. QED
    BY <1>7, <2>2, <2>3 DEF Apply
<1>8. CASE Abort
  <2>1. /\ pc \in {"log", "event", "apply"} /\ pc' = "close"
        /\ UNCHANGED <<feed, saved, cursors, seen, missed>>
    BY <1>8 DEF Abort, primary, history
  <2>2. \A t \in Tables : Position(t)' = cursors[t]
    BY <2>1 DEF Position, InBatch
  <2>3. \A t \in Tables : /\ Position(t)' \in Nat
                          /\ saved[t] <= Position(t)' /\ Position(t)' <= Position(t)
    BY <1>1, <2>1, <2>2, PositionCases DEF IInv, Ordered, BatchInFeed
  <2>4. Feed!Rewind
    BY <2>1, <2>3, MapRewind
  <2>5. QED
    BY <2>4 DEF Feed!Next
<1>9. QED
  BY <1>2, <1>3, <1>4, <1>5, <1>6, <1>7, <1>8 DEF Replay

\* Every step maps to a step of LogTail or to a stutter.
LEMMA MapNext == IInv /\ IInv' /\ [Next]_vars => [Feed!Next]_(Feed!vars)
<1> SUFFICES ASSUME IInv, IInv', [Next]_vars PROVE [Feed!Next]_(Feed!vars)
  OBVIOUS
<1>1. CASE \E t \in Tables : Write(t)
  BY <1>1, MapWrite
<1>2. CASE Start \/ Stop \/ Loop \/ Kill
  BY <1>2, MapLife
<1>3. CASE Checkpoint
  BY <1>3, MapCheckpoint
<1>4. CASE Replay
  BY <1>4, MapReplay
<1>5. CASE UNCHANGED vars
  BY <1>5, MapStutter DEF vars, Position, InBatch, primary, process, batch, history
<1>6. QED
  BY <1>1, <1>2, <1>3, <1>4, <1>5 DEF Next

\* The replicator is an in-order, at-least-once tailer: deliveries follow the
\* feed, positions move back only on an abort or a restart, never below the
\* checkpoint, and events are skipped only when the ring has dropped them.
THEOREM Refinement == Spec => ImplementsTail
<1>1. Init => Feed!Init
  BY MapInit
<1>2. IInv /\ IInv' /\ [Next]_vars => [Feed!Next]_(Feed!vars)
  BY MapNext
<1>3. QED
  BY <1>1, <1>2, Invariance, PTL DEF Spec, ImplementsTail, Feed!Spec
=============================================================================
