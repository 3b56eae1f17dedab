----------------------------- MODULE Replicator -----------------------------
(***************************************************************************)
(* The change-feed replicator, adapters/python/cuttledb/replicate.py: one  *)
(* process that tails LOG on a primary and replays INSERT and DELETE into  *)
(* every replica, keeping one cursor per table in a checkpoint file.       *)
(*                                                                         *)
(* Each call to a server is one step (the client waits for the answer      *)
(* under its lock), so the primary's writers interleave with the           *)
(* replicator between any two of its calls.  The primary and the replicas  *)
(* are external: their tables, the swap-with-last DELETE and the LOG ring  *)
(* are modelled from how the code uses them and from PROTOCOL.md.          *)
(***************************************************************************)
EXTENDS Integers, Sequences

CONSTANTS
  NTables,          \* self.tables, walked in the order 1, 2, ...
  NReplicas,        \* self.replicas, written in the order 1, 2, ...
  Row,              \* row payloads
  RingCap,          \* events a LOG ring keeps (1024 in the server)
  Snapshot,         \* rows the SAVE/LOAD bootstrap put on every server
  RingHasSnapshot,  \* are the events of those rows still in the primary's ring?
  Ops,              \* the writes the primary receives, among "I", "D", "U"
  Faults,           \* the failures that may happen, among Fault
  MaxEvents,        \* bound: events per table
  MaxLag,           \* deletes and updates wait until the replay lags by less
  MaxStarts         \* bound: process starts

Tables   == 1 .. NTables
Replicas == 1 .. NReplicas
Fault    == {"err", "os", "kill", "disk"}

ASSUME SizesAssumption ==
  /\ NTables \in Nat \ {0} /\ NReplicas \in Nat \ {0}
  /\ RingCap \in Nat \ {0} /\ Snapshot \in Nat
  /\ MaxEvents \in Nat /\ MaxLag \in Nat /\ MaxStarts \in Nat
ASSUME KindsAssumption ==
  /\ RingHasSnapshot \in BOOLEAN
  /\ Ops \subseteq {"I", "D", "U"}
  /\ Faults \subseteq Fault

VARIABLES
  rows,     \* rows[t]: the primary's table t, rows[t][id + 1] is row id
  feed,     \* feed[t]: every event of t, in order; LOG returns a suffix
  copy,     \* copy[r][t]: table t on replica r
  saved,    \* saved[t]: the cursor a start would load from the checkpoint file
  pc,       \* where the process is
  running,  \* self.running
  cursors,  \* self.cursors
  tab,      \* the table the pass is at
  pos,      \* events of tab replayed so far
  next,     \* the cursor LOG returned for tab
  row,      \* the row fetched for the event being replayed
  rep,      \* the replica the event goes to next
  starts,   \* how often the process was started
  seen,     \* history: events replayed to the end at least once
  again,    \* history: events replayed to the end more than once
  missed    \* history: events LOG no longer had

primary == <<rows, feed>>
batch   == <<tab, pos, next, row, rep>>
process == <<pc, running, cursors, starts>>
history == <<seen, again, missed>>
vars    == <<primary, copy, saved, process, batch, history>>

NoRow  == [none |-> TRUE]
Stages == {"down", "loop", "log", "event", "apply", "tick", "saving", "close", "closing"}
Event  == [row : Nat, op : {"I", "D", "U"}]
Zero   == [t \in Tables |-> 0]
LargerOf(a, b) == IF a < b THEN b ELSE a

\* Row ids the snapshot took that the ring does not hold.
Base == IF RingHasSnapshot THEN 0 ELSE Snapshot

TypeOK ==
  /\ rows \in [Tables -> Seq(Row)]
  /\ feed \in [Tables -> Seq(Event)]
  /\ copy \in [Replicas -> [Tables -> Seq(Row)]]
  /\ saved \in [Tables -> Nat] /\ cursors \in [Tables -> Nat]
  /\ pc \in Stages /\ running \in BOOLEAN /\ starts \in Nat
  /\ tab \in 1 .. NTables + 1 /\ rep \in Replicas
  /\ pos \in Nat /\ next \in Nat
  /\ row \in Row \cup {NoRow}
  /\ seen \in [Tables -> SUBSET Nat]
  /\ again \in [Tables -> SUBSET Nat]
  /\ missed \in [Tables -> SUBSET Nat]

Init ==
  /\ \E snap \in [Tables -> [1 .. Snapshot -> Row]] :
       rows = snap /\ copy = [r \in Replicas |-> snap]
  /\ feed = [t \in Tables |->
               [i \in 1 .. Snapshot - Base |-> [row |-> i - 1, op |-> "I"]]]
  /\ saved = Zero /\ cursors = Zero
  /\ pc = "down" /\ running = FALSE /\ starts = 0
  /\ tab = 1 /\ pos = 0 /\ next = 0 /\ row = NoRow /\ rep = 1
  /\ seen = [t \in Tables |-> {}]
  /\ again = [t \in Tables |-> {}] /\ missed = [t \in Tables |-> {}]

-----------------------------------------------------------------------------
(* The primary, external.                                                  *)

InBatch(t) == t = tab /\ pc \in {"event", "apply"}

\* How far the process has got in t; while it is down, where it would resume.
Position(t) ==
  IF pc = "down" THEN saved[t] ELSE IF InBatch(t) THEN pos ELSE cursors[t]

Writable(t) == Len(feed[t]) < MaxEvents

\* Do the writers let the replay catch up before they disturb row ids?
Paced(t) == Len(feed[t]) - Position(t) < MaxLag

\* DELETE: the last row takes the place of the deleted one; an id out of
\* range is answered "+OK 0" and changes nothing.
SwapDelete(s, id) ==
  IF id < Len(s) THEN SubSeq([s EXCEPT ![id + 1] = s[Len(s)]], 1, Len(s) - 1) ELSE s

Record(t, id, o) == feed' = [feed EXCEPT ![t] = Append(@, [row |-> id, op |-> o])]

Write(t) ==
  /\ Writable(t)
  /\ \/ "I" \in Ops /\ \E v \in Row : /\ rows' = [rows EXCEPT ![t] = Append(@, v)]
                                      /\ Record(t, Len(rows[t]), "I")
     \/ /\ "D" \in Ops /\ Paced(t)
        /\ \E id \in 0 .. Len(rows[t]) - 1 : /\ rows' = [rows EXCEPT ![t] = SwapDelete(@, id)]
                                              /\ Record(t, id, "D")
     \/ /\ "U" \in Ops /\ Paced(t)
        /\ \E id \in 0 .. Len(rows[t]) - 1, v \in Row : /\ rows' = [rows EXCEPT ![t][id + 1] = v]
                                                        /\ Record(t, id, "U")
  /\ UNCHANGED <<copy, saved, process, batch, history>>

-----------------------------------------------------------------------------
(* The life of the process: main(), connect(), stop(), run(), close().     *)

\* Mutant: the checkpoint is not loaded.
StartAtZero ==
  /\ pc = "down" /\ starts < MaxStarts
  /\ starts' = starts + 1
  /\ cursors' = Zero
  /\ running' = TRUE /\ pc' = "loop"
  /\ UNCHANGED <<primary, copy, saved, batch, history>>

\* connect() and _load_checkpoint(): a file that is absent or does not parse
\* is {}, and every table without an entry starts at 0.
Start ==
  /\ pc = "down" /\ starts < MaxStarts
  /\ starts' = starts + 1
  /\ cursors' = saved
  /\ running' = TRUE /\ pc' = "loop"
  /\ UNCHANGED <<primary, copy, saved, batch, history>>

\* The SIGINT / SIGTERM handler.  (Bound: the last process is left running.)
Stop ==
  /\ running /\ starts < MaxStarts
  /\ running' = FALSE
  /\ UNCHANGED <<primary, copy, saved, pc, cursors, starts, batch, history>>

\* The top of run()'s loop: the only place that looks at self.running.
Loop ==
  /\ pc = "loop"
  /\ pc' = IF running THEN "log" ELSE "close"
  /\ tab' = 1
  /\ UNCHANGED <<primary, copy, saved, running, cursors, starts, pos, next, row, rep, history>>

\* After a pass: the 5 s checkpoint is due, or it is not.
SkipCheckpoint ==
  /\ pc = "tick" /\ pc' = "loop"
  /\ UNCHANGED <<primary, copy, saved, running, cursors, starts, batch, history>>

Forget == cursors' = Zero /\ tab' = 1 /\ pos' = 0 /\ next' = 0 /\ row' = NoRow /\ rep' = 1
GoDown == pc' = "down" /\ running' = FALSE /\ Forget

\* write_text opens the file with "w": it is empty from here to the write.
Truncate ==
  /\ pc \in {"tick", "close"}
  /\ pc' = IF pc = "tick" THEN "saving" ELSE "closing"
  /\ saved' = Zero
  /\ UNCHANGED <<primary, copy, running, cursors, starts, batch, history>>

\* _save_checkpoint returns: to the loop, or out of the process.
Saved ==
  \/ pc \in {"tick", "saving"} /\ pc' = "loop" /\ UNCHANGED <<running, cursors, batch>>
  \/ pc \in {"close", "closing"} /\ GoDown

WriteCheckpoint ==
  /\ pc \in {"saving", "closing"}
  /\ saved' = cursors
  /\ Saved
  /\ UNCHANGED <<primary, copy, starts, history>>

\* An OSError of the open or of the write is printed and swallowed.
CheckpointFails ==
  /\ "disk" \in Faults
  /\ Saved
  /\ UNCHANGED <<primary, copy, saved, starts, history>>

\* SIGKILL, power loss: all but the checkpoint file is gone.
Kill ==
  /\ "kill" \in Faults /\ pc # "down" /\ starts < MaxStarts
  /\ GoDown
  /\ UNCHANGED <<primary, copy, saved, starts, history>>

-----------------------------------------------------------------------------
(* replay_once() and _replay_event().                                      *)

\* How many events precede the first one LOG returns for the cursor of t.
FirstKept(t) == LargerOf(cursors[t], Len(feed[t]) - RingCap)

\* Mutant: the cursor moves as soon as LOG has answered.
LogMovesCursor ==
  /\ pc = "log" /\ tab \in Tables
  /\ next' = Len(feed[tab])
  /\ pos' = FirstKept(tab)
  /\ missed' = [missed EXCEPT ![tab] = @ \cup (cursors[tab] + 1 .. pos')]
  /\ cursors' = [cursors EXCEPT ![tab] = Len(feed[tab])]
  /\ pc' = "event"
  /\ UNCHANGED <<primary, copy, saved, running, starts, tab, row, rep, seen, again>>

\* LOG answers with the events after the cursor that the ring still has, and
\* with the number of events so far, the next cursor.
Log ==
  /\ pc = "log" /\ tab \in Tables
  /\ next' = Len(feed[tab])
  /\ pos' = FirstKept(tab)
  /\ missed' = [missed EXCEPT ![tab] = @ \cup (cursors[tab] + 1 .. pos')]
  /\ pc' = "event"
  /\ UNCHANGED <<primary, copy, saved, running, cursors, starts, tab, row, rep, seen, again>>

NextTable == tab' = tab + 1 /\ pos' = 0 /\ next' = 0 /\ pc' = "log"

\* A CuttleDBError from LOG is printed and the table is left for the next pass.
LogFails ==
  /\ "err" \in Faults
  /\ pc = "log" /\ tab \in Tables
  /\ NextTable
  /\ UNCHANGED <<primary, copy, saved, running, cursors, starts, row, rep, history>>

\* The batch is done: only now does the cursor move.
EndOfBatch ==
  /\ pc = "event" /\ pos = next
  /\ cursors' = [cursors EXCEPT ![tab] = next]
  /\ NextTable
  /\ UNCHANGED <<primary, copy, saved, running, starts, row, rep, history>>

EndOfPass ==
  /\ pc = "log" /\ tab > NTables
  /\ pc' = "tick" /\ tab' = 1
  /\ UNCHANGED <<primary, copy, saved, running, cursors, starts, pos, next, row, rep, history>>

Current == feed[tab][pos + 1]

\* _replay_event returned: on to the next event of the batch.
Replayed ==
  /\ pos' = pos + 1 /\ row' = NoRow /\ rep' = 1 /\ pc' = "event"
  /\ seen'  = [seen EXCEPT ![tab] = @ \cup {pos + 1}]
  /\ again' = [again EXCEPT ![tab] = @ \cup ({pos + 1} \cap seen[tab])]

\* GET of the row AS IT IS NOW at the id the event recorded.
Fetch ==
  /\ pc = "event" /\ pos < next /\ Current.op = "I"
  /\ Current.row < Len(rows[tab])
  /\ row' = rows[tab][Current.row + 1]
  /\ pc' = "apply"
  /\ UNCHANGED <<primary, copy, saved, running, cursors, starts, tab, pos, next, rep, history>>

\* GET raised CuttleDBError: "row vanished", the event is skipped.
SkipInsert ==
  /\ pc = "event" /\ pos < next /\ Current.op = "I"
  /\ Current.row >= Len(rows[tab]) \/ "err" \in Faults
  /\ Replayed
  /\ UNCHANGED <<primary, copy, saved, running, cursors, starts, tab, next, missed>>

StartDelete ==
  /\ pc = "event" /\ pos < next /\ Current.op = "D"
  /\ pc' = "apply"
  /\ UNCHANGED <<primary, copy, saved, running, cursors, starts, batch, history>>

IgnoreUpdate ==
  /\ pc = "event" /\ pos < next /\ Current.op = "U"
  /\ Replayed
  /\ UNCHANGED <<primary, copy, saved, running, cursors, starts, tab, next, missed>>

\* Mutant: DELETE goes by the position in the replica, not by the row id.
EffectOffByOne(applied) ==
  copy' = IF ~applied THEN copy
          ELSE [copy EXCEPT ![rep][tab] = IF Current.op = "I" THEN Append(@, row)
                                          ELSE SwapDelete(@, Current.row + 1)]

\* The write takes effect on the replica (or does not).
Effect(applied) ==
  copy' = IF ~applied THEN copy
          ELSE [copy EXCEPT ![rep][tab] = IF Current.op = "I" THEN Append(@, row)
                                          ELSE SwapDelete(@, Current.row)]

\* Mutant: the loop over the replicas goes one too far.
ApplyPastLast ==
  /\ pc = "apply"
  /\ Effect(TRUE)
  /\ \/ rep <= NReplicas /\ rep' = rep + 1 /\ UNCHANGED <<pc, pos, row, seen, again>>
     \/ rep > NReplicas /\ Replayed
  /\ UNCHANGED <<primary, saved, running, cursors, starts, tab, next, missed>>

\* Mutant: the event goes to the first replica only.
ApplyToFirst ==
  /\ pc = "apply"
  /\ Effect(TRUE)
  /\ Replayed
  /\ UNCHANGED <<primary, saved, running, cursors, starts, tab, next, missed>>

\* One replica's turn.  A CuttleDBError (refused, or the connection closed
\* before or after the write took effect) is printed, and the loop goes on.
Apply ==
  /\ pc = "apply"
  /\ \E applied \in {TRUE} \cup (IF "err" \in Faults THEN {FALSE} ELSE {}) : Effect(applied)
  /\ \/ rep < NReplicas /\ rep' = rep + 1 /\ UNCHANGED <<pc, pos, row, seen, again>>
     \/ rep = NReplicas /\ Replayed
  /\ UNCHANGED <<primary, saved, running, cursors, starts, tab, next, missed>>

\* Any other exception (OSError, a socket timeout: the write may have taken
\* effect) leaves run() in the middle of the batch; "finally" still closes.
Abort ==
  /\ "os" \in Faults
  /\ \/ pc = "log" /\ tab \in Tables /\ UNCHANGED copy
     \/ pc = "event" /\ pos < next /\ Current.op = "I" /\ UNCHANGED copy
     \/ pc = "apply" /\ \E applied \in BOOLEAN : Effect(applied)
  /\ pc' = "close"
  /\ tab' = 1 /\ pos' = 0 /\ next' = 0 /\ row' = NoRow /\ rep' = 1
  /\ UNCHANGED <<primary, saved, running, cursors, starts, history>>

Replay ==
  \/ Log \/ LogFails \/ EndOfBatch \/ EndOfPass
  \/ Fetch \/ SkipInsert \/ StartDelete \/ IgnoreUpdate \/ Apply \/ Abort

Checkpoint == SkipCheckpoint \/ Truncate \/ WriteCheckpoint \/ CheckpointFails

Next ==
  \/ \E t \in Tables : Write(t)
  \/ Start \/ Stop \/ Loop \/ Kill
  \/ Checkpoint
  \/ Replay

Spec == Init /\ [][Next]_vars

\* The process keeps running until it is stopped, and the service manager
\* starts it again.  Nothing is assumed of the writers.
Fairness == WF_vars(Start) /\ WF_vars(Loop \/ Checkpoint \/ Replay)

FairSpec == Spec /\ Fairness

-----------------------------------------------------------------------------
(* Properties, for any workload and any failure.                           *)

\* At least once, across kills, aborted batches and torn checkpoints: every
\* event at or below the position of a table, and so every event the
\* checkpoint file claims, was replayed or had already left the ring.
NoEventLost ==
  \A t \in Tables : /\ saved[t] <= Position(t)
                     /\ 1 .. Position(t) \subseteq seen[t] \cup missed[t]

\* The replicator is an in-order, at-least-once tailer of the feed.
Feed == INSTANCE LogTail WITH
          head <- [t \in Tables |-> Len(feed[t])],
          at   <- [t \in Tables |-> Position(t)],
          ack  <- saved
ImplementsTail == Feed!Spec

-----------------------------------------------------------------------------
(* Properties of the workloads and failures named in their comments.       *)

\* Stopping with SIGTERM and starting again replays nothing twice, as long as
\* the process is never killed, never dies of an OSError and the checkpoint
\* file can be written.
NothingRepeated ==
  Faults \subseteq {"err"} => \A t \in Tables : again[t] = {}

\* With inserts at any time, and deletes only while the replay has caught up, a
\* replica that has caught up equals the primary, row id by row id.
CaughtUpInSync ==
  \A r \in Replicas, t \in Tables :
     Position(t) = Len(feed[t]) => copy[r][t] = rows[t]

\* "INSERT into a replica creates a new row id that should match the primary's
\* id" (replicate.py:22-24).
RowIdsMatch ==
  [][\A r \in Replicas, t \in Tables :
       Len(copy'[r][t]) > Len(copy[r][t]) => Len(copy[r][t]) = Current.row]_vars

\* "CuttleDB replication is eventually consistent" (DEPLOYMENT.md:230-231):
\* once the writers are done, every replica comes to equal the primary.
EventuallyConsistent ==
  <>[](\A r \in Replicas, t \in Tables : copy[r][t] = rows[t])
=============================================================================
