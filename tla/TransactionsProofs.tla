------------------------- MODULE TransactionsProofs -------------------------
(***************************************************************************)
(* Theorems about Transactions for any number of tasks, writers and writes,*)
(* in both languages, whatever breaks and times out, checked by TLAPS.     *)
(*                                                                         *)
(* IInv is the inductive invariant.  What the properties need and do not   *)
(* say is who owns the transaction that is open on the connection: the     *)
(* task that is yet to end it, or one that left it (Owned).  Until a call  *)
(* reads an answer that is not its own, that task alone believes to be in  *)
(* a transaction (OneOwner), its COMMIT decides over every buffered write  *)
(* (Buffering, Fate), and what a task was told of its writes is what the   *)
(* server has, but for those it heard nothing of (Acknowledging); a task   *)
(* that did not hear of one finds an answer ahead of that to its COMMIT    *)
(* and cannot take its transaction for committed (Unheard).                *)
(***************************************************************************)
EXTENDS Transactions, SequenceTheorems, TLAPS

-----------------------------------------------------------------------------
(* What holds whichever answers are read by whom.                          *)

\* Writes are numbered in the order they are made, and none is ahead of its task;
\* writers only write.
Numbered ==
  /\ \A t \in All : /\ wrote[t] <= MaxWrites[t]
                    /\ stage[t] = "write" => wrote[t] >= 1
  /\ \A w \in Writes : w \in acked \cup unheard \cup buffered \cup applied \/ joined[w] # NoTask
                         => w[2] <= wrote[w[1]]
  /\ \A t \in Writers : stage[t] \in {"idle", "write"}

\* No answer is lost on a connection that holds, and none is left unread or has
\* stranded a task but by a call that timed out.
Reading ==
  /\ alive => \A t \in All : answer[t] # "lost"
  /\ unread # <<>> \/ stranded # {} => lang = "py" /\ MaxUnread > 0

\* The transaction that is open is that of a task which is yet to end it, which
\* was interrupted, or which does not know that its BEGIN was accepted.
Owned ==
  inTx => /\ alive /\ owner \in Tasks
          /\ \/ stage[owner] \in {"body", "write"}
             \/ stage[owner] = "begin" /\ answer[owner] = "ok"
             \/ stage[owner] \in {"commit", "rollback"} /\ answer[owner] = "none"
             \/ outcome[owner] = "interrupted"
             \/ owner \in stranded /\ outcome[owner] = "rejected"

-----------------------------------------------------------------------------
(* What holds until a call reads an answer that is not its own.            *)

\* BEGIN of t was accepted, and neither COMMIT nor ROLLBACK has been.
Open(t) == \/ stage[t] \in {"body", "write"}
           \/ stage[t] = "begin" /\ answer[t] = "ok"
           \/ stage[t] \in {"commit", "rollback"} /\ answer[t] # "ok"

\* COMMIT of t was accepted and t knows, or it may have been and t does not.
Kept(t) == outcome[t] = "resolved" \/ (stage[t] = "commit" /\ answer[t] = "ok")
MayHave(t)    == t \in unsure \/ (stage[t] = "commit" /\ answer[t] = "lost")

\* A task that did not read the answer to its COMMIT is past it.
Staging ==
  \A t \in unsure : stage[t] = "done" \/ (stage[t] = "rollback" /\ ~alive)

\* Nobody ends what is not his.
Answering ==
  alive => \A t \in Tasks : stage[t] \in {"commit", "rollback"} => answer[t] # "err"

OneOwner ==
  alive => \A t \in Tasks : Open(t) => inTx /\ owner = t

\* The server buffers the writes that joined the transaction that is open.
Buffering ==
  \A w \in Writes : w \in buffered <=> inTx /\ joined[w] = owner

\* A write joins a transaction only after its BEGIN; those of a task join its own.
Joining ==
  \A w \in Writes :
    /\ joined[w] # NoTask =>
         LET t == joined[w] IN
         stage[t] # "idle" /\ (stage[t] = "begin" => answer[t] \in {"ok", "lost"})
    /\ w[1] \in Tasks => joined[w] \in {NoTask, w[1]} /\ (w \in applied => joined[w] = w[1])

\* COMMIT applies all that joined, and nothing else applies it.
Fate ==
  \A w \in Writes : joined[w] # NoTask =>
    /\ Kept(joined[w]) => w \in applied
    /\ w \in applied => Kept(joined[w]) \/ MayHave(joined[w])

\* w is a write that was made with success and not yet acknowledged.
JustMade(w) == stage[w[1]] = "write" /\ answer[w[1]] = "ok" /\ w[2] = wrote[w[1]]

\* What a task knows of its writes is what the server has of them, but for those
\* it heard nothing of.
Acknowledging ==
  /\ \A w \in Writes : w[1] \in Tasks =>
       /\ alive /\ Open(w[1]) =>
            /\ w \in acked \/ JustMade(w) => w \in buffered
            /\ w \in buffered => w \in acked \/ JustMade(w) \/ w \in unheard
       /\ Kept(w[1]) /\ w \in acked => w \in applied
       /\ w \in applied => w \in acked \/ w \in unheard
       /\ outcome[w[1]] = "resolved" /\ w \in applied => w \in acked
       /\ \A v \in Writes : v[1] = w[1] /\ v \in applied /\ w \in acked => w \in applied
  /\ \A w \in Writes : w \in acked \/ JustMade(w) => joined[w] # NoTask \/ w \in applied

\* A task that did not hear of a write which is there has left its answer unread,
\* ahead of whatever the task is answered next.
Unheard ==
  \A w \in unheard :
    w[1] \in Tasks /\ w \in buffered \cup applied /\ (alive \/ answer[w[1]] = "ok") => unread # <<>>

Sound ==
  /\ Staging
  /\ Answering
  /\ OneOwner
  /\ Buffering
  /\ Joining
  /\ Fate
  /\ Acknowledging
  /\ Unheard

IInv ==
  /\ TypeOK
  /\ Numbered
  /\ Reading
  /\ Owned
  /\ ~astray => Sound

-----------------------------------------------------------------------------
(* Lemmas.                                                                 *)

\* A write is a task and a number; the tasks and writers are not mixed up.
LEMMA WriteParts ==
  /\ \A w \in Writes : /\ w[1] \in All /\ w[2] \in Nat /\ 1 <= w[2] /\ w[2] <= MaxWrites[w[1]]
                       /\ w = <<w[1], w[2]>>
  /\ \A t \in All, n \in Nat : 1 <= n /\ n <= MaxWrites[t] => <<t, n>> \in Writes
BY TasksAssumption DEF Writes, All

\* A task is a transaction() or a writer, not both.
LEMMA TaskParts ==
  /\ \A t \in All : MaxWrites[t] \in Nat
  /\ Tasks \subseteq All /\ Writers \subseteq All
  /\ \A t \in All : t \in Tasks \/ t \in Writers
  /\ \A t \in Tasks : t \notin Writers
  /\ NoTask \notin Tasks
BY TasksAssumption DEF All

\* What a call comes to: its own answer, if none was left unread before it, or an
\* exception; anything else is an answer read astray.
Answers(t, got) ==
  /\ answer[t] # "none" /\ answer' = [answer EXCEPT ![t] = "none"]
  /\ unread' \in AnswerLines /\ astray' \in BOOLEAN
  /\ unread' # <<>> => lang = "py" /\ MaxUnread > 0
  /\ answer[t] = "ok" /\ got # "ok" => lang = "py" /\ MaxUnread > 0
  /\ ~astray' => /\ ~astray /\ got \in {answer[t], "lost"}
                 /\ got # "lost" => unread = <<>>
                 /\ got = "lost" => ~alive \/ (lang = "py" /\ unread' # <<>>)
                 /\ unread # <<>> => unread' # <<>>

\* So it is with every call.
LEMMA AnsweredIs ==
  ASSUME IInv, NEW t \in All, NEW got \in Gets, Answered(t, got)
  PROVE  Answers(t, got)
<1>1. /\ answer[t] \in {"ok", "err", "lost"} /\ answer' = [answer EXCEPT ![t] = "none"]
      /\ unread \in Seq({"ok", "err"}) /\ astray \in BOOLEAN /\ MaxUnread \in Nat
      /\ (alive => answer[t] # "lost") /\ (unread # <<>> => lang = "py" /\ MaxUnread > 0)
  BY TasksAssumption DEF Answered, IInv, TypeOK, Reading, AnswerLines
<1>. USE DEF Answers, AnswerLines
<1>2. CASE ReadsOwn(t, got)
  BY <1>1, <1>2 DEF ReadsOwn
<1>3. CASE ReadsUnread(t, got)
  <2>1. Tail(unread) \in Seq({"ok", "err"})
    BY <1>1, <1>3, HeadTailProperties DEF ReadsUnread
  <2>2. answer[t] # "lost" => Append(Tail(unread), answer[t]) \in Seq({"ok", "err"})
    BY <1>1, <2>1, AppendProperties
  <2>. QED  BY <1>1, <1>3, <2>1, <2>2 DEF ReadsUnread
<1>4. CASE TimesOut(t, got)
  <2>1. answer[t] \in {"ok", "err"} /\ lang = "py" /\ unread' = Append(unread, answer[t])
        /\ got = "lost" /\ astray' = astray /\ Len(unread) < MaxUnread
    BY <1>1, <1>4 DEF TimesOut
  <2>2. unread' \in Seq({"ok", "err"}) /\ unread' # <<>> /\ Len(unread) \in Nat
    BY <1>1, <2>1, AppendProperties, EmptySeq, LenProperties
  <2>. QED  BY <1>1, <2>1, <2>2
<1>5. CASE SendFails(t, got)
  BY <1>1, <1>5 DEF SendFails
<1>. QED  BY <1>2, <1>3, <1>4, <1>5 DEF Answered

\* No transaction is open at first.
LEMMA InitInv == Init => IInv
<1> SUFFICES ASSUME Init PROVE IInv
  OBVIOUS
<1> USE TaskParts, WriteParts DEF Init
<1>1. TypeOK
  BY EmptySeq DEF TypeOK, Inside, AnswerLines
<1>2. Numbered /\ Reading /\ Owned
  BY DEF Numbered, Reading, Owned
<1>3. Staging /\ Answering /\ OneOwner
  BY DEF Staging, Answering, OneOwner, Open
<1>4. Buffering /\ Joining /\ Fate /\ Acknowledging /\ Unheard
  BY DEF Buffering, Joining, Fate, Acknowledging, Unheard, JustMade, Open, Kept
<1>5. QED
  BY <1>1, <1>2, <1>3, <1>4 DEF IInv, Sound

\* transaction() sends BEGIN.
LEMMA StartInv ==
  ASSUME IInv, NEW t \in Tasks, Start(t)
  PROVE  IInv'
<1> USE TaskParts, WriteParts DEF IInv, Start, Go, server, reading
<1>1. TypeOK'
  BY DEF TypeOK, Inside
<1>2. Numbered'
  BY DEF TypeOK, Inside, Numbered
<1>4. Reading' /\ Owned'
  BY DEF TypeOK, Inside, Reading, Owned
<1>3. ASSUME ~astray' PROVE Sound'
  <2>. USE <1>3 DEF Sound
  <2>1. Staging' /\ Answering' /\ OneOwner'
    BY DEF TypeOK, Inside, Staging, Answering, OneOwner, Open
  <2>2. Buffering' /\ Joining' /\ Fate'
    BY DEF TypeOK, Inside, Buffering, Joining, Fate, Kept, MayHave
  <2>3. Acknowledging'
    BY DEF TypeOK, Inside, Acknowledging, JustMade, Open, Kept
  <2>4. Unheard'
    BY DEF Unheard
  <2>. QED  BY <2>1, <2>2, <2>3, <2>4
<1>. QED  BY <1>1, <1>2, <1>3, <1>4

\* BEGIN was answered: the transaction is this task's own, or it was refused.
LEMMA BegunInv ==
  ASSUME IInv, NEW t \in Tasks, Begun(t)
  PROVE  IInv'
<1> USE TaskParts, WriteParts DEF IInv, Begun, Refused, Go, End, server
<1>1. PICK got \in Gets : Answered(t, got)
                         /\ \/ got = "ok" /\ Go(t, "body") /\ stranded' = stranded
                            \/ /\ got # "ok" /\ Refused(t)
                               /\ stranded' = IF answer[t] = "ok" THEN stranded \cup {t} ELSE stranded
  BY DEF Begun
<1>2. Answers(t, got)
  BY <1>1, AnsweredIs DEF Answers
<1>3. TypeOK'
  <2>1. /\ stage' \in [All -> Inside \cup {"idle", "done"}]
        /\ outcome' \in [Tasks -> {"none", "resolved", "rejected", "interrupted"}]
        /\ \A u \in Tasks : stage'[u] = "done" <=> outcome'[u] # "none"
    BY <1>1, <1>2 DEF TypeOK, Inside
  <2>2. /\ answer' \in [All -> {"none", "ok", "err", "lost"}]
        /\ \A u \in All : answer'[u] # "none" => stage'[u] \in Inside \ {"body"}
    BY <1>1, <1>2 DEF TypeOK, Inside, Answers
  <2>. QED  BY <1>1, <1>2, <2>1, <2>2 DEF TypeOK, Answers
<1>4. Numbered'
  <2>1. UNCHANGED <<wrote, acked, unheard, buffered, applied, joined>>
    OBVIOUS
  <2>2. stage[t] \in Inside /\ \A u \in All : u # t => stage'[u] = stage[u]
    BY <1>1 DEF TypeOK, Inside
  <2>3. stage'[t] # "write"
    BY <1>1 DEF TypeOK
  <2>. QED  BY <2>1, <2>2, <2>3 DEF Numbered
<1>6. Reading' /\ Owned'
  BY <1>1, <1>2 DEF TypeOK, Inside, Reading, Owned, Answers
<1>5. ASSUME ~astray' PROVE Sound'
  <2>. USE <1>1, <1>2, <1>5 DEF Sound, Answers
  <2>1. Staging' /\ Answering' /\ OneOwner'
    BY DEF TypeOK, Inside, Reading, Staging, Answering, OneOwner, Open
  <2>2. Buffering' /\ Joining'
    BY DEF TypeOK, Inside, Buffering, Joining
  <2>5. Fate'
    BY DEF TypeOK, Inside, Staging, Answering, OneOwner, Open, Joining, Fate, Kept, MayHave
  <2>3. Acknowledging'
    BY DEF TypeOK, Inside, Answering, OneOwner, Open, Acknowledging, Unheard, JustMade, Kept
  <2>4. Unheard'
    BY DEF TypeOK, Inside, Unheard
  <2>. QED  BY <2>1, <2>2, <2>3, <2>4, <2>5
<1>. QED  BY <1>3, <1>4, <1>5, <1>6

\* The body returned or threw: COMMIT or ROLLBACK goes out.
LEMMA BodyEndsInv ==
  ASSUME IInv, NEW t \in Tasks, BodyEnds(t)
  PROVE  IInv'
<1> USE TaskParts, WriteParts DEF IInv, BodyEnds, Catch, Go, End, server, reading
<1>1. TypeOK'
  BY DEF TypeOK, Inside
<1>2. Numbered'
  BY DEF TypeOK, Inside, Numbered
<1>4. Reading' /\ Owned'
  BY DEF TypeOK, Inside, Reading, Owned
<1>3. ASSUME ~astray' PROVE Sound'
  <2>. USE <1>3 DEF Sound
  <2>1. Staging' /\ Answering' /\ OneOwner'
    BY DEF TypeOK, Inside, Staging, Answering, OneOwner, Open
  <2>2. Buffering' /\ Joining' /\ Fate'
    BY DEF TypeOK, Inside, Staging, OneOwner, Open, Buffering, Joining, Fate, Kept, MayHave
  <2>3. Acknowledging' /\ Unheard'
    BY DEF TypeOK, Inside, OneOwner, Open, Acknowledging, Unheard, JustMade, Kept
  <2>. QED  BY <2>1, <2>2, <2>3
<1>. QED  BY <1>1, <1>2, <1>3, <1>4

\* COMMIT was answered, or failed, which JavaScript answers with a ROLLBACK and
\* Python does not.
LEMMA CommittedInv ==
  ASSUME IInv, NEW t \in Tasks, Committed(t)
  PROVE  IInv'
<1> USE TaskParts, WriteParts DEF IInv, Committed, CommitFailed, Catch, Go, End, server
<1>1. PICK got \in Gets : Answered(t, got)
                         /\ unsure' = (IF got = "lost" THEN unsure \cup {t} ELSE unsure)
                         /\ \/ got = "ok" /\ End(t, "resolved")
                            \/ got # "ok" /\ CommitFailed(t)
  BY DEF Committed
<1>2. Answers(t, got)
  BY <1>1, AnsweredIs DEF Answers
<1>3. TypeOK'
  <2>1. /\ stage' \in [All -> Inside \cup {"idle", "done"}]
        /\ outcome' \in [Tasks -> {"none", "resolved", "rejected", "interrupted"}]
        /\ \A u \in Tasks : stage'[u] = "done" <=> outcome'[u] # "none"
    BY <1>1, <1>2 DEF TypeOK, Inside
  <2>2. /\ answer' \in [All -> {"none", "ok", "err", "lost"}]
        /\ \A u \in All : answer'[u] # "none" => stage'[u] \in Inside \ {"body"}
    BY <1>1, <1>2 DEF TypeOK, Inside, Answers
  <2>. QED  BY <1>1, <1>2, <2>1, <2>2 DEF TypeOK, Answers
<1>4. Numbered'
  <2>1. UNCHANGED <<wrote, acked, unheard, buffered, applied, joined>>
    OBVIOUS
  <2>2. stage[t] \in Inside /\ \A u \in All : u # t => stage'[u] = stage[u]
    BY <1>1 DEF TypeOK, Inside
  <2>3. stage'[t] # "write"
    BY <1>1 DEF TypeOK
  <2>. QED  BY <2>1, <2>2, <2>3 DEF Numbered
<1>6. Reading' /\ Owned'
  BY <1>1, <1>2 DEF TypeOK, Inside, Reading, Owned, Answers
<1>5. ASSUME ~astray' PROVE Sound'
  <2>. USE <1>1, <1>2, <1>5 DEF Sound, Answers
  <2>1. Staging' /\ Answering' /\ OneOwner'
    BY DEF TypeOK, Inside, Reading, Staging, Answering, OneOwner, Open
  <2>2. Buffering' /\ Joining'
    BY DEF TypeOK, Inside, Buffering, Joining
  <2>5. Fate'
    BY DEF TypeOK, Inside, Staging, Answering, OneOwner, Open, Joining, Fate, Kept, MayHave
  <2>3. Acknowledging'
    BY DEF TypeOK, Inside, Answering, OneOwner, Open, Acknowledging, Unheard, JustMade, Kept
  <2>4. Unheard'
    BY DEF TypeOK, Inside, Unheard
  <2>. QED  BY <2>1, <2>2, <2>3, <2>4, <2>5
<1>. QED  BY <1>3, <1>4, <1>5, <1>6

\* ROLLBACK was answered or failed; either way an error is raised.
LEMMA RolledBackInv ==
  ASSUME IInv, NEW t \in Tasks, RolledBack(t)
  PROVE  IInv'
<1> USE TaskParts, WriteParts DEF IInv, RolledBack, End, server
<1>1. PICK got \in Gets : Answered(t, got)
                         /\ TRUE
  BY DEF RolledBack
<1>2. Answers(t, got)
  BY <1>1, AnsweredIs DEF Answers
<1>3. TypeOK'
  <2>1. /\ stage' \in [All -> Inside \cup {"idle", "done"}]
        /\ outcome' \in [Tasks -> {"none", "resolved", "rejected", "interrupted"}]
        /\ \A u \in Tasks : stage'[u] = "done" <=> outcome'[u] # "none"
    BY <1>1, <1>2 DEF TypeOK, Inside
  <2>2. /\ answer' \in [All -> {"none", "ok", "err", "lost"}]
        /\ \A u \in All : answer'[u] # "none" => stage'[u] \in Inside \ {"body"}
    BY <1>1, <1>2 DEF TypeOK, Inside, Answers
  <2>. QED  BY <1>1, <1>2, <2>1, <2>2 DEF TypeOK, Answers
<1>4. Numbered'
  <2>1. UNCHANGED <<wrote, acked, unheard, buffered, applied, joined>>
    OBVIOUS
  <2>2. stage[t] \in Inside /\ \A u \in All : u # t => stage'[u] = stage[u]
    BY <1>1 DEF TypeOK, Inside
  <2>3. stage'[t] # "write"
    BY <1>1 DEF TypeOK
  <2>. QED  BY <2>1, <2>2, <2>3 DEF Numbered
<1>6. Reading' /\ Owned'
  BY <1>1, <1>2 DEF TypeOK, Inside, Reading, Owned, Answers
<1>5. ASSUME ~astray' PROVE Sound'
  <2>. USE <1>1, <1>2, <1>5 DEF Sound, Answers
  <2>1. Staging' /\ Answering' /\ OneOwner'
    BY DEF TypeOK, Inside, Reading, Staging, Answering, OneOwner, Open
  <2>2. Buffering' /\ Joining'
    BY DEF TypeOK, Inside, Buffering, Joining
  <2>5. Fate'
    BY DEF TypeOK, Inside, Staging, Answering, OneOwner, Open, Joining, Fate, Kept, MayHave
  <2>3. Acknowledging'
    BY DEF TypeOK, Inside, Answering, OneOwner, Open, Acknowledging, Unheard, JustMade, Kept
  <2>4. Unheard'
    BY DEF TypeOK, Inside, Unheard
  <2>. QED  BY <2>1, <2>2, <2>3, <2>4, <2>5
<1>. QED  BY <1>3, <1>4, <1>5, <1>6

\* Break rolls back what is open; of the answers under way it only loses some.
LEMMA BreakInv ==
  ASSUME IInv, Break
  PROVE  IInv'
<1> USE TaskParts, WriteParts DEF IInv, Break
<1>1. PICK gone \in SUBSET {t \in All : answer[t] # "none"}, k \in 0 .. Len(unread) :
         /\ k < Len(unread) => gone = {t \in All : answer[t] # "none"}
         /\ answer' = [t \in All |-> IF t \in gone THEN "lost" ELSE answer[t]]
         /\ unread' = SubSeq(unread, 1, k)
  OBVIOUS
<1>2. \A t \in All : /\ answer'[t] \in {answer[t], "lost"}
                     /\ answer'[t] = "none" <=> answer[t] = "none"
  BY <1>1 DEF TypeOK
<1>3. /\ unread' \in AnswerLines
      /\ unread' # <<>> => unread # <<>>
      /\ \A t \in All : answer'[t] = "ok" => unread' = unread
  <2>1. unread \in Seq({"ok", "err"}) /\ Len(unread) \in Nat /\ k \in 0 .. Len(unread)
    BY <1>1, LenProperties DEF TypeOK, AnswerLines
  <2>2. unread' \in AnswerLines
    BY <1>1, <2>1 DEF AnswerLines
  <2>3. CASE k < Len(unread)
    <3>1. \A t \in All : answer'[t] # "ok"
      BY <1>1, <2>3 DEF TypeOK
    <3>2. unread = <<>> => Len(unread) = 0
      OBVIOUS
    <3>. QED  BY <2>1, <2>2, <2>3, <3>1, <3>2
  <2>4. CASE k = Len(unread)
    <3>1. unread' = unread
      BY <1>1, <2>1, <2>4
    <3>. QED  BY <2>2, <3>1 DEF AnswerLines
  <2>. QED  BY <2>1, <2>3, <2>4
<1>4. TypeOK'
  <2>1. answer' \in [All -> {"none", "ok", "err", "lost"}]
    BY <1>1 DEF TypeOK
  <2>2. \A t \in All : answer'[t] # "none" => stage'[t] \in Inside \ {"body"}
    BY <1>2 DEF TypeOK
  <2>3. QED
    BY <1>3, <2>1, <2>2 DEF TypeOK
<1>5. Numbered' /\ Reading' /\ Owned'
  BY <1>3 DEF TypeOK, Numbered, Reading, Owned
<1>6. ASSUME ~astray' PROVE Sound'
  <2>. USE <1>6 DEF Sound
  <2>1. Staging' /\ Answering' /\ OneOwner'
    BY DEF TypeOK, Staging, Answering, OneOwner
  <2>2. Buffering' /\ Joining' /\ Fate'
    BY <1>2 DEF TypeOK, Owned, Staging, OneOwner, Buffering, Joining, Fate, Kept, MayHave
  <2>3. Acknowledging'
    BY <1>2 DEF TypeOK, Acknowledging, JustMade, Kept
  <2>4. Unheard'
    <3>. SUFFICES ASSUME NEW w \in unheard, w[1] \in Tasks, w \in applied, answer'[w[1]] = "ok"
                  PROVE  unread' # <<>>
      BY DEF Unheard
    <3>1. answer[w[1]] = "ok" /\ w[1] \in All
      BY <1>2
    <3>. QED  BY <1>3, <3>1 DEF Unheard
  <2>. QED  BY <2>1, <2>2, <2>3, <2>4
<1>. QED  BY <1>4, <1>5, <1>6

\* The answer to a write turns what was just made into what is acknowledged.
LEMMA WroteInv ==
  ASSUME IInv, NEW t \in All, Wrote(t)
  PROVE  IInv'
<1> USE TaskParts, WriteParts DEF IInv
<1> DEFINE last == <<t, wrote[t]>>
<1>1. last \in Writes /\ last[1] = t /\ last[2] = wrote[t]
  BY DEF Numbered, TypeOK, Wrote
<1>2. PICK got \in Gets :
         /\ Answered(t, got)
         /\ stage' = [stage EXCEPT ![t] = stage'[t]]
         /\ stage'[t] = Resting(t) \/ (t \in Tasks /\ stage'[t] = "rollback" /\ got # "ok")
         /\ acked' = IF got = "ok" THEN acked \cup {last} ELSE acked
         /\ unheard' = IF got = "lost" THEN unheard \cup {last} ELSE unheard
         /\ stage[t] = "write"
         /\ UNCHANGED <<outcome, lang, alive, wrote, server, owner, joined, unsure, stranded>>
  BY DEF TypeOK, Wrote, Catch, Go
<1>3. /\ t \in Tasks => stage'[t] \in {"body", "rollback"}
      /\ t \in Writers => stage'[t] = "idle"
  BY <1>2 DEF Resting
<1>4. Answers(t, got) /\ UNCHANGED <<inTx, buffered, applied>>
  BY <1>2, AnsweredIs DEF server
<1>5. TypeOK'
  BY <1>1, <1>2, <1>3, <1>4 DEF TypeOK, Inside, Answers
<1>6. Numbered' /\ Reading' /\ Owned'
  <2>1. Numbered'
    <3>1. \A w \in Writes : w \in acked' \cup unheard' => w \in acked \cup unheard \/ w[2] <= wrote[w[1]]
      <4>1. wrote[t] <= wrote[t]
        BY DEF TypeOK
      <4>. QED  BY <1>1, <1>2, <4>1
    <3>. QED  BY <1>2, <1>3, <1>4, <3>1 DEF TypeOK, Numbered
  <2>2. Reading'
    BY <1>2, <1>4 DEF TypeOK, Reading, Answers
  <2>3. Owned'
    BY <1>2, <1>3, <1>4 DEF TypeOK, Owned, Answers
  <2>. QED  BY <2>1, <2>2, <2>3
<1>7. ASSUME ~astray' PROVE Sound'
  <2>1. /\ Sound /\ answer' = [answer EXCEPT ![t] = "none"]
        /\ got = answer[t] \/ got = "lost"
        /\ got = "lost" => ~alive \/ unread' # <<>>
        /\ unread # <<>> => unread' # <<>>
    BY <1>4, <1>7 DEF Answers
  <2>. USE DEF Sound
  <2>2. Staging'
    BY <1>2, <2>1 DEF TypeOK, Staging
  <2>8. Answering' /\ OneOwner'
    BY <1>2, <1>3, <1>4, <2>1 DEF TypeOK, Answering, OneOwner, Open
  <2>3. Buffering' /\ Joining' /\ Fate'
    BY <1>2, <1>3, <1>4, <2>1 DEF TypeOK, Buffering, Joining, Fate, Kept, MayHave
  <2>4. t \in Tasks => ~Kept(t) /\ ~MayHave(t) /\ t \notin unsure
    BY <1>2, <2>1 DEF TypeOK, Kept, MayHave, Staging
  <2>5. \A w \in Writes : w[1] = t /\ t \in Tasks => w \notin applied
    BY <1>2, <2>1, <2>4 DEF Joining, Fate, MayHave
  <2>6. Acknowledging'
    <3>1. \A w \in Writes : w[1] # t => /\ w \in acked' <=> w \in acked
                                        /\ w \in unheard' <=> w \in unheard
                                        /\ JustMade(w)' <=> JustMade(w)
      BY <1>1, <1>2, <2>1 DEF TypeOK, JustMade
    <3>2. \A w \in Writes : w[1] = t => ~JustMade(w)'
      BY <1>2, <2>1 DEF TypeOK, JustMade
    <3>3. \A w \in Writes : /\ w \in acked' => w \in acked \/ JustMade(w)
                            /\ w \in acked => w \in acked'
                            /\ w \in unheard => w \in unheard'
                            /\ JustMade(w) => w \in acked' \/ w \in unheard' \/ JustMade(w)'
      <4>. SUFFICES ASSUME NEW w \in Writes, w[1] = t
                    PROVE  /\ w \in acked' => w \in acked \/ JustMade(w)
                           /\ w \in acked => w \in acked'
                           /\ w \in unheard => w \in unheard'
                           /\ JustMade(w) => w \in acked' \/ w \in unheard'
        BY <3>1
      <4>1. JustMade(w) <=> answer[t] = "ok" /\ w = last
        BY <1>1, <1>2 DEF JustMade
      <4>. QED  BY <1>2, <2>1, <4>1
    <3>4. \A u \in Tasks : (Open(u)' => Open(u)) /\ (Kept(u)' <=> Kept(u))
      BY <1>2, <1>3, <2>1 DEF TypeOK, Open, Kept
    <3>5. outcome' = outcome /\ (t \in Tasks => outcome[t] # "resolved")
      BY <1>2, <2>4 DEF Kept
    <3>6. ASSUME NEW w \in Writes, w[1] \in Tasks
          PROVE  /\ (alive /\ Open(w[1]) =>
                        /\ w \in acked \/ JustMade(w) => w \in buffered
                        /\ w \in buffered => w \in acked \/ JustMade(w) \/ w \in unheard)'
                 /\ (Kept(w[1]) /\ w \in acked => w \in applied)'
                 /\ (w \in applied => w \in acked \/ w \in unheard)'
                 /\ (outcome[w[1]] = "resolved" /\ w \in applied => w \in acked)'
      BY <1>2, <1>4, <2>1, <2>4, <2>5, <3>1, <3>2, <3>3, <3>4, <3>5, <3>6 DEF Acknowledging
    <3>7. ASSUME NEW w \in Writes, w[1] \in Tasks, NEW v \in Writes, v[1] = w[1],
                 (v \in applied /\ w \in acked)'
          PROVE  (w \in applied)'
      BY <1>4, <2>1, <2>5, <3>1, <3>7 DEF Acknowledging
    <3>8. ASSUME NEW w \in Writes, (w \in acked \/ JustMade(w))'
          PROVE  (joined[w] # NoTask \/ w \in applied)'
      BY <1>2, <1>4, <2>1, <3>1, <3>2, <3>3, <3>8 DEF Acknowledging
    <3>. QED  BY <3>6, <3>7, <3>8 DEF Acknowledging
  <2>7. Unheard'
    <3>. SUFFICES ASSUME NEW w \in unheard', w[1] \in Tasks, w \in buffered \cup applied,
                         alive \/ answer'[w[1]] = "ok"
                  PROVE  unread' # <<>>
      BY <1>2, <1>4 DEF Unheard
    <3>1. CASE w \in unheard /\ (alive \/ answer[w[1]] = "ok")
      BY <2>1, <3>1 DEF Unheard
    <3>2. CASE ~alive /\ answer[w[1]] # "ok"
      BY <1>2, <2>1, <3>2 DEF TypeOK
    <3>3. CASE w = last /\ got = "lost"
      <4>1. w \notin applied /\ t \in Tasks
        BY <1>1, <2>5, <3>3
      <4>2. w \in buffered /\ inTx /\ alive
        BY <1>1, <2>1, <3>3, <4>1 DEF Buffering, Owned
      <4>. QED  BY <2>1, <3>3, <4>2
    <3>. QED  BY <1>2, <3>1, <3>2, <3>3
  <2>. QED  BY <2>2, <2>3, <2>6, <2>7, <2>8
<1>. QED  BY <1>5, <1>6, <1>7

\* A write goes to the transaction that is open, whoever opened it, or is
\* applied at once; its number is new.
LEMMA WriteInv ==
  ASSUME IInv, NEW t \in All, Write(t)
  PROVE  IInv'
<1> USE TaskParts, WriteParts DEF IInv
<1> DEFINE new == <<t, wrote[t] + 1>>
<1>1. /\ new \in Writes /\ new[1] = t /\ new[2] = wrote[t] + 1
      /\ new \notin acked \cup unheard \cup buffered \cup applied /\ joined[new] = NoTask
  BY DEF Numbered, TypeOK, Write
<1>2. /\ stage' = [stage EXCEPT ![t] = "write"] /\ stage[t] = Resting(t)
      /\ wrote' = [wrote EXCEPT ![t] = @ + 1]
      /\ answer[t] = "none" /\ \E a \in {"ok", "err", "lost"} : answer' = [answer EXCEPT ![t] = a]
      /\ UNCHANGED <<lang, alive, acked, unheard, unread, astray, unsure, stranded, outcome, inTx, owner>>
  BY DEF TypeOK, Inside, Write, Go, server, Resting, ServeWrite, Lost, Answer
<1>3. \/ answer'[t] # "ok" /\ UNCHANGED <<buffered, applied, joined>>
      \/ /\ inTx /\ answer'[t] = "ok" /\ applied' = applied
         /\ buffered' = buffered \cup {new} /\ joined' = [joined EXCEPT ![new] = owner]
      \/ /\ ~inTx /\ alive /\ answer'[t] = "ok" /\ applied' = applied \cup {new}
         /\ UNCHANGED <<buffered, joined>>
  BY DEF Write, server, ServeWrite, Lost, Answer, TypeOK
<1>4. /\ t \in Tasks => stage[t] = "body"
      /\ t \in Writers => stage[t] = "idle"
  BY <1>2 DEF Resting
<1>5. TypeOK'
  <2>1. /\ acked' \subseteq Writes /\ buffered' \subseteq Writes /\ applied' \subseteq Writes
        /\ joined' \in [Writes -> Tasks \cup {NoTask}]
    <3>1. owner \in Tasks \cup {NoTask} /\ {new} \subseteq Writes
      BY <1>1 DEF TypeOK
    <3>2. acked' \subseteq Writes /\ buffered' \subseteq Writes /\ applied' \subseteq Writes
      BY <1>2, <1>3, <3>1 DEF TypeOK
    <3>3. joined' = joined \/ joined' = [joined EXCEPT ![new] = owner]
      BY <1>3
    <3>4. joined' \in [Writes -> Tasks \cup {NoTask}]
      BY <3>1, <3>3 DEF TypeOK
    <3>5. QED
      BY <3>2, <3>4
  <2>2. stage' \in [All -> Inside \cup {"idle", "done"}] /\ wrote' \in [All -> Nat]
    BY <1>2 DEF TypeOK, Inside
  <2>3. QED
    BY <1>2, <1>4, <2>1, <2>2 DEF TypeOK, Inside
<1>6. Numbered' /\ Reading' /\ Owned'
  <2>1. Numbered'
    BY <1>1, <1>2, <1>3, <1>4 DEF TypeOK, Numbered
  <2>2. Reading'
    BY <1>2 DEF TypeOK, Reading, Write, ServeWrite, Lost, Answer
  <2>3. Owned'
    BY <1>2, <1>4 DEF TypeOK, Owned
  <2>. QED  BY <2>1, <2>2, <2>3
<1>7. ASSUME ~astray' PROVE Sound'
  <2>1. Sound
    BY <1>2, <1>7
  <2>. USE <2>1 DEF Sound
  <2>2. Staging' /\ Answering' /\ OneOwner'
    <3>1. Staging' /\ Answering'
      BY <1>2, <1>4 DEF TypeOK, Staging, Answering, Write, ServeWrite, Lost, Answer
    <3>2. OneOwner'
      BY <1>2, <1>4 DEF TypeOK, OneOwner, Open
    <3>. QED  BY <3>1, <3>2
  <2>7. \A u \in Tasks : /\ Kept(u)' <=> Kept(u)
                         /\ MayHave(u)' <=> MayHave(u)
                         /\ Open(u)' <=> Open(u)
    BY <1>2, <1>4 DEF TypeOK, Kept, MayHave, Open
  <2>8. inTx => owner \in Tasks /\ ~Kept(owner) /\ stage[owner] # "idle"
                /\ (stage[owner] = "begin" => answer[owner] = "ok")
    BY DEF Owned, Kept, TypeOK
  <2>9. t \in Tasks /\ alive => inTx /\ owner = t
    BY <1>4 DEF OneOwner, Open
  <2>10. Buffering'
    <3>1. \A w \in Writes : /\ w # new => /\ joined'[w] = joined[w]
                                          /\ w \in buffered' <=> w \in buffered
                            /\ w = new => \/ inTx /\ joined'[w] = owner /\ w \in buffered'
                                          \/ joined'[w] = NoTask /\ w \notin buffered'
      BY <1>1, <1>3 DEF TypeOK
    <3>2. QED
      <4>1. inTx' = inTx /\ owner' = owner /\ (inTx => owner # NoTask)
        BY <1>2, <2>8
      <4>2. ASSUME NEW w \in Writes PROVE w \in buffered' <=> inTx /\ joined'[w] = owner
        <5>1. CASE w = new
          BY <3>1, <4>1, <5>1
        <5>2. CASE w # new
          BY <3>1, <5>2 DEF Buffering
        <5>3. QED
          BY <5>1, <5>2
      <4>3. QED
        BY <4>1, <4>2 DEF Buffering
  <2>11. Joining'
    <3>1. ASSUME NEW w \in Writes, joined'[w] # NoTask
          PROVE  LET u == joined'[w] IN
                 stage'[u] # "idle" /\ (stage'[u] = "begin" => answer'[u] \in {"ok", "lost"})
      <4>1. CASE joined'[w] = joined[w]
        BY <1>1, <1>2, <1>4, <3>1, <4>1 DEF TypeOK, Joining
      <4>2. CASE joined'[w] # joined[w]
        <5>1. inTx /\ joined'[w] = owner
          BY <1>1, <1>3, <4>2 DEF TypeOK
        <5>2. QED
          BY <1>2, <1>4, <2>8, <5>1 DEF TypeOK
      <4>3. QED
        BY <4>1, <4>2
    <3>2. ASSUME NEW w \in Writes, w[1] \in Tasks
          PROVE  joined'[w] \in {NoTask, w[1]} /\ (w \in applied' => joined'[w] = w[1])
      <4>1. CASE w # new
        BY <1>1, <1>3, <3>2, <4>1 DEF TypeOK, Joining
      <4>2. CASE w = new
        <5>1. CASE answer'[t] # "ok"
          BY <1>1, <1>3, <4>2, <5>1
        <5>2. CASE answer'[t] = "ok" /\ inTx
          <6>1. alive /\ owner = t
            BY <2>9, <3>2, <4>2, <1>1, <5>2 DEF Owned
          <6>2. QED
            BY <1>1, <1>3, <4>2, <5>2, <6>1 DEF TypeOK
        <5>3. CASE answer'[t] = "ok" /\ ~inTx
          BY <1>1, <1>3, <2>9, <3>2, <4>2, <5>3
        <5>4. QED
          BY <5>1, <5>2, <5>3
      <4>3. QED
        BY <4>1, <4>2
    <3>3. QED
      BY <3>1, <3>2 DEF Joining
  <2>12. Fate'
    <3>1. \A w \in Writes : joined'[w] # NoTask => joined'[w] \in Tasks
      BY <1>5 DEF TypeOK
    <3>2. ASSUME NEW w \in Writes, joined'[w] # NoTask
          PROVE  /\ Kept(joined'[w]) => w \in applied'
                 /\ w \in applied' => Kept(joined'[w]) \/ MayHave(joined'[w])
      <4>1. CASE joined'[w] = joined[w] /\ (w \in applied' <=> w \in applied)
        BY <3>2, <4>1 DEF Fate
      <4>2. CASE ~(joined'[w] = joined[w] /\ (w \in applied' <=> w \in applied))
        <5>1. w = new /\ inTx /\ joined'[w] = owner /\ applied' = applied
          BY <1>1, <1>3, <3>2, <4>2 DEF TypeOK
        <5>. QED  BY <1>1, <2>8, <5>1
      <4>. QED  BY <4>1, <4>2
    <3>. QED  BY <2>7, <3>1, <3>2 DEF Fate
  <2>13. Acknowledging'
    <3>1. \A w \in Writes : JustMade(w)' <=> IF w[1] = t THEN w = new /\ answer'[t] = "ok"
                                             ELSE JustMade(w)
      BY <1>1, <1>2 DEF TypeOK, JustMade
    <3>2. \A w \in Writes : w[1] = t => ~JustMade(w)
      BY <1>2 DEF TypeOK, JustMade
    <3>3. t \in Tasks => ~Kept(t) /\ \A w \in Writes : w[1] = t => w \notin applied
      BY <1>4 DEF Kept, MayHave, TypeOK, Staging, Joining, Fate
    <3>4. \A w \in Writes : w # new => /\ w \in buffered' <=> w \in buffered
                                       /\ w \in applied' <=> w \in applied
                                       /\ joined'[w] = joined[w]
      BY <1>1, <1>3 DEF TypeOK
    <3>5. /\ t \in Tasks => new \notin applied'
          /\ answer'[t] = "ok" => joined'[new] # NoTask \/ new \in applied'
          /\ t \in Tasks /\ alive => (new \in buffered' <=> answer'[t] = "ok")
      BY <1>1, <1>3, <2>8, <2>9 DEF TypeOK
    <3>6. ASSUME NEW w \in Writes, w[1] \in Tasks
          PROVE  /\ (alive /\ Open(w[1]) =>
                        /\ w \in acked \/ JustMade(w) => w \in buffered
                        /\ w \in buffered => w \in acked \/ JustMade(w) \/ w \in unheard)'
                 /\ (Kept(w[1]) /\ w \in acked => w \in applied)'
                 /\ (w \in applied => w \in acked \/ w \in unheard)'
                 /\ (outcome[w[1]] = "resolved" /\ w \in applied => w \in acked)'
      <4>1. CASE w = new
        BY <1>1, <1>2, <2>7, <3>1, <3>3, <3>5, <3>6, <4>1
      <4>2. CASE w # new
        BY <1>1, <1>2, <2>7, <3>1, <3>2, <3>4, <3>6, <4>2 DEF Acknowledging
      <4>. QED  BY <4>1, <4>2
    <3>7. ASSUME NEW w \in Writes, w[1] \in Tasks, NEW v \in Writes, v[1] = w[1],
                 (v \in applied /\ w \in acked)'
          PROVE  (w \in applied)'
      BY <1>1, <1>2, <3>3, <3>4, <3>5, <3>7 DEF Acknowledging
    <3>8. ASSUME NEW w \in Writes, (w \in acked \/ JustMade(w))'
          PROVE  (joined[w] # NoTask \/ w \in applied)'
      BY <1>1, <1>2, <3>1, <3>4, <3>5, <3>8 DEF Acknowledging
    <3>9. QED
      BY <3>6, <3>7, <3>8 DEF Acknowledging
  <2>14. Unheard'
    <3>. SUFFICES ASSUME NEW w \in unheard, w[1] \in Tasks, w \in buffered' \cup applied',
                         alive \/ answer'[w[1]] = "ok"
                  PROVE  unread # <<>>
      BY <1>2 DEF Unheard
    <3>1. w # new /\ w \in buffered \cup applied
      BY <1>1, <1>3
    <3>2. answer'[t] = "ok" => alive
      BY DEF Write, ServeWrite, Lost, Answer, TypeOK
    <3>. QED  BY <1>2, <3>1, <3>2 DEF Unheard, TypeOK
  <2>. QED  BY <2>2, <2>10, <2>11, <2>12, <2>13, <2>14
<1>. QED  BY <1>5, <1>6, <1>7

\* BEGIN opens a transaction that nothing has joined; COMMIT applies the whole
\* of what is buffered, ROLLBACK drops it.
LEMMA CallInv ==
  ASSUME IInv, NEW t \in Tasks, Call(t)
  PROVE  IInv'
<1> USE TaskParts, WriteParts DEF IInv
<1>1. /\ answer[t] = "none" /\ stage[t] \in {"begin", "commit", "rollback"}
      /\ UNCHANGED <<lang, alive, stage, outcome, wrote, acked, unheard, unread, unsure, stranded,
                     astray, joined>>
      /\ \E a \in {"ok", "err", "lost"} : answer' = [answer EXCEPT ![t] = a]
  BY DEF Call, ServeBegin, ServeEnd, Lost, Answer, server
<1>2. CASE answer'[t] # "ok"
  <2>1. UNCHANGED <<inTx, buffered, applied, owner>>
    BY <1>2 DEF Call, ServeBegin, ServeEnd, Lost, Answer, server, TypeOK
  <2>2. /\ answer'[t] = "lost" => ~alive
        /\ answer'[t] = "err" => alive /\ (inTx <=> stage[t] = "begin")
    BY <1>2 DEF Call, ServeBegin, ServeEnd, Lost, Answer, TypeOK
  <2>3. TypeOK'
    BY <1>1, <2>1 DEF TypeOK, Inside
  <2>4. Numbered' /\ Reading'
    BY <1>1, <1>2, <2>1, <2>2 DEF TypeOK, Numbered, Reading
  <2>5. Owned'
    BY <1>1, <1>2, <2>1, <2>2 DEF TypeOK, Owned
  <2>6. ASSUME ~astray' PROVE Sound'
    <3>. USE <1>1, <1>2, <2>1, <2>2, <2>6 DEF Sound
    <3>1. Staging' /\ Answering' /\ OneOwner'
      BY DEF TypeOK, Staging, Answering, OneOwner, Open
    <3>2. Buffering' /\ Joining' /\ Fate'
      BY DEF TypeOK, Buffering, Joining, Fate, Kept, MayHave
    <3>3. Acknowledging'
      BY DEF TypeOK, Acknowledging, JustMade, Open, Kept
    <3>4. Unheard'
      BY DEF TypeOK, Unheard
    <3>. QED  BY <3>1, <3>2, <3>3, <3>4
  <2>. QED  BY <2>3, <2>4, <2>5, <2>6
<1>3. CASE stage[t] = "begin" /\ answer'[t] = "ok"
  <2>1. /\ alive /\ ~inTx /\ inTx' /\ buffered' = {} /\ owner' = t /\ applied' = applied
        /\ answer' = [answer EXCEPT ![t] = "ok"]
    BY <1>1, <1>3 DEF Call, ServeBegin, Lost, Answer, TypeOK
  <2>2. TypeOK'
    BY <1>1, <2>1 DEF TypeOK, Inside
  <2>3. Numbered' /\ Reading' /\ Owned'
    BY <1>1, <1>3, <2>1 DEF TypeOK, Numbered, Reading, Owned
  <2>4. ASSUME ~astray' PROVE Sound'
    <3>. USE <1>1, <2>4 DEF Sound
    <3>1. Staging' /\ Answering' /\ OneOwner'
      BY <1>3, <2>1 DEF TypeOK, Staging, Answering, OneOwner, Open
    <3>2. \A w \in Writes : joined[w] # t
      BY <1>3 DEF Joining
    <3>3. Buffering' /\ Joining' /\ Fate'
      BY <1>3, <2>1, <3>2 DEF TypeOK, Buffering, Joining, Fate, Kept, MayHave
    <3>4. \A w \in Writes : w[1] = t => w \notin acked /\ ~JustMade(w)'
      BY <1>3, <3>2 DEF TypeOK, Acknowledging, Joining, JustMade
    <3>5. \A u \in Tasks : u # t => ~Open(u)
      BY <2>1 DEF OneOwner
    <3>6. Acknowledging'
      <4>1. \A u \in Tasks : (Kept(u)' <=> Kept(u)) /\ (Open(u)' => u = t)
        BY <1>3, <2>1, <3>5 DEF TypeOK, Kept, Open
      <4>2. \A w \in Writes : w[1] # t => (JustMade(w)' <=> JustMade(w))
        BY <2>1 DEF TypeOK, JustMade
      <4>. QED  BY <2>1, <3>4, <4>1, <4>2 DEF Acknowledging
    <3>7. Unheard'
      BY <2>1 DEF TypeOK, Unheard
    <3>. QED  BY <3>1, <3>3, <3>6, <3>7
  <2>. QED  BY <2>2, <2>3, <2>4
<1>4. CASE stage[t] # "begin" /\ answer'[t] = "ok"
  <2>1. /\ alive /\ inTx /\ inTx' = FALSE /\ buffered' = {} /\ UNCHANGED owner
        /\ applied' = applied \cup (IF stage[t] = "commit" THEN buffered ELSE {})
        /\ answer' = [answer EXCEPT ![t] = "ok"]
    BY <1>1, <1>4 DEF Call, ServeEnd, Lost, Answer, TypeOK
  <2>2. TypeOK'
    <3>1. buffered' \subseteq Writes /\ applied' \subseteq Writes
      BY <2>1 DEF TypeOK
    <3>2. answer' \in [All -> {"none", "ok", "err", "lost"}]
      BY <2>1 DEF TypeOK
    <3>3. \A u \in All : answer'[u] # "none" => stage'[u] \in Inside \ {"body"}
      BY <1>1, <2>1 DEF TypeOK, Inside
    <3>4. inTx' \in BOOLEAN
      BY <2>1
    <3>5. QED
      BY <1>1, <2>1, <3>1, <3>2, <3>3, <3>4 DEF TypeOK
  <2>3. Numbered' /\ Reading' /\ Owned'
    BY <1>1, <2>1 DEF TypeOK, Numbered, Reading, Owned
  <2>4. ASSUME ~astray' PROVE Sound'
    <3>. USE <1>1, <2>4 DEF Sound
    <3>1. owner = t /\ \A u \in Tasks : u # t => ~Open(u)
      BY <1>4, <2>1 DEF OneOwner, Open
    <3>2. Staging' /\ Answering' /\ OneOwner'
      BY <1>4, <2>1, <3>1 DEF TypeOK, Staging, Answering, OneOwner, Open
    <3>3. \A w \in Writes : w \in buffered <=> joined[w] = t
      BY <2>1, <3>1 DEF Buffering
    <3>4. Buffering' /\ Joining' /\ Fate'
      BY <1>4, <2>1, <3>1, <3>3 DEF TypeOK, Buffering, Joining, Fate, Kept, MayHave
    <3>5. \A w \in Writes : w[1] = t => /\ w \in acked => w \in buffered
                                        /\ w \in buffered => w \in acked \/ w \in unheard
                                        /\ w \notin applied
      <4>1. stage[t] \in {"commit", "rollback"} /\ Open(t) /\ ~Kept(t)
        BY <1>4 DEF TypeOK, Open, Kept
      <4>2. \A w \in Writes : w[1] = t => ~JustMade(w)
        BY DEF JustMade
      <4>3. \A w \in Writes : w[1] = t => /\ w \in acked => w \in buffered
                                          /\ w \in buffered => w \in acked \/ w \in unheard
        BY <2>1, <4>1, <4>2 DEF Acknowledging
      <4>. QED  BY <2>1, <3>3, <4>1, <4>3 DEF Joining, Fate, MayHave, Staging
    <3>6. Acknowledging'
      <4>1. /\ \A u \in Tasks : /\ ~Open(u)'
                                /\ u # t => (Kept(u)' <=> Kept(u))
                                /\ Kept(t)' => stage[t] = "commit"
            /\ outcome' = outcome /\ outcome[t] # "resolved"
        BY <1>4, <2>1, <3>1 DEF TypeOK, Kept, Open
      <4>2. \A w \in Writes : JustMade(w)' <=> JustMade(w)
        BY <2>1 DEF TypeOK, JustMade
      <4>3. \A w \in Writes : /\ w[1] \in Tasks /\ w[1] # t => (w \in applied' <=> w \in applied)
                              /\ w \in applied => w \in applied'
                              /\ w[1] = t => (w \in applied' <=> stage[t] = "commit" /\ w \in buffered)
        BY <2>1, <3>3, <3>5 DEF Joining
      <4>. QED  BY <3>5, <4>1, <4>2, <4>3 DEF Acknowledging
    <3>7. Unheard'
      BY <2>1 DEF TypeOK, Unheard
    <3>. QED  BY <3>2, <3>4, <3>6, <3>7
  <2>. QED  BY <2>2, <2>3, <2>4
<1>. QED  BY <1>1, <1>2, <1>3, <1>4

\* Every call of every task, and every break, keeps the invariant.
LEMMA NextInv == IInv /\ [Next]_vars => IInv'
<1> SUFFICES ASSUME IInv, [Next]_vars PROVE IInv'
  OBVIOUS
<1>1. ASSUME NEW t \in Tasks, Transaction(t) PROVE IInv'
  BY <1>1, StartInv, CallInv, BegunInv, BodyEndsInv, CommittedInv, RolledBackInv DEF Transaction
<1>2. ASSUME NEW t \in All, Write(t) \/ Wrote(t) PROVE IInv'
  BY <1>2, WriteInv, WroteInv
<1>3. CASE Break
  BY <1>3, BreakInv
<1>4. CASE UNCHANGED vars
  BY <1>4 DEF IInv, Sound, TypeOK, Staging, Numbered, Reading, Owned, Answering, OneOwner,
              Buffering, Joining, Fate, Acknowledging, Unheard, Open, Kept, MayHave, JustMade, vars, reading, server
<1>5. QED
  BY <1>1, <1>2, <1>3, <1>4 DEF Next

\* The inductive invariant holds in every state.
LEMMA Invariance == Spec => []IInv
BY InitInv, NextInv, PTL DEF Spec

-----------------------------------------------------------------------------
(* The theorems.                                                           *)

\* The state of both clients and of the server is well typed, and a
\* transaction() has an outcome exactly when it is over.
THEOREM TypeCorrect == Spec => []TypeOK
<1>1. IInv => TypeOK
  BY DEF IInv
<1>2. QED
  BY <1>1, Invariance, PTL

\* Whatever the other tasks do on the connection, whenever it breaks and whatever
\* times out, a transaction() that returned is applied whole and one that raised
\* not at all, until a call reads an answer that is not its own.
THEOREM TransactionsAreAtomic == Spec => []AllOrNothing
<1>1. IInv => AllOrNothing
  <2> SUFFICES ASSUME IInv, Sound, NEW t \in Tasks,
                      NEW mine, mine = applied \cap Of(t)
               PROVE  /\ mine # {} =>
                           /\ outcome[t] = "resolved" \/ stage[t] = "commit" \/ t \in unsure
                           /\ acked \cap Of(t) \subseteq mine /\ mine \subseteq acked \cup unheard
                      /\ outcome[t] = "resolved" => mine = acked \cap Of(t)
    BY DEF AllOrNothing, IInv
  <2>1. /\ \A w \in mine : w \in Writes /\ w[1] = t /\ w \in applied
        /\ \A w \in Writes : w[1] = t => (w \in mine <=> w \in applied)
        /\ \A w : w \in acked \cap Of(t) <=> w \in Writes /\ w[1] = t /\ w \in acked
    BY DEF Of, IInv, TypeOK
  <2>2. \A w \in mine : Kept(t) \/ MayHave(t)
    BY <2>1, TaskParts DEF Sound, Joining, Fate
  <2>3. mine # {} => acked \cap Of(t) \subseteq mine /\ mine \subseteq acked \cup unheard
    BY <2>1 DEF Sound, Acknowledging
  <2>4. outcome[t] = "resolved" => mine = acked \cap Of(t)
    BY <2>1 DEF Sound, Acknowledging, Kept
  <2>5. QED
    BY <2>2, <2>3, <2>4 DEF Kept, MayHave
<1>2. QED
  BY <1>1, Invariance, PTL

\* No later write is swallowed by a transaction that nobody is in any more,
\* unless the body was interrupted by what "except Exception" does not catch, or
\* begin() timed out in Python although BEGIN was accepted; whatever is read
\* astray after that.
THEOREM NoTransactionLeftBehind == Spec => []NothingLeftOpen
<1>1. IInv => NothingLeftOpen
  BY DEF IInv, Reading, Owned, NothingLeftOpen, Inside
<1>2. QED
  BY <1>1, Invariance, PTL

\* A write of another task that got into a transaction takes effect if and only
\* if the transaction does, until a call reads an answer that is not its own.
THEOREM WritesShareFate == Spec => []JoinedShareFate
<1>1. IInv => JoinedShareFate
  <2> SUFFICES ASSUME IInv, Sound, NEW w \in acked
               PROVE  IF joined[w] = NoTask THEN w \in applied
                      ELSE /\ outcome[joined[w]] = "resolved" => w \in applied
                           /\ outcome[joined[w]] = "rejected" /\ joined[w] \notin unsure
                                => w \notin applied
    BY DEF JoinedShareFate, IInv
  <2>1. w \in Writes /\ joined[w] \in Tasks \cup {NoTask}
    BY DEF IInv, TypeOK
  <2>2. CASE joined[w] = NoTask
    BY <2>1, <2>2 DEF Sound, Acknowledging
  <2>3. CASE joined[w] # NoTask
    <3>1. outcome[joined[w]] = "rejected" => stage[joined[w]] = "done"
      BY <2>1, <2>3 DEF IInv, TypeOK
    <3>2. QED
      BY <2>1, <2>3, <3>1 DEF Sound, Fate, Kept, MayHave
  <2>4. QED
    BY <2>2, <2>3
<1>2. QED
  BY <1>1, Invariance, PTL
=============================================================================
