---------------------------- MODULE Transactions ----------------------------
(***************************************************************************)
(* transaction() of both clients, over one connection that several tasks   *)
(* of the application share (threads in Python, async functions in         *)
(* JavaScript): every call is atomic, a transaction() of several calls is  *)
(* not.                                                                    *)
(*                                                                         *)
(* A call is two steps: the server's part, with which the call is made, and *)
(* the client's, which reads the answer.  The connection may break before, *)
(* between or after them.  In Python a call holds a lock from the one to   *)
(* the other, and recv may time out in between: the call raises, and its   *)
(* answer is left for a later call to read.  Left out are a timeout of     *)
(* sendall, with half a command sent, and an interrupt during a call.      *)
(*                                                                         *)
(* The server is external (PROTOCOL.md): it keeps one transaction per      *)
(* connection, and drops it when the connection does.  It executes the     *)
(* commands of a connection in the order they were sent; that it does so   *)
(* at once makes no difference to who reads which answer, nor to what      *)
(* commands that come later find.                                          *)
(***************************************************************************)
EXTENDS Naturals, Sequences

CONSTANTS
  Langs,      \* the clients: "py" and "js"
  Tasks,      \* the tasks that run one transaction() each
  Writers,    \* other tasks of the application: each makes single writes
  MaxWrites,  \* bound: MaxWrites[t], the writes t makes
  MaxUnread,  \* bound: answers that calls of Python which timed out left unread
  Breaks      \* may the connection break?

NoTask == [none |-> TRUE]

ASSUME TasksAssumption ==
  /\ Langs \subseteq {"py", "js"} /\ Tasks \cap Writers = {} /\ NoTask \notin Tasks
  /\ MaxWrites \in [Tasks \cup Writers -> Nat] /\ MaxUnread \in Nat /\ Breaks \in BOOLEAN

VARIABLES
  lang,       \* which client it is
  stage,      \* stage[t]: where transaction() of t is, or the writer t
  answer,     \* answer[t]: what the call t has made was answered
  outcome,    \* outcome[t]: how transaction() of t ended
  wrote,      \* wrote[t]: writes t has made
  acked,      \* the writes acknowledged to their callers
  unheard,    \* history: the writes whose callers read no answer
  unread,     \* the answers calls that timed out left on the connection or in _buf
  alive,      \* is the connection in working order?
  inTx,       \* server: is a transaction open on the connection?
  buffered,   \* server: the writes made in the open transaction
  applied,    \* server: the writes that took effect for good
  owner,      \* history: the last task whose BEGIN was accepted
  joined,     \* history: joined[w]: the transaction w was made in, or NoTask
  unsure,     \* history: the tasks that did not read the answer to their COMMIT
  stranded,   \* history: the tasks whose begin() raised though BEGIN was accepted
  astray      \* history: has a call read an answer that is not its own?

All    == Tasks \cup Writers
Writes == UNION {{t} \X (1 .. MaxWrites[t]) : t \in All}

reading == <<answer, unread, astray>>
server  == <<inTx, buffered, applied>>
vars    == <<lang, alive, stage, outcome, wrote, acked, unheard, reading, server,
             owner, joined, unsure, stranded>>

AnswerLines == Seq({"ok", "err"})

Inside == {"begin", "body", "write", "commit", "rollback"}

\* The variables have their types, a transaction() has an outcome exactly when it
\* is over, and no answer is left for code that did not ask for it.
TypeOK ==
  /\ lang \in Langs /\ alive \in BOOLEAN /\ inTx \in BOOLEAN
  /\ stage \in [All -> Inside \cup {"idle", "done"}]
  /\ answer \in [All -> {"none", "ok", "err", "lost"}]
  /\ outcome \in [Tasks -> {"none", "resolved", "rejected", "interrupted"}]
  /\ wrote \in [All -> Nat]
  /\ acked \subseteq Writes /\ unheard \subseteq Writes /\ buffered \subseteq Writes /\ applied \subseteq Writes
  /\ owner \in Tasks \cup {NoTask} /\ unsure \subseteq Tasks
  /\ joined \in [Writes -> Tasks \cup {NoTask}]
  /\ unread \in AnswerLines /\ stranded \subseteq Tasks /\ astray \in BOOLEAN
  /\ \A t \in Tasks : stage[t] = "done" <=> outcome[t] # "none"
  /\ \A t \in All : answer[t] # "none" => stage[t] \in Inside \ {"body"}

Init ==
  /\ lang \in Langs /\ alive = TRUE
  /\ stage = [t \in All |-> "idle"] /\ answer = [t \in All |-> "none"]
  /\ outcome = [t \in Tasks |-> "none"] /\ wrote = [t \in All |-> 0]
  /\ acked = {} /\ unheard = {} /\ inTx = FALSE /\ buffered = {} /\ applied = {}
  /\ owner = NoTask /\ joined = [w \in Writes |-> NoTask] /\ unsure = {}
  /\ unread = <<>> /\ stranded = {} /\ astray = FALSE

-----------------------------------------------------------------------------
(* The server, external.                                                   *)

\* A call on a broken connection fails; otherwise the server answers it.
Lost(t) == /\ ~alive /\ answer' = [answer EXCEPT ![t] = "lost"]
           /\ UNCHANGED <<server, owner, joined>>
Answer(t, a) == alive /\ answer' = [answer EXCEPT ![t] = a]

ServeBegin(t) ==
  \/ Lost(t)
  \/ inTx /\ Answer(t, "err") /\ UNCHANGED <<server, owner, joined>>
  \/ /\ ~inTx /\ Answer(t, "ok")
     /\ inTx' = TRUE /\ buffered' = {} /\ owner' = t
     /\ UNCHANGED <<applied, joined>>

\* COMMIT keeps the writes of the transaction, ROLLBACK drops them.
ServeEnd(t, kept) ==
  \/ Lost(t)
  \/ ~inTx /\ Answer(t, "err") /\ UNCHANGED <<server, owner, joined>>
  \/ /\ inTx /\ Answer(t, "ok")
     /\ inTx' = FALSE /\ buffered' = {} /\ applied' = applied \cup kept
     /\ UNCHANGED <<owner, joined>>

\* A write may be refused ("tx full", "tx cross-handle", a bad value).
ServeWrite(t) ==
  LET w == <<t, wrote[t] + 1>> IN
  \/ Lost(t)
  \/ Answer(t, "err") /\ UNCHANGED <<server, owner, joined>>
  \/ /\ inTx /\ Answer(t, "ok")
     /\ buffered' = buffered \cup {w} /\ joined' = [joined EXCEPT ![w] = owner]
     /\ UNCHANGED <<inTx, applied, owner>>
  \/ /\ ~inTx /\ Answer(t, "ok")
     /\ applied' = applied \cup {w}
     /\ UNCHANGED <<inTx, buffered, owner, joined>>

\* The connection breaks: answers on their way may be lost, the last ones first,
\* and the server rolls the open transaction back.
Break ==
  /\ Breaks /\ alive
  /\ alive' = FALSE
  /\ inTx' = FALSE /\ buffered' = {}
  /\ \E gone \in SUBSET {t \in All : answer[t] # "none"}, k \in 0 .. Len(unread) :
       /\ k < Len(unread) => gone = {t \in All : answer[t] # "none"}
       /\ answer' = [t \in All |-> IF t \in gone THEN "lost" ELSE answer[t]]
       /\ unread' = SubSeq(unread, 1, k)
  /\ UNCHANGED <<lang, stage, outcome, wrote, acked, unheard, applied, owner, joined, unsure, stranded, astray>>

-----------------------------------------------------------------------------
(* A call: send() and what it raises.                                      *)

\* with self._lock: Python makes one call at a time.
Free == lang = "py" => \A t \in All : answer[t] = "none"

\* The answer to the call is the next line.
ReadsOwn(t, got) == unread = <<>> /\ got = answer[t] /\ UNCHANGED <<unread, astray>>

\* The next line is the answer to a call that timed out.  begin() takes any +OK for
\* its own; the others may not be able to parse it: int() raises.
ReadsUnread(t, got) ==
  /\ unread # <<>>
  /\ got = Head(unread) \/ (stage[t] # "begin" /\ got = "err")
  /\ unread' = IF answer[t] = "lost" THEN Tail(unread) ELSE Append(Tail(unread), answer[t])
  /\ astray' = TRUE

\* Python: recv raises socket.timeout, whatever the server did with the command.
TimesOut(t, got) ==
  /\ lang = "py" /\ alive /\ Len(unread) < MaxUnread
  /\ got = "lost" /\ unread' = Append(unread, answer[t]) /\ UNCHANGED astray

\* sendall raises on a connection that broke.
SendFails(t, got) == answer[t] = "lost" /\ got = "lost" /\ UNCHANGED <<unread, astray>>

\* Mutant: the answer is not taken off the connection.
LeaveAnswer(t, got) == answer[t] # "none" /\ got = answer[t] /\ UNCHANGED reading

\* send() returns, or raises on a refusal ("err") or without an answer ("lost").
Answered(t, got) ==
  /\ answer[t] # "none" /\ answer' = [answer EXCEPT ![t] = "none"]
  /\ ReadsOwn(t, got) \/ ReadsUnread(t, got) \/ TimesOut(t, got) \/ SendFails(t, got)

Gets == {"ok", "err", "lost"}

-----------------------------------------------------------------------------
(* transaction().                                                          *)

Go(t, s)  == stage' = [stage EXCEPT ![t] = s] /\ UNCHANGED outcome
End(t, o) == stage' = [stage EXCEPT ![t] = "done"] /\ outcome' = [outcome EXCEPT ![t] = o]

\* begin(), commit() or rollback() is sent.
Call(t) ==
  /\ answer[t] = "none" /\ Free
  /\ \/ stage[t] = "begin" /\ ServeBegin(t)
     \/ stage[t] = "commit" /\ ServeEnd(t, buffered)
     \/ stage[t] = "rollback" /\ ServeEnd(t, {})
  /\ UNCHANGED <<lang, alive, stage, outcome, wrote, acked, unheard, unread, unsure, stranded, astray>>

Start(t) ==
  /\ stage[t] = "idle" /\ Go(t, "begin")
  /\ UNCHANGED <<lang, alive, reading, wrote, acked, unheard, server, owner, joined, unsure, stranded>>

\* Mutant: begin() stands inside the try block.
BeginFailed(t) == Go(t, "rollback")

\* begin() stands before the try block: when it raises, nothing is rolled back.
Refused(t) == End(t, "rejected")

Begun(t) ==
  /\ stage[t] = "begin"
  /\ \E got \in Gets :
       /\ Answered(t, got)
       /\ \/ got = "ok" /\ Go(t, "body") /\ UNCHANGED stranded
          \/ /\ got # "ok" /\ Refused(t)
             /\ stranded' = IF answer[t] = "ok" THEN stranded \cup {t} ELSE stranded
  /\ UNCHANGED <<lang, alive, wrote, acked, unheard, server, owner, joined, unsure>>

\* Mutant: an exception leaves transaction() without a rollback.
NoRollback(t) == End(t, "rejected")

\* except Exception / catch: rollback(), then raise again.
Catch(t) == Go(t, "rollback")

\* The body ends: cleanly, with an exception, or with one that "except
\* Exception" does not catch (KeyboardInterrupt, GeneratorExit).
BodyEnds(t) ==
  /\ stage[t] = "body"
  /\ \/ Go(t, "commit")
     \/ Catch(t)
     \/ lang = "py" /\ End(t, "interrupted")
  /\ UNCHANGED <<lang, alive, reading, wrote, acked, unheard, server, owner, joined, unsure, stranded>>

\* Mutant: the exception that a failing commit() raises is swallowed.
Swallow(t) == End(t, "resolved")

\* commit() raised.  In Python it stands in the else branch, behind the try
\* block; in JavaScript inside it.
CommitFailed(t) ==
  \/ lang = "py" /\ End(t, "rejected")
  \/ lang = "js" /\ Catch(t)

Committed(t) ==
  /\ stage[t] = "commit"
  /\ \E got \in Gets :
       /\ Answered(t, got)
       /\ \/ got = "ok" /\ End(t, "resolved")
          \/ got # "ok" /\ CommitFailed(t)
       /\ unsure' = IF got = "lost" THEN unsure \cup {t} ELSE unsure
  /\ UNCHANGED <<lang, alive, wrote, acked, unheard, server, owner, joined, stranded>>

\* Mutant: rollback() is repeated until it succeeds.
RetryRollback(t) ==
  /\ stage[t] = "rollback"
  /\ \E got \in Gets :
       /\ Answered(t, got)
       /\ \/ got = "ok" /\ End(t, "rejected")
          \/ got # "ok" /\ UNCHANGED <<stage, outcome>>
  /\ UNCHANGED <<lang, alive, wrote, acked, unheard, server, owner, joined, unsure, stranded>>

\* Whatever rollback() came to, an exception goes on: the first one or, in
\* Python, one of rollback() that is no CuttleDBError (socket.timeout).
RolledBack(t) ==
  /\ stage[t] = "rollback"
  /\ \E got \in Gets : Answered(t, got)
  /\ End(t, "rejected")
  /\ UNCHANGED <<lang, alive, wrote, acked, unheard, server, owner, joined, unsure, stranded>>

-----------------------------------------------------------------------------
(* Writes, in the body of a transaction() or by another task.              *)

Resting(t) == IF t \in Tasks THEN "body" ELSE "idle"

Write(t) ==
  /\ stage[t] = Resting(t) /\ wrote[t] < MaxWrites[t] /\ Free
  /\ Go(t, "write") /\ ServeWrite(t)
  /\ wrote' = [wrote EXCEPT ![t] = @ + 1]
  /\ UNCHANGED <<lang, alive, acked, unheard, unread, unsure, stranded, astray>>

\* The error of a write leaves the body, unless the body catches it.
Wrote(t) ==
  /\ stage[t] = "write"
  /\ \E got \in Gets :
       /\ Answered(t, got)
       /\ acked' = IF got = "ok" THEN acked \cup {<<t, wrote[t]>>} ELSE acked
       /\ unheard' = IF got = "lost" THEN unheard \cup {<<t, wrote[t]>>} ELSE unheard
       /\ \/ Go(t, Resting(t))
          \/ t \in Tasks /\ got # "ok" /\ Catch(t)
  /\ UNCHANGED <<lang, alive, wrote, server, owner, joined, unsure, stranded>>

-----------------------------------------------------------------------------
Transaction(t) ==
  Start(t) \/ Call(t) \/ Begun(t) \/ BodyEnds(t) \/ Committed(t) \/ RolledBack(t)

Next ==
  \/ \E t \in Tasks : Transaction(t)
  \/ \E t \in All : Write(t) \/ Wrote(t)
  \/ Break

Spec == Init /\ [][Next]_vars

\* Calls are answered or fail, those of writers too, who hold the lock in Python,
\* and a body comes to its end.
Fairness ==
  /\ \A t \in Tasks : WF_vars(Transaction(t))
  /\ \A t \in All : WF_vars(Wrote(t))

FairSpec == Spec /\ Fairness

-----------------------------------------------------------------------------
(* Properties.                                                             *)

Of(t) == {w \in Writes : w[1] = t}

\* A transaction() that returned has every write acknowledged in it applied,
\* one that raised has none, however the tasks interleave, whenever the
\* connection breaks and whichever call times out; only a COMMIT whose answer
\* was not read leaves open which it is, and only a write whose answer was not
\* read may be there unacknowledged.  So it is until a call reads an answer that
\* is not its own.
AllOrNothing ==
  ~astray =>
    \A t \in Tasks :
      LET mine == applied \cap Of(t) IN
      /\ mine # {} => /\ outcome[t] = "resolved" \/ stage[t] = "commit" \/ t \in unsure
                     /\ acked \cap Of(t) \subseteq mine /\ mine \subseteq acked \cup unheard
      /\ outcome[t] = "resolved" => mine = acked \cap Of(t)

\* When no task is inside transaction(), no transaction is left open on the
\* connection to swallow later writes, but for two reasons: an exception that is
\* no Exception, and a begin() that raised though BEGIN was accepted, which needs
\* a call that timed out.  Nothing else leaves one, not even answers read astray.
NothingLeftOpen ==
  /\ inTx => \/ \E t \in Tasks : stage[t] \in Inside
             \/ \E t \in Tasks : outcome[t] = "interrupted"
             \/ stranded # {}
  /\ stranded # {} => lang = "py" /\ MaxUnread > 0

\* A write another task made meanwhile joins the transaction: acknowledged
\* before or not, it takes effect if and only if the transaction does; one
\* acknowledged outside any transaction stays.  So it is until a call reads an
\* answer that is not its own.
JoinedShareFate ==
  ~astray =>
    \A w \in acked :
      LET t == joined[w] IN
      IF t = NoTask THEN w \in applied
      ELSE /\ outcome[t] = "resolved" => w \in applied
           /\ outcome[t] = "rejected" /\ t \notin unsure => w \notin applied

\* Every transaction() ends, whatever breaks.
EveryTransactionEnds ==
  \A t \in Tasks : (stage[t] = "begin") ~> (stage[t] = "done")

\* What the docstring of transaction() says, "rolls back on exception": one that
\* raised has not left its transaction open.  In Python this does not hold when
\* the answer to BEGIN times out (stranded).
RollsBackOnException ==
  \A t \in Tasks : outcome[t] = "rejected" /\ owner = t => ~inTx
=============================================================================
