-------------------------- MODULE PyClientRpcProof --------------------------
(***************************************************************************)
(* Theorems about whose answers a call of PyClient reads, for any number   *)
(* of calls, commands and events, checked by TLAPS.                        *)
(*                                                                         *)
(* EveryCallReadsItsOwn and ImplementsChannel hold as long as no call      *)
(* times out, no command of a batch is refused, and tensor calls are made  *)
(* where no events come (Orderly), on any number of connections. The       *)
(* client knows nothing of requests: it counts lines. What makes the count *)
(* right is InStep, that the answers under way and the commands not yet    *)
(* answered are just those the latest call still waits for, and none when  *)
(* no call reads. Quiet says why no event stands among raw bytes, and      *)
(* Filed what the calls before the latest have read.                       *)
(*                                                                         *)
(* AnswersAreReadInOrder holds whatever times out and is refused, without  *)
(* tensor calls and on one connection: Counted says that what has been     *)
(* read, is under way and is still to be answered is all that was asked,   *)
(* from the connect on.                                                    *)
(***************************************************************************)
EXTENDS PyClientProofs

\* A recv waits for as long as it takes, commands of a batch are not refused,
\* and tensor calls are made on connections that authenticated and have no
\* subscription.
Orderly ==
  /\ Timeouts = FALSE /\ Refusable # "any"
  /\ \A c \in Conns : "matmul" \in Kinds[c] => c \notin Subscribed /\ Auth = TRUE

\* What is buffered or on its way, and the answers in it.
Pipe    == buf \o toClient
Answers == Kept(Pipe, NoEvents)

\* The connection in use has no events of its own, and began with AUTH.
Apart == sock # 0 /\ sock \notin Subscribed /\ Auth = TRUE

Header(r)  == Item("header", r, 1)
Payload(r) == Item("payload", r, 1)

\* a are answers on their way and s commands without one, of call r with n
\* commands that has g answers: lines, the answer to a tensor call, its raw bytes.
LinesDue(a, s, r, g, n) ==
  /\ g < n /\ g + Len(a) + Len(s) <= n
  /\ \A j \in 1 .. Len(a) : a[j] = Item("ok", r, g + j) \/ (n = 1 /\ a[j] = Item("err", r, g + j))
  /\ \A j \in 1 .. Len(s) : s[j] = [of |-> r, num |-> g + Len(a) + j, binary |-> FALSE]

TensorDue(a, s, r) ==
  \/ Len(a) = 0 /\ Len(s) = 0
  \/ Len(a) = 0 /\ Len(s) = 1 /\ s[1] = [of |-> r, num |-> 1, binary |-> TRUE]
  \/ Len(a) = 1 /\ Len(s) = 0 /\ a[1] \in {Header(r), Item("err", r, 1)}
  \/ Len(a) = 2 /\ Len(s) = 0 /\ a[1] = Header(r) /\ a[2] = Payload(r)

PayloadDue(a, s, r) ==
  Len(s) = 0 /\ (Len(a) = 0 \/ (Len(a) = 1 /\ a[1] = Payload(r)))

\* The latest call reads its own answers, and nothing is left over when it ends.
InStep ==
  /\ pc \in {"idle", "polling"} => Len(Answers) = 0 /\ Len(toServer) = 0
  /\ pc \in {"reading", "payload"} => cur \in Calls
  /\ pc = "reading" /\ form # "matmul" => LinesDue(Answers, toServer, cur, Len(got[cur]), size[cur])
  /\ pc = "reading" /\ form = "matmul" =>
       Apart /\ size[cur] = 1 /\ Len(got[cur]) = 0 /\ TensorDue(Answers, toServer, cur)
  /\ pc = "payload" =>
       form = "matmul" /\ Apart /\ size[cur] = 1 /\ Len(got[cur]) = 0 /\ PayloadDue(Answers, toServer, cur)

EventsFirst(p) == \A i, j \in 1 .. Len(p) : i < j /\ IsEvent(p[j]) => IsEvent(p[i])
NoEvent(p)     == \A i \in 1 .. Len(p) : ~IsEvent(p[i])

\* What an earlier connection left in the buffer is read by the first call of
\* the next, AUTH, before its answer.
Quiet == Apart => EventsFirst(Pipe) /\ ((pc = "reading" /\ form # "matmul") \/ NoEvent(Pipe))

\* What a call has read are answers to its commands, from the first on.
Filed ==
  \A r \in Calls :
    /\ r <= cur => size[r] > 0
    /\ \A i \in 1 .. Len(got[r]) : AnswerTo(got[r][i]) = <<r, i>>
    /\ status[r] = "returned" => Len(got[r]) = size[r]

RInv == TypeOK /\ InUse /\ Made /\ InStep /\ Quiet /\ Filed

-----------------------------------------------------------------------------
(* Answers under way.                                                      *)

\* Where the items of two sequences are, one after the other.
LEMMA ItemsAt ==
  \A u, v \in Seq(Items) :
    /\ Len(u) \in Nat /\ Len(v) \in Nat /\ Len(u \o v) = Len(u) + Len(v)
    /\ \A i \in 1 .. Len(u) : (u \o v)[i] = u[i]
    /\ \A i \in 1 .. Len(v) : (u \o v)[Len(u) + i] = v[i]
<1>. SUFFICES ASSUME NEW u \in Seq(Items), NEW v \in Seq(Items)
              PROVE  /\ Len(u) \in Nat /\ Len(v) \in Nat /\ Len(u \o v) = Len(u) + Len(v)
                     /\ \A i \in 1 .. Len(u) : (u \o v)[i] = u[i]
                     /\ \A i \in 1 .. Len(v) : (u \o v)[Len(u) + i] = v[i]
  OBVIOUS
<1>1. /\ Len(u) \in Nat /\ Len(v) \in Nat /\ Len(u \o v) = Len(u) + Len(v)
      /\ \A i \in 1 .. Len(u) + Len(v) : (u \o v)[i] = IF i <= Len(u) THEN u[i] ELSE v[i - Len(u)]
  BY ConcatProperties, LenProperties
<1>2. \A i \in 1 .. Len(u) : i \in 1 .. Len(u) + Len(v) /\ i <= Len(u)
  BY <1>1
<1>3. \A i \in 1 .. Len(v) : /\ Len(u) + i \in 1 .. Len(u) + Len(v) /\ ~(Len(u) + i <= Len(u))
                             /\ (Len(u) + i) - Len(u) = i
  BY <1>1
<1>. QED  BY <1>1, <1>2, <1>3

\* Of a sequence some part of which has gone, at the end or at the front, what
\* is left starts with events, or has none, if the whole does.
LEMMA QuietParts ==
  \A u, v \in Seq(Items) :
    /\ EventsFirst(u \o v) => EventsFirst(u) /\ EventsFirst(v)
    /\ NoEvent(u \o v) => NoEvent(u) /\ NoEvent(v)
<1>. SUFFICES ASSUME NEW u \in Seq(Items), NEW v \in Seq(Items)
              PROVE  /\ EventsFirst(u \o v) => EventsFirst(u) /\ EventsFirst(v)
                     /\ NoEvent(u \o v) => NoEvent(u) /\ NoEvent(v)
  OBVIOUS
<1>. DEFINE p == u \o v
<1>1. /\ Len(u) \in Nat /\ Len(v) \in Nat /\ Len(p) = Len(u) + Len(v)
      /\ \A i \in 1 .. Len(u) : p[i] = u[i] /\ i \in 1 .. Len(p)
      /\ \A i \in 1 .. Len(v) : p[Len(u) + i] = v[i] /\ Len(u) + i \in 1 .. Len(p)
  BY ItemsAt
<1>. HIDE DEF p
<1>2. ASSUME EventsFirst(p) PROVE EventsFirst(u)
  BY <1>1, <1>2 DEF EventsFirst
<1>3. ASSUME EventsFirst(p) PROVE EventsFirst(v)
  <2>. SUFFICES ASSUME NEW i \in 1 .. Len(v), NEW j \in 1 .. Len(v), i < j, IsEvent(v[j]) PROVE IsEvent(v[i])
    BY DEF EventsFirst
  <2>1. Len(u) + i \in 1 .. Len(p) /\ Len(u) + j \in 1 .. Len(p) /\ Len(u) + i < Len(u) + j
    BY <1>1
  <2>2. IsEvent(p[Len(u) + j])
    BY <1>1
  <2>3. IsEvent(p[Len(u) + i])
    BY <1>3, <2>1, <2>2 DEF EventsFirst
  <2>. QED  BY <1>1, <2>3
<1>4. NoEvent(p) => NoEvent(u) /\ NoEvent(v)
  BY <1>1 DEF NoEvent
<1>. QED  BY <1>2, <1>3, <1>4 DEF p

\* An answer comes at the end.
LEMMA QuietMore ==
  \A p \in Seq(Items), x \in Items : ~IsEvent(x) =>
    /\ EventsFirst(p) => EventsFirst(Append(p, x))
    /\ NoEvent(p) => NoEvent(Append(p, x))
<1>. SUFFICES ASSUME NEW p \in Seq(Items), NEW x \in Items, ~IsEvent(x)
              PROVE  /\ EventsFirst(p) => EventsFirst(Append(p, x))
                     /\ NoEvent(p) => NoEvent(Append(p, x))
  OBVIOUS
<1>. DEFINE q == Append(p, x)
<1>1. /\ Len(p) \in Nat /\ Len(q) = Len(p) + 1 /\ q[Len(p) + 1] = x
      /\ \A i \in 1 .. Len(p) : q[i] = p[i]
  BY AppendProperties, LenProperties
<1>2. \A i \in 1 .. Len(q) : i = Len(p) + 1 \/ i \in 1 .. Len(p)
  BY <1>1
<1>. HIDE DEF q
<1>. QED  BY <1>1, <1>2 DEF EventsFirst, NoEvent, q

\* Items without an answer among them are events.
LEMMA OnlyEvents ==
  ASSUME NEW p \in Seq(Items), Len(Kept(p, NoEvents)) = 0
  PROVE  \A i \in 1 .. Len(p) : IsEvent(p[i])
<1>. SUFFICES ASSUME NEW i \in 1 .. Len(p), ~IsEvent(p[i]) PROVE FALSE
  OBVIOUS
<1>. DEFINE u == SubSeq(p, 1, i)
            v == SubSeq(p, i + 1, Len(p))
<1>1. i \in 0 .. Len(p) /\ Len(p) \in Nat /\ i \in Nat
  BY LenProperties
<1>2. u \in Seq(Items) /\ v \in Seq(Items) /\ u \o v = p /\ Len(u) = i /\ u[i] = p[i]
  BY <1>1, Cut
<1>. HIDE DEF u, v
<1>3. PICK m \in Nat : i = m + 1
  <2>1. i - 1 \in Nat /\ i = (i - 1) + 1
    BY <1>1
  <2>. QED  BY <2>1
<1>4. PICK t \in Seq(Items), x \in Items : u = Append(t, x) /\ Len(t) = m
  <2>1. u \in Seq(Items)
    BY <1>2
  <2>2. Len(u) = m + 1
    BY <1>2, <1>3
  <2>. QED  BY ONLY m \in Nat, <2>1, <2>2, FrontLast
<1>5. x = p[i]
  <2>1. Append(t, x)[Len(t) + 1] = x
    BY <1>4, AppendProperties
  <2>. QED  BY <1>2, <1>3, <1>4, <2>1
<1>6. x \in NoEvents
  BY <1>5 DEF NoEvents
<1>7. Kept(u, NoEvents) = Append(Kept(t, NoEvents), x)
  <2>1. \A s \in Seq(Items), y \in Items :
          y \in NoEvents => Kept(Append(s, y), NoEvents) = Append(Kept(s, NoEvents), y)
    BY KeptAppend
  <2>. QED  BY <1>4, <1>6, <2>1
<1>8. Kept(t, NoEvents) \in Seq(Items) /\ Kept(v, NoEvents) \in Seq(Items) /\ Kept(u, NoEvents) \in Seq(Items)
  BY <1>2, KeptJoin
<1>9. Len(Kept(u, NoEvents)) > 0
  BY <1>7, <1>8, AppendProperties, LenProperties
<1>10. Kept(p, NoEvents) = Kept(u, NoEvents) \o Kept(v, NoEvents)
  BY <1>2, KeptJoin
<1>11. Len(Kept(u, NoEvents) \o Kept(v, NoEvents)) = Len(Kept(u, NoEvents)) + Len(Kept(v, NoEvents))
       /\ Len(Kept(u, NoEvents)) \in Nat /\ Len(Kept(v, NoEvents)) \in Nat
  BY <1>8, ItemsAt
<1>. QED  BY <1>9, <1>10, <1>11

\* x was the first of the items p, and q are the rest.
First(x, p, q) ==
  /\ x \in Items /\ p \in Seq(Items) /\ q \in Seq(Items) /\ p = <<x>> \o q

\* The first of the answers a was x, and b are the rest.
FirstAnswer(x, a, b) ==
  Len(a) = Len(b) + 1 /\ a[1] = x /\ \A j \in 1 .. Len(b) : b[j] = a[j + 1]

\* An item that is taken from the front was the first answer, or an event.
LEMMA TakeFirst ==
  \A x, p, q : First(x, p, q) =>
    /\ Kept(p, NoEvents) \in Seq(Items) /\ Kept(q, NoEvents) \in Seq(Items)
    /\ IsEvent(x) => Kept(q, NoEvents) = Kept(p, NoEvents)
    /\ ~IsEvent(x) => FirstAnswer(x, Kept(p, NoEvents), Kept(q, NoEvents))
    /\ EventsFirst(p) => EventsFirst(q) /\ (~IsEvent(x) => NoEvent(q))
    /\ NoEvent(p) => NoEvent(q) /\ ~IsEvent(x)
<1>. SUFFICES ASSUME NEW x, NEW p, NEW q, First(x, p, q)
              PROVE
    /\ Kept(p, NoEvents) \in Seq(Items) /\ Kept(q, NoEvents) \in Seq(Items)
    /\ IsEvent(x) => Kept(q, NoEvents) = Kept(p, NoEvents)
    /\ ~IsEvent(x) => FirstAnswer(x, Kept(p, NoEvents), Kept(q, NoEvents))
    /\ EventsFirst(p) => EventsFirst(q) /\ (~IsEvent(x) => NoEvent(q))
    /\ NoEvent(p) => NoEvent(q) /\ ~IsEvent(x)
  OBVIOUS
<1>. DEFINE h == <<x>>
<1>1. h \in Seq(Items) /\ q \in Seq(Items) /\ p = h \o q /\ p \in Seq(Items) /\ x \in Items /\ Len(h) = 1 /\ h[1] = x
  BY DEF First
<1>2. Kept(h, NoEvents) = IF x \in NoEvents THEN <<x>> ELSE <<>>
  BY <1>1, KeptOne
<1>. HIDE DEF h
<1>3. Kept(p, NoEvents) = Kept(h, NoEvents) \o Kept(q, NoEvents)
  BY <1>1, KeptJoin
<1>4. Kept(p, NoEvents) \in Seq(Items) /\ Kept(q, NoEvents) \in Seq(Items)
  BY <1>1, KeptJoin
<1>5. ASSUME IsEvent(x) PROVE Kept(q, NoEvents) = Kept(p, NoEvents)
  <2>1. Kept(h, NoEvents) = <<>>
    BY <1>2, <1>5 DEF NoEvents
  <2>. QED  BY <1>3, <1>4, <2>1, ConcatEmptySeq
<1>6. ASSUME ~IsEvent(x) PROVE FirstAnswer(x, Kept(p, NoEvents), Kept(q, NoEvents))
  <2>1. Kept(h, NoEvents) = <<x>>
    BY <1>1, <1>2, <1>6 DEF NoEvents
  <2>. DEFINE b == Kept(q, NoEvents)
              g == <<x>>
  <2>2. b \in Seq(Items) /\ g \in Seq(Items) /\ Len(g) = 1 /\ g[1] = x
    BY <1>1, <1>4
  <2>. HIDE DEF b, g
  <2>5. /\ Len(g \o b) = Len(g) + Len(b) /\ Len(b) \in Nat
        /\ \A i \in 1 .. Len(g) : (g \o b)[i] = g[i]
        /\ \A i \in 1 .. Len(b) : (g \o b)[Len(g) + i] = b[i]
    BY ONLY <2>2, ItemsAt
  <2>3. /\ Len(g \o b) = 1 + Len(b) /\ Len(b) \in Nat /\ (g \o b)[1] = x
        /\ \A i \in 1 .. Len(b) : (g \o b)[1 + i] = b[i]
    BY <2>2, <2>5
  <2>4. FirstAnswer(x, g \o b, b)
    BY <2>3 DEF FirstAnswer
  <2>. QED  BY <1>3, <2>1, <2>4 DEF b, g
<1>7. /\ Len(q) \in Nat /\ Len(p) = 1 + Len(q) /\ p[1] = x
      /\ \A i \in 1 .. Len(q) : p[1 + i] = q[i]
  <2>1. /\ Len(h \o q) = Len(h) + Len(q) /\ Len(q) \in Nat
        /\ \A i \in 1 .. Len(h) : (h \o q)[i] = h[i]
        /\ \A i \in 1 .. Len(q) : (h \o q)[Len(h) + i] = q[i]
    BY ONLY <1>1, ItemsAt
  <2>. QED  BY <1>1, <2>1
<1>8. ASSUME EventsFirst(p) PROVE EventsFirst(q) /\ (~IsEvent(x) => NoEvent(q))
  <2>1. EventsFirst(q)
    BY <1>1, <1>8, QuietParts
  <2>2. ASSUME NEW i \in 1 .. Len(q), IsEvent(q[i]) PROVE IsEvent(x)
    <3>1. 1 + i \in 1 .. Len(p) /\ 1 \in 1 .. Len(p) /\ 1 < 1 + i /\ IsEvent(p[1 + i])
      BY <1>7, <2>2
    <3>. QED  BY <1>7, <1>8, <3>1 DEF EventsFirst
  <2>. QED  BY <2>1, <2>2 DEF NoEvent
<1>9. ASSUME NoEvent(p) PROVE NoEvent(q) /\ ~IsEvent(x)
  <2>1. 1 \in 1 .. Len(p)
    BY <1>7
  <2>. QED  BY <1>1, <1>7, <1>9, <2>1, QuietParts DEF NoEvent
<1>. QED  BY <1>4, <1>5, <1>6, <1>8, <1>9

\* Answers that are lost are the last ones.
LEMMA LoseLast ==
  \A u, v \in Seq(Items) :
    /\ Len(Kept(u, NoEvents)) <= Len(Kept(u \o v, NoEvents))
    /\ \A j \in 1 .. Len(Kept(u, NoEvents)) :
         j \in 1 .. Len(Kept(u \o v, NoEvents)) /\ Kept(u, NoEvents)[j] = Kept(u \o v, NoEvents)[j]
BY KeptLess

\* Of the items without an answer among them, none is left by losing some.
LEMMA StillNone ==
  \A u, v \in Seq(Items) :
    Len(Kept(u \o v, NoEvents)) = 0 => Len(Kept(u, NoEvents)) = 0 /\ Len(Kept(v, NoEvents)) = 0
<1>. SUFFICES ASSUME NEW u \in Seq(Items), NEW v \in Seq(Items), Len(Kept(u \o v, NoEvents)) = 0
              PROVE  Len(Kept(u, NoEvents)) = 0 /\ Len(Kept(v, NoEvents)) = 0
  OBVIOUS
<1>. DEFINE a == Kept(u, NoEvents)
            b == Kept(v, NoEvents)
<1>1. Kept(u \o v, NoEvents) = a \o b /\ a \in Seq(Items) /\ b \in Seq(Items)
  BY KeptJoin
<1>. HIDE DEF a, b
<1>2. Len(a \o b) = Len(a) + Len(b) /\ Len(a) \in Nat /\ Len(b) \in Nat
  BY <1>1, ItemsAt
<1>. QED  BY <1>1, <1>2 DEF a, b

-----------------------------------------------------------------------------
(* What is due.                                                            *)

\* The connection broke: the last answers are lost, and no more will come.
LEMMA DueLess ==
  ASSUME NEW a \in Seq(Items), NEW b \in Seq(Items), NEW s \in Seq(Commands), NEW r, NEW g \in Nat, NEW n \in Nat,
         Len(b) <= Len(a), \A j \in 1 .. Len(b) : j \in 1 .. Len(a) /\ b[j] = a[j]
  PROVE  \A e \in Seq(Commands) : Len(e) = 0 =>
           /\ LinesDue(a, s, r, g, n) => LinesDue(b, e, r, g, n)
           /\ TensorDue(a, s, r) => TensorDue(b, e, r)
           /\ PayloadDue(a, s, r) => PayloadDue(b, e, r)
<1>. SUFFICES ASSUME NEW e \in Seq(Commands), Len(e) = 0
              PROVE  /\ LinesDue(a, s, r, g, n) => LinesDue(b, e, r, g, n)
                     /\ TensorDue(a, s, r) => TensorDue(b, e, r)
                     /\ PayloadDue(a, s, r) => PayloadDue(b, e, r)
  OBVIOUS
<1>1. Len(a) \in Nat /\ Len(b) \in Nat /\ Len(s) \in Nat
  BY LenProperties
<1>2. LinesDue(a, s, r, g, n) => LinesDue(b, e, r, g, n)
  BY <1>1 DEF LinesDue
<1>5. (Len(b) >= 1 => b[1] = a[1]) /\ (Len(b) >= 2 => b[2] = a[2])
  <2>1. (Len(b) >= 1 => 1 \in 1 .. Len(b)) /\ (Len(b) >= 2 => 2 \in 1 .. Len(b))
    BY <1>1
  <2>. QED  BY <2>1
<1>3. TensorDue(a, s, r) => TensorDue(b, e, r)
  <2>. SUFFICES ASSUME TensorDue(a, s, r) PROVE TensorDue(b, e, r)
    OBVIOUS
  <2>1. Len(b) = 0 \/ Len(b) = 1 \/ (Len(b) = 2 /\ Len(a) = 2)
    <3>1. Len(a) = 0 \/ Len(a) = 1 \/ Len(a) = 2
      BY DEF TensorDue
    <3>2. Len(b) <= Len(a)
      OBVIOUS
    <3>3. \A x, y \in Nat : x <= y /\ (y = 0 \/ y = 1 \/ y = 2) => x = 0 \/ x = 1 \/ (x = 2 /\ y = 2)
      OBVIOUS
    <3>. QED  BY ONLY <1>1, <3>1, <3>2, <3>3
  <2>2. Len(b) = 1 => a[1] \in {Header(r), Item("err", r, 1)}
    BY <1>1 DEF TensorDue
  <2>3. Len(b) = 2 => a[1] = Header(r) /\ a[2] = Payload(r)
    BY <1>1 DEF TensorDue
  <2>. QED  BY <1>5, <2>1, <2>2, <2>3 DEF TensorDue
<1>4. PayloadDue(a, s, r) => PayloadDue(b, e, r)
  BY <1>1 DEF PayloadDue
<1>. QED  BY <1>2, <1>3, <1>4

\* The first command gets its answer, a line.
LEMMA ServeLine ==
  ASSUME NEW a \in Seq(Items), NEW s \in Seq(Commands), NEW r \in Nat, NEW g \in Nat, NEW n \in Nat,
         Len(s) > 0, LinesDue(a, s, r, g, n)
  PROVE  /\ Head(s) = [of |-> r, num |-> g + Len(a) + 1, binary |-> FALSE]
         /\ \A kind \in {"ok", "err"} :
              kind = "ok" \/ n = 1 => LinesDue(Append(a, Item(kind, r, g + Len(a) + 1)), Tail(s), r, g, n)
<1>1. Len(a) \in Nat /\ Len(s) \in Nat /\ 1 \in 1 .. Len(s)
  BY LenProperties
<1>2. s # <<>>
  <2>1. \A e : e = <<>> => Len(e) = 0
    OBVIOUS
  <2>. QED  BY <2>1
<1>3. /\ Head(s) = s[1] /\ Tail(s) \in Seq(Commands) /\ Len(Tail(s)) = Len(s) - 1
      /\ \A j \in 1 .. Len(Tail(s)) : Tail(s)[j] = s[j + 1]
  BY <1>2, HeadTailProperties
<1>4. Head(s) = [of |-> r, num |-> g + Len(a) + 1, binary |-> FALSE]
  BY <1>1, <1>3 DEF LinesDue
<1>5. ASSUME NEW kind \in {"ok", "err"}, kind = "ok" \/ n = 1
      PROVE  LinesDue(Append(a, Item(kind, r, g + Len(a) + 1)), Tail(s), r, g, n)
  <2>. DEFINE m == Len(a)
              x == Item(kind, r, g + m + 1)
              b == Append(a, x)
              t == Tail(s)
  <2>1. x \in Items
    BY <1>1 DEF Item, Items
  <2>2. /\ Len(b) = m + 1 /\ b[m + 1] = x
        /\ \A j \in 1 .. m : b[j] = a[j]
    <3>. HIDE DEF x
    <3>. QED  BY <2>1, AppendProperties
  <2>3. g < n /\ g + m + Len(s) <= n /\ m \in Nat /\ Len(s) \in Nat /\ Len(t) = Len(s) - 1
    BY <1>1, <1>3 DEF LinesDue
  <2>4. \A j \in 1 .. m : a[j] = Item("ok", r, g + j) \/ (n = 1 /\ a[j] = Item("err", r, g + j))
    BY DEF LinesDue
  <2>5. \A j \in 1 .. Len(t) : t[j] = [of |-> r, num |-> g + (m + 1) + j, binary |-> FALSE]
    <3>1. \A j \in 1 .. Len(t) : j + 1 \in 1 .. Len(s) /\ g + m + (j + 1) = g + (m + 1) + j
      BY <2>3
    <3>. QED  BY <1>3, <3>1 DEF LinesDue
  <2>6. x = Item("ok", r, g + (m + 1)) \/ (n = 1 /\ x = Item("err", r, g + (m + 1)))
    <3>1. g + m + 1 = g + (m + 1)
      BY <2>3
    <3>. QED  BY <1>5, <3>1
  <2>7. \A j \in 1 .. m + 1 : j = m + 1 \/ j \in 1 .. m
    BY <2>3
  <2>. HIDE DEF m, x, t, b
  <2>8. \A j \in 1 .. Len(b) : b[j] = Item("ok", r, g + j) \/ (n = 1 /\ b[j] = Item("err", r, g + j))
    BY <2>2, <2>4, <2>6, <2>7
  <2>9. g + Len(b) + Len(t) <= n
    BY <2>2, <2>3
  <2>10. LinesDue(b, t, r, g, n)
    BY <2>2, <2>3, <2>5, <2>8, <2>9 DEF LinesDue
  <2>. QED  BY <2>10 DEF b, t, x, m
<1>. QED  BY <1>4, <1>5

\* The command of a tensor call gets its answer.
LEMMA ServeTensor ==
  ASSUME NEW a \in Seq(Items), NEW s \in Seq(Commands), NEW r \in Nat, Len(s) > 0, TensorDue(a, s, r)
  PROVE  /\ Head(s) = [of |-> r, num |-> 1, binary |-> TRUE]
         /\ TensorDue(Append(a, Item("err", r, 1)), Tail(s), r)
         /\ TensorDue(Append(Append(a, Header(r)), Payload(r)), Tail(s), r)
<1>1. Len(a) = 0 /\ Len(s) = 1 /\ s[1] = [of |-> r, num |-> 1, binary |-> TRUE]
  BY DEF TensorDue
<1>2. s # <<>>
  <2>1. \A e : e = <<>> => Len(e) = 0
    OBVIOUS
  <2>. QED  BY <2>1
<1>3. Head(s) = s[1] /\ Tail(s) \in Seq(Commands) /\ Len(Tail(s)) = 0
  BY <1>1, <1>2, HeadTailProperties
<1>4. Item("err", r, 1) \in Items /\ Header(r) \in Items /\ Payload(r) \in Items
  BY DEF Item, Items, Header, Payload
<1>5. \A x \in Items : Len(Append(a, x)) = 1 /\ Append(a, x)[1] = x /\ Append(a, x) \in Seq(Items)
  BY <1>1, AppendProperties
<1>6. \A x, y \in Items : LET b == Append(Append(a, x), y) IN Len(b) = 2 /\ b[1] = x /\ b[2] = y
  <2>. SUFFICES ASSUME NEW x \in Items, NEW y \in Items
                PROVE  LET b == Append(Append(a, x), y) IN Len(b) = 2 /\ b[1] = x /\ b[2] = y
    OBVIOUS
  <2>. DEFINE u == Append(a, x)
  <2>1. u \in Seq(Items) /\ Len(u) = 1 /\ u[1] = x
    BY <1>5
  <2>. HIDE DEF u
  <2>4. \A v \in Seq(Items), w \in Items :
          /\ Len(Append(v, w)) = Len(v) + 1 /\ Append(v, w)[Len(v) + 1] = w
          /\ \A i \in 1 .. Len(v) : Append(v, w)[i] = v[i]
    BY AppendProperties
  <2>3. /\ Len(Append(u, y)) = Len(u) + 1 /\ Append(u, y)[Len(u) + 1] = y
        /\ \A i \in 1 .. Len(u) : Append(u, y)[i] = u[i]
    BY <2>1, <2>4
  <2>2. Len(Append(u, y)) = 2 /\ Append(u, y)[1] = x /\ Append(u, y)[2] = y
    BY <2>1, <2>3
  <2>. QED  BY <2>2 DEF u
<1>7. TensorDue(Append(a, Item("err", r, 1)), Tail(s), r)
  BY <1>3, <1>4, <1>5 DEF TensorDue
<1>8. TensorDue(Append(Append(a, Header(r)), Payload(r)), Tail(s), r)
  BY <1>3, <1>4, <1>6 DEF TensorDue
<1>. QED  BY <1>1, <1>3, <1>7, <1>8

\* The first answer is read.
LEMMA ReadLines ==
  ASSUME NEW a \in Seq(Items), NEW b \in Seq(Items), NEW s \in Seq(Commands), NEW r \in Nat, NEW g \in Nat,
         NEW n \in Nat, NEW x, LinesDue(a, s, r, g, n), FirstAnswer(x, a, b)
  PROVE  /\ x = Item("ok", r, g + 1) \/ (n = 1 /\ x = Item("err", r, g + 1))
         /\ g + 1 < n => LinesDue(b, s, r, g + 1, n)
         /\ g + 1 = n \/ n = 1 => g + 1 = n /\ Len(b) = 0 /\ Len(s) = 0
<1>1. Len(a) \in Nat /\ Len(b) \in Nat /\ Len(s) \in Nat /\ Len(a) = Len(b) + 1 /\ 1 \in 1 .. Len(a)
  BY LenProperties DEF FirstAnswer
<1>2. a[1] = x /\ \A j \in 1 .. Len(b) : b[j] = a[j + 1] /\ j + 1 \in 1 .. Len(a)
  BY <1>1 DEF FirstAnswer
<1>3. g < n /\ g + Len(a) + Len(s) <= n
  BY DEF LinesDue
<1>4. \A j \in 1 .. Len(a) : a[j] = Item("ok", r, g + j) \/ (n = 1 /\ a[j] = Item("err", r, g + j))
  BY DEF LinesDue
<1>5. ASSUME g + 1 < n PROVE LinesDue(b, s, r, g + 1, n)
  <2>1. \A j \in 1 .. Len(b) : g + (j + 1) = (g + 1) + j
    OBVIOUS
  <2>2. \A j \in 1 .. Len(b) : b[j] = Item("ok", r, (g + 1) + j) \/ (n = 1 /\ b[j] = Item("err", r, (g + 1) + j))
    BY <1>2, <1>4, <2>1
  <2>3. \A j \in 1 .. Len(s) : g + Len(a) + j = (g + 1) + Len(b) + j
    BY <1>1
  <2>4. \A j \in 1 .. Len(s) : s[j] = [of |-> r, num |-> (g + 1) + Len(b) + j, binary |-> FALSE]
    BY <2>3 DEF LinesDue
  <2>5. (g + 1) + Len(b) + Len(s) <= n
    BY <1>1, <1>3
  <2>. QED  BY <1>5, <2>2, <2>4, <2>5 DEF LinesDue
<1>. QED  BY <1>1, <1>2, <1>3, <1>4, <1>5

-----------------------------------------------------------------------------
(* Reading.                                                                *)

\* What is under way are items and commands.
LEMMA PipeType ==
  ASSUME TypeOK
  PROVE  /\ buf \in Seq(Items) /\ toClient \in Seq(Items) /\ toServer \in Seq(Commands)
         /\ Pipe \in Seq(Items) /\ Answers \in Seq(Items)
<1>1. buf \in Seq(Items) /\ toClient \in Seq(Items) /\ toServer \in Seq(Commands)
  BY DEF TypeOK
<1>2. Pipe \in Seq(Items)
  BY <1>1, ConcatProperties DEF Pipe
<1>3. Answers \in Seq(Items)
  BY <1>2, KeptType DEF Answers
<1>. QED  BY <1>1, <1>2, <1>3

\* The latest call and its ledger.
LEMMA LatestType ==
  ASSUME RInv, pc \in {"reading", "payload"}
  PROVE  /\ cur \in Calls /\ cur \in Nat /\ cur > 0 /\ got[cur] \in Seq(Items) /\ Len(got[cur]) \in Nat
         /\ size[cur] \in Nat /\ status[cur] = "pending"
         /\ \A r \in Calls \ {cur} : status[r] # "pending"
<1>1. cur \in Calls /\ cur \in Nat /\ cur > 0 /\ got[cur] \in Seq(Items) /\ size[cur] \in Nat
  BY ClientAssumption DEF RInv, InStep, TypeOK, Calls
<1>2. status[cur] = "pending" /\ \A r \in Calls \ {cur} : status[r] # "pending"
  BY <1>1 DEF RInv, TypeOK
<1>. QED  BY <1>1, <1>2, LenProperties

\* The first of what is buffered is the first of what is under way.
LEMMA PopFirst ==
  \A b, t \in Seq(Items) : b # <<>> => First(Head(b), b \o t, Tail(b) \o t)
<1>. SUFFICES ASSUME NEW b \in Seq(Items), NEW t \in Seq(Items), b # <<>>
              PROVE  First(Head(b), b \o t, Tail(b) \o t)
  OBVIOUS
<1>. DEFINE h == <<Head(b)>>
            d == Tail(b)
<1>1. Head(b) \in Items /\ d \in Seq(Items) /\ h \o d = b /\ h \in Seq(Items)
  BY HeadTailProperties, HeadThenTail
<1>. HIDE DEF h, d
<1>2. h \in Seq(Items)
  BY <1>1
<1>3. d \in Seq(Items)
  BY <1>1
<1>4. (h \o d) \o t = h \o (d \o t)
  BY ONLY <1>2, <1>3, t \in Seq(Items), ItemsJoin
<1>5. d \o t \in Seq(Items) /\ b \o t \in Seq(Items)
  BY <1>3, ItemsJoin
<1>. QED  BY <1>1, <1>4, <1>5 DEF First, h, d

\* Raw bytes are never where a line is read.
LEMMA NoRawFirst ==
  ASSUME RInv, pc # "payload", NEW b \in Seq(Items), NEW t \in Seq(Items), Pipe = b \o t
  PROVE  ~RawFirst(b)
<1>. SUFFICES ASSUME RawFirst(b) PROVE FALSE
  OBVIOUS
<1>1. b # <<>> /\ Head(b).kind = "payload"
  BY DEF RawFirst
<1>2. First(Head(b), Pipe, Tail(b) \o t)
  BY <1>1, PopFirst
<1>3. FirstAnswer(Head(b), Answers, Kept(Tail(b) \o t, NoEvents)) /\ Kept(Tail(b) \o t, NoEvents) \in Seq(Items)
  BY <1>1, <1>2, TakeFirst DEF Answers, IsEvent
<1>4. Len(Answers) > 0 /\ Answers[1].kind = "payload" /\ Len(Answers) \in Nat
  BY <1>1, <1>3, LenProperties DEF FirstAnswer
<1>5. pc \in {"idle", "polling", "reading"}
  BY DEF RInv, TypeOK
<1>6. CASE pc \in {"idle", "polling"}
  BY <1>4, <1>6 DEF RInv, InStep
<1>7. CASE pc = "reading" /\ form # "matmul"
  <2>1. LinesDue(Answers, toServer, cur, Len(got[cur]), size[cur]) /\ 1 \in 1 .. Len(Answers)
    BY <1>4, <1>7 DEF RInv, InStep
  <2>2. \E k \in {"ok", "err"} : \E i : Answers[1] = Item(k, cur, i)
    BY <2>1 DEF LinesDue
  <2>. QED  BY <1>4, <2>2 DEF Item
<1>8. CASE pc = "reading" /\ form = "matmul"
  <2>1. TensorDue(Answers, toServer, cur)
    BY <1>8 DEF RInv, InStep
  <2>2. Answers[1] \in {Header(cur), Item("err", cur, 1)}
    BY <1>4, <2>1 DEF TensorDue
  <2>. QED  BY <1>4, <2>2 DEF Header, Item
<1>. QED  BY <1>5, <1>6, <1>7, <1>8

\* Without raw bytes at the front, the first buffered item is the next line.
LEMMA PlainFirst ==
  ASSUME NEW b \in Seq(Items), ~RawFirst(b)
  PROVE  /\ HasLine(b) <=> b # <<>>
         /\ NextLine(b) = Head(b) /\ AfterLine(b) = Tail(b)
         /\ \A k : Stash(b, k) = SubSeq(b, k + 1, Len(b))
<1>1. Len(b) \in Nat /\ (Len(b) = 0 <=> b = <<>>)
  BY LenProperties, EmptySeq
<1>2. HasLine(b) <=> b # <<>>
  BY <1>1 DEF HasLine
<1>3. NextLine(b) = Head(b) /\ AfterLine(b) = Tail(b)
  BY DEF NextLine, AfterLine
<1>4. \A k : Stash(b, k) = SubSeq(b, k + 1, Len(b))
  BY DEF Stash
<1>. QED  BY <1>2, <1>3, <1>4

\* What ReadLine reads and does.
LEMMA ReadEffect ==
  ASSUME RInv, ReadLine
  PROVE  \E line :
    /\ pc = "reading" /\ First(line, Pipe, Pipe')
    /\ UNCHANGED <<sock, form, cur, size, toServer>>
    /\ \/ form # "matmul" /\ IsEvent(line) /\ UNCHANGED <<pc, status, got>>
       \/ form # "matmul" /\ ~IsEvent(line) /\ Answer(line)
       \/ form = "matmul" /\ line.kind = "header" /\ pc' = "payload" /\ UNCHANGED <<status, got>>
       \/ /\ form = "matmul" /\ line.kind = "err" /\ got' = [got EXCEPT ![cur] = Append(@, line)]
          /\ Return("raised")
       \/ form = "matmul" /\ line.kind \notin {"header", "err"}
<1>1. pc = "reading" /\ HasLine(buf) /\ buf' = AfterLine(buf) /\ UNCHANGED <<sock, form, cur, size, toServer, toClient>>
  BY DEF ReadLine, network
<1>2. buf \in Seq(Items) /\ toClient \in Seq(Items)
  BY PipeType DEF RInv
<1>3. ~RawFirst(buf)
  BY <1>1, <1>2, NoRawFirst DEF Pipe
<1>4. buf # <<>> /\ NextLine(buf) = Head(buf) /\ buf' = Tail(buf)
  BY <1>1, <1>2, <1>3, PlainFirst
<1>5. First(Head(buf), Pipe, Pipe')
  BY <1>1, <1>2, <1>4, PopFirst DEF Pipe
<1>6. \/ form # "matmul" /\ IsEvent(Head(buf)) /\ UNCHANGED <<pc, status, got>>
      \/ form # "matmul" /\ ~IsEvent(Head(buf)) /\ Answer(Head(buf))
      \/ form = "matmul" /\ Head(buf).kind = "header" /\ pc' = "payload" /\ UNCHANGED <<status, got>>
      \/ /\ form = "matmul" /\ Head(buf).kind = "err" /\ got' = [got EXCEPT ![cur] = Append(@, Head(buf))]
         /\ Return("raised")
      \/ form = "matmul" /\ Head(buf).kind \notin {"header", "err"}
  BY <1>4 DEF ReadLine
<1>. QED  BY <1>1, <1>5, <1>6

\* What the calls have read, when the latest reads another of its answers.
LEMMA FiledMore ==
  ASSUME RInv, pc \in {"reading", "payload"}, NEW x \in Items, AnswerTo(x) = <<cur, Len(got[cur]) + 1>>,
         got' = [got EXCEPT ![cur] = Append(@, x)], UNCHANGED <<cur, size>>,
         \/ status' = status \/ status' = [status EXCEPT ![cur] = "raised"]
         \/ status' = [status EXCEPT ![cur] = "returned"] /\ Len(got[cur]) + 1 = size[cur]
  PROVE  Filed' /\ Len(got'[cur]) = Len(got[cur]) + 1 /\ got' \in [Calls -> Seq(Items)]
<1>1. /\ cur \in Calls /\ got[cur] \in Seq(Items) /\ Len(got[cur]) \in Nat /\ status[cur] = "pending"
      /\ status \in [Calls -> {"idle", "pending", "returned", "raised"}] /\ got \in [Calls -> Seq(Items)]
  BY LatestType DEF RInv, TypeOK
<1>2. /\ Append(got[cur], x) \in Seq(Items) /\ Len(Append(got[cur], x)) = Len(got[cur]) + 1
      /\ Append(got[cur], x)[Len(got[cur]) + 1] = x
      /\ \A i \in 1 .. Len(got[cur]) : Append(got[cur], x)[i] = got[cur][i]
  BY <1>1, AppendProperties
<1>3. got'[cur] = Append(got[cur], x) /\ \A r \in Calls \ {cur} : got'[r] = got[r]
  BY <1>1
<1>4. \A i \in 1 .. Len(got'[cur]) : AnswerTo(got'[cur][i]) = <<cur, i>>
  <2>1. \A i \in 1 .. Len(got[cur]) + 1 : i = Len(got[cur]) + 1 \/ i \in 1 .. Len(got[cur])
    BY <1>1
  <2>2. \A i \in 1 .. Len(got[cur]) : AnswerTo(got[cur][i]) = <<cur, i>>
    BY <1>1 DEF RInv, Filed
  <2>. QED  BY <1>2, <1>3, <2>1, <2>2
<1>5. status'[cur] = "returned" => Len(got'[cur]) = size[cur]
  BY <1>1, <1>2, <1>3
<1>6. \A r \in Calls \ {cur} : status'[r] = status[r]
  BY <1>1
<1>7. got' \in [Calls -> Seq(Items)]
  BY <1>1, <1>2
<1>. QED  BY <1>1, <1>2, <1>3, <1>4, <1>5, <1>6, <1>7 DEF RInv, Filed

\* The latest call goes on, or has all of its answers and ends.
Advances ==
  /\ UNCHANGED <<cur, size>> /\ \A r \in Calls \ {cur} : got'[r] = got[r]
  /\ \/ status' = status
     \/ /\ \E s \in {"returned", "raised"} : status' = [status EXCEPT ![cur] = s]
        /\ Len(got'[cur]) = size[cur]

Kept3 == InStep /\ Quiet /\ Filed

\* An answer is read that was due.
LEMMA AnswerKeeps ==
  ASSUME RInv, pc = "reading", form # "matmul", NEW x, First(x, Pipe, Pipe'), ~IsEvent(x), Answer(x),
         UNCHANGED <<sock, form, cur, size, toServer>>
  PROVE  Kept3' /\ Advances
<1>. DEFINE g == Len(got[cur])
            n == size[cur]
<1>1. /\ cur \in Calls /\ cur \in Nat /\ cur > 0 /\ g \in Nat /\ n \in Nat /\ status[cur] = "pending"
      /\ got \in [Calls -> Seq(Items)] /\ toServer \in Seq(Commands)
  BY LatestType, PipeType DEF RInv, TypeOK
<1>2. LinesDue(Answers, toServer, cur, g, n) /\ g < n
  BY DEF RInv, InStep, LinesDue
<1>3. /\ Answers \in Seq(Items) /\ Answers' \in Seq(Items) /\ FirstAnswer(x, Answers, Answers')
      /\ EventsFirst(Pipe) => NoEvent(Pipe') /\ EventsFirst(Pipe')
  BY TakeFirst DEF Answers
<1>4. x \in Items
  BY DEF First
<1>. HIDE DEF g, n
<1>5. /\ x = Item("ok", cur, g + 1) \/ (n = 1 /\ x = Item("err", cur, g + 1))
      /\ g + 1 < n => LinesDue(Answers', toServer, cur, g + 1, n)
      /\ g + 1 = n \/ n = 1 => g + 1 = n /\ Len(Answers') = 0 /\ Len(toServer) = 0
  <2>1. \A a, b \in Seq(Items) : LinesDue(a, toServer, cur, g, n) /\ FirstAnswer(x, a, b) =>
          /\ x = Item("ok", cur, g + 1) \/ (n = 1 /\ x = Item("err", cur, g + 1))
          /\ g + 1 < n => LinesDue(b, toServer, cur, g + 1, n)
          /\ g + 1 = n \/ n = 1 => g + 1 = n /\ Len(b) = 0 /\ Len(toServer) = 0
    BY <1>1, ReadLines
  <2>. QED  BY <1>2, <1>3, <2>1
<1>6. AnswerTo(x) = <<cur, g + 1>> /\ (Unwraps(x) \/ n = 1)
  BY <1>5 DEF AnswerTo, Unwraps, Item
<1>7. /\ got' = [got EXCEPT ![cur] = Append(@, x)]
      /\ \/ form = "send" /\ ~Unwraps(x) /\ Return("raised")
         \/ g + 1 = n /\ Return("returned")
         \/ g + 1 # n /\ (form # "send" \/ Unwraps(x)) /\ UNCHANGED <<pc, status>>
  BY DEF Answer, g, n
<1>8. /\ \/ status' = status \/ status' = [status EXCEPT ![cur] = "raised"]
         \/ status' = [status EXCEPT ![cur] = "returned"] /\ g + 1 = n
  BY <1>7 DEF Return
<1>9. Filed' /\ Len(got'[cur]) = g + 1
  BY <1>4, <1>6, <1>7, <1>8, FiledMore DEF g, n
<1>10. \A r \in Calls \ {cur} : got'[r] = got[r]
  BY <1>1, <1>7
<1>11. CASE Return("raised") \/ Return("returned")
  <2>1. pc' = "idle" /\ g + 1 = n /\ \E s \in {"returned", "raised"} : status' = [status EXCEPT ![cur] = s]
    BY <1>5, <1>6, <1>7, <1>11 DEF Return
  <2>2. InStep'
    BY <1>5, <2>1 DEF InStep
  <2>3. Quiet'
    BY <1>3 DEF RInv, Quiet, Apart
  <2>4. Advances
    BY <1>9, <1>10, <2>1 DEF Advances, n
  <2>. QED  BY <1>9, <2>2, <2>3, <2>4 DEF Kept3
<1>12. CASE g + 1 # n /\ UNCHANGED <<pc, status>>
  <2>1. g + 1 < n
    BY <1>1, <1>2, <1>12
  <2>2. LinesDue(Answers', toServer', cur', Len(got'[cur']), size'[cur'])
    BY <1>5, <1>9, <2>1 DEF n
  <2>3. InStep'
    BY <1>1, <1>12, <2>2 DEF InStep
  <2>4. Quiet'
    BY <1>3 DEF RInv, Quiet, Apart
  <2>5. Advances
    BY <1>10, <1>12 DEF Advances
  <2>. QED  BY <1>9, <2>3, <2>4, <2>5 DEF Kept3
<1>. QED  BY <1>7, <1>11, <1>12

\* An event is read, and queued.
LEMMA EventKeeps ==
  ASSUME RInv, pc = "reading", form # "matmul", NEW x, First(x, Pipe, Pipe'), IsEvent(x),
         UNCHANGED <<sock, form, cur, size, toServer, pc, status, got>>
  PROVE  Kept3' /\ Advances
<1>1. Answers' = Answers /\ (EventsFirst(Pipe) => EventsFirst(Pipe'))
  BY TakeFirst DEF Answers
<1>2. InStep'
  BY <1>1 DEF RInv, InStep, Apart
<1>3. Quiet' /\ Filed' /\ Advances
  BY <1>1 DEF RInv, Quiet, Apart, Filed, Advances
<1>. QED  BY <1>2, <1>3 DEF Kept3

\* A tensor call reads its header, or that it was refused; nothing else comes.
LEMMA HeaderKeeps ==
  ASSUME RInv, pc = "reading", form = "matmul", NEW x, First(x, Pipe, Pipe'),
         UNCHANGED <<sock, form, cur, size, toServer>>,
         \/ x.kind = "header" /\ pc' = "payload" /\ UNCHANGED <<status, got>>
         \/ x.kind = "err" /\ got' = [got EXCEPT ![cur] = Append(@, x)] /\ Return("raised")
         \/ x.kind \notin {"header", "err"}
  PROVE  Kept3' /\ Advances
<1>1. Apart /\ size[cur] = 1 /\ Len(got[cur]) = 0 /\ TensorDue(Answers, toServer, cur)
  BY DEF RInv, InStep
<1>2. NoEvent(Pipe)
  BY <1>1 DEF RInv, Quiet
<1>3. /\ Answers \in Seq(Items) /\ Answers' \in Seq(Items) /\ FirstAnswer(x, Answers, Answers')
      /\ NoEvent(Pipe') /\ EventsFirst(Pipe')
  BY <1>2, TakeFirst DEF Answers, EventsFirst, NoEvent
<1>4. Len(Answers) \in Nat /\ Len(Answers') \in Nat /\ Len(Answers) = Len(Answers') + 1 /\ Answers[1] = x
      /\ (Len(Answers') >= 1 => Answers'[1] = Answers[2])
  <2>1. Len(Answers') \in Nat /\ Len(Answers) \in Nat
    BY <1>3, LenProperties
  <2>2. Len(Answers') >= 1 => 1 \in 1 .. Len(Answers')
    BY <2>1
  <2>. QED  BY <1>3, <2>1, <2>2 DEF FirstAnswer
<1>5. /\ Len(toServer) = 0
      /\ \/ x = Header(cur) /\ (Len(Answers') = 0 \/ (Len(Answers') = 1 /\ Answers'[1] = Payload(cur)))
         \/ x = Item("err", cur, 1) /\ Len(Answers') = 0
  <2>1. Len(Answers) # 0
    BY <1>4
  <2>2. \/ Len(Answers) = 1 /\ Len(toServer) = 0 /\ Answers[1] \in {Header(cur), Item("err", cur, 1)}
        \/ Len(Answers) = 2 /\ Len(toServer) = 0 /\ Answers[1] = Header(cur) /\ Answers[2] = Payload(cur)
    BY <1>1, <2>1, Zenon DEF TensorDue
  <2>3. \/ Len(Answers) = 1 /\ Len(Answers') = 0
        \/ Len(Answers) = 2 /\ Len(Answers') = 1 /\ Answers'[1] = Answers[2]
    <3>1. \A i, j \in Nat : i = j + 1 => (i = 1 => j = 0) /\ (i = 2 => j = 1 /\ j >= 1)
      OBVIOUS
    <3>2. (Len(Answers) = 1 => Len(Answers') = 0) /\ (Len(Answers) = 2 => Len(Answers') = 1 /\ Len(Answers') >= 1)
      BY ONLY <1>4, <3>1
    <3>. QED  BY <1>4, <2>2, <3>2
  <2>. QED  BY <1>4, <2>2, <2>3
<1>6. /\ cur \in Calls /\ cur \in Nat /\ got \in [Calls -> Seq(Items)] /\ x \in Items
  BY LatestType DEF RInv, TypeOK, First
<1>7. Quiet'
  BY <1>1, <1>3 DEF Quiet, Apart
<1>8. CASE x = Header(cur)
  <2>1. pc' = "payload" /\ UNCHANGED <<status, got>> /\ PayloadDue(Answers', toServer, cur)
    BY <1>5, <1>8 DEF Header, Item, PayloadDue
  <2>2. InStep'
    BY <1>1, <1>6, <2>1 DEF InStep, Apart
  <2>3. Filed' /\ Advances
    BY <2>1 DEF RInv, Filed, Advances
  <2>. QED  BY <1>7, <2>2, <2>3 DEF Kept3
<1>9. CASE x = Item("err", cur, 1) /\ Len(Answers') = 0
  <2>1. got' = [got EXCEPT ![cur] = Append(@, x)] /\ Return("raised") /\ AnswerTo(x) = <<cur, 1>>
    BY <1>9 DEF Item, AnswerTo
  <2>2. 1 = Len(got[cur]) + 1 /\ pc' = "idle" /\ status' = [status EXCEPT ![cur] = "raised"]
    BY <1>1, <2>1 DEF Return
  <2>3. Filed' /\ Len(got'[cur]) = 1
    BY <1>1, <1>6, <2>1, <2>2, FiledMore
  <2>4. InStep'
    BY <1>5, <1>9, <2>2 DEF InStep
  <2>5. Advances
    BY <1>1, <1>6, <2>1, <2>2, <2>3 DEF Advances
  <2>. QED  BY <1>7, <2>3, <2>4, <2>5 DEF Kept3
<1>. QED  BY <1>5, <1>8, <1>9

\* ReadLine.
LEMMA ReadKeeps == ASSUME RInv, ReadLine PROVE Kept3' /\ Advances
<1>1. PICK x :
    /\ pc = "reading" /\ First(x, Pipe, Pipe')
    /\ UNCHANGED <<sock, form, cur, size, toServer>>
    /\ \/ form # "matmul" /\ IsEvent(x) /\ UNCHANGED <<pc, status, got>>
       \/ form # "matmul" /\ ~IsEvent(x) /\ Answer(x)
       \/ form = "matmul" /\ x.kind = "header" /\ pc' = "payload" /\ UNCHANGED <<status, got>>
       \/ /\ form = "matmul" /\ x.kind = "err" /\ got' = [got EXCEPT ![cur] = Append(@, x)]
          /\ Return("raised")
       \/ form = "matmul" /\ x.kind \notin {"header", "err"}
  BY ReadEffect
<1>2. CASE form = "matmul"
  BY <1>1, <1>2, HeaderKeeps
<1>3. CASE form # "matmul"
  BY <1>1, <1>3, AnswerKeeps, EventKeeps
<1>. QED  BY <1>2, <1>3

\* TakePayload: the raw bytes are those the header announced.
LEMMA PayloadKeeps == ASSUME RInv, TakePayload PROVE Kept3' /\ Advances
<1>1. /\ pc = "payload" /\ Pipe # <<>> /\ got' = [got EXCEPT ![cur] = Append(@, Head(Pipe))] /\ pc' = "idle"
      /\ status' = [status EXCEPT ![cur] = "returned"] /\ UNCHANGED <<sock, form, cur, size, toServer>>
  BY DEF TakePayload, Return, Pipe
<1>2. buf \in Seq(Items) /\ toClient \in Seq(Items) /\ Pipe \in Seq(Items)
  BY PipeType DEF RInv
<1>3. First(Head(Pipe), Pipe, Pipe')
  <2>1. CASE buf # <<>>
    <3>1. buf' = Tail(buf) /\ toClient' = toClient
      BY <2>1 DEF TakePayload
    <3>2. First(Head(buf), Pipe, Pipe')
      BY <1>2, <2>1, <3>1, PopFirst DEF Pipe
    <3>3. Head(Pipe) = Head(buf)
      <4>1. First(Head(Pipe), Pipe, Tail(Pipe) \o <<>>)
        <5>1. <<>> \in Seq(Items) /\ Pipe \o <<>> = Pipe
          BY <1>2, ConcatEmptySeq
        <5>. QED  BY <1>1, <1>2, <5>1, PopFirst
      <4>2. \A x, p, q : First(x, p, q) => p[1] = x
        <5>. SUFFICES ASSUME NEW x, NEW p, NEW q, First(x, p, q) PROVE p[1] = x
          OBVIOUS
        <5>. DEFINE h == <<x>>
        <5>1. h \in Seq(Items) /\ q \in Seq(Items) /\ p = h \o q /\ Len(h) = 1 /\ h[1] = x /\ 1 \in 1 .. Len(h)
          BY DEF First
        <5>. HIDE DEF h
        <5>2. (h \o q)[1] = h[1]
          BY ONLY <5>1, ItemsAt
        <5>. QED  BY <5>1, <5>2
      <4>. QED  BY <3>2, <4>1, <4>2
    <3>. QED  BY <3>2, <3>3
  <2>2. CASE buf = <<>>
    <3>1. <<>> \o toClient = toClient /\ <<>> \o Tail(toClient) = Tail(toClient) /\ Tail(toClient) \in Seq(Items)
          /\ toClient # <<>>
      <4>1. <<>> \o toClient = toClient
        BY <1>2, ConcatEmptySeq
      <4>2. toClient # <<>>
        BY <1>1, <2>2, <4>1 DEF Pipe
      <4>3. Tail(toClient) \in Seq(Items)
        BY <1>2, <4>2, HeadTailProperties
      <4>. QED  BY <4>1, <4>2, <4>3, ConcatEmptySeq
    <3>2. Pipe = toClient /\ Pipe' = Tail(toClient)
      BY <2>2, <3>1 DEF TakePayload, Pipe
    <3>3. First(Head(toClient), toClient \o <<>>, Tail(toClient) \o <<>>)
      <4>1. <<>> \in Seq(Items)
        OBVIOUS
      <4>. QED  BY <1>2, <3>1, <4>1, PopFirst
    <3>4. toClient \o <<>> = toClient /\ Tail(toClient) \o <<>> = Tail(toClient)
      BY <1>2, <3>1, ConcatEmptySeq
    <3>. QED  BY <3>2, <3>3, <3>4
  <2>. QED  BY <2>1, <2>2
<1>4. PICK x : x = Head(Pipe) /\ First(x, Pipe, Pipe') /\ x \in Items
  BY <1>3 DEF First
<1>5. Apart /\ size[cur] = 1 /\ Len(got[cur]) = 0 /\ PayloadDue(Answers, toServer, cur)
  BY <1>1 DEF RInv, InStep
<1>6. NoEvent(Pipe)
  BY <1>1, <1>5 DEF RInv, Quiet
<1>7. /\ FirstAnswer(x, Answers, Answers') /\ NoEvent(Pipe') /\ EventsFirst(Pipe')
      /\ Len(Answers') \in Nat /\ Len(Answers) \in Nat
  <2>1. FirstAnswer(x, Answers, Answers') /\ NoEvent(Pipe') /\ Answers \in Seq(Items) /\ Answers' \in Seq(Items)
    BY <1>4, <1>6, TakeFirst DEF Answers
  <2>. QED  BY <2>1, LenProperties DEF EventsFirst, NoEvent
<1>8. x = Payload(cur) /\ Len(Answers') = 0 /\ Len(toServer) = 0
  BY <1>5, <1>7 DEF PayloadDue, FirstAnswer
<1>9. AnswerTo(x) = <<cur, Len(got[cur]) + 1>> /\ got' = [got EXCEPT ![cur] = Append(@, x)]
  BY <1>1, <1>4, <1>5, <1>8 DEF Payload, Item, AnswerTo
<1>10. Filed' /\ Len(got'[cur]) = 1
  <2>1. Len(got[cur]) + 1 = size[cur] /\ Len(got[cur]) + 1 = 1
    BY <1>5
  <2>2. Filed' /\ Len(got'[cur]) = Len(got[cur]) + 1
    BY <1>1, <1>4, <1>9, <2>1, FiledMore
  <2>. QED  BY <2>1, <2>2
<1>11. InStep' /\ Quiet'
  BY <1>1, <1>7, <1>8 DEF InStep, Quiet
<1>12. Advances
  <2>1. \A r \in Calls \ {cur} : got'[r] = got[r]
    BY <1>1 DEF RInv, TypeOK
  <2>. QED  BY <1>1, <1>5, <1>10, <2>1 DEF Advances
<1>. QED  BY <1>10, <1>11, <1>12 DEF Kept3

-----------------------------------------------------------------------------
(* Calling.                                                                *)

\* The next call is made.
Issues ==
  /\ cur + 1 \in Calls /\ cur' = cur + 1 /\ got' = got
  /\ \E s \in {"pending", "raised"} : status' = [status EXCEPT ![cur + 1] = s]
  /\ \E n \in 1 .. MaxBatch : size' = [size EXCEPT ![cur + 1] = n]

\* The commands that are written when nothing else is under way are due.
LEMMA WrittenDue ==
  ASSUME RInv, NEW k, NEW n \in 1 .. MaxBatch, NEW a \in Seq(Items), Len(a) = 0,
         NEW w \in Seq(Commands), w = Written(k, n) \/ Len(w) = 0
  PROVE  /\ k # "matmul" => LinesDue(a, w, cur + 1, 0, n)
         /\ k = "matmul" /\ n = 1 => TensorDue(a, w, cur + 1)
<1>1. n \in Nat /\ n > 0 /\ cur + 1 \in Nat
  BY ClientAssumption DEF RInv, TypeOK
<1>2. CASE Len(w) = 0
  BY <1>1, <1>2 DEF LinesDue, TensorDue
<1>3. CASE w = Written(k, n)
  <2>1. Len(w) = n /\ w = [i \in 1 .. n |-> [of |-> cur + 1, num |-> i, binary |-> (k = "matmul")]]
    BY <1>3, WrittenType DEF RInv, Written
  <2>2. \A i \in 1 .. n : w[i] = [of |-> cur + 1, num |-> i, binary |-> (k = "matmul")]
    BY <2>1
  <2>3. ASSUME k # "matmul" PROVE LinesDue(a, w, cur + 1, 0, n)
    <3>1. (k = "matmul") = FALSE
      BY <2>3
    <3>2. \A i \in 1 .. n : w[i] = [of |-> cur + 1, num |-> i, binary |-> FALSE]
      BY <2>2, <3>1, Zenon
    <3>3. \A i \in 1 .. n : 0 + Len(a) + i = i
      BY <1>1
    <3>4. \A i \in 1 .. Len(w) : w[i] = [of |-> cur + 1, num |-> 0 + Len(a) + i, binary |-> FALSE]
      BY <2>1, <3>2, <3>3
    <3>5. 0 < n /\ 0 + Len(a) + Len(w) <= n /\ \A j : j \notin 1 .. Len(a)
      BY <1>1, <2>1
    <3>. QED  BY <3>4, <3>5 DEF LinesDue
  <2>4. ASSUME k = "matmul", n = 1 PROVE TensorDue(a, w, cur + 1)
    <3>1. (k = "matmul") = TRUE /\ 1 \in 1 .. n
      BY <2>4
    <3>2. w[1] = [of |-> cur + 1, num |-> 1, binary |-> TRUE]
      BY <2>2, <3>1, Zenon
    <3>3. Len(w) = 1
      BY <2>1, <2>4
    <3>. QED  BY <3>2, <3>3 DEF TensorDue
  <2>. QED  BY <2>3, <2>4
<1>. QED  BY <1>2, <1>3

\* Begin: all commands are written, or none; a call made in vain writes none.
LEMMA BeginKeeps ==
  ASSUME RInv, pc = "idle", NEW k \in CallKinds, NEW n \in 1 .. MaxBatch, NEW s \in {"pending", "raised"},
         NEW w \in Seq(Commands), Begin(k, n, s, w), UNCHANGED <<buf, toClient>>,
         w = Written(k, n) \/ w = <<>>, s = "raised" => w = <<>>,
         k = "matmul" /\ s = "pending" => n = 1 /\ Apart' /\ NoEvent(Pipe),
         Apart' => EventsFirst(Pipe) /\ (NoEvent(Pipe) \/ (s = "pending" /\ k # "matmul"))
  PROVE  Kept3' /\ Issues
<1>1. /\ cur < MaxCalls /\ cur' = cur + 1 /\ form' = k /\ size' = [size EXCEPT ![cur + 1] = n]
      /\ status' = [status EXCEPT ![cur + 1] = s] /\ pc' = IF s = "pending" THEN "reading" ELSE "idle"
      /\ toServer' = toServer \o w /\ got' = got
  BY DEF Begin
<1>2. /\ cur \in Nat /\ MaxCalls \in Nat /\ MaxBatch \in Nat /\ cur + 1 \in Calls /\ n \in Nat /\ n > 0
      /\ size \in [Calls -> 0 .. MaxBatch] /\ status \in [Calls -> {"idle", "pending", "returned", "raised"}]
      /\ toServer \in Seq(Commands) /\ Answers \in Seq(Items)
      /\ \A r \in Calls : r \in Nat
  <2>1. cur \in Nat /\ MaxCalls \in Nat /\ MaxBatch \in Nat /\ n \in Nat /\ n > 0
    BY ClientAssumption DEF RInv, TypeOK
  <2>2. cur + 1 \in Calls /\ \A r \in Calls : r \in Nat
    BY <1>1, <2>1 DEF Calls
  <2>3. /\ size \in [Calls -> 0 .. MaxBatch]
        /\ status \in [Calls -> {"idle", "pending", "returned", "raised"}]
    BY DEF RInv, TypeOK
  <2>. QED  BY <2>1, <2>2, <2>3, PipeType DEF RInv
<1>3. Len(Answers) = 0 /\ Len(toServer) = 0 /\ toServer = <<>>
  <2>1. Len(Answers) = 0 /\ Len(toServer) = 0
    BY DEF RInv, InStep
  <2>. QED  BY <1>2, <2>1, EmptySeq
<1>4. toServer' = w
  BY <1>1, <1>3, ConcatEmptySeq
<1>5. Pipe' = Pipe /\ Answers' = Answers
  BY DEF Pipe, Answers
<1>6. got[cur + 1] = <<>> /\ status[cur + 1] = "idle"
  BY <1>2 DEF RInv, Made
<1>7. \A e : e = <<>> => Len(e) = 0
  OBVIOUS
<1>8. Len(got'[cur']) = 0 /\ size'[cur'] = n
  BY <1>1, <1>2, <1>6, <1>7
<1>9. /\ k # "matmul" => LinesDue(Answers, w, cur + 1, 0, n)
      /\ k = "matmul" /\ n = 1 => TensorDue(Answers, w, cur + 1)
  <2>1. w = Written(k, n) \/ Len(w) = 0
    BY <1>7
  <2>2. \A a \in Seq(Items) : Len(a) = 0 => /\ k # "matmul" => LinesDue(a, w, cur + 1, 0, n)
                                            /\ k = "matmul" /\ n = 1 => TensorDue(a, w, cur + 1)
    BY <2>1, WrittenDue
  <2>. QED  BY <1>2, <1>3, <2>2
<1>10. Issues
  BY <1>1, <1>2 DEF Issues
<1>11. Filed'
  <2>1. \A r \in Calls : /\ r <= cur' => size'[r] > 0
                         /\ status'[r] = "returned" => r # cur + 1 /\ status[r] = "returned" /\ size'[r] = size[r]
    BY <1>1, <1>2 DEF RInv, Filed
  <2>. QED  BY <1>1, <2>1 DEF RInv, Filed
<1>12. CASE s = "raised"
  <2>1. pc' = "idle" /\ Len(toServer') = 0 /\ Len(Answers') = 0
    BY <1>1, <1>3, <1>4, <1>5, <1>7, <1>12
  <2>2. InStep' /\ Quiet'
    BY <1>5, <1>12, <2>1 DEF InStep, Quiet
  <2>. QED  BY <1>10, <1>11, <2>2 DEF Kept3
<1>13. CASE s = "pending"
  <2>1. pc' = "reading" /\ form' = k /\ cur' = cur + 1 /\ cur' \in Calls
    BY <1>1, <1>2, <1>13
  <2>2. k # "matmul" => LinesDue(Answers', toServer', cur', Len(got'[cur']), size'[cur'])
    BY <1>1, <1>4, <1>5, <1>8, <1>9
  <2>3. k = "matmul" => /\ Apart' /\ size'[cur'] = 1 /\ Len(got'[cur']) = 0
                        /\ TensorDue(Answers', toServer', cur')
    BY <1>1, <1>4, <1>5, <1>8, <1>9, <1>13
  <2>4. InStep'
    BY <2>1, <2>2, <2>3 DEF InStep
  <2>5. Quiet'
    BY <1>5, <1>13, <2>1 DEF Quiet
  <2>. QED  BY <1>10, <1>11, <2>4, <2>5 DEF Kept3
<1>. QED  BY <1>12, <1>13

\* Call.
LEMMA CallKeeps ==
  ASSUME Orderly, RInv, NEW k \in CallKinds, NEW n \in 1 .. MaxBatch, Call(k, n)
  PROVE  Kept3' /\ Issues
<1>1. /\ pc = "idle" /\ (n = 1 \/ k = "send") /\ UNCHANGED <<sock, buf, toClient>>
      /\ sock # 0 => k \in Kinds[sock]
  BY DEF Call
<1>2. \E s \in {"pending", "raised"} : \E w \in Seq(Commands) :
        /\ Begin(k, n, s, w) /\ (w = Written(k, n) \/ w = <<>>) /\ (s = "raised" => w = <<>>)
        /\ s = "pending" => sock # 0
  <2>1. Written(k, n) \in Seq(Commands) /\ <<>> \in Seq(Commands)
    BY WrittenType DEF RInv
  <2>. QED  BY <2>1 DEF Call
<1>3. Apart' = Apart
  BY <1>1 DEF Apart
<1>4. Apart => EventsFirst(Pipe) /\ NoEvent(Pipe)
  BY <1>1 DEF RInv, Quiet
<1>5. k = "matmul" /\ sock # 0 => n = 1 /\ Apart
  <2>1. sock \in 0 .. MaxConns /\ MaxConns \in Nat
    BY ClientAssumption DEF RInv, TypeOK
  <2>2. sock # 0 => sock \in Conns
    BY <2>1 DEF Conns
  <2>. QED  BY <1>1, <2>2 DEF Orderly, Apart
<1>. QED  BY <1>1, <1>2, <1>3, <1>4, <1>5, BeginKeeps

\* Connect, with AUTH or without.
LEMMA ConnectKeeps == ASSUME RInv, Connect PROVE Kept3' /\ (Issues \/ UNCHANGED <<status, got, size, cur>>)
<1>1. pc = "idle" /\ sock = 0 /\ sock' = opened + 1 /\ UNCHANGED <<buf, toClient>>
  BY DEF Connect
<1>2. Pipe' = Pipe /\ Answers' = Answers /\ Pipe \in Seq(Items)
  BY <1>1, PipeType DEF RInv, Pipe, Answers
<1>3. Len(Answers) = 0 /\ Len(toServer) = 0
  BY <1>1 DEF RInv, InStep
<1>4. EventsFirst(Pipe)
  <2>1. \A i \in 1 .. Len(Pipe) : IsEvent(Pipe[i])
    BY <1>2, <1>3, OnlyEvents DEF Answers
  <2>. QED  BY <2>1 DEF EventsFirst
<1>5. CASE Auth
  <2>1. 1 \in 1 .. MaxBatch /\ "send" \in CallKinds /\ Begin("send", 1, "pending", Written("send", 1))
    BY <1>5, ClientAssumption DEF Connect, CallKinds
  <2>2. Written("send", 1) \in Seq(Commands)
    BY <2>1, WrittenType DEF RInv
  <2>. QED  BY <1>1, <1>4, <2>1, <2>2, BeginKeeps
<1>6. CASE ~Auth
  <2>1. UNCHANGED <<form, cur, status, size, got, pc, toServer>> /\ ~Apart'
    BY <1>6 DEF Connect, ledger, Apart
  <2>2. InStep' /\ Quiet' /\ Filed'
    BY <1>1, <1>2, <1>3, <2>1 DEF RInv, InStep, Quiet, Filed
  <2>. QED  BY <2>1, <2>2 DEF Kept3
<1>. QED  BY <1>5, <1>6

-----------------------------------------------------------------------------
(* The other steps leave the calls alone.                                  *)

Stays == UNCHANGED <<status, got, size, cur>>

\* Close.
LEMMA CloseKeeps == ASSUME RInv, Close PROVE Kept3' /\ Stays
<1>1. /\ pc = "idle" /\ pc' = "idle" /\ sock' = 0 /\ toServer' = <<>> /\ toClient' = <<>>
      /\ UNCHANGED <<buf, form, cur, status, size, got>>
  BY DEF Close, ledger
<1>2. buf \in Seq(Items) /\ toClient \in Seq(Items) /\ Len(Answers) = 0
  BY <1>1, PipeType DEF RInv, InStep
<1>3. Pipe' = buf
  BY <1>1, <1>2, ConcatEmptySeq DEF Pipe
<1>4. Len(Answers') = 0
  BY <1>2, <1>3, StillNone DEF Answers, Pipe
<1>5. \A e : e = <<>> => Len(e) = 0
  OBVIOUS
<1>6. InStep' /\ Quiet' /\ Filed'
  BY <1>1, <1>4, <1>5 DEF RInv, InStep, Quiet, Apart, Filed
<1>. QED  BY <1>1, <1>6 DEF Kept3, Stays

\* Receive.
LEMMA ReceiveKeeps == ASSUME RInv, NEW n \in 1 .. MaxChunk, Receive(n) PROVE Kept3' /\ Stays
<1>1. /\ n <= Len(toClient) /\ buf' = buf \o SubSeq(toClient, 1, n)
      /\ toClient' = SubSeq(toClient, n + 1, Len(toClient))
      /\ UNCHANGED <<sock, pc, form, cur, status, size, got, toServer>>
  BY DEF Receive, ledger
<1>2. buf \in Seq(Items) /\ toClient \in Seq(Items)
  BY PipeType DEF RInv
<1>3. n \in 0 .. Len(toClient)
  BY <1>1, <1>2, ClientAssumption, LenProperties
<1>4. Pipe' = Pipe
  <2>. DEFINE u == SubSeq(toClient, 1, n)
              v == SubSeq(toClient, n + 1, Len(toClient))
  <2>1. u \in Seq(Items)
    BY <1>2, <1>3, Cut
  <2>2. v \in Seq(Items)
    BY <1>2, <1>3, Cut
  <2>3. u \o v = toClient
    BY <1>2, <1>3, Cut
  <2>. HIDE DEF u, v
  <2>4. buf \in Seq(Items)
    BY <1>2
  <2>5. (buf \o u) \o v = buf \o (u \o v)
    BY ONLY <2>1, <2>2, <2>4, ItemsJoin
  <2>. QED  BY <1>1, <2>3, <2>5 DEF Pipe, u, v
<1>5. InStep' /\ Quiet' /\ Filed'
  BY <1>1, <1>4 DEF RInv, InStep, Quiet, Apart, Filed, Answers
<1>. QED  BY <1>1, <1>5 DEF Kept3, Stays

\* The end of the stream: no more answers come, and the call fails.
Fails ==
  /\ pc \in {"reading", "payload"} /\ status' = [status EXCEPT ![cur] = "raised"] /\ UNCHANGED <<got, size, cur>>
  /\ Len(got[cur]) < size[cur]

\* EndOfStream.
LEMMA EndKeeps == ASSUME RInv, EndOfStream PROVE Kept3' /\ Fails
<1>1. /\ pc \in {"reading", "payload"} /\ pc' = "idle" /\ status' = [status EXCEPT ![cur] = "raised"]
      /\ cut /\ toClient = <<>> /\ UNCHANGED <<sock, buf, form, cur, size, got, toServer, toClient>>
  BY DEF EndOfStream, Starved, Return, network
<1>2. buf \in Seq(Items) /\ toClient \in Seq(Items)
  BY PipeType DEF RInv
<1>3. buf = <<>>
  <2>1. CASE pc = "payload"
    BY <2>1 DEF EndOfStream, Starved
  <2>2. CASE pc = "reading"
    <3>1. ~RawFirst(buf) /\ ~HasLine(buf)
      BY <1>1, <1>2, <2>2, NoRawFirst DEF Pipe, EndOfStream, Starved
    <3>. QED  BY <1>2, <3>1, PlainFirst
  <2>. QED  BY <1>1, <2>1, <2>2
<1>4. Pipe = <<>> /\ Pipe' = Pipe /\ Answers' = Answers
  <2>1. <<>> \o <<>> = <<>>
    OBVIOUS
  <2>. QED  BY <1>1, <1>3, <2>1 DEF Pipe, Answers
<1>5. \A e : e = <<>> => Len(e) = 0
  OBVIOUS
<1>6. Len(Pipe) = 0 /\ Len(Answers) = 0 /\ Len(toServer) = 0
  <2>1. Answers = <<>>
    BY <1>4, KeptEmpty DEF Answers
  <2>2. toServer = <<>>
    BY <1>1 DEF RInv, InUse, TypeOK
  <2>. QED  BY <1>4, <1>5, <2>1, <2>2
<1>7. InStep' /\ Quiet'
  BY <1>1, <1>4, <1>6 DEF InStep, Quiet, EventsFirst, NoEvent
<1>8. /\ cur \in Calls /\ status \in [Calls -> {"idle", "pending", "returned", "raised"}]
      /\ Len(got[cur]) \in Nat /\ size[cur] \in Nat
  BY <1>1, LatestType DEF RInv, TypeOK
<1>9. Filed'
  BY <1>1, <1>8 DEF RInv, Filed
<1>10. Len(got[cur]) < size[cur]
  BY <1>1, <1>8 DEF RInv, InStep, LinesDue
<1>. QED  BY <1>1, <1>7, <1>9, <1>10 DEF Kept3, Fails

\* Poll, and a poll that gives up.
LEMMA PollKeeps == ASSUME RInv, Poll \/ PollNothing \/ PollEnd PROVE Kept3' /\ Stays
<1>1. /\ pc \in {"idle", "polling"} /\ pc' \in {"idle", "polling"}
      /\ UNCHANGED <<sock, buf, toClient, form, cur, status, size, got, toServer>>
  BY DEF Poll, PollNothing, PollEnd, ledger, network
<1>2. Pipe' = Pipe /\ Answers' = Answers
  BY <1>1 DEF Pipe, Answers
<1>3. InStep' /\ Quiet' /\ Filed'
  BY <1>1, <1>2 DEF RInv, InStep, Quiet, Apart, Filed
<1>. QED  BY <1>1, <1>3 DEF Kept3, Stays

\* A poll that received something: events only.
LEMMA PollReceiveKeeps == ASSUME RInv, NEW n \in 1 .. MaxChunk, PollReceive(n) PROVE Kept3' /\ Stays
<1>. DEFINE u == SubSeq(toClient, 1, n)
            v == SubSeq(toClient, n + 1, Len(toClient))
            b == buf \o u
            k == LeadingEvents(b)
<1>1. /\ pc = "polling" /\ pc' \in {"idle", "polling"} /\ n <= Len(toClient) /\ toClient' = v
      /\ buf' = Stash(b, k) \/ buf' = b
      /\ UNCHANGED <<sock, form, cur, status, size, got, toServer>>
  BY DEF PollReceive, ledger
<1>2. buf \in Seq(Items) /\ toClient \in Seq(Items)
  BY PipeType DEF RInv
<1>3. n \in 0 .. Len(toClient)
  BY <1>1, <1>2, ClientAssumption, LenProperties
<1>4. u \in Seq(Items)
  BY <1>2, <1>3, Cut
<1>5. v \in Seq(Items)
  BY <1>2, <1>3, Cut
<1>6. u \o v = toClient
  BY <1>2, <1>3, Cut
<1>7. b \in Seq(Items)
  BY <1>2, <1>4, ItemsJoin
<1>8. Pipe = b \o v
  <2>. HIDE DEF u, v
  <2>1. buf \in Seq(Items)
    BY <1>2
  <2>2. (buf \o u) \o v = buf \o (u \o v)
    BY ONLY <1>4, <1>5, <2>1, ItemsJoin
  <2>. QED  BY <1>6, <2>2 DEF Pipe
<1>. HIDE DEF u, v, b, k
<1>9. ~RawFirst(b)
  BY <1>1, <1>5, <1>7, <1>8, NoRawFirst
<1>10. \E p \in Seq(Items) : Pipe = p \o Pipe' /\ Pipe' \in Seq(Items)
  <2>1. CASE buf' = b
    <3>1. Pipe' = Pipe
      BY <1>1, <1>8, <2>1 DEF Pipe
    <3>2. Pipe \in Seq(Items)
      BY PipeType DEF RInv
    <3>3. <<>> \in Seq(Items) /\ <<>> \o Pipe = Pipe
      BY <3>2, ConcatEmptySeq
    <3>. QED  BY <3>1, <3>2, <3>3
  <2>2. CASE buf' = Stash(b, k)
    <3>. DEFINE d == SubSeq(b, 1, k)
                e == SubSeq(b, k + 1, Len(b))
    <3>1. k \in 0 .. Len(b)
      BY <1>7, LeadingAre DEF k
    <3>2. d \in Seq(Items)
      BY <1>7, <3>1, Cut
    <3>3. e \in Seq(Items)
      BY <1>7, <3>1, Cut
    <3>4. d \o e = b
      BY <1>7, <3>1, Cut
    <3>5. buf' = e
      BY <1>7, <1>9, <2>2, PlainFirst
    <3>. HIDE DEF d, e
    <3>6. (d \o e) \o v = d \o (e \o v)
      BY ONLY <1>5, <3>2, <3>3, ItemsJoin
    <3>7. e \o v \in Seq(Items)
      BY <1>5, <3>3, ItemsJoin
    <3>8. Pipe' = e \o v
      BY <1>1, <3>5 DEF Pipe
    <3>. QED  BY <1>8, <3>2, <3>4, <3>6, <3>7, <3>8
  <2>. QED  BY <1>1, <2>1, <2>2
<1>11. PICK p \in Seq(Items) : Pipe = p \o Pipe' /\ Pipe' \in Seq(Items)
  BY <1>10
<1>12. Len(Answers') = 0 /\ Len(toServer) = 0
  <2>1. Len(Answers) = 0 /\ Len(toServer) = 0
    BY <1>1 DEF RInv, InStep
  <2>2. Len(Kept(p \o Pipe', NoEvents)) = 0
    BY <1>11, <2>1 DEF Answers
  <2>3. Len(Kept(Pipe', NoEvents)) = 0
    BY <1>11, <2>2, StillNone
  <2>. QED  BY <2>1, <2>3 DEF Answers
<1>13. /\ EventsFirst(Pipe) => EventsFirst(Pipe')
       /\ NoEvent(Pipe) => NoEvent(Pipe')
  BY <1>11, QuietParts
<1>14. InStep'
  BY <1>1, <1>12 DEF InStep
<1>15. Quiet' /\ Filed'
  BY <1>1, <1>13 DEF RInv, Quiet, Apart, Filed
<1>. QED  BY <1>1, <1>14, <1>15 DEF Kept3, Stays

\* What an item more makes of the answers.
LEMMA MoreAnswers ==
  \A p \in Seq(Items), x \in Items :
    Kept(Append(p, x), NoEvents) = IF IsEvent(x) THEN Kept(p, NoEvents) ELSE Append(Kept(p, NoEvents), x)
<1>. SUFFICES ASSUME NEW p \in Seq(Items), NEW x \in Items
              PROVE  Kept(Append(p, x), NoEvents) =
                       IF IsEvent(x) THEN Kept(p, NoEvents) ELSE Append(Kept(p, NoEvents), x)
  OBVIOUS
<1>1. x \in NoEvents <=> ~IsEvent(x)
  BY DEF NoEvents
<1>2. Kept(Append(p, x), NoEvents) = IF x \in NoEvents THEN Append(Kept(p, NoEvents), x) ELSE Kept(p, NoEvents)
  BY KeptAppend
<1>. QED  BY <1>1, <1>2

\* What is sent comes last.
LEMMA PipeLonger ==
  \A b, t \in Seq(Items), x \in Items : b \o Append(t, x) = Append(b \o t, x)
<1>. SUFFICES ASSUME NEW b \in Seq(Items), NEW t \in Seq(Items), NEW x \in Items
              PROVE  b \o Append(t, x) = Append(b \o t, x)
  OBVIOUS
<1>. DEFINE h == <<x>>
            p == b \o t
<1>1. h \in Seq(Items) /\ Append(t, x) = t \o h
  BY AppendIsConcat
<1>2. p \in Seq(Items)
  BY ItemsJoin
<1>3. h \in Seq(Items)
  BY <1>1
<1>. HIDE DEF p
<1>4. Append(p, x) = p \o h
  BY <1>2, AppendIsConcat
<1>. HIDE DEF h
<1>5. (b \o t) \o h = b \o (t \o h)
  BY <1>3, ItemsJoin
<1>. QED  BY <1>1, <1>4, <1>5 DEF p

\* An event is pushed.
LEMMA PublishKeeps == ASSUME RInv, Publish PROVE Kept3' /\ Stays
<1>1. /\ sock \in Subscribed /\ toClient' = Append(toClient, Event(sock, pushed[sock] + 1))
      /\ UNCHANGED <<sock, buf, pc, form, cur, status, size, got, toServer>>
  BY DEF Publish, client, ledger
<1>2. PICK x \in Items : x = Event(sock, pushed[sock] + 1) /\ IsEvent(x)
  <2>1. sock \in Conns /\ sock \in Nat /\ pushed[sock] + 1 \in Nat
    BY <1>1, ClientAssumption DEF RInv, TypeOK, Conns
  <2>2. Event(sock, pushed[sock] + 1) \in Items
    BY <2>1 DEF Event, Item, Items
  <2>3. IsEvent(Event(sock, pushed[sock] + 1))
    BY DEF Event, Item, IsEvent
  <2>. QED  BY <2>2, <2>3
<1>3. buf \in Seq(Items) /\ toClient \in Seq(Items) /\ Pipe \in Seq(Items)
  BY PipeType DEF RInv
<1>4. Pipe' = Append(Pipe, x)
  BY <1>1, <1>2, <1>3, PipeLonger DEF Pipe
<1>5. Answers' = Answers
  BY <1>2, <1>3, <1>4, MoreAnswers DEF Answers
<1>6. InStep'
  BY <1>1, <1>5 DEF RInv, InStep, Apart
<1>7. Quiet' /\ Filed'
  BY <1>1 DEF RInv, Quiet, Apart, Filed
<1>. QED  BY <1>1, <1>6, <1>7 DEF Kept3, Stays

\* The connection breaks.
LEMMA BreakKeeps == ASSUME RInv, Break PROVE Kept3' /\ Stays
<1>1. /\ toServer' = <<>> /\ UNCHANGED <<sock, buf, pc, form, cur, status, size, got>>
  BY DEF Break, client, ledger
<1>2. PICK n \in 0 .. Len(toClient) : toClient' = SubSeq(toClient, 1, n)
  BY DEF Break
<1>3. buf \in Seq(Items) /\ toClient \in Seq(Items) /\ toServer \in Seq(Commands) /\ Answers \in Seq(Items)
  BY PipeType DEF RInv
<1>. DEFINE u == SubSeq(toClient, 1, n)
            v == SubSeq(toClient, n + 1, Len(toClient))
<1>4. u \in Seq(Items)
  BY <1>3, Cut
<1>5. v \in Seq(Items)
  BY <1>3, Cut
<1>6. u \o v = toClient
  BY <1>3, Cut
<1>. HIDE DEF u, v
<1>7. Pipe' = buf \o u
  BY <1>1, <1>2 DEF Pipe, u
<1>8. Pipe = Pipe' \o v
  <2>1. buf \in Seq(Items)
    BY <1>3
  <2>2. (buf \o u) \o v = buf \o (u \o v)
    BY ONLY <1>4, <1>5, <2>1, ItemsJoin
  <2>. QED  BY <1>6, <1>7, <2>2 DEF Pipe
<1>9. Pipe' \in Seq(Items)
  BY <1>3, <1>4, <1>7, ItemsJoin
<1>10. /\ Len(Answers') <= Len(Answers) /\ Answers' \in Seq(Items)
       /\ \A j \in 1 .. Len(Answers') : j \in 1 .. Len(Answers) /\ Answers'[j] = Answers[j]
  BY <1>5, <1>8, <1>9, LoseLast, KeptJoin DEF Answers
<1>11. /\ EventsFirst(Pipe) => EventsFirst(Pipe')
       /\ NoEvent(Pipe) => NoEvent(Pipe')
  BY <1>5, <1>8, <1>9, QuietParts
<1>12. toServer' \in Seq(Commands) /\ Len(toServer') = 0
  <2>1. \A e : e = <<>> => Len(e) = 0
    OBVIOUS
  <2>. QED  BY <1>1, <2>1
<1>13. ASSUME NEW r, NEW g \in Nat, NEW m \in Nat
       PROVE  /\ LinesDue(Answers, toServer, r, g, m) => LinesDue(Answers', toServer', r, g, m)
              /\ TensorDue(Answers, toServer, r) => TensorDue(Answers', toServer', r)
              /\ PayloadDue(Answers, toServer, r) => PayloadDue(Answers', toServer', r)
  <2>1. \A a, b \in Seq(Items), s \in Seq(Commands) :
          Len(b) <= Len(a) /\ (\A j \in 1 .. Len(b) : j \in 1 .. Len(a) /\ b[j] = a[j]) =>
            \A e \in Seq(Commands) : Len(e) = 0 =>
              /\ LinesDue(a, s, r, g, m) => LinesDue(b, e, r, g, m)
              /\ TensorDue(a, s, r) => TensorDue(b, e, r)
              /\ PayloadDue(a, s, r) => PayloadDue(b, e, r)
    BY DueLess
  <2>. QED  BY <1>3, <1>10, <1>12, <2>1
<1>14. InStep'
  <2>1. CASE pc \in {"idle", "polling"}
    <3>1. Len(Answers) = 0 /\ Len(Answers') \in Nat
      BY <1>10, <2>1, LenProperties DEF RInv, InStep
    <3>. QED  BY <1>1, <1>10, <1>12, <2>1, <3>1 DEF InStep
  <2>2. CASE pc \in {"reading", "payload"}
    <3>1. cur \in Calls /\ Len(got[cur]) \in Nat /\ size[cur] \in Nat
      BY <2>2, LatestType
    <3>. QED  BY <1>1, <1>13, <2>2, <3>1 DEF RInv, InStep, Apart
  <2>. QED  BY <2>1, <2>2 DEF RInv, TypeOK
<1>15. Quiet' /\ Filed'
  BY <1>1, <1>11 DEF RInv, Quiet, Apart, Filed
<1>. QED  BY <1>1, <1>14, <1>15 DEF Kept3, Stays

\* The server answers with a line: one more answer is under way.
LEMMA LineSent ==
  ASSUME RInv, NEW x \in Items, ~IsEvent(x), toClient' = Append(toClient, x), buf' = buf
  PROVE  /\ Answers' = Append(Answers, x)
         /\ EventsFirst(Pipe) => EventsFirst(Pipe')
         /\ NoEvent(Pipe) => NoEvent(Pipe')
<1>1. buf \in Seq(Items) /\ toClient \in Seq(Items) /\ Pipe \in Seq(Items)
  BY PipeType DEF RInv
<1>2. Pipe' = Append(Pipe, x)
  BY <1>1, PipeLonger DEF Pipe
<1>3. Answers' = Append(Answers, x)
  BY <1>1, <1>2, MoreAnswers DEF Answers
<1>. QED  BY <1>1, <1>2, <1>3, QuietMore

\* The server answers a tensor call: a line and raw bytes.
LEMMA TensorSent ==
  ASSUME RInv, NEW x \in Items, NEW y \in Items, ~IsEvent(x), ~IsEvent(y), toClient' = toClient \o <<x, y>>, buf' = buf
  PROVE  /\ Answers' = Append(Append(Answers, x), y)
         /\ EventsFirst(Pipe) => EventsFirst(Pipe')
         /\ NoEvent(Pipe) => NoEvent(Pipe')
<1>1. buf \in Seq(Items) /\ toClient \in Seq(Items) /\ Pipe \in Seq(Items)
  BY PipeType DEF RInv
<1>2. toClient \o <<x, y>> = Append(Append(toClient, x), y)
  <2>. DEFINE g == <<x>>
              h == <<y>>
              t == toClient
  <2>1. g \in Seq(Items)
    OBVIOUS
  <2>2. h \in Seq(Items)
    OBVIOUS
  <2>3. g \o h = <<x, y>>
    <3>1. Len(g) = 1 /\ g[1] = x /\ Len(h) = 1 /\ h[1] = y
      OBVIOUS
    <3>2. g \o h \in Seq(Items) /\ <<x, y>> \in Seq(Items) /\ Len(<<x, y>>) = 2
      BY <2>1, <2>2, ItemsJoin
    <3>. DEFINE d == <<x, y>>
    <3>3. d[1] = x /\ d[2] = y /\ Len(d) = 2 /\ d \in Seq(Items)
      BY <3>2
    <3>. HIDE DEF g, h, d
    <3>4. /\ Len(g \o h) = Len(g) + Len(h)
          /\ \A i \in 1 .. Len(g) : (g \o h)[i] = g[i]
          /\ \A i \in 1 .. Len(h) : (g \o h)[Len(g) + i] = h[i]
      BY ONLY <2>1, <2>2, ItemsAt
    <3>5. Len(g \o h) = 2 /\ (g \o h)[1] = x /\ (g \o h)[2] = y
      BY <3>1, <3>4
    <3>6. \A i \in 1 .. 2 : i = 1 \/ i = 2
      OBVIOUS
    <3>7. \A i \in 1 .. Len(d) : (g \o h)[i] = d[i]
      BY <3>3, <3>5, <3>6
    <3>8. g \o h = d
      BY <3>2, <3>3, <3>5, <3>7, SeqEqual
    <3>. QED  BY <3>8 DEF d
  <2>4. t \in Seq(Items)
    BY <1>1
  <2>5. Append(t, x) = t \o g
    BY <2>4, AppendIsConcat
  <2>. HIDE DEF g, t
  <2>6. t \o g \in Seq(Items)
    BY <2>1, <2>4, ItemsJoin
  <2>7. Append(t \o g, y) = (t \o g) \o h
    <3>. DEFINE v == t \o g
    <3>1. v \in Seq(Items)
      BY <2>6
    <3>. HIDE DEF v
    <3>2. Append(v, y) = v \o h
      BY <3>1, AppendIsConcat
    <3>. QED  BY <3>2 DEF v
  <2>. HIDE DEF h
  <2>8. (t \o g) \o h = t \o (g \o h)
    BY ONLY <2>1, <2>2, <2>4, ItemsJoin
  <2>. QED  BY <2>3, <2>5, <2>7, <2>8 DEF t
<1>. DEFINE t == Append(toClient, x)
            p == Append(Pipe, x)
<1>3. t \in Seq(Items) /\ p \in Seq(Items) /\ Pipe' = buf \o Append(t, y) /\ p = buf \o t
  BY <1>1, <1>2, AppendProperties, PipeLonger DEF Pipe
<1>. HIDE DEF t
<1>4. Pipe' = Append(p, y)
  BY <1>1, <1>3, PipeLonger, SMTT(30)
<1>5. Kept(p, NoEvents) = Append(Answers, x)
  BY <1>1, MoreAnswers DEF Answers
<1>6. /\ EventsFirst(Pipe) => EventsFirst(p)
      /\ NoEvent(Pipe) => NoEvent(p)
  BY <1>1, QuietMore
<1>. HIDE DEF p
<1>7. Answers' = Append(Kept(p, NoEvents), y)
  BY <1>3, <1>4, MoreAnswers DEF Answers
<1>8. /\ EventsFirst(p) => EventsFirst(Pipe')
      /\ NoEvent(p) => NoEvent(Pipe')
  BY <1>3, <1>4, QuietMore
<1>. QED  BY <1>5, <1>6, <1>7, <1>8

\* Serve.
LEMMA ServeKeeps == ASSUME Orderly, RInv, Serve PROVE Kept3' /\ Stays
<1>. DEFINE cmd == Head(toServer)
            m == Len(Answers)
            g == Len(got[cur])
<1>1. /\ toServer # <<>> /\ toServer' = Tail(toServer) /\ UNCHANGED <<sock, buf, pc, form, cur, status, size, got>>
      /\ \/ ~cmd.binary /\ toClient' = Append(toClient, Item("ok", cmd.of, cmd.num))
         \/ cmd.binary /\ toClient' = toClient \o <<Item("header", cmd.of, cmd.num), Item("payload", cmd.of, cmd.num)>>
         \/ MayRefuse(cmd) /\ toClient' = Append(toClient, Item("err", cmd.of, cmd.num))
  BY DEF Serve, client, ledger
<1>2. toServer \in Seq(Commands) /\ Answers \in Seq(Items) /\ Len(toServer) > 0 /\ m \in Nat
  <2>1. toServer \in Seq(Commands) /\ Answers \in Seq(Items)
    BY PipeType DEF RInv
  <2>. QED  BY <1>1, <2>1, EmptySeq, LenProperties
<1>3. pc = "reading"
  <2>1. pc \in {"idle", "polling", "reading", "payload"}
    BY DEF RInv, TypeOK
  <2>. QED  BY <1>2, <2>1 DEF RInv, InStep, PayloadDue
<1>4. cur \in Calls /\ cur \in Nat /\ g \in Nat /\ size[cur] \in Nat
  BY <1>3, LatestType
<1>5. MayRefuse(cmd) => size[cmd.of] = 1
  BY DEF Orderly, MayRefuse
<1>6. Filed' /\ Stays
  BY <1>1 DEF RInv, Filed, Stays
<1>7. CASE form # "matmul"
  <2>1. LinesDue(Answers, toServer, cur, g, size[cur])
    BY <1>3, <1>7 DEF RInv, InStep
  <2>. HIDE DEF g, cmd
  <2>2. /\ Head(toServer) = [of |-> cur, num |-> g + m + 1, binary |-> FALSE]
        /\ \A kind \in {"ok", "err"} :
             kind = "ok" \/ size[cur] = 1 =>
               LinesDue(Append(Answers, Item(kind, cur, g + m + 1)), Tail(toServer), cur, g, size[cur])
    <3>1. \A a \in Seq(Items), s \in Seq(Commands) :
            Len(s) > 0 /\ LinesDue(a, s, cur, g, size[cur]) =>
              /\ Head(s) = [of |-> cur, num |-> g + Len(a) + 1, binary |-> FALSE]
              /\ \A kind \in {"ok", "err"} : kind = "ok" \/ size[cur] = 1 =>
                   LinesDue(Append(a, Item(kind, cur, g + Len(a) + 1)), Tail(s), cur, g, size[cur])
      BY <1>4, ServeLine
    <3>. QED  BY <1>2, <2>1, <3>1
  <2>3. cmd.of = cur /\ cmd.num = g + m + 1 /\ cmd.binary = FALSE
    BY <2>2 DEF cmd
  <2>4. \E kind \in {"ok", "err"} :
          toClient' = Append(toClient, Item(kind, cur, g + m + 1)) /\ (kind = "ok" \/ size[cur] = 1)
    BY <1>1, <1>5, <2>3
  <2>5. PICK kind \in {"ok", "err"} :
          toClient' = Append(toClient, Item(kind, cur, g + m + 1)) /\ (kind = "ok" \/ size[cur] = 1)
    BY <2>4
  <2>6. Item(kind, cur, g + m + 1) \in Items /\ ~IsEvent(Item(kind, cur, g + m + 1))
    <3>1. g + m + 1 \in Nat
      BY <1>2, <1>4
    <3>. QED  BY <1>4, <3>1 DEF Item, Items, IsEvent
  <2>7. /\ Answers' = Append(Answers, Item(kind, cur, g + m + 1))
        /\ EventsFirst(Pipe) => EventsFirst(Pipe')
        /\ NoEvent(Pipe) => NoEvent(Pipe')
    BY <1>1, <2>5, <2>6, LineSent
  <2>8. LinesDue(Answers', toServer', cur', Len(got'[cur']), size'[cur'])
    BY <1>1, <2>2, <2>5, <2>7 DEF g
  <2>9. InStep'
    BY <1>1, <1>3, <1>4, <1>7, <2>8 DEF InStep
  <2>10. Quiet'
    BY <1>1, <1>3, <1>7, <2>7 DEF RInv, Quiet, Apart
  <2>. QED  BY <1>6, <2>9, <2>10 DEF Kept3
<1>8. CASE form = "matmul"
  <2>1. Apart /\ size[cur] = 1 /\ Len(got[cur]) = 0 /\ TensorDue(Answers, toServer, cur)
    BY <1>3, <1>8 DEF RInv, InStep
  <2>2. /\ Head(toServer) = [of |-> cur, num |-> 1, binary |-> TRUE]
        /\ TensorDue(Append(Answers, Item("err", cur, 1)), Tail(toServer), cur)
        /\ TensorDue(Append(Append(Answers, Header(cur)), Payload(cur)), Tail(toServer), cur)
    <3>1. \A a \in Seq(Items), s \in Seq(Commands) :
            Len(s) > 0 /\ TensorDue(a, s, cur) =>
              /\ Head(s) = [of |-> cur, num |-> 1, binary |-> TRUE]
              /\ TensorDue(Append(a, Item("err", cur, 1)), Tail(s), cur)
              /\ TensorDue(Append(Append(a, Header(cur)), Payload(cur)), Tail(s), cur)
      BY <1>4, ServeTensor
    <3>. QED  BY <1>2, <2>1, <3>1
  <2>3. cmd.of = cur /\ cmd.num = 1 /\ cmd.binary = TRUE
    BY <2>2
  <2>4. /\ Item("err", cur, 1) \in Items /\ Header(cur) \in Items /\ Payload(cur) \in Items
        /\ ~IsEvent(Item("err", cur, 1)) /\ ~IsEvent(Header(cur)) /\ ~IsEvent(Payload(cur))
    BY <1>4 DEF Item, Items, Header, Payload, IsEvent
  <2>. HIDE DEF cmd
  <2>5. \/ toClient' = toClient \o <<Header(cur), Payload(cur)>>
        \/ toClient' = Append(toClient, Item("err", cur, 1))
    BY <1>1, <2>3 DEF Header, Payload
  <2>6. /\ TensorDue(Answers', Tail(toServer), cur)
        /\ EventsFirst(Pipe) => EventsFirst(Pipe')
        /\ NoEvent(Pipe) => NoEvent(Pipe')
    <3>1. CASE toClient' = toClient \o <<Header(cur), Payload(cur)>>
      BY <1>1, <2>2, <2>4, <3>1, TensorSent
    <3>2. CASE toClient' = Append(toClient, Item("err", cur, 1))
      BY <1>1, <2>2, <2>4, <3>2, LineSent
    <3>. QED  BY <2>5, <3>1, <3>2
  <2>7. InStep'
    BY <1>1, <1>3, <1>4, <1>8, <2>1, <2>6 DEF InStep, Apart
  <2>8. Quiet'
    BY <1>1, <2>6 DEF RInv, Quiet, Apart
  <2>. QED  BY <1>6, <2>7, <2>8 DEF Kept3
<1>. QED  BY <1>7, <1>8
-----------------------------------------------------------------------------
(* The theorems.                                                           *)

\* The invariant holds at first.
LEMMA RInvInit == Init => RInv
<1>. SUFFICES ASSUME Init PROVE RInv
  OBVIOUS
<1>1. TypeOK
  BY TypeInit
<1>2. /\ sock = 0 /\ buf = <<>> /\ toClient = <<>> /\ toServer = <<>> /\ pc = "idle" /\ cur = 0 /\ cut = FALSE
      /\ status = [r \in Calls |-> "idle"] /\ size = [r \in Calls |-> 0] /\ got = [r \in Calls |-> <<>>]
      /\ sent = {} /\ opened = 0 /\ pushed = [c \in Conns |-> 0]
  BY DEF Init
<1>3. InUse /\ Made
  BY <1>2 DEF InUse, Made, Calls, Conns
<1>4. Answers = <<>>
  <2>1. buf \in Seq(Items) /\ buf \o toClient = <<>>
    BY <1>2
  <2>. QED  BY <1>2, <2>1, KeptEmpty DEF Answers, Pipe
<1>5. Len(Answers) = 0 /\ Len(toServer) = 0
  BY <1>2, <1>4
<1>6. InStep /\ Quiet
  BY <1>2, <1>5 DEF InStep, Quiet, Apart
<1>7. Filed
  <2>1. \A r \in Calls : ~(r <= 0) /\ got[r] = <<>> /\ status[r] = "idle"
    BY <1>2, ClientAssumption DEF Calls
  <2>2. \A r \in Calls : Len(got[r]) = 0
    BY <2>1
  <2>. QED  BY <1>2, <2>1, <2>2 DEF Filed
<1>. QED  BY <1>1, <1>3, <1>6, <1>7 DEF RInv

\* What a step does to the calls.
Moved ==
  \/ Stays
  \/ Issues
  \/ pc \in {"reading", "payload"} /\ Advances
  \/ Fails

\* Every step of an orderly client keeps it and is one that the channel knows.
LEMMA RInvNext == ASSUME Orderly, RInv, Next PROVE RInv' /\ Moved
<1>1. TypeOK' /\ InUse' /\ Made'
  BY TypeNext, UseNext DEF RInv
<1>. SUFFICES Kept3' /\ Moved
  BY <1>1 DEF RInv, Kept3
<1>2. ASSUME NEW k \in CallKinds, NEW n \in 1 .. MaxBatch, Call(k, n) PROVE Kept3' /\ Moved
  BY <1>2, CallKeeps DEF Moved
<1>3. CASE Connect
  BY <1>3, ConnectKeeps DEF Moved, Stays
<1>4. CASE Close
  BY <1>4, CloseKeeps DEF Moved
<1>5. CASE ReadLine
  BY <1>5, ReadKeeps DEF Moved, ReadLine
<1>6. CASE TakePayload
  BY <1>6, PayloadKeeps DEF Moved, TakePayload
<1>7. CASE EndOfStream
  BY <1>7, EndKeeps DEF Moved
<1>8. ASSUME NEW n \in 1 .. MaxChunk, Receive(n) PROVE Kept3' /\ Moved
  BY <1>8, ReceiveKeeps DEF Moved
<1>9. CASE Poll \/ PollNothing \/ PollEnd
  BY <1>9, PollKeeps DEF Moved
<1>10. ASSUME NEW n \in 1 .. MaxChunk, PollReceive(n) PROVE Kept3' /\ Moved
  BY <1>10, PollReceiveKeeps DEF Moved
<1>11. CASE Serve
  BY <1>11, ServeKeeps DEF Moved
<1>12. CASE Publish
  BY <1>12, PublishKeeps DEF Moved
<1>13. CASE Break
  BY <1>13, BreakKeeps DEF Moved
<1>14. ~Timeout
  BY DEF Orderly, Timeout
<1>. QED
  BY <1>2, <1>3, <1>4, <1>5, <1>6, <1>7, <1>8, <1>9, <1>10, <1>11, <1>12, <1>13, <1>14
     DEF Next, Application, Reading, SomeArrived, Peer

\* A stutter keeps it.
LEMMA RInvSame == ASSUME RInv, UNCHANGED vars PROVE RInv'
<1>1. /\ UNCHANGED <<sock, opened, buf, pending, pc, form, cur, status, size, got, sent, heard>>
      /\ UNCHANGED <<cut, toServer, toClient, pushed>>
  BY DEF vars, client, ledger, network
<1>2. TypeOK'
  BY TypeNext DEF RInv
<1>3. InUse' /\ Made'
  BY <1>1 DEF RInv, InUse, Made
<1>4. Pipe' = Pipe /\ Answers' = Answers
  BY <1>1 DEF Pipe, Answers
<1>5. InStep' /\ Quiet' /\ Filed'
  BY <1>1, <1>4 DEF RInv, InStep, Quiet, Apart, Filed
<1>. QED  BY <1>2, <1>3, <1>5 DEF RInv

\* It holds in every state of an orderly client.
LEMMA RInvInvariance == ASSUME Orderly PROVE Spec => []RInv
<1>1. Init => RInv
  BY RInvInit
<1>2. RInv /\ [Next]_vars => RInv'
  BY RInvNext, RInvSame
<1>. QED  BY <1>1, <1>2, PTL DEF Spec

\* What send and send_batch read as their answers are the answers to their own
\* commands, in order: of a client whose calls do not time out, whose batches
\* are not refused and whose tensor calls are made apart from events.
THEOREM EveryCallReadsItsOwn == ASSUME Orderly PROVE Spec => []OwnAnswers
<1>1. RInv => OwnAnswers
  <2>. SUFFICES ASSUME RInv, NEW r \in Calls, NEW i \in 1 .. Len(got[r])
                PROVE  got[r][i].of = r /\ got[r][i].num = i
    BY DEF OwnAnswers
  <2>1. AnswerTo(got[r][i]) = <<r, i>> /\ r # 0
    BY DEF RInv, Filed, Calls
  <2>. QED  BY <2>1 DEF AnswerTo
<1>. QED  BY <1>1, RInvInvariance, PTL

\* The calls as Rpc sees them.
Outcomes == [r \in Calls |-> Outcome(r)]
Read     == [r \in Calls |-> IF Outcome(r) = "resolved"
                             THEN [i \in 1 .. Len(got[r]) |-> AnswerTo(got[r][i])]
                             ELSE <<>>]
\* No call is made before its turn, and at most the latest waits.
LEMMA MapIssue == ASSUME RInv, Issues PROVE \E r \in Calls : Channel!Issue(r)
<1>0. PICK r : r = cur + 1
  OBVIOUS
<1>1. r \in Calls /\ cur \in Nat /\ r > cur /\ r \in Nat
  <2>1. cur \in Nat
    BY ClientAssumption DEF RInv, TypeOK
  <2>. QED  BY <1>0, <2>1 DEF Issues
<1>2. got[r] = <<>> /\ status[r] = "idle"
  BY <1>1 DEF RInv, Made
<1>3. \A q \in 1 .. r - 1 : q \in Calls /\ q <= cur
  BY <1>0, <1>1, ClientAssumption DEF Calls
<1>4. \A q \in 1 .. r - 1 : Outcomes[q] # "idle"
  <2>1. \A q \in 1 .. r - 1 : status[q] # "idle"
    BY <1>3 DEF RInv, Made
  <2>. QED  BY <1>3, <2>1 DEF Outcome, Outcomes
<1>5. PICK s \in {"pending", "raised"} : status' = [status EXCEPT ![r] = s]
  BY <1>0 DEF Issues
<1>6. PICK n \in 1 .. MaxBatch : size' = [size EXCEPT ![r] = n]
  BY <1>0 DEF Issues
<1>7. /\ got' = got /\ Len(got[r]) = 0 /\ size'[r] = n /\ n # 0 /\ status'[r] = s
      /\ \A q \in Calls : q # r => status'[q] = status[q] /\ size'[q] = size[q]
  <2>1. /\ status \in [Calls -> {"idle", "pending", "returned", "raised"}] /\ size \in [Calls -> 0 .. MaxBatch]
    BY DEF RInv, TypeOK
  <2>2. \A e : e = <<>> => Len(e) = 0
    OBVIOUS
  <2>3. n # 0
    OBVIOUS
  <2>. QED  BY <1>1, <1>2, <1>5, <1>6, <2>1, <2>2, <2>3 DEF Issues
<1>8. /\ Outcome(r) = "idle" /\ Outcome(r)' \in {"pending", "rejected"}
      /\ \A q \in Calls : q # r => Outcome(q)' = Outcome(q)
  BY <1>2, <1>7 DEF Outcome
<1>9. PICK o \in {"pending", "rejected"} : Outcome(r)' = o
  BY <1>8
<1>10. Outcomes' = [Outcomes EXCEPT ![r] = o]
  BY <1>1, <1>8, <1>9 DEF Outcomes
<1>11. Read' = Read
  BY <1>1, <1>7, <1>8 DEF Read
<1>12. Outcomes[r] = "idle"
  BY <1>1, <1>8 DEF Outcomes
<1>13. Channel!Issue(r)
  BY <1>4, <1>6, <1>9, <1>10, <1>11, <1>12 DEF Channel!Issue, Outcomes, Read
<1>. QED  BY <1>1, <1>13

\* The latest call has read all its answers.
LEMMA MapAdvance ==
  ASSUME RInv, RInv', pc \in {"reading", "payload"}, Advances
  PROVE  (\E r \in Calls : Channel!Resolve(r)) \/ UNCHANGED Channel!vars
<1>1. /\ cur \in Calls /\ status[cur] = "pending" /\ UNCHANGED <<cur, size>>
      /\ \A r \in Calls : status[r] = "pending" => r = cur
      /\ status \in [Calls -> {"idle", "pending", "returned", "raised"}]
      /\ \A r \in Calls : r # cur => got'[r] = got[r]
  BY DEF RInv, TypeOK, InStep, Advances
<1>2. Outcome(cur) = "pending" /\ \A r \in Calls : Outcome(r) = "pending" => r = cur
  BY <1>1 DEF Outcome
<1>3. CASE status' = status
  <2>1. \A r \in Calls : Outcome(r)' = Outcome(r)
    BY <1>1, <1>3 DEF Outcome
  <2>2. Outcomes' = Outcomes
    BY <2>1 DEF Outcomes
  <2>3. Read' = Read
    BY <1>1, <1>2, <2>1 DEF Read
  <2>. QED  BY <1>1, <2>2, <2>3 DEF Channel!vars, Outcomes, Read
<1>4. CASE (\E s \in {"returned", "raised"} : status' = [status EXCEPT ![cur] = s]) /\ Len(got'[cur]) = size[cur]
  <2>1. PICK s \in {"returned", "raised"} : status' = [status EXCEPT ![cur] = s]
    BY <1>4
  <2>2. status'[cur] = s /\ \A r \in Calls : r # cur => status'[r] = status[r]
    BY <1>1, <2>1
  <2>3. Outcome(cur)' = "resolved"
    BY <1>1, <1>4, <2>2 DEF Outcome
  <2>4. \A r \in Calls : r # cur => Outcome(r)' = Outcome(r)
    BY <1>1, <2>2 DEF Outcome
  <2>5. Outcomes' = [Outcomes EXCEPT ![cur] = "resolved"]
    BY <1>1, <2>3, <2>4 DEF Outcomes
  <2>6. \A i \in 1 .. size[cur] : AnswerTo(got'[cur][i]) = <<cur, i>>
    <3>1. \A r \in Calls : \A i \in 1 .. Len(got'[r]) : AnswerTo(got'[r][i]) = <<r, i>>
      BY DEF RInv, Filed, AnswerTo
    <3>. QED  BY <1>1, <1>4, <3>1
  <2>7. [i \in 1 .. Len(got'[cur]) |-> AnswerTo(got'[cur][i])] = [i \in 1 .. size[cur] |-> <<cur, i>>]
    BY <1>4, <2>6
  <2>8. Read' = [Read EXCEPT ![cur] = [i \in 1 .. size[cur] |-> <<cur, i>>]]
    <3>1. Read'[cur] = [i \in 1 .. size[cur] |-> <<cur, i>>]
      BY <1>1, <2>3, <2>7 DEF Read, AnswerTo
    <3>2. \A r \in Calls : r # cur => Read'[r] = Read[r]
      BY <1>1, <2>4 DEF Read, AnswerTo
    <3>3. Read' \in [Calls -> {Read'[r] : r \in Calls}] /\ Read \in [Calls -> {Read[r] : r \in Calls}]
      BY DEF Read
    <3>. QED  BY <3>1, <3>2, <3>3
  <2>9. Outcomes[cur] = "pending" /\ \A q \in Calls : Outcomes[q] = "pending" => q = cur
    BY <1>1, <1>2 DEF Outcomes
  <2>10. \A q \in Calls : Outcomes[q] = "pending" => cur <= q
    BY <1>1, <2>9 DEF Calls
  <2>11. PICK r \in Calls : r = cur
    BY <1>1
  <2>12. Channel!Resolve(r)
    BY <1>1, <2>5, <2>8, <2>9, <2>10, <2>11 DEF Channel!Resolve, Channel!Pending, Outcomes, Read
  <2>. QED  BY <2>12
<1>. QED  BY <1>3, <1>4 DEF Advances

\* The connection was closed while the latest call read.
LEMMA MapFail == ASSUME RInv, Fails PROVE Channel!FailAll
<1>1. /\ cur \in Calls /\ status[cur] = "pending" /\ UNCHANGED <<got, cur, size>>
      /\ \A r \in Calls : status[r] = "pending" => r = cur
      /\ status \in [Calls -> {"idle", "pending", "returned", "raised"}]
      /\ status' = [status EXCEPT ![cur] = "raised"]
  BY DEF RInv, TypeOK, InStep, Fails
<1>2. size[cur] # Len(got[cur])
  <2>1. Len(got[cur]) \in Nat /\ size[cur] \in Nat
    BY LatestType DEF Fails
  <2>. QED  BY <2>1 DEF Fails
<1>3. Outcome(cur) = "pending" /\ Outcome(cur)' = "rejected"
  BY <1>1, <1>2 DEF Outcome
<1>4. \A r \in Calls : r # cur => Outcome(r)' = Outcome(r) /\ Outcome(r) # "pending"
  BY <1>1 DEF Outcome
<1>5. Outcomes' = [r \in Calls |-> IF Outcomes[r] = "pending" THEN "rejected" ELSE Outcomes[r]]
  <2>1. \A r \in Calls : Outcome(r)' = IF Outcome(r) = "pending" THEN "rejected" ELSE Outcome(r)
    <3>. SUFFICES ASSUME NEW r \in Calls
                  PROVE  Outcome(r)' = IF Outcome(r) = "pending" THEN "rejected" ELSE Outcome(r)
      OBVIOUS
    <3>1. CASE r = cur
      <4>1. Outcome(r)' = "rejected" /\ Outcome(r) = "pending"
        BY <1>1, <1>2, <3>1 DEF Outcome
      <4>. QED  BY <4>1
    <3>2. CASE r # cur
      BY <1>4, <3>2
    <3>. QED  BY <3>1, <3>2
  <2>2. \A r \in Calls : Outcomes[r] = Outcome(r)
    BY DEF Outcomes
  <2>3. Outcomes' = [r \in Calls |-> Outcome(r)']
    BY DEF Outcomes
  <2>. QED  BY <2>1, <2>2, <2>3
<1>6. Read' = Read
  BY <1>1, <1>3, <1>4 DEF Read
<1>. QED  BY <1>1, <1>5, <1>6 DEF Channel!FailAll, Channel!Pending, Outcomes, Read

\* A step that moved as the channel does is a step or a stutter of Rpc.
LEMMA MapNext == ASSUME RInv, RInv', Moved PROVE [Channel!Next]_(Channel!vars)
<1>1. CASE Stays
  BY <1>1 DEF Stays, Channel!vars, Outcome, AnswerTo
<1>2. CASE Issues
  BY <1>2, MapIssue DEF Channel!Next
<1>3. CASE pc \in {"reading", "payload"} /\ Advances
  BY <1>3, MapAdvance DEF Channel!Next
<1>4. CASE Fails
  BY <1>4, MapFail DEF Channel!Next
<1>. QED  BY <1>1, <1>2, <1>3, <1>4 DEF Moved

\* A client is a pipelined channel, like the transports of JsTransport: calls
\* are made and settle in order, and each gets the answers to its own commands.
THEOREM ImplementsChannel == ASSUME Orderly PROVE Spec => ImplementsRpc
<1>1. Init => Channel!Init
  <2>. SUFFICES ASSUME Init PROVE Channel!Init
    OBVIOUS
  <2>1. \A r \in Calls : Outcome(r) = "idle"
    BY DEF Init, Outcome
  <2>. QED  BY <2>1 DEF Init, Channel!Init
<1>2. RInv /\ RInv' /\ [Next]_vars => [Channel!Next]_(Channel!vars)
  <2>1. RInv /\ RInv' /\ Next => [Channel!Next]_(Channel!vars)
    BY RInvNext, MapNext
  <2>2. UNCHANGED vars => UNCHANGED Channel!vars
    BY DEF vars, client, ledger, Channel!vars, Outcome, AnswerTo
  <2>. QED  BY <2>1, <2>2
<1>3. Spec => []RInv
  BY RInvInvariance
<1>. QED  BY <1>1, <1>2, <1>3, PTL DEF Spec, ImplementsRpc, Channel!Spec
-----------------------------------------------------------------------------
(* A client that fell behind stays behind by just what it left unread.     *)

Pairs == Nat \X Nat

\* The commands that items answer, or that are written.
Ids(s) == [i \in 1 .. Len(s) |-> <<s[i].of, s[i].num>>]

\* The commands of items one after the other.
LEMMA IdsJoin ==
  ASSUME NEW S, \A x \in S : x.of \in Nat /\ x.num \in Nat
  PROVE  \A u, v \in Seq(S) : Ids(u) \in Seq(Pairs) /\ Ids(u \o v) = Ids(u) \o Ids(v)
<1>. SUFFICES ASSUME NEW u \in Seq(S), NEW v \in Seq(S)
              PROVE  Ids(u) \in Seq(Pairs) /\ Ids(u \o v) = Ids(u) \o Ids(v)
  OBVIOUS
<1>1. \A s \in Seq(S) : Ids(s) \in Seq(Pairs) /\ Len(Ids(s)) = Len(s) /\ Len(s) \in Nat
                        /\ \A i \in 1 .. Len(s) : Ids(s)[i] = <<s[i].of, s[i].num>>
  <2>. SUFFICES ASSUME NEW s \in Seq(S)
                PROVE  Ids(s) \in Seq(Pairs) /\ Len(Ids(s)) = Len(s) /\ Len(s) \in Nat
                       /\ \A i \in 1 .. Len(s) : Ids(s)[i] = <<s[i].of, s[i].num>>
    OBVIOUS
  <2>1. Len(s) \in Nat /\ \A i \in 1 .. Len(s) : s[i] \in S
    BY LenProperties, ElementOfSeq
  <2>2. \A i \in 1 .. Len(s) : <<s[i].of, s[i].num>> \in Pairs
    BY <2>1 DEF Pairs
  <2>3. Ids(s) \in [1 .. Len(s) -> Pairs]
    BY <2>2 DEF Ids
  <2>4. Ids(s) \in Seq(Pairs) /\ Len(Ids(s)) = Len(s)
    BY <2>1, <2>3
  <2>. QED  BY <2>1, <2>4 DEF Ids
<1>. DEFINE w == u \o v
            a == Ids(u)
            b == Ids(v)
            c == Ids(w)
            m == Len(u)
            n == Len(v)
<1>2. w \in Seq(S) /\ Len(w) = m + n /\ m \in Nat /\ n \in Nat
      /\ \A i \in 1 .. m + n : w[i] = IF i <= m THEN u[i] ELSE v[i - m]
  BY ConcatProperties, LenProperties
<1>3. a \in Seq(Pairs) /\ b \in Seq(Pairs) /\ Len(a) = m /\ Len(b) = n
      /\ (\A i \in 1 .. m : a[i] = <<u[i].of, u[i].num>>) /\ (\A i \in 1 .. n : b[i] = <<v[i].of, v[i].num>>)
  BY <1>1
<1>4. c \in Seq(Pairs) /\ Len(c) = m + n /\ \A i \in 1 .. m + n : c[i] = <<w[i].of, w[i].num>>
  BY <1>1, <1>2
<1>. HIDE DEF w, a, b, c, m, n
<1>5. a \o b \in Seq(Pairs) /\ Len(a \o b) = m + n
      /\ \A i \in 1 .. m + n : (a \o b)[i] = IF i <= m THEN a[i] ELSE b[i - m]
  <2>1. /\ a \o b \in Seq(Pairs) /\ Len(a \o b) = Len(a) + Len(b)
        /\ \A i \in 1 .. Len(a) + Len(b) : (a \o b)[i] = IF i <= Len(a) THEN a[i] ELSE b[i - Len(a)]
    BY <1>3, ConcatProperties
  <2>. QED  BY <1>3, <2>1
<1>6. \A i \in 1 .. m + n : c[i] = (a \o b)[i]
  <2>. SUFFICES ASSUME NEW i \in 1 .. m + n PROVE c[i] = (a \o b)[i]
    OBVIOUS
  <2>1. CASE i <= m
    <3>1. i \in 1 .. m
      BY <1>2, <2>1
    <3>2. c[i] = <<u[i].of, u[i].num>>
      BY <1>2, <1>4, <2>1
    <3>3. (a \o b)[i] = <<u[i].of, u[i].num>>
      BY <1>3, <1>5, <2>1, <3>1
    <3>. QED  BY <3>2, <3>3
  <2>2. CASE ~(i <= m)
    <3>1. i - m \in 1 .. n
      BY <1>2, <2>2
    <3>2. c[i] = <<v[i - m].of, v[i - m].num>>
      BY <1>2, <1>4, <2>2
    <3>3. (a \o b)[i] = <<v[i - m].of, v[i - m].num>>
      BY <1>3, <1>5, <2>2, <3>1
    <3>. QED  BY <3>2, <3>3
  <2>. QED  BY <2>1, <2>2
<1>7. c = a \o b
  BY <1>4, <1>5, <1>6, SeqEqual
<1>. QED  BY <1>3, <1>7 DEF a, b, c, w

\* What two sequences of lines answer is what the first answers, then the second.
LEMMA ItemIds ==
  \A u, v \in Seq(Items) : Ids(u) \in Seq(Pairs) /\ Ids(u \o v) = Ids(u) \o Ids(v)
BY IdsJoin DEF Items

\* The same of sequences of commands.
LEMMA CommandIds ==
  \A u, v \in Seq(Commands) : Ids(u) \in Seq(Pairs) /\ Ids(u \o v) = Ids(u) \o Ids(v)
BY IdsJoin DEF Commands

\* Sequences of the commands of calls may be grouped either way.
LEMMA PairsJoin == \A u, v, w \in Seq(Pairs) : v \o w \in Seq(Pairs) /\ (u \o v) \o w = u \o (v \o w)
BY ConcatAssociative, ConcatProperties, SMTT(30)

\* The commands of call r that reached the server.
AskedOf == [r \in Calls |-> IF r \in sent THEN [i \in 1 .. size[r] |-> <<r, i>>] ELSE <<>>]

\* Collected and Asked are what they are defined to be.
LEMMA CollectedIs == ASSUME TypeOK PROVE JoinedUp(Collected, got, MaxCalls, Items)
<1>1. MaxCalls \in Nat /\ got \in [1 .. MaxCalls -> Seq(Items)]
  BY ClientAssumption DEF TypeOK, Calls
<1>2. PICK f : f = [r \in 0 .. MaxCalls |-> IF r = 0 THEN <<>> ELSE f[r - 1] \o got[r]]
  BY <1>1, JoinExists
<1>3. Collected = [r \in 0 .. MaxCalls |-> IF r = 0 THEN <<>> ELSE Collected[r - 1] \o got[r]]
  BY <1>2 DEF Collected
<1>. QED  BY <1>1, <1>3, JoinDef

\* Asked joins what the calls asked, in the order of the calls.
LEMMA AskedIs == ASSUME TypeOK PROVE JoinedUp(Asked, AskedOf, MaxCalls, Pairs)
<1>1. MaxCalls \in Nat /\ AskedOf \in [1 .. MaxCalls -> Seq(Pairs)]
  <2>1. \A r \in Calls : [i \in 1 .. size[r] |-> <<r, i>>] \in Seq(Pairs)
    <3>. SUFFICES ASSUME NEW r \in Calls PROVE [i \in 1 .. size[r] |-> <<r, i>>] \in Seq(Pairs)
      OBVIOUS
    <3>1. size[r] \in Nat /\ r \in Nat
      BY ClientAssumption DEF TypeOK, Calls
    <3>2. [i \in 1 .. size[r] |-> <<r, i>>] \in [1 .. size[r] -> Pairs]
      BY <3>1 DEF Pairs
    <3>. QED  BY <3>1, <3>2
  <2>2. <<>> \in Seq(Pairs)
    OBVIOUS
  <2>. QED  BY <2>1, <2>2, ClientAssumption DEF AskedOf, Calls
<1>2. \A r \in 0 .. MaxCalls : r # 0 => AskedOf[r] = IF r \in sent THEN [i \in 1 .. size[r] |-> <<r, i>>] ELSE <<>>
  BY ClientAssumption DEF AskedOf, Calls
<1>3. PICK f : f = [r \in 0 .. MaxCalls |-> IF r = 0 THEN <<>> ELSE f[r - 1] \o AskedOf[r]]
  BY <1>1, JoinExists
<1>4. f = [r \in 0 .. MaxCalls |->
             IF r = 0 THEN <<>>
             ELSE f[r - 1] \o IF r \in sent THEN [i \in 1 .. size[r] |-> <<r, i>>] ELSE <<>>]
  BY <1>2, <1>3
<1>5. Asked = [r \in 0 .. MaxCalls |->
                 IF r = 0 THEN <<>>
                 ELSE Asked[r - 1] \o IF r \in sent THEN [i \in 1 .. size[r] |-> <<r, i>>] ELSE <<>>]
  BY <1>4 DEF Asked
<1>6. Asked = [r \in 0 .. MaxCalls |-> IF r = 0 THEN <<>> ELSE Asked[r - 1] \o AskedOf[r]]
  BY <1>2, <1>5
<1>. QED  BY <1>1, <1>6, JoinDef

\* So they are after a step.
LEMMA JoinsNext ==
  TypeOK' => JoinedUp(Collected', got', MaxCalls, Items) /\ JoinedUp(Asked', AskedOf', MaxCalls, Pairs)
<1>. DEFINE J == JoinedUp(Collected, got, MaxCalls, Items) /\ JoinedUp(Asked, AskedOf, MaxCalls, Pairs)
<1>1. TypeOK => J
  BY CollectedIs, AskedIs
<1>. HIDE DEF J
<1>2. TypeOK' => J'
  BY <1>1, PTL
<1>. QED  BY <1>2 DEF J

\* What has been read, is under way and is still to be answered.
Back == Kept(Collected[MaxCalls], NoEvents)
Told == (Ids(Back) \o Ids(Answers)) \o Ids(toServer)

\* What was read, is under way and will be answered are sequences of commands.
LEMMA ToldType ==
  ASSUME TypeOK
  PROVE  /\ Collected[MaxCalls] \in Seq(Items) /\ Asked[MaxCalls] \in Seq(Pairs) /\ Back \in Seq(Items)
         /\ Ids(Back) \in Seq(Pairs) /\ Ids(Answers) \in Seq(Pairs) /\ Ids(toServer) \in Seq(Pairs)
         /\ Told \in Seq(Pairs)
<1>1. Collected[MaxCalls] \in Seq(Items) /\ Asked[MaxCalls] \in Seq(Pairs)
  BY CollectedIs, AskedIs, ClientAssumption DEF JoinedUp
<1>2. Back \in Seq(Items) /\ Answers \in Seq(Items) /\ toServer \in Seq(Commands)
  BY <1>1, PipeType, KeptType DEF Back
<1>3. Ids(Back) \in Seq(Pairs) /\ Ids(Answers) \in Seq(Pairs) /\ Ids(toServer) \in Seq(Pairs)
  BY <1>2, ItemIds, CommandIds
<1>4. \A u, v, w \in Seq(Pairs) : (u \o v) \o w \in Seq(Pairs)
  BY ConcatProperties
<1>. QED  BY <1>1, <1>2, <1>3, <1>4 DEF Told

\* What is under way is of its type after a step too.
LEMMA ToldTypeNext ==
  TypeOK' => /\ Pipe' \in Seq(Items) /\ Answers' \in Seq(Items) /\ toServer' \in Seq(Commands)
             /\ Ids(Answers') \in Seq(Pairs) /\ Ids(toServer') \in Seq(Pairs)
<1>. DEFINE J == /\ Pipe \in Seq(Items) /\ Answers \in Seq(Items) /\ toServer \in Seq(Commands)
                 /\ Ids(Answers) \in Seq(Pairs) /\ Ids(toServer) \in Seq(Pairs)
<1>1. TypeOK => J
  BY PipeType, ToldType
<1>. HIDE DEF J
<1>2. TypeOK' => J'
  BY <1>1, PTL
<1>. QED  BY <1>2 DEF J

\* Told is what the lines answer that were read, are buffered or under way, then the
\* commands without an answer.
LEMMA ToldIs ==
  ASSUME TypeOK
  PROVE  Told = Ids(Kept(Collected[MaxCalls] \o buf \o toClient, NoEvents)) \o Ids(toServer)
<1>. DEFINE c == Collected[MaxCalls]
<1>1. c \in Seq(Items)
  BY ToldType
<1>2. buf \in Seq(Items)
  BY PipeType
<1>3. toClient \in Seq(Items)
  BY PipeType
<1>4. Pipe \in Seq(Items) /\ Back \in Seq(Items) /\ Answers \in Seq(Items)
  BY PipeType, ToldType
<1>. HIDE DEF c
<1>5. (c \o buf) \o toClient = c \o Pipe
  <2>1. Grouped(c, buf, toClient)
    BY ONLY <1>1, <1>2, <1>3, ItemsGroup
  <2>. QED  BY <2>1 DEF Grouped, Pipe
<1>6. Kept(c \o Pipe, NoEvents) = Kept(c, NoEvents) \o Kept(Pipe, NoEvents)
  BY <1>1, <1>4, KeptJoin
<1>7. Ids(Back \o Answers) = Ids(Back) \o Ids(Answers)
  BY <1>4, ItemIds
<1>. QED  BY <1>5, <1>6, <1>7 DEF Told, Back, Answers, c

\* Four sequences of commands, one after the other.
Joins(b, a, i, t) == (b \o (a \o i)) \o t = (b \o a) \o (i \o t)

\* The four sequences may be grouped so that one moves on to the next.
LEMMA PairsMove == \A b, a, i, t \in Seq(Pairs) : Joins(b, a, i, t)
<1>. SUFFICES ASSUME NEW b \in Seq(Pairs), NEW a \in Seq(Pairs), NEW i \in Seq(Pairs), NEW t \in Seq(Pairs)
              PROVE  Joins(b, a, i, t)
  OBVIOUS
<1>1. (b \o a) \o i = b \o (a \o i)
  BY PairsJoin, SMTT(30)
<1>. DEFINE d == b \o a
<1>2. d \in Seq(Pairs)
  BY PairsJoin
<1>. HIDE DEF d
<1>3. (d \o i) \o t = d \o (i \o t)
  BY <1>2, PairsJoin, SMTT(30)
<1>. QED  BY <1>1, <1>3 DEF Joins, d

\* An answer is read.
LEMMA TakenTold ==
  ASSUME TypeOK, TypeOK', Made, cur \in Calls, NEW x \in Items, ~IsEvent(x), First(x, Pipe, Pipe'),
         got' = [got EXCEPT ![cur] = Append(@, x)], UNCHANGED <<toServer, size, sent>>
  PROVE  Told' = Told /\ Asked' = Asked
<1>. DEFINE h == <<x>>
            i == Ids(h)
<1>1. h \in Seq(Items)
  OBVIOUS
<1>2. got \in [Calls -> Seq(Items)] /\ Calls = 1 .. MaxCalls /\ MaxCalls \in Nat
  BY ClientAssumption DEF TypeOK, Calls
<1>3. got'[cur] = got[cur] \o h
  BY <1>2, AppendIsConcat
<1>4. \A r \in Calls : /\ r < cur => got'[r] = got[r]
                       /\ r > cur => Len(got'[r]) = 0 /\ Len(got[r]) = 0
  <2>1. \A e : e = <<>> => Len(e) = 0
    OBVIOUS
  <2>2. \A r \in Calls : r # cur => got'[r] = got[r]
    BY <1>2
  <2>. QED  BY <1>2, <2>1, <2>2 DEF Made
<1>. HIDE DEF h
<1>5. Collected'[MaxCalls] = Collected[MaxCalls] \o h
  <2>1. PICK c \in 1 .. MaxCalls : c = cur
    BY <1>2
  <2>. DEFINE n == MaxCalls
              k == Collected'
              d == got'
  <2>2. n \in Nat /\ JoinedUp(Collected, got, n, Items) /\ JoinedUp(k, d, n, Items)
    BY <1>2, CollectedIs, JoinsNext
  <2>3. Lengthened(got, d, n, c, h)
    BY <1>2, <1>3, <1>4, <2>1 DEF Lengthened
  <2>. HIDE DEF n, k, d
  <2>6. k[n] = Collected[n] \o h
    BY ONLY <1>1, <2>2, <2>3, JoinLonger
  <2>. QED  BY <2>6 DEF n, k
<1>6. Kept(h, NoEvents) = h
  BY KeptOne DEF h, NoEvents
<1>7. Collected[MaxCalls] \in Seq(Items) /\ Pipe' \in Seq(Items) /\ Back \in Seq(Items) /\ Answers' \in Seq(Items)
  BY ToldType, ToldTypeNext
<1>8. Back' = Back \o h
  <2>. DEFINE c == Collected[MaxCalls]
  <2>1. c \in Seq(Items)
    BY <1>7
  <2>. HIDE DEF c
  <2>2. Kept(c \o h, NoEvents) = Kept(c, NoEvents) \o Kept(h, NoEvents)
    BY ONLY <1>1, <2>1, KeptJoin
  <2>. QED  BY <1>5, <1>6, <2>2 DEF Back, c
<1>9. Answers = h \o Answers'
  <2>1. Pipe = h \o Pipe'
    BY DEF First, h
  <2>. DEFINE p == Pipe'
  <2>2. p \in Seq(Items)
    BY <1>7
  <2>. HIDE DEF p
  <2>3. Kept(h \o p, NoEvents) = Kept(h, NoEvents) \o Kept(p, NoEvents)
    BY ONLY <1>1, <2>2, KeptJoin
  <2>. QED  BY <1>6, <2>1, <2>3 DEF Answers, p
<1>10. Ids(Back') = Ids(Back) \o i /\ Ids(Answers) = i \o Ids(Answers') /\ i \in Seq(Pairs)
  BY <1>1, <1>7, <1>8, <1>9, ItemIds
<1>11. Ids(Back) \in Seq(Pairs)
  BY ToldType
<1>12. i \in Seq(Pairs)
  BY <1>10
<1>13. Ids(Answers') \in Seq(Pairs)
  BY <1>7, ItemIds
<1>. HIDE DEF i
<1>14. (Ids(Back) \o i) \o Ids(Answers') = Ids(Back) \o (i \o Ids(Answers'))
  BY ONLY <1>11, <1>12, <1>13, PairsJoin
<1>15. Told' = Told
  BY <1>10, <1>14 DEF Told
<1>. QED  BY <1>15 DEF Asked

\* An answer is sent.
LEMMA ServedTold ==
  ASSUME TypeOK, TypeOK', NEW x \in Items, NEW cmd \in Commands, x.of = cmd.of, x.num = cmd.num,
         Answers' = Append(Answers, x), toServer = <<cmd>> \o toServer', UNCHANGED <<got, size, sent>>
  PROVE  Told' = Told /\ Asked' = Asked
<1>. DEFINE h == <<x>>
            d == <<cmd>>
            i == Ids(h)
<1>1. h \in Seq(Items) /\ d \in Seq(Commands)
  OBVIOUS
<1>2. Ids(d) = i
  <2>1. Len(h) = 1 /\ h[1] = x /\ Len(d) = 1 /\ d[1] = cmd
    OBVIOUS
  <2>. HIDE DEF h, d
  <2>2. Ids(h) = [j \in 1 .. 1 |-> <<x.of, x.num>>]
    BY <2>1 DEF Ids
  <2>3. Ids(d) = [j \in 1 .. 1 |-> <<cmd.of, cmd.num>>]
    BY <2>1 DEF Ids
  <2>. QED  BY <2>2, <2>3
<1>3. Answers \in Seq(Items) /\ toServer' \in Seq(Commands) /\ Answers' = Answers \o h
  BY PipeType, ToldTypeNext, AppendIsConcat
<1>4. toServer = d \o toServer'
  OBVIOUS
<1>. HIDE DEF h, d
<1>5. Ids(Answers') = Ids(Answers) \o i /\ Ids(toServer) = i \o Ids(toServer')
  BY <1>1, <1>2, <1>3, <1>4, ItemIds, CommandIds
<1>6. Ids(Back) \in Seq(Pairs)
  BY ToldType
<1>7. Ids(Answers) \in Seq(Pairs)
  BY ToldType
<1>8. i \in Seq(Pairs)
  BY <1>1, ItemIds
<1>9. Ids(toServer') \in Seq(Pairs)
  BY <1>3, CommandIds
<1>10. Back' = Back
  BY DEF Back, Collected
<1>. HIDE DEF i
<1>11. Joins(Ids(Back), Ids(Answers), i, Ids(toServer'))
  BY ONLY <1>6, <1>7, <1>8, <1>9, PairsMove
<1>12. Told' = Told
  BY <1>5, <1>10, <1>11 DEF Told, Joins
<1>. QED  BY <1>12 DEF Asked

\* A call is made.
LEMMA BegunTold ==
  ASSUME TypeOK, TypeOK', Made, NEW k, NEW n \in 1 .. MaxBatch, NEW s, NEW w, Begin(k, n, s, w),
         w = Written(k, n) \/ w = <<>>, UNCHANGED <<buf, toClient>>, Told = Asked[MaxCalls]
  PROVE  Told' = Asked'[MaxCalls]
<1>1. PICK c \in Nat : c = cur + 1
  BY ClientAssumption DEF TypeOK
<1>2. c \in Calls /\ Calls = 1 .. MaxCalls /\ MaxCalls \in Nat /\ n \in Nat /\ n > 0
  BY <1>1, ClientAssumption DEF TypeOK, Begin, Calls
<1>3. /\ toServer' = toServer \o w /\ got' = got /\ size' = [size EXCEPT ![c] = n]
      /\ sent' = IF w = <<>> THEN sent ELSE sent \cup {c}
  BY <1>1 DEF Begin
<1>4. w \in Seq(Commands) /\ Ids(w) = IF w = <<>> THEN <<>> ELSE [i \in 1 .. n |-> <<c, i>>]
  <2>1. CASE w = Written(k, n)
    <3>1. w = [i \in 1 .. n |-> [of |-> c, num |-> i, binary |-> (k = "matmul")]]
      BY <1>1, <2>1 DEF Written
    <3>2. w \in Seq(Commands)
      BY <2>1, WrittenType
    <3>3. Len(w) = n /\ \A i \in 1 .. n : w[i].of = c /\ w[i].num = i
      BY <1>2, <3>1
    <3>4. Ids(w) = [i \in 1 .. n |-> <<c, i>>]
      BY <3>3 DEF Ids
    <3>5. w # <<>>
      <4>1. \A e : e = <<>> => Len(e) = 0
        OBVIOUS
      <4>. QED  BY <1>2, <3>3, <4>1
    <3>. QED  BY <3>2, <3>4, <3>5
  <2>2. CASE w = <<>>
    <3>1. w \in Seq(Commands) /\ Len(w) = 0
      BY <2>2
    <3>2. Ids(w) = <<>>
      <4>1. Ids(w) \in Seq(Pairs) /\ Len(Ids(w)) = 0
        BY <3>1, CommandIds DEF Ids
      <4>. QED  BY <4>1, EmptySeq
    <3>. QED  BY <2>2, <3>1, <3>2
  <2>. QED  BY <2>1, <2>2
<1>5. /\ AskedOf'[c] = AskedOf[c] \o Ids(w)
      /\ \A r \in Calls : /\ r < c => AskedOf'[r] = AskedOf[r]
                          /\ r > c => Len(AskedOf'[r]) = 0 /\ Len(AskedOf[r]) = 0
  <2>. DEFINE e == <<>>
  <2>1. \A r \in Calls : r >= c => r \notin sent
    BY <1>1, <1>2, ClientAssumption DEF Made, TypeOK
  <2>2. \A r \in Calls : r # c => (r \in sent' <=> r \in sent) /\ size'[r] = size[r]
    BY <1>3 DEF TypeOK
  <2>3. size'[c] = n
    BY <1>2, <1>3 DEF TypeOK
  <2>4. AskedOf[c] = e
    BY <1>2, <2>1 DEF AskedOf
  <2>5. AskedOf'[c] = Ids(w)
    <3>1. CASE w = <<>>
      BY <1>2, <1>3, <1>4, <2>1, <3>1 DEF AskedOf
    <3>2. CASE w # <<>>
      BY <1>2, <1>3, <1>4, <2>3, <3>2 DEF AskedOf
    <3>. QED  BY <3>1, <3>2
  <2>6. \A r \in Calls : r < c => AskedOf'[r] = AskedOf[r]
    <3>1. \A r \in Calls : r < c => r # c
      BY <1>2
    <3>2. \A r \in Calls : r # c => AskedOf'[r] = AskedOf[r]
      BY <2>2 DEF AskedOf
    <3>. QED  BY <3>1, <3>2
  <2>7. \A r \in Calls : r > c => AskedOf'[r] = e /\ AskedOf[r] = e
    BY <1>2, <2>1, <2>2 DEF AskedOf
  <2>8. Len(e) = 0 /\ e \o Ids(w) = Ids(w)
    <3>1. Ids(w) \in Seq(Pairs)
      BY <1>4, CommandIds
    <3>. QED  BY <3>1, ConcatEmptySeq
  <2>. HIDE DEF e
  <2>. QED  BY <2>4, <2>5, <2>6, <2>7, <2>8
<1>6. Asked'[MaxCalls] = Asked[MaxCalls] \o Ids(w)
  <2>1. JoinedUp(Asked, AskedOf, MaxCalls, Pairs) /\ JoinedUp(Asked', AskedOf', MaxCalls, Pairs)
    BY AskedIs, JoinsNext
  <2>2. Ids(w) \in Seq(Pairs) /\ c \in 1 .. MaxCalls
    BY <1>2, <1>4, CommandIds
  <2>3. PICK g, d, v : g = AskedOf /\ d = AskedOf' /\ v = Ids(w)
    OBVIOUS
  <2>4. v \in Seq(Pairs)
    BY <2>2, <2>3
  <2>5. Lengthened(g, d, MaxCalls, c, v)
    BY <1>2, <1>5, <2>2, <2>3 DEF Lengthened
  <2>. DEFINE f == Asked
              h == Asked'
              m == MaxCalls
  <2>6. m \in Nat /\ JoinedUp(f, g, m, Pairs) /\ JoinedUp(h, d, m, Pairs) /\ Lengthened(g, d, m, c, v)
    BY <1>2, <2>1, <2>3, <2>5
  <2>. HIDE DEF m, f, h
  <2>7. h[m] = f[m] \o v
    BY ONLY <2>4, <2>6, JoinLonger
  <2>. QED  BY <2>3, <2>7 DEF m, f, h
<1>7. Back' = Back /\ Answers' = Answers
  BY <1>3 DEF Back, Collected, Answers, Pipe
<1>8. Ids(toServer') = Ids(toServer) \o Ids(w)
  <2>1. toServer \in Seq(Commands)
    BY PipeType
  <2>. QED  BY <1>3, <1>4, <2>1, CommandIds
<1>9. Told' = Told \o Ids(w)
  <2>. DEFINE u == Ids(Back) \o Ids(Answers)
              v == Ids(toServer)
              t == Ids(w)
  <2>1. u \in Seq(Pairs)
    BY ToldType, PairsJoin
  <2>2. v \in Seq(Pairs)
    BY ToldType
  <2>3. t \in Seq(Pairs)
    BY <1>4, CommandIds
  <2>4. Told = u \o v /\ Told' = u \o (v \o t)
    BY <1>7, <1>8 DEF Told
  <2>. HIDE DEF u, v, t
  <2>5. (u \o v) \o t = u \o (v \o t)
    BY ONLY <2>1, <2>2, <2>3, PairsJoin
  <2>. QED  BY <2>4, <2>5 DEF t
<1>. QED  BY <1>6, <1>9

\* Nothing that counts happens.
LEMMA SameTold ==
  ASSUME Answers' = Answers, UNCHANGED <<got, size, sent, toServer>>
  PROVE  Told' = Told /\ Asked' = Asked
BY DEF Told, Back, Collected, Asked

\* On the one connection there is, what was read, is under way and is still to
\* be answered is what was asked.
Counted ==
  /\ pc = "reading" => cur # 0
  /\ opened = 0 \/ (sock # 0 /\ cut = FALSE) => Told = Asked[MaxCalls]

AInv == PInv /\ Counted

\* A step that changes neither side of the count keeps it.
LEMMA CountedSame ==
  ASSUME Counted, UNCHANGED <<sock, opened, cut>>, Told' = Told, Asked' = Asked, pc' = "reading" => cur' # 0
  PROVE  Counted'
BY DEF Counted

\* A poll takes nothing but events.
LEMMA PollAnswers == ASSUME PInv, NEW n \in 1 .. MaxChunk, PollReceive(n) PROVE Answers' = Answers
<1>1. PICK k \in 0 .. Len(toClient), b \in Seq(PlainItems) : \E e \in 0 .. Len(b) :
        /\ b = buf \o SubSeq(toClient, 1, k) /\ toClient' = SubSeq(toClient, k + 1, Len(toClient))
        /\ buf' = SubSeq(b, e + 1, Len(b)) /\ \A i \in 1 .. e : IsEvent(b[i])
  BY PlainPoll
<1>2. PICK e \in 0 .. Len(b) :
        /\ b = buf \o SubSeq(toClient, 1, k) /\ toClient' = SubSeq(toClient, k + 1, Len(toClient))
        /\ buf' = SubSeq(b, e + 1, Len(b)) /\ \A i \in 1 .. e : IsEvent(b[i])
  BY <1>1
<1>. DEFINE t1 == SubSeq(toClient, 1, k)
            t2 == SubSeq(toClient, k + 1, Len(toClient))
            b1 == SubSeq(b, 1, e)
            b2 == SubSeq(b, e + 1, Len(b))
<1>3. buf \in Seq(Items) /\ toClient \in Seq(Items)
  BY PipeType DEF PInv
<1>4. buf \in Seq(Items)
  BY <1>3
<1>5. t1 \in Seq(Items)
  BY <1>3, Cut
<1>6. t2 \in Seq(Items)
  BY <1>3, Cut
<1>7. b \in Seq(Items)
  BY PlainLine
<1>8. b1 \in Seq(Items)
  BY <1>7, Cut
<1>9. b2 \in Seq(Items)
  BY <1>7, Cut
<1>10. t1 \o t2 = toClient
  BY <1>3, Cut
<1>11. b1 \o b2 = b /\ Len(b1) = e /\ \A i \in 1 .. e : b1[i] = b[i]
  BY <1>7, Cut
<1>12. b = buf \o t1 /\ buf' = b2 /\ toClient' = t2
  BY <1>2
<1>13. \A i \in 1 .. Len(b1) : b1[i] \notin NoEvents
  BY <1>2, <1>11 DEF NoEvents
<1>. HIDE DEF t1, t2, b1, b2
<1>14. Grouped(buf, t1, t2) /\ Grouped(b1, b2, t2)
  BY ONLY <1>4, <1>5, <1>6, <1>8, <1>9, ItemsGroup
<1>15. b2 \o t2 \in Seq(Items)
  BY ONLY <1>6, <1>9, ItemsJoin
<1>16. Pipe = b1 \o Pipe' /\ Pipe' \in Seq(Items)
  BY <1>10, <1>11, <1>12, <1>14, <1>15 DEF Pipe, Grouped
<1>17. Kept(b1, NoEvents) = <<>>
  BY <1>8, <1>13, KeptNone
<1>. DEFINE q == Pipe'
<1>18. q \in Seq(Items)
  BY <1>16
<1>. HIDE DEF q
<1>19. Kept(b1 \o q, NoEvents) = Kept(b1, NoEvents) \o Kept(q, NoEvents) /\ Kept(q, NoEvents) \in Seq(Items)
  BY ONLY <1>8, <1>18, KeptJoin
<1>20. Kept(b1 \o q, NoEvents) = Kept(q, NoEvents)
  BY <1>17, <1>19, ConcatEmptySeq
<1>. QED  BY <1>16, <1>20 DEF Answers, q

\* An item more is sent.
LEMMA SentAnswers ==
  ASSUME TypeOK, NEW x \in Items, toClient' = Append(toClient, x), buf' = buf
  PROVE  Answers' = IF IsEvent(x) THEN Answers ELSE Append(Answers, x)
<1>1. buf \in Seq(Items) /\ toClient \in Seq(Items) /\ Pipe \in Seq(Items)
  BY PipeType
<1>2. Pipe' = Append(Pipe, x)
  BY <1>1, PipeLonger DEF Pipe
<1>. QED  BY <1>1, <1>2, MoreAnswers DEF Answers

\* Every step keeps the count.
LEMMA CountedNext == ASSUME NoTensors, MaxConns = 1, AInv, Next PROVE Counted'
<1>1. PInv /\ PInv' /\ TypeOK /\ TypeOK' /\ Made /\ InUse /\ Counted
  BY PInvNext DEF AInv, PInv
<1>2. cur \in 0 .. MaxCalls /\ MaxCalls \in Nat /\ MaxBatch \in Nat \ {0} /\ opened \in 0 .. 1 /\ sock \in 0 .. 1 /\ cut \in BOOLEAN
  BY <1>1, ClientAssumption DEF TypeOK
<1>3. ASSUME NEW k \in CallKinds, NEW n \in 1 .. MaxBatch, Call(k, n) PROVE Counted'
  <2>1. UNCHANGED <<sock, opened, cut, buf, toClient>>
    BY <1>3 DEF Call
  <2>2. PICK s, w : Begin(k, n, s, w) /\ (w = Written(k, n) \/ w = <<>>)
    BY <1>3 DEF Call
  <2>3. cur' # 0
    BY <1>2, <2>2 DEF Begin
  <2>4. ASSUME Told = Asked[MaxCalls] PROVE Told' = Asked'[MaxCalls]
    BY <1>1, <2>1, <2>2, <2>4, BegunTold
  <2>. QED  BY <1>1, <2>1, <2>3, <2>4 DEF Counted
<1>4. CASE Connect
  <2>1. opened = 0 /\ UNCHANGED <<buf, toClient>>
    BY <1>2, <1>4 DEF Connect
  <2>2. Told = Asked[MaxCalls]
    BY <1>1, <2>1 DEF Counted
  <2>3. CASE Auth
    <3>1. Begin("send", 1, "pending", Written("send", 1)) /\ 1 \in 1 .. MaxBatch
      BY <1>2, <1>4, <2>3 DEF Connect
    <3>2. cur' # 0
      BY <1>2, <3>1 DEF Begin
    <3>3. Told' = Asked'[MaxCalls]
      BY <1>1, <2>1, <2>2, <3>1, BegunTold
    <3>. QED  BY <3>2, <3>3 DEF Counted
  <2>4. CASE ~Auth
    <3>1. pc = "idle" /\ UNCHANGED <<ledger, pc, toServer>>
      BY <1>4, <2>4 DEF Connect
    <3>2. Answers' = Answers
      BY <2>1 DEF Answers, Pipe
    <3>3. Told' = Told /\ Asked' = Asked
      BY <3>1, <3>2, SameTold DEF ledger
    <3>. QED  BY <2>2, <3>1, <3>3 DEF Counted
  <2>. QED  BY <2>3, <2>4
<1>5. CASE Close
  <2>1. opened' # 0 /\ sock' = 0 /\ pc' = "idle"
    BY <1>1, <1>5 DEF Close, InUse
  <2>. QED  BY <2>1 DEF Counted
<1>6. ASSUME NEW n \in 1 .. MaxChunk, Receive(n) PROVE Counted'
  <2>1. UNCHANGED <<sock, opened, cut, pc, got, size, sent, cur, toServer>>
    BY <1>6 DEF Receive, ledger
  <2>2. Answers' = Answers
    BY <1>1, <1>6, ReceiveStream DEF Answers, Pipe
  <2>3. Told' = Told /\ Asked' = Asked
    BY <2>1, <2>2, SameTold
  <2>. QED  BY <1>1, <2>1, <2>3, CountedSame DEF Counted
<1>7. CASE ReadLine
  <2>1. /\ pc = "reading" /\ buf # <<>> /\ Head(buf) \in PlainItems /\ buf' = Tail(buf)
        /\ \/ IsEvent(Head(buf)) /\ UNCHANGED <<pc, got>>
           \/ ~IsEvent(Head(buf)) /\ Answer(Head(buf))
        /\ UNCHANGED <<sock, opened, cur, size, sent, cut, toServer, toClient>>
    BY <1>1, <1>7, PlainRead
  <2>2. cur \in Calls /\ cur' # 0
    BY <1>1, <1>2, <2>1 DEF Counted, Calls
  <2>3. PICK x \in Items : x = Head(buf)
    BY <2>1 DEF PlainItems
  <2>4. First(x, Pipe, Pipe')
    BY <1>1, <2>1, <2>3, PipeType, PopFirst DEF Pipe
  <2>5. CASE IsEvent(x)
    <3>1. Answers' = Answers
      BY <2>4, <2>5, TakeFirst DEF Answers
    <3>2. Told' = Told /\ Asked' = Asked
      BY <2>1, <2>3, <2>5, <3>1, SameTold
    <3>. QED  BY <1>1, <2>1, <2>2, <3>2, CountedSame
  <2>6. CASE ~IsEvent(x)
    <3>1. got' = [got EXCEPT ![cur] = Append(@, x)]
      BY <2>1, <2>3, <2>6 DEF Answer
    <3>2. Told' = Told /\ Asked' = Asked
      BY <1>1, <2>1, <2>2, <2>4, <2>6, <3>1, TakenTold
    <3>. QED  BY <1>1, <2>1, <2>2, <3>2, CountedSame
  <2>. QED  BY <2>5, <2>6
<1>8. ~TakePayload
  BY <1>1 DEF TakePayload, PInv, Plain
<1>9. CASE Timeout \/ EndOfStream \/ Poll \/ PollNothing \/ PollEnd
  <2>1. pc' \in {"idle", "polling"} /\ UNCHANGED <<sock, opened, cut, buf, toClient, got, size, sent, toServer>>
    BY <1>9 DEF Timeout, EndOfStream, Poll, PollNothing, PollEnd, Return, ledger, network
  <2>2. Answers' = Answers
    BY <2>1 DEF Answers, Pipe
  <2>3. Told' = Told /\ Asked' = Asked
    BY <2>1, <2>2, SameTold
  <2>. QED  BY <1>1, <2>1, <2>3, CountedSame
<1>10. ASSUME NEW n \in 1 .. MaxChunk, PollReceive(n) PROVE Counted'
  <2>1. pc' # "reading" /\ UNCHANGED <<sock, opened, cut, got, size, sent, toServer>>
    BY <1>1, <1>10, PlainPoll
  <2>2. Answers' = Answers
    BY <1>1, <1>10, PollAnswers
  <2>3. Told' = Told /\ Asked' = Asked
    BY <2>1, <2>2, SameTold
  <2>. QED  BY <1>1, <2>1, <2>3, CountedSame
<1>11. CASE Serve
  <2>1. toServer # <<>> /\ toServer' = Tail(toServer) /\ UNCHANGED <<sock, opened, cut, pc, cur, buf, got, size, sent>>
    BY <1>11 DEF Serve, client, ledger
  <2>2. PICK cmd \in PlainCommands : cmd = Head(toServer)
    BY <1>1, <2>1, HeadTailProperties DEF PInv, Plain
  <2>3. PICK kind \in {"ok", "err"} : toClient' = Append(toClient, Item(kind, cmd.of, cmd.num))
    BY <1>11, <2>2 DEF Serve, PlainCommands
  <2>4. cmd \in Commands
    BY DEF PlainCommands
  <2>5. PICK x \in Items : x = Item(kind, cmd.of, cmd.num) /\ ~IsEvent(x) /\ x.of = cmd.of /\ x.num = cmd.num
    <3>1. \A c \in Commands : c.of \in Nat /\ c.num \in Nat
      BY DEF Commands
    <3>2. cmd.of \in Nat /\ cmd.num \in Nat
      BY <2>4, <3>1
    <3>3. Item(kind, cmd.of, cmd.num) \in Items
      BY <3>2 DEF Item, Items
    <3>4. \A o, m : /\ ~IsEvent(Item(kind, o, m))
                    /\ Item(kind, o, m).of = o /\ Item(kind, o, m).num = m
      BY DEF Item, IsEvent
    <3>. QED  BY <3>3, <3>4
  <2>6. Answers' = Append(Answers, x)
    BY <1>1, <2>1, <2>3, <2>5, SentAnswers
  <2>7. toServer = <<cmd>> \o toServer'
    BY <1>1, <2>1, <2>2, PipeType, HeadThenTail
  <2>8. Told' = Told /\ Asked' = Asked
    BY <1>1, <2>1, <2>4, <2>5, <2>6, <2>7, ServedTold
  <2>. QED  BY <1>1, <2>1, <2>8, CountedSame DEF Counted
<1>12. CASE Publish
  <2>1. /\ sock \in Conns /\ toClient' = Append(toClient, Event(sock, pushed[sock] + 1))
        /\ UNCHANGED <<sock, opened, cut, pc, cur, buf, got, size, sent, toServer>>
    BY <1>12, ClientAssumption DEF Publish, client, ledger
  <2>2. PICK x \in Items : x = Event(sock, pushed[sock] + 1) /\ IsEvent(x)
    <3>1. Event(sock, pushed[sock] + 1) \in Items
      BY <1>1, <2>1, ClientAssumption DEF TypeOK, Conns, Event, Item, Items
    <3>2. IsEvent(Event(sock, pushed[sock] + 1))
      BY DEF Event, Item, IsEvent
    <3>. QED  BY <3>1, <3>2
  <2>3. Answers' = Answers
    BY <1>1, <2>1, <2>2, SentAnswers
  <2>4. Told' = Told /\ Asked' = Asked
    BY <2>1, <2>3, SameTold
  <2>. QED  BY <1>1, <2>1, <2>4, CountedSame DEF Counted
<1>13. CASE Break
  <2>1. cut' = TRUE /\ opened' # 0 /\ UNCHANGED <<pc, cur>>
    BY <1>1, <1>13 DEF Break, client, ledger, InUse
  <2>. QED  BY <1>1, <2>1 DEF Counted
<1>. QED
  BY <1>3, <1>4, <1>5, <1>6, <1>7, <1>8, <1>9, <1>10, <1>11, <1>12, <1>13
     DEF AInv, Next, Application, Reading, SomeArrived, Peer

\* Nothing was asked at first, and nothing told.
LEMMA CountedInit == Init => AInv
<1>. SUFFICES ASSUME Init PROVE AInv
  OBVIOUS
<1>1. PInv /\ TypeOK
  BY PInvInit DEF PInv
<1>. DEFINE e == <<>>
<1>2. buf = e /\ toClient = e /\ toServer = e /\ pc = "idle" /\ sent = {} /\ \A r \in Calls : got[r] = e
  BY DEF Init
<1>3. \A s : s = e => Len(s) = 0
  OBVIOUS
<1>4. e \o e = e /\ Kept(e, NoEvents) = e /\ Ids(e) = e
  <2>1. Ids(e) \in Seq(Pairs) /\ Len(Ids(e)) = 0
    BY CommandIds DEF Ids
  <2>. QED  BY <2>1, KeptEmpty, EmptySeq
<1>5. MaxCalls \in Nat /\ Calls = 1 .. MaxCalls
  BY ClientAssumption DEF Calls
<1>6. Collected[MaxCalls] = e
  BY <1>1, <1>2, <1>3, <1>5, CollectedIs, JoinNone
<1>7. Asked[MaxCalls] = e
  <2>1. \A r \in Calls : AskedOf[r] = e
    BY <1>2 DEF AskedOf
  <2>. QED  BY <1>1, <1>3, <1>5, <2>1, AskedIs, JoinNone
<1>. HIDE DEF e
<1>8. Told = e
  BY <1>2, <1>4, <1>6 DEF Told, Back, Answers, Pipe
<1>. QED  BY <1>1, <1>2, <1>7, <1>8 DEF AInv, Counted

\* On one connection without tensor calls the answers are read in the order of
\* the commands, none skipped and none twice: calls that time out, raise or are
\* refused leave later ones exactly that many answers behind.
THEOREM AnswersAreReadInOrder == ASSUME NoTensors, MaxConns = 1 PROVE Spec => []AnswersExact
<1>1. AInv /\ [Next]_vars => AInv'
  <2>1. ASSUME AInv, UNCHANGED vars PROVE AInv'
    <3>1. PInv'
      BY <2>1, PInvSame DEF AInv
    <3>2. UNCHANGED <<sock, opened, cut, pc, cur, buf, toClient, toServer, got, size, sent>>
      BY <2>1 DEF vars, client, ledger, network
    <3>3. Answers' = Answers
      BY <3>2 DEF Answers, Pipe
    <3>4. Told' = Told /\ Asked' = Asked
      BY <3>2, <3>3, SameTold
    <3>. QED  BY <2>1, <3>1, <3>2, <3>4, CountedSame DEF AInv, Counted
  <2>2. ASSUME AInv, Next PROVE AInv'
    BY <2>2, CountedNext, PInvNext DEF AInv
  <2>. QED  BY <2>1, <2>2
<1>2. AInv => AnswersExact
  <2>. SUFFICES ASSUME AInv, sock # 0, ~cut
                PROVE Ids(Kept(Collected[MaxCalls] \o buf \o toClient, NoEvents)) \o Ids(toServer) = Asked[MaxCalls]
    BY DEF AnswersExact, Ids
  <2>1. TypeOK /\ Counted /\ cut = FALSE
    BY DEF AInv, PInv, TypeOK
  <2>. QED  BY <2>1, ToldIs DEF Counted
<1>. QED  BY CountedInit, <1>1, <1>2, PTL DEF Spec
=============================================================================
