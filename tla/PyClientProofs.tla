--------------------------- MODULE PyClientProofs ---------------------------
(***************************************************************************)
(* Theorems about PyClient for any number of calls, connections, commands  *)
(* and events, checked by TLAPS.                                           *)
(*                                                                         *)
(* EInv is the inductive invariant of EventsReachTheListener.  EventsExact *)
(* counts what was pushed on the connection in use: that a new one starts  *)
(* with nothing pushed and nothing in flight is InUse.  It concatenates    *)
(* what was heard, queued, buffered and sent: that a poll which asks the   *)
(* socket found no event queued, so that none overtakes another, is        *)
(* Unqueued.  And it takes lines to be read one by one, which is Plain and *)
(* needs NoTensors: read as text, raw bytes and the next line, be it an    *)
(* event, make one line, and a tensor call takes an event for its answer   *)
(* and raises.                                                             *)
(***************************************************************************)
EXTENDS PyClient, SequenceLemmas

\* Sequences of items, one after the other.
LEMMA ItemsJoin == \A u, v, w \in Seq(Items) : u \o v \in Seq(Items) /\ (u \o v) \o w = u \o (v \o w)
BY ConcatAssociative, ConcatProperties, SMTT(30)

\* Three sequences may be grouped either way.
Grouped(u, v, w) == (u \o v) \o w = u \o (v \o w)

\* Sequences of lines may be grouped either way.
LEMMA ItemsGroup == \A u, v, w \in Seq(Items) : Grouped(u, v, w)
BY ItemsJoin DEF Grouped

\* What moves from one of four sequences, one after the other, to the next.
Moves(h, u, v, w) == (h \o (u \o v)) \o w = (h \o u) \o (v \o w)

\* They may be grouped in any way.
LEMMA ItemsMove == \A h, u, v, w \in Seq(Items) : Moves(h, u, v, w)
<1>. SUFFICES ASSUME NEW h \in Seq(Items), NEW u \in Seq(Items), NEW v \in Seq(Items), NEW w \in Seq(Items)
              PROVE  Moves(h, u, v, w)
  OBVIOUS
<1>2. (h \o u) \o v = h \o (u \o v)
  BY ItemsJoin
<1>. DEFINE x == h \o u
<1>3. x \in Seq(Items)
  BY ItemsJoin
<1>. HIDE DEF x
<1>4. (x \o v) \o w = x \o (v \o w)
  BY <1>3, ItemsJoin
<1>. QED  BY <1>2, <1>4 DEF x, Moves

\* The events a sequence starts with: all of them, up to the first line that is none.
LEMMA LeadingAre ==
  ASSUME NEW b \in Seq(Items)
  PROVE  /\ LeadingEvents(b) \in 0 .. Len(b)
         /\ \A i \in 1 .. LeadingEvents(b) : IsEvent(b[i])
         /\ LeadingEvents(b) < Len(b) => ~IsEvent(b[LeadingEvents(b) + 1])
<1>. DEFINE n == Len(b)
            Leads(k) == /\ \A i \in 1 .. k : IsEvent(b[i])
                        /\ k < n => ~IsEvent(b[k + 1])
            T == {m \in Nat : m <= n => (\A i \in 1 .. m : IsEvent(b[i])) \/ \E k \in 0 .. n : Leads(k)}
<1>1. n \in Nat
  BY LenProperties
<1>2. 0 \in T
  OBVIOUS
<1>3. ASSUME NEW m \in Nat, m \in T PROVE m + 1 \in T
  <2>. SUFFICES ASSUME m + 1 <= n PROVE (\A i \in 1 .. m + 1 : IsEvent(b[i])) \/ \E k \in 0 .. n : Leads(k)
    OBVIOUS
  <2>1. CASE \A i \in 1 .. m : IsEvent(b[i])
    <3>1. CASE IsEvent(b[m + 1])
      <4>1. \A i \in 1 .. m + 1 : i = m + 1 \/ i \in 1 .. m
        OBVIOUS
      <4>. QED  BY <2>1, <3>1, <4>1
    <3>2. CASE ~IsEvent(b[m + 1])
      <4>1. Leads(m) /\ m \in 0 .. n
        BY <1>1, <2>1, <3>2
      <4>. QED  BY <4>1
    <3>. QED  BY <3>1, <3>2
  <2>2. CASE \E k \in 0 .. n : Leads(k)
    BY <2>2
  <2>. QED  BY <1>1, <1>3, <2>1, <2>2
<1>4. \E k \in 0 .. n : Leads(k)
  <2>. HIDE DEF T
  <2>1. Nat \subseteq T
    BY <1>2, <1>3, SetInduction
  <2>2. n \in T
    BY <1>1, <2>1
  <2>3. CASE \A i \in 1 .. n : IsEvent(b[i])
    <3>1. n \in 0 .. n /\ Leads(n)
      BY <1>1, <2>3
    <3>. QED  BY <3>1
  <2>. QED  BY <1>1, <2>2, <2>3 DEF T
<1>5. LeadingEvents(b) = CHOOSE k \in 0 .. n : Leads(k)
  BY DEF LeadingEvents
<1>. HIDE DEF Leads
<1>6. LeadingEvents(b) \in 0 .. n /\ Leads(LeadingEvents(b))
  BY <1>4, <1>5
<1>. QED  BY <1>6 DEF Leads

\* What is left of the items after a line, and after a poll, are items.
LEMMA LineType ==
  ASSUME NEW b \in Seq(Items), HasLine(b)
  PROVE  NextLine(b) \in Items /\ AfterLine(b) \in Seq(Items)
<1>1. Junk \in Items
  BY DEF Junk, Item, Items
<1>2. Len(b) \in Nat /\ Len(b) > 0 /\ b # <<>>
  BY LenProperties DEF HasLine
<1>3. Head(b) \in Items /\ Tail(b) \in Seq(Items) /\ Len(Tail(b)) = Len(b) - 1
  BY <1>2, HeadTailProperties
<1>4. ASSUME RawFirst(b) PROVE Tail(Tail(b)) \in Seq(Items)
  <2>1. Len(Tail(b)) > 0
    BY <1>2, <1>3, <1>4 DEF HasLine
  <2>2. Tail(b) # <<>>
    <3>1. \A e : Len(e) > 0 => e # <<>>
      OBVIOUS
    <3>. QED  BY ONLY <2>1, <3>1
  <2>. QED  BY <1>3, <2>2, HeadTailProperties
<1>. QED  BY <1>1, <1>3, <1>4 DEF NextLine, AfterLine

\* After a poll: the events that are heard and the rest of the buffer.
LEMMA StashType ==
  ASSUME NEW b \in Seq(Items), HasLine(b)
  PROVE  /\ SubSeq(b, 1, LeadingEvents(b)) \in Seq(Items)
         /\ Stash(b, LeadingEvents(b)) \in Seq(Items)
<1>1. LeadingEvents(b) \in 0 .. Len(b)
  BY LeadingAre
<1>2. SubSeq(b, 1, LeadingEvents(b)) \in Seq(Items) /\ SubSeq(b, LeadingEvents(b) + 1, Len(b)) \in Seq(Items)
  BY <1>1, Cut
<1>3. <<Junk>> \in Seq(Items) /\ AfterLine(b) \in Seq(Items)
  BY LineType DEF Junk, Item, Items
<1>4. <<Junk>> \o AfterLine(b) \in Seq(Items)
  BY <1>3, ConcatProperties
<1>. QED  BY <1>2, <1>4 DEF Stash

-----------------------------------------------------------------------------
(* Types.                                                                  *)

\* A call takes its number and its commands go out, or do not.
LEMMA BeginType ==
  ASSUME TypeOK, pc = "idle", NEW k \in CallKinds, NEW n \in 1 .. MaxBatch, NEW s \in {"pending", "raised"},
         NEW w \in Seq(Commands), Begin(k, n, s, w)
  PROVE  /\ pc' \in {"idle", "reading"} /\ form' \in CallKinds /\ cur' \in 0 .. MaxCalls
         /\ status' \in [Calls -> {"idle", "pending", "returned", "raised"}]
         /\ size' \in [Calls -> 0 .. MaxBatch] /\ got' \in [Calls -> Seq(Items)]
         /\ sent' \subseteq Calls /\ toServer' \in Seq(Commands)
         /\ \A r \in Calls : status'[r] = "pending" <=> (r = cur' /\ pc' \in {"reading", "payload"})
<1>1. /\ cur < MaxCalls /\ cur' = cur + 1 /\ form' = k /\ size' = [size EXCEPT ![cur + 1] = n]
      /\ status' = [status EXCEPT ![cur + 1] = s] /\ pc' = IF s = "pending" THEN "reading" ELSE "idle"
      /\ toServer' = toServer \o w /\ sent' \in {sent, sent \cup {cur + 1}} /\ got' = got
  BY DEF Begin
<1>2. cur + 1 \in Calls /\ cur \in Nat /\ MaxBatch \in Nat /\ cur' \in 0 .. MaxCalls
  BY <1>1, ClientAssumption DEF TypeOK, Calls
<1>3. toServer' \in Seq(Commands)
  BY <1>1, ConcatProperties DEF TypeOK
<1>4. \A r \in Calls : status[r] # "pending"
  BY DEF TypeOK
<1>5. \A r \in Calls : status'[r] = "pending" <=> (r = cur' /\ pc' \in {"reading", "payload"})
  BY <1>1, <1>2, <1>4 DEF TypeOK
<1>6. size' \in [Calls -> 0 .. MaxBatch] /\ sent' \subseteq Calls
  BY <1>1, <1>2, SMTT(30) DEF TypeOK
<1>. QED  BY <1>1, <1>2, <1>3, <1>5, <1>6 DEF TypeOK

\* The commands of a call.
LEMMA WrittenType ==
  ASSUME TypeOK, NEW k, NEW n \in 1 .. MaxBatch
  PROVE  Written(k, n) \in Seq(Commands) /\ Len(Written(k, n)) = n /\ Written(k, n) # <<>>
<1>1. n \in Nat /\ n > 0 /\ cur + 1 \in Nat
  BY ClientAssumption DEF TypeOK
<1>2. Written(k, n) \in [1 .. n -> Commands]
  BY <1>1 DEF Written, Commands
<1>3. \A S, f : f \in [1 .. n -> S] => f \in Seq(S)
  BY <1>1, SeqDef
<1>4. Written(k, n) \in Seq(Commands) /\ Len(Written(k, n)) = n
  BY <1>1, <1>2, <1>3, LenProperties
<1>5. \A e : e = <<>> => Len(e) = 0
  OBVIOUS
<1>. QED  BY <1>1, <1>4, <1>5

\* The latest call ends, having read what is new or nothing.
LEMMA ReturnType ==
  ASSUME TypeOK, pc \in {"reading", "payload"}, NEW s \in {"returned", "raised"}, Return(s), cur' = cur
  PROVE  /\ pc' = "idle" /\ status' \in [Calls -> {"idle", "pending", "returned", "raised"}]
         /\ \A r \in Calls : status'[r] # "pending"
BY DEF Return, TypeOK

\* Every step keeps the types.
LEMMA TypeNext == TypeOK /\ [Next]_vars => TypeOK'
<1>. SUFFICES ASSUME TypeOK, [Next]_vars PROVE TypeOK'
  OBVIOUS
<1>1. /\ toClient \in Seq(Items) /\ buf \in Seq(Items) /\ pending \in Seq(Items) /\ heard \in Seq(Items)
      /\ got \in [Calls -> Seq(Items)] /\ toServer \in Seq(Commands) /\ <<>> \in Seq(Items) /\ <<>> \in Seq(Commands)
  BY DEF TypeOK
<1>2. \A x \in Items : [got EXCEPT ![cur] = Append(@, x)] \in [Calls -> Seq(Items)]
  BY <1>1, AppendProperties
<1>3. ASSUME NEW k \in CallKinds, NEW n \in 1 .. MaxBatch, Call(k, n) PROVE TypeOK'
  <2>1. PICK s \in {"pending", "raised"}, w \in Seq(Commands) : Begin(k, n, s, w)
    BY <1>1, <1>3, WrittenType DEF Call
  <2>. QED  BY <1>3, <2>1, BeginType DEF Call, TypeOK
<1>4. CASE Connect
  <2>1. /\ pc = "idle" /\ sock' \in 0 .. MaxConns /\ opened' \in 0 .. MaxConns
        /\ UNCHANGED <<buf, pending, heard, cut, toClient, pushed>>
    BY <1>4, ClientAssumption DEF Connect, TypeOK
  <2>2. CASE Begin("send", 1, "pending", Written("send", 1))
    <3>1. 1 \in 1 .. MaxBatch /\ "send" \in CallKinds
      BY ClientAssumption DEF CallKinds
    <3>. QED  BY <2>1, <2>2, <3>1, BeginType, WrittenType DEF TypeOK
  <2>3. CASE UNCHANGED <<ledger, pc, toServer>>
    BY <2>1, <2>3 DEF TypeOK, ledger
  <2>. QED  BY <1>4, <2>2, <2>3 DEF Connect
<1>5. CASE Close
  <2>1. /\ pc = "idle" /\ sock' = 0 /\ cut' = FALSE /\ toServer' = <<>> /\ toClient' = <<>>
        /\ UNCHANGED <<opened, buf, pending, pc, form, cur, status, size, got, sent, heard, pushed>>
    BY <1>5 DEF Close, ledger
  <2>2. 0 \in 0 .. MaxConns
    BY ClientAssumption
  <2>3. toServer' \in Seq(Commands) /\ toClient' \in Seq(Items)
    BY <1>1, <2>1
  <2>. QED  BY <2>1, <2>2, <2>3 DEF TypeOK
<1>6. ASSUME NEW n \in 1 .. MaxChunk, Receive(n) PROVE TypeOK'
  <2>1. n \in 0 .. Len(toClient)
    BY <1>1, <1>6, ClientAssumption, LenProperties DEF Receive
  <2>2. buf' \in Seq(Items) /\ toClient' \in Seq(Items)
    BY <1>1, <1>6, <2>1, Cut, ConcatProperties DEF Receive
  <2>. QED  BY <1>6, <2>2 DEF Receive, TypeOK, ledger
<1>7. CASE ReadLine
  <2>. DEFINE line == NextLine(buf)
  <2>1. /\ pc = "reading" /\ line \in Items /\ buf' \in Seq(Items)
        /\ UNCHANGED <<sock, opened, form, cur, size, sent, heard, network>>
    BY <1>1, <1>7, LineType DEF ReadLine
  <2>2. Append(pending, line) \in Seq(Items)
    BY <1>1, <2>1, AppendProperties
  <2>3. /\ pending' \in {pending, Append(pending, line)}
        /\ got' \in {got, [got EXCEPT ![cur] = Append(@, line)]}
        /\ \/ Return("raised") \/ Return("returned")
           \/ pc' \in {"reading", "payload"} /\ status' = status
    BY <1>7, <2>1 DEF ReadLine, Keep, Answer
  <2>. HIDE DEF line
  <2>4. pending' \in Seq(Items) /\ got' \in [Calls -> Seq(Items)]
    BY <1>1, <1>2, <2>1, <2>2, <2>3
  <2>5. CASE Return("raised") \/ Return("returned")
    BY <2>1, <2>4, <2>5, ReturnType DEF TypeOK, network
  <2>6. CASE pc' \in {"reading", "payload"} /\ status' = status
    BY <2>1, <2>4, <2>6 DEF TypeOK, network
  <2>. QED  BY <2>3, <2>5, <2>6
<1>8. CASE TakePayload
  <2>1. /\ pc = "payload" /\ Return("returned") /\ got' = [got EXCEPT ![cur] = Append(@, Head(buf \o toClient))]
        /\ buf \o toClient # <<>> /\ buf \o toClient \in Seq(Items)
        /\ UNCHANGED <<sock, opened, pending, form, cur, size, sent, heard, cut, toServer, pushed>>
    BY <1>1, <1>8, ConcatProperties DEF TakePayload
  <2>2. Head(buf \o toClient) \in Items
    <3>. DEFINE b == buf \o toClient
    <3>1. b \in Seq(Items) /\ b # <<>>
      BY <2>1
    <3>. HIDE DEF b
    <3>2. Head(b) \in Items
      BY <3>1, HeadTailProperties
    <3>. QED  BY <3>2 DEF b
  <2>3. got' \in [Calls -> Seq(Items)]
    BY <1>2, <2>1, <2>2
  <2>4. buf' \in Seq(Items) /\ toClient' \in Seq(Items)
    <3>1. CASE buf # <<>>
      BY <1>1, <1>8, <3>1, HeadTailProperties DEF TakePayload
    <3>2. CASE buf = <<>>
      <4>1. <<>> \o toClient = toClient
        BY <1>1, ConcatEmptySeq
      <4>2. toClient # <<>> /\ toClient' = Tail(toClient) /\ buf' = buf
        BY <1>8, <2>1, <3>2, <4>1 DEF TakePayload
      <4>. QED  BY <1>1, <4>2, HeadTailProperties
    <3>. QED  BY <3>1, <3>2
  <2>. QED  BY <2>1, <2>3, <2>4, ReturnType DEF TypeOK
<1>9. CASE Timeout \/ EndOfStream
  <2>1. pc \in {"reading", "payload"} /\ Return("raised") /\ cur' = cur
    BY <1>9 DEF Timeout, EndOfStream, Starved
  <2>. QED  BY <1>9, <2>1, ReturnType DEF Timeout, EndOfStream, TypeOK, network
<1>10. CASE Poll
  <2>1. heard \o pending \in Seq(Items)
    BY <1>1, ConcatProperties
  <2>. QED  BY <1>1, <1>10, <2>1 DEF Poll, TypeOK, ledger, network
<1>11. ASSUME NEW n \in 1 .. MaxChunk, PollReceive(n) PROVE TypeOK'
  <2>. DEFINE b == buf \o SubSeq(toClient, 1, n)
  <2>1. n \in 0 .. Len(toClient) /\ pc = "polling" /\ pc' \in {"polling", "idle"}
    BY <1>1, <1>11, ClientAssumption, LenProperties DEF PollReceive
  <2>2. b \in Seq(Items) /\ toClient' \in Seq(Items)
    BY <1>1, <1>11, <2>1, Cut, ConcatProperties DEF PollReceive
  <2>3. \/ HasLine(b) /\ heard' = heard \o SubSeq(b, 1, LeadingEvents(b)) /\ buf' = Stash(b, LeadingEvents(b))
        \/ buf' = b /\ heard' = heard
    BY <1>11 DEF PollReceive
  <2>. HIDE DEF b
  <2>4. heard' \in Seq(Items) /\ buf' \in Seq(Items)
    <3>1. CASE HasLine(b) /\ heard' = heard \o SubSeq(b, 1, LeadingEvents(b)) /\ buf' = Stash(b, LeadingEvents(b))
      <4>1. SubSeq(b, 1, LeadingEvents(b)) \in Seq(Items) /\ buf' \in Seq(Items)
        BY <2>2, <3>1, StashType
      <4>. QED  BY <1>1, <3>1, <4>1, ConcatProperties
    <3>. QED  BY <1>1, <2>2, <2>3, <3>1
  <2>. QED  BY <1>11, <2>1, <2>2, <2>4 DEF PollReceive, TypeOK, ledger
<1>12. CASE PollNothing \/ PollEnd
  BY <1>12 DEF PollNothing, PollEnd, TypeOK, ledger, network
<1>13. CASE Serve
  <2>. DEFINE cmd == Head(toServer)
  <2>1. toServer # <<>> /\ toServer' = Tail(toServer) /\ UNCHANGED <<client, cut, pushed>>
    BY <1>13 DEF Serve
  <2>2. cmd \in Commands /\ Tail(toServer) \in Seq(Commands)
    BY <1>1, <2>1, HeadTailProperties
  <2>3. \A kind \in {"ok", "err", "header", "payload"} : Item(kind, cmd.of, cmd.num) \in Items
    BY <2>2 DEF Item, Items, Commands
  <2>4. toClient' \in Seq(Items)
    <3>1. \A x \in Items : Append(toClient, x) \in Seq(Items)
      BY <1>1, AppendProperties
    <3>2. \A x, y \in Items : toClient \o <<x, y>> \in Seq(Items)
      <4>. SUFFICES ASSUME NEW x \in Items, NEW y \in Items PROVE toClient \o <<x, y>> \in Seq(Items)
        OBVIOUS
      <4>1. <<x, y>> \in Seq(Items)
        OBVIOUS
      <4>. QED  BY <1>1, <4>1, ConcatProperties
    <3>. QED  BY <1>13, <2>3, <3>1, <3>2 DEF Serve
  <2>. QED  BY <2>1, <2>2, <2>4 DEF TypeOK, client, ledger
<1>14. CASE Publish
  <2>1. /\ sock \in Conns /\ pushed[sock] < MaxEvents /\ pushed' = [pushed EXCEPT ![sock] = @ + 1]
        /\ toClient' = Append(toClient, Event(sock, pushed[sock] + 1)) /\ UNCHANGED <<client, cut, toServer>>
    BY <1>14, ClientAssumption DEF Publish
  <2>2. pushed[sock] \in Nat /\ pushed[sock] + 1 \in 0 .. MaxEvents /\ sock \in Nat
    BY <2>1, ClientAssumption DEF TypeOK, Conns
  <2>3. Event(sock, pushed[sock] + 1) \in Items
    BY <2>2 DEF Event, Item, Items
  <2>4. toClient' \in Seq(Items) /\ pushed' \in [Conns -> 0 .. MaxEvents]
    BY <1>1, <2>1, <2>2, <2>3, AppendProperties DEF TypeOK
  <2>. QED  BY <2>1, <2>4 DEF TypeOK, client, ledger
<1>15. CASE Break
  <2>1. PICK n \in 0 .. Len(toClient) : toClient' = SubSeq(toClient, 1, n)
    BY <1>15 DEF Break
  <2>2. toClient' \in Seq(Items)
    BY <1>1, <2>1, Cut
  <2>. QED  BY <1>1, <1>15, <2>2 DEF Break, TypeOK, client, ledger
<1>16. CASE UNCHANGED vars
  BY <1>16 DEF vars, client, ledger, network, TypeOK
<1>. QED
  BY <1>3, <1>4, <1>5, <1>6, <1>7, <1>8, <1>9, <1>10, <1>11, <1>12, <1>13, <1>14, <1>15, <1>16
     DEF Next, Application, Reading, SomeArrived, Peer

\* The variables have their types at first.
LEMMA TypeInit == Init => TypeOK
<1>. SUFFICES ASSUME Init PROVE TypeOK
  OBVIOUS
<1>1. 0 \in 0 .. MaxConns /\ 0 \in 0 .. MaxCalls /\ 0 \in 0 .. MaxBatch /\ 0 \in 0 .. MaxEvents
  BY ClientAssumption
<1>2. /\ heard = <<>> /\ pending = <<>> /\ buf = <<>> /\ toClient = <<>> /\ toServer = <<>>
      /\ got = [r \in Calls |-> <<>>] /\ size = [r \in Calls |-> 0] /\ status = [r \in Calls |-> "idle"]
      /\ pushed = [c \in Conns |-> 0] /\ sent = {}
      /\ sock = 0 /\ opened = 0 /\ pc = "idle" /\ form = "send" /\ cur = 0 /\ cut = FALSE
  BY DEF Init
<1>3. heard \in Seq(Items) /\ pending \in Seq(Items) /\ buf \in Seq(Items) /\ toClient \in Seq(Items)
      /\ toServer \in Seq(Commands)
  BY <1>2
<1>4. got \in [Calls -> Seq(Items)]
  <2>. SUFFICES ASSUME NEW r \in Calls PROVE <<>> \in Seq(Items)
    BY <1>2
  <2>. QED  OBVIOUS
<1>5. size \in [Calls -> 0 .. MaxBatch] /\ pushed \in [Conns -> 0 .. MaxEvents]
  BY <1>1, <1>2
<1>6. form \in CallKinds
  BY <1>2 DEF CallKinds
<1>. QED  BY <1>1, <1>2, <1>3, <1>4, <1>5, <1>6 DEF TypeOK

\* The variables keep their types, and a call is pending exactly while the
\* client reads for it.
THEOREM TypeCorrect == Spec => []TypeOK
BY TypeInit, TypeNext, PTL DEF Spec

-----------------------------------------------------------------------------
(* Without tensor calls: only lines travel.                                *)

NoTensors == \A c \in Conns : "matmul" \notin Kinds[c]

PlainItems    == {x \in Items : x.kind \in {"ok", "err", "event"}}
PlainCommands == {cmd \in Commands : cmd.binary = FALSE}

\* No raw bytes are under way, asked for or waited for.
Plain ==
  /\ buf \in Seq(PlainItems) /\ toClient \in Seq(PlainItems) /\ toServer \in Seq(PlainCommands)
  /\ pc # "payload" /\ (pc = "reading" => form # "matmul")

\* The connection in use is the last that was opened, nothing is in flight
\* without one, and nothing was pushed on one that is not opened yet.
InUse ==
  /\ sock # 0 => sock = opened
  /\ sock = 0 => cut = FALSE /\ toServer = <<>> /\ toClient = <<>>
  /\ cut = TRUE => toServer = <<>>
  /\ \A c \in Conns : c > opened => pushed[c] = 0

\* Calls are made in order, and one that is not made has read nothing.
Made ==
  \A r \in Calls : /\ r > cur => got[r] = <<>> /\ r \notin sent /\ status[r] = "idle"
                   /\ r <= cur => status[r] # "idle"

PInv == TypeOK /\ Plain /\ InUse /\ Made

\* A line is the first of what is buffered.
LEMMA PlainLine ==
  ASSUME NEW b \in Seq(PlainItems)
  PROVE  /\ b \in Seq(Items) /\ (HasLine(b) <=> b # <<>>)
         /\ HasLine(b) => NextLine(b) = Head(b) /\ AfterLine(b) = Tail(b) /\ Head(b) \in PlainItems
         /\ \A k : Stash(b, k) = SubSeq(b, k + 1, Len(b))
<1>1. b \in Seq(Items)
  <2>1. PlainItems \subseteq Items
    BY DEF PlainItems
  <2>. QED  BY <2>1, SeqMonotonic
<1>2. Len(b) \in Nat /\ (Len(b) = 0 <=> b = <<>>) /\ (b # <<>> => Head(b) \in PlainItems)
  BY LenProperties, EmptySeq, HeadTailProperties
<1>3. ~RawFirst(b)
  BY <1>2 DEF RawFirst, PlainItems
<1>4. HasLine(b) <=> b # <<>>
  BY <1>2, <1>3 DEF HasLine
<1>. QED  BY <1>1, <1>2, <1>3, <1>4 DEF NextLine, AfterLine, Stash

\* What ReadLine does then.
LEMMA PlainRead ==
  ASSUME PInv, ReadLine
  PROVE  /\ pc = "reading" /\ buf # <<>> /\ Head(buf) \in PlainItems /\ buf' = Tail(buf)
         /\ \/ /\ IsEvent(Head(buf)) /\ pending' = Append(pending, Head(buf))
               /\ UNCHANGED <<pc, status, got>>
            \/ /\ ~IsEvent(Head(buf)) /\ Answer(Head(buf)) /\ pending' = pending
         /\ UNCHANGED <<sock, opened, form, cur, size, sent, heard, cut, toServer, toClient, pushed>>
<1>1. /\ pc = "reading" /\ form # "matmul" /\ HasLine(buf) /\ buf \in Seq(PlainItems)
  BY DEF ReadLine, PInv, Plain
<1>2. NextLine(buf) = Head(buf) /\ AfterLine(buf) = Tail(buf) /\ Head(buf) \in PlainItems /\ buf # <<>>
  BY <1>1, PlainLine
<1>. QED  BY <1>1, <1>2 DEF ReadLine, Keep, network

\* What PollReceive does then: the events at the head are heard.
LEMMA PlainPoll ==
  ASSUME PInv, NEW n \in 1 .. MaxChunk, PollReceive(n)
  PROVE  /\ pc = "polling" /\ pc' \in {"polling", "idle"}
         /\ \E k \in 0 .. Len(toClient), b \in Seq(PlainItems) : \E e \in 0 .. Len(b) :
              /\ b = buf \o SubSeq(toClient, 1, k) /\ toClient' = SubSeq(toClient, k + 1, Len(toClient))
              /\ heard' = heard \o SubSeq(b, 1, e) /\ buf' = SubSeq(b, e + 1, Len(b))
              /\ \A i \in 1 .. e : IsEvent(b[i])
         /\ UNCHANGED <<sock, opened, pending, form, cur, status, size, got, sent, cut, toServer, pushed>>
<1>. DEFINE b == buf \o SubSeq(toClient, 1, n)
            e == LeadingEvents(b)
<1>1. /\ pc = "polling" /\ pc' \in {"polling", "idle"} /\ n \in 0 .. Len(toClient)
      /\ toClient' = SubSeq(toClient, n + 1, Len(toClient))
      /\ \/ HasLine(b) /\ heard' = heard \o SubSeq(b, 1, e) /\ buf' = Stash(b, e)
         \/ ~HasLine(b) /\ buf' = b /\ heard' = heard
      /\ UNCHANGED <<sock, opened, pending, form, cur, status, size, got, sent, cut, toServer, pushed>>
  <2>1. Len(toClient) \in Nat /\ MaxChunk \in Nat
    BY ClientAssumption, LenProperties DEF PInv, Plain
  <2>2. n <= Len(toClient)
    BY DEF PollReceive
  <2>3. n \in 0 .. Len(toClient)
    BY <2>1, <2>2
  <2>4. /\ pc = "polling" /\ toClient' = SubSeq(toClient, n + 1, Len(toClient))
        /\ UNCHANGED <<sock, opened, pending, form, cur, status, size, got, sent, cut, toServer, pushed>>
    BY DEF PollReceive, ledger
  <2>5. \/ HasLine(b) /\ heard' = heard \o SubSeq(b, 1, e) /\ buf' = Stash(b, e) /\ pc' = "idle"
        \/ ~HasLine(b) /\ buf' = b /\ heard' = heard /\ pc' = pc
    BY DEF PollReceive
  <2>. QED  BY <2>3, <2>4, <2>5
<1>2. b \in Seq(PlainItems)
  BY <1>1, Cut, ConcatProperties DEF PInv, Plain
<1>3. heard \in Seq(Items)
  BY DEF PInv, TypeOK
<1>. HIDE DEF e
<1>4. CASE HasLine(b) /\ heard' = heard \o SubSeq(b, 1, e) /\ buf' = Stash(b, e)
  <2>. HIDE DEF b
  <2>1. b \in Seq(Items) /\ Stash(b, e) = SubSeq(b, e + 1, Len(b))
    BY <1>2, PlainLine
  <2>2. e \in 0 .. Len(b) /\ \A i \in 1 .. e : IsEvent(b[i])
    BY <2>1, LeadingAre DEF e
  <2>3. heard' = heard \o SubSeq(b, 1, e) /\ buf' = SubSeq(b, e + 1, Len(b))
    BY <1>4, <2>1
  <2>. QED  BY <1>1, <1>2, <2>2, <2>3 DEF b
<1>5. CASE ~HasLine(b) /\ buf' = b /\ heard' = heard
  <2>. HIDE DEF b
  <2>1. b = <<>> /\ Len(b) = 0
    BY <1>2, <1>5, PlainLine, EmptySeq
  <2>2. SubSeq(b, 1, 0) = <<>> /\ SubSeq(b, 0 + 1, Len(b)) = <<>>
    BY <1>2, <2>1, SubSeqEmpty
  <2>3. heard \o <<>> = heard
    BY <1>3, ConcatEmptySeq
  <2>4. 0 \in 0 .. Len(b) /\ \A i \in 1 .. 0 : IsEvent(b[i])
    BY <2>1
  <2>5. heard' = heard \o SubSeq(b, 1, 0) /\ buf' = SubSeq(b, 0 + 1, Len(b))
    BY <1>5, <2>1, <2>2, <2>3
  <2>. QED  BY <1>1, <1>2, <2>4, <2>5 DEF b
<1>. QED  BY <1>1, <1>4, <1>5

\* The next call is made: with all of its commands, with none of them, or in vain.
LEMMA BeginMade ==
  ASSUME TypeOK, Made, NEW k, NEW n, NEW s \in {"pending", "raised"}, NEW w, Begin(k, n, s, w)
  PROVE  Made'
<1>1. /\ cur' = cur + 1 /\ status' = [status EXCEPT ![cur + 1] = s] /\ sent' \in {sent, sent \cup {cur + 1}}
      /\ got' = got /\ cur \in Nat
  BY ClientAssumption DEF Begin, TypeOK
<1>2. status \in [Calls -> {"idle", "pending", "returned", "raised"}] /\ \A r \in Calls : r \in Nat
  BY DEF TypeOK, Calls
<1>. QED  BY <1>1, <1>2 DEF Made

\* The latest call reads an answer, ends, or goes on.
LEMMA GoOnMade ==
  ASSUME TypeOK, Made, pc \in {"reading", "payload"}, cur' = cur, sent' = sent,
         got' = got \/ \E x : got' = [got EXCEPT ![cur] = Append(@, x)],
         status' = status \/ Return("raised") \/ Return("returned")
  PROVE  Made'
<1>1. /\ status \in [Calls -> {"idle", "pending", "returned", "raised"}] /\ got \in [Calls -> Seq(Items)]
      /\ \A r \in Calls : r \in Nat /\ cur \in Nat
  BY ClientAssumption DEF TypeOK, Calls
<1>2. \A r \in Calls : r > cur => got'[r] = got[r] /\ status'[r] = status[r]
  BY <1>1 DEF Return
<1>3. \A r \in Calls : r <= cur => status'[r] # "idle"
  BY <1>1 DEF Return, Made
<1>. QED  BY <1>2, <1>3 DEF Made

\* Every step keeps the connection in use and the order of the calls.
LEMMA UseNext ==
  ASSUME TypeOK, InUse, Made, Next
  PROVE  InUse' /\ Made'
<1>1. /\ toClient \in Seq(Items) /\ buf \in Seq(Items) /\ toServer \in Seq(Commands)
      /\ sock \in 0 .. MaxConns /\ opened \in 0 .. MaxConns /\ MaxConns \in Nat /\ cut \in BOOLEAN
  BY ClientAssumption DEF TypeOK
<1>2. sock = 0 => Len(toClient) = 0
  <2>1. \A e : e = <<>> => Len(e) = 0
    OBVIOUS
  <2>. QED  BY <2>1 DEF InUse
<1>3. ASSUME NEW k \in CallKinds, NEW n \in 1 .. MaxBatch, Call(k, n) PROVE InUse' /\ Made'
  <2>1. UNCHANGED <<sock, opened, cut, toClient, pushed>>
    BY <1>3 DEF Call
  <2>2. toServer \o <<>> = toServer
    BY <1>1, ConcatEmptySeq
  <2>3. /\ (sock # 0 /\ cut = FALSE) \/ toServer' = toServer
        /\ \E s \in {"pending", "raised"} : \E w : Begin(k, n, s, w)
    BY <1>1, <1>3, <2>2 DEF Call, Begin
  <2>4. Made'
    BY <2>3, BeginMade
  <2>5. InUse'
    BY <1>1, <2>1, <2>3 DEF InUse
  <2>. QED  BY <2>4, <2>5
<1>4. CASE Connect
  <2>1. sock = 0 /\ sock' = opened + 1 /\ opened' = opened + 1 /\ UNCHANGED <<cut, toClient, pushed>>
    BY <1>4 DEF Connect
  <2>2. cut = FALSE
    BY <2>1 DEF InUse
  <2>3. InUse'
    BY <1>1, <2>1, <2>2 DEF InUse, Conns
  <2>4. CASE Begin("send", 1, "pending", Written("send", 1))
    BY <2>3, <2>4, BeginMade
  <2>5. CASE UNCHANGED <<ledger, pc, toServer>>
    BY <2>3, <2>5 DEF Made, ledger
  <2>. QED  BY <1>4, <2>4, <2>5 DEF Connect
<1>5. CASE Close
  BY <1>1, <1>5 DEF Close, ledger, InUse, Made
<1>6. ASSUME NEW n \in 1 .. MaxChunk, Receive(n) PROVE InUse' /\ Made'
  <2>1. sock # 0 /\ UNCHANGED <<sock, opened, pc, ledger, cut, toServer, pushed>>
    BY <1>1, <1>2, <1>6, ClientAssumption, LenProperties DEF Receive
  <2>. QED  BY <1>1, <2>1 DEF InUse, Made, ledger
<1>7. ASSUME ReadLine \/ TakePayload \/ Timeout \/ EndOfStream PROVE Made'
  <2>1. /\ pc \in {"reading", "payload"} /\ cur' = cur /\ sent' = sent
        /\ got' = got \/ \E x : got' = [got EXCEPT ![cur] = Append(@, x)]
        /\ status' = status \/ Return("raised") \/ Return("returned")
    <3>1. CASE ReadLine
      BY <3>1 DEF ReadLine, Answer
    <3>2. CASE TakePayload
      BY <3>2 DEF TakePayload
    <3>3. CASE Timeout \/ EndOfStream
      BY <3>3 DEF Timeout, EndOfStream, Starved
    <3>. QED  BY <1>7, <3>1, <3>2, <3>3
  <2>. QED  BY <2>1, GoOnMade
<1>8. ASSUME ReadLine \/ Timeout \/ EndOfStream PROVE InUse'
  BY <1>1, <1>8 DEF ReadLine, Timeout, EndOfStream, network, InUse
<1>9. ASSUME TakePayload PROVE InUse'
  <2>1. UNCHANGED <<sock, opened, cut, toServer, pushed>> /\ (buf # <<>> => toClient' = toClient)
    BY <1>9 DEF TakePayload
  <2>2. CASE buf # <<>>
    BY <1>1, <2>1, <2>2 DEF InUse
  <2>3. CASE buf = <<>>
    <3>1. <<>> \o toClient = toClient
      BY <1>1, ConcatEmptySeq
    <3>2. toClient # <<>>
      BY <1>9, <2>3, <3>1 DEF TakePayload
    <3>3. sock # 0
      BY <3>2 DEF InUse
    <3>. QED  BY <1>1, <2>1, <3>3 DEF InUse
  <2>. QED  BY <2>2, <2>3
<1>10. CASE Poll \/ PollNothing \/ PollEnd
  BY <1>1, <1>10 DEF Poll, PollNothing, PollEnd, ledger, network, InUse, Made
<1>11. ASSUME NEW n \in 1 .. MaxChunk, PollReceive(n) PROVE InUse' /\ Made'
  <2>1. sock # 0 /\ UNCHANGED <<sock, opened, ledger, cut, toServer, pushed>>
    BY <1>1, <1>2, <1>11, ClientAssumption, LenProperties DEF PollReceive
  <2>. QED  BY <1>1, <2>1 DEF InUse, Made, ledger
<1>12. CASE Serve
  <2>1. toServer # <<>> /\ cut = FALSE /\ UNCHANGED <<client, cut, pushed>>
    BY <1>1, <1>12 DEF Serve
  <2>2. sock # 0
    BY <2>1 DEF InUse
  <2>. QED  BY <1>1, <2>1, <2>2 DEF InUse, Made, client, ledger
<1>13. CASE Publish
  <2>1. /\ sock \in Conns /\ cut = FALSE /\ pushed' = [pushed EXCEPT ![sock] = @ + 1] /\ sock # 0
        /\ UNCHANGED <<client, cut, toServer>> /\ pushed \in [Conns -> 0 .. MaxEvents]
    BY <1>1, <1>13, ClientAssumption DEF Publish, Conns, TypeOK
  <2>2. sock = opened /\ \A c \in Conns : c > opened => pushed'[c] = pushed[c]
    BY <1>1, <2>1 DEF InUse, Conns
  <2>. QED  BY <1>1, <2>1, <2>2 DEF InUse, Made, client, ledger
<1>14. CASE Break
  <2>1. sock # 0 /\ cut' = TRUE /\ toServer' = <<>> /\ UNCHANGED <<client, pushed>>
    BY <1>14 DEF Break
  <2>. QED  BY <1>1, <2>1 DEF InUse, Made, client, ledger
<1>. QED
  BY <1>3, <1>4, <1>5, <1>6, <1>7, <1>8, <1>9, <1>10, <1>11, <1>12, <1>13, <1>14
     DEF Next, Application, Reading, SomeArrived, Peer

\* Every step leaves only lines under way.
LEMMA PlainNext ==
  ASSUME NoTensors, PInv, Next
  PROVE  Plain'
<1>1. /\ toClient \in Seq(PlainItems) /\ buf \in Seq(PlainItems) /\ toServer \in Seq(PlainCommands)
      /\ sock \in 0 .. MaxConns /\ opened \in 0 .. MaxConns /\ MaxConns \in Nat /\ cut \in BOOLEAN
      /\ <<>> \in Seq(PlainItems) /\ <<>> \in Seq(PlainCommands)
  BY ClientAssumption DEF PInv, Plain, TypeOK
<1>2. ASSUME NEW k, k # "matmul", NEW n \in 1 .. MaxBatch PROVE toServer \o Written(k, n) \in Seq(PlainCommands)
  <2>1. n \in Nat /\ cur + 1 \in Nat
    BY ClientAssumption DEF PInv, TypeOK
  <2>2. Written(k, n) \in [1 .. n -> PlainCommands]
    <3>1. (k = "matmul") = FALSE
      BY <1>2
    <3>2. Written(k, n) = [i \in 1 .. n |-> [of |-> cur + 1, num |-> i, binary |-> FALSE]]
      BY <3>1, Zenon DEF Written
    <3>3. \A i \in 1 .. n : [of |-> cur + 1, num |-> i, binary |-> FALSE] \in PlainCommands
      BY <2>1 DEF PlainCommands, Commands
    <3>. QED  BY <3>2, <3>3
  <2>3. \A S, f : f \in [1 .. n -> S] => f \in Seq(S)
    BY <2>1, SeqDef
  <2>4. Written(k, n) \in Seq(PlainCommands)
    BY <2>2, <2>3
  <2>. QED  BY <1>1, <2>4, ConcatProperties
<1>3. ASSUME NEW k \in CallKinds, NEW n \in 1 .. MaxBatch, Call(k, n) PROVE Plain'
  <2>1. /\ UNCHANGED <<sock, opened, buf, cut, toClient, pushed>> /\ pc = "idle"
        /\ sock # 0 => sock \in Conns /\ k # "matmul"
    BY <1>1, <1>3 DEF Call, NoTensors, Conns
  <2>2. toServer \o <<>> = toServer
    BY <1>1, ConcatEmptySeq
  <2>3. \/ sock # 0 /\ pc' = "reading" /\ form' = k /\ toServer' = toServer \o Written(k, n)
        \/ sock # 0 /\ pc' = "reading" /\ form' = k /\ toServer' = toServer
        \/ pc' = "idle" /\ toServer' = toServer
    BY <1>1, <1>3, <2>2 DEF Call, Begin
  <2>. QED  BY <1>1, <1>2, <2>1, <2>3 DEF PInv, Plain
<1>4. CASE Connect
  <2>1. pc = "idle" /\ UNCHANGED <<buf, toClient>>
    BY <1>4 DEF Connect
  <2>3. CASE Begin("send", 1, "pending", Written("send", 1))
    <3>1. toServer' \in Seq(PlainCommands) /\ pc' = "reading" /\ form' = "send"
      <4>1. 1 \in 1 .. MaxBatch
        BY ClientAssumption
      <4>. QED  BY <1>2, <2>3, <4>1 DEF Begin
    <3>. QED  BY <1>1, <2>1, <3>1 DEF PInv, Plain
  <2>4. CASE UNCHANGED <<ledger, pc, toServer>>
    BY <1>1, <2>1, <2>4 DEF PInv, Plain, ledger
  <2>. QED  BY <1>4, <2>3, <2>4 DEF Connect
<1>5. CASE Close
  <2>1. /\ pc = "idle" /\ sock' = 0 /\ cut' = FALSE /\ toServer' = <<>> /\ toClient' = <<>>
        /\ UNCHANGED <<buf, pc, form>>
    BY <1>5 DEF Close, ledger
  <2>. QED  BY <1>1, <2>1 DEF PInv, Plain
<1>6. ASSUME NEW n \in 1 .. MaxChunk, Receive(n) PROVE Plain'
  <2>1. n \in 0 .. Len(toClient)
    BY <1>1, <1>6, ClientAssumption, LenProperties DEF Receive
  <2>2. buf' \in Seq(PlainItems) /\ toClient' \in Seq(PlainItems)
    BY <1>1, <1>6, <2>1, Cut, ConcatProperties DEF Receive
  <2>. QED  BY <1>1, <1>6, <2>2 DEF Receive, PInv, Plain, ledger
<1>7. CASE ReadLine
  <2>1. /\ pc = "reading" /\ buf # <<>> /\ buf' = Tail(buf) /\ UNCHANGED <<form, toServer, toClient>>
        /\ pc' = pc \/ Answer(Head(buf))
    BY <1>7, PlainRead
  <2>2. buf' \in Seq(PlainItems)
    BY <1>1, <2>1, HeadTailProperties
  <2>3. pc' \in {"reading", "idle"}
    BY <2>1 DEF Answer, Return
  <2>. QED  BY <1>1, <2>1, <2>2, <2>3 DEF PInv, Plain
<1>8. ~TakePayload
  BY DEF TakePayload, PInv, Plain
<1>9. CASE Timeout \/ EndOfStream
  BY <1>1, <1>9 DEF Timeout, EndOfStream, Return, PInv, Plain, network
<1>10. CASE Poll \/ PollNothing \/ PollEnd
  BY <1>1, <1>10 DEF Poll, PollNothing, PollEnd, ledger, network, PInv, Plain
<1>11. ASSUME NEW n \in 1 .. MaxChunk, PollReceive(n) PROVE Plain'
  <2>1. PICK k \in 0 .. Len(toClient), b \in Seq(PlainItems) : \E e \in 0 .. Len(b) :
          toClient' = SubSeq(toClient, k + 1, Len(toClient)) /\ buf' = SubSeq(b, e + 1, Len(b))
    BY <1>11, PlainPoll
  <2>2. pc' \in {"polling", "idle"} /\ UNCHANGED <<form, toServer>>
    BY <1>11, PlainPoll
  <2>3. buf' \in Seq(PlainItems) /\ toClient' \in Seq(PlainItems)
    BY <1>1, <2>1, Cut, SMTT(30)
  <2>. QED  BY <1>1, <2>2, <2>3 DEF PInv, Plain
<1>12. CASE Serve
  <2>. DEFINE cmd == Head(toServer)
  <2>1. toServer # <<>> /\ toServer' = Tail(toServer) /\ UNCHANGED client
    BY <1>1, <1>12 DEF Serve
  <2>2. cmd \in PlainCommands /\ Tail(toServer) \in Seq(PlainCommands)
    BY <1>1, <2>1, HeadTailProperties
  <2>3. \A kind \in {"ok", "err"} : Item(kind, cmd.of, cmd.num) \in PlainItems
    BY <2>2 DEF Item, Items, PlainItems, PlainCommands, Commands
  <2>4. toClient' \in Seq(PlainItems)
    <3>1. \A x \in PlainItems : Append(toClient, x) \in Seq(PlainItems)
      BY <1>1, AppendProperties
    <3>2. cmd.binary = FALSE
      BY <2>2 DEF PlainCommands
    <3>. QED  BY <1>12, <2>3, <3>1, <3>2 DEF Serve
  <2>. QED  BY <1>1, <2>1, <2>2, <2>4 DEF PInv, Plain, client, ledger
<1>13. CASE Publish
  <2>1. /\ sock \in Conns /\ toClient' = Append(toClient, Event(sock, pushed[sock] + 1))
        /\ UNCHANGED <<client, toServer>> /\ pushed \in [Conns -> 0 .. MaxEvents] /\ MaxEvents \in Nat
    BY <1>1, <1>13, ClientAssumption DEF Publish, Conns, PInv, TypeOK
  <2>2. Event(sock, pushed[sock] + 1) \in PlainItems
    BY <1>1, <2>1 DEF Event, Item, Items, PlainItems
  <2>3. toClient' \in Seq(PlainItems)
    BY <1>1, <2>1, <2>2, AppendProperties
  <2>. QED  BY <1>1, <2>1, <2>3 DEF PInv, Plain, client, ledger
<1>14. CASE Break
  <2>1. PICK n \in 0 .. Len(toClient) : toClient' = SubSeq(toClient, 1, n)
    BY <1>14 DEF Break
  <2>2. toClient' \in Seq(PlainItems)
    BY <1>1, <2>1, Cut
  <2>3. toServer' = <<>> /\ UNCHANGED client
    BY <1>14 DEF Break
  <2>. QED  BY <1>1, <2>2, <2>3 DEF PInv, Plain, client, ledger
<1>. QED
  BY <1>3, <1>4, <1>5, <1>6, <1>7, <1>8, <1>9, <1>10, <1>11, <1>12, <1>13, <1>14
     DEF Next, Application, Reading, SomeArrived, Peer

\* The types, and all of the above, of every state.
LEMMA PInvInit == Init => PInv
<1>. SUFFICES ASSUME Init PROVE PInv
  OBVIOUS
<1>1. TypeOK
  BY TypeInit
<1>2. /\ buf = <<>> /\ toClient = <<>> /\ toServer = <<>> /\ pc = "idle" /\ sock = 0 /\ cut = FALSE /\ opened = 0
      /\ sent = {} /\ cur = 0 /\ \A c \in Conns : pushed[c] = 0
      /\ \A r \in Calls : r > 0 /\ got[r] = <<>> /\ status[r] = "idle"
  BY DEF Init, Calls
<1>3. Plain
  BY <1>2 DEF Plain
<1>4. InUse /\ Made
  BY <1>2 DEF InUse, Made, Calls
<1>. QED  BY <1>1, <1>3, <1>4 DEF PInv

\* Every step, and no step, keeps the types and the three.
LEMMA PInvNext == ASSUME NoTensors, PInv, Next PROVE PInv'
<1>1. TypeOK' /\ InUse' /\ Made'
  BY TypeNext, UseNext DEF PInv
<1>. QED  BY <1>1, PlainNext DEF PInv

\* A stutter does.
LEMMA PInvSame == ASSUME PInv, UNCHANGED vars PROVE PInv'
<1>1. TypeOK'
  BY TypeNext DEF PInv
<1>. QED  BY <1>1 DEF PInv, Plain, InUse, Made, vars, client, ledger, network

-----------------------------------------------------------------------------
(* Events.                                                                 *)

\* All that the listener heard or may yet hear, in its order.
Stream == heard \o pending \o buf \o toClient

\* The listener gets the events of c from the first on, all of them as long as
\* the connection holds.
ExactlyIn(s, c, n, all) ==
  LET e == Kept(s, EventsOf(c))
  IN /\ \A i \in 1 .. Len(e) : e[i] = Event(c, i)
     /\ Len(e) <= n
     /\ all => Len(e) = n
Exactly(c) == ExactlyIn(Stream, c, pushed[c], c = sock /\ cut = FALSE)

\* A poll that asks the socket found no event queued.
Unqueued == pc = "polling" => pending = <<>>

EInv == PInv /\ Unqueued /\ \A c \in Conns : Exactly(c)

\* The stream is one of items.
LEMMA StreamType ==
  ASSUME PInv
  PROVE  /\ heard \in Seq(Items) /\ pending \in Seq(Items) /\ buf \in Seq(Items) /\ toClient \in Seq(Items)
         /\ heard \o pending \in Seq(Items) /\ Stream \in Seq(Items)
<1>1. heard \in Seq(Items) /\ pending \in Seq(Items) /\ buf \in Seq(Items) /\ toClient \in Seq(Items)
  BY DEF PInv, TypeOK
<1>. QED  BY <1>1, ConcatProperties DEF Stream

\* What is kept of items, one after the other.
LEMMA KeptJoin ==
  \A T : \A u, v \in Seq(Items) : Kept(u \o v, T) = Kept(u, T) \o Kept(v, T) /\ Kept(u, T) \in Seq(Items)
<1>1. \A T : \A u, v \in Seq(Items) : Kept(u \o v, T) = Kept(u, T) \o Kept(v, T)
  BY KeptConcat
<1>. QED  BY <1>1, KeptType

\* What is kept of a stream that lost its end, or an item in the middle.
LEMMA KeptLess ==
  ASSUME NEW s \in Seq(Items), NEW rest \in Seq(Items), NEW T
  PROVE  /\ Len(Kept(s, T)) <= Len(Kept(s \o rest, T))
         /\ \A i \in 1 .. Len(Kept(s, T)) : i \in 1 .. Len(Kept(s \o rest, T)) /\ Kept(s, T)[i] = Kept(s \o rest, T)[i]
<1>. DEFINE a == Kept(s, T)
            b == Kept(rest, T)
<1>1. Kept(s \o rest, T) = a \o b /\ a \in Seq(Items) /\ b \in Seq(Items)
  BY KeptJoin
<1>. HIDE DEF a, b
<1>2. /\ Len(a \o b) = Len(a) + Len(b) /\ Len(a) \in Nat /\ Len(b) \in Nat
      /\ \A i \in 1 .. Len(a) + Len(b) : (a \o b)[i] = IF i <= Len(a) THEN a[i] ELSE b[i - Len(a)]
  BY <1>1, ConcatProperties, LenProperties
<1>3. \A i \in 1 .. Len(a) : i \in 1 .. Len(a) + Len(b) /\ i <= Len(a)
  BY <1>2
<1>. QED  BY <1>1, <1>2, <1>3 DEF a

\* An item that is not kept makes no difference.
LEMMA KeptWithout ==
  ASSUME NEW s \in Seq(Items), NEW x \in Items, NEW t \in Seq(Items), NEW T, x \notin T
  PROVE  Kept(s \o (<<x>> \o t), T) = Kept(s \o t, T)
<1>. DEFINE h == <<x>>
            u == h \o t
<1>1. h \in Seq(Items)
  OBVIOUS
<1>2. Kept(h, T) = <<>>
  BY KeptOne
<1>. HIDE DEF h
<1>3. u \in Seq(Items) /\ Kept(u, T) = Kept(h, T) \o Kept(t, T)
  BY ONLY t \in Seq(Items), <1>1, KeptJoin, ItemsJoin
<1>4. Kept(t, T) \in Seq(Items)
  BY KeptJoin
<1>5. <<>> \o Kept(t, T) = Kept(t, T)
  BY <1>4, ConcatEmptySeq
<1>6. Kept(u, T) = Kept(t, T)
  BY <1>2, <1>3, <1>5
<1>. HIDE DEF u
<1>7. Kept(s \o u, T) = Kept(s, T) \o Kept(u, T) /\ Kept(s \o t, T) = Kept(s, T) \o Kept(t, T)
  BY ONLY s \in Seq(Items), t \in Seq(Items), <1>3, KeptJoin
<1>. QED  BY <1>6, <1>7 DEF u, h

\* A stream that lost its end.
LEMMA StreamCut ==
  ASSUME NEW c, NEW n \in Nat, NEW all
  PROVE  \A s, rest \in Seq(Items) : ExactlyIn(s \o rest, c, n, all) => ExactlyIn(s, c, n, FALSE)
<1>. SUFFICES ASSUME NEW s \in Seq(Items), NEW rest \in Seq(Items), ExactlyIn(s \o rest, c, n, all)
              PROVE  ExactlyIn(s, c, n, FALSE)
  OBVIOUS
<1>. DEFINE T == EventsOf(c)
            e == Kept(s \o rest, T)
            d == Kept(s, T)
<1>1. Len(d) <= Len(e) /\ \A i \in 1 .. Len(d) : i \in 1 .. Len(e) /\ d[i] = e[i]
  BY KeptLess
<1>2. d \in Seq(Items) /\ e \in Seq(Items) /\ Len(d) \in Nat /\ Len(e) \in Nat
  <2>1. s \o rest \in Seq(Items)
    BY ConcatProperties
  <2>. QED  BY <2>1, KeptType, LenProperties
<1>3. (\A i \in 1 .. Len(e) : e[i] = Event(c, i)) /\ Len(e) <= n
  BY DEF ExactlyIn
<1>. HIDE DEF d, e
<1>4. (\A i \in 1 .. Len(d) : d[i] = Event(c, i)) /\ Len(d) <= n
  BY <1>1, <1>2, <1>3
<1>. QED  BY <1>4 DEF ExactlyIn, d

\* A stream that got one more item: an event that was pushed, or an answer.
LEMMA StreamLonger ==
  ASSUME NEW s \in Seq(Items), NEW x \in Items, NEW c \in Nat, NEW n \in Nat, NEW m \in Nat, NEW all \in BOOLEAN,
         ExactlyIn(s, c, n, all),
         \/ x = Event(c, n + 1) /\ m = n + 1 /\ all
         \/ x \notin EventsOf(c) /\ m = n
  PROVE  ExactlyIn(Append(s, x), c, m, all)
<1>. DEFINE d == Kept(s, EventsOf(c))
            e == Kept(Append(s, x), EventsOf(c))
<1>1. e = IF x \in EventsOf(c) THEN Append(d, x) ELSE d
  BY KeptAppend
<1>2. d \in Seq(Items) /\ Len(d) \in Nat
  BY KeptType, LenProperties
<1>3. (\A i \in 1 .. Len(d) : d[i] = Event(c, i)) /\ Len(d) <= n /\ (all => Len(d) = n)
  BY DEF ExactlyIn
<1>. HIDE DEF d
<1>4. CASE x = Event(c, n + 1) /\ m = n + 1 /\ all
  <2>1. x \in EventsOf(c)
    BY <1>4 DEF EventsOf, IsEvent, Event, Item
  <2>2. e = Append(d, x) /\ Len(d) = n
    BY <1>1, <1>3, <1>4, <2>1
  <2>. HIDE DEF e
  <2>3. Len(e) = n + 1 /\ e[n + 1] = x /\ \A i \in 1 .. n : e[i] = d[i]
    BY <1>2, <2>2, AppendProperties
  <2>4. \A i \in 1 .. n + 1 : i = n + 1 \/ i \in 1 .. n
    OBVIOUS
  <2>5. \A i \in 1 .. Len(e) : e[i] = Event(c, i)
    BY <1>3, <1>4, <2>2, <2>3, <2>4
  <2>. QED  BY <1>4, <2>3, <2>5 DEF ExactlyIn, e
<1>5. CASE x \notin EventsOf(c) /\ m = n
  BY <1>1, <1>3, <1>5 DEF ExactlyIn
<1>. QED  BY <1>4, <1>5

\* Steps that keep the stream: what arrived is buffered, an event is queued,
\* the queue is heard, the events at the head of the buffer are heard.
LEMMA ReceiveStream ==
  ASSUME PInv, NEW n \in 1 .. MaxChunk, Receive(n)
  PROVE  Stream' = Stream /\ buf' \o toClient' = buf \o toClient
<1>. DEFINE hp == heard \o pending
            t1 == SubSeq(toClient, 1, n)
            t2 == SubSeq(toClient, n + 1, Len(toClient))
<1>1. hp \in Seq(Items) /\ buf \in Seq(Items) /\ toClient \in Seq(Items)
  BY StreamType
<1>2. n <= Len(toClient) /\ buf' = buf \o t1 /\ toClient' = t2 /\ UNCHANGED <<heard, pending>>
  BY DEF Receive
<1>3. n \in 0 .. Len(toClient)
  BY <1>1, <1>2, ClientAssumption, LenProperties
<1>4. t1 \in Seq(Items) /\ t2 \in Seq(Items)
  BY <1>1, <1>3, Cut
<1>9. t1 \o t2 = toClient
  BY <1>1, <1>3, Cut
<1>5. Stream' = (hp \o (buf \o t1)) \o t2 /\ Stream = (hp \o buf) \o toClient
  BY <1>2 DEF Stream
<1>. HIDE DEF hp, t1, t2
<1>10. hp \in Seq(Items)
  BY <1>1
<1>11. buf \in Seq(Items)
  BY <1>1
<1>12. t1 \in Seq(Items)
  BY <1>4
<1>13. t2 \in Seq(Items)
  BY <1>4
<1>6. Moves(hp, buf, t1, t2)
  BY ONLY <1>10, <1>11, <1>12, <1>13, ItemsMove
<1>7. (buf \o t1) \o t2 = buf \o (t1 \o t2)
  BY ONLY <1>11, <1>12, <1>13, ItemsJoin
<1>. QED  BY <1>2, <1>5, <1>6, <1>7, <1>9 DEF Moves

\* An event read by a call moves to the queue.
LEMMA KeepStream ==
  ASSUME PInv, buf # <<>>, pending' = Append(pending, Head(buf)), buf' = Tail(buf), UNCHANGED <<heard, toClient>>
  PROVE  Stream' = Stream
<1>1. heard \in Seq(Items) /\ pending \in Seq(Items) /\ buf \in Seq(Items)
  BY StreamType
<1>2. pending' \in Seq(Items) /\ buf' \in Seq(Items)
  BY <1>1, HeadTailProperties, AppendProperties
<1>5. pending' \o buf' = pending \o buf
  BY <1>1, MoveHead
<1>3. (heard \o pending') \o buf' = heard \o (pending' \o buf')
  BY ONLY <1>1, <1>2, ItemsJoin, SMTT(30)
<1>4. (heard \o pending) \o buf = heard \o (pending \o buf)
  BY ONLY <1>1, ItemsJoin
<1>. QED  BY <1>3, <1>4, <1>5 DEF Stream

\* The queue is heard.
LEMMA PollStream ==
  ASSUME PInv, heard' = heard \o pending, pending' = <<>>, UNCHANGED <<buf, toClient>>
  PROVE  Stream' = Stream
<1>1. (heard \o pending) \o <<>> = heard \o pending
  BY StreamType, ConcatEmptySeq
<1>. QED  BY <1>1 DEF Stream

\* What arrives is buffered and the events at its head are heard.
LEMMA HearStream ==
  ASSUME PInv, Len(pending) = 0, pending' = pending,
         NEW k \in 0 .. Len(toClient), NEW b \in Seq(PlainItems), NEW e \in 0 .. Len(b),
         b = buf \o SubSeq(toClient, 1, k), toClient' = SubSeq(toClient, k + 1, Len(toClient)),
         heard' = heard \o SubSeq(b, 1, e), buf' = SubSeq(b, e + 1, Len(b))
  PROVE  Stream' = Stream
<1>. DEFINE t1 == SubSeq(toClient, 1, k)
            t2 == SubSeq(toClient, k + 1, Len(toClient))
            b1 == SubSeq(b, 1, e)
            b2 == SubSeq(b, e + 1, Len(b))
<1>1. heard \in Seq(Items) /\ pending \in Seq(Items) /\ buf \in Seq(Items) /\ toClient \in Seq(Items)
  BY StreamType
<1>2. b \in Seq(Items)
  BY PlainLine
<1>3. t1 \in Seq(Items) /\ t2 \in Seq(Items)
  BY ONLY <1>1, k \in 0 .. Len(toClient), Cut
<1>4. b1 \in Seq(Items) /\ b2 \in Seq(Items)
  BY ONLY <1>2, e \in 0 .. Len(b), Cut
<1>5. t1 \o t2 = toClient
  BY ONLY <1>1, k \in 0 .. Len(toClient), Cut
<1>12. b1 \o b2 = b
  BY ONLY <1>2, e \in 0 .. Len(b), Cut
<1>6. b = buf \o t1 /\ heard' = heard \o b1 /\ buf' = b2 /\ toClient' = t2
  OBVIOUS
<1>. HIDE DEF t1, t2, b1, b2
<1>7. heard \o pending = heard /\ heard' \o pending' = heard'
  <2>1. pending = <<>>
    BY <1>1, EmptySeq
  <2>2. heard \o b1 \in Seq(Items)
    BY ONLY <1>1, <1>4, ItemsJoin
  <2>3. \A h \in Seq(Items) : h \o <<>> = h
    BY ConcatEmptySeq
  <2>. QED  BY <1>1, <1>6, <2>1, <2>2, <2>3
<1>13. heard \in Seq(Items)
  BY <1>1
<1>14. buf \in Seq(Items)
  BY <1>1
<1>15. t1 \in Seq(Items)
  BY <1>3
<1>16. t2 \in Seq(Items)
  BY <1>3
<1>17. b1 \in Seq(Items)
  BY <1>4
<1>18. b2 \in Seq(Items)
  BY <1>4
<1>8. (heard \o b1) \o b2 = heard \o (b1 \o b2)
  BY ONLY <1>13, <1>17, <1>18, ItemsJoin, SMTT(30)
<1>9. Moves(heard, buf, t1, t2)
  BY ONLY <1>13, <1>14, <1>15, <1>16, ItemsMove
<1>11. (heard' \o buf') \o toClient' = (heard \o buf) \o toClient
  BY ONLY <1>5, <1>6, <1>8, <1>9, <1>12 DEF Moves
<1>. QED  BY <1>7, <1>11 DEF Stream

\* An answer that is read leaves the stream.
LEMMA AnswerStream ==
  ASSUME PInv, buf # <<>>, ~IsEvent(Head(buf)), buf' = Tail(buf), UNCHANGED <<heard, pending, toClient>>
  PROVE  \A c \in Conns : Kept(Stream', EventsOf(c)) = Kept(Stream, EventsOf(c))
<1>. DEFINE hp == heard \o pending
            x  == Head(buf)
            t  == Tail(buf)
<1>1. hp \in Seq(Items) /\ buf \in Seq(Items) /\ toClient \in Seq(Items)
  BY StreamType
<1>2. x \in Items /\ t \in Seq(Items) /\ buf = <<x>> \o t /\ <<x>> \in Seq(Items)
  BY <1>1, HeadTailProperties, HeadThenTail
<1>3. Stream = (hp \o (<<x>> \o t)) \o toClient /\ Stream' = (hp \o t) \o toClient
  BY <1>2 DEF Stream
<1>4. \A c : x \notin EventsOf(c)
  BY DEF EventsOf
<1>. HIDE DEF hp, x, t
<1>. SUFFICES ASSUME NEW c \in Conns PROVE Kept(Stream', EventsOf(c)) = Kept(Stream, EventsOf(c))
  OBVIOUS
<1>5. Kept(hp \o (<<x>> \o t), EventsOf(c)) = Kept(hp \o t, EventsOf(c))
  BY <1>1, <1>2, <1>4, KeptWithout
<1>. DEFINE u == hp \o (<<x>> \o t)
            v == hp \o t
<1>6. u \in Seq(Items) /\ v \in Seq(Items)
  <2>. DEFINE w == <<x>> \o t
  <2>1. w \in Seq(Items)
    BY <1>2, ItemsJoin
  <2>. HIDE DEF w
  <2>2. hp \o w \in Seq(Items) /\ hp \o t \in Seq(Items)
    BY <1>1, <1>2, <2>1, ItemsJoin
  <2>. QED  BY <2>2 DEF w
<1>7. Kept(u, EventsOf(c)) = Kept(v, EventsOf(c))
  BY <1>5
<1>. HIDE DEF u, v
<1>8. Kept(u \o toClient, EventsOf(c)) = Kept(v \o toClient, EventsOf(c))
  <2>1. /\ Kept(u \o toClient, EventsOf(c)) = Kept(u, EventsOf(c)) \o Kept(toClient, EventsOf(c))
        /\ Kept(v \o toClient, EventsOf(c)) = Kept(v, EventsOf(c)) \o Kept(toClient, EventsOf(c))
    BY <1>1, <1>6, KeptJoin
  <2>. QED  BY <1>7, <2>1
<1>. QED  BY <1>3, <1>8 DEF u, v

\* What is in flight is lost from some point on.
LEMMA CutStream ==
  ASSUME PInv, NEW k \in 0 .. Len(toClient), toClient' = SubSeq(toClient, 1, k), UNCHANGED <<heard, pending, buf>>
  PROVE  /\ Stream' \in Seq(Items)
         /\ SubSeq(toClient, k + 1, Len(toClient)) \in Seq(Items)
         /\ Stream = Stream' \o SubSeq(toClient, k + 1, Len(toClient))
<1>. DEFINE s  == (heard \o pending) \o buf
            t1 == SubSeq(toClient, 1, k)
            t2 == SubSeq(toClient, k + 1, Len(toClient))
<1>1. s \in Seq(Items) /\ toClient \in Seq(Items)
  BY StreamType, ItemsJoin
<1>2. t1 \in Seq(Items) /\ t2 \in Seq(Items)
  BY <1>1, Cut
<1>3. t1 \o t2 = toClient
  BY <1>1, Cut
<1>4. Stream' = s \o t1 /\ Stream = s \o toClient
  BY DEF Stream
<1>. HIDE DEF s, t1, t2
<1>5. s \o t1 \in Seq(Items) /\ (s \o t1) \o t2 = s \o (t1 \o t2)
  BY ONLY <1>1, <1>2, ItemsJoin
<1>. QED  BY <1>2, <1>3, <1>4, <1>5 DEF t2

\* An item comes at the end.
LEMMA LongerStream ==
  ASSUME PInv, NEW x \in Items, toClient' = Append(toClient, x), UNCHANGED <<heard, pending, buf>>
  PROVE  Stream' = Append(Stream, x)
<1>. DEFINE s == (heard \o pending) \o buf
            h == <<x>>
<1>1. s \in Seq(Items) /\ toClient \in Seq(Items) /\ h \in Seq(Items)
  BY StreamType, ItemsJoin
<1>2. Append(toClient, x) = toClient \o h /\ s \o toClient \in Seq(Items)
  BY <1>1, AppendIsConcat, ItemsJoin
<1>3. Append(s \o toClient, x) = (s \o toClient) \o h
  <2>. DEFINE v == s \o toClient
  <2>1. v \in Seq(Items)
    BY <1>2
  <2>. HIDE DEF v
  <2>2. Append(v, x) = v \o h
    BY <2>1, AppendIsConcat
  <2>. QED  BY <2>2 DEF v
<1>. HIDE DEF h
<1>4. (s \o toClient) \o h = s \o (toClient \o h)
  <2>. HIDE DEF s
  <2>. QED  BY <1>1, ItemsJoin
<1>. QED  BY <1>2, <1>3, <1>4 DEF Stream

\* No step lets a poll ask the socket with events still queued.
LEMMA UnqueuedNext == ASSUME NoTensors, PInv, Unqueued, Next PROVE Unqueued'
<1>1. ASSUME NEW k \in CallKinds, NEW n \in 1 .. MaxBatch, Call(k, n) PROVE pc' # "polling"
  BY <1>1 DEF Call, Begin
<1>2. Connect => pc' # "polling"
  BY DEF Connect, Begin
<1>3. Close => pc' # "polling"
  BY DEF Close
<1>4. ASSUME NEW n \in 1 .. MaxChunk, Receive(n) PROVE pc' # "polling"
  BY <1>4 DEF Receive
<1>5. ReadLine => pc' # "polling"
  <2>1. ASSUME ReadLine PROVE pc = "reading" /\ (pc' = pc \/ Answer(Head(buf)))
    BY <2>1, PlainRead
  <2>. QED  BY <2>1 DEF Answer, Return
<1>6. ~TakePayload
  BY DEF TakePayload, PInv, Plain
<1>7. Timeout \/ EndOfStream \/ PollNothing \/ PollEnd => pc' # "polling"
  BY DEF Timeout, EndOfStream, Return, PollNothing, PollEnd
<1>8. Poll => Unqueued'
  BY DEF Poll, Unqueued
<1>9. ASSUME NEW n \in 1 .. MaxChunk, PollReceive(n) PROVE pc = "polling" /\ pending' = pending
  BY <1>9 DEF PollReceive
<1>10. Peer => pc' = pc /\ pending' = pending
  BY DEF Peer, Serve, Publish, Break, client
<1>. QED
  BY <1>1, <1>2, <1>3, <1>4, <1>5, <1>6, <1>7, <1>8, <1>9, <1>10
     DEF Next, Application, Reading, SomeArrived, Unqueued

\* The steps that leave the events alone.
LEMMA EventsStay ==
  ASSUME PInv, \A c \in Conns : Exactly(c), UNCHANGED <<sock, cut, pushed>>,
         \/ Stream' = Stream
         \/ \A c \in Conns : Kept(Stream', EventsOf(c)) = Kept(Stream, EventsOf(c))
  PROVE  \A c \in Conns : Exactly(c)'
BY DEF Exactly, ExactlyIn

\* The steps on which the connection in use breaks or is closed.
LEMMA EventsLost ==
  ASSUME PInv, \A c \in Conns : Exactly(c), UNCHANGED <<heard, pending, buf, pushed>>,
         NEW k \in 0 .. Len(toClient), toClient' = SubSeq(toClient, 1, k), sock' = 0 \/ cut' = TRUE
  PROVE  \A c \in Conns : Exactly(c)'
<1>1. /\ Stream' \in Seq(Items) /\ SubSeq(toClient, k + 1, Len(toClient)) \in Seq(Items)
      /\ Stream = Stream' \o SubSeq(toClient, k + 1, Len(toClient))
  BY CutStream
<1>2. PICK s, t : s = Stream' /\ t = SubSeq(toClient, k + 1, Len(toClient))
  OBVIOUS
<1>. SUFFICES ASSUME NEW c \in Conns PROVE Exactly(c)'
  OBVIOUS
<1>3. pushed[c] \in Nat /\ c # 0 /\ pushed' = pushed
  BY ClientAssumption DEF PInv, TypeOK, Conns
<1>4. s \in Seq(Items)
  BY <1>1, <1>2
<1>10. t \in Seq(Items)
  BY <1>1, <1>2
<1>5. PICK n \in Nat, all \in BOOLEAN : n = pushed[c] /\ all = (c = sock /\ cut = FALSE)
  BY <1>3
<1>6. ExactlyIn(s \o t, c, n, all)
  BY <1>1, <1>2, <1>5 DEF Exactly
<1>7. ExactlyIn(s, c, n, FALSE)
  <2>1. \A v, w \in Seq(Items) : ExactlyIn(v \o w, c, n, all) => ExactlyIn(v, c, n, FALSE)
    BY ONLY n \in Nat, StreamCut
  <2>. QED  BY ONLY <1>4, <1>6, <1>10, <2>1
<1>8. ExactlyIn(Stream', c, pushed'[c], FALSE)
  BY <1>2, <1>3, <1>5, <1>7
<1>9. (c = sock' /\ cut' = FALSE) = FALSE
  BY <1>3
<1>. QED  BY <1>8, <1>9 DEF Exactly

\* The steps on which an item is sent: an answer, or the next event.
LEMMA EventsMore ==
  ASSUME PInv, \A c \in Conns : Exactly(c), UNCHANGED <<heard, pending, buf, sock, cut>>,
         NEW x \in Items, toClient' = Append(toClient, x), cut = FALSE, sock \in Conns,
         \/ ~IsEvent(x) /\ pushed' = pushed
         \/ x = Event(sock, pushed[sock] + 1) /\ pushed' = [pushed EXCEPT ![sock] = @ + 1]
  PROVE  \A c \in Conns : Exactly(c)'
<1>1. Stream' = Append(Stream, x) /\ Stream \in Seq(Items)
  BY LongerStream, StreamType
<1>2. PICK s : s = Stream
  OBVIOUS
<1>. SUFFICES ASSUME NEW c \in Conns PROVE Exactly(c)'
  OBVIOUS
<1>8. pushed \in [Conns -> Nat] /\ c \in Nat /\ sock' = sock /\ cut' = cut
  BY ClientAssumption DEF PInv, TypeOK, Conns
<1>3. pushed \in [Conns -> Nat] /\ pushed' \in [Conns -> Nat] /\ c \in Nat /\ sock' = sock /\ cut' = cut
  BY <1>8
<1>4. PICK n \in Nat, m \in Nat, all \in BOOLEAN :
        n = pushed[c] /\ m = pushed'[c] /\ all = (c = sock /\ cut = FALSE)
  BY <1>3
<1>5. \/ x = Event(c, n + 1) /\ m = n + 1 /\ all
      \/ x \notin EventsOf(c) /\ m = n
  <2>1. CASE ~IsEvent(x) /\ pushed' = pushed
    BY <1>4, <2>1 DEF EventsOf
  <2>2. CASE x = Event(sock, pushed[sock] + 1) /\ pushed' = [pushed EXCEPT ![sock] = @ + 1]
    <3>1. CASE c = sock
      BY <1>3, <1>4, <2>2, <3>1
    <3>2. CASE c # sock
      <4>1. x.of # c /\ pushed'[c] = pushed[c]
        BY <1>3, <2>2, <3>2 DEF Event, Item
      <4>. QED  BY <1>4, <4>1 DEF EventsOf
    <3>. QED  BY <3>1, <3>2
  <2>. QED  BY <2>1, <2>2
<1>6. ExactlyIn(s, c, n, all) /\ s \in Seq(Items)
  BY <1>1, <1>2, <1>4 DEF Exactly
<1>7. ExactlyIn(Append(s, x), c, m, all)
  BY ONLY <1>3, <1>5, <1>6, x \in Items, n \in Nat, m \in Nat, all \in BOOLEAN, StreamLonger
<1>. QED  BY <1>1, <1>2, <1>3, <1>4, <1>7 DEF Exactly

\* Every step keeps all of this.
LEMMA EventsNext == ASSUME NoTensors, EInv, Next PROVE EInv'
<1>1. PInv /\ Unqueued /\ PInv' /\ Unqueued'
  BY PInvNext, UnqueuedNext DEF EInv
<1>2. \A c \in Conns : Exactly(c)
  BY DEF EInv
<1>. SUFFICES \A c \in Conns : Exactly(c)'
  BY <1>1 DEF EInv
<1>3. ASSUME UNCHANGED <<heard, pending, buf, toClient, sock, cut, pushed>> PROVE \A c \in Conns : Exactly(c)'
  <2>1. Stream' = Stream
    BY <1>3 DEF Stream
  <2>. QED  BY <1>1, <1>2, <1>3, <2>1, EventsStay
<1>4. ASSUME NEW k \in CallKinds, NEW n \in 1 .. MaxBatch, Call(k, n) PROVE \A c \in Conns : Exactly(c)'
  BY <1>3, <1>4 DEF Call
<1>5. CASE Connect
  <2>1. sock = 0 /\ sock' = opened + 1 /\ UNCHANGED <<buf, pending, heard, cut, toClient, pushed>>
    BY <1>5 DEF Connect
  <2>2. Stream' = Stream
    BY <2>1 DEF Stream
  <2>3. opened \in Nat /\ \A c \in Conns : c \in Nat \ {0} /\ pushed[c] \in Nat
    BY <1>1, ClientAssumption, SMTT(30) DEF PInv, TypeOK, Conns
  <2>9. \A c \in Conns : c = opened + 1 => pushed[c] = 0
    BY <1>1, <2>3 DEF PInv, InUse
  <2>. SUFFICES ASSUME NEW c \in Conns PROVE Exactly(c)'
    OBVIOUS
  <2>4. PICK e : e = Kept(Stream, EventsOf(c))
    OBVIOUS
  <2>5. Len(e) \in Nat
    BY <1>1, <2>4, StreamType, KeptType, LenProperties
  <2>6. (\A i \in 1 .. Len(e) : e[i] = Event(c, i)) /\ Len(e) <= pushed[c]
    BY <1>2, <2>4 DEF Exactly, ExactlyIn
  <2>7. c = sock' => Len(e) = pushed[c]
    BY <2>1, <2>3, <2>5, <2>6, <2>9
  <2>8. Kept(Stream', EventsOf(c)) = e /\ pushed'[c] = pushed[c]
    BY <2>1, <2>2, <2>4
  <2>. QED  BY <2>6, <2>7, <2>8 DEF Exactly, ExactlyIn
<1>6. CASE Close
  <2>1. sock' = 0 /\ toClient' = <<>> /\ UNCHANGED <<heard, pending, buf, pushed>>
    BY <1>6 DEF Close
  <2>2. toClient \in Seq(Items) /\ Len(toClient) \in Nat
    BY <1>1, StreamType, LenProperties
  <2>3. 0 \in 0 .. Len(toClient) /\ SubSeq(toClient, 1, 0) = <<>>
    BY <2>2, SubSeqEmpty
  <2>4. toClient' = SubSeq(toClient, 1, 0)
    BY <2>1, <2>3
  <2>. QED  BY <1>1, <1>2, <2>1, <2>3, <2>4, EventsLost
<1>7. ASSUME NEW n \in 1 .. MaxChunk, Receive(n) PROVE \A c \in Conns : Exactly(c)'
  <2>1. Stream' = Stream /\ UNCHANGED <<sock, cut, pushed>>
    BY <1>1, <1>7, ReceiveStream DEF Receive
  <2>. QED  BY <1>1, <1>2, <2>1, EventsStay
<1>8. CASE ReadLine
  <2>1. /\ buf # <<>> /\ buf' = Tail(buf) /\ UNCHANGED <<heard, toClient, sock, cut, pushed>>
        /\ \/ pending' = Append(pending, Head(buf))
           \/ ~IsEvent(Head(buf)) /\ pending' = pending
    BY <1>1, <1>8, PlainRead
  <2>2. CASE pending' = Append(pending, Head(buf))
    <3>1. Stream' = Stream
      BY <1>1, <2>1, <2>2, KeepStream
    <3>. QED  BY <1>1, <1>2, <2>1, <3>1, EventsStay
  <2>3. CASE ~IsEvent(Head(buf)) /\ pending' = pending
    <3>1. \A c \in Conns : Kept(Stream', EventsOf(c)) = Kept(Stream, EventsOf(c))
      BY <1>1, <2>1, <2>3, AnswerStream
    <3>. QED  BY <1>1, <1>2, <2>1, <3>1, EventsStay
  <2>. QED  BY <2>1, <2>2, <2>3
<1>9. ~TakePayload
  BY <1>1 DEF TakePayload, PInv, Plain
<1>10. CASE Timeout \/ EndOfStream \/ PollNothing \/ PollEnd
  BY <1>3, <1>10 DEF Timeout, EndOfStream, PollNothing, PollEnd, network
<1>11. CASE Poll
  <2>1. CASE heard' = heard \o pending /\ pending' = <<>>
    <3>1. Stream' = Stream /\ UNCHANGED <<sock, cut, pushed>>
      BY <1>1, <1>11, <2>1, PollStream DEF Poll, network
    <3>. QED  BY <1>1, <1>2, <3>1, EventsStay
  <2>2. CASE UNCHANGED <<heard, pending>>
    BY <1>3, <1>11, <2>2 DEF Poll, network
  <2>. QED  BY <1>11, <2>1, <2>2 DEF Poll
<1>12. ASSUME NEW n \in 1 .. MaxChunk, PollReceive(n) PROVE \A c \in Conns : Exactly(c)'
  <2>1. PICK k \in 0 .. Len(toClient), b \in Seq(PlainItems) : \E e \in 0 .. Len(b) :
          /\ b = buf \o SubSeq(toClient, 1, k) /\ toClient' = SubSeq(toClient, k + 1, Len(toClient))
          /\ heard' = heard \o SubSeq(b, 1, e) /\ buf' = SubSeq(b, e + 1, Len(b))
    BY <1>1, <1>12, PlainPoll
  <2>2. PICK e \in 0 .. Len(b) :
          /\ b = buf \o SubSeq(toClient, 1, k) /\ toClient' = SubSeq(toClient, k + 1, Len(toClient))
          /\ heard' = heard \o SubSeq(b, 1, e) /\ buf' = SubSeq(b, e + 1, Len(b))
    BY <2>1
  <2>3. pc = "polling" /\ UNCHANGED <<sock, pending, cut, pushed>>
    BY <1>1, <1>12, PlainPoll
  <2>4. Len(pending) = 0
    <3>1. \A q : q = <<>> => Len(q) = 0
      OBVIOUS
    <3>. QED  BY <1>1, <2>3, <3>1 DEF Unqueued
  <2>5. Stream' = Stream
    BY <1>1, <2>2, <2>3, <2>4, HearStream
  <2>. QED  BY <1>1, <1>2, <2>3, <2>5, EventsStay
<1>13. CASE Serve
  <2>. DEFINE cmd == Head(toServer)
  <2>1. /\ toServer # <<>> /\ cut = FALSE /\ sock # 0 /\ sock \in Conns
        /\ UNCHANGED <<heard, pending, buf, sock, cut, pushed>>
    BY <1>1, <1>13, ClientAssumption DEF Serve, client, PInv, InUse, TypeOK, Conns
  <2>2. cmd \in PlainCommands
    BY <1>1, <2>1, HeadTailProperties DEF PInv, Plain
  <2>3. PICK kind \in {"ok", "err"} : toClient' = Append(toClient, Item(kind, cmd.of, cmd.num))
    BY <1>13, <2>2 DEF Serve, PlainCommands
  <2>4. Item(kind, cmd.of, cmd.num) \in Items /\ ~IsEvent(Item(kind, cmd.of, cmd.num))
    BY <2>2 DEF Item, Items, IsEvent, PlainCommands, Commands
  <2>5. PICK x \in Items : toClient' = Append(toClient, x) /\ ~IsEvent(x)
    BY <2>3, <2>4
  <2>. QED  BY <1>1, <1>2, <2>1, <2>5, EventsMore
<1>14. CASE Publish
  <2>1. /\ sock \in Conns /\ cut = FALSE /\ UNCHANGED <<heard, pending, buf, sock, cut>>
        /\ toClient' = Append(toClient, Event(sock, pushed[sock] + 1))
        /\ pushed' = [pushed EXCEPT ![sock] = @ + 1]
    BY <1>1, <1>14, ClientAssumption DEF Publish, client, PInv, TypeOK
  <2>2. Event(sock, pushed[sock] + 1) \in Items
    BY <1>1, <2>1, ClientAssumption DEF PInv, TypeOK, Conns, Event, Item, Items
  <2>3. PICK x \in Items : toClient' = Append(toClient, x) /\ x = Event(sock, pushed[sock] + 1)
    BY <2>1, <2>2
  <2>. QED  BY <1>1, <1>2, <2>1, <2>3, EventsMore
<1>15. CASE Break
  <2>1. cut' = TRUE /\ UNCHANGED <<heard, pending, buf, pushed>>
    BY <1>15 DEF Break, client
  <2>2. PICK n \in 0 .. Len(toClient) : toClient' = SubSeq(toClient, 1, n)
    BY <1>15 DEF Break
  <2>. QED  BY <1>1, <1>2, <2>1, <2>2, EventsLost
<1>. QED
  BY <1>4, <1>5, <1>6, <1>7, <1>8, <1>9, <1>10, <1>11, <1>12, <1>13, <1>14, <1>15
     DEF Next, Application, Reading, SomeArrived, Peer

\* Nothing was sent at first.
LEMMA EventsInit == Init => EInv
<1>. SUFFICES ASSUME Init PROVE EInv
  OBVIOUS
<1>1. PInv /\ Unqueued
  BY PInvInit DEF Unqueued, Init
<1>2. heard = <<>> /\ pending = <<>> /\ buf = <<>> /\ toClient = <<>> /\ \A c \in Conns : pushed[c] = 0
  BY DEF Init
<1>3. <<>> \o <<>> = <<>>
  OBVIOUS
<1>4. Stream = <<>>
  BY <1>2, <1>3 DEF Stream
<1>5. \A c \in Conns : Kept(Stream, EventsOf(c)) = <<>>
  BY <1>4, KeptEmpty
<1>6. \A e : e = <<>> => Len(e) = 0
  OBVIOUS
<1>7. \A c \in Conns : Len(Kept(Stream, EventsOf(c))) = 0
  BY <1>5, <1>6
<1>8. \A c \in Conns : Exactly(c)
  BY <1>2, <1>7 DEF Exactly, ExactlyIn
<1>. QED  BY <1>1, <1>8 DEF EInv

\* Without tensor calls, no event is lost, repeated or overtaken, whichever of
\* send and poll_events met it first, whatever timed out, raised or was closed;
\* only a connection that broke or was closed loses the last of its events.
THEOREM EventsReachTheListener == ASSUME NoTensors PROVE Spec => []EventsExact
<1>1. EInv /\ [Next]_vars => EInv'
  <2>1. ASSUME EInv, UNCHANGED vars PROVE EInv'
    <3>1. PInv' /\ Unqueued'
      BY <2>1, PInvSame DEF EInv, Unqueued, vars, client
    <3>2. Stream' = Stream /\ UNCHANGED <<sock, cut, pushed>>
      BY <2>1 DEF Stream, vars, client, network
    <3>. QED  BY <2>1, <3>1, <3>2, EventsStay DEF EInv
  <2>. QED  BY <2>1, EventsNext
<1>2. EInv => EventsExact
  <2>. SUFFICES ASSUME EInv, NEW c \in Conns
                PROVE LET ofC == Kept(Stream, EventsOf(c))
                      IN /\ \A i \in 1 .. Len(ofC) : ofC[i] = Event(c, i)
                         /\ c = sock /\ ~cut => Len(ofC) = pushed[c]
    BY DEF EventsExact, Stream
  <2>. QED  BY DEF EInv, Exactly, ExactlyIn, PInv, TypeOK
<1>. QED  BY EventsInit, <1>1, <1>2, PTL DEF Spec
=============================================================================
