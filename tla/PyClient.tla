------------------------------ MODULE PyClient ------------------------------
(***************************************************************************)
(* The blocking client, class CuttleDB of cuttledb/__init__.py: a call     *)
(* writes its commands, then reads lines from one socket until it has as   *)
(* many answers; >EVT lines met on the way are queued for poll_events.     *)
(*                                                                         *)
(* The steps are the client's calls of recv, between which the server and  *)
(* the network act; send, send_batch and poll_events hold one lock, so one *)
(* caller is all there is.  A recv returns whole items, a line or the raw  *)
(* bytes of a tensor: the readers wait for the rest of half a line anyway. *)
(* Raw bytes are taken to hold no newline; read as text, they and the next *)
(* line make one line, Junk.                                               *)
(*                                                                         *)
(* The server and the network are external, and lose what is in flight     *)
(* when the client closes its socket.                                      *)
(***************************************************************************)
EXTENDS Naturals, Sequences, Filter

CONSTANTS
  Kinds,       \* Kinds[c]: the calls made on connection c, among CallKinds
  Subscribed,  \* the connections on which SUB was sent: events are pushed there
  MaxBatch,    \* bound: commands in one send_batch
  MaxCalls,    \* bound: calls made
  MaxConns,    \* bound: connections opened
  MaxEvents,   \* bound: events pushed on one connection
  MaxChunk,    \* bound: items one recv returns
  Auth,        \* was the client given a token to authenticate with?
  Refusable,   \* which commands get -ERR: "none", "single" (no batch), "any"
  Timeouts,    \* may a recv of a call time out?
  Breaks       \* may the connection break?

Calls == 1 .. MaxCalls
Conns == 1 .. MaxConns

\* send and send_batch, send_raw, the binary tensor calls
CallKinds == {"send", "raw", "matmul"}

ASSUME ClientAssumption ==
  /\ MaxCalls \in Nat /\ MaxConns \in Nat \ {0} /\ MaxBatch \in Nat \ {0}
  /\ Kinds \in [Conns -> SUBSET CallKinds] /\ Subscribed \subseteq Conns
  /\ MaxEvents \in Nat /\ MaxChunk \in Nat
  /\ Auth \in BOOLEAN /\ Timeouts \in BOOLEAN /\ Breaks \in BOOLEAN
  /\ Refusable \in {"none", "single", "any"}

VARIABLES
  sock,      \* self._sock: the connection in use, 0 for None
  opened,    \* connections opened so far
  buf,       \* self._buf
  pending,   \* self._pending_events
  pc,        \* which recv the client is at
  form,      \* the kind of the latest call
  cur,       \* the number of the latest call
  status,    \* status[r]: how call r stands
  size,      \* size[r]: len(commands) of call r
  got,       \* got[r]: what call r read as its answers
  sent,      \* history: the calls whose commands reached the server
  heard,     \* the events poll_events returned
  cut,       \* the connection in use is broken
  toServer,  \* commands written and not yet answered
  toClient,  \* items on their way to the client
  pushed     \* pushed[c]: events the server pushed on c

ledger  == <<form, cur, status, size, got, sent>>
client  == <<sock, opened, buf, pending, pc, ledger, heard>>
network == <<cut, toServer, toClient, pushed>>
vars    == <<client, network>>

Items    == [kind : {"ok", "err", "header", "payload", "event", "junk"}, of : Nat, num : Nat]
Commands == [of : Nat, num : Nat, binary : BOOLEAN]

Item(k, r, i) == [kind |-> k, of |-> r, num |-> i]
Event(c, n)   == Item("event", c, n)
Junk          == Item("junk", 0, 0)

\* The variables have their types; a call is pending exactly while the client
\* reads for it, and it is always the latest one (one lock, one caller).
TypeOK ==
  /\ sock \in 0 .. MaxConns /\ opened \in 0 .. MaxConns
  /\ buf \in Seq(Items) /\ pending \in Seq(Items) /\ heard \in Seq(Items)
  /\ pc \in {"idle", "reading", "payload", "polling"}
  /\ form \in CallKinds /\ cur \in 0 .. MaxCalls
  /\ status \in [Calls -> {"idle", "pending", "returned", "raised"}]
  /\ size \in [Calls -> 0 .. MaxBatch] /\ got \in [Calls -> Seq(Items)]
  /\ sent \subseteq Calls /\ cut \in BOOLEAN
  /\ toServer \in Seq(Commands) /\ toClient \in Seq(Items)
  /\ pushed \in [Conns -> 0 .. MaxEvents]
  /\ \A r \in Calls : status[r] = "pending" <=> (r = cur /\ pc \in {"reading", "payload"})

Init ==
  /\ sock = 0 /\ opened = 0 /\ buf = <<>> /\ pending = <<>> /\ heard = <<>>
  /\ pc = "idle" /\ form = "send" /\ cur = 0 /\ cut = FALSE
  /\ status = [r \in Calls |-> "idle"] /\ size = [r \in Calls |-> 0]
  /\ got = [r \in Calls |-> <<>>] /\ sent = {}
  /\ toServer = <<>> /\ toClient = <<>> /\ pushed = [c \in Conns |-> 0]

-----------------------------------------------------------------------------
(* Making a call.                                                          *)

\* The next call takes a number; w are the commands that reach the network.
Begin(k, n, s, w) ==
  /\ cur < MaxCalls
  /\ cur' = cur + 1 /\ form' = k
  /\ size' = [size EXCEPT ![cur + 1] = n]
  /\ status' = [status EXCEPT ![cur + 1] = s]
  /\ pc' = IF s = "pending" THEN "reading" ELSE "idle"
  /\ toServer' = toServer \o w
  /\ sent' = IF w = <<>> THEN sent ELSE sent \cup {cur + 1}
  /\ UNCHANGED got

Written(k, n) ==
  [i \in 1 .. n |-> [of |-> cur + 1, num |-> i, binary |-> (k = "matmul")]]

\* send, send_raw, send_batch, matmul_f32_b and flash_attn_f32 up to the first
\* read.  On a broken connection the write is lost or fails.
Call(k, n) ==
  /\ pc = "idle" /\ (n = 1 \/ k = "send")
  /\ sock # 0 => k \in Kinds[sock]
  /\ \/ sock # 0 /\ ~cut /\ Begin(k, n, "pending", Written(k, n))
     \/ sock # 0 /\ cut /\ Begin(k, n, "pending", <<>>)
     \/ (sock = 0 \/ cut) /\ Begin(k, n, "raised", <<>>)
  /\ UNCHANGED <<sock, opened, buf, pending, heard, cut, toClient, pushed>>

\* _connect, by connect() or a with statement; AUTH is a call of its own.
Connect ==
  /\ pc = "idle" /\ sock = 0 /\ opened < MaxConns
  /\ sock' = opened + 1 /\ opened' = opened + 1
  /\ IF Auth THEN Begin("send", 1, "pending", Written("send", 1))
     ELSE UNCHANGED <<ledger, pc, toServer>>
  /\ UNCHANGED <<buf, pending, heard, cut, toClient, pushed>>

\* close.  _buf and _pending_events stay.
Close ==
  /\ pc = "idle" /\ sock # 0
  /\ sock' = 0 /\ cut' = FALSE /\ toServer' = <<>> /\ toClient' = <<>>
  /\ UNCHANGED <<opened, buf, pending, pc, ledger, heard, pushed>>

-----------------------------------------------------------------------------
(* Reading the answers.                                                    *)

RawFirst(b)  == b # <<>> /\ Head(b).kind = "payload"
HasLine(b)   == Len(b) > IF RawFirst(b) THEN 1 ELSE 0
NextLine(b)  == IF RawFirst(b) THEN Junk ELSE Head(b)
AfterLine(b) == IF RawFirst(b) THEN Tail(Tail(b)) ELSE Tail(b)

IsEvent(line) == line.kind = "event"

\* Mutant: the call ends, its outcome is not reported.
ReturnSilently(s) == pc' = "idle" /\ UNCHANGED status

Return(s) == pc' = "idle" /\ status' = [status EXCEPT ![cur] = s]

\* The latest call is at a recv: what it has read is not enough.
Starved == \/ pc = "reading" /\ ~HasLine(buf)
           \/ pc = "payload" /\ buf = <<>>

\* recv(8192) of _readline.
Receive(n) ==
  /\ pc = "reading" /\ ~HasLine(buf) /\ n <= Len(toClient)
  /\ buf' = buf \o SubSeq(toClient, 1, n)
  /\ toClient' = SubSeq(toClient, n + 1, Len(toClient))
  /\ UNCHANGED <<sock, opened, pending, pc, ledger, heard, cut, toServer, pushed>>

\* _unwrap accepts whatever starts with +OK.
Unwraps(line) == line.kind \in {"ok", "header"}

\* Mutant: an event met on the way to an answer is dropped.
DropEvent(line) == UNCHANGED pending

Keep(line) == pending' = Append(pending, line)

\* Mutant: the loop of send_batch stops one answer short.
OneShort(line) ==
  /\ got' = [got EXCEPT ![cur] = Append(@, line)]
  /\ IF form = "send" /\ ~Unwraps(line) THEN Return("raised")
     ELSE IF Len(got[cur]) + 2 >= size[cur] THEN Return("returned")
     ELSE UNCHANGED <<pc, status>>

\* A line that counts as an answer: send raises on -ERR, wherever it stands.
Answer(line) ==
  /\ got' = [got EXCEPT ![cur] = Append(@, line)]
  /\ IF form = "send" /\ ~Unwraps(line) THEN Return("raised")
     ELSE IF Len(got[cur]) + 1 = size[cur] THEN Return("returned")
     ELSE UNCHANGED <<pc, status>>

\* _read_response and, for the tensor calls, the header they read themselves.
ReadLine ==
  /\ pc = "reading" /\ HasLine(buf)
  /\ buf' = AfterLine(buf)
  /\ LET line == NextLine(buf) IN
     \/ /\ form # "matmul" /\ IsEvent(line)
        /\ Keep(line) /\ UNCHANGED <<pc, status, got>>
     \/ /\ form # "matmul" /\ ~IsEvent(line)
        /\ Answer(line) /\ UNCHANGED pending
     \/ /\ form = "matmul" /\ line.kind = "header"
        /\ pc' = "payload" /\ UNCHANGED <<status, got, pending>>
     \/ /\ form = "matmul" /\ line.kind = "err"
        /\ got' = [got EXCEPT ![cur] = Append(@, line)]
        /\ Return("raised") /\ UNCHANGED pending
     \/ /\ form = "matmul" /\ line.kind \notin {"header", "err"}
        /\ Return("raised") /\ UNCHANGED <<got, pending>>
  /\ UNCHANGED <<sock, opened, form, cur, size, sent, heard, network>>

\* Mutant: what _readline left in _buf is not looked at.
TakeFromSocket ==
  /\ pc = "payload" /\ toClient # <<>>
  /\ got' = [got EXCEPT ![cur] = Append(@, Head(toClient))]
  /\ toClient' = Tail(toClient) /\ UNCHANGED buf
  /\ Return("returned")
  /\ UNCHANGED <<sock, opened, pending, form, cur, size, sent, heard, cut, toServer, pushed>>

\* The raw result, out of _buf or straight from the socket.
TakePayload ==
  /\ pc = "payload" /\ buf \o toClient # <<>>
  /\ got' = [got EXCEPT ![cur] = Append(@, Head(buf \o toClient))]
  /\ IF buf # <<>> THEN buf' = Tail(buf) /\ UNCHANGED toClient
     ELSE toClient' = Tail(toClient) /\ UNCHANGED buf
  /\ Return("returned")
  /\ UNCHANGED <<sock, opened, pending, form, cur, size, sent, heard, cut, toServer, pushed>>

\* recv times out: the call raises, its answer may still come.
Timeout ==
  /\ Timeouts /\ Starved
  /\ Return("raised")
  /\ UNCHANGED <<sock, opened, buf, pending, form, cur, size, got, sent, heard, network>>

\* recv returns b"": connection closed by server.
EndOfStream ==
  /\ Starved /\ cut /\ toClient = <<>>
  /\ Return("raised")
  /\ UNCHANGED <<sock, opened, buf, pending, form, cur, size, got, sent, heard, network>>

-----------------------------------------------------------------------------
(* poll_events.                                                            *)

\* Queued events are returned at once; otherwise the socket is asked.
Poll ==
  /\ pc = "idle"
  /\ \/ /\ pending # <<>> \/ sock = 0
        /\ heard' = heard \o pending /\ pending' = <<>> /\ UNCHANGED pc
     \/ /\ pending = <<>> /\ sock # 0
        /\ pc' = "polling" /\ UNCHANGED <<heard, pending>>
  /\ UNCHANGED <<sock, opened, buf, ledger, network>>

\* How many events stand before the first line that is none.
LeadingEvents(b) ==
  CHOOSE k \in 0 .. Len(b) :
    /\ \A i \in 1 .. k : IsEvent(b[i])
    /\ k < Len(b) => ~IsEvent(b[k + 1])

\* Mutant: the line that is not an event is dropped, not put back.
StashNothing(b, k) == SubSeq(b, k + 2, Len(b))

\* The line that is not an event goes back in front of the rest.
Stash(b, k) ==
  IF RawFirst(b) THEN <<Junk>> \o AfterLine(b) ELSE SubSeq(b, k + 1, Len(b))

\* One recv and the parse loop after it, which ends the poll once it saw a line.
PollReceive(n) ==
  /\ pc = "polling" /\ n <= Len(toClient)
  /\ toClient' = SubSeq(toClient, n + 1, Len(toClient))
  /\ LET b == buf \o SubSeq(toClient, 1, n)
         k == LeadingEvents(b) IN
     \/ /\ HasLine(b)
        /\ heard' = heard \o SubSeq(b, 1, k)
        /\ buf' = Stash(b, k) /\ pc' = "idle"
     \/ /\ ~HasLine(b)
        /\ buf' = b /\ UNCHANGED <<heard, pc>>
  /\ UNCHANGED <<sock, opened, pending, ledger, cut, toServer, pushed>>

\* Nothing arrived: [] after a timeout, BlockingIOError if it was 0.
PollNothing ==
  /\ pc = "polling"
  /\ pc' = "idle"
  /\ UNCHANGED <<sock, opened, buf, pending, ledger, heard, network>>

\* recv returns b"": the poll reports no event.
PollEnd ==
  /\ pc = "polling" /\ cut /\ toClient = <<>>
  /\ pc' = "idle"
  /\ UNCHANGED <<sock, opened, buf, pending, ledger, heard, network>>

-----------------------------------------------------------------------------
(* The server and the network, external.                                   *)

MayRefuse(cmd) ==
  Refusable = "any" \/ (Refusable = "single" /\ size[cmd.of] = 1)

Serve ==
  /\ toServer # <<>> /\ ~cut
  /\ toServer' = Tail(toServer)
  /\ LET cmd == Head(toServer) IN
     \/ /\ ~cmd.binary
        /\ toClient' = Append(toClient, Item("ok", cmd.of, cmd.num))
     \/ /\ cmd.binary
        /\ toClient' = toClient \o << Item("header", cmd.of, cmd.num),
                                      Item("payload", cmd.of, cmd.num) >>
     \/ /\ MayRefuse(cmd)
        /\ toClient' = Append(toClient, Item("err", cmd.of, cmd.num))
  /\ UNCHANGED <<client, cut, pushed>>

Publish ==
  /\ sock \in Subscribed /\ ~cut /\ pushed[sock] < MaxEvents
  /\ pushed' = [pushed EXCEPT ![sock] = @ + 1]
  /\ toClient' = Append(toClient, Event(sock, pushed[sock] + 1))
  /\ UNCHANGED <<client, cut, toServer>>

Break ==
  /\ Breaks /\ sock # 0 /\ ~cut
  /\ cut' = TRUE /\ toServer' = <<>>
  /\ \E n \in 0 .. Len(toClient) : toClient' = SubSeq(toClient, 1, n)
  /\ UNCHANGED <<client, pushed>>

-----------------------------------------------------------------------------
Application == Connect \/ Close \/ \E k \in CallKinds, n \in 1 .. MaxBatch : Call(k, n)
Reading     == ReadLine \/ TakePayload \/ EndOfStream \/ \E n \in 1 .. MaxChunk : Receive(n)
SomeArrived == \E n \in 1 .. MaxChunk : PollReceive(n)
Peer        == Serve \/ Publish \/ Break

Next == Application \/ Reading \/ Timeout \/ Poll \/ SomeArrived \/ PollNothing \/ PollEnd \/ Peer

Spec == Init /\ [][Next]_vars

\* A call goes on reading and the server answers; an application that listens
\* (for evt in db.stream_events()) polls again and again, and what is in flight
\* does not stay out of every one of its polls.  Calls, connects, pushes and
\* failures are not assumed to happen.
Fairness ==
  /\ WF_vars(Reading) /\ WF_vars(Serve)
  /\ WF_vars(Poll) /\ SF_vars(SomeArrived) /\ WF_vars(PollNothing \/ PollEnd)

FairSpec == Spec /\ Fairness

-----------------------------------------------------------------------------
(* Properties.                                                             *)

\* send and send_batch: what a call reads as its answers are the answers to its
\* own commands, in order, whatever was polled, pushed or refused before.
OwnAnswers ==
  \A r \in Calls : \A i \in 1 .. Len(got[r]) : got[r][i].of = r /\ got[r][i].num = i

\* Calls settle in order and with their own answers, like those of JsTransport.
\* A call that raised after its last answer (a lone -ERR) is settled too.
AnswerTo(line) == IF line.kind \in {"ok", "err", "payload"} THEN <<line.of, line.num>> ELSE <<0, 0>>
Outcome(r) == IF status[r] \in {"idle", "pending"} THEN status[r]
              ELSE IF size[r] = Len(got[r]) THEN "resolved" ELSE "rejected"
Channel == INSTANCE Rpc WITH
             Requests   <- Calls,
             BatchSizes <- 1 .. MaxBatch,
             status     <- [r \in Calls |-> Outcome(r)],
             answers    <- [r \in Calls |-> IF Outcome(r) = "resolved"
                                            THEN [i \in 1 .. Len(got[r]) |-> AnswerTo(got[r][i])]
                                            ELSE <<>>]
ImplementsRpc == Channel!Spec

\* No event is lost, repeated or overtaken between the server and the listener,
\* whichever of send and poll_events met it first, also when a call times out
\* or raises with answers left behind.  Only a broken connection loses a tail.
EventsOf(c) == {x \in Items : IsEvent(x) /\ x.of = c}
EventsExact ==
  \A c \in Conns :
    LET ofC == Kept(heard \o pending \o buf \o toClient, EventsOf(c))
    IN /\ \A i \in 1 .. Len(ofC) : ofC[i] = Event(c, i)
       /\ c = sock /\ ~cut => Len(ofC) = pushed[c]

\* On one connection the answers are read in the order of the commands, without
\* a gap and each once, even by calls they do not belong to: a client that fell
\* behind by some answers stays behind by exactly those.
Collected[r \in 0 .. MaxCalls] == IF r = 0 THEN <<>> ELSE Collected[r - 1] \o got[r]
Asked[r \in 0 .. MaxCalls] ==
  IF r = 0 THEN <<>>
  ELSE Asked[r - 1] \o IF r \in sent THEN [i \in 1 .. size[r] |-> <<r, i>>] ELSE <<>>
NoEvents == {x \in Items : ~IsEvent(x)}
AnswersExact ==
  LET answers == Kept(Collected[MaxCalls] \o buf \o toClient, NoEvents)
      due     == [i \in 1 .. Len(toServer) |-> <<toServer[i].of, toServer[i].num>>]
  IN sock # 0 /\ ~cut =>
       [i \in 1 .. Len(answers) |-> <<answers[i].of, answers[i].num>>] \o due = Asked[MaxCalls]

\* Every call returns or raises.
EveryCallEnds == \A r \in Calls : (status[r] = "pending") ~> (status[r] \in {"returned", "raised"})

\* An event pushed on a connection that lasts is returned to a listener that
\* keeps polling.
EventsAreDrained ==
  \A c \in Conns, n \in 1 .. MaxEvents :
    (pushed[c] >= n) ~> (Event(c, n) \in {heard[i] : i \in 1 .. Len(heard)} \/ cut \/ sock # c)
=============================================================================
