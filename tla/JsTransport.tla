----------------------------- MODULE JsTransport -----------------------------
(***************************************************************************)
(* The three transports of the JavaScript client.  TcpTransport and        *)
(* WsTransport of adapters/cuttledb.js write requests to a socket and      *)
(* queue them as waiters; every line that is not a >EVT line settles the   *)
(* waiter at the head of the queue.  WasmTransport of                      *)
(* adapters/wasm/cuttledb.mjs runs each command in process, by a call of   *)
(* the engine that writes its response to memory used before.              *)
(*                                                                         *)
(* JavaScript runs one callback at a time, so each callback is one step.   *)
(* _buf, _waiters and the listeners belong to the transport, not to a      *)
(* socket: the callbacks of every socket it ever opened share them.        *)
(*                                                                         *)
(* Over TCP a line travels in two pieces, its head and its tail with the   *)
(* newline, and a chunk may end after either; over WebSocket it travels    *)
(* whole.  One data callback delivers one piece: a longer chunk, a frame   *)
(* of several lines, is handled like its pieces one after the other.       *)
(*                                                                         *)
(* The server, the network and the engine are external: the server answers *)
(* the lines of a connection in order, a blank one with "-ERR empty", and  *)
(* pushes >EVT lines between whole responses; the engine answers at once,  *)
(* or traps.                                                               *)
(***************************************************************************)
EXTENDS Naturals, Sequences, FiniteSets, Filter

CONSTANTS
  Transports,        \* the transports the constructor may be asked for
  MaxRequests,       \* bound: requests the application makes
  BatchSizes,        \* send is 1; sendBatch(cmds) is cmds.length, 0 included
  MaxConns,          \* bound: sockets the transport opens
  MaxEvents,         \* bound: events the server pushes on one connection
  Auths,             \* is the client given a token?
  Breaks,            \* may the server or the network drop a connection, the engine trap?
  CarefulReconnect   \* does it close() and see the old socket closed before it reconnects?

Requests == 1 .. MaxRequests
Conns    == 1 .. MaxConns

ASSUME TransportAssumption ==
  /\ MaxRequests \in Nat /\ MaxConns \in Nat /\ MaxEvents \in Nat
  /\ Transports \subseteq {"tcp", "ws", "wasm"} /\ BatchSizes \subseteq Nat
  /\ Auths \subseteq BOOLEAN /\ Breaks \in BOOLEAN /\ CarefulReconnect \in BOOLEAN

VARIABLES
  transport, \* the class of the transport, chosen once
  auth,      \* this._auth: does connect() send AUTH?
  socket,    \* this.socket: the current connection, 0 for null
  buf,       \* this._buf: the pieces of a line that is not complete
  waiters,   \* this._waiters: the request each waiter belongs to
  promise,   \* promise[r]: how the promise of request r stands
  size,      \* size[r]: cmds.length
  out,       \* out[r]: the lines collected for r
  heard,     \* the event lines handed to the listeners
  dial,      \* dial[c]: how the promise of transport.connect() stands
  login,     \* login[c]: the request that is the AUTH of c, or 0
  heap,      \* WasmTransport: what earlier responses left at outPtr
  file,      \* WasmTransport: who wrote the snapshot in the engine's file system
  link,      \* link[c]: the life of connection c
  toServer,  \* toServer[c]: commands written and not yet answered
  toClient,  \* toClient[c]: pieces on their way to the client
  pushed,    \* pushed[c]: events the server pushed on c
  orphans,   \* history: requests nothing is ever going to answer
  torn,      \* history: has a connection ended in the middle of a line?
  over       \* history: what a connection was made over, "line" and "waiter"

chosen  == <<transport, auth>>
connect == <<dial, login>>
engine  == <<heap, file>>
calls   == <<waiters, promise, size, out, orphans>>
client  == <<chosen, socket, buf, calls, heard, connect, engine>>
network == <<link, toServer, toClient, pushed>>
past    == <<torn, over>>
vars    == <<client, network, past>>

Links == {"none", "dialing", "open", "ended", "gone", "errored", "closed"}
Lines == [kind : {"reply", "event"}, of : Nat, num : Nat]
Pieces == Lines \X {"head", "tail", "whole"}

Reply(r, i)  == [kind |-> "reply", of |-> r, num |-> i]
Push(c, n)   == [kind |-> "event", of |-> c, num |-> n]
OnWire(line) == IF transport = "tcp" THEN << <<line, "head">>, <<line, "tail">> >>
                ELSE << <<line, "whole">> >>

\* ">EVT " is looked for at the start of whatever was assembled into a line.
IsEvent(line) == line[1][2] # "tail" /\ line[1][1].kind = "event"

Waiting == {waiters[i] : i \in 1 .. Len(waiters)}

\* The variables have their types, and this.socket is null or a socket whose
\* connect callback ran and that close() has not been called on.
TypeOK ==
  /\ transport \in Transports /\ auth \in Auths
  /\ dial \in [Conns -> {"idle", "pending", "resolved", "rejected"}]
  /\ login \in [Conns -> {0} \cup Requests]
  /\ heap \in Seq(Pieces) /\ file \in {0} \cup Requests
  /\ socket \in {0} \cup Conns
  /\ buf \in Seq(Pieces) /\ waiters \in Seq(Requests)
  /\ promise \in [Requests -> {"idle", "pending", "resolved", "rejected"}]
  /\ size \in [Requests -> Nat] /\ out \in [Requests -> Seq(Seq(Pieces))]
  /\ heard \in Seq(Seq(Pieces)) /\ orphans \subseteq Requests
  /\ link \in [Conns -> Links] /\ pushed \in [Conns -> Nat]
  /\ toServer \in [Conns -> Seq((0 .. MaxRequests) \X Nat)]
  /\ toClient \in [Conns -> Seq(Pieces)]
  /\ torn \in BOOLEAN /\ over \subseteq {"line", "waiter"}
  /\ socket # 0 => link[socket] \notin {"none", "dialing", "ended"}

Init ==
  /\ transport \in Transports /\ auth \in Auths
  /\ dial = [c \in Conns |-> "idle"] /\ login = [c \in Conns |-> 0]
  /\ heap = <<>> /\ file = 0
  /\ socket = 0 /\ buf = <<>> /\ waiters = <<>> /\ heard = <<>> /\ orphans = {}
  /\ torn = FALSE /\ over = {}
  /\ promise = [r \in Requests |-> "idle"]
  /\ size = [r \in Requests |-> 0] /\ out = [r \in Requests |-> <<>>]
  /\ link = [c \in Conns |-> "none"] /\ pushed = [c \in Conns |-> 0]
  /\ toServer = [c \in Conns |-> <<>>] /\ toClient = [c \in Conns |-> <<>>]

-----------------------------------------------------------------------------
(* The application: connect(), send() and sendBatch(), close().            *)

\* close() was called and the 'close' callback of every socket has run: the most
\* an application can wait for.  It cannot see _buf or _waiters.
AllClosed == socket = 0 /\ \A c \in Conns : link[c] \in {"none", "closed"}

\* What the transport still holds: half a line, waiters.
Left == {what \in {"line", "waiter"} : IF what = "line" THEN buf # <<>> ELSE waiters # <<>>}

Dial(c) ==
  /\ transport # "wasm" /\ link[c] = "none" /\ \A b \in 1 .. c - 1 : link[b] # "none"
  /\ CarefulReconnect => AllClosed
  /\ over' = over \cup Left
  /\ link' = [link EXCEPT ![c] = "dialing"]
  /\ dial' = [dial EXCEPT ![c] = "pending"]
  /\ UNCHANGED <<chosen, socket, buf, calls, heard, login, engine, toServer, toClient, pushed, torn>>

\* TCP: cmds.join("\n") + "\n", without commands one blank line.  WebSocket: a
\* frame for each command, without commands none.
Written(r, n) == IF n = 0 /\ transport = "tcp" THEN << <<0, 0>> >>
                 ELSE [i \in 1 .. n |-> <<r, i>>]

\* Mutant: one waiter for the whole batch.
OneWaiter(r, n) == <<r>>

Waiters(r, n) == [i \in 1 .. n |-> r]

IsNext(r) == promise[r] = "idle" /\ \A q \in 1 .. r - 1 : promise[q] # "idle"

\* Request r of n commands goes out on socket c.
Write(r, n, c) ==
  /\ IsNext(r)
  /\ size' = [size EXCEPT ![r] = n]
  /\ promise' = [promise EXCEPT ![r] = "pending"]
  /\ waiters' = waiters \o Waiters(r, n)
  /\ orphans' = IF n = 0 \/ link[c] = "closed" THEN orphans \cup {r} ELSE orphans
  /\ toServer' = IF link[c] \in {"dialing", "open"}
                 THEN [toServer EXCEPT ![c] = @ \o Written(r, n)] ELSE toServer
  /\ UNCHANGED out

\* The connect callback: from here on the callbacks of c are installed.  The
\* promise of transport.connect() resolves, and before any other callback runs
\* CuttleDB.connect() goes on and sends AUTH.
Established(c) ==
  /\ link[c] = "dialing"
  /\ link' = [link EXCEPT ![c] = "open"]
  /\ socket' = c
  /\ dial' = [dial EXCEPT ![c] = "resolved"]
  /\ \/ ~auth /\ UNCHANGED <<calls, login, toServer>>
     \/ auth /\ \E r \in Requests : Write(r, 1, c) /\ login' = [login EXCEPT ![c] = r]
  /\ UNCHANGED <<chosen, buf, heard, engine, toClient, pushed, past>>

\* Mutant: the waiters are dropped, their promises forgotten.
DropWaiters == waiters' = <<>> /\ UNCHANGED promise

FailAll ==
  /\ waiters' = <<>>
  /\ promise' = [r \in Requests |-> IF r \in Waiting THEN "rejected" ELSE promise[r]]

\* Mutant: onerror rejects only if there is a socket.
RejectsInverted == transport = "tcp" \/ socket # 0

\* Does the error of a socket that could not connect reject connect()?  That of
\* WsTransport does not if there is a socket, one that has closed included.
Rejects == transport = "tcp" \/ socket = 0

\* A socket cannot connect.  That of TcpTransport has no 'close' callback yet,
\* that of WsTransport has one.
Refused(c) ==
  /\ Breaks /\ link[c] = "dialing"
  /\ link' = [link EXCEPT ![c] = "closed"]
  /\ dial' = IF Rejects THEN [dial EXCEPT ![c] = "rejected"] ELSE dial
  /\ IF transport = "ws" THEN FailAll ELSE UNCHANGED <<waiters, promise>>
  /\ UNCHANGED <<chosen, socket, buf, size, out, heard, orphans, login, engine, toServer, toClient, pushed, past>>

Send(r, n) ==
  /\ transport # "wasm"
  /\ \/ /\ socket = 0 /\ IsNext(r)
        /\ size' = [size EXCEPT ![r] = n]
        /\ promise' = [promise EXCEPT ![r] = "rejected"]
        /\ UNCHANGED <<waiters, out, orphans, toServer>>
     \/ socket # 0 /\ Write(r, n, socket)
  /\ UNCHANGED <<chosen, socket, buf, heard, connect, engine, link, toClient, pushed, past>>

\* Mutant: close() does not forget the socket.
CloseKeepsSocket ==
  /\ socket # 0
  /\ link' = IF link[socket] = "open" THEN [link EXCEPT ![socket] = "ended"] ELSE link
  /\ UNCHANGED <<chosen, socket, buf, calls, heard, connect, engine, toServer, toClient, pushed, past>>

\* TCP: socket.end() half-closes, what is in flight may still be answered.
\* WebSocket: close() starts the closing handshake, no message is delivered.
Close ==
  /\ socket # 0
  /\ socket' = 0
  /\ \/ /\ transport = "tcp"
        /\ link' = IF link[socket] = "open" THEN [link EXCEPT ![socket] = "ended"] ELSE link
        /\ UNCHANGED <<toServer, toClient>>
     \/ /\ transport = "ws"
        /\ link' = IF link[socket] = "open" THEN [link EXCEPT ![socket] = "gone"] ELSE link
        /\ toServer' = [toServer EXCEPT ![socket] = <<>>]
        /\ toClient' = [toClient EXCEPT ![socket] = <<>>]
  /\ UNCHANGED <<chosen, buf, calls, heard, connect, engine, pushed, past>>

-----------------------------------------------------------------------------
(* WasmTransport: _exec and its callers.                                   *)

Texts(line) == { << <<line, "whole">> >>, << <<line, "head">>, <<line, "tail">> >> }

\* What the engine may answer: nothing when it returns n <= 0.
Returns(line) == Texts(line) \cup {<<>>}

\* The engine writes text to the buffer and ends it with nothing.
Overwritten(old, text) == text \o SubSeq(old, Len(text) + 1, Len(old))

\* What the buffer holds after each of texts, one written over the other.
Buffers(old, texts) ==
  LET at[i \in 0 .. Len(texts)] == IF i = 0 THEN old ELSE Overwritten(at[i - 1], texts[i]) IN at

\* Mutant: the buffer is read up to its end.
ReadAll(old, text) == Overwritten(old, text)

\* UTF8ToString(outPtr, n), n being what the engine returned.
Response(old, text) == SubSeq(Overwritten(old, text), 1, Len(text))

\* Request r runs n commands one after the other, the i-th of which is answered
\* about(i).  When the engine traps, so does the call, and the rest is not run.
Exec(r, n, about) ==
  /\ transport = "wasm" /\ IsNext(r)
  /\ size' = [size EXCEPT ![r] = n]
  /\ \E texts \in {f \in [1 .. n -> UNION {Returns(about[i]) : i \in 1 .. n}] :
                    \A i \in 1 .. n : f[i] \in Returns(about[i])} :
       LET at == Buffers(heap, texts)
       IN \/ /\ heap' = at[n]
             /\ out' = [out EXCEPT ![r] = [i \in 1 .. n |-> Response(at[i - 1], texts[i])]]
             /\ promise' = [promise EXCEPT ![r] = "pending"]
          \/ /\ Breaks /\ \E k \in 0 .. n - 1 : heap' = at[k]
             /\ promise' = [promise EXCEPT ![r] = "rejected"]
             /\ UNCHANGED out
  /\ UNCHANGED <<chosen, socket, buf, waiters, heard, connect, orphans, network, past>>

\* send() and sendBatch().
SendInProcess(r, n) == Exec(r, n, [i \in 1 .. n |-> Reply(r, i)]) /\ UNCHANGED file

\* loadSnapshot(): the file is written and read again before anything else runs,
\* all calls by default under one name.  The answer is the one to whoever wrote it.
LoadSnapshot(r) == file' = r /\ Exec(r, 1, <<Reply(file', 1)>>)

\* The await of the caller: answers are there at once, but met in a later turn.
Resume(r) ==
  /\ transport = "wasm" /\ promise[r] = "pending" /\ \A q \in 1 .. r - 1 : promise[q] # "pending"
  /\ promise' = [promise EXCEPT ![r] = "resolved"]
  /\ UNCHANGED <<chosen, socket, buf, waiters, size, out, orphans, heard, connect, engine, network, past>>

-----------------------------------------------------------------------------
(* The callbacks.                                                          *)

\* Mutant: the newest waiter takes the line (pop for shift).
PopWaiter == <<waiters[Len(waiters)], SubSeq(waiters, 1, Len(waiters) - 1)>>

\* this._waiters.shift(): the request that takes the line, and the rest.
ShiftWaiter == <<Head(waiters), Tail(waiters)>>

Settle(line) ==
  LET r == ShiftWaiter[1] IN
  /\ waiters' = ShiftWaiter[2]
  /\ out' = [out EXCEPT ![r] = Append(@, line)]
  /\ promise' = IF Len(out[r]) + 1 = size[r] THEN [promise EXCEPT ![r] = "resolved"]
                ELSE promise

\* Mutant: an event that comes while a response is awaited is not dispatched.
RouteIdleEvents(line) ==
  \/ /\ IsEvent(line)
     /\ heard' = IF waiters = <<>> THEN Append(heard, line) ELSE heard
     /\ UNCHANGED <<waiters, promise, out>>
  \/ /\ ~IsEvent(line) /\ waiters # <<>>
     /\ Settle(line) /\ UNCHANGED heard
  \/ /\ ~IsEvent(line) /\ waiters = <<>>
     /\ UNCHANGED <<waiters, promise, out, heard>>

\* One complete line: to the listeners, to the oldest waiter, or to nobody.
Route(line) ==
  \/ /\ IsEvent(line)
     /\ heard' = Append(heard, line) /\ UNCHANGED <<waiters, promise, out>>
  \/ /\ ~IsEvent(line) /\ waiters # <<>>
     /\ Settle(line) /\ UNCHANGED heard
  \/ /\ ~IsEvent(line) /\ waiters = <<>>
     /\ UNCHANGED <<waiters, promise, out, heard>>

\* _onData or _onMessage, whichever socket the piece comes from.
Data(c) ==
  /\ link[c] \in {"open", "ended", "gone"} /\ toClient[c] # <<>>
  /\ toClient' = [toClient EXCEPT ![c] = Tail(@)]
  /\ LET piece == Head(toClient[c]) IN
     \/ /\ piece[2] = "head"
        /\ buf' = Append(buf, piece) /\ UNCHANGED <<waiters, promise, out, heard>>
     \/ /\ piece[2] = "tail"
        /\ buf' = <<>> /\ Route(Append(buf, piece))
     \/ /\ piece[2] = "whole"
        /\ Route(<<piece>>) /\ UNCHANGED buf
  /\ UNCHANGED <<chosen, socket, size, orphans, connect, engine, link, toServer, pushed, past>>

\* The 'error' callback, when there is one, comes before 'close'.  Once connect
\* has succeeded the one of WsTransport does nothing.
SocketError(c) ==
  /\ transport = "tcp" /\ link[c] = "gone" /\ toClient[c] = <<>>
  /\ FailAll
  /\ link' = [link EXCEPT ![c] = "errored"]
  /\ UNCHANGED <<chosen, socket, buf, size, out, heard, orphans, connect, engine, toServer, toClient, pushed, past>>

\* Mutant: the 'close' callback leaves it to 'error' to reject the waiters.
ClosedSilently(c) ==
  /\ link[c] \in {"gone", "errored"} /\ toClient[c] = <<>>
  /\ link' = [link EXCEPT ![c] = "closed"]
  /\ UNCHANGED <<chosen, socket, buf, calls, heard, connect, engine, toServer, toClient, pushed, past>>

\* The 'close' callback.  this.socket is left as it is.
SocketClosed(c) ==
  /\ link[c] \in {"gone", "errored"} /\ toClient[c] = <<>>
  /\ FailAll
  /\ link' = [link EXCEPT ![c] = "closed"]
  /\ UNCHANGED <<chosen, socket, buf, size, out, heard, orphans, connect, engine, toServer, toClient, pushed, past>>

-----------------------------------------------------------------------------
(* The server and the network, external.                                   *)

Serve(c) ==
  /\ link[c] \in {"open", "ended"} /\ toServer[c] # <<>>
  /\ toServer' = [toServer EXCEPT ![c] = Tail(@)]
  /\ LET cmd == Head(toServer[c]) IN
     toClient' = [toClient EXCEPT ![c] = @ \o OnWire(Reply(cmd[1], cmd[2]))]
  /\ UNCHANGED <<client, link, pushed, past>>

Publish(c) ==
  /\ link[c] = "open" /\ pushed[c] < MaxEvents
  /\ pushed' = [pushed EXCEPT ![c] = @ + 1]
  /\ toClient' = [toClient EXCEPT ![c] = @ \o OnWire(Push(c, pushed[c] + 1))]
  /\ UNCHANGED <<client, link, toServer, past>>

\* The server has answered all there was and closes its half too.
Finish(c) ==
  /\ link[c] = "ended" /\ toServer[c] = <<>>
  /\ link' = [link EXCEPT ![c] = "gone"]
  /\ UNCHANGED <<client, toServer, toClient, pushed, past>>

\* After the first k pieces of what is under way on c, is a line incomplete?
Incomplete(c, k) == IF k = 0 THEN buf # <<>> ELSE toClient[c][k][2] = "head"

\* The connection breaks; the pieces still under way may be lost from any point.
Break(c) ==
  /\ Breaks /\ link[c] \in {"open", "ended"}
  /\ link' = [link EXCEPT ![c] = "gone"]
  /\ \E k \in 0 .. Len(toClient[c]) :
       /\ toClient' = [toClient EXCEPT ![c] = SubSeq(@, 1, k)]
       /\ torn' = (torn \/ Incomplete(c, k))
  /\ toServer' = [toServer EXCEPT ![c] = <<>>]
  /\ UNCHANGED <<client, pushed, over>>

-----------------------------------------------------------------------------
Callback(c)  == Data(c) \/ SocketError(c) \/ SocketClosed(c)
Peer(c)      == Serve(c) \/ Publish(c) \/ Finish(c) \/ Break(c)
Application  ==
  \/ Close
  \/ \E r \in Requests : LoadSnapshot(r) \/ \E n \in BatchSizes : Send(r, n) \/ SendInProcess(r, n)

Next ==
  \/ Application
  \/ \E c \in Conns : Dial(c) \/ Established(c) \/ Refused(c)
  \/ \E c \in Conns : Callback(c) \/ Peer(c)
  \/ \E r \in Requests : Resume(r)

Spec == Init /\ [][Next]_vars

\* The event loop runs the callbacks and continuations that are due, the
\* network makes a connection or gives up, and a server that is not cut off
\* answers and, once the client has half-closed, closes.  The application, the
\* pushes and the failures of what is connected are not assumed to happen.
Fairness ==
  /\ \A c \in Conns :
       /\ WF_vars(Established(c) \/ Refused(c))
       /\ WF_vars(Data(c)) /\ WF_vars(SocketClosed(c)) /\ WF_vars(Serve(c) \/ Finish(c))
  /\ \A r \in Requests : WF_vars(Resume(r))

FairSpec == Spec /\ Fairness

-----------------------------------------------------------------------------
(* Properties.                                                             *)

\* However often the application reconnects and whatever breaks, the waiters
\* are exactly the answers the pending promises still lack, oldest first: a
\* batch never resolves early, and no settled request keeps a waiter that
\* would swallow somebody else's line.
WaitersAreDue ==
  /\ \A r \in Requests :
       Cardinality({i \in 1 .. Len(waiters) : waiters[i] = r}) =
         IF promise[r] = "pending" THEN size[r] - Len(out[r]) ELSE 0
  /\ \A i, j \in 1 .. Len(waiters) : i <= j => waiters[i] <= waiters[j]

\* Calls settle in order, each with the answers to its own commands, whatever
\* earlier responses left in the engine's buffer, up to the first connection
\* that is made over half a line or a waiter.  A line that is not a whole reply
\* maps to <<0, 0>>, the answer to nothing; an empty one, which only the engine
\* gives, is the answer to the command it was returned for.
AnswerTo(r, i, line) ==
  IF line = <<>> THEN <<r, i>>
  ELSE IF line \in Texts(line[1][1]) THEN <<line[1][1].of, line[1][1].num>>
  ELSE <<0, 0>>
Channel == INSTANCE Rpc WITH
             status  <- promise,
             answers <- [r \in Requests |->
                           IF promise[r] = "resolved"
                           THEN [i \in 1 .. Len(out[r]) |-> AnswerTo(r, i, out[r][i])] ELSE <<>>]
ImplementsRpc == Channel!Init /\ [][over = {} => Channel!Next]_(Channel!vars)

\* The listeners hear the events of a connection whole, in order and without a
\* gap, however they interleave with responses and chunk boundaries, and all of
\* them have been heard when a connection that holds has nothing under way, up
\* to the first connection that is made over half a line.
LinesOf(c) == {line \in Seq(Pieces) : line # <<>> /\ line[1][1].of = c}
EventsInOrder ==
  "line" \notin over =>
    \A c \in Conns :
      LET ofC == Kept(heard, LinesOf(c))
      IN /\ \A i \in 1 .. Len(ofC) : ofC[i] = OnWire(Push(c, i))
         /\ link[c] = "open" /\ toClient[c] = <<>> => Len(ofC) = pushed[c]

\* What close() and waiting for the sockets to close can leave behind: half a
\* line only where a connection ended in the middle of one, and of the waiters
\* only those of empty batches and of requests made on a closed socket.
LeftoversAreNamed ==
  CarefulReconnect /\ AllClosed => (buf # <<>> => torn) /\ Waiting \subseteq orphans

\* Every promise settles, except that of an empty batch and that of a request
\* made on a socket whose 'close' callback has already run, as long as no
\* connection is made over half a line or a waiter.
EveryCallSettles ==
  \A r \in Requests :
    (promise[r] = "pending" /\ r \notin orphans) ~> (promise[r] # "pending" \/ over # {})

\* CuttleDB.connect() settles: with that of the transport, or with AUTH, as long
\* as no connection is made over half a line or a waiter.
Connected(c) == IF login[c] = 0 THEN dial[c] ELSE promise[login[c]]
EveryConnectSettles ==
  \A c \in Conns :
    (Connected(c) = "pending") ~> (Connected(c) \in {"resolved", "rejected"} \/ over # {})

\* What the comment on _waiters says, "for in-flight requests": the line that a
\* waiter takes is the answer to the request it is there for.  This does not hold:
\* a connection may be made over the waiter of a request sent on a closed socket.
WaitersAreInFlight ==
  \A r \in Requests : \A i \in 1 .. Len(out[r]) : AnswerTo(r, i, out[r][i]) = <<r, i>>

\* What the interface says of an Event, "pushed by the server": every line that
\* the listeners hear is one that was.  This does not hold: a connection may be
\* made over half a line in _buf.
EventsArePushed ==
  \A i \in 1 .. Len(heard) : \E c \in Conns : \E n \in 1 .. pushed[c] : heard[i] = OnWire(Push(c, n))
=============================================================================
