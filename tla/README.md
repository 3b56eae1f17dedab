# CuttleDB clients: TLA+ models and proofs

CuttleDB is an in-memory typed-table server with a line protocol.  This repository holds no
server source; what it holds is everything that talks to the server: a Python and a
JavaScript client, cluster helpers for both, a change-feed replicator, a transport for the
in-process WASM build, a search client and a shell.  The specifications in this directory
model that code.  The server is *external*: its behaviour is taken from how the clients use it
and from `PROTOCOL.md`.

## 1. Inventory

| Component | Source | State | Operations | Peers |
|---|---|---|---|---|
| Change-feed replicator | `adapters/python/cuttledb/replicate.py` | cursor per table, `running`, checkpoint file | `connect`, `run`, `replay_once`, `_replay_event`, `_save_checkpoint`, `stop`, `close` | one primary (`LOG`, `GET`), N replicas (`INSERT`, `DELETE`) |
| JS transports | `adapters/cuttledb.js` 28-259 | `socket`, `_buf`, `_waiters`, listeners | `connect` with AUTH, `send`, `sendBatch`, `close`, socket callbacks | server; application through promises and listeners |
| Python client | `adapters/python/cuttledb/__init__.py` | `_sock`, `_buf`, `_pending_events`, `_lock` | `_connect`, `close`, `send`, `send_raw`, `send_batch`, `poll_events`, `stream_events`, tensor calls, `begin`/`commit`/`rollback`, `transaction` | server |
| Transactions | both clients | none in the client; one transaction per connection in the server | `begin`, `commit`, `rollback`, `transaction` | server, other tasks on the same connection |
| Cluster, Python / JS | `cluster.py`, `cluster.js` | `nodes`, `_primary`, round-robin counter | factories, `connect`, `close`, `primary`, `read_round_robin`, `shard_by`, `write_to_all` | one client per endpoint |
| Wire codec, encryption | both clients, `crypto.py` | none | escaping, splitting, building commands, parsing answers, `encrypt`/`decrypt` | - |
| WASM transport | `adapters/wasm/cuttledb.mjs`, `wasm/cuttledb.mjs` (the same but for an import path) | response buffer in the engine's heap, its file system | `send`, `sendBatch`, `loadSnapshot` | the engine, in process |
| Search client, CLI, benchmarks, demos | `search.py`, `search.js`, `cuttledb-cli.py`, ... | none | stateless calls | - |

What makes this code hard to get right:

* **Answers carry no id.** A client pairs answers with commands by counting.  One line too many
  or too few and every later call gets somebody else's answer, without any error.
* **Events share the socket.** `>EVT` lines come between answers, in the middle of chunks, and
  must neither be taken for an answer nor be lost.
* **Everything outlives the socket.** `_buf`, `_waiters` and `_pending_events` belong to the
  client object; callbacks of an old socket run against the state of the new one.
* **Failures are partial.**  A cluster connects, and writes to, several servers at once; some succeed
  and some fail, while the application closes or connects again.
* **Memory is used again.**  The WASM engine's response buffer is not ended and may hold the tail of
  a longer response.
* **The replicator reads the present to replay the past.** An `INSERT` event holds a row id; the
  row is fetched later, when `DELETE` (swap with last) may have moved another row there.
* **The replicator can die at any point**, and its checkpoint is truncated before it is written.

What makes each component correct:

* **Replicator** - every event at or below a cursor, in memory or on disk, was replayed or had left
  the ring; nothing is replayed twice unless the process is killed; replicas take the primary's row
  ids and come to equal it.
* **JS transports** - a promise resolves with the answers to its own commands, whatever earlier
  responses left in a buffer; listeners hear every event once and in order; every promise settles,
  that of `connect()` too - and what an earlier connection can leave to garble the next is named.
* **Python client** - the same for blocking calls; `send` and `poll_events` hand over one stream of
  events between them; every call ends.
* **Transactions** - a `transaction()` that returned is applied whole, one that raised not at all;
  nothing stays open on the connection but after the failures that are named.
* **Cluster** - shards stay in the order of the endpoints, the primary's client talks to the
  primary, a key goes to the server its hash names, no socket is left behind but those that are named,
  reads are spread evenly, a fanned-out write that succeeded is on every server.
* **Codec, encryption** - what was written is read back, no argument breaks its line, no two calls
  that mean different things send the same command, plaintext of an encrypted cell never leaves the
  client.

## 2. Modules

| Module | Models | Checked by | Proved in |
|---|---|---|---|
| `LogTail` | abstract: an in-order, at-least-once tailer of a bounded ring | `Replicator!ImplementsTail` | `ReplicatorProofs` |
| `Replicator` | `replicate.py`, against an external primary and replicas | `MCReplicator` | `ReplicatorProofs` |
| `Rpc` | abstract: a pipelined channel whose calls settle in order with their own answers | `JsTransport!ImplementsRpc`, `PyClient!ImplementsRpc` | `JsTransportProofs`, `PyClientRpcProof` |
| `JsTransport` | `TcpTransport`, `WsTransport` and `CuttleDB.connect` of `cuttledb.js`, `WasmTransport` of `cuttledb.mjs` | `MCJsTransport` | `JsTransportProofs` |
| `PyClient` | class `CuttleDB` of `__init__.py`: calls, tensor calls, polling | `MCPyClient` | `PyClientProofs`, `PyClientRpcProof` |
| `Filter` | the elements of a sequence that belong to a set, in their order | through `JsTransport`, `PyClient`, `Codec` | `SequenceLemmas` |
| `Transactions` | `transaction()` of both clients and other tasks on the connection | `MCTransactions` | `TransactionsProofs` |
| `Fnv` | `fnv1a` of `cluster.js` in 32-bit arithmetic, and FNV-1a as published | through `Cluster` | - |
| `Cluster` | `Cluster` of `cluster.py` and `cluster.js` | `MCCluster` | `ClusterProofs` |
| `Codec` | encoders, splitters, parsers of strings, encrypted cells | through `Commands` | `CodecProofs` |
| `Commands` | the commands built from options, the parsers of lists, on top of `Codec` | `MCCodec` | `CodecProofs` |

The MC modules add only definitions for constants; each `.cfg` is one instance.  Definitions that
begin with a comment "Mutant:" are not part of the model: each is a plausible bug in the
definition that follows it and shows that a property can fail.

### Replicator

One step is one call to a server, because the client waits for the answer of each; between two
calls the primary's writers may do anything.  `pc` is the point in `run()`:

| `pc` | code | actions |
|---|---|---|
| `down` | not started, or ended | `Start` (`connect`, `_load_checkpoint`) |
| `loop` | `while self.running` | `Loop` |
| `log` | `replay_once` at table `tab` | `Log`, `LogFails` (`continue`), `EndOfPass` |
| `event` | the event loop at event `pos` | `Fetch` (`GET`), `SkipInsert` (row vanished), `StartDelete`, `IgnoreUpdate`, `EndOfBatch` |
| `apply` | the loop over the replicas | `Apply`, with or without a `CuttleDBError` |
| `tick` | after a pass | `SkipCheckpoint`, `Truncate` |
| `saving`, `closing` | inside `write_text`: the file is truncated and not yet written | `WriteCheckpoint`, `CheckpointFails` |
| `close` | `finally: rep.close()` | `Truncate`, `CheckpointFails` |

`Stop` is the signal handler, `Kill` a SIGKILL at any point, `Abort` an exception that `run()` does
not catch.  Whether five seconds have passed since the last checkpoint is a choice.  `seen`,
`again` and `missed` are history: nothing reads them but properties.  The primary's tables with
their swap-with-last `DELETE`, its ring of `RingCap` events per table and the replicas are
external.

### JsTransport

JavaScript runs callbacks to completion, so each is one action: `Data` (`_onData`, `_onMessage`),
`SocketError`, `SocketClosed`, `Established`, and the application's `Send` and `Close`.  The
transport's fields are shared by all sockets it ever opened, and the callbacks of an old socket run
on them - here nothing is per socket but `link`, `toServer` and `toClient`.  Over TCP a line comes
in two pieces, so that chunks end in the middle of one.  `dial` and `login` make up the promise of
`CuttleDB.connect()`: the transport's, and then that of the AUTH it sends before anything else can.

With `CarefulReconnect` the application calls `close()` and sees every socket closed before it
connects again.  That is all it can do, and not enough: `_buf` and `_waiters` are nobody's to see.
`over` records what a connection was made over, half a line or waiters, `torn` whether a
connection ended in the middle of a line.  The promises of the transport hold until a connection is
made over such a leftover (`EventsInOrder`, `ImplementsRpc`, `EveryCallSettles`,
`EveryConnectSettles`); `LeftoversAreNamed` says which there can be, and section 4
what comes of each.

With `transport = "wasm"` there is no socket: `SendInProcess` runs the commands of a call at once
(`Exec`), each answer read from a buffer that holds what an earlier one left (`Response`) or empty
when the engine returns no length (`Returns`), until the engine traps; `Resume` is the later turn in which the caller meets the answers.  `LoadSnapshot`
writes a file and has it read under the same name before anything else runs.

### PyClient

A step is one `recv` or the consumption of one line.  `buf`, `pending`, `sock` are the fields
`_buf`, `_pending_events`, `_sock`; `pc` says which `recv` the caller is at.  A `Timeout` leaves the
call and its answers behind, `-ERR` in a batch leaves the rest of the answers, `Close` keeps the
buffers.  The tensor calls (`matmul`) read their header without routing events and their payload
from `_buf` and the socket.

### Transactions

Tasks share one connection.  A call is two steps, the server's and the client's, so that other
tasks' calls fall between the calls of one `transaction()`.  Python and JavaScript differ where the
code does: in Python `commit()` stands outside the `try` and only `Exception` is caught, in
JavaScript `commit()` is inside it and everything is.

In Python `recv` may time out while the server executes the command (`TimesOut`): the call raises on
a connection in working order, and its answer stays behind in `unread` for a later call to take for
its own (`ReadsUnread`).  `stranded` is history, the tasks whose `begin()` raised although BEGIN was
accepted; so is `astray`, whether a call has read an answer that is not its own.  `AllOrNothing` and
`JoinedShareFate` speak of the time before that; `NothingLeftOpen` of any time.

### Cluster

A client is a number in `Dials` with the state of its socket.  Python dials one endpoint after the
other and appends to `nodes`, and reads in three steps under a lock that `close()` does not take.
AUTH may fail when the socket is already open (`"refused"`): Python then drops the client that holds
it, JavaScript keeps it among the nodes.  JavaScript replaces `nodes`, dials all at once and may be called again, or closed, meanwhile.
A read of a cluster without nodes raises in Python and returns `undefined` in JavaScript, where it
uses up a turn all the same (position 0 of `picks`).
`tidy` is history: the application has so far closed and waited before it connected again, and in
Python read only what was connected.
`factory` says that the cluster comes from `withPrimaryAndReplicas()` or `sharded()` and is out of
reach until its `connect()` has returned.

`fan` is a call of `writeToAll()`: the nodes there were when it was called and what became of each,
settling in any order in JavaScript and one after the other in Python; `stored` is history and
counts how often the server of each endpoint applied the write.  `ShardByKey` is the hash of
`cluster.js`, bit by bit in `Fnv`, and `ShardBy` a custom function or Python's `hash()`.

### Codec

A string is a sequence of characters from `Chars`, of which those that mean something to a decoder
are constants.  The actions are the calls `insert`/`insert_enc`, `update_row_str` and
`exec_str_kernel`; the row goes through the client's encoder, the server's decoder, the server's
encoder and the client's decoder.  All decoders are one walk (`Walk`, a `Step` for each character), which for a text undoes the escapes,
in mode `raw` keeps them for the next walk and in mode `plain` is `str.split`.  `ParseRowlistPy` has
Python's fast path, `ParseRowlistJs` has none.

### Commands

A call is a record of a method and its arguments, a command a sequence of atoms (verbs, numbers,
words, separators; numbers and names in answers are made of `Atoms`).  There is one builder for each method with options (`GroupBy`, `JoinTables`,
`Knn`, `Search`, `Findc`, `Create`, ...); all others put their arguments in place (`Positional`).
`Ask` is a call with the list it is answered by, which the parser of the method (`Shape`) reads.
`Meaning` says which calls mean the same, `Blurred` what a command cannot carry: fractions that are
truncated, a search text with ` WHERE `, and column prefixes with a bar or a comma, which Python joins
without an escape.  Only Python has options for columns (`Offers`).

## 3. Runs

| Run | Instance | What it shows |
|---|---|---|
| `replicator_failures` | 2 tables, 1 replica, 2 events each, ring of 1, 2 starts, all failures | `TypeOK`; no event at or below a cursor is lost (`NoEventLost`); refinement of `LogTail` |
| `replicator_converges` | 1 table with a snapshot row, 2 replicas, 4 events, 2 starts, no failures; deletes wait for the replay | nothing twice over a graceful restart, equal when caught up, equal row ids, eventual equality |
| `replicator_racing` | 1 table, 1 replica, 3 events, deletes at any time | violates `EventuallyConsistent` |
| `js_calls` | TCP, WebSocket and WASM, with and without AUTH, 2 requests of 1 or 2 commands, 2 connections with 2 events each, refusals, breaks and traps | waiters = missing answers; events in order, refinement of `Rpc` and every promise settled, that of `connect()` too, until a connection is made over leftovers; which leftovers there can be |
| `py_stream` | 1 connection, 2 calls, 2 events, timeouts, -ERR anywhere | no line of the stream is lost, repeated or overtaken, even by a client that fell behind |
| `py_in_step` | a subscribed connection, then one for tensor calls, 3 calls, breaks | with no timeout and no -ERR inside a batch: refinement of `Rpc`, every call ends |
| `py_batch_error` | one batch of 2 | violates `OwnAnswers` |
| `py_stuck_event` | one call, one event | violates `EventsAreDrained` |
| `transactions` | both languages, two `transaction()` of 2 and 1 writes, another writer, breaks, one timed-out answer unread at a time | all or nothing, nothing left open but for the failures named, joined writes share the fate, every transaction ends |
| `cluster` | both languages, constructor and factories, 2 endpoints and a primary inside, outside or absent, 2 connects, 2 readers and 4 reads, of a closed cluster too, or one write to all, 3 keys, dials that fail before and after the socket is open | primary, shards and their hash, leaks, round robin, honesty of `writeToAll`, each for the applications its comment names |
| `cluster_retry` | Python, 2 endpoints, the second the primary | violates `WritesGoToPrimary` |
| `codec` | 1 or 2 columns, 2 rows, 8 strings, any or no encrypted first column; calls of every method that give or leave out each option, Python's column options included | written = read, on every path; commands tell calls apart but for what `Blurred` names; lists read back |

**Bounds.**  The hazards of counting answers need two calls in flight and a batch; those of
reconnecting need a second connection; those of events need one before and one after an answer.
Two tables are the least for which a pass can abort between tables; a ring of one event is the
smallest that overruns, and each larger one is covered by the proof.  Two starts are needed for a
restart; three would repeat it.  Two replicas are the least that can diverge from each other; for
swap-with-last to move a row two rows must be there, one of which is the snapshot's, and four
events allow insert, delete and insert again.  Two transactions and a writer are the least in
which one task joins a transaction, another is refused and a third commits; one unread answer is
enough to strand a BEGIN and to lead every later call astray.  Two endpoints suffice
for order and parity of the round robin, four reads go around it twice; reads and writes to all have only
the nodes in common, and the run explores each without the other (`ReadsOrWrites`).  Six dials are two connects
with a primary each; one write to all, of two nodes, is enough for one to fail and one to be late.
The keys are the empty one, a letter and one whose bits reach all halves of a word; its codes
above 255 are hashed as `cluster.js` does, a 16-bit code at a time, and `Published` takes a code for
an octet as well.  The
strings of `codec` put every character a decoder acts on next to a backslash, a separator or the
letters that follow one.

**Deadlock** is checked in the two runs of the replicator that state liveness; in all others the
system may rest because the application has made its calls, the process was started as often as
the bound allows, or the table is full.

**Fairness.**  `Replicator`: the loop keeps running and whoever supervises the process starts it
again; nothing of the writers.  `JsTransport`: the event loop runs the callbacks that are due, and
a server that is not cut off answers and closes after a half-close, and the network makes a
connection or refuses it; a caller that awaits an answer of the WASM engine goes on.  `PyClient`: a call goes on
reading, the server answers, a listener (`for evt in events`) polls again, and what is in flight
does not stay out of every one of infinitely many polls - hence strong fairness of `SomeArrived`,
which a poll that timed out disables.  `Transactions`: calls are answered, time out or fail, bodies end.
Calls, pushes, connects and failures are never assumed to happen.

## 4. Disagreements found

| Run | Where | What |
|---|---|---|
| `replicator_racing` | `replicate.py:157` | `GET` returns the row as it is now: a `DELETE` in between makes the replica keep a different table for good; `DEPLOYMENT.md:230` promises eventual consistency |
| `py_batch_error` | `__init__.py:455` | `send_batch` raises at the first -ERR and leaves the remaining answers to the next call |
| `py_stuck_event` | `__init__.py:1436` | `poll_events` looks into `_buf` only after another `recv` returned something |
| `cluster_retry` | `cluster.py:123` | a `connect()` repeated after a failure pairs endpoints with other endpoints' clients |

Met while modelling, without a run of their own:

* nothing empties `_buf` (`cuttledb.js:55`): half an event line of a connection that broke is glued to
  the first line of the next one, however long the application waits before it reconnects
  (`EventsArePushed` as an invariant of `JsTransportCalls.cfg`);
* `socket` stays set after the socket has closed (`cuttledb.js:79`): a request made then leaves a waiter,
  which takes the first answer of the next connection (`WaitersAreInFlight`, likewise);
* `begin()` stands before the `try` of Python's `transaction()` (`__init__.py:563`): when its answer
  times out nobody rolls back, and the transaction stays open on a connection in working order, where
  the docstring promises that it "rolls back on exception" (`RollsBackOnException` as an invariant of
  `Transactions.cfg`);
* a kill between a replay and the next checkpoint (at most 5 s) replays inserts; the copies take new
  row ids, against `replicate.py:22-24` (add `"kill"` to `Faults` in `ReplicatorConverges.cfg`);
* a replica bootstrapped from a snapshot inserts the snapshot's rows again if their events are
  still in the ring (`RingHasSnapshot = TRUE`);
* `U` events are ignored "until the server emits them" (`replicate.py:171`), which `PROTOCOL.md`
  says it does (allow `"U"` in `Ops`);
* a call that timed out leaves its answer to the next (`Timeouts = TRUE` with `OwnAnswers`), and
  `begin()` of Python takes any `+OK` for its own;
* an event between command and answer of a tensor call is taken for its header (a connection both
  in `Subscribed` and with `"matmul"`);
* `poll_events(0)` raises `BlockingIOError` when nothing has arrived;
* `sendBatch([])` over TCP writes a blank line, whose `-ERR empty` settles the next request (0 in
  `BatchSizes`); the call itself never settles;
* an application that reconnects before the old socket has closed has its new requests rejected by
  the old socket's callback (`CarefulReconnect = FALSE`);
* a Python client whose AUTH is refused or times out has its socket already (`__init__.py:377-380`):
  `Cluster.connect()` raises and drops it, and only the garbage collector closes the socket
  (`NothingLeaks` names these);
* `readRoundRobin()` of a closed JavaScript `Cluster` returns `undefined` and moves the counter on
  (`RoundRobin` counts it);
* overlapping `connect()` or `close()` of a JavaScript `Cluster` leaves sockets nobody closes;
* a WebSocket that broke leaves `socket` set, so that a second `connect()` without `close()` that
  fails never settles (`CarefulReconnect = FALSE` with `EveryConnectSettles`);
* a factory of the JavaScript `Cluster` whose `connect()` fails leaves the sockets that did connect
  to an object nobody has; `writeToAll()` without nodes returns as if it had written;
* `shardBy()` with a function that returns a negative number gives `undefined` in JavaScript;
* `find`, `findc`, `lsearch`, `bsearch`, `save`, `load` and `where` send their texts unescaped: one
  with a newline is two commands; a search text with ` WHERE ` reads like a filter;
* a listener that throws ends `_onData`: over TCP the lines behind the event wait for the next
  chunk, over WebSocket they are dropped with the frame, answers included;
* the search clients raise other errors than `CuttleSearchError` when the body breaks off, Python's
  also when it is not JSON;
* `KeyboardInterrupt` in the body of Python's `transaction()` leaves the transaction open;
* `PROTOCOL.md:99` requires five characters to be escaped; the value encoders escape four (no
  `;`) - harmless, the run `codec` shows, because a row is not split on it;
* prefixes of a column are joined with `|` and columns with `,` unescaped (`__init__.py:135`, 528):
  `("a|b",)` and `("a", "b")` send the same command;
* Python truncates the thresholds of `update_where`, `delete_where` and `HAVING` with `int()`, but
  sends those of `select_gt` and `fcount_gt` as they are; JavaScript truncates only `HAVING`.

## 5. Proofs

Every invariant but one and every refinement that a passing run checks is proved
for all values of the constants - any number of tables, replicas, connections, calls, endpoints,
tasks and writes, any strings, rows and lists - under the assumptions the modules state about their constants and those named
here.  Exceptions are listed at the end.

| Theorem | States | Under |
|---|---|---|
| `ReplicatorProofs`: `TypeCorrect`, `CheckpointCovers`, `StopAndStartRepeatNothing` | `TypeOK`, `NoEventLost`, `NothingRepeated` | - |
| `CaughtUpEquals` | `CaughtUpInSync` while the ring missed nothing | `InStepAssumption` |
| `ReplicasCatchUp`, `RowIdsAreThePrimarys` | `CaughtUpInSync`, `RowIdsMatch` | `InStepAssumption`, `MaxEvents <= RingCap` |
| `Refinement` | `ImplementsTail` | - |
| `TransactionsProofs`: `TypeCorrect`, `TransactionsAreAtomic`, `NoTransactionLeftBehind`, `WritesShareFate` | `TypeOK`, `AllOrNothing`, `NothingLeftOpen`, `JoinedShareFate` | - |
| `ClusterProofs`: `TypeCorrect`, `PrimaryIsThePrimary`, `SocketsAreFound`, `ReadsAreSpread`, `WritesReachAll` | `TypeOK`, `PrimaryIsWanted`, `NothingLeaks`, `RoundRobin`, `WriteToAllIsHonest` | - |
| `ShardsStayInPlace` | `EveryShardInPlace` | `HashAsPublished` |
| `JsTransportProofs`: `TypeCorrect`, `WaitersStayDue` | `TypeOK`, `WaitersAreDue` | - |
| `EventsArriveInOrder`, `LeftoversHaveNames` | `EventsInOrder`, `LeftoversAreNamed` | `CarefulReconnect` |
| `ImplementsChannel` | `ImplementsRpc` | `CarefulReconnect`, 1 but not 0 in `BatchSizes` |
| `PyClientProofs`: `TypeCorrect` | `TypeOK` | - |
| `EventsReachTheListener` | `EventsExact` | `NoTensors` |
| `PyClientRpcProof`: `EveryCallReadsItsOwn`, `ImplementsChannel` | `OwnAnswers` (which the run `py_batch_error` violates without `Orderly`), `ImplementsRpc` | `Orderly` |
| `AnswersAreReadInOrder` | `AnswersExact` | `NoTensors`, `MaxConns = 1` |
| `CodecProofs`: `CodecTypeCorrect`, `CodecRowsReadBack`, `CodecRowlistReadBack`, `CodecGroupsReadBack`, `CodecOnlyTokensStored`, `CodecExecArgsArrive` | `TypeOK`, `RowsReadBack`, `RowlistReadBack`, `GroupsReadBack`, `OnlyTokensStored`, `ExecArgsArrive` | `CodecAssumption` |
| `CodecOneLine` | `OneLine`, of the calls of `Codec` | `CodecAssumption` |
| `CommandsListsReadBack` | `ListsReadBack` | `CommandsAssumption` |

What a theorem assumes is what its run assumes, and each is there because the property fails without
it; section 4 names the failure.

* `InStepAssumption`: deletes wait for the replay, no failures, the ring does not hold the rows of
  the snapshot.  Otherwise `GET` fetches another row, or events are replayed twice.
* `HashAsPublished`: the 32-bit `fnv1a` gives the published FNV-1a on the keys.  TLC computes both
  in the run `cluster`; `Bitwise` is out of the provers' reach.
* `CarefulReconnect`: the application calls `close()` and waits for the old socket to close.
  Otherwise the old socket's callback rejects the new requests.  Nothing is assumed of `_buf` and
  `_waiters`: the two properties end with the first connection that is made over something in them.
* 0 not in `BatchSizes`: `sendBatch([])` is answered without a command.  1 in `BatchSizes`: AUTH is a
  request of one command, which the mapping needs `Rpc` to allow.
* `Orderly`: no call times out, no command of a batch is refused, tensor calls are made only on
  connections that authenticated and have no subscription.  A timeout or a refusal leaves answers to
  the next call; an event where a tensor's header is due is taken for it; and AUTH is needed because
  what an earlier connection left in `_buf` is read before the first answer of the next.
* `NoTensors`: read as text, raw bytes and the next line, be it an event, make one line.
* `CodecAssumption`: the characters with a meaning are ten different ones, and no text begins with the
  prefix `enc:v1:`: an old plaintext that begins like a token raises in `decrypt`.
* `CommandsAssumption`: the lists of an answer have the shape of their method, and the numbers and
  names in them hold no separator - but for the value of a `key=value`, which may hold `=`.
* `MaxConns = 1`: the commands lost with a connection are never answered.

### The inductive invariants

None of the properties is inductive; each module names what has to be added.

**Replicator.**  `NoEventLost` speaks of the position and the checkpoint, but a step moves the
position to what `LOG` returned, or back to the cursor, or the cursor to the end of the batch.
`IInv` adds `BatchInFeed` (the batch lies within the feed, behind its cursor), `Ordered`
(`saved <= cursors` while the process lives, both within the feed), `Accounted` (everything at or
below the checkpoint, the cursor *and* the position is in `seen` or `missed` - the three places a
later step may continue from) and `GivenUpToRing` (what was missed had left the ring).  `Unrepeated` adds that what was replayed
stands below the position, unless the process died.  `InStep` relates each replica to the primary:
while no event was missed, the rows of the replica, with the events still to be replayed applied to them, are the
primary's (`Behind`); a row fetched for an insert is the one the insert made.  For the refinement
each step is mapped: `Write` to `Publish`, the last replica's `Apply`, `SkipInsert` and
`IgnoreUpdate` to `Deliver`, `Log` to `Overrun` or a stutter, the checkpoint's to `Acknowledge` (a
torn file acknowledges nothing), `Start` and `Abort` to `Rewind`, the rest to a stutter.

**Transactions.**  Whichever answers are read by whom, the transaction on the connection belongs to a
task that is yet to end it, or that left it interrupted or stranded (`Owned`); answers are lost or
left unread only by breaks and timeouts (`Reading`).  Until a call reads an answer that is not its
own, that task alone believes to be in a transaction (`OneOwner`), its COMMIT decides over all that is
buffered (`Buffering`, `Fate`), and a task's view of its own writes agrees with the server's
(`Acknowledging`), which is how a `transaction()` that returned can be known to be whole: a task that
did not hear of a write finds that answer ahead of the one to its COMMIT (`Unheard`).  `Joining`,
`Answering`, `Numbered` and `Staging` support these.

**Cluster.**  The properties speak of the nodes and the primary of now; `Filed` and `Connected` say
what each `connect()` has made of its own, `Current` and `Primary` that a tidy application uses
what its latest one made, `Clients` that a new client is referred to by nobody yet, `InTurn` which
calls may overlap, `Found` that every socket is held by someone, `Even` how far the round robin is
at every moment of a read, `Dropped` that a Python client whose AUTH failed is nobody's and the only
one of its `connect()`, `Fanned` that a write to all reached each server at most once.

**JsTransport.**  `WaitersAreDue` needs that requests are made in order (`Numbered`) and that the
WASM engine leaves no waiter (`InProcess`).  The refinement rests on two more layers.  `Delivery`: at most
one connection is alive, although callbacks of others still come (`OneLive`); what is buffered and
under way are lines, of which only the first may lack its head (`Framed`); heard, buffered and
under way are the events pushed (`HeardAt`).  `Correct`: the answers under way and the commands
without an answer are those the waiters lack, oldest first (`Matched`); what a promise has
collected is the beginning of its own answers (`Filed`).  Both layers hold until a connection is
made over leftovers (`over`), and that only those that are named can be there is a layer of its own
(`Leftovers`): a connection that ended with a line leaves nothing of it (`WholeUnlessTorn`), and when
all have closed only orphans wait (`OnlyOrphansWait`).  A step maps to `Issue`, `Advance`,
`FailAll` or a stutter of `Rpc`.  For `loadSnapshot` and responses in process the text of an answer
is shown to be free of what an earlier one left in the engine's buffer.

**PyClient.**  `EInv`: the socket in use is the latest and a new one starts with nothing pushed
(`InUse`), calls are made in order (`Made`), lines are read one by one (`Plain`), a poll that asks
the socket found nothing queued (`Unqueued`), and then heard, queued, buffered and under way are
the events pushed, in order (`Exactly`).  `RInv`, for the refinement: the answers under way and the
commands without an answer are those the call that reads still lacks, and there are none when no
call reads (`InStep`); no event stands among raw bytes (`Quiet`); the earlier calls read their own
answers (`Filed`).  `AInv`, for `AnswersExact`, where a client may fall behind: read, under way and
to be answered, one after the other, are what was asked, from before the connect on (`Counted`).

**Codec.**  The properties speak of what is read, `AsWritten` of what the server holds: the rows as they
were written, tokens where they were encrypted, and a kernel's arguments as they were given.  Every
step keeps it, and every property follows from it, because a decoder takes back what the encoder on
the other side made: `Encode`, though one pass over the text for each escape, escapes character by
character (`EncodeConcat`), which holds because the backslash comes first; in mode text each of these
characters or pairs adds one character to the walk, in mode raw itself, and none of them separates
parts (`Adds`, `EncodedAdds`); so the split of the parts joined is the parts (`SplitJoin`), within a row,
and again for the rows of a rowlist.  A key of GROUPBY is not escaped; it is read component by component
(`KeyReads`), and the groups and the lists of `Commands`, which `Answered` says are what the server
answered, hold no separators of their own (`PlainParts`, `PartitionAt`).

**SequenceLemmas** says what these proofs keep needing: that the recursive functions along
sequences exist and what they compute when the sequence grows or loses an element (`Kept`, and
sequences of sequences joined into one).  The library's induction theorems take an operator as a
parameter, which no installed prover can instantiate; `SetInduction` says the same of a set of
naturals, and induction over the length of a sequence goes through it.

### Only model-checked

* All liveness (`EventuallyConsistent`, `EveryCallSettles`, `EveryConnectSettles`, `EveryCallEnds`,
  `EveryTransactionEnds`): fairness and ENABLED are beyond the prover.
* `LinesTellCallsApart`: a proof would have to assume the grammar of the arguments of every method -
  which texts are numbers, which may hold spaces - and most of it would be that assumption.  For the
  commands of `Commands`, whose arguments are sent as they are, `OneLine` is checked for the calls of
  the run too.
* `Fnv`, which needs `Bitwise`.

## 6. Not modelled

* The server: its source is not in the repository.
* The search client: one HTTP GET per call and no state; what could be said of it is which errors it
  wraps (section 4).  The shell, benchmarks, demos: scripts over the clients.
* TLS, address parsing, command lines, reprs; the wrappers that only format a command and parse a
  number; floating-point values.
* More than one thread in `PyClient`: `send`, `send_batch` and `poll_events` exclude each other with
  one lock; the tensor calls do not take it, and concurrent use of them is left out.
* A listener that throws out of `_onData`; `on()` and the removal of listeners.
* Newlines in texts that are sent unescaped, and `sendBatch([])`, in the runs.
* A connection that is closed and opened again under a running `transaction()`.
* A timeout of `sendall`, with half a command sent, and an interrupt during a call.
* When the garbage collector closes the socket of a client that was dropped.

## 7. Plan

1. Done: `Replicator` with `LogTail`, `JsTransport` and `PyClient` with `Rpc`, `Transactions`,
   `Cluster` with `Fnv`, `Codec` with `Commands`; proofs of their invariants and refinements, all
   but `LinesTellCallsApart` (section 5).
2. Prove: `CaughtUpInSync` after calls that were refused (for a ring that overruns but missed nothing
   it is proved); consequences of `Rpc` and `LogTail` for whatever implements them (no event is
   acknowledged undelivered, no answer is given twice).
3. Extend: a listener that throws; reconnecting under a `transaction()`; the numeric EXEC kernels.
4. Liveness stays with TLC.
