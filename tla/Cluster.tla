------------------------------- MODULE Cluster -------------------------------
(***************************************************************************)
(* Cluster of cluster.py and cluster.js: one client per endpoint, one of   *)
(* them the primary, a round-robin counter for reads, a hash that routes   *)
(* keys to shards, and writes fanned out to all nodes.                     *)
(*                                                                         *)
(* In Python connect() dials one endpoint after the other and read_round_  *)
(* robin() takes a lock that close() does not; in JavaScript connect()     *)
(* dials all endpoints at once and everything else may run meanwhile.      *)
(* write_to_all() writes to one node after the other, writeToAll() to all  *)
(* at once.                                                                *)
(*                                                                         *)
(* The clients (CuttleDB objects) are modelled by what their connect() and *)
(* close() do, and by whether a write through them is applied and answered; *)
(* their servers are external.                                             *)
(***************************************************************************)
EXTENDS Fnv

CONSTANTS
  Langs,      \* the languages: "py" and "js"
  Endpoints,  \* the endpoints, or nodeOpts, given to the constructor
  Primaries,  \* the primaries it may be given: endpoints, or None
  Readers,    \* the threads or tasks that call read_round_robin
  MaxDials,   \* bound: clients made
  MaxConnects,\* bound: calls of connect()
  MaxTurns,   \* bound: the round-robin counter
  MaxFans,    \* bound: calls of writeToAll(), 0 or 1
  Keys,       \* the keys given to shardBy(), as character codes
  Hashes,     \* what a function given to shardBy() returns, what hash() returns
  Fails       \* may a connect fail?

None == [none |-> TRUE]
N    == Len(Endpoints)
Hosts == ToSet(Endpoints) \cup (Primaries \ {None})
Dials == 1 .. MaxDials
Connects == 1 .. MaxConnects

ASSUME ClusterAssumption ==
  /\ Langs \subseteq {"py", "js"}
  /\ Endpoints \in Seq(ToSet(Endpoints)) /\ N > 0 /\ IsInjective(Endpoints)
  /\ MaxDials \in Nat /\ MaxConnects \in Nat /\ MaxTurns \in Nat /\ MaxFans \in {0, 1}
  /\ Hashes \subseteq Int /\ Fails \in BOOLEAN /\ None \notin Readers

VARIABLES
  lang,
  factory,  \* made by a factory, which hands it over once connected
  wanted,   \* primary_endpoint, primaryOpts
  named,    \* JavaScript: do the options name their transport?
  link,     \* link[c]: how client c stands, see Links
  at,       \* at[c]: the endpoint of client c
  nodes,    \* the clients, in order
  primary,  \* the primary's client, 0 for none
  call,     \* call[k]: where the k-th connect() is
  mine,     \* mine[k]: the clients it made for the endpoints
  extra,    \* extra[k]: the client it made for a primary outside the list, 0 for none
  turn,     \* _rr_idx
  lock,     \* the thread that holds the lock, or None
  read,     \* read[r]: what reader r has loaded
  picks,    \* history: how often each position was returned, 0 for undefined
  fan,      \* the call of writeToAll(): its nodes and what became of each
  stored,   \* history: how often the server of each endpoint applied the write
  tidy      \* history: has the application kept to connect, read, close?

conns   == <<link, at>>
calls   == <<call, mine, extra>>
reading == <<turn, lock, read, picks>>
writing == <<fan, stored>>
chosen  == <<lang, factory, wanted, named>>
vars    == <<chosen, conns, nodes, primary, calls, reading, writing, tidy>>

Stages == {"idle", "nodes", "primary", "returned", "raised"}
\* A client is dialing until its AUTH is answered; refused: the socket is open,
\* AUTH failed.
Links  == {"unused", "dialing", "open", "closed", "failed", "refused"}
Unread == [list |-> <<>>, index |-> -1, chosen |-> FALSE]
NoFan  == [stage |-> "idle", list |-> <<>>, result |-> <<>>]

\* The variables have their types, and whoever reads in Python holds the lock.
TypeOK ==
  /\ lang \in Langs /\ wanted \in Primaries \cup {None, Endpoints[1]}
  /\ factory \in BOOLEAN /\ named \in BOOLEAN /\ tidy \in BOOLEAN
  /\ link \in [Dials -> Links]
  /\ at \in [Dials -> Hosts \cup {None}]
  /\ nodes \in Seq(Dials) /\ primary \in 0 .. MaxDials
  /\ call \in [Connects -> Stages] /\ mine \in [Connects -> Seq(Dials)]
  /\ extra \in [Connects -> 0 .. MaxDials]
  /\ turn \in Nat /\ lock \in Readers \cup {None}
  /\ read \in [Readers -> [list : Seq(Dials), index : Nat \cup {-1}, chosen : BOOLEAN]]
  /\ \A r \in Readers : read[r] # Unread => lock = r
  /\ picks \in [0 .. N -> Nat] /\ stored \in [1 .. N -> Nat]
  /\ fan \in [stage : {"idle", "running", "returned", "raised"}, list : Seq(Dials),
             result : Seq({"pending", "ok", "failed"})]

Constructed            == ~factory /\ wanted \in Primaries
WithPrimaryAndReplicas == factory /\ wanted = Endpoints[1]
Sharded                == factory /\ wanted = None

Init ==
  /\ lang \in Langs /\ factory \in BOOLEAN /\ wanted \in Primaries \cup {None, Endpoints[1]}
  /\ Constructed \/ WithPrimaryAndReplicas \/ Sharded
  /\ named \in (IF lang = "js" THEN BOOLEAN ELSE {TRUE})
  /\ link = [c \in Dials |-> "unused"] /\ at = [c \in Dials |-> None]
  /\ nodes = <<>> /\ primary = 0
  /\ call = [k \in Connects |-> "idle"] /\ mine = [k \in Connects |-> <<>>]
  /\ extra = [k \in Connects |-> 0]
  /\ turn = 0 /\ lock = None /\ read = [r \in Readers |-> Unread]
  /\ picks = [i \in 0 .. N |-> 0] /\ tidy = TRUE
  /\ fan = NoFan /\ stored = [i \in 1 .. N |-> 0]

-----------------------------------------------------------------------------
(* Clients.                                                                *)

Made      == {c \in Dials : link[c] # "unused"}
Fresh     == Cardinality(Made) + 1
IsOpen(c) == link[c] \in {"open", "refused"}
\* The latest connect() has returned.
Usable    == \E k \in Connects : /\ call[k] = "returned"
                                  /\ \A j \in Connects : j > k => call[j] = "idle"
\* A factory whose connect() fails keeps the cluster to itself.
InHand    == factory => \E k \in Connects : call[k] = "returned"
InFlight  == {k \in Connects : call[k] \in {"nodes", "primary"}}

\* CuttleDB.connect or new CuttleDB(...).connect(): n clients, one for each of hosts.
Dial(hosts, s) ==
  LET new == Fresh .. Fresh + Len(hosts) - 1 IN
  /\ Fresh + Len(hosts) - 1 <= MaxDials
  /\ link' = [c \in Dials |-> IF c \in new THEN s ELSE link[c]]
  /\ at' = [c \in Dials |-> IF c \in new THEN hosts[c - Fresh + 1] ELSE at[c]]

CloseAll(cs) == [c \in Dials |-> IF c \notin cs THEN link[c]
                                 ELSE CASE link[c] = "open" -> "closed"
                                        [] link[c] = "refused" -> "failed"
                                        [] OTHER -> link[c]]

\* Mutant: close() leaves the primary alone.
CloseNodes == CloseAll(ToSet(nodes))

\* close() of the nodes and of a primary that is none of them.  A client that
\* is still dialing has no socket to close, and goes on.
Closed == CloseAll(ToSet(nodes) \cup {primary})

Close ==
  /\ nodes # <<>> \/ primary # 0
  /\ InHand
  /\ lang = "py" => InFlight = {}
  /\ link' = Closed
  /\ nodes' = <<>> /\ primary' = 0
  /\ tidy' = (tidy /\ InFlight = {} /\ \A c \in Dials : link[c] # "dialing")
  /\ UNCHANGED <<chosen, at, calls, reading, writing>>

-----------------------------------------------------------------------------
(* connect().                                                              *)

Go(k, s) == call' = [call EXCEPT ![k] = s]

\* In JavaScript a client for every endpoint replaces this.nodes at once.  In
\* Python "with" skips connect() when there are nodes.
Connect(k) ==
  /\ call[k] = "idle" /\ \A j \in 1 .. k - 1 : call[j] # "idle"
  /\ k > 1 => InHand
  /\ lang = "py" => fan.stage # "running"
  /\ tidy' = (tidy /\ InFlight = {} /\ nodes = <<>> /\ primary = 0 /\ lock = None
                   /\ \A c \in Dials : link[c] # "dialing")
  /\ \/ /\ lang = "py" /\ InFlight = {} /\ Go(k, "nodes")
        /\ UNCHANGED <<conns, nodes, mine>>
     \/ /\ lang = "py" /\ InFlight = {} /\ nodes # <<>> /\ Go(k, "returned")
        /\ UNCHANGED <<conns, nodes, mine>>
     \/ /\ lang = "js" /\ Go(k, "nodes")
        /\ Dial(Endpoints, "dialing")
        /\ nodes' = [i \in 1 .. N |-> Fresh + i - 1]
        /\ mine' = [mine EXCEPT ![k] = nodes']
  /\ UNCHANGED <<chosen, primary, extra, reading, writing>>

\* Python: the next endpoint.  A failure leaves the nodes before it; one of AUTH
\* comes when the client has its socket, and the client is dropped with it.
DialNext(k) ==
  LET Makes(s) == /\ Dial(<<Endpoints[Len(mine[k]) + 1]>>, s)
                  /\ mine' = [mine EXCEPT ![k] = Append(@, Fresh)]
  IN
  /\ lang = "py" /\ call[k] = "nodes" /\ Len(mine[k]) < N
  /\ \/ Makes("open") /\ nodes' = Append(nodes, Fresh) /\ UNCHANGED call
     \/ Fails /\ Go(k, "raised") /\ UNCHANGED <<conns, nodes, mine>>
     \/ Fails /\ Go(k, "raised") /\ Makes("refused") /\ UNCHANGED nodes
  /\ UNCHANGED <<chosen, primary, extra, reading, writing, tidy>>

\* JavaScript: a dial comes to an end; its client stays where it is.
DialEnds(c) ==
  /\ link[c] = "dialing"
  /\ \E s \in {"open"} \cup (IF Fails THEN {"failed", "refused"} ELSE {}) :
       link' = [link EXCEPT ![c] = s]
  /\ UNCHANGED <<chosen, at, nodes, primary, calls, reading, writing, tidy>>

\* Promise.all rejects with the first failure, whatever the others do.
ConnectRejects(k) ==
  /\ lang = "js" /\ call[k] \in {"nodes", "primary"}
  /\ \E c \in (ToSet(mine[k]) \cup {extra[k]}) \ {0} : link[c] \in {"refused", "failed"}
  /\ Go(k, "raised")
  /\ UNCHANGED <<chosen, conns, nodes, primary, mine, extra, reading, writing, tidy>>

\* Mutant: the primary is looked for among the nodes from the back, one off.
PrimaryNodeOff(i) == nodes[(i % Len(nodes)) + 1]

\* The node at the position of the primary's endpoint.
PrimaryNode(i) == nodes[i]

\* Mutant: Promise.any for Promise.all.
ReadyEarly(k) ==
  /\ call[k] = "nodes" /\ Len(mine[k]) = N
  /\ \E c \in ToSet(mine[k]) : link[c] \in {"open", "closed"}

\* All that connect() made for the endpoints have connected.
Ready(k) ==
  /\ call[k] = "nodes" /\ Len(mine[k]) = N
  /\ \A c \in ToSet(mine[k]) : link[c] \in {"open", "closed"}

\* Options that leave the transport to the default are never the same endpoint.
SameEndpoint(i) == named /\ Endpoints[i] = wanted

\* All nodes are connected: the primary is one of them, or gets a client of its
\* own, or there is none.  zip and findIndex go by position in the lists; when
\* close() has emptied them, JavaScript reads undefined.
ChoosePrimary(k) ==
  LET found == {i \in 1 .. N : SameEndpoint(i)} IN
  /\ Ready(k)
  /\ \/ /\ wanted = None /\ Go(k, "returned") /\ UNCHANGED <<conns, primary, extra>>
     \/ /\ found # {} /\ Go(k, "returned") /\ UNCHANGED <<conns, extra>>
        /\ \E i \in found : primary' = IF i <= Len(nodes) THEN PrimaryNode(i) ELSE 0
     \/ /\ wanted # None /\ found = {} /\ lang = "py" /\ primary # 0
        /\ Go(k, "returned") /\ UNCHANGED <<conns, primary, extra>>
     \/ /\ wanted # None /\ found = {} /\ lang = "py" /\ primary = 0
        /\ \/ Dial(<<wanted>>, "open") /\ primary' = Fresh /\ Go(k, "returned") /\ UNCHANGED extra
           \/ Fails /\ Go(k, "raised") /\ UNCHANGED <<conns, primary, extra>>
           \/ /\ Fails /\ Go(k, "raised") /\ Dial(<<wanted>>, "refused")
              /\ extra' = [extra EXCEPT ![k] = Fresh] /\ UNCHANGED primary
     \/ /\ wanted # None /\ found = {} /\ lang = "js"
        /\ Dial(<<wanted>>, "dialing") /\ primary' = Fresh
        /\ extra' = [extra EXCEPT ![k] = Fresh] /\ Go(k, "primary")
  /\ UNCHANGED <<chosen, nodes, mine, reading, writing, tidy>>

\* The await of a primary outside the list.
PrimaryConnected(k) ==
  /\ call[k] = "primary" /\ link[extra[k]] \in {"open", "closed"} /\ Go(k, "returned")
  /\ UNCHANGED <<chosen, conns, nodes, primary, mine, extra, reading, writing, tidy>>

-----------------------------------------------------------------------------
(* read_round_robin() and readRoundRobin().  A tidy application calls it in *)
(* Python once connect() has returned, in JavaScript at any time.          *)

\* Mutant: the lock is not taken.
NoLock(r) == lock' = lock

Take(r) == lock = None /\ lock' = r

Count(i) == picks' = [j \in 0 .. N |-> IF j = i THEN picks[j] + 1 ELSE picks[j]]

\* self.nodes and self._rr_idx are loaded under the lock ...
Load(r) ==
  /\ lang = "py" /\ InHand /\ turn < MaxTurns
  /\ read[r] = Unread /\ Take(r)
  /\ read' = [read EXCEPT ![r] = [list |-> nodes, index |-> turn, chosen |-> FALSE]]
  /\ tidy' = (tidy /\ Usable)
  /\ UNCHANGED <<chosen, conns, nodes, primary, calls, turn, picks, writing>>

\* ... then len(self.nodes).  Without nodes % raises; the list that was loaded may
\* be one that close() has replaced, too short for the index.
Index(r) ==
  /\ read[r] # Unread /\ ~read[r].chosen
  /\ \/ /\ nodes = <<>> \/ Len(read[r].list) < Len(nodes)
        /\ lock' = None /\ read' = [read EXCEPT ![r] = Unread]
        /\ UNCHANGED picks
     \/ /\ nodes # <<>> /\ read' = [read EXCEPT ![r].chosen = TRUE]
        /\ Count((read[r].index % Len(nodes)) + 1)
        /\ UNCHANGED lock
  /\ UNCHANGED <<chosen, conns, nodes, primary, calls, turn, tidy, writing>>

\* self._rr_idx += 1, and the lock is released.
Advance(r) ==
  /\ read[r].chosen
  /\ turn' = turn + 1 /\ lock' = None /\ read' = [read EXCEPT ![r] = Unread]
  /\ UNCHANGED <<chosen, conns, nodes, primary, calls, picks, tidy, writing>>

\* JavaScript runs it without interruption.  Without nodes the index is NaN and
\* the node undefined, and the counter moves on all the same.
ReadRoundRobin ==
  /\ lang = "js" /\ InHand /\ turn < MaxTurns
  /\ Count(IF nodes = <<>> THEN 0 ELSE (turn % Len(nodes)) + 1) /\ turn' = turn + 1
  /\ UNCHANGED <<chosen, conns, nodes, primary, calls, lock, read, tidy, writing>>

-----------------------------------------------------------------------------
(* shard_by() and shardBy(): the client a key is routed to, 0 for undefined. *)

\* fnv1a(String(key)) % n for every number of nodes.
FnvIndex == [key \in Keys |-> [n \in 1 .. MaxDials |-> WordMod(Fnv1a(key), n)]]

ShardByKey(key) == nodes[FnvIndex[key][Len(nodes)] + 1]

\* fn(key, n) % n, or in Python hash(key) % n, where the function returns h.
\* The remainder takes the sign of n in Python, that of h in JavaScript.
ShardBy(h) ==
  LET n == Len(nodes)
      index == IF lang = "js" /\ h < 0 THEN -((-h) % n) ELSE h % n
  IN IF index \in 0 .. n - 1 THEN nodes[index + 1] ELSE 0

-----------------------------------------------------------------------------
(* write_to_all(), once a connect() has returned, and writeToAll(), at any *)
(* time: one write, of the nodes there are when it is called.              *)

\* In JavaScript all writes go out at once; a client without a socket rejects
\* its own.
WriteToAll ==
  /\ MaxFans = 1 /\ fan = NoFan /\ InHand
  /\ lang = "py" => Usable
  /\ fan' = [stage |-> "running", list |-> nodes,
             result |-> [i \in 1 .. Len(nodes) |->
                           IF lang = "js" /\ ~IsOpen(nodes[i]) THEN "failed" ELSE "pending"]]
  /\ UNCHANGED <<chosen, conns, nodes, primary, calls, reading, stored, tidy>>

\* The write to the i-th node is answered or fails, in Python one after the
\* other.  One that fails on a connection that breaks may have been applied; one
\* on a client that has closed before its turn, or is not authorised, is not.
WriteSettles(i) ==
  LET c == fan.list[i]
      endpoint == CHOOSE e \in 1 .. N : Endpoints[e] = at[c]
      applied == stored' = [stored EXCEPT ![endpoint] = @ + 1]
      mayStore == link[c] = "open" \/ (lang = "js" /\ link[c] = "closed")
  IN /\ fan.stage = "running" /\ fan.result[i] = "pending"
     /\ lang = "py" => \A j \in 1 .. i - 1 : fan.result[j] # "pending"
     /\ \/ mayStore /\ applied /\ fan' = [fan EXCEPT !.result[i] = "ok"]
        \/ /\ Fails \/ link[c] # "open"
           /\ fan' = [fan EXCEPT !.result[i] = "failed"]
           /\ UNCHANGED stored \/ (mayStore /\ applied)
     /\ UNCHANGED <<chosen, conns, nodes, primary, calls, reading, tidy>>

\* Mutant: Promise.all for Promise.allSettled.
FirstFailure == \/ \A i \in 1 .. Len(fan.result) : fan.result[i] = "ok"
                \/ \E i \in 1 .. Len(fan.result) : fan.result[i] = "failed"

AllSettled == \A i \in 1 .. Len(fan.result) : fan.result[i] # "pending"

\* It returns the results, or throws if any of the nodes failed.
WriteToAllEnds ==
  /\ fan.stage = "running" /\ AllSettled
  /\ fan' = [fan EXCEPT !.stage =
               IF \E i \in 1 .. Len(fan.result) : fan.result[i] = "failed" THEN "raised" ELSE "returned"]
  /\ UNCHANGED <<chosen, conns, nodes, primary, calls, reading, stored, tidy>>

-----------------------------------------------------------------------------
Connecting(k) == DialNext(k) \/ ConnectRejects(k) \/ ChoosePrimary(k) \/ PrimaryConnected(k)

Next ==
  \/ Close
  \/ \E k \in Connects : Connect(k) \/ Connecting(k)
  \/ \E c \in Dials : DialEnds(c)
  \/ \E r \in Readers : Load(r) \/ Index(r) \/ Advance(r)
  \/ ReadRoundRobin
  \/ WriteToAll \/ WriteToAllEnds
  \/ \E i \in 1 .. Len(fan.list) : WriteSettles(i)

Spec == Init /\ [][Next]_vars

-----------------------------------------------------------------------------
(* Properties.                                                             *)

PublishedIndex == [key \in Keys |-> WordMod(Published(key), N)]

\* "Re-use the connection that points at the primary endpoint" (cluster.py:122).
HasPrimary == primary # 0
WritesGoToPrimary == HasPrimary => at[primary] = wanted

\* The primary's client talks to the primary, even when connect() calls overlap
\* with each other and with close() in JavaScript; in Python for an application
\* that closes what a failed connect() left before it connects again.
PrimaryIsWanted == lang = "js" \/ tidy => WritesGoToPrimary

\* After connect() the clients stand in the order of the endpoints, each open to
\* its own, and the primary is there; in JavaScript they stand so however calls
\* overlap.  shard_by sends a key to the server its hash names after any failure,
\* close and reconnect: the same in every process where the hash is FNV-1a as
\* published, a character code for an octet.  A function that returns a negative
\* number is the exception.
EveryShardInPlace ==
  nodes # <<>> /\ (lang = "js" \/ (tidy /\ Usable)) =>
    /\ Len(nodes) = N
    /\ \A i \in 1 .. N : at[nodes[i]] = Endpoints[i]
    /\ tidy /\ Usable =>
         /\ \A i \in 1 .. N : link[nodes[i]] = "open"
         /\ wanted # None => HasPrimary /\ link[primary] = "open"
    /\ \A key \in Keys : at[ShardByKey(key)] = Endpoints[PublishedIndex[key] + 1]
    /\ \A h \in Hashes : lang = "py" \/ h >= 0 => at[ShardBy(h)] = Endpoints[(h % N) + 1]

\* The clients of a connect() whose AUTH was refused or timed out.
Refused(k) == {c \in ToSet(mine[k]) \cup ({extra[k]} \ {0}) : link[c] = "refused"}

\* Every open socket belongs to a client close() will find: in Python whatever was
\* connected and closed before, in JavaScript for an application that lets the
\* dials end and closes before it connects again; but not those of a factory that
\* failed.  The exception: each connect() that raised in Python may have dropped
\* one client whose AUTH had failed, with its socket open.
NothingLeaks ==
  (lang = "py" \/ tidy) /\ InFlight = {} /\ InHand =>
    /\ \A c \in Dials : IsOpen(c) =>
         \/ c \in ToSet(nodes) \cup {primary}
         \/ lang = "py" /\ \E k \in Connects : call[k] = "raised" /\ c \in Refused(k)
    /\ lang = "py" => \A k \in Connects : \A c, d \in Refused(k) : c = d

\* Reads are spread evenly, whatever threads read at once and whoever closes and
\* connects in between, but for the turns that reads of a closed cluster have used
\* up in JavaScript, each of which may be missing from one position.
RoundRobin ==
  lang = "js" \/ tidy => \A i, j \in 1 .. N : picks[i] <= picks[j] + picks[0] + 1

\* "Throws (aggregated) if any fail" (cluster.js:129): a writeToAll() that
\* returned was applied exactly once by the server of every endpoint, whoever
\* closes and connects meanwhile; one that threw has nothing under way any more,
\* and what did not fail was applied.
\* On a cluster without nodes JavaScript returns and has written nothing; in
\* Python the application has closed what a failed connect() left.
Applied(i) == \E j \in 1 .. Len(fan.list) : at[fan.list[j]] = Endpoints[i] /\ fan.result[j] = "ok"
WriteToAllIsHonest ==
  /\ fan.stage = "returned" /\ fan.list # <<>> /\ (lang = "js" \/ tidy) =>
       \A i \in 1 .. N : stored[i] = 1
  /\ fan.stage = "raised" =>
       /\ \A i \in 1 .. Len(fan.list) : fan.result[i] # "pending"
       /\ \A i \in 1 .. N : Applied(i) => stored[i] > 0
=============================================================================
