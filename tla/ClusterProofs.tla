---------------------------- MODULE ClusterProofs ----------------------------
(***************************************************************************)
(* Theorems about Cluster for any list of endpoints, any primary, any      *)
(* number of connects, readers and failures, in both languages, checked by *)
(* TLAPS.                                                                  *)
(*                                                                         *)
(* IInv is the inductive invariant.  The properties speak of the nodes and *)
(* the primary the cluster holds now; what keeps them right is what every  *)
(* connect() has made of its own (Filed, Connected), that a tidy           *)
(* application uses only what its latest connect() made (Current, Primary),*)
(* and that the clients a connect() makes are new, so that nothing that    *)
(* refers to an older one changes (Clients).  A Python client whose AUTH   *)
(* failed is nobody's, and there is one at most for each connect() that    *)
(* raised (Dropped).                                                       *)
(***************************************************************************)
EXTENDS Cluster, FiniteSetTheorems, SequenceTheorems, TLAPS

\* k is the latest call of connect().
Latest(k) == call[k] # "idle" /\ \A j \in Connects : j > k => call[j] = "idle"

\* Every endpoint has its client in s, in the order of the endpoints.
Placed(s) == Len(s) = N /\ \A i \in 1 .. N : at[s[i]] = Endpoints[i]

Pointed == {i \in 1 .. N : SameEndpoint(i)}

\* The clients are made one after the other, and whatever refers to one refers
\* to one that was made; in Python none is dialing.
Clients ==
  /\ \E n \in 0 .. MaxDials : Made = 1 .. n /\ Len(nodes) <= n
  /\ ToSet(nodes) \subseteq Made /\ primary \in Made \cup {0}
  /\ \A k \in Connects : ToSet(mine[k]) \subseteq Made /\ extra[k] \in Made \cup {0}
  /\ ToSet(fan.list) \subseteq Made
  /\ lang = "py" => \A c \in Dials : link[c] \in {"unused", "open", "closed", "refused"}

\* In Python a client whose AUTH failed is the last that its connect() made, which
\* raised; neither the nodes nor the primary is one.
Dropped ==
  lang = "py" =>
    /\ \A c \in ToSet(nodes) \cup ({primary} \ {0}) : link[c] # "refused"
    /\ \A k \in Connects : /\ call[k] # "raised" => Refused(k) = {}
                           /\ \A c, d \in Refused(k) : c = d
    /\ \A c \in Dials : link[c] = "refused" =>
         \E k \in Connects : call[k] = "raised" /\ c \in Refused(k)

\* The calls of connect() come one after the other; in Python, and for a tidy
\* application, only the latest may be under way.
InTurn ==
  /\ \A j, k \in Connects : j < k /\ call[k] # "idle" => call[j] # "idle"
  /\ lang = "py" \/ tidy => \A k \in InFlight : Latest(k)
  /\ lang = "py" => \A k \in Connects : call[k] # "primary"
  /\ lang = "py" /\ InFlight # {} => fan.stage # "running"

\* What a connect() has made stands where its endpoint does.
Filed ==
  /\ \A k \in Connects : /\ Len(mine[k]) <= N
                         /\ \A i \in 1 .. Len(mine[k]) : at[mine[k][i]] = Endpoints[i]
                         /\ extra[k] # 0 => at[extra[k]] = wanted
                         /\ call[k] = "idle" => mine[k] = <<>>
                         /\ call[k] \in {"idle", "nodes"} => extra[k] = 0
                         /\ lang = "js" /\ call[k] # "idle" => Len(mine[k]) = N
                         /\ tidy /\ call[k] = "returned" => Len(mine[k]) = N
  /\ \A c \in ToSet(nodes) \cup ToSet(fan.list) : at[c] \in ToSet(Endpoints)

\* In JavaScript the nodes stand in place or there are none; those of a tidy
\* application are the ones its latest connect() made.
Current ==
  /\ lang = "js" => nodes = <<>> \/ Placed(nodes)
  /\ tidy => \A k \in Connects : Latest(k) =>
       /\ call[k] # "raised" => nodes = <<>> \/ nodes = mine[k]
       /\ k \in InFlight => nodes = mine[k]

\* The primary's client talks to it, and a tidy application has none but that of
\* the latest connect().
Primary ==
  /\ lang = "js" \/ tidy => WritesGoToPrimary
  /\ tidy => \A k \in Connects : Latest(k) =>
       /\ call[k] = "nodes" => primary = 0
       /\ lang = "js" => primary \in ToSet(mine[k]) \cup {extra[k], 0}
       /\ call[k] \in {"primary", "returned"} /\ nodes # <<>> /\ wanted # None => HasPrimary
  /\ lang = "py" /\ HasPrimary /\ Pointed # {} => primary \in ToSet(nodes)

\* A connect() that returned has connected all it made; a tidy application uses
\* no client that was closed.
Connected ==
  /\ \A k \in Connects :
       /\ call[k] \in {"primary", "returned"} =>
            \A c \in ToSet(mine[k]) : link[c] \in {"open", "closed"}
       /\ call[k] = "returned" /\ extra[k] # 0 => link[extra[k]] \in {"open", "closed"}
  /\ tidy => \A c \in ToSet(nodes) \cup ({primary} \ {0}) : link[c] # "closed"

\* Every client with a socket can be found, but for those Python has dropped.
Found ==
  lang = "py" \/ tidy =>
    \A c \in Dials :
      link[c] \in {"dialing", "open"} \cup (IF lang = "js" THEN {"refused"} ELSE {}) =>
        c \in ToSet(nodes) \cup {primary}

\* In t turns position i has had q of them, one more if it is among the first t % N,
\* and was picked on each but for those p[0] counts.
Rounds(p, t) ==
  \E q \in 0 .. t : \A i \in 1 .. N :
    LET turns == q + IF i <= t % N THEN 1 ELSE 0
    IN p[i] <= turns /\ turns <= p[i] + p[0]

\* Reads go round; a reader that has chosen has used up its turn.
Picked == turn + IF \E r \in Readers : read[r].chosen THEN 1 ELSE 0
Even ==
  /\ \A r \in Readers : read[r] # Unread => lang = "py" /\ read[r].index = turn
  /\ \A r \in Readers : lock = r => read[r] # Unread
  /\ tidy /\ lock # None => Usable
  /\ lang = "js" \/ tidy => Rounds(picks, Picked)

\* A fanned-out write reaches the server of every node at most once, and that of
\* every endpoint if the nodes stood in place when it was made.
Fanned ==
  /\ Len(fan.result) = Len(fan.list)
  /\ fan.stage = "idle" => fan = NoFan /\ \A i \in 1 .. N : stored[i] = 0
  /\ fan.stage = "returned" => \A i \in 1 .. Len(fan.result) : fan.result[i] = "ok"
  /\ fan.stage = "raised" => \A i \in 1 .. Len(fan.result) : fan.result[i] # "pending"
  /\ \A i \in 1 .. N : Applied(i) => stored[i] > 0
  /\ (lang = "js" \/ tidy) /\ fan.list # <<>> =>
       /\ Placed(fan.list)
       /\ \A i \in 1 .. N : /\ fan.result[i] = "ok" => stored[i] = 1
                            /\ fan.result[i] = "pending" => stored[i] = 0

IInv ==
  /\ TypeOK
  /\ Clients
  /\ Dropped
  /\ InTurn
  /\ Filed
  /\ Current
  /\ Primary
  /\ Connected
  /\ Found
  /\ Even
  /\ Fanned

-----------------------------------------------------------------------------
(* Facts about the constants, about remainders and about dialing.          *)

\* The endpoints are a non-empty sequence without duplicates.
LEMMA EndpointList ==
  /\ N \in Nat \ {0} /\ Endpoints \in [1 .. N -> Hosts]
  /\ \A i, j \in 1 .. N : Endpoints[i] = Endpoints[j] => i = j
<1>1. Endpoints \in Seq(ToSet(Endpoints)) /\ N > 0 /\ IsInjective(Endpoints)
  BY ClusterAssumption
<1>2. N \in Nat /\ DOMAIN Endpoints = 1 .. N /\ Endpoints \in [1 .. N -> ToSet(Endpoints)]
  BY <1>1, LenProperties DEF N
<1>. QED  BY <1>1, <1>2 DEF IsInjective, Hosts

\* A remainder is found by writing the dividend as multiple plus remainder.
LEMMA Remainder ==
  ASSUME NEW n \in Nat \ {0}, NEW t \in Nat, NEW q \in Nat, NEW r \in 0 .. n - 1, t = n * q + r
  PROVE  t % n = r
OBVIOUS

\* The positions go round: each follows the one before it, the first the last.
LEMMA NextPosition ==
  ASSUME NEW n \in Nat \ {0}, NEW t \in Nat
  PROVE  /\ t % n \in 0 .. n - 1
         /\ (t + 1) % n = IF t % n = n - 1 THEN 0 ELSE (t % n) + 1
<1>. DEFINE q == t \div n
             r == t % n
<1>1. q \in Nat /\ r \in 0 .. n - 1
  OBVIOUS
<1>2. t = q * n + r
  BY Z3
<1>. HIDE DEF q, r
<1>3. CASE r = n - 1
  <2>1. t + 1 = n * (q + 1) + 0
    BY <1>1, <1>2, <1>3
  <2>2. t + 1 \in Nat /\ q + 1 \in Nat /\ 0 \in 0 .. n - 1
    BY <1>1
  <2>3. (t + 1) % n = 0
    BY <2>1, <2>2, Remainder, Zenon
  <2>. QED  BY <1>1, <1>3, <2>3 DEF r
<1>4. CASE r # n - 1
  <2>1. t + 1 = n * q + (r + 1)
    BY <1>1, <1>2
  <2>2. t + 1 \in Nat /\ r + 1 \in 0 .. n - 1
    BY <1>1, <1>4
  <2>3. (t + 1) % n = r + 1
    BY <1>1, <2>1, <2>2, Remainder, Zenon
  <2>. QED  BY <1>1, <1>4, <2>3 DEF r
<1>. QED  BY <1>3, <1>4

\* The elements of a sequence, by their positions.
LEMMA Elements ==
  ASSUME NEW S, NEW s \in Seq(S)
  PROVE  /\ Len(s) \in Nat /\ s \in [1 .. Len(s) -> S]
         /\ \A i \in 1 .. Len(s) : s[i] \in ToSet(s)
         /\ \A x \in ToSet(s) : x \in S /\ \E i \in 1 .. Len(s) : x = s[i]
BY LenProperties DEF ToSet

\* Appending an element changes no other.
LEMMA Appended ==
  ASSUME NEW S, NEW s \in Seq(S), NEW x \in S
  PROVE  /\ Append(s, x) \in Seq(S) /\ Len(Append(s, x)) = Len(s) + 1
         /\ \A i \in 1 .. Len(s) + 1 : Append(s, x)[i] = IF i <= Len(s) THEN s[i] ELSE x
         /\ ToSet(Append(s, x)) = ToSet(s) \cup {x}
<1>. DEFINE t == Append(s, x)
<1>1. Len(s) \in Nat /\ t \in Seq(S) /\ Len(t) = Len(s) + 1
  BY AppendProperties, LenProperties
<1>2. \A i \in 1 .. Len(s) + 1 : t[i] = IF i <= Len(s) THEN s[i] ELSE x
  BY AppendProperties
<1>3. \A y : y \in ToSet(t) <=> \E i \in 1 .. Len(s) + 1 : y = t[i]
  BY <1>1, LenProperties DEF ToSet
<1>4. \A y : y \in ToSet(s) <=> \E i \in 1 .. Len(s) : y = s[i]
  BY LenProperties DEF ToSet
<1>. HIDE DEF t
<1>5. \A y : y \in ToSet(t) <=> y \in ToSet(s) \/ y = x
  BY <1>1, <1>2, <1>3, <1>4
<1>. QED  BY <1>1, <1>2, <1>5 DEF t

\* What refers to a client refers to one that was made, and a client that is
\* made later changes none of that.
LEMMA Referred ==
  ASSUME TypeOK, Clients
  PROVE  /\ Made \subseteq Dials
         /\ primary # 0 => primary \in Made
         /\ \A i \in 1 .. Len(nodes) : nodes[i] \in Made
         /\ \A k \in Connects : /\ extra[k] # 0 => extra[k] \in Made
                                /\ \A i \in 1 .. Len(mine[k]) : mine[k][i] \in Made
         /\ \A i \in 1 .. Len(fan.list) : fan.list[i] \in Made
<1>1. fan.list \in Seq(Dials)
  BY DEF TypeOK
<1>. QED  BY <1>1, Elements DEF TypeOK, Clients, Made

\* The clients that were made are numbered from 1, and Fresh is the next number.
LEMMA FreshIsNext ==
  ASSUME NEW n \in Nat, Made = 1 .. n
  PROVE  Fresh = n + 1
<1>1. Cardinality(1 .. n) = IF 1 > n THEN 0 ELSE n - 1 + 1
  BY FS_Interval
<1>2. Cardinality(1 .. n) = n
  BY <1>1
<1>. QED  BY <1>2 DEF Fresh

\* Dial() leaves the clients there are alone and makes one for each host.
LEMMA Dialled ==
  ASSUME TypeOK, NEW n \in Nat, n <= MaxDials, Made = 1 .. n, NEW hosts \in Seq(Hosts),
         NEW s \in Links \ {"unused"}, Dial(hosts, s)
  PROVE  /\ n + Len(hosts) <= MaxDials
         /\ link' \in [Dials -> Links] /\ at' \in [Dials -> Hosts \cup {None}]
         /\ Made' = 1 .. n + Len(hosts)
         /\ \A c \in Made : link'[c] = link[c] /\ at'[c] = at[c]
         /\ \A c \in Dials \ Made' : link'[c] = "unused"
         /\ \A c \in Made' \ Made : link'[c] = s
         /\ \A i \in 1 .. Len(hosts) : at'[n + i] = hosts[i]
<1>. DEFINE new == n + 1 .. n + Len(hosts)
<1>1. Len(hosts) \in Nat /\ hosts \in [1 .. Len(hosts) -> Hosts]
  BY LenProperties
<1>2. Fresh = n + 1
  BY FreshIsNext
<1>3. MaxDials \in Nat
  BY ClusterAssumption
<1>4. /\ n + Len(hosts) <= MaxDials
      /\ link' = [c \in Dials |-> IF c \in new THEN s ELSE link[c]]
      /\ at' = [c \in Dials |-> IF c \in new THEN hosts[c - n] ELSE at[c]]
  <2>1. n + 1 + Len(hosts) - 1 = n + Len(hosts) /\ \A c \in Dials : c - (n + 1) + 1 = c - n
    BY <1>1, <1>3 DEF Dials
  <2>. QED  BY <1>2, <2>1 DEF Dial
<1>5. new \subseteq Dials /\ Made \subseteq Dials /\ new \cap Made = {}
  BY <1>1, <1>3, <1>4 DEF Dials
<1>6. link' \in [Dials -> Links] /\ at' \in [Dials -> Hosts \cup {None}]
  BY <1>1, <1>3, <1>4 DEF TypeOK, Dials
<1>7. Made' = Made \cup new
  <2>. DEFINE l == link'
  <2>1. l = [c \in Dials |-> IF c \in new THEN s ELSE link[c]]
    BY <1>4
  <2>. HIDE DEF l
  <2>2. {c \in Dials : l[c] # "unused"} = Made \cup new
    BY <1>5, <2>1 DEF Made
  <2>. QED  BY <2>2 DEF Made, l
<1>8. Made \cup new = 1 .. n + Len(hosts)
  BY <1>1
<1>9. \A i \in 1 .. Len(hosts) : n + i \in new /\ n + i \in Dials /\ (n + i) - n = i
  BY <1>1, <1>5
<1>10. \A i \in 1 .. Len(hosts) : at'[n + i] = hosts[i]
  BY <1>4, <1>9
<1>. QED  BY <1>4, <1>5, <1>6, <1>7, <1>8, <1>10 DEF Made

-----------------------------------------------------------------------------
(* The first state.                                                        *)

\* No connect() was made yet.
LEMMA InitInv == Init => IInv
<1>. SUFFICES ASSUME Init PROVE IInv
  OBVIOUS
<1>. USE DEF Init
<1>1. TypeOK
  <2>1. /\ nodes \in Seq(Dials) /\ \A k \in Connects : mine[k] \in Seq(Dials)
        /\ fan.list \in Seq(Dials) /\ fan.result \in Seq({"pending", "ok", "failed"})
        /\ Unread \in [list : Seq(Dials), index : Nat \cup {-1}, chosen : BOOLEAN]
    BY EmptySeq DEF NoFan, Unread
  <2>2. /\ lang \in Langs /\ wanted \in Primaries \cup {None, Endpoints[1]}
        /\ factory \in BOOLEAN /\ named \in BOOLEAN /\ tidy \in BOOLEAN
        /\ link \in [Dials -> Links] /\ at \in [Dials -> Hosts \cup {None}]
        /\ primary \in 0 .. MaxDials /\ call \in [Connects -> Stages]
        /\ mine \in [Connects -> Seq(Dials)] /\ extra \in [Connects -> 0 .. MaxDials]
    <3>1. /\ lang \in Langs /\ wanted \in Primaries \cup {None, Endpoints[1]}
          /\ factory \in BOOLEAN /\ named \in BOOLEAN /\ tidy \in BOOLEAN
      OBVIOUS
    <3>2. link \in [Dials -> Links] /\ at \in [Dials -> Hosts \cup {None}]
      BY DEF Links
    <3>3. /\ primary \in 0 .. MaxDials /\ call \in [Connects -> Stages]
          /\ mine \in [Connects -> Seq(Dials)] /\ extra \in [Connects -> 0 .. MaxDials]
      BY <2>1, ClusterAssumption DEF Stages
    <3>. QED  BY <3>1, <3>2, <3>3
  <2>3. /\ turn \in Nat /\ lock \in Readers \cup {None}
        /\ read \in [Readers -> [list : Seq(Dials), index : Nat \cup {-1}, chosen : BOOLEAN]]
        /\ \A r \in Readers : read[r] # Unread => lock = r
        /\ picks \in [0 .. N -> Nat] /\ stored \in [1 .. N -> Nat]
    BY <2>1
  <2>4. fan \in [stage : {"idle", "running", "returned", "raised"}, list : Seq(Dials),
                result : Seq({"pending", "ok", "failed"})]
    BY <2>1 DEF NoFan
  <2>. QED  BY <2>1, <2>2, <2>3, <2>4 DEF TypeOK
<1>2. Clients /\ Dropped
  BY ClusterAssumption, SMTT(30) DEF Clients, Made, NoFan, ToSet, Dials, Dropped, Refused
<1>3. InTurn /\ Filed /\ Current
  BY EndpointList DEF InTurn, Filed, Current, InFlight, Latest, NoFan, ToSet
<1>4. Primary /\ Connected /\ Found
  BY ClusterAssumption DEF Primary, Connected, Found, Latest, WritesGoToPrimary, HasPrimary, ToSet
<1>5. Even
  <2>1. \A r \in Readers : read[r] = Unread /\ read[r].chosen = FALSE
    BY DEF Unread
  <2>2. lock = None /\ \A r \in Readers : lock # r
    BY ClusterAssumption
  <2>3. Picked = 0
    BY <2>1 DEF Picked
  <2>. N \in Nat \ {0} /\ 0 % N = 0
    BY EndpointList, NextPosition
  <2>4. Rounds(picks, Picked)
    BY <2>3, EndpointList DEF Rounds
  <2>. QED  BY <2>1, <2>2, <2>3, <2>4 DEF Even
<1>6. Fanned
  BY DEF Fanned, NoFan, Applied
<1>. QED  BY <1>1, <1>2, <1>3, <1>4, <1>5, <1>6 DEF IInv

-----------------------------------------------------------------------------
(* close() and connect().                                                  *)

\* close() closes whatever is open among the nodes and the primary, and nothing else.
LEMMA CloseInv ==
  ASSUME IInv, Close
  PROVE  IInv'
<1>. USE DEF IInv
<1>. DEFINE cs == ToSet(nodes) \cup {primary}
<1>1. link' = [c \in Dials |-> IF c \notin cs THEN link[c]
                               ELSE CASE link[c] = "open" -> "closed"
                                      [] link[c] = "refused" -> "failed"
                                      [] OTHER -> link[c]]
  BY DEF Close, Closed, CloseAll
<1>2. \A c \in Dials : /\ link'[c] \in Links
                       /\ link'[c] = "unused" <=> link[c] = "unused"
                       /\ link'[c] = "dialing" <=> link[c] = "dialing"
                       /\ link[c] \in {"open", "closed"} => link'[c] \in {"open", "closed"}
                       /\ link'[c] \in {"open", "refused"} => c \notin cs /\ link'[c] = link[c]
                       /\ link'[c] = "failed" => link[c] \in {"failed", "refused"}
  BY <1>1 DEF TypeOK, Links
<1>. HIDE DEF cs
<1>3. /\ nodes' = <<>> /\ primary' = 0 /\ link' \in [Dials -> Links]
      /\ UNCHANGED <<chosen, at, calls, reading, writing>>
      /\ tidy' \in BOOLEAN /\ (tidy' => tidy /\ \A c \in Dials : link[c] # "dialing")
      /\ lang = "py" => InFlight = {}
      /\ tidy' => InFlight = {}
  BY <1>1, <1>2 DEF Close, TypeOK
<1>. USE DEF chosen, calls, reading, writing
<1>4. TypeOK'
  BY <1>3, EmptySeq, ClusterAssumption DEF TypeOK
<1>5. Made' = Made
  BY <1>2, <1>3 DEF Made
<1>6. Clients'
  <2>1. ToSet(<<>>) = {} /\ Len(<<>>) = 0
    BY DEF ToSet
  <2>2. lang' = "py" => \A c \in Dials : link'[c] \in {"unused", "open", "closed", "refused"}
    <3>1. ASSUME lang = "py", NEW c \in Dials
          PROVE  link[c] = "refused" => c \notin cs
      BY <3>1 DEF Dropped, cs, Dials
    <3>. QED  BY <1>1, <1>3, <3>1 DEF Clients
  <2>. QED  BY <1>3, <1>5, <2>1, <2>2 DEF Clients
<1>7. InFlight' = InFlight /\ \A k \in Connects : Latest(k)' <=> Latest(k)
  BY <1>3 DEF InFlight, Latest
<1>8. InTurn'
  BY <1>3, <1>7 DEF InTurn
<1>9. Filed' /\ Current' /\ Primary'
  BY <1>3, <1>7 DEF Filed, Current, Primary, WritesGoToPrimary, HasPrimary, ToSet
<1>10. Connected'
  BY <1>2, <1>3 DEF Connected, Clients, Made, ToSet
<1>11. Found'
  BY <1>2, <1>3 DEF Found, Clients, cs
<1>12. Even'
  BY <1>3 DEF Even, Usable, Picked
<1>13. Fanned'
  BY <1>3 DEF Fanned, Applied, Placed
<1>14. Dropped'
  <2>1. ASSUME lang = "py", NEW c \in Dials
        PROVE  link'[c] = "refused" <=> link[c] = "refused"
    BY <1>1, <1>2, <2>1 DEF Dropped, cs, Dials
  <2>2. ASSUME lang = "py"
        PROVE  \A k \in Connects : Refused(k)' = Refused(k)
    <3>1. \A k \in Connects : ToSet(mine[k]) \cup ({extra[k]} \ {0}) \subseteq Dials
      BY DEF Clients, Made
    <3>. QED  BY <1>3, <2>1, <2>2, <3>1 DEF Refused
  <2>. QED  BY <1>3, <2>1, <2>2 DEF Dropped, ToSet
<1>. QED  BY <1>4, <1>6, <1>8, <1>9, <1>10, <1>11, <1>12, <1>13, <1>14

\* connect() begins: in JavaScript it makes a client for every endpoint.
LEMMA ConnectInv ==
  ASSUME IInv, NEW k \in Connects, Connect(k)
  PROVE  IInv'
<1>. USE DEF IInv
<1>. USE EndpointList
<1>1. /\ call[k] = "idle" /\ \A j \in 1 .. k - 1 : call[j] # "idle"
      /\ lang = "py" => fan.stage # "running" /\ InFlight = {}
      /\ tidy' \in BOOLEAN
      /\ tidy' => /\ tidy /\ InFlight = {} /\ nodes = <<>> /\ primary = 0 /\ lock = None
                  /\ \A c \in Dials : link[c] # "dialing"
      /\ \E s \in {"nodes", "returned"} : call' = [call EXCEPT ![k] = s] /\ (s = "returned" => lang = "py" /\ ~tidy')
      /\ UNCHANGED <<chosen, primary, extra, reading, writing>>
  BY DEF Connect, Go, TypeOK
<1>. USE DEF chosen, reading, writing
<1>2. /\ call' \in [Connects -> Stages] /\ call'[k] \in {"nodes", "returned"}
      /\ call'[k] = "returned" => lang = "py" /\ tidy' = FALSE
      /\ \A j \in Connects \ {k} : call'[j] = call[j]
  BY <1>1 DEF TypeOK, Stages
<1>3. /\ Latest(k)'
      /\ \A j \in Connects : Latest(j)' <=> j = k
      /\ InFlight' \subseteq InFlight \cup {k}
      /\ \A i, j \in Connects : i < j /\ call'[j] # "idle" => call'[i] # "idle"
  <2>1. \A j \in Connects : j > k => call[j] = "idle"
    BY <1>1, ClusterAssumption DEF InTurn, Connects
  <2>2. \A j \in Connects : (j > k => call'[j] = "idle") /\ (j <= k => call'[j] # "idle")
    BY <1>1, <1>2, <2>1, ClusterAssumption DEF Connects
  <2>. QED  BY <1>2, <2>2, ClusterAssumption DEF Latest, InFlight, Connects
<1>4. PICK n \in 0 .. MaxDials : Made = 1 .. n /\ Len(nodes) <= n
  BY DEF Clients
<1>5. CASE lang = "py"
  <2>1. UNCHANGED <<link, at, nodes, mine>> /\ call[k] = "idle" /\ mine[k] = <<>>
    BY <1>1, <1>5 DEF Connect, conns, Filed
  <2>2. TypeOK'
    BY <1>1, <1>2, <2>1 DEF TypeOK
  <2>3. Clients'
    BY <1>1, <2>1 DEF Clients, Made
  <2>4. InTurn'
    BY <1>1, <1>2, <1>3, <1>5 DEF InTurn
  <2>5. Filed'
    BY <1>1, <1>2, <1>5, <2>1 DEF Filed
  <2>6. Current'
    BY <1>1, <1>3, <1>5, <2>1 DEF Current
  <2>7. Primary'
    BY <1>1, <1>2, <1>3, <1>5, <2>1 DEF Primary, WritesGoToPrimary, HasPrimary, Pointed, SameEndpoint
  <2>8. Connected' /\ Found'
    <3>1. ToSet(mine[k]) = {}
      BY <2>1 DEF ToSet
    <3>2. extra'[k] = 0
      BY <1>1 DEF Filed
    <3>. QED  BY <1>1, <1>2, <2>1, <3>1, <3>2 DEF Connected, Found
  <2>9. Even'
    BY <1>1 DEF Even, Picked
  <2>10. Fanned'
    BY <1>1, <2>1 DEF Fanned, Applied, Placed
  <2>11. Dropped'
    <3>1. \A j \in Connects : Refused(j)' = Refused(j)
      BY <1>1, <2>1 DEF Refused
    <3>2. Refused(k) = {}
      BY <1>5, <2>1 DEF Dropped
    <3>. QED  BY <1>1, <1>2, <2>1, <3>1, <3>2 DEF Dropped
  <2>. QED  BY <2>2, <2>3, <2>4, <2>5, <2>6, <2>7, <2>8, <2>9, <2>10, <2>11
<1>6. CASE lang = "js"
  <2>1. /\ Dial(Endpoints, "dialing") /\ call'[k] = "nodes"
        /\ nodes' = [i \in 1 .. N |-> Fresh + i - 1]
        /\ mine' = [mine EXCEPT ![k] = nodes']
    BY <1>1, <1>6 DEF Connect, Go, TypeOK
  <2>2. Endpoints \in Seq(Hosts) /\ Len(Endpoints) = N /\ "dialing" \in Links \ {"unused"}
        /\ n \in Nat /\ n <= MaxDials
    BY IsASeq, ClusterAssumption, <1>4 DEF N, Links
  <2>3. /\ n + N <= MaxDials
        /\ link' \in [Dials -> Links] /\ at' \in [Dials -> Hosts \cup {None}]
        /\ Made' = 1 .. n + N
        /\ \A c \in Made : link'[c] = link[c] /\ at'[c] = at[c]
        /\ \A c \in Dials \ Made' : link'[c] = "unused"
        /\ \A c \in Made' \ Made : link'[c] = "dialing"
        /\ \A i \in 1 .. N : at'[n + i] = Endpoints[i]
    <3>1. Dial(Endpoints, "dialing") /\ TypeOK
      BY <2>1
    <3>. HIDE DEF IInv
    <3>. QED  BY ONLY <1>4, <2>2, <3>1, Dialled, ZenonT(30)
  <2>4. /\ nodes' \in [1 .. N -> Dials] /\ \A i \in 1 .. N : nodes'[i] = n + i /\ n + i \in Made' \ Made
        /\ Made \subseteq Made'
    <3>1. nodes' = [i \in 1 .. N |-> n + i] /\ MaxDials \in Nat
      <4>1. Fresh = n + 1 /\ \A i \in 1 .. N : n + 1 + i - 1 = n + i
        BY <1>4, <2>2, FreshIsNext
      <4>. QED  BY <2>1, <4>1, ClusterAssumption
    <3>2. \A i \in 1 .. N : n + i \in 1 .. n + N /\ n + i \notin 1 .. n /\ n + i \in 1 .. MaxDials
      BY <2>2, <2>3, <3>1
    <3>. QED  BY <1>4, <2>2, <2>3, <3>1, <3>2 DEF Dials
  <2>5. nodes' \in Seq(Dials) /\ Len(nodes') = N /\ ToSet(nodes') = {n + i : i \in 1 .. N}
    BY <2>4, IsASeq DEF ToSet
  <2>6. /\ mine' \in [Connects -> Seq(Dials)] /\ mine'[k] = nodes'
        /\ \A j \in Connects \ {k} : mine'[j] = mine[j]
    BY <2>1, <2>5 DEF TypeOK
  <2>7. TypeOK'
    BY <1>1, <1>2, <2>3, <2>5, <2>6 DEF TypeOK
  <2>8. Placed(nodes)'
    BY <2>3, <2>4, <2>5 DEF Placed
  <2>9. Clients'
    <3>1. n + N \in 0 .. MaxDials /\ Len(nodes') <= n + N
      BY <1>4, <2>3, <2>5, ClusterAssumption
    <3>2. ToSet(nodes') \subseteq Made'
      BY <2>4 DEF ToSet
    <3>. QED  BY <1>1, <1>6, <2>3, <2>4, <2>6, <3>1, <3>2 DEF Clients
  <2>10. InTurn'
    BY <1>1, <1>2, <1>3, <1>6 DEF InTurn
  <2>11. Filed'
    <3>1. \A j \in Connects \ {k} :
            /\ \A i \in 1 .. Len(mine[j]) : at'[mine[j][i]] = at[mine[j][i]]
            /\ extra[j] # 0 => at'[extra[j]] = at[extra[j]]
      BY <2>3, Referred
    <3>2. extra'[k] = 0
      BY <1>1 DEF Filed
    <3>3. ASSUME NEW j \in Connects
          PROVE
            /\ Len(mine'[j]) <= N
            /\ \A i \in 1 .. Len(mine'[j]) : at'[mine'[j][i]] = Endpoints[i]
            /\ extra'[j] # 0 => at'[extra'[j]] = wanted'
            /\ call'[j] = "idle" => mine'[j] = <<>>
            /\ call'[j] \in {"idle", "nodes"} => extra'[j] = 0
            /\ lang' = "js" /\ call'[j] # "idle" => Len(mine'[j]) = N
            /\ tidy' /\ call'[j] = "returned" => Len(mine'[j]) = N
      <4>1. CASE j = k
        BY <1>1, <1>2, <2>1, <2>5, <2>6, <2>8, <3>2, <4>1 DEF Placed
      <4>2. CASE j # k
        <5>1. call'[j] = call[j] /\ mine'[j] = mine[j] /\ extra'[j] = extra[j] /\ wanted' = wanted
          BY <1>1, <1>2, <2>6, <4>2
        <5>. QED  BY <1>1, <3>1, <4>2, <5>1 DEF Filed
      <4>. QED  BY <4>1, <4>2
    <3>4. \A c \in ToSet(nodes') \cup ToSet(fan'.list) : at'[c] \in ToSet(Endpoints)
      <4>1. ToSet(Endpoints) = {Endpoints[i] : i \in 1 .. N}
        BY DEF ToSet
      <4>2. \A c \in ToSet(nodes') : at'[c] \in ToSet(Endpoints)
        BY <2>3, <2>5, <4>1
      <4>3. fan' = fan /\ \A c \in ToSet(fan.list) : at'[c] = at[c]
        BY <1>1, <2>3 DEF Clients
      <4>. QED  BY <4>2, <4>3 DEF Filed
    <3>. QED  BY <3>3, <3>4 DEF Filed
  <2>12. Current'
    BY <1>3, <2>6, <2>8 DEF Current
  <2>13. Primary'
    <3>1. WritesGoToPrimary'
      <4>1. primary # 0 => at'[primary] = at[primary]
        BY <2>3, Referred
      <4>2. primary # 0 => at[primary] = wanted
        BY <1>6 DEF Primary, WritesGoToPrimary, HasPrimary
      <4>. QED  BY <1>1, <4>1, <4>2 DEF WritesGoToPrimary, HasPrimary
    <3>. QED  BY <1>1, <1>2, <1>3, <1>6, <2>1, <3>1 DEF Primary
  <2>14. Connected'
    <3>1. \A j \in Connects \ {k} :
            /\ \A c \in ToSet(mine[j]) : link'[c] = link[c]
            /\ extra[j] # 0 => link'[extra[j]] = link[extra[j]]
      BY <2>3, Referred DEF Clients
    <3>2. tidy' => \A c \in ToSet(nodes') \cup ({primary'} \ {0}) : link'[c] # "closed"
      <4>1. \A c \in ToSet(nodes') : link'[c] = "dialing"
        <5>1. ASSUME NEW c, c \in {n + i : i \in 1 .. N} PROVE c \in Made' \ Made
          BY ONLY <2>4, <5>1
        <5>2. ASSUME NEW c, c \in ToSet(nodes') PROVE link'[c] = "dialing"
          <6>1. c \in Made' \ Made
            BY ONLY <2>5, <5>1, <5>2
          <6>. QED  BY ONLY <2>3, <6>1
        <5>. QED  BY ONLY <5>2
      <4>. QED  BY <1>1, <4>1
    <3>. QED  BY <1>1, <1>2, <2>1, <2>6, <3>1, <3>2 DEF Connected
  <2>15. Found'
    <3>1. tidy' => \A c \in Made : link[c] \notin {"dialing", "open", "refused"}
      <4>1. ToSet(<<>>) = {}
        BY DEF ToSet
      <4>. QED  BY <1>1, <1>6, <4>1 DEF Found, Made, Dials
    <3>2. \A c \in Made' \ Made : c \in ToSet(nodes')
      <4>1. \A c \in Made' \ Made : c - n \in 1 .. N /\ c = n + (c - n)
        BY <1>4, <2>2, <2>3
      <4>. QED  BY <2>5, <4>1
    <3>. QED  BY <1>1, <1>6, <2>3, <3>1, <3>2 DEF Found
  <2>16. Even'
    BY <1>1 DEF Even, Picked
  <2>17. Fanned'
    <3>1. \A i \in 1 .. Len(fan.list) : at'[fan.list[i]] = at[fan.list[i]]
      BY <2>3, Referred
    <3>2. \A i \in 1 .. N : Applied(i)' <=> Applied(i)
      BY <1>1, <3>1 DEF Applied
    <3>3. Placed(fan.list) => Placed(fan.list)'
      BY <1>1, <3>1 DEF Placed
    <3>. QED  BY <1>1, <3>2, <3>3 DEF Fanned
  <2>18. Dropped'
    BY <1>1, <1>6 DEF Dropped
  <2>. QED  BY <2>7, <2>9, <2>10, <2>11, <2>12, <2>13, <2>14, <2>15, <2>16, <2>17, <2>18
<1>. QED  BY <1>5, <1>6, ClusterAssumption DEF TypeOK

\* Nobody reads, and no write of a Python cluster is under way, while a connect()
\* that is the latest is in flight.
LEMMA NotUsable ==
  ASSUME TypeOK, InTurn, NEW k \in InFlight, lang = "py" \/ tidy
  PROVE  ~Usable
<1>1. k \in Connects /\ Latest(k) /\ call[k] \in {"nodes", "primary"}
  BY DEF InTurn, InFlight
<1>2. ASSUME NEW j \in Connects, call[j] = "returned", \A i \in Connects : i > j => call[i] = "idle"
      PROVE  FALSE
  <2>1. j # k /\ ~(j > k) /\ ~(k > j)
    BY <1>1, <1>2 DEF Latest
  <2>. QED  BY <1>1, <2>1, ClusterAssumption DEF Connects
<1>. QED  BY <1>2 DEF Usable

\* A connect() comes to an end, and what it has made stays as it is.
LEMMA ReturnedInv ==
  ASSUME IInv, NEW k \in InFlight, NEW s \in {"returned", "raised"}, Go(k, s),
         UNCHANGED <<chosen, conns, nodes, primary, mine, extra, reading, writing, tidy>>,
         s = "returned" => /\ Len(mine[k]) = N
                           /\ \A c \in ToSet(mine[k]) : link[c] \in {"open", "closed"}
                           /\ extra[k] # 0 => link[extra[k]] \in {"open", "closed"}
                           /\ tidy /\ wanted # None /\ nodes # <<>> => primary # 0
  PROVE  IInv'
<1>. USE DEF IInv, chosen, conns, reading, writing
<1>1. k \in Connects /\ call[k] \in {"nodes", "primary"}
  BY DEF InFlight
<1>2. /\ call' \in [Connects -> Stages] /\ call'[k] = s
      /\ \A j \in Connects \ {k} : call'[j] = call[j]
  BY <1>1 DEF Go, TypeOK, Stages
<1>3. /\ \A j \in Connects : /\ call'[j] = "idle" <=> call[j] = "idle"
                             /\ Latest(j)' <=> Latest(j)
      /\ InFlight' \subseteq InFlight \ {k}
  BY <1>1, <1>2 DEF Latest, InFlight
<1>4. TypeOK' /\ Clients'
  BY <1>2, ZenonT(30) DEF TypeOK, Clients, Made
<1>5. InTurn'
  <2>1. InFlight # {} /\ InFlight' \subseteq InFlight /\ InFlight' \subseteq Connects
    BY <1>3 DEF InFlight
  <2>2. lang = "py" \/ tidy => \A j \in InFlight' : Latest(j)'
    BY <1>3, <2>1 DEF InTurn
  <2>3. \A i, j \in Connects : i < j /\ call'[j] # "idle" => call'[i] # "idle"
    BY <1>3 DEF InTurn
  <2>4. lang = "py" => \A j \in Connects : call'[j] # "primary"
    BY <1>2 DEF InTurn
  <2>. QED  BY <2>1, <2>2, <2>3, <2>4 DEF InTurn
<1>6. Filed' /\ Current'
  BY <1>1, <1>2, <1>3 DEF Filed, Current, Placed
<1>7. Primary'
  BY <1>1, <1>2, <1>3 DEF Primary, WritesGoToPrimary, HasPrimary, Pointed, SameEndpoint
<1>8. Connected'
  BY <1>1, <1>2, <1>3 DEF Connected
<1>9. Found' /\ Fanned'
  BY DEF Found, Fanned, Applied, Placed
<1>10. Even'
  BY NotUsable DEF Even, Picked
<1>11. Dropped'
  <2>1. \A j \in Connects : Refused(j)' = Refused(j)
    BY DEF Refused
  <2>2. lang = "py" => Refused(k) = {}
    BY <1>1 DEF Dropped
  <2>. QED  BY <1>1, <1>2, <2>1, <2>2 DEF Dropped
<1>. QED  BY <1>4, <1>5, <1>6, <1>7, <1>8, <1>9, <1>10, <1>11

\* A client of a connect() has failed, and it rejects.
LEMMA ConnectRejectsInv ==
  ASSUME IInv, NEW k \in Connects, ConnectRejects(k)
  PROVE  IInv'
<1>1. k \in InFlight /\ Go(k, "raised")
  BY DEF ConnectRejects, InFlight
<1>2. UNCHANGED <<chosen, conns, nodes, primary, mine, extra, reading, writing, tidy>>
  BY DEF ConnectRejects
<1>. QED  BY <1>1, <1>2, ReturnedInv

\* The client for a primary outside the list has connected, and connect() returns.
LEMMA PrimaryConnectedInv ==
  ASSUME IInv, NEW k \in Connects, PrimaryConnected(k)
  PROVE  IInv'
<1>1. k \in InFlight /\ call[k] = "primary" /\ Go(k, "returned") /\ link[extra[k]] \in {"open", "closed"}
  BY DEF PrimaryConnected, InFlight
<1>2. UNCHANGED <<chosen, conns, nodes, primary, mine, extra, reading, writing, tidy>>
  BY DEF PrimaryConnected
<1>3. Len(mine[k]) = N /\ \A c \in ToSet(mine[k]) : link[c] \in {"open", "closed"}
  BY <1>1, ClusterAssumption DEF IInv, TypeOK, InTurn, Filed, Connected
<1>4. tidy /\ wanted # None /\ nodes # <<>> => primary # 0
  BY <1>1 DEF IInv, InTurn, Primary, HasPrimary
<1>. QED  BY <1>1, <1>2, <1>3, <1>4, ReturnedInv

\* Dial() of one host makes the next client and changes no other.
LEMMA DialledOne ==
  ASSUME TypeOK, Clients, NEW host \in Hosts, NEW s \in Links \ {"unused"}, Dial(<<host>>, s)
  PROVE  /\ link' \in [Dials -> Links] /\ at' \in [Dials -> Hosts \cup {None}]
         /\ Fresh \in Dials \ Made /\ Fresh # 0 /\ link'[Fresh] = s /\ at'[Fresh] = host
         /\ \A c \in Dials \ {Fresh} : link'[c] = link[c]
         /\ \A c \in Made : at'[c] = at[c] /\ c # Fresh
         /\ Made' = Made \cup {Fresh}
         /\ \E n \in 0 .. MaxDials : Made' = 1 .. n /\ Len(nodes) + 1 <= n
<1>1. PICK n \in 0 .. MaxDials : Made = 1 .. n /\ Len(nodes) <= n
  BY DEF Clients
<1>2. n \in Nat /\ n <= MaxDials /\ MaxDials \in Nat
  BY <1>1, ClusterAssumption
<1>3. <<host>> \in Seq(Hosts) /\ Len(<<host>>) = 1 /\ <<host>>[1] = host
  OBVIOUS
<1>4. /\ n + 1 <= MaxDials
      /\ link' \in [Dials -> Links] /\ at' \in [Dials -> Hosts \cup {None}]
      /\ Made' = 1 .. n + 1
      /\ \A c \in Made : link'[c] = link[c] /\ at'[c] = at[c]
      /\ \A c \in Dials \ Made' : link'[c] = "unused"
      /\ \A c \in Made' \ Made : link'[c] = s
      /\ at'[n + 1] = host
  <2>. DEFINE hosts == <<host>>
  <2>1. hosts \in Seq(Hosts) /\ Len(hosts) = 1 /\ hosts[1] = host /\ Dial(hosts, s)
    BY <1>3
  <2>. HIDE DEF hosts
  <2>2. /\ n + Len(hosts) <= MaxDials
        /\ link' \in [Dials -> Links] /\ at' \in [Dials -> Hosts \cup {None}]
        /\ Made' = 1 .. n + Len(hosts)
        /\ \A c \in Made : link'[c] = link[c] /\ at'[c] = at[c]
        /\ \A c \in Dials \ Made' : link'[c] = "unused"
        /\ \A c \in Made' \ Made : link'[c] = s
        /\ \A i \in 1 .. Len(hosts) : at'[n + i] = hosts[i]
    BY ONLY TypeOK, <1>1, <1>2, <2>1, Dialled
  <2>. QED  BY <2>1, <2>2
<1>5. Fresh = n + 1 /\ Made' = Made \cup {n + 1} /\ n + 1 \in Dials \ Made /\ n + 1 # 0
  BY <1>1, <1>2, <1>4, FreshIsNext DEF Dials
<1>6. \A c \in Dials \ Made : link[c] = "unused"
  BY DEF Made
<1>7. Len(nodes) \in Nat
  BY DEF TypeOK
<1>. QED  BY <1>1, <1>2, <1>4, <1>5, <1>6, <1>7

\* What a new client leaves as it was: the clients that others refer to.
LEMMA Untouched ==
  ASSUME TypeOK, Clients, Filed, Fanned, NEW host \in Hosts, NEW s \in Links \ {"unused"}, Dial(<<host>>, s)
  PROVE  /\ primary # 0 => at'[primary] = at[primary] /\ link'[primary] = link[primary]
         /\ \A c \in ToSet(nodes) \cup ToSet(fan.list) : at'[c] = at[c] /\ link'[c] = link[c]
         /\ \A k \in Connects :
              /\ \A c \in ToSet(mine[k]) : at'[c] = at[c] /\ link'[c] = link[c]
              /\ \A i \in 1 .. Len(mine[k]) : at'[mine[k][i]] = at[mine[k][i]]
              /\ extra[k] # 0 => at'[extra[k]] = at[extra[k]] /\ link'[extra[k]] = link[extra[k]]
         /\ \A i \in 1 .. Len(nodes) : at'[nodes[i]] = at[nodes[i]]
         /\ fan' = fan /\ stored' = stored /\ lang' = lang /\ tidy' = tidy => Fanned'
<1>1. \A c \in Made : at'[c] = at[c] /\ link'[c] = link[c]
  BY DialledOne DEF Made
<1>2. \A i \in 1 .. Len(fan.list) : at'[fan.list[i]] = at[fan.list[i]]
  BY <1>1, Referred
<1>3. ASSUME fan' = fan, stored' = stored, lang' = lang, tidy' = tidy
      PROVE  Fanned'
  <2>1. \A i \in 1 .. N : Applied(i)' <=> Applied(i)
    BY <1>2, <1>3 DEF Applied
  <2>2. Len(fan.list) = N => (Placed(fan.list)' <=> Placed(fan.list))
    BY <1>2, <1>3 DEF Placed
  <2>3. Placed(fan.list) => Len(fan.list) = N
    BY DEF Placed
  <2>. QED  BY <1>3, <2>1, <2>2, <2>3 DEF Fanned
<1>. QED  BY <1>1, <1>3, Referred DEF Clients

\* In Python AUTH fails on a client whose socket is open, and the connect() that
\* was making it raises.
LEMMA DroppedInv ==
  ASSUME IInv, NEW k \in InFlight, lang = "py", Go(k, "raised"),
         NEW host \in Hosts, Dial(<<host>>, "refused"),
         \/ /\ Len(mine[k]) < N /\ host = Endpoints[Len(mine[k]) + 1]
            /\ mine' = [mine EXCEPT ![k] = Append(@, Fresh)] /\ UNCHANGED extra
         \/ host = wanted /\ extra' = [extra EXCEPT ![k] = Fresh] /\ UNCHANGED mine,
         UNCHANGED <<chosen, nodes, primary, reading, writing, tidy>>
  PROVE  IInv'
<1>. USE DEF IInv
<1>1. k \in Connects /\ call[k] = "nodes" /\ extra[k] = 0 /\ "refused" \in Links \ {"unused"}
  BY DEF InFlight, InTurn, Filed, Links
<1>2. /\ link' \in [Dials -> Links] /\ at' \in [Dials -> Hosts \cup {None}]
      /\ Fresh \in Dials \ Made /\ Fresh # 0 /\ link'[Fresh] = "refused" /\ at'[Fresh] = host
      /\ \A c \in Dials \ {Fresh} : link'[c] = link[c]
      /\ \A c \in Made : at'[c] = at[c] /\ c # Fresh
      /\ Made' = Made \cup {Fresh}
      /\ \E n \in 0 .. MaxDials : Made' = 1 .. n /\ Len(nodes) + 1 <= n
  BY ONLY IInv, <1>1, host \in Hosts, Dial(<<host>>, "refused"), DialledOne
<1>3. /\ primary # 0 => at'[primary] = at[primary] /\ link'[primary] = link[primary]
      /\ \A c \in ToSet(nodes) \cup ToSet(fan.list) : at'[c] = at[c] /\ link'[c] = link[c]
      /\ \A j \in Connects :
           /\ \A c \in ToSet(mine[j]) : at'[c] = at[c] /\ link'[c] = link[c]
           /\ \A i \in 1 .. Len(mine[j]) : at'[mine[j][i]] = at[mine[j][i]]
           /\ extra[j] # 0 => at'[extra[j]] = at[extra[j]] /\ link'[extra[j]] = link[extra[j]]
      /\ Fanned'
  BY <1>1, Untouched DEF writing, chosen
<1>. USE DEF chosen, reading, writing
<1>4. /\ call' \in [Connects -> Stages] /\ call'[k] = "raised"
      /\ \A j \in Connects \ {k} : call'[j] = call[j]
  BY <1>1 DEF Go, TypeOK, Stages
<1>5. /\ \A j \in Connects : /\ call'[j] = "idle" <=> call[j] = "idle"
                             /\ Latest(j)' <=> Latest(j)
      /\ InFlight' \subseteq InFlight \ {k} /\ InFlight \subseteq Connects
  BY <1>1, <1>4 DEF Latest, InFlight
<1>6. /\ mine' \in [Connects -> Seq(Dials)] /\ extra' \in [Connects -> 0 .. MaxDials]
      /\ \A j \in Connects \ {k} : mine'[j] = mine[j] /\ extra'[j] = extra[j]
      /\ Len(mine'[k]) <= N /\ \A i \in 1 .. Len(mine'[k]) : at'[mine'[k][i]] = Endpoints[i]
      /\ extra'[k] # 0 => at'[extra'[k]] = wanted
      /\ ToSet(mine'[k]) \cup ({extra'[k]} \ {0})
            = ToSet(mine[k]) \cup ({extra[k]} \ {0}) \cup {Fresh}
  <2>1. CASE /\ Len(mine[k]) < N /\ host = Endpoints[Len(mine[k]) + 1]
             /\ mine' = [mine EXCEPT ![k] = Append(@, Fresh)] /\ UNCHANGED extra
    <3>1. /\ mine[k] \in Seq(Dials) /\ mine'[k] = Append(mine[k], Fresh)
          /\ \A j \in Connects \ {k} : mine'[j] = mine[j]
      BY <1>1, <2>1 DEF TypeOK
    <3>2. /\ mine'[k] \in Seq(Dials) /\ Len(mine'[k]) = Len(mine[k]) + 1
          /\ \A i \in 1 .. Len(mine[k]) + 1 : mine'[k][i] = IF i <= Len(mine[k]) THEN mine[k][i] ELSE Fresh
          /\ ToSet(mine'[k]) = ToSet(mine[k]) \cup {Fresh}
      BY <1>2, <3>1, Appended
    <3>3. \A i \in 1 .. Len(mine'[k]) : at'[mine'[k][i]] = Endpoints[i]
      BY <1>1, <1>2, <1>3, <2>1, <3>1, <3>2 DEF Filed
    <3>4. mine' \in [Connects -> Seq(Dials)]
      BY <2>1, <3>1, <3>2 DEF TypeOK
    <3>5. extra' \in [Connects -> 0 .. MaxDials] /\ extra'[k] = 0 /\ N \in Nat /\ Len(mine[k]) \in Nat
      BY <1>1, <2>1, <3>1, EndpointList DEF TypeOK
    <3>. QED  BY <1>1, <2>1, <3>1, <3>2, <3>3, <3>4, <3>5
  <2>2. CASE host = wanted /\ extra' = [extra EXCEPT ![k] = Fresh] /\ UNCHANGED mine
    <3>1. /\ extra' \in [Connects -> 0 .. MaxDials] /\ extra'[k] = Fresh
          /\ \A j \in Connects \ {k} : extra'[j] = extra[j]
      BY <1>1, <1>2, <2>2, ClusterAssumption DEF TypeOK, Dials
    <3>2. Len(mine[k]) <= N /\ \A i \in 1 .. Len(mine[k]) : at'[mine[k][i]] = Endpoints[i]
      BY <1>1, <1>3 DEF Filed
    <3>. QED  BY <1>1, <1>2, <2>2, <3>1, <3>2 DEF TypeOK
  <2>. QED  BY <2>1, <2>2
<1>7. TypeOK'
  BY <1>2, <1>4, <1>6 DEF TypeOK
<1>8. Clients'
  <2>1. \A c \in Dials : link'[c] \in {"unused", "open", "closed", "refused"}
    BY <1>2 DEF Clients
  <2>2. \A j \in Connects : ToSet(mine'[j]) \subseteq Made' /\ extra'[j] \in Made' \cup {0}
    BY <1>2, <1>6 DEF Clients
  <2>3. ToSet(nodes) \subseteq Made' /\ primary \in Made' \cup {0} /\ ToSet(fan.list) \subseteq Made'
    BY <1>2 DEF Clients
  <2>4. \E n \in 0 .. MaxDials : Made' = 1 .. n /\ Len(nodes) <= n
    BY <1>2 DEF TypeOK
  <2>. QED  BY <2>1, <2>2, <2>3, <2>4 DEF Clients
<1>9. InTurn'
  BY <1>4, <1>5 DEF InTurn
<1>10. Filed'
  <2>1. \A c \in ToSet(nodes) \cup ToSet(fan.list) : at'[c] \in ToSet(Endpoints)
    BY <1>3 DEF Filed
  <2>2. ASSUME NEW j \in Connects
        PROVE  /\ Len(mine'[j]) <= N
               /\ \A i \in 1 .. Len(mine'[j]) : at'[mine'[j][i]] = Endpoints[i]
               /\ extra'[j] # 0 => at'[extra'[j]] = wanted
               /\ call'[j] = "idle" => mine'[j] = <<>>
               /\ call'[j] \in {"idle", "nodes"} => extra'[j] = 0
               /\ tidy /\ call'[j] = "returned" => Len(mine'[j]) = N
    <3>1. CASE j = k
      BY <1>4, <1>6, <3>1
    <3>2. CASE j # k
      BY <1>3, <1>4, <1>6, <3>2 DEF Filed
    <3>. QED  BY <3>1, <3>2
  <2>. QED  BY <2>1, <2>2 DEF Filed
<1>11. /\ Latest(k)
       /\ \A j \in Connects : Latest(j) => j = k
  <2>1. Latest(k)
    BY DEF InTurn
  <2>2. \A j \in Connects : Latest(j) => ~(j > k) /\ ~(k > j)
    BY <1>1, <2>1 DEF Latest
  <2>. QED  BY <1>1, <2>1, <2>2, ClusterAssumption DEF Connects
<1>12. Current' /\ Primary'
  <2>1. Current'
    BY <1>4, <1>5, <1>11 DEF Current
  <2>2. Primary'
    BY <1>3, <1>4, <1>5, <1>11 DEF Primary, WritesGoToPrimary, HasPrimary, Pointed, SameEndpoint
  <2>. QED  BY <2>1, <2>2
<1>13. Connected'
  <2>1. ASSUME NEW j \in Connects, call'[j] \in {"primary", "returned"}
        PROVE  /\ \A c \in ToSet(mine'[j]) : link'[c] \in {"open", "closed"}
               /\ call'[j] = "returned" /\ extra'[j] # 0 => link'[extra'[j]] \in {"open", "closed"}
    <3>1. j # k /\ call[j] = call'[j] /\ mine'[j] = mine[j] /\ extra'[j] = extra[j]
      BY <1>4, <1>6, <2>1
    <3>. QED  BY <1>3, <2>1, <3>1 DEF Connected
  <2>2. tidy => \A c \in ToSet(nodes) \cup ({primary} \ {0}) : link'[c] # "closed"
    BY <1>3 DEF Connected
  <2>. QED  BY <2>1, <2>2 DEF Connected
<1>14. Found'
  BY <1>2 DEF Found
<1>15. Even'
  BY <1>1, NotUsable DEF Even, Picked
<1>16. Dropped'
  <2>1. \A j \in Connects \ {k} : Refused(j)' = Refused(j)
    BY <1>3, <1>6 DEF Refused
  <2>2. Refused(k)' = {Fresh}
    <3>1. Refused(k) = {}
      BY <1>1 DEF Dropped
    <3>2. \A c \in ToSet(mine[k]) \cup ({extra[k]} \ {0}) : link'[c] = link[c]
      BY <1>1, <1>3
    <3>3. Refused(k)' = {c \in ToSet(mine[k]) \cup ({extra[k]} \ {0}) \cup {Fresh} : link'[c] = "refused"}
      BY <1>6 DEF Refused
    <3>. QED  BY <1>2, <3>1, <3>2, <3>3 DEF Refused
  <2>3. \A c \in ToSet(nodes) \cup ({primary} \ {0}) : link'[c] # "refused"
    BY <1>3 DEF Dropped
  <2>4. \A c \in Dials : link'[c] = "refused" =>
          \E j \in Connects : call'[j] = "raised" /\ c \in Refused(j)'
    BY <1>1, <1>2, <1>4, <2>1, <2>2 DEF Dropped
  <2>. QED  BY <1>4, <2>1, <2>2, <2>3, <2>4 DEF Dropped
<1>. QED  BY <1>3, <1>7, <1>8, <1>9, <1>10, <1>12, <1>13, <1>14, <1>15, <1>16

\* Python dials the next endpoint.
LEMMA DialNextInv ==
  ASSUME IInv, NEW k \in Connects, DialNext(k)
  PROVE  IInv'
<1>. USE DEF IInv
<1>1. /\ lang = "py" /\ call[k] = "nodes" /\ Len(mine[k]) < N
      /\ UNCHANGED <<chosen, primary, extra, reading, writing, tidy>>
  BY DEF DialNext
<1>. DEFINE next == Endpoints[Len(mine[k]) + 1]
<1>2. k \in InFlight
  BY <1>1 DEF InFlight
<1>3. CASE Go(k, "raised") /\ UNCHANGED <<conns, nodes, mine>>
  BY <1>1, <1>2, <1>3, ReturnedInv
<1>5. CASE /\ Go(k, "raised") /\ Dial(<<next>>, "refused")
           /\ mine' = [mine EXCEPT ![k] = Append(@, Fresh)] /\ UNCHANGED nodes
  <2>1. next \in Hosts
    BY <1>1, EndpointList DEF TypeOK
  <2>. QED  BY <1>1, <1>2, <1>5, <2>1, DroppedInv
<1>4. CASE /\ Dial(<<next>>, "open")
           /\ nodes' = Append(nodes, Fresh)
           /\ mine' = [mine EXCEPT ![k] = Append(@, Fresh)]
           /\ UNCHANGED call
  <2>. DEFINE m    == Len(mine[k]) + 1
              host == Endpoints[m]
  <2>1. m \in 1 .. N /\ host \in Hosts /\ "open" \in Links \ {"unused"} /\ Dial(<<host>>, "open")
    BY <1>1, <1>4, EndpointList DEF TypeOK, Links
  <2>. HIDE DEF host
  <2>2. /\ link' \in [Dials -> Links] /\ at' \in [Dials -> Hosts \cup {None}]
        /\ Fresh \in Dials \ Made /\ Fresh # 0 /\ link'[Fresh] = "open" /\ at'[Fresh] = host
        /\ \A c \in Dials \ {Fresh} : link'[c] = link[c]
        /\ \A c \in Made : at'[c] = at[c] /\ c # Fresh
        /\ Made' = Made \cup {Fresh}
        /\ \E n \in 0 .. MaxDials : Made' = 1 .. n /\ Len(nodes) + 1 <= n
    BY ONLY IInv, <2>1, DialledOne
  <2>3. /\ primary # 0 => at'[primary] = at[primary] /\ link'[primary] = link[primary]
        /\ \A c \in ToSet(nodes) \cup ToSet(fan.list) : at'[c] = at[c] /\ link'[c] = link[c]
        /\ \A j \in Connects :
             /\ \A c \in ToSet(mine[j]) : at'[c] = at[c] /\ link'[c] = link[c]
             /\ \A i \in 1 .. Len(mine[j]) : at'[mine[j][i]] = at[mine[j][i]]
             /\ extra[j] # 0 => at'[extra[j]] = at[extra[j]] /\ link'[extra[j]] = link[extra[j]]
        /\ Fanned'
    BY <1>1, <2>1, Untouched DEF writing, chosen
  <2>. USE DEF chosen, reading, writing
  <2>4. /\ nodes' \in Seq(Dials) /\ Len(nodes') = Len(nodes) + 1
        /\ ToSet(nodes') = ToSet(nodes) \cup {Fresh}
    BY <1>4, <2>2, Appended DEF TypeOK
  <2>5. /\ mine' \in [Connects -> Seq(Dials)]
        /\ mine'[k] = Append(mine[k], Fresh) /\ Len(mine'[k]) = m
        /\ ToSet(mine'[k]) = ToSet(mine[k]) \cup {Fresh}
        /\ \A i \in 1 .. m : mine'[k][i] = IF i <= Len(mine[k]) THEN mine[k][i] ELSE Fresh
        /\ \A j \in Connects \ {k} : mine'[j] = mine[j]
    BY <1>4, <2>2, Appended DEF TypeOK
  <2>. HIDE DEF m
  <2>6. /\ InFlight' = InFlight /\ InFlight \subseteq Connects
        /\ \A j \in Connects : /\ Latest(j)' <=> Latest(j)
                               /\ Latest(j) => j = k
    <3>1. Latest(k)
      BY <1>1, <1>2 DEF InTurn
    <3>2. \A j \in Connects : Latest(j) => ~(j > k) /\ ~(k > j)
      BY <3>1 DEF Latest
    <3>. QED  BY <1>4, <3>2, ClusterAssumption DEF InFlight, Latest, Connects
  <2>7. TypeOK'
    BY <1>1, <1>4, <2>2, <2>4, <2>5 DEF TypeOK
  <2>8. Clients'
    <3>1. \A c \in Dials : link'[c] \in {"unused", "open", "closed", "refused"}
      BY <1>1, <2>2 DEF Clients
    <3>2. \A j \in Connects : ToSet(mine'[j]) \subseteq Made' /\ extra[j] \in Made' \cup {0}
      BY <2>2, <2>5 DEF Clients
    <3>3. ToSet(nodes') \subseteq Made' /\ primary \in Made' \cup {0} /\ ToSet(fan.list) \subseteq Made'
      BY <2>2, <2>4 DEF Clients
    <3>. QED  BY <1>1, <2>2, <2>4, <3>1, <3>2, <3>3 DEF Clients
  <2>9. InTurn'
    BY <1>1, <1>4, <2>6 DEF InTurn
  <2>10. Filed'
    <3>1. \A i \in 1 .. m : at'[mine'[k][i]] = Endpoints[i]
      BY <2>2, <2>3, <2>5 DEF Filed, m, host
    <3>2. \A c \in ToSet(nodes') \cup ToSet(fan'.list) : at'[c] \in ToSet(Endpoints)
      <4>1. host \in ToSet(Endpoints)
        BY <2>1 DEF host, ToSet, N
      <4>. QED  BY <1>1, <2>2, <2>3, <2>4, <4>1 DEF Filed
    <3>. QED  BY <1>1, <1>4, <2>1, <2>3, <2>5, <3>1, <3>2 DEF Filed
  <2>11. Current'
    <3>1. tidy => nodes' = mine'[k]
      BY <1>1, <1>2, <1>4, <2>5 DEF Current, InTurn
    <3>. QED  BY <1>1, <2>6, <3>1 DEF Current
  <2>12. Primary'
    BY <1>1, <1>4, <2>3, <2>4, <2>6 DEF Primary, WritesGoToPrimary, HasPrimary, Pointed, SameEndpoint
  <2>13. Connected'
    <3>1. \A j \in Connects :
            /\ call[j] \in {"primary", "returned"} =>
                 \A c \in ToSet(mine'[j]) : link'[c] \in {"open", "closed"}
            /\ call[j] = "returned" /\ extra[j] # 0 => link'[extra[j]] \in {"open", "closed"}
      <4>1. \A j \in Connects : call[j] \in {"primary", "returned"} => mine'[j] = mine[j]
        BY <1>1, <2>5
      <4>. QED  BY <2>3, <4>1 DEF Connected
    <3>2. tidy => \A c \in ToSet(nodes') \cup ({primary} \ {0}) : link'[c] # "closed"
      BY <2>2, <2>3, <2>4 DEF Connected
    <3>. QED  BY <1>1, <1>4, <3>1, <3>2 DEF Connected
  <2>14. Found'
    BY <1>1, <2>2, <2>4 DEF Found
  <2>15. Even'
    BY <1>1, <1>4 DEF Even, Picked, Usable
  <2>16. Dropped'
    <3>1. \A j \in Connects : Refused(j)' = Refused(j)
      <4>1. ASSUME NEW j \in Connects
            PROVE  /\ \A c \in ToSet(mine[j]) \cup ({extra[j]} \ {0}) : link'[c] = link[c]
                   /\ ToSet(mine'[j]) \subseteq ToSet(mine[j]) \cup {Fresh}
                   /\ ToSet(mine[j]) \subseteq ToSet(mine'[j]) /\ extra'[j] = extra[j]
        BY <1>1, <2>3, <2>5
      <4>. QED  BY <2>2, <4>1 DEF Refused
    <3>2. \A c \in ToSet(nodes') \cup ({primary'} \ {0}) : link'[c] # "refused"
      BY <1>1, <2>2, <2>3, <2>4 DEF Dropped
    <3>. QED  BY <1>1, <1>4, <2>2, <3>1, <3>2 DEF Dropped
  <2>. QED  BY <2>3, <2>7, <2>8, <2>9, <2>10, <2>11, <2>12, <2>13, <2>14, <2>15, <2>16
<1>. QED  BY <1>3, <1>4, <1>5 DEF DialNext

\* A dial of JavaScript comes to an end.
LEMMA DialEndsInv ==
  ASSUME IInv, NEW c \in Dials, DialEnds(c)
  PROVE  IInv'
<1>. USE DEF IInv
<1>1. /\ link[c] = "dialing" /\ link' \in [Dials -> Links] /\ link'[c] \in {"open", "failed", "refused"}
      /\ \A d \in Dials \ {c} : link'[d] = link[d]
      /\ UNCHANGED <<chosen, at, nodes, primary, calls, reading, writing, tidy>>
  <2>1. PICK s \in {"open", "failed", "refused"} : link' = [link EXCEPT ![c] = s]
    BY DEF DialEnds
  <2>. QED  BY <2>1 DEF DialEnds, TypeOK, Links
<1>2. lang = "js"
  BY <1>1, ClusterAssumption DEF Clients, TypeOK
<1>. USE DEF chosen, calls, reading, writing
<1>3. TypeOK'
  BY <1>1 DEF TypeOK
<1>4. Clients'
  <2>1. Made' = Made
    BY <1>1 DEF Made
  <2>. QED  BY <1>1, <1>2, <2>1 DEF Clients
<1>5. InTurn' /\ Filed' /\ Current' /\ Primary'
  BY <1>1 DEF InTurn, InFlight, Latest, Filed, Current, Placed, Primary,
              WritesGoToPrimary, HasPrimary, Pointed, SameEndpoint
<1>6. Connected'
  BY <1>1, Referred DEF Connected, Clients, Made
<1>7. Found'
  <2>1. tidy => c \in ToSet(nodes) \cup {primary}
    BY <1>1 DEF Found
  <2>2. ASSUME tidy, NEW d \in Dials, link'[d] \in {"dialing", "open", "refused"}
        PROVE  d \in ToSet(nodes) \cup {primary}
    BY <1>1, <1>2, <2>1, <2>2 DEF Found
  <2>. QED  BY <1>1, <1>2, <2>2 DEF Found
<1>8. Even' /\ Fanned' /\ Dropped'
  BY <1>1, <1>2 DEF Even, Picked, Usable, Fanned, Applied, Placed, Dropped
<1>. QED  BY <1>3, <1>4, <1>5, <1>6, <1>7, <1>8

\* The primary is the node at the position of its endpoint.
LEMMA PrimaryFoundInv ==
  ASSUME IInv, NEW k \in InFlight, Ready(k), Go(k, "returned"),
         NEW i \in 1 .. N, SameEndpoint(i),
         primary' = IF i <= Len(nodes) THEN PrimaryNode(i) ELSE 0,
         UNCHANGED <<chosen, conns, nodes, mine, extra, reading, writing, tidy>>
  PROVE  IInv'
<1>. USE DEF IInv, chosen, conns, reading, writing
<1>1. /\ k \in Connects /\ call[k] = "nodes" /\ Endpoints[i] = wanted /\ Len(mine[k]) = N
      /\ \A c \in ToSet(mine[k]) : link[c] \in {"open", "closed"}
  BY DEF InFlight, Ready, SameEndpoint
<1>2. /\ call' \in [Connects -> Stages] /\ call'[k] = "returned"
      /\ \A j \in Connects \ {k} : call'[j] = call[j]
  BY <1>1 DEF Go, TypeOK, Stages
<1>3. /\ \A j \in Connects : /\ call'[j] = "idle" <=> call[j] = "idle"
                             /\ Latest(j)' <=> Latest(j)
      /\ InFlight' \subseteq InFlight \ {k} /\ InFlight' \subseteq Connects
  BY <1>1, <1>2 DEF Latest, InFlight
<1>4. /\ i <= Len(nodes) => /\ primary' = nodes[i] /\ primary' \in Dials /\ primary' \in ToSet(nodes)
                            /\ primary' # 0
      /\ ~(i <= Len(nodes)) => primary' = 0
  BY Elements, ClusterAssumption DEF TypeOK, PrimaryNode, Dials
<1>5. lang = "py" \/ tidy => Latest(k) /\ \A j \in Connects : Latest(j) => j = k
  <2>1. lang = "py" \/ tidy => Latest(k)
    BY DEF InTurn
  <2>2. Latest(k) => \A j \in Connects : Latest(j) => ~(j > k) /\ ~(k > j)
    BY <1>1 DEF Latest
  <2>. QED  BY <1>1, <2>1, <2>2, ClusterAssumption DEF Connects
<1>6. tidy => nodes = mine[k] /\ Len(nodes) = N
  BY <1>1, <1>5 DEF Current
<1>7. TypeOK' /\ Clients'
  <2>1. TypeOK'
    BY <1>2, <1>4, ClusterAssumption DEF TypeOK, Dials
  <2>2. primary' \in Made \cup {0}
    BY <1>4 DEF Clients
  <2>. QED  BY <2>1, <2>2 DEF Clients, Made
<1>8. InTurn'
  <2>1. lang = "py" /\ InFlight' # {} => fan.stage # "running"
    BY <1>3 DEF InTurn
  <2>2. \A l, j \in Connects : l < j /\ call'[j] # "idle" => call'[l] # "idle"
    BY <1>3 DEF InTurn
  <2>3. lang = "py" \/ tidy => \A j \in InFlight' : Latest(j)'
    BY <1>3 DEF InTurn
  <2>. QED  BY <1>2, <2>1, <2>2, <2>3 DEF InTurn
<1>9. Filed' /\ Current'
  BY <1>1, <1>2, <1>3 DEF Filed, Current, Placed
<1>10. Primary'
  <2>1. lang = "js" \/ tidy => WritesGoToPrimary'
    <3>1. i <= Len(nodes) /\ (lang = "js" \/ tidy) => at[nodes[i]] = Endpoints[i]
      <4>1. CASE lang = "js"
        BY <1>4, <4>1 DEF Current, Placed, ToSet
      <4>2. CASE tidy
        BY <1>1, <1>6, <4>2 DEF Filed
      <4>. QED  BY <4>1, <4>2
    <3>. QED  BY <1>1, <1>4, <3>1 DEF WritesGoToPrimary, HasPrimary
  <2>2. tidy => primary' \in ToSet(mine[k]) /\ primary' # 0
    BY <1>4, <1>6
  <2>. QED  BY <1>2, <1>3, <1>4, <1>5, <2>1, <2>2 DEF Primary, HasPrimary
<1>11. Connected'
  <2>1. extra[k] = 0
    BY <1>1 DEF Filed
  <2>2. \A c \in ToSet(nodes) \cup ({primary'} \ {0}) : c \in ToSet(nodes)
    BY <1>4
  <2>. QED  BY <1>1, <1>2, <2>1, <2>2 DEF Connected
<1>12. Found'
  <2>1. Pointed # {}
    BY DEF Pointed
  <2>2. tidy => primary = 0
    BY <1>1, <1>5 DEF Primary
  <2>3. (lang = "py" \/ tidy) /\ primary # 0 => primary \in ToSet(nodes)
    BY <2>1, <2>2 DEF Primary, HasPrimary
  <2>4. \A c \in Dials : c # 0
    BY DEF Dials
  <2>. QED  BY <2>3, <2>4 DEF Found
<1>13. Even' /\ Fanned'
  BY NotUsable, SMTT(30) DEF Even, Picked, Fanned, Applied, Placed
<1>14. Dropped'
  <2>1. \A j \in Connects : Refused(j)' = Refused(j)
    BY DEF Refused
  <2>2. lang = "py" => Refused(k) = {}
    BY <1>1 DEF Dropped
  <2>. QED  BY <1>1, <1>2, <1>4, <2>1, <2>2 DEF Dropped
<1>. QED  BY <1>7, <1>8, <1>9, <1>10, <1>11, <1>12, <1>13, <1>14

\* The primary is none of the endpoints and gets a client of its own, which
\* Python has connected and JavaScript has yet to wait for.
LEMMA PrimaryDialledInv ==
  ASSUME IInv, NEW k \in InFlight, Ready(k), wanted # None, Pointed = {},
         NEW s \in {"open", "dialing"}, Dial(<<wanted>>, s), primary' = Fresh,
         \/ lang = "py" /\ primary = 0 /\ s = "open" /\ Go(k, "returned") /\ UNCHANGED extra
         \/ /\ lang = "js" /\ s = "dialing" /\ Go(k, "primary")
            /\ extra' = [extra EXCEPT ![k] = Fresh],
         UNCHANGED <<chosen, nodes, mine, reading, writing, tidy>>
  PROVE  IInv'
<1>. USE DEF IInv
<1>1. /\ k \in Connects /\ call[k] = "nodes" /\ Len(mine[k]) = N /\ extra[k] = 0
      /\ \A c \in ToSet(mine[k]) : link[c] \in {"open", "closed"}
  BY DEF InFlight, Ready, Filed
<1>2. wanted \in Hosts /\ s \in Links \ {"unused"}
  <2>1. Endpoints[1] \in Hosts
    BY EndpointList
  <2>. QED  BY <2>1 DEF TypeOK, Hosts, Links
<1>3. /\ link' \in [Dials -> Links] /\ at' \in [Dials -> Hosts \cup {None}]
      /\ Fresh \in Dials \ Made /\ Fresh # 0 /\ link'[Fresh] = s /\ at'[Fresh] = wanted
      /\ \A c \in Dials \ {Fresh} : link'[c] = link[c]
      /\ \A c \in Made : at'[c] = at[c] /\ c # Fresh
      /\ Made' = Made \cup {Fresh}
      /\ \E n \in 0 .. MaxDials : Made' = 1 .. n /\ Len(nodes) + 1 <= n
  BY ONLY IInv, <1>2, Dial(<<wanted>>, s), DialledOne
<1>4. /\ \A c \in ToSet(nodes) \cup ToSet(fan.list) : at'[c] = at[c] /\ link'[c] = link[c]
      /\ \A j \in Connects :
           /\ \A c \in ToSet(mine[j]) : at'[c] = at[c] /\ link'[c] = link[c]
           /\ \A i \in 1 .. Len(mine[j]) : at'[mine[j][i]] = at[mine[j][i]]
           /\ extra[j] # 0 => at'[extra[j]] = at[extra[j]] /\ link'[extra[j]] = link[extra[j]]
      /\ \A i \in 1 .. Len(nodes) : at'[nodes[i]] = at[nodes[i]]
      /\ Fanned'
  BY <1>2, Untouched DEF writing, chosen
<1>. USE DEF chosen, reading, writing
<1>5. /\ call' \in [Connects -> Stages] /\ call'[k] = IF lang = "js" THEN "primary" ELSE "returned"
      /\ \A j \in Connects \ {k} : call'[j] = call[j]
      /\ extra' \in [Connects -> 0 .. MaxDials] /\ extra'[k] = IF lang = "js" THEN Fresh ELSE 0
      /\ \A j \in Connects \ {k} : extra'[j] = extra[j]
      /\ lang \in {"py", "js"} /\ s = IF lang = "js" THEN "dialing" ELSE "open"
  <2>1. lang \in {"py", "js"} /\ s = IF lang = "js" THEN "dialing" ELSE "open"
    BY ClusterAssumption DEF TypeOK
  <2>2. call' = [call EXCEPT ![k] = IF lang = "js" THEN "primary" ELSE "returned"]
    BY <2>1 DEF Go
  <2>3. extra' = IF lang = "js" THEN [extra EXCEPT ![k] = Fresh] ELSE extra
    BY <2>1
  <2>4. Fresh \in 0 .. MaxDials
    BY <1>3, ClusterAssumption DEF Dials
  <2>. QED  BY <1>1, <2>1, <2>2, <2>3, <2>4 DEF TypeOK, Stages
<1>6. /\ \A j \in Connects : /\ call'[j] = "idle" <=> call[j] = "idle"
                             /\ Latest(j)' <=> Latest(j)
      /\ InFlight' \subseteq InFlight /\ InFlight \subseteq Connects
      /\ lang = "py" => InFlight' = InFlight \ {k}
  BY <1>1, <1>5 DEF Latest, InFlight
<1>7. lang = "py" \/ tidy => Latest(k) /\ \A j \in Connects : Latest(j) => j = k
  <2>1. lang = "py" \/ tidy => Latest(k)
    BY DEF InTurn
  <2>2. Latest(k) => \A j \in Connects : Latest(j) => ~(j > k) /\ ~(k > j)
    BY <1>1 DEF Latest
  <2>. QED  BY <1>1, <2>1, <2>2, ClusterAssumption DEF Connects
<1>8. TypeOK'
  BY <1>3, <1>5, SMTT(30) DEF TypeOK, Dials
<1>9. Clients'
  <2>1. lang = "py" => \A c \in Dials : link'[c] \in {"unused", "open", "closed", "refused"}
    BY <1>3, <1>5 DEF Clients
  <2>2. \A j \in Connects : ToSet(mine[j]) \subseteq Made' /\ extra'[j] \in Made' \cup {0}
    BY <1>3, <1>5 DEF Clients
  <2>3. ToSet(nodes) \subseteq Made' /\ ToSet(fan.list) \subseteq Made' /\ primary' \in Made'
    BY <1>3 DEF Clients
  <2>4. \E n \in 0 .. MaxDials : Made' = 1 .. n /\ Len(nodes) <= n
    BY <1>3 DEF TypeOK
  <2>. QED  BY <1>3, <2>1, <2>2, <2>3, <2>4 DEF Clients
<1>10. InTurn'
  <2>1. lang = "py" /\ InFlight' # {} => fan.stage # "running"
    BY <1>6 DEF InTurn
  <2>2. \A l, j \in Connects : l < j /\ call'[j] # "idle" => call'[l] # "idle"
    BY <1>6 DEF InTurn
  <2>3. lang = "py" \/ tidy => \A j \in InFlight' : Latest(j)'
    BY <1>6 DEF InTurn
  <2>4. lang = "py" => \A j \in Connects : call'[j] # "primary"
    BY <1>5 DEF InTurn
  <2>. QED  BY <2>1, <2>2, <2>3, <2>4 DEF InTurn
<1>11. Filed'
  <2>1. \A j \in Connects : /\ extra'[j] # 0 => at'[extra'[j]] = wanted
                            /\ call'[j] \in {"idle", "nodes"} => extra'[j] = 0
    BY <1>3, <1>4, <1>5, SMTT(30) DEF Filed
  <2>2. \A j \in Connects :
          /\ Len(mine[j]) <= N
          /\ \A i \in 1 .. Len(mine[j]) : at'[mine[j][i]] = Endpoints[i]
          /\ call'[j] = "idle" => mine[j] = <<>>
          /\ lang = "js" /\ call'[j] # "idle" => Len(mine[j]) = N
          /\ tidy /\ call'[j] = "returned" => Len(mine[j]) = N
    BY <1>1, <1>4, <1>5, <1>6, SMTT(30) DEF Filed
  <2>3. \A c \in ToSet(nodes) \cup ToSet(fan.list) : at'[c] \in ToSet(Endpoints)
    BY <1>4 DEF Filed
  <2>. QED  BY <2>1, <2>2, <2>3 DEF Filed
<1>12. Current'
  <2>1. Placed(nodes) => Placed(nodes)'
    BY <1>4 DEF Placed
  <2>2. \A j \in Connects : call'[j] # "raised" => call[j] # "raised"
    BY <1>1, <1>5
  <2>. QED  BY <1>6, <2>1, <2>2 DEF Current
<1>13. Primary'
  BY <1>3, <1>5, <1>6, <1>7 DEF Primary, WritesGoToPrimary, HasPrimary, Pointed, SameEndpoint
<1>14. Connected'
  <2>1. \A j \in Connects :
          /\ call'[j] \in {"primary", "returned"} =>
               \A c \in ToSet(mine[j]) : link'[c] \in {"open", "closed"}
          /\ call'[j] = "returned" /\ extra'[j] # 0 => link'[extra'[j]] \in {"open", "closed"}
    BY <1>1, <1>4, <1>5 DEF Connected
  <2>2. tidy => \A c \in ToSet(nodes) \cup ({primary'} \ {0}) : link'[c] # "closed"
    BY <1>3, <1>4, <1>5 DEF Connected
  <2>. QED  BY <2>1, <2>2 DEF Connected
<1>15. Found'
  <2>1. lang = "py" \/ tidy => primary = 0
    BY <1>1, <1>5, <1>7 DEF Primary
  <2>2. \A c \in Dials : c # 0
    BY DEF Dials
  <2>. QED  BY <1>3, <2>1, <2>2 DEF Found
<1>16. Even'
  BY NotUsable DEF Even, Picked
<1>17. Dropped'
  <2>1. CASE lang = "js"
    BY <2>1 DEF Dropped
  <2>2. CASE lang = "py"
    <3>1. \A j \in Connects : Refused(j)' = Refused(j)
      BY <1>4, <1>5, <2>2 DEF Refused
    <3>2. Refused(k) = {}
      BY <1>1, <2>2 DEF Dropped
    <3>3. \A c \in ToSet(nodes) \cup ({primary'} \ {0}) : link'[c] # "refused"
      BY <1>3, <1>4, <1>5, <2>2 DEF Dropped
    <3>. QED  BY <1>1, <1>3, <1>5, <2>2, <3>1, <3>2, <3>3 DEF Dropped
  <2>. QED  BY <1>5, <2>1, <2>2
<1>. QED  BY <1>4, <1>8, <1>9, <1>10, <1>11, <1>12, <1>13, <1>14, <1>15, <1>16, <1>17

\* All of the endpoints are connected, and the primary is chosen.
LEMMA ChoosePrimaryInv ==
  ASSUME IInv, NEW k \in Connects, ChoosePrimary(k)
  PROVE  IInv'
<1>1. /\ k \in InFlight /\ Ready(k) /\ Len(mine[k]) = N
      /\ \A c \in ToSet(mine[k]) : link[c] \in {"open", "closed"}
      /\ UNCHANGED <<chosen, nodes, mine, reading, writing, tidy>>
  BY DEF ChoosePrimary, Ready, InFlight
<1>2. extra[k] = 0
  BY <1>1 DEF IInv, Filed, Ready
<1>3. CASE wanted = None /\ Go(k, "returned") /\ UNCHANGED <<conns, primary, extra>>
  BY <1>1, <1>2, <1>3, ReturnedInv
<1>4. CASE /\ Pointed # {} /\ Go(k, "returned") /\ UNCHANGED <<conns, extra>>
           /\ \E i \in Pointed : primary' = IF i <= Len(nodes) THEN PrimaryNode(i) ELSE 0
  BY <1>1, <1>4, PrimaryFoundInv DEF Pointed
<1>5. CASE primary # 0 /\ Go(k, "returned") /\ UNCHANGED <<conns, primary, extra>>
  BY <1>1, <1>2, <1>5, ReturnedInv
<1>6. CASE /\ wanted # None /\ Pointed = {} /\ lang = "py" /\ primary = 0 /\ Dial(<<wanted>>, "open")
           /\ primary' = Fresh /\ Go(k, "returned") /\ UNCHANGED extra
  BY <1>1, <1>6, PrimaryDialledInv
<1>7. CASE Go(k, "raised") /\ UNCHANGED <<conns, primary, extra>>
  BY <1>1, <1>7, ReturnedInv
<1>9. CASE /\ wanted # None /\ lang = "py" /\ Go(k, "raised") /\ Dial(<<wanted>>, "refused")
           /\ extra' = [extra EXCEPT ![k] = Fresh] /\ UNCHANGED primary
  <2>1. wanted \in Hosts
    BY <1>9, EndpointList DEF IInv, TypeOK, Hosts
  <2>. QED  BY <1>1, <1>9, <2>1, DroppedInv
<1>8. CASE /\ wanted # None /\ Pointed = {} /\ lang = "js" /\ Dial(<<wanted>>, "dialing")
           /\ primary' = Fresh /\ extra' = [extra EXCEPT ![k] = Fresh] /\ Go(k, "primary")
  BY <1>1, <1>8, PrimaryDialledInv
<1>. QED  BY <1>3, <1>4, <1>5, <1>6, <1>7, <1>8, <1>9 DEF ChoosePrimary, Pointed

-----------------------------------------------------------------------------
(* Reads.                                                                  *)

\* What concerns neither the readers nor the writes stays as it was.
LEMMA OnlyReads ==
  ASSUME IInv, TypeOK', Even', UNCHANGED <<chosen, conns, nodes, primary, calls, writing>>, tidy' => tidy
  PROVE  IInv'
<1>. USE DEF IInv, chosen, conns, calls, writing
<1>1. Clients' /\ InTurn' /\ Filed'
  BY DEF Clients, Made, InTurn, InFlight, Latest, Filed
<1>2. Current' /\ Primary' /\ Connected' /\ Found'
  BY DEF Current, InFlight, Latest, Placed, Primary, WritesGoToPrimary, HasPrimary, Pointed,
         SameEndpoint, Connected, Found
<1>3. Fanned' /\ Dropped'
  BY DEF Fanned, Applied, Placed, Dropped, Refused
<1>. QED  BY <1>1, <1>2, <1>3

\* Once a connect() has returned, a tidy application has a node for each endpoint.
LEMMA NodesOfUsable ==
  ASSUME TypeOK, Filed, Current, Usable, tidy, nodes # <<>>
  PROVE  /\ \E k \in Connects : Latest(k) /\ call[k] = "returned" /\ nodes = mine[k]
         /\ Placed(nodes)
<1>1. PICK k \in Connects : call[k] = "returned" /\ \A j \in Connects : j > k => call[j] = "idle"
  BY DEF Usable
<1>2. Latest(k) /\ nodes = mine[k] /\ Len(nodes) = N
  BY <1>1 DEF Latest, Current, Filed
<1>. QED  BY <1>1, <1>2 DEF Placed, Filed

\* The position whose turn it is is counted, or else undefined.
LEMMA CountedInTurn ==
  ASSUME TypeOK, NEW t \in Nat, NEW c \in {0, (t % N) + 1}, Count(c), Rounds(picks, t)
  PROVE  picks' \in [0 .. N -> Nat] /\ Rounds(picks', t + 1)
<1>. DEFINE r == t % N
            r1 == (t + 1) % N
<1>2. N \in Nat \ {0} /\ r \in 0 .. N - 1 /\ r1 = IF r = N - 1 THEN 0 ELSE r + 1
  BY EndpointList, NextPosition
<1>1. PICK q \in 0 .. t : \A i \in 1 .. N :
        /\ picks[i] <= q + IF i <= r THEN 1 ELSE 0
        /\ (q + IF i <= r THEN 1 ELSE 0) <= picks[i] + picks[0]
  BY DEF Rounds
<1>3. /\ picks' = [j \in 0 .. N |-> IF j = c THEN picks[j] + 1 ELSE picks[j]]
      /\ c \in {0, r + 1}
  BY DEF Count
<1>. HIDE DEF r, r1
<1>4. picks \in [0 .. N -> Nat] /\ picks' \in [0 .. N -> Nat] /\ 0 \in 0 .. N
  <2>1. picks \in [0 .. N -> Nat]
    BY DEF TypeOK
  <2>. QED  BY <1>2, <1>3, <2>1
<1>. DEFINE s == IF r = N - 1 THEN q + 1 ELSE q
<1>5. ASSUME NEW i \in 1 .. N
      PROVE  /\ picks'[i] <= s + IF i <= r1 THEN 1 ELSE 0
             /\ (s + IF i <= r1 THEN 1 ELSE 0) <= picks'[i] + picks'[0]
  <2>1. picks'[i] = IF i = c THEN picks[i] + 1 ELSE picks[i]
    BY <1>3, <1>2
  <2>2. picks'[0] = IF c = 0 THEN picks[0] + 1 ELSE picks[0]
    BY <1>3, <1>4
  <2>3. (s + IF i <= r1 THEN 1 ELSE 0) = (q + IF i <= r THEN 1 ELSE 0) + IF i = r + 1 THEN 1 ELSE 0
    BY <1>2
  <2>4. picks[i] \in Nat /\ picks[0] \in Nat
    BY <1>2, <1>4
  <2>5. CASE c = 0
    BY <1>1, <1>2, <2>1, <2>2, <2>3, <2>4, <2>5
  <2>6. CASE c = r + 1
    BY <1>1, <1>2, <2>1, <2>2, <2>3, <2>4, <2>6
  <2>. QED  BY <1>3, <2>5, <2>6
<1>6. s \in 0 .. t + 1
  BY <1>1
<1>. HIDE DEF s
<1>. QED  BY <1>4, <1>5, <1>6 DEF Rounds, r1

\* A thread takes the lock and loads the nodes and the counter.
LEMMA LoadInv ==
  ASSUME IInv, NEW r \in Readers, Load(r)
  PROVE  IInv'
<1>. USE DEF IInv
<1>1. /\ lang = "py" /\ lock = None /\ lock' = r /\ read[r] = Unread
      /\ read' = [read EXCEPT ![r] = [list |-> nodes, index |-> turn, chosen |-> FALSE]]
      /\ tidy' \in BOOLEAN /\ (tidy' => tidy /\ Usable)
      /\ UNCHANGED <<chosen, conns, nodes, primary, calls, turn, picks, writing>>
  BY DEF Load, Take, TypeOK
<1>. USE DEF chosen, conns, calls, writing
<1>2. /\ read' \in [Readers -> [list : Seq(Dials), index : Nat \cup {-1}, chosen : BOOLEAN]]
      /\ read'[r].chosen = FALSE /\ read'[r].index = turn
      /\ \A p \in Readers \ {r} : read'[p] = read[p]
  BY <1>1 DEF TypeOK
<1>3. \A p \in Readers : read[p] = Unread /\ read[p].chosen = FALSE
  BY <1>1, ClusterAssumption DEF TypeOK, Unread
<1>4. read'[r] # Unread
  <2>1. turn # -1
    BY DEF TypeOK
  <2>. QED  BY <1>2, <2>1 DEF Unread
<1>5. TypeOK'
  BY <1>1, <1>2, <1>3 DEF TypeOK
<1>6. Picked' = Picked
  BY <1>1, <1>2, <1>3 DEF Picked
<1>7. Even'
  <2>1. \A p \in Readers : /\ read'[p] # Unread => lang = "py" /\ read'[p].index = turn
                           /\ lock' = p => read'[p] # Unread
    BY <1>1, <1>2, <1>3, <1>4
  <2>2. tidy' => Usable'
    BY <1>1 DEF Usable
  <2>. QED  BY <1>1, <1>6, <2>1, <2>2 DEF Even
<1>. QED  BY <1>1, <1>5, <1>7, OnlyReads

\* The thread that holds the lock takes the position whose turn it is, or raises.
LEMMA IndexInv ==
  ASSUME IInv, NEW r \in Readers, Index(r)
  PROVE  IInv'
<1>. USE DEF IInv
<1>1. /\ read[r] # Unread /\ read[r].chosen = FALSE /\ lock = r /\ lang = "py" /\ read[r].index = turn
      /\ UNCHANGED <<chosen, conns, nodes, primary, calls, turn, tidy, writing>>
  BY DEF Index, TypeOK, Even
<1>. USE DEF chosen, conns, calls, writing
<1>2. \A p \in Readers \ {r} : read[p] = Unread /\ read[p].chosen = FALSE
  BY <1>1 DEF TypeOK, Unread
<1>3. Picked = turn /\ turn \in Nat /\ r # None
  BY <1>1, <1>2, ClusterAssumption DEF Picked, TypeOK
<1>4. CASE lock' = None /\ read' = [read EXCEPT ![r] = Unread] /\ UNCHANGED picks
  <2>1. /\ \A p \in Readers : read'[p] = Unread /\ read'[p].chosen = FALSE
        /\ read' \in [Readers -> [list : Seq(Dials), index : Nat \cup {-1}, chosen : BOOLEAN]]
    BY <1>2, <1>4, EmptySeq DEF TypeOK, Unread
  <2>2. TypeOK'
    BY <1>1, <1>4, <2>1 DEF TypeOK
  <2>3. Picked' = turn
    BY <1>1, <1>3, <2>1 DEF Picked
  <2>4. Even'
    BY <1>1, <1>3, <1>4, <2>1, <2>3, ClusterAssumption DEF Even
  <2>. QED  BY <1>1, <2>2, <2>4, OnlyReads
<1>5. CASE /\ nodes # <<>> /\ read' = [read EXCEPT ![r].chosen = TRUE]
           /\ Count((read[r].index % Len(nodes)) + 1) /\ UNCHANGED lock
  <2>1. /\ read'[r].chosen = TRUE /\ read'[r].index = turn /\ read'[r] # Unread
        /\ \A p \in Readers \ {r} : read'[p] = read[p]
        /\ read' \in [Readers -> [list : Seq(Dials), index : Nat \cup {-1}, chosen : BOOLEAN]]
    <3>1. read[r] \in [list : Seq(Dials), index : Nat \cup {-1}, chosen : BOOLEAN]
      BY DEF TypeOK
    <3>2. read'[r] = [read[r] EXCEPT !.chosen = TRUE] /\ \A p \in Readers \ {r} : read'[p] = read[p]
      BY <1>5 DEF TypeOK
    <3>3. /\ read'[r] \in [list : Seq(Dials), index : Nat \cup {-1}, chosen : BOOLEAN]
          /\ read'[r].chosen = TRUE /\ read'[r].index = read[r].index
      BY <3>1, <3>2
    <3>4. read'[r] # Unread
      BY <3>3 DEF Unread
    <3>5. read' \in [Readers -> [list : Seq(Dials), index : Nat \cup {-1}, chosen : BOOLEAN]]
      BY <1>5, <3>2, <3>3 DEF TypeOK
    <3>. QED  BY <1>1, <3>2, <3>3, <3>4, <3>5
  <2>2. picks' \in [0 .. N -> Nat]
    BY <1>5 DEF Count, TypeOK
  <2>3. TypeOK'
    BY <1>1, <1>5, <2>1, <2>2 DEF TypeOK
  <2>4. Picked' = turn + 1
    BY <1>1, <2>1 DEF Picked
  <2>5. tidy => Rounds(picks', turn + 1)
    <3>1. tidy => Len(nodes) = N
      BY <1>1, <1>3, <1>5, NodesOfUsable DEF Even, Placed
    <3>2. tidy => Count((turn % N) + 1)
      BY <1>1, <1>5, <3>1
    <3>. QED  BY <1>3, <3>2, CountedInTurn DEF Even
  <2>6. \A p \in Readers : /\ read'[p] # Unread => lang = "py" /\ read'[p].index = turn
                           /\ lock' = p => read'[p] # Unread
    BY <1>1, <1>2, <1>5, <2>1
  <2>7. tidy => Usable'
    BY <1>1, <1>3 DEF Even, Usable
  <2>8. Even'
    BY <1>1, <2>4, <2>5, <2>6, <2>7 DEF Even
  <2>. QED  BY <1>1, <2>3, <2>8, OnlyReads
<1>. QED  BY <1>4, <1>5 DEF Index

\* The counter moves on, and the lock is released.
LEMMA AdvanceInv ==
  ASSUME IInv, NEW r \in Readers, Advance(r)
  PROVE  IInv'
<1>. USE DEF IInv
<1>1. /\ read[r].chosen = TRUE /\ read[r] # Unread /\ lock = r /\ lang = "py"
      /\ turn' = turn + 1 /\ lock' = None /\ read' = [read EXCEPT ![r] = Unread]
      /\ UNCHANGED <<chosen, conns, nodes, primary, calls, picks, tidy, writing>>
  BY DEF Advance, TypeOK, Unread, Even
<1>. USE DEF chosen, conns, calls, writing
<1>2. \A p \in Readers \ {r} : read[p] = Unread
  BY <1>1 DEF TypeOK
<1>3. /\ \A p \in Readers : read'[p] = Unread /\ read'[p].chosen = FALSE
      /\ read' \in [Readers -> [list : Seq(Dials), index : Nat \cup {-1}, chosen : BOOLEAN]]
  <2>1. Unread \in [list : Seq(Dials), index : Nat \cup {-1}, chosen : BOOLEAN] /\ Unread.chosen = FALSE
    BY EmptySeq DEF Unread
  <2>2. \A p \in Readers : read'[p] = Unread
    BY <1>1, <1>2 DEF TypeOK
  <2>. QED  BY <1>1, <2>1, <2>2 DEF TypeOK
<1>4. turn \in Nat
  BY DEF TypeOK
<1>5. TypeOK'
  BY <1>1, <1>3, <1>4 DEF TypeOK
<1>6. Picked' = turn + 1 /\ Picked = turn + 1
  BY <1>1, <1>3, <1>4 DEF Picked
<1>7. Even'
  BY <1>1, <1>3, <1>6, ClusterAssumption DEF Even
<1>. QED  BY <1>1, <1>5, <1>7, OnlyReads

\* JavaScript takes the position whose turn it is and moves on in one step.
LEMMA ReadRoundRobinInv ==
  ASSUME IInv, ReadRoundRobin
  PROVE  IInv'
<1>. USE DEF IInv
<1>1. /\ lang = "js" /\ turn \in Nat
      /\ Count(IF nodes = <<>> THEN 0 ELSE (turn % Len(nodes)) + 1) /\ turn' = turn + 1
      /\ UNCHANGED <<chosen, conns, nodes, primary, calls, lock, read, tidy, writing>>
  BY DEF ReadRoundRobin, TypeOK
<1>. USE DEF chosen, conns, calls, writing
<1>2. \A p \in Readers : read[p] = Unread /\ read[p].chosen = FALSE
  BY <1>1 DEF Even, Unread
<1>3. Picked = turn /\ Picked' = turn + 1
  BY <1>1, <1>2 DEF Picked
<1>4. nodes # <<>> => Len(nodes) = N
  BY <1>1 DEF Current, Placed
<1>6. picks' \in [0 .. N -> Nat] /\ Rounds(picks', turn + 1)
  <2>1. Rounds(picks, turn)
    BY <1>1, <1>3 DEF Even
  <2>2. \E c \in {0, (turn % N) + 1} : Count(c)
    BY <1>1, <1>4
  <2>. QED  BY <1>1, <2>1, <2>2, CountedInTurn
<1>7. Rounds(picks', turn + 1)
  BY <1>6
<1>5. TypeOK'
  BY <1>1, <1>6 DEF TypeOK
<1>8. Even'
  BY <1>1, <1>2, <1>3, <1>7 DEF Even, Usable
<1>. QED  BY <1>1, <1>5, <1>8, OnlyReads

-----------------------------------------------------------------------------
(* Writes to all nodes.                                                    *)

\* What does not concern the fanned-out write stays as it was.
LEMMA OnlyWrites ==
  ASSUME IInv, TypeOK', ToSet(fan'.list) \subseteq Made, \A c \in ToSet(fan'.list) : at[c] \in ToSet(Endpoints),
         lang = "py" /\ InFlight # {} => fan'.stage # "running", Fanned',
         UNCHANGED <<chosen, conns, nodes, primary, calls, tidy, reading>>
  PROVE  IInv'
<1>. USE DEF IInv, chosen, conns, calls, reading
<1>1. Clients' /\ InTurn' /\ Filed'
  BY DEF Clients, Made, InTurn, InFlight, Latest, Filed
<1>2. Current' /\ Primary' /\ Connected' /\ Found'
  BY DEF Current, InFlight, Latest, Placed, Primary, WritesGoToPrimary, HasPrimary, Pointed,
         SameEndpoint, Connected, Found
<1>3. Even' /\ Dropped'
  BY DEF Even, Picked, Usable, Dropped, Refused
<1>. QED  BY <1>1, <1>2, <1>3

\* The write goes to the nodes there are.
LEMMA WriteToAllInv ==
  ASSUME IInv, WriteToAll
  PROVE  IInv'
<1>. USE DEF IInv
<1>. DEFINE sent == [i \in 1 .. Len(nodes) |->
                       IF lang = "js" /\ ~IsOpen(nodes[i]) THEN "failed" ELSE "pending"]
<1>1. /\ fan = NoFan /\ (lang = "py" => Usable)
      /\ fan' = [stage |-> "running", list |-> nodes, result |-> sent]
      /\ UNCHANGED <<chosen, conns, nodes, primary, calls, reading, stored, tidy>>
  BY DEF WriteToAll
<1>. USE DEF chosen, conns, calls, reading
<1>2. sent \in Seq({"pending", "ok", "failed"}) /\ Len(sent) = Len(nodes)
      /\ \A i \in 1 .. Len(nodes) : sent[i] \in {"pending", "failed"}
  <2>1. Len(nodes) \in Nat
    BY DEF TypeOK
  <2>. QED  BY <2>1, IsASeq
<1>. HIDE DEF sent
<1>3. TypeOK'
  BY <1>1, <1>2 DEF TypeOK
<1>4. lang = "py" => InFlight = {}
  BY <1>1, NotUsable
<1>5. Fanned'
  <2>1. \A i \in 1 .. N : stored[i] = 0
    BY <1>1 DEF Fanned, NoFan
  <2>2. (lang = "js" \/ tidy) /\ nodes # <<>> => Placed(nodes)
    BY <1>1, NodesOfUsable, ClusterAssumption DEF Current, TypeOK
  <2>3. (lang = "js" \/ tidy) /\ nodes # <<>> => Placed(fan.list)'
    BY <1>1, <2>2 DEF Placed
  <2>4. \A i \in 1 .. N : ~Applied(i)'
    BY <1>1, <1>2 DEF Applied
  <2>. QED  BY <1>1, <1>2, <2>1, <2>2, <2>3, <2>4 DEF Fanned, Placed
<1>6. ToSet(nodes) \subseteq Made /\ \A c \in ToSet(nodes) : at[c] \in ToSet(Endpoints)
  BY DEF Clients, Filed
<1>. QED  BY <1>1, <1>3, <1>4, <1>5, <1>6, OnlyWrites

\* The call returns if no node has failed, and throws otherwise.
LEMMA WriteToAllEndsInv ==
  ASSUME IInv, WriteToAllEnds
  PROVE  IInv'
<1>. USE DEF IInv
<1>1. /\ fan.stage = "running" /\ \A i \in 1 .. Len(fan.result) : fan.result[i] # "pending"
      /\ UNCHANGED <<chosen, conns, nodes, primary, calls, reading, stored, tidy>>
  BY DEF WriteToAllEnds, AllSettled
<1>2. /\ fan'.list = fan.list /\ fan'.result = fan.result /\ fan'.stage \in {"returned", "raised"}
      /\ fan'.stage = "returned" => \A i \in 1 .. Len(fan.result) : fan.result[i] # "failed"
      /\ fan' \in [stage : {"idle", "running", "returned", "raised"}, list : Seq(Dials),
                   result : Seq({"pending", "ok", "failed"})]
  BY DEF WriteToAllEnds, TypeOK
<1>. USE DEF chosen, conns, calls, reading
<1>3. TypeOK'
  BY <1>1, <1>2 DEF TypeOK
<1>4. \A i \in 1 .. Len(fan.result) : fan.result[i] \in {"pending", "ok", "failed"}
  BY Elements DEF TypeOK
<1>5. Fanned'
  BY <1>1, <1>2, <1>4 DEF Fanned, Applied, Placed
<1>. QED  BY <1>1, <1>2, <1>3, <1>5, OnlyWrites DEF Clients, Filed

\* The write to one node is answered or fails: it reaches the server of that
\* node's endpoint, or none.
LEMMA WriteSettlesInv ==
  ASSUME IInv, NEW i \in 1 .. Len(fan.list), WriteSettles(i)
  PROVE  IInv'
<1>. USE DEF IInv
<1>. DEFINE c        == fan.list[i]
            endpoint == CHOOSE e \in 1 .. N : Endpoints[e] = at[c]
            applied  == stored' = [stored EXCEPT ![endpoint] = @ + 1]
<1>1. /\ fan.stage = "running" /\ fan.result[i] = "pending"
      /\ \/ applied /\ fan' = [fan EXCEPT !.result[i] = "ok"]
         \/ fan' = [fan EXCEPT !.result[i] = "failed"] /\ (stored' = stored \/ applied)
      /\ UNCHANGED <<chosen, conns, nodes, primary, calls, reading, tidy>>
  BY DEF WriteSettles
<1>. USE DEF chosen, conns, calls, reading
<1>2. fan.list \in Seq(Dials) /\ fan.result \in Seq({"pending", "ok", "failed"}) /\ Len(fan.result) = Len(fan.list)
  BY DEF TypeOK, Fanned
<1>3. endpoint \in 1 .. N /\ Endpoints[endpoint] = at[c]
  <2>1. at[c] \in ToSet(Endpoints)
    BY <1>2, Elements DEF Filed
  <2>2. \E e \in 1 .. N : Endpoints[e] = at[c]
    BY <2>1, EndpointList DEF ToSet
  <2>. QED  BY <2>2
<1>. HIDE DEF endpoint
<1>4. \A e \in 1 .. N : Endpoints[e] = at[c] => e = endpoint
  BY <1>3, EndpointList
<1>5. PICK v \in {"ok", "failed"} : /\ fan' = [fan EXCEPT !.result[i] = v]
                                    /\ v = "ok" => applied
                                    /\ stored' = stored \/ applied
  BY <1>1
<1>6. /\ fan'.stage = "running" /\ fan'.list = fan.list /\ fan'.result = [fan.result EXCEPT ![i] = v]
      /\ fan' \in [stage : {"idle", "running", "returned", "raised"}, list : Seq(Dials),
                   result : Seq({"pending", "ok", "failed"})]
  <2>1. fan'.stage = fan.stage /\ fan'.list = fan.list /\ fan'.result = [fan.result EXCEPT ![i] = v]
    BY <1>5 DEF TypeOK
  <2>2. [fan.result EXCEPT ![i] = v] \in Seq({"pending", "ok", "failed"})
    BY <1>2, ExceptSeq
  <2>3. fan' = [stage |-> fan.stage, list |-> fan.list, result |-> [fan.result EXCEPT ![i] = v]]
    BY <1>5 DEF TypeOK
  <2>. QED  BY <1>1, <2>1, <2>2, <2>3 DEF TypeOK
<1>7. /\ Len(fan'.result) = Len(fan.list) /\ fan'.result[i] = v
      /\ \A j \in 1 .. Len(fan.list) : j # i => fan'.result[j] = fan.result[j]
  BY <1>2, <1>6, LenProperties, ExceptSeq
<1>8. /\ stored' \in [1 .. N -> Nat]
      /\ \A e \in 1 .. N : stored'[e] >= stored[e] /\ (e # endpoint => stored'[e] = stored[e])
      /\ v = "ok" => stored'[endpoint] = stored[endpoint] + 1
  <2>. stored \in [1 .. N -> Nat]
    BY DEF TypeOK
  <2>1. CASE stored' = stored /\ v # "ok"
    BY <2>1
  <2>2. CASE applied
    <3>1. stored'[endpoint] = stored[endpoint] + 1 /\ \A e \in 1 .. N : e # endpoint => stored'[e] = stored[e]
      BY <1>3, <2>2
    <3>2. stored' \in [1 .. N -> Nat]
      BY <1>3, <2>2
    <3>. QED  BY <1>3, <3>1, <3>2
  <2>. QED  BY <1>5, <2>1, <2>2
<1>9. TypeOK'
  BY <1>1, <1>6, <1>8 DEF TypeOK
<1>10. Fanned'
  <2>1. ASSUME NEW e \in 1 .. N, Applied(e)'
        PROVE  stored'[e] > 0
    <3>1. PICK j \in 1 .. Len(fan.list) : at[fan.list[j]] = Endpoints[e] /\ fan'.result[j] = "ok"
      BY <1>1, <1>6, <2>1 DEF Applied
    <3>2. CASE j = i
      <4>1. Endpoints[endpoint] = Endpoints[e] /\ v = "ok"
        BY <1>3, <1>4, <1>7, <3>1, <3>2
      <4>2. endpoint = e /\ stored[e] \in Nat
        BY <1>3, <4>1, EndpointList DEF TypeOK
      <4>. QED  BY <1>8, <4>1, <4>2
    <3>3. CASE j # i
      <4>1. Applied(e)
        BY <1>7, <3>1, <3>3 DEF Applied
      <4>2. stored[e] > 0 /\ stored[e] \in Nat /\ stored'[e] \in Nat /\ stored'[e] >= stored[e]
        BY <1>8, <4>1 DEF Fanned, TypeOK
      <4>. QED  BY <4>2
    <3>. QED  BY <3>2, <3>3
  <2>2. ASSUME lang = "js" \/ tidy
        PROVE  /\ Placed(fan.list)'
               /\ \A e \in 1 .. N : /\ fan'.result[e] = "ok" => stored'[e] = 1
                                    /\ fan'.result[e] = "pending" => stored'[e] = 0
    <3>1. fan.list # <<>>
      BY <1>2
    <3>2. Placed(fan.list) /\ \A e \in 1 .. N : /\ fan.result[e] = "ok" => stored[e] = 1
                                                /\ fan.result[e] = "pending" => stored[e] = 0
      BY <2>2, <3>1 DEF Fanned
    <3>3. i = endpoint /\ Len(fan.list) = N
      BY <1>4, <3>2 DEF Placed
    <3>4. stored[i] = 0
      BY <1>1, <3>2, <3>3
    <3>5. ASSUME NEW e \in 1 .. N
          PROVE  /\ fan'.result[e] = "ok" => stored'[e] = 1
                 /\ fan'.result[e] = "pending" => stored'[e] = 0
      <4>1. CASE e = i
        BY <1>5, <1>7, <1>8, <3>3, <3>4, <4>1
      <4>2. CASE e # i
        BY <1>7, <1>8, <3>2, <3>3, <4>2
      <4>. QED  BY <4>1, <4>2
    <3>6. Placed(fan.list)'
      BY <1>1, <1>6, <3>2 DEF Placed
    <3>. QED  BY <3>5, <3>6
  <2>. QED  BY <1>1, <1>6, <1>7, <2>1, <2>2 DEF Fanned
<1>. QED  BY <1>1, <1>6, <1>9, <1>10, OnlyWrites DEF Clients, Filed, InTurn

-----------------------------------------------------------------------------
(* Theorems.                                                               *)

\* Every call of the application, and every dial, read and write that ends, keeps the
\* invariant.
LEMMA NextInv == IInv /\ [Next]_vars => IInv'
<1>. SUFFICES ASSUME IInv, [Next]_vars PROVE IInv'
  OBVIOUS
<1>1. CASE UNCHANGED vars
  <2>. USE <1>1 DEF IInv, vars, chosen, conns, calls, reading, writing
  <2>1. TypeOK'
    BY DEF TypeOK
  <2>2. Clients' /\ InTurn' /\ Filed'
    BY DEF Clients, Made, InTurn, InFlight, Latest, Filed
  <2>3. Current' /\ Primary' /\ Connected' /\ Found' /\ Even' /\ Fanned'
    BY DEF Current, InFlight, Latest, Placed, Primary, WritesGoToPrimary, HasPrimary, Pointed,
           SameEndpoint, Connected, Found, Even, Picked, Usable, Fanned, Applied
  <2>4. Dropped'
    BY DEF Dropped, Refused
  <2>. QED  BY <2>1, <2>2, <2>3, <2>4
<1>2. CASE Next
  <2>1. CASE Close
    BY <2>1, CloseInv
  <2>2. ASSUME NEW k \in Connects, Connect(k) \/ Connecting(k) PROVE IInv'
    BY <2>2, ConnectInv, DialNextInv, ConnectRejectsInv, ChoosePrimaryInv, PrimaryConnectedInv DEF Connecting
  <2>3. ASSUME NEW c \in Dials, DialEnds(c) PROVE IInv'
    BY <2>3, DialEndsInv
  <2>4. ASSUME NEW r \in Readers, Load(r) \/ Index(r) \/ Advance(r) PROVE IInv'
    BY <2>4, LoadInv, IndexInv, AdvanceInv
  <2>5. CASE ReadRoundRobin
    BY <2>5, ReadRoundRobinInv
  <2>6. CASE WriteToAll \/ WriteToAllEnds
    BY <2>6, WriteToAllInv, WriteToAllEndsInv
  <2>7. ASSUME NEW i \in 1 .. Len(fan.list), WriteSettles(i) PROVE IInv'
    BY <2>7, WriteSettlesInv
  <2>. QED  BY <1>2, <2>1, <2>2, <2>3, <2>4, <2>5, <2>6, <2>7 DEF Next
<1>. QED  BY <1>1, <1>2

\* The inductive invariant holds in every state.
LEMMA Invariance == Spec => []IInv
BY InitInv, NextInv, PTL DEF Spec

\* The variables of a cluster have their types, and whoever reads in Python holds
\* the lock of read_round_robin().
THEOREM TypeCorrect == Spec => []TypeOK
BY Invariance, PTL DEF IInv

\* In JavaScript whatever calls overlap, in Python for an application that closes
\* what a failed connect() left before it connects again: the client that
\* connect() chose as the primary is connected to the primary.
THEOREM PrimaryIsThePrimary == Spec => []PrimaryIsWanted
<1>1. IInv => PrimaryIsWanted
  BY DEF IInv, Primary, PrimaryIsWanted
<1>. QED  BY <1>1, Invariance, PTL

\* No socket is out of reach of close() once connect() has ended, whichever of
\* its dials failed; the exception is the one client that each Python connect()
\* that raised may have dropped when AUTH failed on it.
THEOREM SocketsAreFound == Spec => []NothingLeaks
<1>1. IInv => NothingLeaks
  <2>. SUFFICES ASSUME IInv, lang = "py" \/ tidy
                PROVE  /\ \A c \in Dials : IsOpen(c) =>
                            \/ c \in ToSet(nodes) \cup {primary}
                            \/ lang = "py" /\ \E k \in Connects : call[k] = "raised" /\ c \in Refused(k)
                       /\ lang = "py" => \A k \in Connects : \A c, d \in Refused(k) : c = d
    BY DEF NothingLeaks
  <2>1. lang \in {"py", "js"} /\ Found /\ Dropped
    BY ClusterAssumption DEF IInv, TypeOK
  <2>2. ASSUME NEW c \in Dials, IsOpen(c), c \notin ToSet(nodes) \cup {primary}
        PROVE  lang = "py" /\ \E k \in Connects : call[k] = "raised" /\ c \in Refused(k)
    BY <2>1, <2>2 DEF Found, Dropped, IsOpen
  <2>. QED  BY <2>1, <2>2 DEF Dropped
<1>. QED  BY <1>1, Invariance, PTL

\* read_round_robin() and readRoundRobin() hand out every position as often as any
\* other, give or take one and the turns used up on a closed cluster, whatever
\* number of threads read at once.
THEOREM ReadsAreSpread == Spec => []RoundRobin
<1>1. IInv => RoundRobin
  <2>. SUFFICES ASSUME IInv, lang = "js" \/ tidy, NEW i \in 1 .. N, NEW j \in 1 .. N
                PROVE  picks[i] <= picks[j] + picks[0] + 1
    BY DEF RoundRobin
  <2>1. PICK q \in 0 .. Picked : \A l \in 1 .. N :
          /\ picks[l] <= q + IF l <= Picked % N THEN 1 ELSE 0
          /\ (q + IF l <= Picked % N THEN 1 ELSE 0) <= picks[l] + picks[0]
    BY DEF IInv, Even, Rounds
  <2>2. picks[i] \in Nat /\ picks[j] \in Nat /\ picks[0] \in Nat
    BY EndpointList DEF IInv, TypeOK
  <2>3. picks[i] <= q + 1 /\ q <= picks[j] + picks[0]
    BY <2>1, <2>2
  <2>. QED  BY <2>2, <2>3
<1>. QED  BY <1>1, Invariance, PTL

\* A writeToAll() that returned was applied once by the server of every endpoint;
\* one that threw has nothing under way, and what did not fail was applied.
THEOREM WritesReachAll == Spec => []WriteToAllIsHonest
<1>1. IInv => WriteToAllIsHonest
  <2>. SUFFICES ASSUME IInv PROVE WriteToAllIsHonest
    OBVIOUS
  <2>1. ASSUME fan.stage = "returned", fan.list # <<>>, lang = "js" \/ tidy, NEW i \in 1 .. N
        PROVE  stored[i] = 1
    BY <2>1 DEF IInv, Fanned, Placed
  <2>2. ASSUME fan.stage = "raised"
        PROVE  /\ \A i \in 1 .. Len(fan.list) : fan.result[i] # "pending"
               /\ \A i \in 1 .. N : Applied(i) => stored[i] > 0
    BY <2>2 DEF IInv, Fanned
  <2>. QED  BY <2>1, <2>2 DEF WriteToAllIsHonest
<1>. QED  BY <1>1, Invariance, PTL

\* fnv1a of cluster.js is FNV-1a as it is published, for the keys at hand.
HashAsPublished ==
  \A key \in Keys : /\ PublishedIndex[key] \in 0 .. N - 1
                    /\ N <= MaxDials => FnvIndex[key][N] = PublishedIndex[key]

\* The clients stand in the order of the endpoints, open once connect() has
\* returned, and a key or a hash is routed to the server its index names: for
\* every hash as it is, and for a key where fnv1a is the hash that is published.
THEOREM ShardsStayInPlace ==
  ASSUME HashAsPublished
  PROVE  Spec => []EveryShardInPlace
<1>1. IInv => EveryShardInPlace
  <2>. SUFFICES ASSUME IInv, nodes # <<>>, lang = "js" \/ (tidy /\ Usable)
                PROVE  /\ Placed(nodes)
                       /\ tidy /\ Usable =>
                            /\ \A i \in 1 .. N : link[nodes[i]] = "open"
                            /\ wanted # None => HasPrimary /\ link[primary] = "open"
                       /\ \A key \in Keys : at[ShardByKey(key)] = Endpoints[PublishedIndex[key] + 1]
                       /\ \A h \in Hashes : lang = "py" \/ h >= 0 =>
                            at[ShardBy(h)] = Endpoints[(h % N) + 1]
    BY DEF EveryShardInPlace, Placed
  <2>. USE DEF IInv
  <2>1. Placed(nodes)
    BY NodesOfUsable DEF Current
  <2>2. N \in Nat \ {0} /\ N <= MaxDials /\ MaxDials \in Nat
    BY <2>1, EndpointList, ClusterAssumption DEF Clients, Placed
  <2>3. ASSUME tidy, Usable
        PROVE  /\ \A i \in 1 .. N : link[nodes[i]] = "open"
               /\ wanted # None => HasPrimary /\ link[primary] = "open"
    <3>1. PICK k \in Connects : Latest(k) /\ call[k] = "returned" /\ nodes = mine[k]
      BY <2>3, NodesOfUsable
    <3>2. \A i \in 1 .. N : nodes[i] \in ToSet(nodes)
      BY <2>1, Elements DEF TypeOK, Placed
    <3>3. \A c \in ToSet(nodes) : link[c] = "open"
      BY <2>3, <3>1 DEF Connected
    <3>4. ASSUME wanted # None
          PROVE  HasPrimary /\ link[primary] = "open"
      <4>1. HasPrimary /\ link[primary] # "closed" /\ primary \in Made
        BY <2>3, <3>1, <3>4 DEF Primary, HasPrimary, Connected, Clients
      <4>2. CASE lang = "py"
        BY <4>1, <4>2 DEF Clients, Dropped, Made, HasPrimary
      <4>3. CASE lang = "js"
        BY <2>3, <3>1, <3>3, <4>1, <4>3 DEF Primary, HasPrimary, Connected
      <4>. QED  BY <4>1, <4>2, <4>3, ClusterAssumption DEF TypeOK
    <3>. QED  BY <3>2, <3>3, <3>4
  <2>4. ASSUME NEW key \in Keys
        PROVE  at[ShardByKey(key)] = Endpoints[PublishedIndex[key] + 1]
    <3>1. FnvIndex[key][N] = PublishedIndex[key] /\ PublishedIndex[key] + 1 \in 1 .. N
      BY <2>2, HashAsPublished DEF HashAsPublished
    <3>. QED  BY <2>1, <3>1 DEF ShardByKey, Placed
  <2>5. ASSUME NEW h \in Hashes, lang = "py" \/ h >= 0
        PROVE  at[ShardBy(h)] = Endpoints[(h % N) + 1]
    <3>1. h \in Int /\ h % N \in 0 .. N - 1
      BY <2>2, ClusterAssumption
    <3>2. ~(lang = "js" /\ h < 0)
      BY <2>5, <3>1
    <3>3. ShardBy(h) = nodes[(h % N) + 1]
      BY <2>1, <3>1, <3>2 DEF ShardBy, Placed
    <3>. QED  BY <2>1, <2>2, <3>1, <3>3 DEF Placed
  <2>. QED  BY <2>1, <2>3, <2>4, <2>5
<1>. QED  BY <1>1, Invariance, PTL
=============================================================================
