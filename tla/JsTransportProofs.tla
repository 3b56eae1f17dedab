-------------------------- MODULE JsTransportProofs --------------------------
(***************************************************************************)
(* Theorems about JsTransport for any number of requests, connections and  *)
(* events, all three transports and any failures, checked by TLAPS: its    *)
(* own invariants however an application reconnects, and what an           *)
(* application gets that closes and waits for its sockets to close before  *)
(* it reconnects.  Nothing in the code keeps such an application from      *)
(* making a connection over half a line or over waiters: it hears every    *)
(* event, in order, and has from JsTransport what Rpc promises, until it   *)
(* does (over), and where the half line and the waiters can come from is   *)
(* the last theorem on events (LeftoversHaveNames).                        *)
(*                                                                         *)
(* IInv is the inductive invariant of the first.  WaitersAreDue alone is   *)
(* not inductive: that the waiters stay in order when a request goes out   *)
(* needs that requests are made in order (Numbered), and that a response   *)
(* in process takes no waiter needs that there is none (InProcess).        *)
(*                                                                         *)
(* Delivery is the inductive invariant of the events: at most one          *)
(* connection is alive (OneLive), and the lines of it that were delivered, *)
(* buffered and under way are the lines its server sent (Framed, HeardAt). *)
(* Leftovers adds that what is under way on a connection that is gone ends *)
(* with a whole line unless one was torn (WholeUnlessTorn), and that who   *)
(* waits while nothing is connected is an orphan (OnlyOrphansWait).        *)
(* Correct adds the answers: those under way and the commands not yet      *)
(* answered match the waiters, oldest first (Matched), and what has been   *)
(* collected for a promise is the beginning of its own answers (Filed).    *)
(* The client counts lines and knows no requests, so that each promise     *)
(* resolves with its own answers is a fact about all of these together.    *)
(***************************************************************************)
EXTENDS JsTransport, FiniteSetTheorems, SequenceLemmas

\* Requests are made in order, and one that is not made has collected nothing.
Numbered ==
  \A r \in Requests :
    /\ promise[r] = "idle" => out[r] = <<>>
    /\ promise[r] # "idle" => \A q \in Requests : q < r => promise[q] # "idle"

\* WasmTransport has neither sockets nor waiters.
InProcess ==
  transport = "wasm" => /\ socket = 0 /\ waiters = <<>>
                        /\ \A c \in Conns : link[c] = "none"

IInv ==
  /\ TypeOK
  /\ Numbered
  /\ InProcess
  /\ WaitersAreDue

-----------------------------------------------------------------------------
(* How often an element stands in a sequence.                              *)

Places(s, x) == {i \in 1 .. Len(s) : s[i] = x}
Count(s, x)  == Cardinality(Places(s, x))

\* The places are a finite set, and there is none where the element is not.
LEMMA CountType ==
  ASSUME NEW S, NEW s \in Seq(S), NEW x
  PROVE  /\ IsFiniteSet(Places(s, x)) /\ Count(s, x) \in Nat
         /\ Count(s, x) = 0 <=> \A i \in 1 .. Len(s) : s[i] # x
<1>1. Len(s) \in Nat
  BY LenProperties
<1>2. IsFiniteSet(1 .. Len(s)) /\ Places(s, x) \subseteq 1 .. Len(s)
  BY <1>1, FS_Interval DEF Places
<1>3. IsFiniteSet(Places(s, x))
  BY <1>2, FS_Subset
<1>4. Count(s, x) \in Nat /\ (Count(s, x) = 0 <=> Places(s, x) = {})
  BY <1>3, FS_CardinalityType, FS_EmptySet DEF Count
<1>. QED  BY <1>3, <1>4 DEF Places

\* Taking the head off takes one place from it, and none from the others.
LEMMA CountTail ==
  ASSUME NEW S, NEW s \in Seq(S), s # <<>>, NEW x
  PROVE  Count(Tail(s), x) = IF Head(s) = x THEN Count(s, x) - 1 ELSE Count(s, x)
<1>. DEFINE t == Tail(s)
            P == Places(t, x)
            Q == {i \in Places(s, x) : i # 1}
            f == [i \in P |-> i + 1]
<1>1. /\ t \in Seq(S) /\ Len(s) \in Nat \ {0} /\ Len(t) = Len(s) - 1 /\ Head(s) = s[1]
      /\ \A i \in 1 .. Len(t) : t[i] = s[i + 1]
  BY HeadTailProperties, LenProperties
<1>. HIDE DEF t
<1>2. IsFiniteSet(P) /\ IsFiniteSet(Places(s, x))
  BY <1>1, CountType
<1>3. \A i \in Q : i - 1 \in P /\ f[i - 1] = i
  BY <1>1 DEF Places
<1>4. \A i \in P : i \in Nat /\ f[i] \in Q
  BY <1>1 DEF Places
<1>5. f \in Bijection(P, Q)
  <2>1. f \in [P -> Q]
    BY <1>4
  <2>2. \A i, j \in P : f[i] = f[j] => i = j
    BY <1>4
  <2>3. \A j \in Q : \E i \in P : f[i] = j
    BY <1>3
  <2>. HIDE DEF P, Q, f
  <2>. QED  BY <2>1, <2>2, <2>3 DEF Bijection, Injection, Surjection, IsInjective
<1>6. Cardinality(P) = Cardinality(Q)
  <2>. HIDE DEF P, Q, f
  <2>. QED  BY <1>2, <1>5, FS_Bijection DEF ExistsBijection
<1>7. CASE s[1] = x
  <2>1. 1 \in Places(s, x) /\ Q = Places(s, x) \ {1}
    BY <1>1, <1>7 DEF Places
  <2>2. Cardinality(Q) = Cardinality(Places(s, x)) - 1
    BY <1>2, <2>1, FS_RemoveElement
  <2>. QED  BY <1>1, <1>6, <1>7, <2>2 DEF Count, t
<1>8. CASE s[1] # x
  <2>1. Q = Places(s, x)
    BY <1>8 DEF Places
  <2>. QED  BY <1>1, <1>6, <1>8, <2>1 DEF Count, t
<1>. QED  BY <1>7, <1>8

\* Appending n copies of y adds n places to it, and none to the others.
LEMMA CountCopies ==
  ASSUME NEW S, NEW s \in Seq(S), NEW y \in S, NEW n \in Nat, NEW x
  PROVE  Count(s \o [i \in 1 .. n |-> y], x) = IF y = x THEN Count(s, x) + n ELSE Count(s, x)
<1>. DEFINE c == [i \in 1 .. n |-> y]
            t == s \o c
            m == Len(s)
<1>1. c \in Seq(S) /\ Len(c) = n /\ m \in Nat /\ \A i \in 1 .. n : c[i] = y
  BY IsASeq, LenProperties
<1>2. /\ t \in Seq(S) /\ Len(t) = m + n
      /\ \A i \in 1 .. m + n : t[i] = IF i <= m THEN s[i] ELSE c[i - m]
  BY <1>1, ConcatProperties
<1>. HIDE DEF c, t
<1>3. \A i \in 1 .. m + n : t[i] = IF i <= m THEN s[i] ELSE y
  <2>1. \A i \in 1 .. m + n : i <= m \/ i - m \in 1 .. n
    BY <1>1
  <2>. QED  BY <1>1, <1>2, <2>1
<1>4. IsFiniteSet(Places(s, x)) /\ Cardinality(Places(s, x)) \in Nat
  BY CountType DEF Count
<1>5. CASE y = x
  <2>. DEFINE new == m + 1 .. m + n
  <2>1. Places(t, x) = Places(s, x) \cup new /\ Places(s, x) \cap new = {}
    BY <1>1, <1>2, <1>3, <1>5 DEF Places
  <2>2. IsFiniteSet(new) /\ Cardinality(new) = n
    <3>1. m + 1 \in Int /\ m + n \in Int
      BY <1>1
    <3>2. Cardinality(new) = IF m + 1 > m + n THEN 0 ELSE (m + n) - (m + 1) + 1
      BY <3>1, FS_Interval
    <3>. QED  BY <1>1, <3>1, <3>2, FS_Interval
  <2>3. Cardinality(Places(t, x)) = Cardinality(Places(s, x)) + n - Cardinality({})
    BY <1>4, <2>1, <2>2, FS_Union
  <2>. QED  BY <1>4, <1>5, <2>3, FS_EmptySet DEF Count, t, c
<1>6. CASE y # x
  <2>1. Places(t, x) = Places(s, x)
    BY <1>1, <1>2, <1>3, <1>6 DEF Places
  <2>. QED  BY <1>6, <2>1 DEF Count, t, c
<1>. QED  BY <1>5, <1>6

-----------------------------------------------------------------------------
(* The waiters.                                                            *)

\* The answers request r still lacks.
Lacks(r) == IF promise[r] = "pending" THEN size[r] - Len(out[r]) ELSE 0
Sorted   == \A i, j \in 1 .. Len(waiters) : i <= j => waiters[i] <= waiters[j]

\* WaitersAreDue, its order and its counts apart.
LEMMA DueParts ==
  WaitersAreDue <=> Sorted /\ \A r \in Requests : Count(waiters, r) = Lacks(r)
BY DEF WaitersAreDue, Sorted, Lacks, Count, Places

\* A request that has a waiter is pending and lacks answers.
LEMMA WaiterIsPending ==
  ASSUME TypeOK, WaitersAreDue, NEW i \in 1 .. Len(waiters)
  PROVE  waiters[i] \in Requests /\ promise[waiters[i]] = "pending" /\ Lacks(waiters[i]) # 0
<1>1. waiters \in Seq(Requests) /\ waiters[i] \in Requests
  BY DEF TypeOK
<1>2. Count(waiters, waiters[i]) # 0
  BY <1>1, CountType
<1>. QED  BY <1>1, <1>2, DueParts DEF Lacks

\* Request r goes out with n commands: its waiters are the last.
LEMMA WriteDue ==
  ASSUME IInv, NEW r \in Requests, NEW n \in Nat, NEW c \in Conns, Write(r, n, c)
  PROVE  /\ waiters' \in Seq(Requests) /\ promise' = [promise EXCEPT ![r] = "pending"]
         /\ size' = [size EXCEPT ![r] = n] /\ out' = out /\ orphans' \subseteq Requests
         /\ toServer' \in [Conns -> Seq((0 .. MaxRequests) \X Nat)]
         /\ Numbered' /\ WaitersAreDue'
<1>. USE DEF IInv
<1>1. /\ promise[r] = "idle" /\ \A q \in 1 .. r - 1 : promise[q] # "idle"
      /\ size' = [size EXCEPT ![r] = n] /\ promise' = [promise EXCEPT ![r] = "pending"]
      /\ waiters' = waiters \o Waiters(r, n) /\ out' = out
      /\ orphans' = IF n = 0 \/ link[c] = "closed" THEN orphans \cup {r} ELSE orphans
      /\ toServer' = IF link[c] \in {"dialing", "open"}
                     THEN [toServer EXCEPT ![c] = @ \o Written(r, n)] ELSE toServer
  BY DEF Write, IsNext
<1>2. /\ Waiters(r, n) \in Seq(Requests) /\ Len(Waiters(r, n)) = n
      /\ \A i \in 1 .. n : Waiters(r, n)[i] = r
  BY IsASeq DEF Waiters
<1>3. waiters \in Seq(Requests) /\ waiters' \in Seq(Requests) /\ orphans' \subseteq Requests
  BY <1>1, <1>2, ConcatProperties DEF TypeOK
<1>4. toServer' \in [Conns -> Seq((0 .. MaxRequests) \X Nat)]
  <2>1. Written(r, n) \in Seq((0 .. MaxRequests) \X Nat)
    <3>1. MaxRequests \in Nat /\ r \in 0 .. MaxRequests
      BY TransportAssumption DEF Requests
    <3>2. [i \in 1 .. n |-> <<r, i>>] \in Seq((0 .. MaxRequests) \X Nat)
      BY <3>1, IsASeq
    <3>3. << <<0, 0>> >> \in Seq((0 .. MaxRequests) \X Nat)
      BY <3>1
    <3>. QED  BY <3>2, <3>3 DEF Written
  <2>. QED  BY <1>1, <2>1, ConcatProperties DEF TypeOK
<1>5. Numbered'
  <2>1. promise \in [Requests -> {"idle", "pending", "resolved", "rejected"}]
    BY DEF TypeOK
  <2>2. \A q \in Requests : promise'[q] = IF q = r THEN "pending" ELSE promise[q]
    BY <1>1, <2>1
  <2>3. \A q \in Requests : q < r => promise[q] # "idle"
    BY <1>1, TransportAssumption DEF Requests
  <2>4. \A q \in Requests : promise'[q] = "idle" => out'[q] = <<>>
    BY <1>1, <2>2 DEF Numbered
  <2>5. \A p, q \in Requests : promise'[p] # "idle" /\ q < p => promise'[q] # "idle"
    BY <2>2, <2>3 DEF Numbered
  <2>. QED  BY <2>4, <2>5 DEF Numbered
<1>6. \A q \in Requests : Count(waiters', q) = IF q = r THEN Count(waiters, q) + n ELSE Count(waiters, q)
  BY <1>1, <1>3, CountCopies, SMTT(30) DEF Waiters
<1>7. Count(waiters, r) = 0 /\ out[r] = <<>>
  BY <1>1, DueParts DEF Lacks, Numbered
<1>8. \A q \in Requests : Count(waiters', q) = Lacks(q)'
  <2>1. Count(waiters', r) = n
    BY <1>6, <1>7
  <2>2. Lacks(r)' = n
    BY <1>1, <1>7 DEF Lacks, TypeOK
  <2>3. \A q \in Requests : q # r => Lacks(q)' = Lacks(q)
    BY <1>1 DEF Lacks, TypeOK
  <2>. QED  BY <1>6, <2>1, <2>2, <2>3, DueParts
<1>9. Sorted'
  <2>1. \A i \in 1 .. Len(waiters) : waiters[i] <= r
    <3>1. \A q \in Requests : promise[q] = "pending" => q <= r
      BY <1>1, TransportAssumption DEF Numbered, Requests
    <3>. QED  BY <3>1, WaiterIsPending
  <2>2. /\ Len(waiters) \in Nat /\ Len(waiters') = Len(waiters) + n
        /\ \A i \in 1 .. Len(waiters) : waiters'[i] = waiters[i] /\ waiters[i] \in Requests
        /\ \A i \in 1 .. Len(waiters') : ~(i <= Len(waiters)) => waiters'[i] = r
    <3>1. Len(waiters) \in Nat /\ Len(waiters') = Len(waiters) + n
      <4>1. Len(waiters \o Waiters(r, n)) = Len(waiters) + Len(Waiters(r, n))
        BY ONLY <1>2, <1>3, ConcatProperties
      <4>. QED  BY <1>1, <1>2, <1>3, <4>1, LenProperties
    <3>2. \A i \in 1 .. Len(waiters) : waiters'[i] = waiters[i] /\ waiters[i] \in Requests
      BY <1>1, <1>2, <1>3, ConcatProperties, LenProperties
    <3>3. ASSUME NEW i \in 1 .. Len(waiters'), ~(i <= Len(waiters)) PROVE waiters'[i] = r
      <4>1. i - Len(waiters) \in 1 .. n
        BY <3>1, <3>3
      <4>2. waiters'[i] = Waiters(r, n)[i - Len(waiters)]
        BY <1>1, <1>2, <1>3, <3>1, <3>3, ConcatProperties
      <4>. QED  BY <1>2, <4>1, <4>2
    <3>. QED  BY <3>1, <3>2, <3>3
  <2>3. r \in Nat /\ \A i, j \in 1 .. Len(waiters) : i <= j => waiters[i] <= waiters[j]
    BY DueParts, TransportAssumption DEF Sorted, Requests
  <2>4. ASSUME NEW i \in 1 .. Len(waiters'), NEW j \in 1 .. Len(waiters'), i <= j
        PROVE  waiters'[i] <= waiters'[j]
    <3>1. CASE j <= Len(waiters)
      BY <2>2, <2>3, <2>4, <3>1
    <3>2. CASE ~(j <= Len(waiters))
      BY <2>1, <2>2, <2>3, <2>4, <3>2
    <3>. QED  BY <3>1, <3>2
  <2>. QED  BY <2>4 DEF Sorted
<1>10. WaitersAreDue'
  <2>1. (Sorted /\ \A q \in Requests : Count(waiters, q) = Lacks(q))' => WaitersAreDue'
    BY DEF WaitersAreDue, Sorted, Lacks, Count, Places
  <2>. QED  BY <1>8, <1>9, <2>1
<1>. QED  BY <1>1, <1>3, <1>4, <1>5, <1>10

\* Every waiter is rejected.
LEMMA FailAllDue ==
  ASSUME IInv, FailAll, UNCHANGED <<size, out>>
  PROVE  /\ waiters' = <<>> /\ waiters' \in Seq(Requests)
         /\ promise' \in [Requests -> {"idle", "pending", "resolved", "rejected"}]
         /\ Numbered' /\ WaitersAreDue'
<1>. USE DEF IInv
<1>1. /\ waiters' = <<>> /\ waiters' \in Seq(Requests) /\ UNCHANGED <<size, out>>
      /\ promise' = [r \in Requests |-> IF r \in Waiting THEN "rejected" ELSE promise[r]]
  BY EmptySeq DEF FailAll
<1>2. waiters \in Seq(Requests)
  BY DEF TypeOK
<1>3. \A r \in Requests : r \in Waiting <=> Count(waiters, r) # 0
  BY <1>2, CountType DEF Waiting
<1>4. \A r \in Waiting : promise[r] = "pending"
  BY WaiterIsPending DEF Waiting
<1>5. \A r \in Requests : Lacks(r)' = 0
  BY <1>1, <1>3, DueParts DEF Lacks
<1>6. \A r \in Requests : Count(waiters', r) = 0
  <2>1. \A r \in Requests : Count(<<>>, r) = 0
    <3>1. <<>> \in Seq(Requests) /\ Len(<<>>) = 0
      OBVIOUS
    <3>2. \A i \in 1 .. Len(<<>>) : FALSE
      BY <3>1
    <3>. QED  BY <3>1, <3>2, CountType
  <2>. QED  BY <1>1, <2>1
<1>7. WaitersAreDue'
  <2>1. Sorted'
    BY <1>1 DEF Sorted
  <2>2. (Sorted /\ \A q \in Requests : Count(waiters, q) = Lacks(q))' => WaitersAreDue'
    BY DEF WaitersAreDue, Sorted, Lacks, Count, Places
  <2>. QED  BY <1>5, <1>6, <2>1, <2>2
<1>8. Numbered'
  BY <1>1, <1>4 DEF Numbered
<1>. QED  BY <1>1, <1>7, <1>8 DEF TypeOK

\* The oldest waiter takes a line; its request resolves if it was the last.
LEMMA SettleDue ==
  ASSUME IInv, waiters # <<>>, NEW line \in Seq(Pieces), Settle(line), size' = size
  PROVE  /\ waiters' \in Seq(Requests) /\ out' \in [Requests -> Seq(Seq(Pieces))]
         /\ promise' \in [Requests -> {"idle", "pending", "resolved", "rejected"}]
         /\ Numbered' /\ WaitersAreDue'
<1>. USE DEF IInv
<1>1. /\ waiters \in Seq(Requests) /\ Len(waiters) \in Nat \ {0} /\ Head(waiters) = waiters[1]
      /\ Tail(waiters) \in Seq(Requests) /\ Len(Tail(waiters)) = Len(waiters) - 1
      /\ \A i \in 1 .. Len(Tail(waiters)) : Tail(waiters)[i] = waiters[i + 1]
      /\ size' = size
  BY HeadTailProperties, LenProperties DEF TypeOK
<1>2. PICK r \in Requests : r = Head(waiters) /\ promise[r] = "pending" /\ Lacks(r) # 0
  BY <1>1, WaiterIsPending
<1>3. /\ waiters' = Tail(waiters) /\ out' = [out EXCEPT ![r] = Append(@, line)]
      /\ promise' = IF Len(out[r]) + 1 = size[r] THEN [promise EXCEPT ![r] = "resolved"] ELSE promise
  BY <1>2 DEF Settle, ShiftWaiter
<1>4. /\ out' \in [Requests -> Seq(Seq(Pieces))] /\ Len(out[r]) \in Nat /\ Len(out'[r]) = Len(out[r]) + 1
      /\ \A q \in Requests \ {r} : out'[q] = out[q]
  BY <1>2, <1>3, AppendProperties, LenProperties, SMTT(30) DEF TypeOK
<1>5. /\ promise' \in [Requests -> {"idle", "pending", "resolved", "rejected"}]
      /\ \A q \in Requests \ {r} : promise'[q] = promise[q]
      /\ promise'[r] = IF Len(out[r]) + 1 = size[r] THEN "resolved" ELSE "pending"
  BY <1>2, <1>3 DEF TypeOK
<1>6. \A q \in Requests : Lacks(q)' = IF q = r THEN Lacks(q) - 1 ELSE Lacks(q)
  <2>1. size[r] \in Nat
    BY <1>2 DEF TypeOK
  <2>2. Lacks(r)' = Lacks(r) - 1
    <3>1. Lacks(r) = size[r] - Len(out[r])
      BY <1>2 DEF Lacks
    <3>2. Lacks(r)' = IF Len(out[r]) + 1 = size[r] THEN 0 ELSE size[r] - (Len(out[r]) + 1)
      BY <1>1, <1>4, <1>5 DEF Lacks
    <3>. QED  BY <1>4, <2>1, <3>1, <3>2
  <2>3. \A q \in Requests : q # r => Lacks(q)' = Lacks(q)
    BY <1>1, <1>4, <1>5 DEF Lacks
  <2>. QED  BY <1>2, <2>2, <2>3
<1>7. \A q \in Requests : Count(waiters', q) = Lacks(q)'
  <2>1. \A q \in Requests : Count(waiters', q) = IF q = r THEN Count(waiters, q) - 1 ELSE Count(waiters, q)
    BY <1>1, <1>2, <1>3, CountTail
  <2>. QED  BY <1>6, <2>1, DueParts
<1>8. Sorted'
  <2>1. \A i, j \in 1 .. Len(waiters) : i <= j => waiters[i] <= waiters[j]
    BY DueParts DEF Sorted
  <2>2. \A i \in 1 .. Len(waiters') : i + 1 \in 1 .. Len(waiters) /\ waiters'[i] = waiters[i + 1]
    BY <1>1, <1>3
  <2>. QED  BY <1>1, <1>3, <2>1, <2>2 DEF Sorted
<1>9. WaitersAreDue'
  <2>1. (Sorted /\ \A q \in Requests : Count(waiters, q) = Lacks(q))' => WaitersAreDue'
    BY DEF WaitersAreDue, Sorted, Lacks, Count, Places
  <2>. QED  BY <1>7, <1>8, <2>1
<1>10. Numbered'
  BY <1>2, <1>4, <1>5 DEF Numbered
<1>. QED  BY <1>1, <1>3, <1>4, <1>5, <1>9, <1>10

-----------------------------------------------------------------------------
(* The memory of WasmTransport: what a recursive function computes.        *)

\* Buffers is defined by recursion: each response is written over the one before.
LEMMA BuffersDef ==
  ASSUME NEW old \in Seq(Pieces), NEW texts \in Seq(Seq(Pieces))
  PROVE  LET at == Buffers(old, texts)
         IN /\ at \in [0 .. Len(texts) -> Seq(Pieces)]
            /\ at[0] = old
            /\ \A i \in 1 .. Len(texts) : at[i] = Overwritten(at[i - 1], texts[i])
<1>. DEFINE n == Len(texts)
            Good(g, m) == /\ g \in [0 .. m -> Seq(Pieces)] /\ g[0] = old
                          /\ \A i \in 1 .. m : g[i] = Overwritten(g[i - 1], texts[i])
            T == {m \in Nat : m <= n => \E g : Good(g, m)}
<1>1. n \in Nat
  BY LenProperties
<1>2. \A x \in Seq(Pieces), i \in 1 .. n : Overwritten(x, texts[i]) \in Seq(Pieces)
  <2>. SUFFICES ASSUME NEW x \in Seq(Pieces), NEW i \in 1 .. n PROVE Overwritten(x, texts[i]) \in Seq(Pieces)
    OBVIOUS
  <2>1. texts[i] \in Seq(Pieces) /\ Len(texts[i]) \in Nat /\ Len(x) \in Nat
    BY LenProperties
  <2>2. SubSeq(x, Len(texts[i]) + 1, Len(x)) \in Seq(Pieces)
    BY <2>1, SubSeqProperties
  <2>. QED  BY <2>1, <2>2, ConcatProperties DEF Overwritten
<1>3. 0 \in T
  <2>1. Good([i \in 0 .. 0 |-> old], 0)
    OBVIOUS
  <2>. QED  BY <2>1
<1>4. ASSUME NEW m \in Nat, m \in T PROVE m + 1 \in T
  <2>. SUFFICES ASSUME m + 1 <= n PROVE \E g : Good(g, m + 1)
    <3>. HIDE DEF Good
    <3>. QED  BY <1>4
  <2>1. PICK g : Good(g, m)
    <3>1. m <= n
      BY <1>1
    <3>. HIDE DEF Good
    <3>. QED  BY <1>4, <3>1
  <2>. DEFINE h == [i \in 0 .. m + 1 |-> IF i = m + 1 THEN Overwritten(g[m], texts[m + 1]) ELSE g[i]]
  <2>2. Overwritten(g[m], texts[m + 1]) \in Seq(Pieces)
    <3>1. g[m] \in Seq(Pieces) /\ m + 1 \in 1 .. n
      BY <1>1, <2>1
    <3>. QED  BY <1>2, <3>1
  <2>3. h \in [0 .. m + 1 -> Seq(Pieces)] /\ h[0] = old
    <3>1. \A i \in 0 .. m + 1 : i # m + 1 => i \in 0 .. m
      OBVIOUS
    <3>2. \A i \in 0 .. m + 1 : h[i] \in Seq(Pieces)
      BY <2>1, <2>2, <3>1
    <3>. QED  BY <2>1, <3>2
  <2>4. \A i \in 1 .. m + 1 : h[i] = Overwritten(h[i - 1], texts[i])
    <3>1. h[m + 1] = Overwritten(h[(m + 1) - 1], texts[m + 1])
      OBVIOUS
    <3>2. ASSUME NEW i \in 1 .. m PROVE h[i] = Overwritten(h[i - 1], texts[i])
      <4>1. i \in 0 .. m + 1 /\ i # m + 1 /\ i - 1 \in 0 .. m + 1 /\ i - 1 # m + 1
        OBVIOUS
      <4>2. h[i] = g[i] /\ h[i - 1] = g[i - 1]
        BY <4>1
      <4>. QED  BY <2>1, <4>2
    <3>3. \A i \in 1 .. m + 1 : i = m + 1 \/ i \in 1 .. m
      OBVIOUS
    <3>. HIDE DEF h
    <3>. QED  BY <3>1, <3>2, <3>3
  <2>. HIDE DEF h
  <2>. QED  BY <2>3, <2>4
<1>5. \E g : Good(g, n)
  <2>. HIDE DEF T
  <2>1. Nat \subseteq T
    BY <1>3, <1>4, SetInduction
  <2>2. n \in T
    BY <1>1, <2>1
  <2>. HIDE DEF Good
  <2>. QED  BY <1>1, <2>2 DEF T
<1>. HIDE DEF T
<1>6. PICK g : Good(g, n)
  BY <1>5
<1>7. g = [i \in 0 .. n |-> IF i = 0 THEN old ELSE Overwritten(g[i - 1], texts[i])]
  BY <1>1, <1>6
<1>. DEFINE at == Buffers(old, texts)
<1>8. at = [i \in 0 .. n |-> IF i = 0 THEN old ELSE Overwritten(at[i - 1], texts[i])]
  BY <1>7 DEF Buffers
<1>. HIDE DEF at, n
<1>9. at[0] = old /\ DOMAIN at = 0 .. n /\ \A i \in 1 .. n : at[i] = Overwritten(at[i - 1], texts[i])
  BY <1>1, <1>8
<1>10. \A i \in 0 .. n : at[i] \in Seq(Pieces)
  <2>. DEFINE U == {m \in Nat : m <= n => at[m] \in Seq(Pieces)}
  <2>1. 0 \in U
    BY <1>9
  <2>2. ASSUME NEW m \in Nat, m \in U PROVE m + 1 \in U
    <3>1. (m + 1) - 1 = m
      OBVIOUS
    <3>. QED  BY <1>1, <1>2, <1>9, <2>2, <3>1
  <2>. HIDE DEF U
  <2>3. Nat \subseteq U
    BY <2>1, <2>2, SetInduction
  <2>. QED  BY <1>1, <2>3 DEF U
<1>. QED  BY <1>8, <1>9, <1>10 DEF at, n

\* No place in the empty sequence.
LEMMA CountEmpty == \A x : Count(<<>>, x) = 0
<1>1. <<>> \in Seq({}) /\ Len(<<>>) = 0
  OBVIOUS
<1>2. \A i \in 1 .. Len(<<>>) : FALSE
  BY <1>1
<1>. QED  BY <1>1, <1>2, CountType

\* Request r runs its commands in process: its answers are there at once.
LEMMA ExecInv ==
  ASSUME IInv, NEW r \in Requests, NEW n \in Nat, NEW about, \A i \in 1 .. n : about[i] \in Lines,
         Exec(r, n, about), file' \in {0} \cup Requests
  PROVE  IInv'
<1>. USE DEF IInv
<1>1. PICK texts \in {f \in [1 .. n -> UNION {Returns(about[i]) : i \in 1 .. n}] :
                        \A i \in 1 .. n : f[i] \in Returns(about[i])} :
        LET at == Buffers(heap, texts)
        IN \/ /\ heap' = at[n]
              /\ out' = [out EXCEPT ![r] = [i \in 1 .. n |-> Response(at[i - 1], texts[i])]]
              /\ promise' = [promise EXCEPT ![r] = "pending"]
           \/ /\ \E k \in 0 .. n - 1 : heap' = at[k]
              /\ promise' = [promise EXCEPT ![r] = "rejected"]
              /\ out' = out
  BY DEF Exec
<1>2. /\ transport = "wasm" /\ promise[r] = "idle" /\ \A q \in 1 .. r - 1 : promise[q] # "idle"
      /\ size' = [size EXCEPT ![r] = n]
      /\ UNCHANGED <<chosen, socket, buf, waiters, heard, connect, orphans, network, past>>
  BY DEF Exec, IsNext
<1>3. texts \in Seq(Seq(Pieces)) /\ Len(texts) = n
  <2>1. \A i \in 1 .. n : texts[i] \in Seq(Pieces)
    <3>1. \A line \in Lines : Returns(line) \subseteq Seq(Pieces)
      BY DEF Returns, Texts, Pieces
    <3>. QED  BY <3>1, <1>1
  <2>2. texts \in [1 .. n -> Seq(Pieces)]
    BY <2>1, <1>1
  <2>3. texts \in Seq(Seq(Pieces))
    <3>1. \A S, f : f \in [1 .. n -> S] => f \in Seq(S)
      BY SeqDef
    <3>. QED  BY <2>2, <3>1
  <2>. QED  BY <2>2, <2>3, LenProperties
<1>. DEFINE at == Buffers(heap, texts)
<1>4. at \in [0 .. n -> Seq(Pieces)]
  BY <1>3, BuffersDef DEF TypeOK
<1>. HIDE DEF at
<1>5. \A i \in 1 .. n : Response(at[i - 1], texts[i]) \in Seq(Pieces)
  <2>. SUFFICES ASSUME NEW i \in 1 .. n PROVE Response(at[i - 1], texts[i]) \in Seq(Pieces)
    OBVIOUS
  <2>1. i - 1 \in 0 .. n /\ at[i - 1] \in Seq(Pieces) /\ texts[i] \in Seq(Pieces)
    BY <1>3, <1>4
  <2>2. SubSeq(at[i - 1], Len(texts[i]) + 1, Len(at[i - 1])) \in Seq(Pieces)
    BY <2>1, LenProperties, SubSeqProperties, SMTT(30)
  <2>3. Overwritten(at[i - 1], texts[i]) \in Seq(Pieces)
    BY <2>1, <2>2, ConcatProperties DEF Overwritten
  <2>4. Len(Overwritten(at[i - 1], texts[i])) >= Len(texts[i])
    BY <2>1, <2>2, ConcatProperties, LenProperties, SMTT(30) DEF Overwritten
  <2>. QED  BY <2>1, <2>3, <2>4, LenProperties, SubSeqProperties DEF Response
<1>6. /\ heap' \in Seq(Pieces)
      /\ out' \in [Requests -> Seq(Seq(Pieces))] /\ \A q \in Requests : q # r => out'[q] = out[q]
      /\ promise' \in [Requests -> {"idle", "pending", "resolved", "rejected"}]
      /\ \A q \in Requests : q # r => promise'[q] = promise[q]
      /\ promise'[r] \in {"pending", "rejected"}
      /\ promise'[r] = "pending" => Len(out'[r]) = n
  <2>. DEFINE new == [i \in 1 .. n |-> Response(at[i - 1], texts[i])]
  <2>1. new \in Seq(Seq(Pieces)) /\ Len(new) = n
    BY <1>5, IsASeq
  <2>. HIDE DEF new
  <2>2. CASE /\ heap' = at[n] /\ out' = [out EXCEPT ![r] = new]
             /\ promise' = [promise EXCEPT ![r] = "pending"]
    BY <1>4, <2>1, <2>2 DEF TypeOK
  <2>3. CASE /\ \E k \in 0 .. n - 1 : heap' = at[k]
             /\ promise' = [promise EXCEPT ![r] = "rejected"]
             /\ out' = out
    <3>1. \A k \in 0 .. n - 1 : at[k] \in Seq(Pieces)
      BY <1>4
    <3>. QED  BY <2>3, <3>1 DEF TypeOK
  <2>. QED  BY <1>1, <2>2, <2>3 DEF new, at
<1>7. TypeOK'
  BY <1>2, <1>6 DEF TypeOK, past, chosen, connect, network
<1>8. Numbered'
  <2>1. \A q \in Requests : q < r => promise[q] # "idle"
    BY <1>2, TransportAssumption DEF Requests
  <2>. QED  BY <1>6, <2>1 DEF Numbered
<1>9. InProcess'
  BY <1>2 DEF InProcess, chosen, network
<1>10. WaitersAreDue'
  <2>1. waiters = <<>> /\ waiters' = <<>>
    BY <1>2 DEF InProcess
  <2>2. \A q \in Requests : Lacks(q) = 0
    BY <2>1, CountEmpty, DueParts
  <2>3. \A q \in Requests : Lacks(q)' = 0
    BY <1>2, <1>6, <2>2 DEF Lacks, TypeOK
  <2>4. (Sorted /\ \A q \in Requests : Count(waiters, q) = Lacks(q))' => WaitersAreDue'
    BY DEF WaitersAreDue, Sorted, Lacks, Count, Places
  <2>. QED  BY <2>1, <2>3, <2>4, CountEmpty DEF Sorted
<1>. QED  BY <1>7, <1>8, <1>9, <1>10

-----------------------------------------------------------------------------
(* One lemma per action.                                                   *)

\* Nobody waits at first.
LEMMA InitInv == Init => IInv
<1>. SUFFICES ASSUME Init PROVE IInv
  OBVIOUS
<1>1. TypeOK
  <2>1. torn \in BOOLEAN /\ over \subseteq {"line", "waiter"}
    BY DEF Init
  <2>. QED  BY <2>1 DEF Init, TypeOK, Links
<1>2. Numbered /\ InProcess
  BY DEF Init, Numbered, InProcess
<1>3. waiters = <<>> /\ \A r \in Requests : Lacks(r) = 0
  BY DEF Init, Lacks
<1>. QED  BY <1>1, <1>2, <1>3, CountEmpty, DueParts DEF IInv, Sorted

\* A step that leaves the waiters and their requests alone.
LEMMA SameCalls ==
  ASSUME IInv, UNCHANGED <<waiters, promise, size, out>>
  PROVE  Numbered' /\ WaitersAreDue'
BY DEF IInv, Numbered, WaitersAreDue

\* connect() of the transport touches no waiter.
LEMMA DialInv == ASSUME IInv, NEW c \in Conns, Dial(c) PROVE IInv'
<1>. USE DEF IInv
<1>1. /\ transport # "wasm" /\ link[c] = "none"
      /\ link' = [link EXCEPT ![c] = "dialing"] /\ dial' = [dial EXCEPT ![c] = "pending"]
      /\ UNCHANGED <<chosen, socket, buf, calls, heard, login, engine, toServer, toClient, pushed, torn>> /\ over' = over \cup Left
  BY DEF Dial
<1>2. TypeOK'
  BY <1>1 DEF TypeOK, past, Left, chosen, calls, engine, Links
<1>3. Numbered' /\ WaitersAreDue'
  BY <1>1, SameCalls DEF calls
<1>4. InProcess'
  BY <1>1 DEF InProcess, chosen
<1>. QED  BY <1>2, <1>3, <1>4

\* The connection is made; AUTH, if it has to, waits outside of the queue.
LEMMA EstablishedInv == ASSUME IInv, NEW c \in Conns, Established(c) PROVE IInv'
<1>. USE DEF IInv
<1>1. /\ link[c] = "dialing" /\ link' = [link EXCEPT ![c] = "open"] /\ socket' = c
      /\ dial' = [dial EXCEPT ![c] = "resolved"]
      /\ UNCHANGED <<chosen, buf, heard, engine, toClient, pushed, past>>
      /\ \/ UNCHANGED <<calls, login, toServer>>
         \/ \E r \in Requests : Write(r, 1, c) /\ login' = [login EXCEPT ![c] = r]
  BY DEF Established
<1>2. transport # "wasm"
  BY <1>1 DEF InProcess
<1>3. InProcess'
  BY <1>1, <1>2 DEF InProcess, chosen
<1>4. CASE UNCHANGED <<calls, login, toServer>>
  <2>1. TypeOK'
    BY <1>1, <1>4 DEF TypeOK, past, chosen, calls, engine, Links
  <2>. QED  BY <1>3, <1>4, <2>1, SameCalls DEF calls
<1>5. CASE \E r \in Requests : Write(r, 1, c) /\ login' = [login EXCEPT ![c] = r]
  <2>1. PICK r \in Requests : Write(r, 1, c) /\ login' = [login EXCEPT ![c] = r]
    BY <1>5
  <2>2. /\ waiters' \in Seq(Requests) /\ promise' = [promise EXCEPT ![r] = "pending"]
        /\ size' = [size EXCEPT ![r] = 1] /\ out' = out /\ orphans' \subseteq Requests
        /\ toServer' \in [Conns -> Seq((0 .. MaxRequests) \X Nat)]
        /\ Numbered' /\ WaitersAreDue'
    BY <2>1, WriteDue
  <2>3. TypeOK'
    BY <1>1, <2>1, <2>2 DEF TypeOK, past, chosen, engine, Links
  <2>. QED  BY <1>3, <2>2, <2>3
<1>. QED  BY <1>1, <1>4, <1>5

\* The connection is refused; over WebSocket its onclose fails whoever waits.
LEMMA RefusedInv == ASSUME IInv, NEW c \in Conns, Refused(c) PROVE IInv'
<1>. USE DEF IInv
<1>1. /\ link[c] = "dialing" /\ link' = [link EXCEPT ![c] = "closed"]
      /\ dial' \in {[dial EXCEPT ![c] = "rejected"], dial}
      /\ FailAll \/ UNCHANGED <<waiters, promise>>
      /\ UNCHANGED <<chosen, socket, buf, size, out, heard, orphans, login, engine, toServer, toClient, pushed, past>>
  BY DEF Refused
<1>2. /\ waiters' \in Seq(Requests) /\ Numbered' /\ WaitersAreDue'
      /\ promise' \in [Requests -> {"idle", "pending", "resolved", "rejected"}]
  <2>1. CASE FailAll
    BY <1>1, <2>1, FailAllDue
  <2>2. CASE UNCHANGED <<waiters, promise>>
    BY <1>1, <2>2, SameCalls DEF TypeOK
  <2>. QED  BY <1>1, <2>1, <2>2
<1>3. TypeOK'
  BY <1>1, <1>2 DEF TypeOK, past, chosen, engine, Links
<1>4. InProcess'
  BY <1>1 DEF InProcess, chosen
<1>. QED  BY <1>2, <1>3, <1>4

\* send and sendBatch append one waiter for each command, or reject at once.
LEMMA SendInv == ASSUME IInv, NEW r \in Requests, NEW n \in BatchSizes, Send(r, n) PROVE IInv'
<1>. USE DEF IInv
<1>1. /\ transport # "wasm" /\ n \in Nat
      /\ UNCHANGED <<chosen, socket, buf, heard, connect, engine, link, toClient, pushed, past>>
  BY TransportAssumption DEF Send
<1>2. InProcess'
  BY <1>1 DEF InProcess, chosen
<1>3. CASE socket = 0
  <2>1. /\ promise[r] = "idle" /\ \A q \in 1 .. r - 1 : promise[q] # "idle"
        /\ size' = [size EXCEPT ![r] = n] /\ promise' = [promise EXCEPT ![r] = "rejected"]
        /\ UNCHANGED <<waiters, out, orphans, toServer>>
    BY <1>3 DEF Send, IsNext
  <2>2. TypeOK'
    BY <1>1, <2>1 DEF TypeOK, past, chosen, connect, engine
  <2>3. Numbered'
    <3>1. \A q \in Requests : q < r => promise[q] # "idle"
      BY <2>1, TransportAssumption DEF Requests
    <3>2. \A q \in Requests : promise'[q] = IF q = r THEN "rejected" ELSE promise[q]
      BY <2>1 DEF TypeOK
    <3>. QED  BY <2>1, <3>1, <3>2 DEF Numbered
  <2>4. WaitersAreDue'
    <3>1. \A q \in Requests : Lacks(q)' = Lacks(q)
      BY <2>1 DEF Lacks, TypeOK
    <3>2. (Sorted /\ \A q \in Requests : Count(waiters, q) = Lacks(q))' => WaitersAreDue'
      BY DEF WaitersAreDue, Sorted, Lacks, Count, Places
    <3>. QED  BY <2>1, <3>1, <3>2, DueParts DEF Sorted
  <2>. QED  BY <1>2, <2>2, <2>3, <2>4
<1>4. CASE socket # 0
  <2>1. Write(r, n, socket) /\ socket \in Conns
    BY <1>4 DEF Send, TypeOK
  <2>2. /\ waiters' \in Seq(Requests) /\ promise' = [promise EXCEPT ![r] = "pending"]
        /\ size' = [size EXCEPT ![r] = n] /\ out' = out /\ orphans' \subseteq Requests
        /\ toServer' \in [Conns -> Seq((0 .. MaxRequests) \X Nat)]
        /\ Numbered' /\ WaitersAreDue'
    BY <1>1, <2>1, WriteDue
  <2>3. TypeOK'
    BY <1>1, <2>2 DEF TypeOK, past, chosen, connect, engine
  <2>. QED  BY <1>2, <2>2, <2>3
<1>. QED  BY <1>3, <1>4

\* close() leaves the waiters alone.
LEMMA CloseInv == ASSUME IInv, Close PROVE IInv'
<1>. USE DEF IInv
<1>1. /\ socket # 0 /\ socket' = 0
      /\ link' \in {[link EXCEPT ![socket] = "ended"], [link EXCEPT ![socket] = "gone"], link}
      /\ toServer' \in {toServer, [toServer EXCEPT ![socket] = <<>>]}
      /\ toClient' \in {toClient, [toClient EXCEPT ![socket] = <<>>]}
      /\ UNCHANGED <<chosen, buf, calls, heard, connect, engine, pushed, past>>
  BY DEF Close
<1>2. /\ link' \in [Conns -> Links] /\ toClient' \in [Conns -> Seq(Pieces)]
      /\ toServer' \in [Conns -> Seq((0 .. MaxRequests) \X Nat)]
  <2>1. \A S : <<>> \in Seq(S)
    OBVIOUS
  <2>2. socket \in Conns /\ link \in [Conns -> Links] /\ toClient \in [Conns -> Seq(Pieces)]
        /\ toServer \in [Conns -> Seq((0 .. MaxRequests) \X Nat)]
    BY <1>1 DEF TypeOK
  <2>. QED  BY <1>1, <2>1, <2>2, ZenonT(30) DEF Links
<1>3. TypeOK'
  BY <1>1, <1>2 DEF TypeOK, past, chosen, calls, connect, engine
<1>4. Numbered' /\ WaitersAreDue'
  BY <1>1, SameCalls DEF calls
<1>5. InProcess'
  BY <1>1 DEF InProcess, chosen
<1>. QED  BY <1>3, <1>4, <1>5

\* The same calls on the WASM engine, which answers at once and has no waiters.
LEMMA SendInProcessInv ==
  ASSUME IInv, NEW r \in Requests, NEW n \in BatchSizes, SendInProcess(r, n) PROVE IInv'
<1>. DEFINE about == [i \in 1 .. n |-> Reply(r, i)]
<1>1. n \in Nat /\ Exec(r, n, about) /\ file' \in {0} \cup Requests
  BY TransportAssumption DEF SendInProcess, IInv, TypeOK
<1>2. \A i \in 1 .. n : about[i] \in Lines
  BY TransportAssumption DEF Reply, Lines, Requests
<1>. HIDE DEF about
<1>. QED  BY <1>1, <1>2, ExecInv

\* loadSnapshot() is one command more.
LEMMA LoadSnapshotInv == ASSUME IInv, NEW r \in Requests, LoadSnapshot(r) PROVE IInv'
<1>. DEFINE about == <<Reply(r, 1)>>
<1>1. Exec(r, 1, about) /\ file' \in {0} \cup Requests
  BY DEF LoadSnapshot
<1>2. \A i \in 1 .. 1 : about[i] \in Lines
  BY TransportAssumption DEF Reply, Lines, Requests
<1>. HIDE DEF about
<1>. QED  BY <1>1, <1>2, ExecInv

\* The caller goes on with the answers of the engine.
LEMMA ResumeInv == ASSUME IInv, NEW r \in Requests, Resume(r) PROVE IInv'
<1>. USE DEF IInv
<1>1. /\ transport = "wasm" /\ promise[r] = "pending" /\ promise' = [promise EXCEPT ![r] = "resolved"]
      /\ UNCHANGED <<chosen, socket, buf, waiters, size, out, orphans, heard, connect, engine, network, past>>
  BY DEF Resume
<1>2. TypeOK'
  BY <1>1 DEF TypeOK, past, chosen, connect, engine, network
<1>3. \A q \in Requests : promise'[q] = IF q = r THEN "resolved" ELSE promise[q]
  BY <1>1 DEF TypeOK
<1>4. Numbered' /\ InProcess'
  BY <1>1, <1>3 DEF Numbered, InProcess, chosen, network
<1>5. WaitersAreDue'
  <2>1. waiters' = <<>> /\ waiters = <<>>
    BY <1>1 DEF InProcess
  <2>2. \A q \in Requests : Lacks(q)' = 0
    BY <1>1, <1>3, <2>1, CountEmpty, DueParts DEF Lacks
  <2>3. (Sorted /\ \A q \in Requests : Count(waiters, q) = Lacks(q))' => WaitersAreDue'
    BY DEF WaitersAreDue, Sorted, Lacks, Count, Places
  <2>. QED  BY <2>1, <2>2, <2>3, CountEmpty DEF Sorted
<1>. QED  BY <1>2, <1>4, <1>5

\* A line that is complete goes to the listeners, to a waiter or to nobody.
LEMMA RouteDue ==
  ASSUME IInv, NEW line \in Seq(Pieces), Route(line), size' = size
  PROVE  /\ waiters' \in Seq(Requests) /\ out' \in [Requests -> Seq(Seq(Pieces))]
         /\ promise' \in [Requests -> {"idle", "pending", "resolved", "rejected"}]
         /\ heard' \in Seq(Seq(Pieces)) /\ (waiters = <<>> => waiters' = <<>>)
         /\ Numbered' /\ WaitersAreDue'
<1>1. /\ waiters \in Seq(Requests) /\ out \in [Requests -> Seq(Seq(Pieces))]
      /\ promise \in [Requests -> {"idle", "pending", "resolved", "rejected"}]
      /\ heard \in Seq(Seq(Pieces))
  BY DEF IInv, TypeOK
<1>2. CASE /\ heard' \in {Append(heard, line), heard} /\ UNCHANGED <<waiters, promise, out>>
  <2>1. heard' \in Seq(Seq(Pieces))
    <3>1. Append(heard, line) \in Seq(Seq(Pieces))
      BY <1>1, AppendProperties
    <3>. QED  BY <1>1, <1>2, <3>1
  <2>2. Numbered' /\ WaitersAreDue'
    BY <1>2, SameCalls
  <2>. QED  BY <1>1, <1>2, <2>1, <2>2
<1>3. CASE waiters # <<>> /\ Settle(line) /\ UNCHANGED heard
  BY <1>1, <1>3, SettleDue
<1>. QED  BY <1>2, <1>3 DEF Route

\* A chunk that ends a line gives it to the first waiter, or is an event, or neither.
LEMMA DataInv == ASSUME IInv, NEW c \in Conns, Data(c) PROVE IInv'
<1>. USE DEF IInv
<1>. DEFINE piece == Head(toClient[c])
<1>1. /\ toClient[c] # <<>> /\ toClient' = [toClient EXCEPT ![c] = Tail(@)]
      /\ UNCHANGED <<chosen, socket, size, orphans, connect, engine, link, toServer, pushed, past>>
      /\ \/ buf' = Append(buf, piece) /\ UNCHANGED <<waiters, promise, out, heard>>
         \/ buf' = <<>> /\ Route(Append(buf, piece))
         \/ buf' = buf /\ Route(<<piece>>)
  BY DEF Data
<1>2. piece \in Pieces /\ toClient' \in [Conns -> Seq(Pieces)]
  BY <1>1, HeadTailProperties DEF TypeOK
<1>. HIDE DEF piece
<1>3. buf \in Seq(Pieces) /\ Append(buf, piece) \in Seq(Pieces) /\ <<piece>> \in Seq(Pieces)
  BY <1>2, AppendProperties DEF TypeOK
<1>4. /\ waiters' \in Seq(Requests) /\ out' \in [Requests -> Seq(Seq(Pieces))]
      /\ promise' \in [Requests -> {"idle", "pending", "resolved", "rejected"}]
      /\ heard' \in Seq(Seq(Pieces)) /\ (waiters = <<>> => waiters' = <<>>)
      /\ Numbered' /\ WaitersAreDue' /\ buf' \in Seq(Pieces)
  <2>1. CASE buf' = Append(buf, piece) /\ UNCHANGED <<waiters, promise, out, heard>>
    BY <1>1, <1>3, <2>1, SameCalls DEF TypeOK
  <2>2. CASE buf' = <<>> /\ Route(Append(buf, piece))
    <3>1. <<>> \in Seq(Pieces) /\ size' = size
      BY <1>1
    <3>. QED  BY <1>3, <2>2, <3>1, RouteDue
  <2>3. CASE buf' = buf /\ Route(<<piece>>)
    BY <1>1, <1>3, <2>3, RouteDue
  <2>. QED  BY <1>1, <2>1, <2>2, <2>3
<1>5. TypeOK'
  BY <1>1, <1>2, <1>4 DEF TypeOK, past, chosen, connect, engine
<1>6. InProcess'
  BY <1>1, <1>4 DEF InProcess, chosen
<1>. QED  BY <1>4, <1>5, <1>6

\* The two callbacks of a connection that is lost reject all there is.
LEMMA LostInv ==
  ASSUME IInv, NEW c \in Conns, SocketError(c) \/ SocketClosed(c) PROVE IInv'
<1>. USE DEF IInv
<1>1. /\ link[c] \in {"gone", "errored"} /\ FailAll
      /\ link' \in {[link EXCEPT ![c] = "errored"], [link EXCEPT ![c] = "closed"]}
      /\ UNCHANGED <<chosen, socket, buf, size, out, heard, orphans, connect, engine, toServer, toClient, pushed, past>>
  BY DEF SocketError, SocketClosed
<1>2. /\ waiters' \in Seq(Requests) /\ Numbered' /\ WaitersAreDue'
      /\ promise' \in [Requests -> {"idle", "pending", "resolved", "rejected"}]
  BY <1>1, FailAllDue
<1>3. TypeOK'
  BY <1>1, <1>2 DEF TypeOK, past, chosen, connect, engine, Links
<1>4. InProcess'
  BY <1>1 DEF InProcess, chosen
<1>. QED  BY <1>2, <1>3, <1>4

\* What a line is on the wire.
LEMMA WireType == ASSUME NEW line \in Lines PROVE OnWire(line) \in Seq(Pieces)
<1>1. <<line, "head">> \in Pieces /\ <<line, "tail">> \in Pieces /\ <<line, "whole">> \in Pieces
  BY DEF Pieces
<1>. HIDE DEF Pieces
<1>. QED  BY <1>1 DEF OnWire

\* The server and the network leave the client alone.
LEMMA PeerInv == ASSUME IInv, NEW c \in Conns, Peer(c) PROVE IInv'
<1>. USE DEF IInv
<1>1. /\ link[c] \in {"open", "ended"} /\ UNCHANGED client
      /\ link' \in {link, [link EXCEPT ![c] = "gone"]}
  BY DEF Peer, Serve, Publish, Finish, Break
<1>6. torn' \in BOOLEAN /\ over' = over
  <2>1. CASE Break(c)
    BY <2>1 DEF Break
  <2>2. CASE ~Break(c)
    BY <2>2 DEF Peer, Serve, Publish, Finish, past, TypeOK
  <2>. QED  BY <2>1, <2>2
<1>2. /\ toServer' \in [Conns -> Seq((0 .. MaxRequests) \X Nat)]
      /\ toClient' \in [Conns -> Seq(Pieces)] /\ pushed' \in [Conns -> Nat]
  <2>1. /\ toServer \in [Conns -> Seq((0 .. MaxRequests) \X Nat)]
        /\ toClient \in [Conns -> Seq(Pieces)] /\ pushed \in [Conns -> Nat]
    BY DEF TypeOK
  <2>2. CASE Serve(c)
    <3>. DEFINE cmd == Head(toServer[c])
    <3>1. cmd \in (0 .. MaxRequests) \X Nat /\ Tail(toServer[c]) \in Seq((0 .. MaxRequests) \X Nat)
      BY <2>1, <2>2, HeadTailProperties DEF Serve
    <3>2. OnWire(Reply(cmd[1], cmd[2])) \in Seq(Pieces)
      BY <3>1, WireType, TransportAssumption DEF Reply, Lines
    <3>3. toClient' \in [Conns -> Seq(Pieces)]
      <4>1. toClient' = [toClient EXCEPT ![c] = @ \o OnWire(Reply(cmd[1], cmd[2]))]
        BY <2>2 DEF Serve
      <4>. HIDE DEF cmd
      <4>. QED  BY <2>1, <3>2, <4>1, ConcatProperties
    <3>. QED  BY <2>1, <2>2, <3>1, <3>3 DEF Serve
  <2>3. CASE Publish(c)
    <3>1. OnWire(Push(c, pushed[c] + 1)) \in Seq(Pieces)
      BY <2>1, WireType, TransportAssumption DEF Push, Lines, Conns
    <3>2. toClient' \in [Conns -> Seq(Pieces)]
      BY <2>1, <2>3, <3>1, ConcatProperties DEF Publish
    <3>. QED  BY <2>1, <2>3, <3>2 DEF Publish
  <2>4. CASE Finish(c)
    BY <2>1, <2>4 DEF Finish
  <2>5. CASE Break(c)
    <3>1. PICK k \in 0 .. Len(toClient[c]) : toClient' = [toClient EXCEPT ![c] = SubSeq(@, 1, k)]
      BY <2>5 DEF Break
    <3>2. SubSeq(toClient[c], 1, k) \in Seq(Pieces)
      BY <2>1, LenProperties, SubSeqProperties
    <3>. QED  BY <2>1, <2>5, <3>1, <3>2 DEF Break
  <2>. QED  BY <2>2, <2>3, <2>4, <2>5 DEF Peer
<1>3. TypeOK'
  BY <1>1, <1>2, <1>6 DEF TypeOK, past, client, chosen, calls, connect, engine, Links
<1>4. Numbered' /\ WaitersAreDue'
  BY <1>1, SameCalls DEF client, calls
<1>5. InProcess'
  BY <1>1 DEF InProcess, client, chosen, calls
<1>. QED  BY <1>3, <1>4, <1>5

-----------------------------------------------------------------------------

\* Every call and every callback keeps the invariant.
LEMMA NextInv == IInv /\ [Next]_vars => IInv'
<1>. SUFFICES ASSUME IInv, [Next]_vars PROVE IInv'
  OBVIOUS
<1>1. CASE Application
  BY <1>1, CloseInv, LoadSnapshotInv, SendInv, SendInProcessInv DEF Application
<1>2. CASE \E c \in Conns : Dial(c) \/ Established(c) \/ Refused(c)
  BY <1>2, DialInv, EstablishedInv, RefusedInv
<1>3. CASE \E c \in Conns : Callback(c) \/ Peer(c)
  BY <1>3, DataInv, LostInv, PeerInv DEF Callback
<1>4. CASE \E r \in Requests : Resume(r)
  BY <1>4, ResumeInv
<1>5. CASE UNCHANGED vars
  <2>1. Numbered' /\ WaitersAreDue'
    BY <1>5, SameCalls DEF vars, client, calls
  <2>. QED
    BY <1>5, <2>1 DEF IInv, TypeOK, InProcess, vars, client, network, past, chosen, calls, connect, engine
<1>. QED  BY <1>1, <1>2, <1>3, <1>4, <1>5 DEF Next

\* The inductive invariant holds in every state.
LEMMA Invariance == Spec => []IInv
<1>1. Init => IInv
  BY InitInv
<1>2. IInv /\ [Next]_vars => IInv'
  BY NextInv
<1>. QED  BY <1>1, <1>2, PTL DEF Spec

\* The variables have their types, and the socket of the transport is one that
\* was connected and not closed.
THEOREM TypeCorrect == Spec => []TypeOK
<1>1. IInv => TypeOK
  BY DEF IInv
<1>. QED  BY <1>1, Invariance, PTL

\* The waiters are the answers that the pending promises lack, oldest first,
\* whatever breaks and however often the application reconnects: no batch
\* resolves early and no settled request takes the line of another.
THEOREM WaitersStayDue == Spec => []WaitersAreDue
<1>1. IInv => WaitersAreDue
  BY DEF IInv
<1>. QED  BY <1>1, Invariance, PTL

-----------------------------------------------------------------------------
(* Lines on the wire.                                                      *)

\* What transport t makes of a line (OnWire), and the piece that completes it.
Wire(t, line) == IF t = "tcp" THEN << <<line, "head">>, <<line, "tail">> >>
                 ELSE << <<line, "whole">> >>
LastOf(t, line) == IF t = "tcp" THEN <<line, "tail">> ELSE <<line, "whole">>

\* The pieces that complete a line of this kind.
Ends(kind) == {piece \in Pieces : piece[2] # "head" /\ piece[1].kind = kind}

\* Pieces in this order are lines one after the other, of which the first may
\* lack its head and the last its tail.
Framing(t, p) ==
  \A i \in 1 .. Len(p) :
    IF t = "tcp"
    THEN /\ p[i][2] # "whole"
         /\ p[i][2] = "tail" => i > 1 /\ p[i - 1] = <<p[i][1], "head">>
         /\ p[i][2] = "head" /\ i < Len(p) => p[i + 1] = <<p[i][1], "tail">>
    ELSE p[i][2] = "whole"

\* The last line is complete.
EndsWhole(p) == \A i \in 1 .. Len(p) : p[i][2] = "head" => i < Len(p)

\* What a line is on the wire: pieces of which the last, and only the last, ends it.
LEMMA WireIs ==
  ASSUME NEW t, NEW line \in Lines
  PROVE  /\ Wire(t, line) \in Seq(Pieces) /\ LastOf(t, line) \in Pieces
         /\ LastOf(t, line)[1] = line /\ LastOf(t, line)[2] # "head"
         /\ t = "tcp" => /\ Len(Wire(t, line)) = 2 /\ Wire(t, line)[1] = <<line, "head">>
                         /\ Wire(t, line)[2] = <<line, "tail">>
         /\ t # "tcp" => Len(Wire(t, line)) = 1 /\ Wire(t, line)[1] = <<line, "whole">>
<1>1. <<line, "head">> \in Pieces /\ <<line, "tail">> \in Pieces /\ <<line, "whole">> \in Pieces
  BY DEF Pieces
<1>. HIDE DEF Pieces
<1>. QED  BY <1>1 DEF Wire, LastOf

\* Two facts about sequences of pieces.
LEMMA PiecesJoin == \A u, v, w \in Seq(Pieces) : u \o v \in Seq(Pieces) /\ (u \o v) \o w = u \o (v \o w)
BY ConcatAssociative, ConcatProperties, SMTT(30)

\* The ends of lines in two streams, one after the other.
LEMMA EndsJoin ==
  \A kind : \A u, v \in Seq(Pieces) :
    Kept(u \o v, Ends(kind)) = Kept(u, Ends(kind)) \o Kept(v, Ends(kind))
BY KeptConcat

\* Of the pieces of a line, the last one completes it.
LEMMA KeptWire ==
  ASSUME NEW t, NEW line \in Lines, NEW kind
  PROVE  Kept(Wire(t, line), Ends(kind)) =
           IF line.kind = kind THEN <<LastOf(t, line)>> ELSE <<>>
<1>. DEFINE h == <<line, "head">>
            l == LastOf(t, line)
<1>1. h \in Pieces /\ l \in Pieces /\ l[1] = line /\ l[2] # "head" /\ h[2] = "head"
  BY WireIs DEF Pieces
<1>2. h \notin Ends(kind) /\ (l \in Ends(kind) <=> line.kind = kind)
  BY <1>1 DEF Ends
<1>3. CASE t = "tcp"
  <2>1. Wire(t, line) = Append(<<h>>, l)
    BY <1>3 DEF Wire, LastOf
  <2>. HIDE DEF h, l
  <2>2. <<h>> \in Seq(Pieces) /\ Kept(<<h>>, Ends(kind)) = <<>>
    BY <1>1, <1>2, KeptOne
  <2>3. Kept(Append(<<h>>, l), Ends(kind)) =
          IF l \in Ends(kind) THEN Append(Kept(<<h>>, Ends(kind)), l) ELSE Kept(<<h>>, Ends(kind))
    <3>1. \A s \in Seq(Pieces), x \in Pieces :
            Kept(Append(s, x), Ends(kind)) = IF x \in Ends(kind) THEN Append(Kept(s, Ends(kind)), x)
                                             ELSE Kept(s, Ends(kind))
      BY KeptAppend
    <3>. QED  BY ONLY <1>1, <2>2, <3>1
  <2>4. Append(<<>>, l) = <<l>>
    OBVIOUS
  <2>. QED  BY <1>2, <2>1, <2>2, <2>3, <2>4 DEF l
<1>4. CASE t # "tcp"
  <2>1. Wire(t, line) = <<l>>
    BY <1>4 DEF Wire, LastOf
  <2>. HIDE DEF h, l
  <2>2. Kept(<<l>>, Ends(kind)) = IF l \in Ends(kind) THEN <<l>> ELSE <<>>
    BY <1>1, KeptOne
  <2>. QED  BY <1>2, <2>1, <2>2 DEF l
<1>. QED  BY <1>3, <1>4

\* A line that goes out after whole lines is framed.
LEMMA FramingAppend ==
  ASSUME NEW t, NEW p \in Seq(Pieces), NEW line \in Lines, Framing(t, p), EndsWhole(p)
  PROVE  Framing(t, p \o Wire(t, line)) /\ EndsWhole(p \o Wire(t, line))
<1>. DEFINE n == Len(p)
            w == Wire(t, line)
            q == p \o w
<1>1. /\ n \in Nat /\ w \in Seq(Pieces)
      /\ t = "tcp" => Len(w) = 2 /\ w[1] = <<line, "head">> /\ w[2] = <<line, "tail">>
      /\ t # "tcp" => Len(w) = 1 /\ w[1] = <<line, "whole">>
  BY WireIs, LenProperties
<1>. HIDE DEF w
<1>2. /\ q \in Seq(Pieces) /\ Len(q) = n + Len(w)
      /\ \A i \in 1 .. n + Len(w) : q[i] = IF i <= n THEN p[i] ELSE w[i - n]
  BY <1>1, ConcatProperties
<1>. HIDE DEF q, n
<1>3. CASE t = "tcp"
  <2>1. /\ Len(q) = n + 2 /\ q[n + 1] = <<line, "head">> /\ q[n + 2] = <<line, "tail">>
        /\ \A i \in 1 .. n : q[i] = p[i]
    <3>1. Len(w) = 2 /\ w[1] = <<line, "head">> /\ w[2] = <<line, "tail">>
      BY <1>1, <1>3
    <3>2. (n + 1) - n = 1 /\ (n + 2) - n = 2 /\ ~(n + 1 <= n) /\ ~(n + 2 <= n)
          /\ n + 1 \in 1 .. n + 2 /\ n + 2 \in 1 .. n + 2 /\ \A i \in 1 .. n : i \in 1 .. n + 2 /\ i <= n
      BY <1>1
    <3>. QED  BY <1>2, <3>1, <3>2
  <2>2. \A i \in 1 .. n : /\ p[i][2] # "whole" /\ (p[i][2] = "head" => i < n)
                          /\ p[i][2] = "tail" => i > 1 /\ p[i - 1] = <<p[i][1], "head">>
                          /\ p[i][2] = "head" /\ i < n => p[i + 1] = <<p[i][1], "tail">>
    BY <1>3 DEF Framing, EndsWhole, n
  <2>3. \A i \in 1 .. n + 2 : i \in 1 .. n \/ i = n + 1 \/ i = n + 2
    BY <1>1
  <2>4. EndsWhole(q)
    BY <1>1, <2>1, <2>2, <2>3 DEF EndsWhole
  <2>5. Framing(t, q)
    <3>1. \A i \in 1 .. n : /\ q[i][2] # "whole"
                            /\ q[i][2] = "tail" => i > 1 /\ q[i - 1] = <<q[i][1], "head">>
                            /\ q[i][2] = "head" => q[i + 1] = <<q[i][1], "tail">>
      <4>. SUFFICES ASSUME NEW i \in 1 .. n
                    PROVE  /\ q[i][2] # "whole"
                           /\ q[i][2] = "tail" => i > 1 /\ q[i - 1] = <<q[i][1], "head">>
                           /\ q[i][2] = "head" => q[i + 1] = <<q[i][1], "tail">>
        OBVIOUS
      <4>1. q[i] = p[i] /\ (i > 1 => q[i - 1] = p[i - 1]) /\ (i < n => q[i + 1] = p[i + 1])
        BY <1>1, <2>1
      <4>. QED  BY <2>2, <4>1
    <3>2. (n + 1) + 1 = n + 2 /\ (n + 2) - 1 = n + 1 /\ n + 2 > 1
      BY <1>1
    <3>. QED  BY <1>3, <2>1, <2>3, <3>1, <3>2, SMTT(60) DEF Framing
  <2>. QED  BY <2>4, <2>5 DEF q, w
<1>4. CASE t # "tcp"
  <2>1. \A i \in 1 .. n : q[i][2] = "whole"
    BY <1>1, <1>2, <1>4 DEF Framing, n
  <2>2. Len(q) = n + 1 /\ q[n + 1][2] = "whole" /\ \A i \in 1 .. n + 1 : i \in 1 .. n \/ i = n + 1
    <3>1. Len(w) = 1 /\ w[1][2] = "whole"
      BY <1>1, <1>4
    <3>2. (n + 1) - n = 1 /\ ~(n + 1 <= n) /\ n + 1 \in 1 .. n + 1
      BY <1>1
    <3>. QED  BY <1>1, <1>2, <3>1, <3>2
  <2>3. Framing(t, q) /\ EndsWhole(q)
    BY <1>4, <2>1, <2>2 DEF Framing, EndsWhole
  <2>. QED  BY <2>3 DEF q, w
<1>. QED  BY <1>3, <1>4

\* Without its first line, the rest is framed as well.
LEMMA FramingRest ==
  ASSUME NEW t, NEW rest \in Seq(Pieces), NEW line \in Lines, Framing(t, Wire(t, line) \o rest)
  PROVE  Framing(t, rest) /\ (EndsWhole(Wire(t, line) \o rest) => EndsWhole(rest))
<1>. DEFINE w == Wire(t, line)
            k == Len(w)
            q == w \o rest
<1>1. /\ k \in {1, 2} /\ w \in Seq(Pieces) /\ Len(rest) \in Nat
      /\ (k = 2 <=> t = "tcp") /\ (t = "tcp" => w[2][2] = "tail")
  BY WireIs, LenProperties
<1>. HIDE DEF w
<1>2. /\ Len(q) = k + Len(rest)
      /\ \A i \in 1 .. k + Len(rest) : q[i] = IF i <= k THEN w[i] ELSE rest[i - k]
  BY <1>1, ConcatProperties
<1>. HIDE DEF q, k
<1>3. \A i \in 1 .. Len(rest) : i + k \in 1 .. Len(q) /\ q[i + k] = rest[i]
  BY <1>1, <1>2
<1>4. EndsWhole(q) => EndsWhole(rest)
  BY <1>1, <1>2, <1>3 DEF EndsWhole
<1>5. CASE t = "tcp"
  <2>. SUFFICES ASSUME NEW i \in 1 .. Len(rest)
                PROVE  /\ rest[i][2] # "whole"
                       /\ rest[i][2] = "tail" => i > 1 /\ rest[i - 1] = <<rest[i][1], "head">>
                       /\ rest[i][2] = "head" /\ i < Len(rest) => rest[i + 1] = <<rest[i][1], "tail">>
    BY <1>4, <1>5 DEF Framing, q, w
  <2>1. k = 2 /\ i + 2 \in 1 .. Len(q) /\ q[i + 2] = rest[i] /\ q[2][2] = "tail"
    BY <1>1, <1>2, <1>3, <1>5
  <2>2. /\ q[i + 2][2] # "whole"
        /\ q[i + 2][2] = "tail" => q[i + 1] = <<q[i + 2][1], "head">>
        /\ q[i + 2][2] = "head" /\ i + 2 < Len(q) => q[i + 3] = <<q[i + 2][1], "tail">>
    <3>1. (i + 2) - 1 = i + 1 /\ (i + 2) + 1 = i + 3
      OBVIOUS
    <3>. QED  BY <1>5, <2>1, <3>1 DEF Framing, q, w
  <2>3. i = 1 \/ (i - 1 \in 1 .. Len(rest) /\ (i - 1) + 2 = i + 1)
    OBVIOUS
  <2>4. i > 1 => q[i + 1] = rest[i - 1]
    BY <1>3, <2>1, <2>3
  <2>5. i < Len(rest) => q[i + 3] = rest[i + 1] /\ i + 2 < Len(q)
    <3>1. i < Len(rest) => i + 1 \in 1 .. Len(rest) /\ (i + 1) + 2 = i + 3
      BY <1>1
    <3>. QED  BY <1>1, <1>2, <1>3, <2>1, <3>1
  <2>6. i = 1 => rest[i][2] # "tail"
    BY <2>1, <2>2
  <2>. QED  BY <2>1, <2>2, <2>3, <2>4, <2>5, <2>6
<1>6. CASE t # "tcp"
  BY <1>3, <1>4, <1>6 DEF Framing, q, w
<1>. QED  BY <1>5, <1>6

\* What has arrived of framed pieces is framed.
LEMMA FramingPrefix ==
  ASSUME NEW t, NEW p \in Seq(Pieces), NEW rest \in Seq(Pieces), Framing(t, p \o rest)
  PROVE  Framing(t, p)
<1>. DEFINE q == p \o rest
<1>1. /\ Len(p) \in Nat /\ Len(q) >= Len(p) /\ \A i \in 1 .. Len(p) : q[i] = p[i] /\ i \in 1 .. Len(q)
  BY ConcatProperties, LenProperties
<1>2. Framing(t, q)
  OBVIOUS
<1>. HIDE DEF q
<1>3. \A i \in 1 .. Len(p) : /\ i > 1 => q[i - 1] = p[i - 1]
                             /\ i < Len(p) => q[i + 1] = p[i + 1] /\ i < Len(q)
  <2>1. \A i \in 1 .. Len(p) : /\ i > 1 => i - 1 \in 1 .. Len(p)
                               /\ i < Len(p) => i + 1 \in 1 .. Len(p)
    BY <1>1
  <2>2. Len(q) \in Nat
    BY LenProperties, ConcatProperties DEF q
  <2>. QED  BY <1>1, <2>1, <2>2
<1>. QED  BY <1>1, <1>2, <1>3 DEF Framing

-----------------------------------------------------------------------------
(* One connection at a time.                                               *)

Live(c) == link[c] \notin {"none", "closed"}

\* What the application's care gives: at most one connection is alive, it is
\* the one of this.socket, and nothing is under way on the others.
OneLive ==
  /\ \A c, d \in Conns : Live(c) /\ Live(d) => c = d
  /\ \A c \in Conns :
       /\ socket # 0 /\ Live(c) => c = socket
       /\ link[c] = "open" => socket = c
       /\ link[c] = "dialing" => socket = 0
       /\ link[c] \notin {"open", "ended", "gone"} => toClient[c] = <<>>
       /\ link[c] \notin {"open", "ended"} => toServer[c] = <<>>
       /\ link[c] \in {"none", "dialing"} => pushed[c] = 0

\* A connection that is made was the only one, and stays it.
LEMMA OneLiveNext ==
  ASSUME CarefulReconnect = TRUE, IInv, OneLive, Next
  PROVE  OneLive'
<1>1. /\ link \in [Conns -> Links] /\ toClient \in [Conns -> Seq(Pieces)] /\ pushed \in [Conns -> Nat]
      /\ toServer \in [Conns -> Seq((0 .. MaxRequests) \X Nat)] /\ socket \in {0} \cup Conns
      /\ 0 \notin Conns /\ (socket # 0 => link[socket] \notin {"none", "dialing", "ended"})
  BY DEF IInv, TypeOK, Conns
<1>. USE DEF OneLive, Live
<1>2. ASSUME NEW c \in Conns, Dial(c) PROVE OneLive'
  <2>1. /\ AllClosed /\ link' = [link EXCEPT ![c] = "dialing"] /\ link[c] = "none"
        /\ UNCHANGED <<socket, toServer, toClient, pushed>>
    BY <1>2 DEF Dial
  <2>. QED  BY <1>1, <2>1 DEF AllClosed
<1>3. ASSUME NEW c \in Conns, Established(c) PROVE OneLive'
  <2>1. /\ link[c] = "dialing" /\ link' = [link EXCEPT ![c] = "open"] /\ socket' = c
        /\ toServer' = toServer \/ \E s : toServer' = [toServer EXCEPT ![c] = s]
        /\ UNCHANGED <<toClient, pushed>>
    BY <1>1, <1>3 DEF Established, Write
  <2>2. \A d \in Conns \ {c} : ~Live(d) /\ toServer'[d] = toServer[d] /\ link'[d] = link[d]
    BY <1>1, <2>1
  <2>. QED  BY <1>1, <2>1, <2>2
<1>4. ASSUME NEW c \in Conns, Refused(c) PROVE OneLive'
  <2>1. /\ link[c] = "dialing" /\ link' = [link EXCEPT ![c] = "closed"]
        /\ UNCHANGED <<socket, toServer, toClient, pushed>>
    BY <1>4 DEF Refused
  <2>. QED  BY <1>1, <2>1
<1>5. ASSUME NEW r \in Requests, NEW n \in BatchSizes, Send(r, n) PROVE OneLive'
  <2>1. /\ UNCHANGED <<socket, link, toClient, pushed>>
        /\ socket = 0 => UNCHANGED toServer
        /\ socket # 0 => \/ toServer' = toServer
                         \/ link[socket] = "open" /\ \E s : toServer' = [toServer EXCEPT ![socket] = s]
    BY <1>1, <1>5 DEF Send, Write
  <2>2. CASE socket = 0
    BY <1>1, <2>1, <2>2
  <2>3. CASE socket # 0
    BY <1>1, <2>1, <2>3
  <2>. QED  BY <2>2, <2>3
<1>6. ASSUME Close PROVE OneLive'
  <2>1. /\ socket # 0 /\ socket' = 0 /\ UNCHANGED pushed
        /\ \/ /\ link[socket] = "open" /\ link' = [link EXCEPT ![socket] = "ended"]
              /\ UNCHANGED <<toServer, toClient>>
           \/ /\ link[socket] = "open" /\ link' = [link EXCEPT ![socket] = "gone"]
              /\ toServer' = [toServer EXCEPT ![socket] = <<>>]
              /\ toClient' = [toClient EXCEPT ![socket] = <<>>]
           \/ link[socket] # "open" /\ link' = link /\ UNCHANGED <<toServer, toClient>>
           \/ /\ link[socket] # "open" /\ link' = link
              /\ toServer' = [toServer EXCEPT ![socket] = <<>>]
              /\ toClient' = [toClient EXCEPT ![socket] = <<>>]
    BY <1>6 DEF Close, calls
  <2>2. \A d \in Conns : link[d] = "open" => d = socket
    BY <1>1
  <2>3. \A d \in Conns : link'[d] = "dialing" => FALSE
    BY <1>1, <2>1
  <2>. QED  BY <1>1, <2>1, <2>2, <2>3
<1>7. ASSUME NEW c \in Conns, Data(c) PROVE OneLive'
  <2>1. /\ link[c] \in {"open", "ended", "gone"} /\ \E s : toClient' = [toClient EXCEPT ![c] = s]
        /\ UNCHANGED <<socket, link, toServer, pushed>>
    BY <1>7 DEF Data
  <2>2. \A d \in Conns : link[d] # "dialing"
    BY <2>1
  <2>. QED  BY <1>1, <2>1, <2>2
<1>8. ASSUME NEW c \in Conns, SocketError(c) \/ SocketClosed(c) PROVE OneLive'
  <2>1. /\ link[c] \in {"gone", "errored"} /\ toClient[c] = <<>>
        /\ link' \in {[link EXCEPT ![c] = "errored"], [link EXCEPT ![c] = "closed"]}
        /\ UNCHANGED <<socket, toServer, toClient, pushed>>
    <3>1. CASE SocketError(c)
      BY <3>1 DEF SocketError
    <3>2. CASE SocketClosed(c)
      BY <3>2 DEF SocketClosed
    <3>. QED  BY <1>8, <3>1, <3>2
  <2>2. \A d \in Conns : link[d] # "dialing"
    BY <2>1
  <2>. QED  BY <1>1, <2>1, <2>2
<1>9. ASSUME NEW c \in Conns, Peer(c) PROVE OneLive'
  <2>1. /\ link[c] \in {"open", "ended"} /\ UNCHANGED socket
        /\ \/ /\ link' = link /\ \E s : toClient' = [toClient EXCEPT ![c] = s]
              /\ toServer' = toServer \/ \E s : toServer' = [toServer EXCEPT ![c] = s]
              /\ pushed' = pushed \/ \E s : pushed' = [pushed EXCEPT ![c] = s]
           \/ /\ link' = [link EXCEPT ![c] = "gone"]
              /\ \/ toServer[c] = <<>> /\ UNCHANGED <<toServer, toClient>>
                 \/ /\ toServer' = [toServer EXCEPT ![c] = <<>>]
                    /\ \E s : toClient' = [toClient EXCEPT ![c] = s]
              /\ pushed' = pushed
    <3>1. CASE Serve(c)
      BY <3>1 DEF Serve, client, calls
    <3>2. CASE Publish(c)
      BY <3>2 DEF Publish, client, calls
    <3>3. CASE Finish(c)
      BY <3>3 DEF Finish, client, calls
    <3>4. CASE Break(c)
      BY <3>4 DEF Break, client, calls
    <3>. QED  BY <1>9, <3>1, <3>2, <3>3, <3>4 DEF Peer
  <2>2. link[c] = "open" \/ link[c] = "ended"
    BY <2>1
  <2>. QED  BY <1>1, <2>1, <2>2, ZenonT(30)
<1>10. ASSUME NEW r \in Requests, UNCHANGED <<socket, link, toServer, toClient, pushed>>
       PROVE  OneLive'
  BY <1>10
<1>11. ASSUME NEW r \in Requests, NEW n, NEW about, Exec(r, n, about) PROVE OneLive'
  BY <1>10, <1>11 DEF Exec, network
<1>12. ASSUME NEW r \in Requests, Resume(r) PROVE OneLive'
  BY <1>10, <1>12 DEF Resume, network
<1>. HIDE DEF OneLive
<1>. QED
  BY <1>2, <1>3, <1>4, <1>5, <1>6, <1>7, <1>8, <1>9, <1>11, <1>12
     DEF Next, Application, Callback, SendInProcess, LoadSnapshot

\* Only Dial adds to what connections were made over.
LEMMA OverGrows == Next => \/ \E c \in Conns : Dial(c)
                           \/ over' = over
<1>1. ASSUME NEW r \in Requests, NEW n, NEW about, Exec(r, n, about) PROVE over' = over
  BY <1>1 DEF Exec, past
<1>2. ASSUME NEW c \in Conns, Established(c) \/ Refused(c) \/ Callback(c) \/ Peer(c) PROVE over' = over
  BY <1>2 DEF Established, Refused, Callback, Data, SocketError, SocketClosed,
              Peer, Serve, Publish, Finish, Break, past
<1>3. ASSUME Application PROVE over' = over
  BY <1>1, <1>3 DEF Application, Close, Send, SendInProcess, LoadSnapshot, past
<1>4. ASSUME NEW r \in Requests, Resume(r) PROVE over' = over
  BY <1>4 DEF Resume, past
<1>. QED  BY <1>2, <1>3, <1>4 DEF Next

\* And only Dial makes a socket that is still to connect.
LEMMA OnlyDialDials ==
  ASSUME IInv, Next, NEW d \in Conns, link'[d] = "dialing"
  PROVE  link[d] = "dialing" \/ Dial(d)
<1>0. link \in [Conns -> Links]
  BY DEF IInv, TypeOK
<1>1. ASSUME NEW r \in Requests, NEW n, NEW about, Exec(r, n, about) PROVE link' = link
  BY <1>1 DEF Exec, network
<1>2. ASSUME NEW c \in Conns, Established(c) \/ Refused(c) \/ Callback(c) \/ Peer(c) PROVE link[d] = "dialing"
  BY <1>0, <1>2 DEF Established, Refused, Callback, Data, SocketError, SocketClosed,
              Peer, Serve, Publish, Finish, Break
<1>3. ASSUME Application PROVE link[d] = "dialing"
  <2>1. ASSUME Close PROVE link[d] = "dialing"
    <3>1. link' \in {link, [link EXCEPT ![socket] = "ended"], [link EXCEPT ![socket] = "gone"]}
      BY <2>1 DEF Close
    <3>. QED  BY <1>0, <3>1
  <2>. QED  BY <1>1, <1>3, <2>1 DEF Application, Send, SendInProcess, LoadSnapshot
<1>4. ASSUME NEW r \in Requests, Resume(r) PROVE link' = link
  BY <1>4 DEF Resume, network
<1>5. ASSUME NEW c \in Conns, Dial(c) PROVE link[d] = "dialing" \/ Dial(d)
  <2>1. link' = [link EXCEPT ![c] = "dialing"]
    BY <1>5 DEF Dial
  <2>. QED  BY <1>0, <1>5, <2>1
<1>. QED  BY <1>2, <1>3, <1>4, <1>5 DEF Next

-----------------------------------------------------------------------------
(* What a connection carries.                                              *)

\* All that has come of a connection, or is coming, and no line took yet.
Pipe(c) == buf \o toClient[c]

\* A connection that is being made finds no half line, and no waiter.
NoHalfLine == (\E c \in Conns : link[c] = "dialing") => buf = <<>>
NoWaiter   == (\E c \in Conns : link[c] = "dialing") => waiters = <<>>

HeadsOnly(p) == Len(p) <= 1 /\ \A i \in 1 .. Len(p) : p[i][2] = "head"

\* Lines come whole and in one piece after the other, also of the connection
\* the buffer is not about; only a broken one may end in the middle of a line.
Framed ==
  /\ HeadsOnly(buf)
  /\ \A c \in Conns : /\ Framing(transport, Pipe(c))
                      /\ link[c] \in {"open", "ended"} => EndsWhole(Pipe(c))

\* What is buffered and what is on its way are pieces.
LEMMA PipeType ==
  ASSUME TypeOK, NEW c \in Conns
  PROVE  buf \in Seq(Pieces) /\ toClient[c] \in Seq(Pieces) /\ Pipe(c) \in Seq(Pieces)
<1>1. buf \in Seq(Pieces) /\ toClient[c] \in Seq(Pieces)
  BY DEF TypeOK
<1>. QED  BY <1>1, ConcatProperties DEF Pipe

\* Heads alone complete no line.
LEMMA KeptHeads ==
  ASSUME NEW p \in Seq(Pieces), HeadsOnly(p), NEW kind
  PROVE  Kept(p, Ends(kind)) = <<>>
<1>1. CASE Len(p) = 0
  <2>1. p = <<>>
    BY <1>1, EmptySeq
  <2>. QED  BY <2>1, KeptEmpty
<1>2. CASE Len(p) = 1
  <2>. DEFINE x == p[1]
  <2>1. x \in Pieces /\ x[2] = "head" /\ p = <<x>>
    <3>1. <<x>> \in Seq(Pieces) /\ Len(<<x>>) = 1 /\ x \in Pieces /\ x[2] = "head"
      <4>1. 1 \in 1 .. Len(p)
        BY <1>2
      <4>2. x \in Pieces /\ x[2] = "head"
        BY <4>1, ElementOfSeq DEF HeadsOnly
      <4>. QED  BY <4>2
    <3>2. \A i \in 1 .. Len(p) : p[i] = <<x>>[i]
      BY <1>2
    <3>. QED  BY <1>2, <3>1, <3>2, SeqEqual
  <2>2. x \notin Ends(kind)
    BY <2>1 DEF Ends
  <2>. HIDE DEF x
  <2>3. Kept(<<x>>, Ends(kind)) = IF x \in Ends(kind) THEN <<x>> ELSE <<>>
    BY <2>1, KeptOne
  <2>. QED  BY <2>1, <2>2, <2>3
<1>3. Len(p) \in Nat /\ Len(p) <= 1
  BY LenProperties DEF HeadsOnly
<1>4. Len(p) = 0 \/ Len(p) = 1
  <2>1. \A m \in Nat : m <= 1 => m = 0 \/ m = 1
    OBVIOUS
  <2>. QED  BY <1>3, <2>1
<1>. QED  BY <1>1, <1>2, <1>4

\* A chunk that arrives is kept in the buffer, or completes the first line.
LEMMA DataLine ==
  ASSUME TypeOK, Framed, NEW c \in Conns, Data(c)
  PROVE  /\ toClient[c] # <<>> /\ toClient' = [toClient EXCEPT ![c] = Tail(@)]
         /\ \/ /\ UNCHANGED <<waiters, promise, out, heard>>
               /\ Pipe(c)' = Pipe(c) /\ transport = "tcp"
               /\ buf' \in Seq(Pieces) /\ HeadsOnly(buf') /\ Len(buf') = 1
            \/ \E line \in Lines :
                 /\ Route(Wire(transport, line)) /\ buf' = <<>>
                 /\ Pipe(c)' \in Seq(Pieces) /\ Pipe(c) = Wire(transport, line) \o Pipe(c)'
<1>. DEFINE piece == Head(toClient[c])
            rest == Tail(toClient[c])
            n == Len(buf)
            p == Pipe(c)
<1>1. /\ toClient[c] # <<>> /\ toClient' = [toClient EXCEPT ![c] = Tail(@)]
      /\ \/ piece[2] = "head" /\ buf' = Append(buf, piece) /\ UNCHANGED <<waiters, promise, out, heard>>
         \/ piece[2] = "tail" /\ buf' = <<>> /\ Route(Append(buf, piece))
         \/ piece[2] = "whole" /\ buf' = buf /\ Route(<<piece>>)
  BY DEF Data
<1>2. /\ buf \in Seq(Pieces) /\ toClient[c] \in Seq(Pieces) /\ p \in Seq(Pieces)
      /\ n \in {0, 1} /\ Framing(transport, p) /\ \A i \in 1 .. n : buf[i][2] = "head"
  <2>1. buf \in Seq(Pieces) /\ toClient[c] \in Seq(Pieces) /\ p \in Seq(Pieces)
    BY PipeType
  <2>2. n \in Nat /\ n <= 1
    BY <2>1, LenProperties DEF Framed, HeadsOnly
  <2>3. Framing(transport, p) /\ \A i \in 1 .. n : buf[i][2] = "head"
    BY DEF Framed, HeadsOnly
  <2>4. n \in {0, 1}
    <3>. HIDE DEF n
    <3>. QED  BY <2>2
  <2>. HIDE DEF n, p
  <2>. QED  BY <2>1, <2>3, <2>4
<1>3. /\ piece \in Pieces /\ rest \in Seq(Pieces) /\ Append(buf, piece) \o rest = p
      /\ Len(toClient[c]) \in Nat \ {0} /\ toClient[c][1] = piece
  <2>. DEFINE s == toClient[c]
  <2>1. s \in Seq(Pieces) /\ s # <<>> /\ buf \in Seq(Pieces)
    BY <1>1, <1>2
  <2>. HIDE DEF s
  <2>2. /\ Head(s) \in Pieces /\ Tail(s) \in Seq(Pieces) /\ Head(s) = s[1]
        /\ Len(s) \in Nat \ {0} /\ Append(buf, Head(s)) \o Tail(s) = buf \o s
    BY <2>1, HeadTailProperties, MoveHead, EmptySeq
  <2>. QED  BY <2>2 DEF s, Pipe
<1>4. /\ Len(p) \in Nat /\ Len(p) > n /\ p[n + 1] = piece /\ \A i \in 1 .. n : p[i] = buf[i]
  <2>1. /\ Len(p) = n + Len(toClient[c])
        /\ \A i \in 1 .. n + Len(toClient[c]) : p[i] = IF i <= n THEN buf[i] ELSE toClient[c][i - n]
    BY <1>2, ConcatProperties DEF Pipe
  <2>2. n + 1 \in 1 .. n + Len(toClient[c]) /\ (n + 1) - n = 1 /\ ~(n + 1 <= n)
        /\ \A i \in 1 .. n : i \in 1 .. n + Len(toClient[c]) /\ i <= n
    BY <1>2, <1>3
  <2>3. p[n + 1] = piece /\ \A i \in 1 .. n : p[i] = buf[i]
    BY <1>3, <2>1, <2>2
  <2>4. Len(p) \in Nat /\ Len(p) > n
    <3>1. n \in Nat /\ Len(toClient[c]) \in Nat \ {0} /\ Len(p) = n + Len(toClient[c])
      BY <1>2, <1>3, <2>1
    <3>. HIDE DEF n, p
    <3>. QED  BY <3>1
  <2>. HIDE DEF n, p
  <2>. QED  BY <2>3, <2>4
<1>5. toClient'[c] = rest /\ Pipe(c)' = buf' \o rest
  BY <1>1 DEF Pipe, TypeOK
<1>. HIDE DEF piece, rest, p, n
<1>6. CASE piece[2] = "head"
  <2>1. buf' = Append(buf, piece) /\ UNCHANGED <<waiters, promise, out, heard>>
    BY <1>1, <1>6
  <2>2. n = 0 /\ transport = "tcp"
    <3>1. transport = "tcp"
      BY <1>2, <1>4, <1>6 DEF Framing
    <3>2. n = 1 => p[1][2] = "head" /\ p[2] = piece /\ 1 \in 1 .. Len(p) /\ 1 < Len(p)
      BY <1>2, <1>4
    <3>3. n = 1 => piece[2] = "tail"
      BY <1>2, <3>1, <3>2 DEF Framing
    <3>. QED  BY <1>2, <1>6, <3>1, <3>3
  <2>3. Append(buf, piece) \in Seq(Pieces) /\ Len(Append(buf, piece)) = 1 /\ Append(buf, piece)[1] = piece
    BY <1>2, <1>3, <2>2, AppendProperties DEF n
  <2>4. HeadsOnly(buf')
    BY <1>6, <2>1, <2>3 DEF HeadsOnly
  <2>. QED  BY <1>1, <1>3, <1>5, <2>1, <2>2, <2>3, <2>4 DEF p
<1>7. CASE piece[2] = "tail"
  <2>. DEFINE line == piece[1]
  <2>1. buf' = <<>> /\ Route(Append(buf, piece))
    BY <1>1, <1>7
  <2>2. line \in Lines /\ piece = <<line, "tail">>
    BY <1>3, <1>7 DEF Pieces
  <2>3. transport = "tcp"
    BY <1>2, <1>4, <1>7 DEF Framing
  <2>4. n = 1 /\ buf[1] = <<line, "head">>
    <3>1. n + 1 \in 1 .. Len(p) /\ p[n + 1] = piece /\ (n + 1) - 1 = n
      BY <1>2, <1>4
    <3>2. n + 1 > 1 /\ p[n] = <<line, "head">>
      BY <1>2, <1>7, <2>3, <3>1 DEF Framing
    <3>. QED  BY <1>2, <1>4, <3>2
  <2>. HIDE DEF line
  <2>5. Append(buf, piece) = Wire(transport, line)
    <3>1. /\ Append(buf, piece) \in Seq(Pieces) /\ Len(Append(buf, piece)) = 2
          /\ Append(buf, piece)[1] = <<line, "head">> /\ Append(buf, piece)[2] = <<line, "tail">>
      <4>1. Len(buf) = 1 /\ 1 \in 1 .. 1
        BY <2>4 DEF n
      <4>2. /\ Append(buf, piece) \in Seq(Pieces) /\ Len(Append(buf, piece)) = Len(buf) + 1
            /\ \A i \in 1 .. Len(buf) : Append(buf, piece)[i] = buf[i]
            /\ Append(buf, piece)[Len(buf) + 1] = piece
        BY <1>2, <1>3, AppendProperties
      <4>. QED  BY <2>2, <2>4, <4>1, <4>2
    <3>2. /\ Wire(transport, line) \in Seq(Pieces) /\ Len(Wire(transport, line)) = 2
          /\ Wire(transport, line)[1] = <<line, "head">> /\ Wire(transport, line)[2] = <<line, "tail">>
      BY <2>2, <2>3, WireIs
    <3>3. \A i \in 1 .. 2 : i = 1 \/ i = 2
      OBVIOUS
    <3>4. \A i \in 1 .. Len(Append(buf, piece)) : Append(buf, piece)[i] = Wire(transport, line)[i]
      BY <3>1, <3>2, <3>3
    <3>. QED  BY ONLY <3>1, <3>2, <3>4, SeqEqual
  <2>6. Pipe(c)' = rest
    BY <1>3, <1>5, <2>1, ConcatEmptySeq
  <2>. QED  BY <1>1, <1>3, <2>1, <2>2, <2>5, <2>6 DEF p
<1>8. CASE piece[2] = "whole"
  <2>. DEFINE line == piece[1]
  <2>1. buf' = buf /\ Route(<<piece>>)
    BY <1>1, <1>8
  <2>2. line \in Lines /\ piece = <<line, "whole">>
    BY <1>3, <1>8 DEF Pieces
  <2>3. transport # "tcp"
    BY <1>2, <1>4, <1>8 DEF Framing
  <2>4. n = 0
    <3>1. n = 1 => p[1][2] = "head" /\ 1 \in 1 .. Len(p)
      BY <1>2, <1>4
    <3>. QED  BY <1>2, <2>3, <3>1 DEF Framing
  <2>5. buf = <<>>
    BY <1>2, <2>4, EmptySeq DEF n
  <2>6. Wire(transport, line) = <<piece>>
    BY <2>2, <2>3 DEF Wire
  <2>7. Pipe(c)' = rest
    BY <1>3, <1>5, <2>1, <2>5, ConcatEmptySeq
  <2>8. Append(buf, piece) = <<piece>>
    BY <2>5
  <2>. HIDE DEF line
  <2>. QED  BY <1>1, <1>3, <2>1, <2>2, <2>5, <2>6, <2>7, <2>8 DEF p
<1>. QED  BY <1>1, <1>6, <1>7, <1>8

-----------------------------------------------------------------------------
(* Events.                                                                 *)

HeardOf(c) == Kept(heard, LinesOf(c))
Events(c)  == Kept(Pipe(c), Ends("event"))

\* The listeners heard the first events of c, and the pipe holds those that
\* follow, all of them as long as the connection holds.
HeardAt(c) ==
  /\ \A i \in 1 .. Len(HeardOf(c)) : HeardOf(c)[i] = Wire(transport, Push(c, i))
  /\ \A j \in 1 .. Len(Events(c)) : Events(c)[j][1] = Push(c, Len(HeardOf(c)) + j)
  /\ Len(HeardOf(c)) + Len(Events(c)) <= pushed[c]
  /\ link[c] = "open" => Len(HeardOf(c)) + Len(Events(c)) = pushed[c]

Delivery ==
  /\ IInv /\ OneLive /\ NoHalfLine /\ Framed
  /\ \A c \in Conns : HeardAt(c)

\* So are the events heard and the ones that may be.
LEMMA HeardType ==
  ASSUME TypeOK, NEW c \in Conns
  PROVE  /\ HeardOf(c) \in Seq(Seq(Pieces)) /\ Events(c) \in Seq(Pieces)
         /\ Len(HeardOf(c)) \in Nat /\ Len(Events(c)) \in Nat
<1>1. heard \in Seq(Seq(Pieces)) /\ Pipe(c) \in Seq(Pieces)
  BY PipeType DEF TypeOK
<1>2. HeardOf(c) \in Seq(Seq(Pieces)) /\ Events(c) \in Seq(Pieces)
  BY <1>1, KeptType DEF HeardOf, Events
<1>. QED  BY <1>2, LenProperties

\* A connection whose pipe and events a step leaves alone.
LEMMA SamePipe ==
  ASSUME UNCHANGED <<transport, buf, heard>>, NEW c \in Conns,
         toClient'[c] = toClient[c], pushed'[c] = pushed[c],
         link'[c] \in {"open", "ended"} => link[c] \in {"open", "ended"},
         link'[c] = "open" => link[c] = "open",
         Framing(transport, Pipe(c)), link[c] \in {"open", "ended"} => EndsWhole(Pipe(c)),
         HeardAt(c)
  PROVE  /\ Framing(transport, Pipe(c))' /\ (link'[c] \in {"open", "ended"} => EndsWhole(Pipe(c))')
         /\ HeardAt(c)'
<1>1. Pipe(c)' = Pipe(c) /\ HeardOf(c)' = HeardOf(c) /\ transport' = transport
  BY DEF Pipe, HeardOf
<1>2. Events(c)' = Events(c)
  BY <1>1 DEF Events
<1>. QED  BY <1>1, <1>2 DEF HeardAt

\* A step that does nothing to the pipes.
LEMMA SamePipes ==
  ASSUME Delivery, UNCHANGED <<transport, buf, heard, toClient, pushed>>,
         \A c \in Conns : /\ link'[c] \in {"open", "ended"} => link[c] \in {"open", "ended"}
                          /\ link'[c] = "open" => link[c] = "open"
  PROVE  Framed' /\ \A c \in Conns : HeardAt(c)'
<1>1. HeadsOnly(buf')
  BY DEF Delivery, Framed
<1>. QED  BY <1>1, SamePipe DEF Delivery, Framed

\* A step that only touches the pipe of c.
LEMMA OnePipe ==
  ASSUME Delivery, UNCHANGED <<transport, buf, heard>>, NEW c \in Conns,
         \A d \in Conns \ {c} : toClient'[d] = toClient[d] /\ pushed'[d] = pushed[d] /\ link'[d] = link[d],
         Framing(transport, Pipe(c))', link'[c] \in {"open", "ended"} => EndsWhole(Pipe(c))',
         HeardAt(c)'
  PROVE  Framed' /\ \A d \in Conns : HeardAt(d)'
<1>1. HeadsOnly(buf')
  BY DEF Delivery, Framed
<1>2. ASSUME NEW d \in Conns \ {c}
      PROVE  /\ Framing(transport, Pipe(d))' /\ (link'[d] \in {"open", "ended"} => EndsWhole(Pipe(d))')
             /\ HeardAt(d)'
  <2>1. /\ Framing(transport, Pipe(d)) /\ (link[d] \in {"open", "ended"} => EndsWhole(Pipe(d)))
        /\ HeardAt(d) /\ link'[d] = link[d] /\ toClient'[d] = toClient[d] /\ pushed'[d] = pushed[d]
    BY DEF Delivery, Framed
  <2>. QED  BY <2>1, SamePipe
<1>. QED  BY <1>1, <1>2 DEF Framed

\* A line comes after all that is under way.
LEMMA LineSent ==
  ASSUME Delivery, NEW c \in Conns, NEW line \in Lines, UNCHANGED <<transport, buf, heard>>,
         link[c] \in {"open", "ended"}, link' = link,
         toClient' = [toClient EXCEPT ![c] = @ \o OnWire(line)],
         \A d \in Conns \ {c} : pushed'[d] = pushed[d],
         \/ line.kind # "event" /\ pushed'[c] = pushed[c]
         \/ line = Push(c, pushed[c] + 1) /\ pushed'[c] = pushed[c] + 1 /\ link[c] = "open"
  PROVE  Framed' /\ \A d \in Conns : HeardAt(d)'
<1>. DEFINE w == Wire(transport, line)
            h == HeardOf(c)
            e == Events(c)
            x == LastOf(transport, line)
<1>1. /\ buf \in Seq(Pieces) /\ toClient[c] \in Seq(Pieces) /\ Pipe(c) \in Seq(Pieces)
      /\ w \in Seq(Pieces) /\ x \in Pieces /\ x[1] = line
      /\ h \in Seq(Seq(Pieces)) /\ e \in Seq(Pieces) /\ Len(h) \in Nat /\ Len(e) \in Nat
      /\ toClient \in [Conns -> Seq(Pieces)] /\ pushed[c] \in Nat
  BY PipeType, HeardType, WireIs, SMTT(60) DEF Delivery, IInv, TypeOK
<1>2. OnWire(line) = w
  BY DEF OnWire, Wire
<1>3. toClient'[c] = toClient[c] \o w /\ \A d \in Conns \ {c} : toClient'[d] = toClient[d]
  BY <1>1, <1>2
<1>4. Pipe(c)' = Pipe(c) \o w
  <2>. DEFINE s == toClient[c]
  <2>1. (buf \o s) \o w = buf \o (s \o w)
    <3>1. buf \in Seq(Pieces) /\ s \in Seq(Pieces) /\ w \in Seq(Pieces)
      BY <1>1
    <3>. HIDE DEF s, w
    <3>. QED  BY <3>1, PiecesJoin
  <2>. HIDE DEF w
  <2>. QED  BY <1>3, <2>1 DEF Pipe
<1>5. Framing(transport, Pipe(c) \o w) /\ EndsWhole(Pipe(c) \o w)
  BY <1>1, FramingAppend DEF Delivery, Framed
<1>6. Events(c)' = e \o Kept(w, Ends("event")) /\ HeardOf(c)' = h
  <2>1. Kept(Pipe(c) \o w, Ends("event")) = Kept(Pipe(c), Ends("event")) \o Kept(w, Ends("event"))
    <3>. HIDE DEF w
    <3>. QED  BY <1>1, EndsJoin
  <2>. QED  BY <1>4, <2>1 DEF Events, HeardOf
<1>7. HeardAt(c)
  BY DEF Delivery
<1>. HIDE DEF h, e
<1>8. HeardAt(c)'
  <2>1. CASE line.kind # "event" /\ pushed'[c] = pushed[c]
    <3>1. Kept(w, Ends("event")) = <<>>
      BY <2>1, KeptWire
    <3>2. e \o <<>> = e
      BY <1>1, ConcatEmptySeq
    <3>3. Events(c)' = e /\ transport' = transport /\ link'[c] = link[c]
      BY <1>6, <3>1, <3>2
    <3>. QED  BY <1>6, <1>7, <2>1, <3>3 DEF HeardAt, h, e
  <2>2. CASE line = Push(c, pushed[c] + 1) /\ pushed'[c] = pushed[c] + 1 /\ link[c] = "open"
    <3>1. Kept(w, Ends("event")) = <<x>>
      BY <2>2, KeptWire DEF Push
    <3>2. Append(e, x) = e \o <<x>>
      BY <1>1, AppendIsConcat
    <3>3. Events(c)' = Append(e, x)
      BY <1>6, <3>1, <3>2
    <3>. HIDE DEF x
    <3>4. /\ Len(Append(e, x)) = Len(e) + 1 /\ Append(e, x)[Len(e) + 1] = x
          /\ \A i \in 1 .. Len(e) : Append(e, x)[i] = e[i]
      BY <1>1, AppendProperties
    <3>5. Len(h) + Len(e) = pushed[c] /\ \A j \in 1 .. Len(e) : e[j][1] = Push(c, Len(h) + j)
      BY <1>7, <2>2 DEF HeardAt, h, e
    <3>6. Len(h) + (Len(e) + 1) = pushed[c] + 1 /\ Len(Events(c)') = Len(e) + 1
      BY <1>1, <3>3, <3>4, <3>5
    <3>7. ASSUME NEW j \in 1 .. Len(e) + 1 PROVE Append(e, x)[j][1] = Push(c, Len(h) + j)
      <4>1. CASE j = Len(e) + 1
        BY <1>1, <2>2, <3>4, <3>6, <4>1
      <4>2. CASE j \in 1 .. Len(e)
        BY <3>4, <3>5, <4>2
      <4>. QED  BY <1>1, <4>1, <4>2
    <3>8. \A i \in 1 .. Len(h) : h[i] = Wire(transport, Push(c, i))
      BY <1>7 DEF HeardAt, h
    <3>9. Len(HeardOf(c)') = Len(h) /\ Len(h) + Len(Events(c)') = pushed'[c] /\ pushed'[c] \in Nat
      BY <1>1, <1>6, <2>2, <3>6
    <3>10. \A j \in 1 .. Len(Events(c)') : Events(c)'[j][1] = Push(c, Len(HeardOf(c)') + j)
      BY <1>6, <3>3, <3>6, <3>7
    <3>11. \A i \in 1 .. Len(HeardOf(c)') : HeardOf(c)'[i] = Wire(transport', Push(c, i))
      BY <1>6, <3>8
    <3>12. Len(HeardOf(c)') + Len(Events(c)') = pushed'[c]
      BY <3>9
    <3>13. Len(HeardOf(c)') + Len(Events(c)') <= pushed'[c]
      BY <3>9, <3>12
    <3>. QED  BY <3>10, <3>11, <3>12, <3>13 DEF HeardAt
  <2>. QED  BY <2>1, <2>2
<1>9. /\ Framing(transport, Pipe(c))' /\ EndsWhole(Pipe(c))'
      /\ \A d \in Conns \ {c} : toClient'[d] = toClient[d] /\ pushed'[d] = pushed[d] /\ link'[d] = link[d]
  <2>1. Framing(transport', Pipe(c)') /\ EndsWhole(Pipe(c)')
    BY <1>4, <1>5
  <2>. QED  BY <1>3, <2>1
<1>. QED  BY <1>8, <1>9, OnePipe

\* Of what is under way on c only the first part is left.
LEMMA PipeCut ==
  ASSUME Delivery, NEW c \in Conns, UNCHANGED <<transport, buf, heard, pushed>>,
         link'[c] \notin {"open", "ended"}, \A d \in Conns \ {c} : link'[d] = link[d],
         NEW k \in 0 .. Len(toClient[c]), toClient' = [toClient EXCEPT ![c] = SubSeq(@, 1, k)]
  PROVE  /\ Framed' /\ \A d \in Conns : HeardAt(d)'
         /\ \E rest \in Seq(Pieces) : Pipe(c)' \in Seq(Pieces) /\ Pipe(c) = Pipe(c)' \o rest
<1>1. /\ buf \in Seq(Pieces) /\ toClient[c] \in Seq(Pieces) /\ toClient \in [Conns -> Seq(Pieces)]
      /\ HeardOf(c) \in Seq(Seq(Pieces)) /\ Events(c) \in Seq(Pieces) /\ Len(HeardOf(c)) \in Nat
  BY PipeType, HeardType DEF Delivery, IInv, TypeOK
<1>. DEFINE s == toClient[c]
            t == SubSeq(s, 1, k)
<1>2. PICK rest \in Seq(Pieces) : t \in Seq(Pieces) /\ s = t \o rest
  <2>1. s \in Seq(Pieces) /\ k \in 0 .. Len(s)
    BY <1>1
  <2>. DEFINE u == SubSeq(s, k + 1, Len(s))
  <2>2. t \in Seq(Pieces) /\ u \in Seq(Pieces) /\ t \o u = s
    <3>. HIDE DEF s
    <3>. QED  BY <2>1, Cut
  <2>. HIDE DEF s, t, u
  <2>. QED  BY <2>2
<1>3. toClient'[c] = t /\ \A d \in Conns \ {c} : toClient'[d] = toClient[d]
  BY <1>1
<1>. HIDE DEF s, t
<1>4. /\ Pipe(c)' = buf \o t /\ buf \o t \in Seq(Pieces) /\ Pipe(c) = (buf \o t) \o rest
  <2>1. buf \o t \in Seq(Pieces) /\ (buf \o t) \o rest = buf \o (t \o rest)
    <3>1. buf \in Seq(Pieces) /\ t \in Seq(Pieces) /\ rest \in Seq(Pieces)
      BY <1>1, <1>2
    <3>. QED  BY ONLY <3>1, PiecesJoin, SMTT(30)
  <2>. QED  BY <1>2, <1>3, <2>1 DEF Pipe, s
<1>5. Framing(transport, buf \o t)
  BY <1>2, <1>4, FramingPrefix DEF Delivery, Framed
<1>. DEFINE a == Kept(buf \o t, Ends("event"))
            b == Kept(rest, Ends("event"))
<1>6. Events(c) = a \o b /\ Events(c)' = a /\ HeardOf(c)' = HeardOf(c) /\ a \in Seq(Pieces) /\ b \in Seq(Pieces)
  <2>1. Kept((buf \o t) \o rest, Ends("event")) = a \o b
    <3>. DEFINE u == buf \o t
    <3>1. u \in Seq(Pieces)
      BY <1>4
    <3>. HIDE DEF u
    <3>. QED  BY <1>2, <3>1, EndsJoin DEF u
  <2>2. a \in Seq(Pieces) /\ b \in Seq(Pieces)
    BY <1>2, <1>4, KeptType
  <2>. QED  BY <1>4, <2>1, <2>2 DEF Events, HeardOf
<1>. HIDE DEF a, b
<1>7. Len(a) \in Nat /\ Len(a) <= Len(Events(c)) /\ \A j \in 1 .. Len(a) : Events(c)[j] = a[j]
  <2>1. Len(a) \in Nat /\ Len(b) \in Nat
    BY <1>6, LenProperties
  <2>2. Len(a \o b) = Len(a) + Len(b) /\ \A j \in 1 .. Len(a) + Len(b) : (a \o b)[j] = IF j <= Len(a) THEN a[j] ELSE b[j - Len(a)]
    BY ONLY <1>6, ConcatProperties
  <2>. QED  BY <1>6, <2>1, <2>2
<1>8. HeardAt(c)
  BY DEF Delivery
<1>9. HeardAt(c)'
  <2>1. Len(Events(c)) \in Nat /\ pushed[c] \in Nat /\ pushed' = pushed /\ transport' = transport
    BY <1>1, LenProperties DEF Delivery, IInv, TypeOK
  <2>2. Len(HeardOf(c)) + Len(a) <= pushed[c]
    BY <1>1, <1>7, <1>8, <2>1 DEF HeardAt
  <2>3. \A j \in 1 .. Len(a) : a[j][1] = Push(c, Len(HeardOf(c)) + j)
    BY <1>7, <1>8, <2>1 DEF HeardAt
  <2>4. \A i \in 1 .. Len(HeardOf(c)) : HeardOf(c)[i] = Wire(transport, Push(c, i))
    BY <1>8 DEF HeardAt
  <2>. QED  BY <1>6, <2>1, <2>2, <2>3, <2>4 DEF HeardAt
<1>10. Framing(transport, Pipe(c))'
  <2>1. Framing(transport', Pipe(c)')
    BY <1>4, <1>5
  <2>. QED  BY <2>1
<1>11. Framed' /\ \A d \in Conns : HeardAt(d)'
  BY <1>3, <1>9, <1>10, OnePipe
<1>. QED  BY <1>2, <1>4, <1>11

\* What becomes of a line that is complete.
LEMMA RouteLine ==
  ASSUME NEW line \in Lines, Route(Wire(transport, line))
  PROVE  \/ /\ line.kind = "event" /\ heard' = Append(heard, Wire(transport, line))
            /\ UNCHANGED <<waiters, promise, out>>
         \/ line.kind = "reply" /\ waiters # <<>> /\ Settle(Wire(transport, line)) /\ heard' = heard
         \/ line.kind = "reply" /\ waiters = <<>> /\ UNCHANGED <<waiters, promise, out, heard>>
<1>1. Wire(transport, line)[1][2] # "tail" /\ Wire(transport, line)[1][1] = line
  BY WireIs
<1>2. IsEvent(Wire(transport, line)) <=> line.kind = "event"
  BY <1>1 DEF IsEvent
<1>3. line.kind \in {"reply", "event"}
  BY DEF Lines
<1>. QED  BY <1>2, <1>3 DEF Route

\* On a connection where nothing is under way, the buffer makes up the pipe.
LEMMA IdlePipe ==
  ASSUME NEW t, NEW b \in Seq(Pieces), HeadsOnly(b), Len(b) = 0 \/ t = "tcp"
  PROVE  b \o <<>> = b /\ Framing(t, b) /\ \A kind : Kept(b, Ends(kind)) = <<>>
<1>1. b \o <<>> = b /\ \A kind : Kept(b, Ends(kind)) = <<>>
  BY ConcatEmptySeq, KeptHeads
<1>2. Len(b) \in Nat /\ Len(b) <= 1 /\ \A i \in 1 .. Len(b) : b[i][2] = "head"
  BY LenProperties DEF HeadsOnly
<1>3. \A i \in 1 .. Len(b) : t = "tcp" /\ ~(i < Len(b)) /\ b[i][2] # "whole" /\ b[i][2] # "tail"
  BY <1>2
<1>4. Framing(t, b)
  BY <1>3 DEF Framing
<1>. QED  BY <1>1, <1>4

\* A chunk hands over the next event, or none.
LEMMA DataDelivery ==
  ASSUME Delivery, NEW c \in Conns, Data(c)
  PROVE  Framed' /\ \A d \in Conns : HeardAt(d)'
<1>. USE DEF Delivery
<1>1. /\ link[c] \in {"open", "ended", "gone"} /\ UNCHANGED <<transport, link, pushed>>
  BY DEF Data, chosen
<1>2. /\ toClient[c] # <<>> /\ toClient' = [toClient EXCEPT ![c] = Tail(@)]
      /\ \/ /\ UNCHANGED <<waiters, promise, out, heard>>
            /\ Pipe(c)' = Pipe(c) /\ transport = "tcp"
            /\ buf' \in Seq(Pieces) /\ HeadsOnly(buf') /\ Len(buf') = 1
         \/ \E line \in Lines :
              /\ Route(Wire(transport, line)) /\ buf' = <<>>
              /\ Pipe(c)' \in Seq(Pieces) /\ Pipe(c) = Wire(transport, line) \o Pipe(c)'
  BY DataLine DEF IInv
<1>3. /\ buf' \in Seq(Pieces) /\ HeadsOnly(buf') /\ (Len(buf') = 0 \/ transport = "tcp")
  <2>1. \A e : e = <<>> => e \in Seq(Pieces) /\ Len(e) = 0 /\ HeadsOnly(e)
    BY DEF HeadsOnly
  <2>. QED  BY <1>2, <2>1
<1>4. \A d \in Conns \ {c} : /\ ~Live(d) /\ link'[d] \notin {"open", "ended"}
                             /\ toClient[d] = <<>> /\ toClient'[d] = <<>>
  BY <1>1, <1>2 DEF OneLive, Live, IInv, TypeOK
<1>5. /\ Framing(transport, Pipe(c)) /\ (link[c] \in {"open", "ended"} => EndsWhole(Pipe(c)))
      /\ HeardAt(c) /\ HeardOf(c) \in Seq(Seq(Pieces)) /\ Len(HeardOf(c)) \in Nat /\ heard \in Seq(Seq(Pieces))
  BY HeardType DEF Framed, IInv, TypeOK
<1>6. ASSUME NEW d \in Conns \ {c}, HeardOf(d)' = HeardOf(d)
      PROVE  Framing(transport, Pipe(d))' /\ HeardAt(d)'
  <2>. DEFINE b == buf'
  <2>1. b \o <<>> = b /\ Framing(transport, b) /\ \A kind : Kept(b, Ends(kind)) = <<>>
    <3>1. b \in Seq(Pieces) /\ HeadsOnly(b) /\ (Len(b) = 0 \/ transport = "tcp")
      BY <1>3
    <3>. HIDE DEF b
    <3>. QED  BY <3>1, IdlePipe
  <2>2. Pipe(d)' = b
    BY <1>4, <2>1 DEF Pipe
  <2>3. Events(d)' = <<>>
    BY <2>1, <2>2 DEF Events
  <2>4. /\ \A i \in 1 .. Len(HeardOf(d)) : HeardOf(d)[i] = Wire(transport, Push(d, i))
        /\ Len(HeardOf(d)) + Len(Events(d)) <= pushed[d]
        /\ Len(HeardOf(d)) \in Nat /\ Len(Events(d)) \in Nat /\ pushed[d] \in Nat
    BY HeardType DEF HeardAt, IInv, TypeOK
  <2>5. Len(<<>>) = 0
    OBVIOUS
  <2>6. Len(HeardOf(d)) + 0 <= pushed[d]
    BY <2>4
  <2>7. Framing(transport, Pipe(d))'
    BY <1>1, <2>1, <2>2
  <2>. HIDE DEF b
  <2>. QED  BY <1>1, <1>4, <1>6, <2>3, <2>4, <2>5, <2>6, <2>7 DEF HeardAt
<1>7. CASE UNCHANGED <<waiters, promise, out, heard>> /\ Pipe(c)' = Pipe(c)
  <2>1. \A d \in Conns : HeardOf(d)' = HeardOf(d)
    BY <1>7 DEF HeardOf
  <2>2. Events(c)' = Events(c)
    BY <1>7 DEF Events
  <2>3. HeardAt(c)'
    BY <1>1, <1>5, <2>1, <2>2 DEF HeardAt
  <2>4. Framing(transport, Pipe(c))' /\ (link'[c] \in {"open", "ended"} => EndsWhole(Pipe(c)'))
    BY <1>1, <1>5, <1>7
  <2>. QED  BY <1>3, <1>4, <1>6, <2>1, <2>3, <2>4 DEF Framed
<1>8. ASSUME NEW line \in Lines, Route(Wire(transport, line)), buf' = <<>>,
             Pipe(c)' \in Seq(Pieces), Pipe(c) = Wire(transport, line) \o Pipe(c)'
      PROVE  Framed' /\ \A d \in Conns : HeardAt(d)'
  <2>. DEFINE w == Wire(transport, line)
              q == Pipe(c)'
              x == LastOf(transport, line)
              h == HeardOf(c)
              e == Kept(q, Ends("event"))
  <2>1. /\ w \in Seq(Pieces) /\ w # <<>> /\ w[1][1] = line /\ x \in Pieces /\ x[1] = line
    BY WireIs
  <2>2. q \in Seq(Pieces) /\ Pipe(c) = w \o q
    BY <1>8
  <2>3. Framing(transport, q) /\ (link[c] \in {"open", "ended"} => EndsWhole(q))
    <3>. HIDE DEF q
    <3>. QED  BY <1>5, <2>2, FramingRest
  <2>4. /\ Events(c) = Kept(w, Ends("event")) \o e /\ e \in Seq(Pieces) /\ Len(e) \in Nat
    <3>. HIDE DEF q, w
    <3>1. Kept(w \o q, Ends("event")) = Kept(w, Ends("event")) \o Kept(q, Ends("event"))
      BY <2>1, <2>2, EndsJoin
    <3>2. e \in Seq(Pieces) /\ Len(e) \in Nat
      BY <2>2, KeptType, LenProperties
    <3>. QED  BY <2>2, <3>1, <3>2 DEF Events
  <2>5. Events(c)' = e
    BY DEF Events
  <2>6. Framing(transport, Pipe(c))' /\ (link'[c] \in {"open", "ended"} => EndsWhole(Pipe(c)'))
    BY <1>1, <2>3
  <2>. HIDE DEF q, e, x
  <2>7. CASE line.kind = "event" /\ heard' = Append(heard, w)
    <3>1. Kept(w, Ends("event")) = <<x>>
      BY <2>7, KeptWire DEF x
    <3>2. /\ Len(Events(c)) = Len(e) + 1 /\ Events(c)[1] = x
          /\ \A j \in 1 .. Len(e) : Events(c)[j + 1] = e[j]
      <4>1. <<x>> \in Seq(Pieces) /\ Len(<<x>>) = 1 /\ <<x>>[1] = x
        BY <2>1
      <4>2. /\ Len(<<x>> \o e) = Len(<<x>>) + Len(e)
            /\ \A j \in 1 .. Len(<<x>>) + Len(e) :
                 (<<x>> \o e)[j] = IF j <= Len(<<x>>) THEN <<x>>[j] ELSE e[j - Len(<<x>>)]
        BY <2>4, <4>1, ConcatProperties
      <4>3. \A j \in 1 .. Len(e) : j + 1 \in 1 .. 1 + Len(e) /\ ~(j + 1 <= 1) /\ (j + 1) - 1 = j
        BY <2>4
      <4>4. 1 \in 1 .. 1 + Len(e)
        BY <2>4
      <4>5. /\ Len(<<x>> \o e) = Len(e) + 1 /\ (<<x>> \o e)[1] = x
            /\ \A j \in 1 .. Len(e) : (<<x>> \o e)[j + 1] = e[j]
        BY <2>4, <4>1, <4>2, <4>3, <4>4
      <4>6. Events(c) = <<x>> \o e
        BY <2>4, <3>1
      <4>. QED  BY ONLY <4>5, <4>6
    <3>3. line = Push(c, Len(h) + 1) /\ line.of = c
      <4>1. x[1] = Push(c, Len(h) + 1)
        <5>1. 1 \in 1 .. Len(Events(c))
          BY <2>4, <3>2
        <5>. QED  BY <1>5, <3>2, <5>1 DEF HeardAt
      <4>. QED  BY <2>1, <4>1 DEF Push
    <3>4. \A d \in Conns : w \in LinesOf(d) <=> d = c
      BY <2>1, <3>3 DEF LinesOf
    <3>5. \A d \in Conns : HeardOf(d)' = IF d = c THEN Append(h, w) ELSE HeardOf(d)
      <4>. HIDE DEF w
      <4>1. w \in Seq(Pieces)
        BY <2>1
      <4>2. \A T : Kept(Append(heard, w), T) = IF w \in T THEN Append(Kept(heard, T), w) ELSE Kept(heard, T)
        BY <1>5, <4>1, KeptAppend
      <4>. QED  BY <2>7, <3>4, <4>2 DEF HeardOf
    <3>6. /\ Len(Append(h, w)) = Len(h) + 1 /\ Append(h, w)[Len(h) + 1] = w
          /\ \A i \in 1 .. Len(h) : Append(h, w)[i] = h[i]
      <4>. HIDE DEF w, h
      <4>. QED  BY <1>5, <2>1, AppendProperties DEF h
    <3>7. HeardAt(c)'
      <4>1. HeardOf(c)' = Append(h, w) /\ Len(HeardOf(c)') = Len(h) + 1
        BY <3>5, <3>6
      <4>2. \A i \in 1 .. Len(h) + 1 : Append(h, w)[i] = Wire(transport, Push(c, i))
        <5>1. \A i \in 1 .. Len(h) : h[i] = Wire(transport, Push(c, i))
          BY <1>5 DEF HeardAt
        <5>2. \A i \in 1 .. Len(h) + 1 : i \in 1 .. Len(h) \/ i = Len(h) + 1
          BY <1>5
        <5>. QED  BY <3>3, <3>6, <5>1, <5>2
      <4>3. \A j \in 1 .. Len(e) : e[j][1] = Push(c, (Len(h) + 1) + j)
        <5>. SUFFICES ASSUME NEW j \in 1 .. Len(e) PROVE e[j][1] = Push(c, (Len(h) + 1) + j)
          OBVIOUS
        <5>1. j + 1 \in 1 .. Len(Events(c)) /\ Events(c)[j + 1] = e[j]
          BY <2>4, <3>2
        <5>2. Events(c)[j + 1][1] = Push(c, Len(h) + (j + 1))
          BY <1>5, <5>1 DEF HeardAt
        <5>3. Len(h) + (j + 1) = (Len(h) + 1) + j
          BY <1>5
        <5>. QED  BY <5>1, <5>2, <5>3
      <4>4. /\ Len(h) + (Len(e) + 1) <= pushed[c]
            /\ link[c] = "open" => Len(h) + (Len(e) + 1) = pushed[c]
        BY <1>5, <3>2 DEF HeardAt
      <4>5. /\ (Len(h) + 1) + Len(e) <= pushed[c]
            /\ link[c] = "open" => (Len(h) + 1) + Len(e) = pushed[c]
        <5>1. (Len(h) + 1) + Len(e) = Len(h) + (Len(e) + 1)
          BY <1>5, <2>4
        <5>. QED  BY <4>4, <5>1
      <4>. HIDE DEF h, w
      <4>. QED  BY <1>1, <2>5, <4>1, <4>2, <4>3, <4>5 DEF HeardAt
    <3>. QED  BY <1>3, <1>4, <1>6, <2>6, <3>5, <3>7 DEF Framed
  <2>8. CASE line.kind = "reply" /\ heard' = heard
    <3>1. Kept(w, Ends("event")) = <<>>
      BY <2>8, KeptWire
    <3>2. Events(c) = e
      BY <2>4, <3>1, ConcatEmptySeq
    <3>3. \A d \in Conns : HeardOf(d)' = HeardOf(d)
      BY <2>8 DEF HeardOf
    <3>4. HeardAt(c)'
      BY <1>1, <1>5, <2>5, <3>2, <3>3 DEF HeardAt
    <3>. QED  BY <1>3, <1>4, <1>6, <2>6, <3>3, <3>4 DEF Framed
  <2>. QED  BY <1>8, <2>7, <2>8, RouteLine
<1>. QED  BY <1>2, <1>7, <1>8

\* A socket that is dialed finds what was left, and nothing comes until it has
\* connected.
LEMMA NoHalfLineNext ==
  ASSUME IInv, OneLive, NoHalfLine, Next, "line" \notin over'
  PROVE  NoHalfLine'
<1>. SUFFICES ASSUME NEW d \in Conns, link'[d] = "dialing" PROVE buf' = <<>>
  BY DEF NoHalfLine
<1>1. CASE Dial(d)
  <2>1. over' = over \cup Left /\ buf' = buf
    BY <1>1 DEF Dial
  <2>. QED  BY <2>1 DEF Left
<1>2. CASE link[d] = "dialing"
  <2>1. buf = <<>> /\ \A c \in Conns : Live(c) => c = d
    BY <1>2 DEF NoHalfLine, OneLive, Live
  <2>2. ASSUME NEW c \in Conns, Data(c) PROVE FALSE
    <3>1. link[c] \in {"open", "ended", "gone"}
      BY <2>2 DEF Data
    <3>. QED  BY <1>2, <2>1, <3>1 DEF Live
  <2>3. buf' = buf
    <3>1. ASSUME NEW r \in Requests, NEW n, NEW about, Exec(r, n, about) PROVE buf' = buf
      BY <3>1 DEF Exec
    <3>2. ASSUME NEW c \in Conns, Dial(c) \/ Established(c) \/ Refused(c) \/ Callback(c) \/ Peer(c) PROVE buf' = buf
      BY <2>2, <3>2 DEF Dial, Established, Refused, Callback, SocketError, SocketClosed,
                  Peer, Serve, Publish, Finish, Break, client
    <3>3. ASSUME Application PROVE buf' = buf
      BY <3>1, <3>3 DEF Application, Close, Send, SendInProcess, LoadSnapshot
    <3>4. ASSUME NEW r \in Requests, Resume(r) PROVE buf' = buf
      BY <3>4 DEF Resume
    <3>. QED  BY <3>2, <3>3, <3>4 DEF Next
  <2>. QED  BY <2>1, <2>3
<1>. QED  BY <1>1, <1>2, OnlyDialDials

\* One step for each action.
LEMMA DeliveryNext ==
  ASSUME CarefulReconnect = TRUE, Delivery, Next, "line" \notin over'
  PROVE  Delivery'
<1>1. IInv' /\ OneLive' /\ NoHalfLine'
  BY NextInv, OneLiveNext, NoHalfLineNext DEF Delivery
<1>2. SUFFICES Framed' /\ \A d \in Conns : HeardAt(d)'
  BY <1>1 DEF Delivery
<1>3. /\ link \in [Conns -> Links] /\ toClient \in [Conns -> Seq(Pieces)] /\ socket \in {0} \cup Conns
      /\ pushed \in [Conns -> Nat] /\ buf \in Seq(Pieces)
  BY DEF Delivery, IInv, TypeOK
<1>4. ASSUME NEW c \in Conns, Dial(c) \/ Refused(c) \/ SocketError(c) \/ SocketClosed(c) \/ Finish(c)
      PROVE  Framed' /\ \A d \in Conns : HeardAt(d)'
  <2>1. /\ UNCHANGED <<transport, buf, heard, toClient, pushed>>
        /\ \E l \in {"dialing", "closed", "errored", "gone"} : link' = [link EXCEPT ![c] = l]
    BY <1>4 DEF Dial, Refused, SocketError, SocketClosed, Finish, chosen, client
  <2>2. \A d \in Conns : /\ link'[d] \in {"open", "ended"} => link[d] \in {"open", "ended"}
                         /\ link'[d] = "open" => link[d] = "open"
    BY <1>3, <2>1
  <2>. QED  BY <2>1, <2>2, SamePipes
<1>5. ASSUME UNCHANGED <<transport, buf, heard, toClient, pushed, link>>
      PROVE  Framed' /\ \A d \in Conns : HeardAt(d)'
  BY <1>5, SamePipes
<1>6. ASSUME NEW c \in Conns, Established(c) PROVE Framed' /\ \A d \in Conns : HeardAt(d)'
  <2>1. /\ link[c] = "dialing" /\ link' = [link EXCEPT ![c] = "open"]
        /\ UNCHANGED <<transport, buf, heard, toClient, pushed>>
    BY <1>6 DEF Established, chosen
  <2>2. buf = <<>> /\ toClient[c] = <<>> /\ pushed[c] = 0
    BY <2>1 DEF Delivery, OneLive, NoHalfLine
  <2>3. Pipe(c) = <<>> /\ Pipe(c)' = Pipe(c) /\ HeardOf(c)' = HeardOf(c)
    <3>1. <<>> \o <<>> = <<>>
      OBVIOUS
    <3>. QED  BY <2>1, <2>2, <3>1 DEF Pipe, HeardOf
  <2>4. Events(c)' = Events(c)
    BY <2>3 DEF Events
  <2>5. HeardAt(c)'
    <3>1. /\ \A i \in 1 .. Len(HeardOf(c)) : HeardOf(c)[i] = Wire(transport, Push(c, i))
          /\ \A j \in 1 .. Len(Events(c)) : Events(c)[j][1] = Push(c, Len(HeardOf(c)) + j)
          /\ Len(HeardOf(c)) + Len(Events(c)) <= 0
          /\ Len(HeardOf(c)) \in Nat /\ Len(Events(c)) \in Nat
      BY <2>2, HeardType DEF Delivery, HeardAt, IInv
    <3>2. Len(HeardOf(c)) + Len(Events(c)) = 0
      BY <3>1
    <3>. QED  BY <2>1, <2>2, <2>3, <2>4, <3>1, <3>2 DEF HeardAt
  <2>6. \A e : e = <<>> => EndsWhole(e)
    BY DEF EndsWhole
  <2>7. EndsWhole(Pipe(c))' /\ Framing(transport, Pipe(c))'
    <3>1. EndsWhole(Pipe(c)) /\ Framing(transport, Pipe(c))
      BY <2>3, <2>6 DEF Delivery, Framed
    <3>. QED  BY <2>1, <2>3, <3>1
  <2>8. \A d \in Conns \ {c} : toClient'[d] = toClient[d] /\ pushed'[d] = pushed[d] /\ link'[d] = link[d]
    BY <1>3, <2>1
  <2>. QED  BY <2>1, <2>5, <2>7, <2>8, OnePipe
<1>7. ASSUME Close PROVE Framed' /\ \A d \in Conns : HeardAt(d)'
  <2>1. /\ socket \in Conns /\ UNCHANGED <<transport, buf, heard, pushed>>
        /\ link' \in {link, [link EXCEPT ![socket] = "ended"], [link EXCEPT ![socket] = "gone"]}
        /\ \/ /\ toClient' = toClient
              /\ link' \in {link, [link EXCEPT ![socket] = "ended"]}
              /\ link[socket] = "open" => link'[socket] # "open"
              /\ link[socket] # "open" => link' = link
           \/ /\ toClient' = [toClient EXCEPT ![socket] = <<>>]
              /\ link[socket] # "open" => link' = link
              /\ link[socket] = "open" => link' = [link EXCEPT ![socket] = "gone"]
    BY <1>3, <1>7 DEF Close, chosen
  <2>2. link[socket] # "ended"
    BY <2>1 DEF Delivery, IInv, TypeOK, Conns
  <2>3. CASE toClient' = toClient
    <3>1. \A d \in Conns : /\ link'[d] \in {"open", "ended"} => link[d] \in {"open", "ended"}
                           /\ link'[d] = "open" => link[d] = "open"
      BY <1>3, <2>1
    <3>. QED  BY <2>1, <2>3, <3>1, SamePipes
  <2>4. CASE /\ toClient' = [toClient EXCEPT ![socket] = <<>>]
             /\ link[socket] # "open" => link' = link
             /\ link[socket] = "open" => link' = [link EXCEPT ![socket] = "gone"]
    <3>1. link'[socket] \notin {"open", "ended"} /\ \A d \in Conns \ {socket} : link'[d] = link[d]
      BY <1>3, <2>1, <2>2, <2>4
    <3>2. SubSeq(toClient[socket], 1, 0) = <<>> /\ 0 \in 0 .. Len(toClient[socket])
      BY <1>3, <2>1, SubSeqEmpty, LenProperties
    <3>3. toClient' = [toClient EXCEPT ![socket] = SubSeq(@, 1, 0)]
      BY <2>4, <3>2
    <3>. QED  BY <2>1, <3>1, <3>2, <3>3, PipeCut
  <2>. QED  BY <2>1, <2>3, <2>4
<1>8. ASSUME NEW c \in Conns, Break(c) PROVE Framed' /\ \A d \in Conns : HeardAt(d)'
  <2>1. PICK k \in 0 .. Len(toClient[c]) : toClient' = [toClient EXCEPT ![c] = SubSeq(@, 1, k)]
    BY <1>8 DEF Break
  <2>2. UNCHANGED <<transport, buf, heard, pushed>> /\ link' = [link EXCEPT ![c] = "gone"]
    BY <1>8 DEF Break, client, chosen
  <2>3. link'[c] \notin {"open", "ended"} /\ \A d \in Conns \ {c} : link'[d] = link[d]
    BY <1>3, <2>2
  <2>. QED  BY <2>1, <2>2, <2>3, PipeCut
<1>9. ASSUME NEW c \in Conns, Serve(c) PROVE Framed' /\ \A d \in Conns : HeardAt(d)'
  <2>. DEFINE cmd == Head(toServer[c])
              line == Reply(cmd[1], cmd[2])
  <2>1. /\ link[c] \in {"open", "ended"} /\ UNCHANGED <<transport, buf, heard, link, pushed>>
        /\ toClient' = [toClient EXCEPT ![c] = @ \o OnWire(line)] /\ toServer[c] # <<>>
    BY <1>9 DEF Serve, client, chosen
  <2>2. cmd \in (0 .. MaxRequests) \X Nat
    BY <2>1, HeadTailProperties DEF Delivery, IInv, TypeOK
  <2>3. line \in Lines /\ line.kind # "event"
    BY <2>2, TransportAssumption DEF Reply, Lines
  <2>. HIDE DEF line
  <2>4. /\ link' = link /\ \A d \in Conns \ {c} : pushed'[d] = pushed[d]
        /\ line.kind # "event" /\ pushed'[c] = pushed[c]
    BY <2>1, <2>3
  <2>. QED  BY <2>1, <2>3, <2>4, LineSent
<1>10. ASSUME NEW c \in Conns, Publish(c) PROVE Framed' /\ \A d \in Conns : HeardAt(d)'
  <2>. DEFINE line == Push(c, pushed[c] + 1)
  <2>1. /\ link[c] = "open" /\ UNCHANGED <<transport, buf, heard, link>>
        /\ pushed' = [pushed EXCEPT ![c] = @ + 1]
        /\ toClient' = [toClient EXCEPT ![c] = @ \o OnWire(line)]
    BY <1>10 DEF Publish, client, chosen
  <2>2. line \in Lines
    BY <1>3, TransportAssumption DEF Push, Lines, Conns
  <2>3. /\ link' = link /\ \A d \in Conns \ {c} : pushed'[d] = pushed[d]
        /\ line = Push(c, pushed[c] + 1) /\ pushed'[c] = pushed[c] + 1 /\ link[c] \in {"open", "ended"}
    BY <1>3, <2>1
  <2>. HIDE DEF line
  <2>. QED  BY <2>1, <2>2, <2>3, LineSent
<1>11. ASSUME NEW r \in Requests, NEW n, NEW about, Exec(r, n, about)
       PROVE  Framed' /\ \A d \in Conns : HeardAt(d)'
  BY <1>5, <1>11 DEF Exec, network, chosen
<1>12. ASSUME NEW r \in Requests, Resume(r) PROVE Framed' /\ \A d \in Conns : HeardAt(d)'
  BY <1>5, <1>12 DEF Resume, network, chosen
<1>13. ASSUME NEW r \in Requests, NEW n \in BatchSizes, Send(r, n)
       PROVE  Framed' /\ \A d \in Conns : HeardAt(d)'
  BY <1>5, <1>13 DEF Send, chosen
<1>14. ASSUME NEW c \in Conns, Peer(c) PROVE Framed' /\ \A d \in Conns : HeardAt(d)'
  BY <1>4, <1>8, <1>9, <1>10, <1>14 DEF Peer
<1>15. CASE Application
  BY <1>7, <1>11, <1>13, <1>15 DEF Application, SendInProcess, LoadSnapshot
<1>. QED
  BY <1>4, <1>6, <1>12, <1>14, <1>15, DataDelivery DEF Next, Callback

\* Nothing was pushed at first.
LEMMA DeliveryInit == Init => Delivery
<1>. SUFFICES ASSUME Init PROVE Delivery
  OBVIOUS
<1>1. IInv
  BY InitInv
<1>2. /\ buf = <<>> /\ heard = <<>> /\ socket = 0 /\ waiters = <<>>
      /\ \A c \in Conns : /\ link[c] = "none" /\ toClient[c] = <<>> /\ toServer[c] = <<>> /\ pushed[c] = 0
  BY DEF Init
<1>3. OneLive /\ NoHalfLine
  BY <1>2 DEF OneLive, Live, NoHalfLine
<1>4. Len(<<>>) = 0 /\ <<>> \o <<>> = <<>>
  OBVIOUS
<1>5. \A c \in Conns : Pipe(c) = <<>>
  BY <1>2, <1>4 DEF Pipe
<1>6. Framed
  BY <1>2, <1>4, <1>5 DEF Framed, HeadsOnly, Framing, EndsWhole
<1>7. \A c \in Conns : HeardOf(c) = <<>> /\ Events(c) = <<>>
  BY <1>2, <1>5, KeptEmpty DEF HeardOf, Events
<1>8. \A c \in Conns : HeardAt(c)
  BY <1>2, <1>4, <1>7 DEF HeardAt
<1>. QED  BY <1>1, <1>3, <1>6, <1>8 DEF Delivery

\* A step that changes nothing.
LEMMA DeliverySame == ASSUME Delivery, UNCHANGED vars PROVE Delivery'
BY NextInv
   DEF Delivery, vars, client, network, chosen, calls, connect, engine, OneLive, Live, NoHalfLine, Framed, Pipe,
       HeardAt, HeardOf, Events

\* Delivery is an invariant of a careful application, until it connects over
\* half a line.
LEMMA DeliveryInvariance ==
  ASSUME CarefulReconnect = TRUE
  PROVE  Spec => []("line" \notin over => Delivery)
<1>. DEFINE Inv == "line" \notin over => Delivery
<1>1. Init => Inv
  BY DeliveryInit
<1>2. Inv /\ [Next]_vars => Inv'
  <2>1. Inv /\ Next => Inv'
    <3>1. Next => over \subseteq over'
      BY OverGrows DEF Dial
    <3>. QED  BY <3>1, DeliveryNext
  <2>2. Inv /\ UNCHANGED vars => Inv'
    BY DeliverySame DEF vars, past
  <2>. QED  BY <2>1, <2>2
<1>. QED  BY <1>1, <1>2, PTL DEF Spec

\* The listeners hear the events of a connection whole, in order and without a
\* gap, and all of them when nothing is under way, for an application that
\* reconnects only when its sockets have closed, until one of them leaves half a
\* line to the next.
THEOREM EventsArriveInOrder == ASSUME CarefulReconnect = TRUE PROVE Spec => []EventsInOrder
<1>1. ("line" \notin over => Delivery) => EventsInOrder
  <2>. SUFFICES ASSUME Delivery, NEW c \in Conns
                PROVE  /\ \A i \in 1 .. Len(HeardOf(c)) : HeardOf(c)[i] = OnWire(Push(c, i))
                       /\ link[c] = "open" /\ toClient[c] = <<>> => Len(HeardOf(c)) = pushed[c]
    BY DEF EventsInOrder, HeardOf
  <2>1. HeardAt(c) /\ Len(HeardOf(c)) \in Nat /\ buf \in Seq(Pieces) /\ HeadsOnly(buf)
    BY HeardType DEF Delivery, Framed, IInv, TypeOK
  <2>2. \A i : OnWire(Push(c, i)) = Wire(transport, Push(c, i))
    BY DEF OnWire, Wire
  <2>3. ASSUME link[c] = "open", toClient[c] = <<>> PROVE Len(HeardOf(c)) = pushed[c]
    <3>1. Pipe(c) = buf
      BY <2>1, <2>3, ConcatEmptySeq DEF Pipe
    <3>2. Events(c) = <<>>
      BY <2>1, <3>1, KeptHeads DEF Events
    <3>3. Len(HeardOf(c)) + 0 = pushed[c]
      BY <2>1, <2>3, <3>2 DEF HeardAt
    <3>. QED  BY <2>1, <3>3
  <2>. QED  BY <2>1, <2>2, <2>3 DEF HeardAt
<1>. QED  BY <1>1, DeliveryInvariance, PTL

-----------------------------------------------------------------------------
(* What is left when every socket has closed.                              *)

Unconnected == \A c \in Conns : link[c] \in {"none", "dialing", "closed"}

\* As long as no connection ended in the middle of a line, every one that is over
\* ends with a line, and leaves nothing of it.
WholeUnlessTorn ==
  ~torn => /\ "line" \notin over
           /\ \A c \in Conns : link[c] \in {"gone", "errored"} => EndsWhole(Pipe(c))
           /\ Unconnected => buf = <<>>

\* Without a connection nobody waits but those nothing is going to answer.
OnlyOrphansWait == Unconnected => Waiting \subseteq orphans

Leftovers ==
  /\ IInv /\ OneLive /\ ("line" \notin over => Delivery)
  /\ WholeUnlessTorn /\ OnlyOrphansWait

\* After a whole line the rest ends as all did.
LEMMA EndsRest ==
  ASSUME NEW u \in Seq(Pieces), NEW v \in Seq(Pieces), EndsWhole(u \o v)
  PROVE  EndsWhole(v)
<1>1. /\ Len(u) \in Nat /\ Len(v) \in Nat /\ Len(u \o v) = Len(u) + Len(v)
      /\ \A i \in 1 .. Len(u) + Len(v) : (u \o v)[i] = IF i <= Len(u) THEN u[i] ELSE v[i - Len(u)]
  BY ConcatProperties, LenProperties
<1>2. \A i \in 1 .. Len(v) : Len(u) + i \in 1 .. Len(u) + Len(v) /\ (u \o v)[Len(u) + i] = v[i]
  BY <1>1
<1>. QED  BY <1>1, <1>2 DEF EndsWhole

\* Heads that end with a line are none, and over WebSocket there is never one.
LEMMA HeadsWhole ==
  ASSUME NEW b \in Seq(Pieces), HeadsOnly(b), EndsWhole(b)
  PROVE  b = <<>>
<1>1. Len(b) \in Nat /\ Len(b) <= 1 /\ (1 \in 1 .. Len(b) => b[1][2] = "head" /\ 1 < Len(b))
  BY LenProperties DEF HeadsOnly, EndsWhole
<1>2. Len(b) = 0
  BY <1>1
<1>. QED  BY <1>2, EmptySeq

LEMMA NoHeadOverWs ==
  ASSUME NEW b \in Seq(Pieces), NEW p \in Seq(Pieces), NEW t, HeadsOnly(b), Framing(t, b \o p), t # "tcp"
  PROVE  b = <<>>
<1>1. /\ Len(b) \in Nat /\ Len(p) \in Nat /\ Len(b \o p) = Len(b) + Len(p)
      /\ \A i \in 1 .. Len(b) + Len(p) : (b \o p)[i] = IF i <= Len(b) THEN b[i] ELSE p[i - Len(b)]
  BY ConcatProperties, LenProperties
<1>2. \A i \in 1 .. Len(b) : i \in 1 .. Len(b \o p) /\ (b \o p)[i] = b[i] /\ b[i][2] = "head"
  BY <1>1 DEF HeadsOnly
<1>3. \A i \in 1 .. Len(b) : FALSE
  BY <1>2 DEF Framing
<1>4. Len(b) = 0
  BY <1>1, <1>3
<1>. QED  BY <1>4, EmptySeq

\* Of a connection that broke, what is left ends with a line, or it is torn.
LEMMA BreakWhole ==
  ASSUME TypeOK, NEW c \in Conns, NEW k \in 0 .. Len(toClient[c]), ~Incomplete(c, k)
  PROVE  EndsWhole(buf \o SubSeq(toClient[c], 1, k))
<1>. DEFINE p == toClient[c]
            q == SubSeq(p, 1, k)
<1>1. buf \in Seq(Pieces) /\ p \in Seq(Pieces) /\ Len(p) \in Nat /\ k \in Nat
  BY LenProperties DEF TypeOK
<1>2. q \in Seq(Pieces) /\ Len(q) = k /\ \A i \in 1 .. k : q[i] = p[i]
  <2>1. k \in 0 .. Len(p)
    OBVIOUS
  <2>. HIDE DEF p
  <2>. QED  BY <1>1, <2>1, Cut
<1>3. /\ Len(buf) \in Nat /\ Len(buf \o q) = Len(buf) + k
      /\ \A i \in 1 .. Len(buf) + k : (buf \o q)[i] = IF i <= Len(buf) THEN buf[i] ELSE q[i - Len(buf)]
  <2>. HIDE DEF q
  <2>. QED  BY <1>1, <1>2, ConcatProperties, LenProperties
<1>4. CASE k = 0
  <2>1. buf = <<>>
    BY <1>4 DEF Incomplete
  <2>2. Len(buf) = 0
    BY <2>1
  <2>. HIDE DEF q
  <2>. QED  BY <1>3, <1>4, <2>2 DEF EndsWhole
<1>5. CASE k # 0
  <2>1. p[k][2] # "head"
    BY <1>5 DEF Incomplete
  <2>. HIDE DEF p, q
  <2>2. k \in 1 .. k /\ Len(buf) + k \in 1 .. Len(buf) + k /\ ~(Len(buf) + k <= Len(buf))
        /\ (Len(buf) + k) - Len(buf) = k
    BY <1>1, <1>3, <1>5
  <2>3. (buf \o q)[Len(buf) + k] = p[k]
    BY <1>2, <1>3, <2>2
  <2>4. \A i \in 1 .. Len(buf) + k : i = Len(buf) + k \/ i < Len(buf) + k
    BY <1>1, <1>3
  <2>. QED  BY <1>3, <2>1, <2>3, <2>4 DEF EndsWhole, q, p
<1>. QED  BY <1>4, <1>5

\* Only a break tears.
LEMMA OnlyBreakTears ==
  ASSUME Next
  PROVE  torn' = torn \/ \E c \in Conns : Break(c)
<1>1. ASSUME NEW r \in Requests, NEW n, NEW about, Exec(r, n, about) PROVE torn' = torn
  BY <1>1 DEF Exec, past
<1>2. ASSUME NEW c \in Conns, Dial(c) \/ Established(c) \/ Refused(c) \/ Callback(c) \/ Peer(c), ~Break(c)
      PROVE  torn' = torn
  BY <1>2 DEF Dial, Established, Refused, Callback, Data, SocketError, SocketClosed,
              Peer, Serve, Publish, Finish, past
<1>3. ASSUME Application PROVE torn' = torn
  BY <1>1, <1>3 DEF Application, Close, Send, SendInProcess, LoadSnapshot, past
<1>4. ASSUME NEW r \in Requests, Resume(r) PROVE torn' = torn
  BY <1>4 DEF Resume, past
<1>. QED  BY <1>2, <1>3, <1>4 DEF Next

\* One step for each action.
LEMMA WholeNext ==
  ASSUME CarefulReconnect = TRUE, Leftovers, Next
  PROVE  WholeUnlessTorn' /\ ("line" \notin over => Delivery)'
<1>. DEFINE Ending == \A d \in Conns : link[d] \in {"gone", "errored"} => EndsWhole(Pipe(d))
            Empty  == Unconnected => buf = <<>>
<1>0. ~torn' => ~torn
  BY OnlyBreakTears DEF Break
<1>1. ("line" \notin over => Delivery)'
  <2>1. over \subseteq over'
    BY OverGrows DEF Dial
  <2>. QED  BY <2>1, DeliveryNext DEF Leftovers
<1>. SUFFICES ASSUME ~torn' PROVE "line" \notin over' /\ Ending' /\ Empty'
  BY <1>1 DEF WholeUnlessTorn
<1>2. /\ "line" \notin over /\ Delivery /\ Ending /\ Empty
      /\ OneLive /\ NoHalfLine /\ Framed /\ TypeOK /\ HeadsOnly(buf)
  BY <1>0 DEF Leftovers, WholeUnlessTorn, Delivery, Framed, IInv
<1>3. /\ link \in [Conns -> Links] /\ toClient \in [Conns -> Seq(Pieces)] /\ socket \in {0} \cup Conns
      /\ buf \in Seq(Pieces) /\ (socket # 0 => link[socket] \notin {"none", "dialing", "ended"})
  BY <1>2 DEF TypeOK
<1>4. \A c, d \in Conns : Live(c) /\ Live(d) => c = d
  BY <1>2 DEF OneLive
<1>5. "line" \notin over'
  <2>1. ASSUME NEW c \in Conns, Dial(c) PROVE "line" \notin over'
    <3>1. Unconnected /\ over' = over \cup Left
      BY <2>1 DEF Dial, AllClosed, Unconnected
    <3>2. buf = <<>>
      BY <1>2, <3>1
    <3>. QED  BY <1>2, <3>1, <3>2 DEF Left
  <2>. QED  BY <1>2, <2>1, OverGrows
<1>6. ASSUME UNCHANGED <<buf, toClient>>,
             \A d \in Conns : link'[d] = link[d] \/ link'[d] \in {"dialing", "open", "ended"} \/ link[d] = "dialing",
             \A d \in Conns : link'[d] \in {"none", "dialing", "closed"} => link[d] \in {"none", "dialing", "closed"},
             \A d \in Conns : link'[d] \in {"gone", "errored"} => link[d] \in {"gone", "errored"}
      PROVE  Ending' /\ Empty'
  BY <1>2, <1>6 DEF Pipe, Unconnected
<1>7. ASSUME NEW c \in Conns, Dial(c) PROVE Ending' /\ Empty'
  <2>1. link' = [link EXCEPT ![c] = "dialing"] /\ link[c] = "none" /\ UNCHANGED <<buf, toClient>>
    BY <1>7 DEF Dial
  <2>. QED  BY <1>3, <1>6, <2>1
<1>8. ASSUME NEW c \in Conns, Established(c) PROVE Ending' /\ Empty'
  <2>1. link' = [link EXCEPT ![c] = "open"] /\ link[c] = "dialing" /\ UNCHANGED <<buf, toClient>>
    BY <1>8 DEF Established
  <2>. QED  BY <1>3, <1>6, <2>1
<1>9. ASSUME NEW c \in Conns, Refused(c) PROVE Ending' /\ Empty'
  <2>1. link' = [link EXCEPT ![c] = "closed"] /\ link[c] = "dialing" /\ UNCHANGED <<buf, toClient>>
    BY <1>9 DEF Refused
  <2>. QED  BY <1>3, <1>6, <2>1
<1>10. ASSUME Close PROVE Ending' /\ Empty'
  <2>1. socket \in Conns /\ buf' = buf
    BY <1>3, <1>10 DEF Close
  <2>2. CASE transport = "tcp"
    <3>1. toClient' = toClient /\ link' \in {link, [link EXCEPT ![socket] = "ended"]}
          /\ (link' # link => link[socket] = "open")
      BY <1>10, <2>2 DEF Close
    <3>. QED  BY <1>3, <1>6, <2>1, <3>1
  <2>3. CASE transport # "tcp"
    <3>1. toClient' = [toClient EXCEPT ![socket] = <<>>]
          /\ link' = IF link[socket] = "open" THEN [link EXCEPT ![socket] = "gone"] ELSE link
      BY <1>10, <2>3 DEF Close
    <3>2. buf = <<>>
      <4>1. Framing(transport, buf \o toClient[socket]) /\ toClient[socket] \in Seq(Pieces)
        BY <1>2, <1>3, <2>1 DEF Framed, Pipe
      <4>. QED  BY <1>2, <1>3, <2>3, <4>1, NoHeadOverWs
    <3>3. ASSUME NEW d \in Conns, link'[d] \in {"gone", "errored"} PROVE EndsWhole(Pipe(d)')
      <4>1. CASE d = socket
        <5>1. Pipe(d)' = <<>> \o <<>>
          BY <1>3, <2>1, <3>1, <3>2, <4>1 DEF Pipe
        <5>2. \A e : e = <<>> \o <<>> => EndsWhole(e)
          BY DEF EndsWhole
        <5>. QED  BY <5>1, <5>2
      <4>2. CASE d # socket
        <5>1. Pipe(d)' = Pipe(d) /\ link'[d] = link[d]
          BY <1>3, <2>1, <3>1, <4>2 DEF Pipe
        <5>. QED  BY <1>2, <3>3, <5>1
      <4>. QED  BY <4>1, <4>2
    <3>. QED  BY <2>1, <3>2, <3>3
  <2>. QED  BY <2>2, <2>3
<1>11. ASSUME UNCHANGED <<buf, toClient, link>> PROVE Ending' /\ Empty'
  BY <1>3, <1>6, <1>11
<1>12. ASSUME NEW c \in Conns, Data(c) PROVE Ending' /\ Empty'
  <2>1. link' = link /\ link[c] \in {"open", "ended", "gone"}
    BY <1>12 DEF Data
  <2>2. ~Unconnected'
    BY <2>1 DEF Unconnected
  <2>3. ASSUME NEW d \in Conns, link'[d] \in {"gone", "errored"} PROVE EndsWhole(Pipe(d)')
    <3>1. d = c /\ EndsWhole(Pipe(c))
      BY <1>2, <1>4, <2>1, <2>3 DEF Live
    <3>2. CASE Pipe(c)' = Pipe(c)
      BY <3>1, <3>2
    <3>3. CASE \E line \in Lines : Pipe(c)' \in Seq(Pieces) /\ Pipe(c) = Wire(transport, line) \o Pipe(c)'
      <4>1. PICK line \in Lines : Pipe(c)' \in Seq(Pieces) /\ Pipe(c) = Wire(transport, line) \o Pipe(c)'
        BY <3>3
      <4>2. Wire(transport, line) \in Seq(Pieces)
        BY WireIs
      <4>. QED  BY <3>1, <4>1, <4>2, EndsRest
    <3>4. \/ Pipe(c)' = Pipe(c)
          \/ \E line \in Lines : Pipe(c)' \in Seq(Pieces) /\ Pipe(c) = Wire(transport, line) \o Pipe(c)'
      BY <1>2, <1>12, DataLine
    <3>. QED  BY <3>2, <3>3, <3>4
  <2>. QED  BY <2>2, <2>3
<1>13. ASSUME NEW c \in Conns, SocketError(c) \/ SocketClosed(c) PROVE Ending' /\ Empty'
  <2>1. /\ link[c] \in {"gone", "errored"} /\ toClient[c] = <<>> /\ UNCHANGED <<buf, toClient>>
        /\ link' \in {[link EXCEPT ![c] = "errored"], [link EXCEPT ![c] = "closed"]}
    BY <1>13 DEF SocketError, SocketClosed
  <2>2. buf = <<>>
    <3>1. Pipe(c) = buf /\ EndsWhole(Pipe(c))
      BY <1>2, <1>3, <2>1, ConcatEmptySeq DEF Pipe
    <3>. QED  BY <1>2, <1>3, <3>1, HeadsWhole
  <2>3. ASSUME NEW d \in Conns, link'[d] \in {"gone", "errored"} PROVE EndsWhole(Pipe(d)')
    <3>1. link[d] \in {"gone", "errored"} /\ Pipe(d)' = Pipe(d)
      BY <1>3, <2>1, <2>3 DEF Pipe
    <3>. QED  BY <1>2, <3>1
  <2>. QED  BY <2>1, <2>2, <2>3
<1>14. ASSUME NEW c \in Conns, Serve(c) \/ Publish(c) PROVE Ending' /\ Empty'
  <2>1. link' = link /\ link[c] \in {"open", "ended"}
    BY <1>14 DEF Serve, Publish
  <2>2. \A d \in Conns : link'[d] \notin {"gone", "errored"}
    BY <1>4, <2>1 DEF Live
  <2>. QED  BY <2>1, <2>2 DEF Unconnected
<1>15. ASSUME NEW c \in Conns, Finish(c) PROVE Ending' /\ Empty'
  <2>1. link' = [link EXCEPT ![c] = "gone"] /\ link[c] = "ended" /\ UNCHANGED <<buf, toClient>>
    BY <1>15 DEF Finish, client
  <2>2. EndsWhole(Pipe(c)) /\ \A d \in Conns : Pipe(d)' = Pipe(d)
    BY <1>2, <2>1 DEF Framed, Pipe
  <2>. QED  BY <1>2, <1>3, <2>1, <2>2 DEF Unconnected
<1>16. ASSUME NEW c \in Conns, Break(c) PROVE Ending' /\ Empty'
  <2>1. PICK k \in 0 .. Len(toClient[c]) :
          toClient' = [toClient EXCEPT ![c] = SubSeq(@, 1, k)] /\ torn' = (torn \/ Incomplete(c, k))
    BY <1>16 DEF Break
  <2>2. link' = [link EXCEPT ![c] = "gone"] /\ link[c] \in {"open", "ended"} /\ buf' = buf
    BY <1>16 DEF Break, client
  <2>3. EndsWhole(Pipe(c)')
    <3>1. ~Incomplete(c, k)
      BY <2>1
    <3>2. Pipe(c)' = buf \o SubSeq(toClient[c], 1, k)
      BY <1>3, <2>1, <2>2 DEF Pipe
    <3>. QED  BY <1>2, <3>1, <3>2, BreakWhole
  <2>4. \A d \in Conns : d # c => link'[d] \notin {"gone", "errored"}
    BY <1>3, <1>4, <2>2 DEF Live
  <2>. QED  BY <1>3, <2>2, <2>3, <2>4 DEF Unconnected
<1>17. ASSUME NEW r \in Requests, NEW n, NEW about, Exec(r, n, about) PROVE Ending' /\ Empty'
  BY <1>11, <1>17 DEF Exec, network
<1>18. ASSUME NEW r \in Requests, Resume(r) PROVE Ending' /\ Empty'
  BY <1>11, <1>18 DEF Resume, network
<1>19. ASSUME NEW r \in Requests, NEW n \in BatchSizes, Send(r, n) PROVE Ending' /\ Empty'
  BY <1>11, <1>19 DEF Send
<1>. HIDE DEF Ending, Empty
<1>20. ASSUME Application PROVE Ending' /\ Empty'
  <2>1. ASSUME NEW r \in Requests, LoadSnapshot(r) PROVE Ending' /\ Empty'
    BY <1>17, <2>1 DEF LoadSnapshot
  <2>2. ASSUME NEW r \in Requests, NEW n \in BatchSizes, SendInProcess(r, n) PROVE Ending' /\ Empty'
    BY <1>17, <2>2 DEF SendInProcess
  <2>. QED  BY <1>10, <1>19, <1>20, <2>1, <2>2 DEF Application
<1>21. ASSUME NEW c \in Conns, Callback(c) \/ Peer(c) PROVE Ending' /\ Empty'
  BY <1>12, <1>13, <1>14, <1>15, <1>16, <1>21 DEF Callback, Peer
<1>. QED  BY <1>5, <1>7, <1>8, <1>9, <1>18, <1>20, <1>21 DEF Next

\* And again, for those who wait.
LEMMA OrphansNext ==
  ASSUME CarefulReconnect = TRUE, Leftovers, Next
  PROVE  OnlyOrphansWait'
<1>1. /\ IInv /\ TypeOK /\ OneLive /\ OnlyOrphansWait /\ link \in [Conns -> Links]
      /\ waiters \in Seq(Requests) /\ socket \in {0} \cup Conns
      /\ (socket # 0 => link[socket] \notin {"none", "dialing", "ended"})
  BY DEF Leftovers, IInv, TypeOK
<1>2. ASSUME UNCHANGED <<waiters, orphans>>, Unconnected' => Unconnected PROVE OnlyOrphansWait'
  BY <1>1, <1>2 DEF OnlyOrphansWait, Waiting
<1>3. ASSUME waiters' = <<>> PROVE OnlyOrphansWait'
  <2>1. Len(<<>>) = 0
    OBVIOUS
  <2>. QED  BY <1>3, <2>1 DEF OnlyOrphansWait, Waiting
<1>4. ASSUME ~Unconnected' PROVE OnlyOrphansWait'
  BY <1>4 DEF OnlyOrphansWait
<1>5. ASSUME NEW c \in Conns, Dial(c) PROVE OnlyOrphansWait'
  <2>1. Unconnected /\ UNCHANGED <<waiters, orphans>>
    BY <1>5 DEF Dial, AllClosed, Unconnected, calls
  <2>. QED  BY <1>2, <2>1
<1>6. ASSUME NEW c \in Conns, Established(c) PROVE OnlyOrphansWait'
  <2>1. link' = [link EXCEPT ![c] = "open"]
    BY <1>6 DEF Established
  <2>2. link'[c] = "open"
    BY <1>1, <2>1
  <2>. QED  BY <1>4, <2>2 DEF Unconnected
<1>7. ASSUME NEW c \in Conns, Refused(c) PROVE OnlyOrphansWait'
  <2>1. link[c] = "dialing" /\ orphans' = orphans /\ (waiters' = waiters \/ waiters' = <<>>)
    BY <1>7 DEF Refused, FailAll
  <2>2. Unconnected
    BY <1>1, <2>1 DEF OneLive, Live, Unconnected
  <2>. QED  BY <1>2, <1>3, <2>1, <2>2
<1>8. ASSUME Close PROVE OnlyOrphansWait'
  <2>1. socket \in Conns /\ UNCHANGED <<waiters, orphans>>
        /\ link' \in {link, [link EXCEPT ![socket] = "ended"], [link EXCEPT ![socket] = "gone"]}
    BY <1>1, <1>8 DEF Close, calls
  <2>2. Unconnected' => link' = link
    BY <1>1, <2>1 DEF Unconnected
  <2>. QED  BY <1>2, <2>1, <2>2 DEF Unconnected
<1>9. ASSUME NEW r \in Requests, NEW n \in BatchSizes, Send(r, n) PROVE OnlyOrphansWait'
  <2>1. CASE socket = 0
    <3>1. UNCHANGED <<waiters, orphans, link>>
      BY <1>9, <2>1 DEF Send
    <3>. QED  BY <1>2, <3>1 DEF Unconnected
  <2>2. CASE socket # 0
    <3>1. /\ link' = link /\ waiters' = waiters \o Waiters(r, n) /\ socket \in Conns /\ n \in Nat
          /\ link[socket] = "closed" => orphans' = orphans \cup {r}
      BY <1>1, <1>9, <2>2, TransportAssumption DEF Send, Write
    <3>2. ASSUME Unconnected' PROVE Waiting' \subseteq orphans'
      <4>1. Unconnected /\ orphans' = orphans \cup {r} /\ Waiting \subseteq orphans
        BY <1>1, <2>2, <3>1, <3>2 DEF Unconnected, OnlyOrphansWait
      <4>. DEFINE b == Waiters(r, n)
      <4>2. b \in Seq(Requests) /\ Len(b) = n /\ \A i \in 1 .. n : b[i] = r
        BY <3>1 DEF Waiters
      <4>. HIDE DEF b
      <4>3. /\ Len(waiters) \in Nat /\ Len(waiters \o b) = Len(waiters) + n
            /\ \A i \in 1 .. Len(waiters) + n :
                 (waiters \o b)[i] = IF i <= Len(waiters) THEN waiters[i] ELSE b[i - Len(waiters)]
        <5>1. Len(waiters \o b) = Len(waiters) + Len(b)
              /\ \A i \in 1 .. Len(waiters) + Len(b) :
                   (waiters \o b)[i] = IF i <= Len(waiters) THEN waiters[i] ELSE b[i - Len(waiters)]
          BY <1>1, <4>2, ConcatProperties
        <5>. QED  BY <1>1, <4>2, <5>1, LenProperties
      <4>4. \A i \in 1 .. Len(waiters) + n : (waiters \o b)[i] \in Waiting \cup {r}
        <5>. SUFFICES ASSUME NEW i \in 1 .. Len(waiters) + n PROVE (waiters \o b)[i] \in Waiting \cup {r}
          OBVIOUS
        <5>1. CASE i <= Len(waiters)
          <6>1. i \in 1 .. Len(waiters)
            BY <4>3, <5>1
          <6>. QED  BY <4>3, <5>1, <6>1 DEF Waiting
        <5>2. CASE ~(i <= Len(waiters))
          <6>1. i - Len(waiters) \in 1 .. n
            BY <3>1, <4>3, <5>2
          <6>. QED  BY <4>2, <4>3, <5>2, <6>1
        <5>. QED  BY <5>1, <5>2
      <4>5. waiters' = waiters \o b
        BY <3>1 DEF b
      <4>. QED  BY <4>1, <4>3, <4>4, <4>5 DEF Waiting
    <3>. QED  BY <3>2 DEF OnlyOrphansWait
  <2>. QED  BY <2>1, <2>2
<1>10. ASSUME NEW c \in Conns, Data(c) PROVE OnlyOrphansWait'
  BY <1>4, <1>10 DEF Data, Unconnected
<1>11. ASSUME NEW c \in Conns, SocketError(c) \/ SocketClosed(c) PROVE OnlyOrphansWait'
  BY <1>3, <1>11 DEF SocketError, SocketClosed, FailAll
<1>12. ASSUME NEW c \in Conns, Peer(c) PROVE OnlyOrphansWait'
  <2>1. link[c] \in {"open", "ended"} /\ link' \in {link, [link EXCEPT ![c] = "gone"]}
    BY <1>12 DEF Peer, Serve, Publish, Finish, Break
  <2>2. ~Unconnected'
    BY <1>1, <2>1 DEF Unconnected
  <2>. QED  BY <1>4, <2>2
<1>13. ASSUME UNCHANGED <<waiters, orphans, link>> PROVE OnlyOrphansWait'
  BY <1>2, <1>13 DEF Unconnected
<1>14. ASSUME NEW r \in Requests, NEW n, NEW about, Exec(r, n, about) PROVE OnlyOrphansWait'
  BY <1>13, <1>14 DEF Exec, network
<1>15. ASSUME NEW r \in Requests, Resume(r) PROVE OnlyOrphansWait'
  BY <1>13, <1>15 DEF Resume, network
<1>16. CASE Application
  BY <1>8, <1>9, <1>14, <1>16 DEF Application, SendInProcess, LoadSnapshot
<1>. QED  BY <1>5, <1>6, <1>7, <1>10, <1>11, <1>12, <1>15, <1>16 DEF Next, Callback

\* An application that reconnects only when its sockets have closed leaves half a
\* line to the next connection only if one ended in the middle of a line, and
\* waiters only of empty batches and of requests made on a closed socket.
THEOREM LeftoversHaveNames == ASSUME CarefulReconnect = TRUE PROVE Spec => []LeftoversAreNamed
<1>1. Init => Leftovers
  <2>. SUFFICES ASSUME Init PROVE Leftovers
    OBVIOUS
  <2>1. Delivery /\ IInv /\ OneLive
    BY DeliveryInit DEF Delivery
  <2>2. buf = <<>> /\ over = {} /\ Waiting = {} /\ \A c \in Conns : link[c] = "none"
    <3>1. Len(<<>>) = 0
      OBVIOUS
    <3>. QED  BY <3>1 DEF Init, Waiting
  <2>. QED  BY <2>1, <2>2 DEF Leftovers, WholeUnlessTorn, OnlyOrphansWait
<1>2. Leftovers /\ [Next]_vars => Leftovers'
  <2>1. Leftovers /\ Next => Leftovers'
    BY NextInv, OneLiveNext, WholeNext, OrphansNext DEF Leftovers
  <2>2. Leftovers /\ UNCHANGED vars => Leftovers'
    <3>. SUFFICES ASSUME Leftovers, UNCHANGED vars PROVE Leftovers'
      OBVIOUS
    <3>1. IInv' /\ UNCHANGED <<link, socket, buf, waiters, orphans, toClient, toServer, pushed, over, torn>>
      BY NextInv DEF Leftovers, vars, client, network, past, calls
    <3>2. OneLive' /\ OnlyOrphansWait'
      BY <3>1 DEF Leftovers, OneLive, Live, OnlyOrphansWait, Unconnected, Waiting
    <3>3. WholeUnlessTorn'
      BY <3>1 DEF Leftovers, WholeUnlessTorn, Unconnected, Pipe
    <3>. QED  BY <3>1, <3>2, <3>3, DeliverySame DEF Leftovers
  <2>. QED  BY <2>1, <2>2
<1>3. Leftovers => LeftoversAreNamed
  BY DEF Leftovers, WholeUnlessTorn, OnlyOrphansWait, LeftoversAreNamed, AllClosed, Unconnected
<1>. QED  BY <1>1, <1>2, <1>3, PTL DEF Spec

-----------------------------------------------------------------------------
(* Answers.                                                                *)

Replies(c) == Kept(Pipe(c), Ends("reply"))

\* The commands that lines answer.
Commands(p) == [j \in 1 .. Len(p) |-> <<p[j][1].of, p[j][1].num>>]

\* What is under way on c, in the order in which the client will see it: the
\* answers that are given, and those to the commands the server has not seen.
Due(c) == Commands(Replies(c)) \o toServer[c]

\* The answers q are for the first of the waiters w, whose requests collected o.
InTurn(q, w, o) ==
  /\ Len(q) <= Len(w)
  /\ \A j \in 1 .. Len(q) :
       q[j] = <<w[j], IF j > 1 /\ w[j - 1] = w[j] THEN q[j - 1][2] + 1 ELSE Len(o[w[j]]) + 1>>

Cmds == Nat \X Nat

\* Sequences of commands, one after the other.
LEMMA CmdsJoin == \A u, v, w \in Seq(Cmds) : v \o w \in Seq(Cmds) /\ (u \o v) \o w = u \o (v \o w)
BY ConcatAssociative, ConcatProperties

\* Fewer answers, or more waiters behind.
LEMMA TurnPrefix ==
  ASSUME NEW q \in Seq(Cmds), NEW rest \in Seq(Cmds), NEW w \in Seq(Requests), NEW o,
         InTurn(q \o rest, w, o)
  PROVE  InTurn(q, w, o)
<1>1. /\ Len(q) \in Nat /\ Len(rest) \in Nat /\ Len(q \o rest) = Len(q) + Len(rest) /\ Len(w) \in Nat
      /\ \A j \in 1 .. Len(q) + Len(rest) : (q \o rest)[j] = IF j <= Len(q) THEN q[j] ELSE rest[j - Len(q)]
  BY ConcatProperties, LenProperties
<1>. DEFINE p == q \o rest
<1>2. /\ Len(q) <= Len(p) /\ \A j \in 1 .. Len(q) : p[j] = q[j] /\ j \in 1 .. Len(p)
  BY <1>1
<1>3. Len(p) \in Nat /\ InTurn(p, w, o)
  BY <1>1
<1>. HIDE DEF p
<1>4. \A j \in 1 .. Len(q) : j > 1 => p[j - 1] = q[j - 1]
  BY <1>1, <1>2
<1>. QED  BY <1>1, <1>2, <1>3, <1>4 DEF InTurn

\* New waiters behind those that are there.
LEMMA TurnLonger ==
  ASSUME NEW q \in Seq(Cmds), NEW w \in Seq(Requests), NEW more \in Seq(Requests), NEW o,
         InTurn(q, w, o)
  PROVE  InTurn(q, w \o more, o)
<1>. DEFINE v == w \o more
<1>1. /\ Len(w) \in Nat /\ Len(v) = Len(w) + Len(more) /\ Len(more) \in Nat /\ Len(q) \in Nat
      /\ \A j \in 1 .. Len(w) + Len(more) : v[j] = IF j <= Len(w) THEN w[j] ELSE more[j - Len(w)]
  BY ConcatProperties, LenProperties
<1>. HIDE DEF v
<1>2. \A j \in 1 .. Len(w) : v[j] = w[j]
  BY <1>1
<1>3. \A j \in 1 .. Len(q) : v[j] = w[j] /\ (j > 1 => v[j - 1] = w[j - 1])
  BY <1>1, <1>2 DEF InTurn
<1>4. InTurn(q, v, o)
  BY <1>1, <1>3 DEF InTurn
<1>. QED  BY <1>4 DEF v

\* The n commands a and the n waiters b of request r.
Joining(a, b, n, r) ==
  /\ a \in Seq(Cmds) /\ b \in Seq(Requests) /\ Len(a) = n /\ Len(b) = n
  /\ \A i \in 1 .. n : a[i] = <<r, i>> /\ b[i] = r

Absent(r, w) == \A i \in 1 .. Len(w) : w[i] # r

\* A request joins with its n commands and its n waiters.
LEMMA TurnWritten ==
  ASSUME NEW q \in Seq(Cmds), NEW w \in Seq(Requests), NEW o, InTurn(q, w, o), Len(q) = Len(w),
         NEW n \in Nat, NEW r \in Requests, Absent(r, w), Len(o[r]) = 0, NEW a, NEW b, Joining(a, b, n, r)
  PROVE  InTurn(q \o a, w \o b, o) /\ Len(q \o a) = Len(w \o b)
<1>. DEFINE p == q \o a
            v == w \o b
            m == Len(q)
<1>1. /\ a \in Seq(Cmds) /\ b \in Seq(Requests) /\ Len(a) = n /\ Len(b) = n
      /\ \A i \in 1 .. n : a[i] = <<r, i>> /\ b[i] = r
      /\ \A i \in 1 .. Len(w) : w[i] # r
  BY DEF Joining, Absent
<1>2. m \in Nat /\ Len(w) = m
  BY LenProperties
<1>3. /\ Len(p) = m + n /\ \A j \in 1 .. m + n : p[j] = IF j <= m THEN q[j] ELSE a[j - m]
      /\ Len(v) = m + n /\ \A j \in 1 .. m + n : v[j] = IF j <= m THEN w[j] ELSE b[j - m]
  <2>1. /\ Len(p) = Len(q) + Len(a)
        /\ \A j \in 1 .. Len(q) + Len(a) : p[j] = IF j <= Len(q) THEN q[j] ELSE a[j - Len(q)]
    <3>1. q \in Seq(Cmds) /\ a \in Seq(Cmds)
      BY <1>1
    <3>. QED  BY ONLY <3>1, ConcatProperties
  <2>2. /\ Len(v) = Len(w) + Len(b)
        /\ \A j \in 1 .. Len(w) + Len(b) : v[j] = IF j <= Len(w) THEN w[j] ELSE b[j - Len(w)]
    <3>1. w \in Seq(Requests) /\ b \in Seq(Requests)
      BY <1>1
    <3>. QED  BY ONLY <3>1, ConcatProperties
  <2>. QED  BY <1>1, <1>2, <2>1, <2>2
<1>. HIDE DEF p, v, m
<1>4. \A j \in 1 .. m : /\ p[j] = q[j] /\ v[j] = w[j]
                        /\ j > 1 => p[j - 1] = q[j - 1] /\ v[j - 1] = w[j - 1]
  BY <1>2, <1>3
<1>5. \A i \in 1 .. n : /\ p[m + i] = <<r, i>> /\ v[m + i] = r
                        /\ i > 1 => p[(m + i) - 1] = <<r, i - 1>> /\ v[(m + i) - 1] = r
                        /\ i = 1 => (m + i) - 1 = m
  <2>1. \A i \in 1 .. n : p[m + i] = <<r, i>> /\ v[m + i] = r
    <3>1. \A i \in 1 .. n : m + i \in 1 .. m + n /\ ~(m + i <= m) /\ (m + i) - m = i
      BY <1>2
    <3>2. \A i \in 1 .. n : p[m + i] = a[i] /\ v[m + i] = b[i]
      BY <1>3, <3>1
    <3>. QED  BY <1>1, <3>2
  <2>2. \A i \in 1 .. n : i > 1 => i - 1 \in 1 .. n /\ m + (i - 1) = (m + i) - 1
    BY <1>2
  <2>3. \A i \in 1 .. n : i = 1 => (m + i) - 1 = m
    BY <1>2
  <2>. QED  BY <2>1, <2>2, <2>3
<1>6. ASSUME NEW j \in 1 .. m + n
      PROVE  p[j] = <<v[j], IF j > 1 /\ v[j - 1] = v[j] THEN p[j - 1][2] + 1 ELSE Len(o[v[j]]) + 1>>
  <2>1. CASE j \in 1 .. m
    <3>1. q[j] = <<w[j], IF j > 1 /\ w[j - 1] = w[j] THEN q[j - 1][2] + 1 ELSE Len(o[w[j]]) + 1>>
      BY <2>1 DEF InTurn, m
    <3>2. p[j] = q[j] /\ v[j] = w[j] /\ (j > 1 => p[j - 1] = q[j - 1] /\ v[j - 1] = w[j - 1])
      BY <1>4, <2>1
    <3>3. CASE j > 1
      BY <3>1, <3>2, <3>3
    <3>4. CASE ~(j > 1)
      BY <3>1, <3>2, <3>4
    <3>. QED  BY <3>3, <3>4
  <2>2. CASE j > m
    <3>1. PICK i \in 1 .. n : j = m + i
      <4>1. j - m \in 1 .. n /\ j = m + (j - m)
        BY <1>2, <2>2
      <4>. QED  BY <4>1
    <3>2. CASE i = 1
      <4>1. p[j] = <<r, 1>> /\ v[j] = r /\ j - 1 = m
        BY <1>5, <3>1, <3>2
      <4>2. j > 1 => v[j - 1] # r
        <5>1. j > 1 => m \in 1 .. m
          BY <1>2, <4>1
        <5>. QED  BY <1>1, <1>2, <1>4, <4>1, <5>1
      <4>. QED  BY <4>1, <4>2
    <3>3. CASE i > 1
      <4>1. /\ p[j] = <<r, i>> /\ v[j] = r /\ p[j - 1] = <<r, i - 1>> /\ v[j - 1] = r
        BY <1>5, <3>1, <3>3
      <4>2. j > 1 /\ (i - 1) + 1 = i
        BY <1>2, <3>1, <3>3
      <4>. QED  BY <4>1, <4>2
    <3>. QED  BY <3>2, <3>3
  <2>. QED  BY <1>1, <1>2, <2>1, <2>2
<1>7. InTurn(p, v, o) /\ Len(p) = Len(v)
  BY <1>2, <1>3, <1>6 DEF InTurn
<1>. QED  BY <1>7 DEF p, v

\* The first of the answers goes to the first of the waiters.
LEMMA TurnTaken ==
  ASSUME NEW q \in Seq(Cmds), NEW x \in Cmds, NEW w \in Seq(Requests), w # <<>>, NEW o, NEW o2,
         InTurn(<<x>> \o q, w, o), \A i, j \in 1 .. Len(w) : i <= j => w[i] <= w[j],
         \A s \in Requests : Len(o[s]) \in Nat,
         \A s \in Requests : Len(o2[s]) = IF s = w[1] THEN Len(o[s]) + 1 ELSE Len(o[s])
  PROVE  /\ x = <<w[1], Len(o[w[1]]) + 1>>
         /\ InTurn(q, Tail(w), o2) /\ (Len(<<x>> \o q) = Len(w) => Len(q) = Len(Tail(w)))
<1>. DEFINE p == <<x>> \o q
            v == Tail(w)
<1>1. /\ Len(q) \in Nat /\ Len(w) \in Nat \ {0} /\ \A i \in 1 .. Len(w) : w[i] \in Requests
      /\ Len(v) = Len(w) - 1 /\ \A i \in 1 .. Len(v) : v[i] = w[i + 1]
  BY HeadTailProperties, LenProperties, EmptySeq, ElementOfSeq
<1>2. /\ Len(p) = Len(q) + 1 /\ p[1] = x /\ \A j \in 1 .. Len(q) : p[j + 1] = q[j]
  <2>1. <<x>> \in Seq(Cmds) /\ Len(<<x>>) = 1 /\ <<x>>[1] = x
    OBVIOUS
  <2>2. /\ Len(<<x>> \o q) = Len(<<x>>) + Len(q)
        /\ \A j \in 1 .. Len(<<x>>) + Len(q) :
             (<<x>> \o q)[j] = IF j <= Len(<<x>>) THEN <<x>>[j] ELSE q[j - Len(<<x>>)]
    BY <2>1, ConcatProperties
  <2>3. \A j \in 1 .. Len(q) : j + 1 \in 1 .. 1 + Len(q) /\ ~(j + 1 <= 1) /\ (j + 1) - 1 = j
    BY <1>1
  <2>4. 1 \in 1 .. 1 + Len(q)
    BY <1>1
  <2>. QED  BY <1>1, <2>1, <2>2, <2>3, <2>4
<1>3. InTurn(p, w, o)
  OBVIOUS
<1>. HIDE DEF p, v
<1>4. /\ Len(p) <= Len(w) /\ x = <<w[1], Len(o[w[1]]) + 1>>
      /\ \A j \in 1 .. Len(q) :
           p[j + 1] = <<w[j + 1], IF w[j] = w[j + 1] THEN p[j][2] + 1 ELSE Len(o[w[j + 1]]) + 1>>
  <2>1. 1 \in 1 .. Len(p) /\ ~(1 > 1) /\ \A j \in 1 .. Len(q) : j + 1 \in 1 .. Len(p) /\ j + 1 > 1 /\ (j + 1) - 1 = j
    BY <1>1, <1>2
  <2>. QED  BY <1>2, <1>3, <2>1 DEF InTurn
<1>5. ASSUME NEW j \in 1 .. Len(q)
      PROVE  q[j] = <<v[j], IF j > 1 /\ v[j - 1] = v[j] THEN q[j - 1][2] + 1 ELSE Len(o2[v[j]]) + 1>>
  <2>1. /\ q[j] = <<w[j + 1], IF w[j] = w[j + 1] THEN p[j][2] + 1 ELSE Len(o[w[j + 1]]) + 1>>
        /\ v[j] = w[j + 1] /\ j + 1 \in 1 .. Len(w) /\ j \in 1 .. Len(w)
        /\ w[j] \in Requests /\ w[j + 1] \in Requests /\ w[1] \in Requests
    BY <1>1, <1>2, <1>4, SMTT(30)
  <2>2. CASE j = 1
    <3>1. w[j] = w[j + 1] => p[j][2] + 1 = Len(o2[v[j]]) + 1
      BY <1>1, <1>2, <1>4, <2>1, <2>2, SMTT(30)
    <3>2. w[j] # w[j + 1] => Len(o2[v[j]]) = Len(o[w[j + 1]])
      BY <2>1, <2>2
    <3>. QED  BY <2>1, <2>2, <3>1, <3>2, SMTT(30)
  <2>3. CASE j > 1
    <3>1. j - 1 \in 1 .. Len(q) /\ (j - 1) + 1 = j /\ j - 1 \in 1 .. Len(v)
      BY <1>1, <1>2, <1>4, <2>3, SMTT(30)
    <3>2. p[j] = q[j - 1] /\ v[j - 1] = w[j]
      BY <1>1, <1>2, <3>1
    <3>3. w[j] # w[j + 1] => Len(o2[v[j]]) = Len(o[w[j + 1]])
      <4>1. w[1] <= w[j] /\ w[j] <= w[j + 1]
        BY <1>1, <2>1
      <4>2. w[1] \in Nat /\ w[j] \in Nat /\ w[j + 1] \in Nat
        BY <2>1, TransportAssumption, SMTT(30) DEF Requests
      <4>. QED  BY <2>1, <4>1, <4>2, SMTT(30)
    <3>. QED  BY <2>1, <2>3, <3>2, <3>3
  <2>. QED  BY <2>2, <2>3
<1>6. Len(q) <= Len(v) /\ (Len(p) = Len(w) => Len(q) = Len(v))
  BY <1>1, <1>2, <1>4
<1>. QED  BY <1>4, <1>5, <1>6 DEF InTurn, p, v

-----------------------------------------------------------------------------
(* The answers that are due are the ones the waiters wait for.             *)

Matched ==
  \A c \in Conns : /\ InTurn(Due(c), waiters, out)
                   /\ link[c] = "open" => Len(Due(c)) = Len(waiters)

\* A request holds the answers to its own first commands, to all of them when
\* its promise has resolved; until then some are missing, except in process,
\* where the caller only has yet to see them.
Filed ==
  \A r \in Requests :
    /\ \A i \in 1 .. Len(out[r]) : out[r][i] \in Returns(Reply(r, i))
    /\ promise[r] = "resolved" => Len(out[r]) = size[r]
    /\ promise[r] = "pending" => IF transport = "wasm" THEN Len(out[r]) = size[r]
                                 ELSE Len(out[r]) < size[r]

Correct == Delivery /\ NoWaiter /\ Matched /\ Filed

\* The commands of pieces, of pieces one after the other, and of one piece.
LEMMA CommandsType ==
  ASSUME NEW p \in Seq(Pieces)
  PROVE  /\ Commands(p) \in Seq(Cmds) /\ Len(Commands(p)) = Len(p)
         /\ \A j \in 1 .. Len(p) : Commands(p)[j] = <<p[j][1].of, p[j][1].num>>
<1>1. Len(p) \in Nat /\ \A j \in 1 .. Len(p) : p[j] \in Pieces
  BY LenProperties, ElementOfSeq
<1>2. \A j \in 1 .. Len(p) : <<p[j][1].of, p[j][1].num>> \in Cmds
  BY <1>1 DEF Pieces, Lines, Cmds
<1>3. Commands(p) \in [1 .. Len(p) -> Cmds]
  BY <1>2 DEF Commands
<1>4. \A f : f \in [1 .. Len(p) -> Cmds] => f \in Seq(Cmds)
  BY <1>1, SeqDef
<1>5. DOMAIN Commands(p) = 1 .. Len(Commands(p)) /\ Len(Commands(p)) \in Nat /\ DOMAIN Commands(p) = 1 .. Len(p)
  BY <1>3, <1>4, LenProperties
<1>6. Len(Commands(p)) = Len(p)
  BY <1>1, <1>5
<1>. QED  BY <1>3, <1>4, <1>6 DEF Commands

\* The commands that two streams of replies answer, one after the other.
LEMMA CommandsJoin ==
  ASSUME NEW p \in Seq(Pieces), NEW q \in Seq(Pieces)
  PROVE  Commands(p \o q) = Commands(p) \o Commands(q)
<1>. DEFINE a == Commands(p)
            b == Commands(q)
            u == p \o q
            c == Commands(u)
<1>1. /\ u \in Seq(Pieces) /\ Len(u) = Len(p) + Len(q) /\ Len(p) \in Nat /\ Len(q) \in Nat
      /\ \A j \in 1 .. Len(p) + Len(q) : u[j] = IF j <= Len(p) THEN p[j] ELSE q[j - Len(p)]
  BY ConcatProperties, LenProperties
<1>. HIDE DEF u
<1>2. /\ a \in Seq(Cmds) /\ Len(a) = Len(p) /\ b \in Seq(Cmds) /\ Len(b) = Len(q)
      /\ c \in Seq(Cmds) /\ Len(c) = Len(u)
      /\ \A j \in 1 .. Len(p) : a[j] = <<p[j][1].of, p[j][1].num>>
      /\ \A j \in 1 .. Len(q) : b[j] = <<q[j][1].of, q[j][1].num>>
      /\ \A j \in 1 .. Len(u) : c[j] = <<u[j][1].of, u[j][1].num>>
  BY <1>1, CommandsType
<1>. HIDE DEF a, b, c
<1>3. /\ a \o b \in Seq(Cmds) /\ Len(a \o b) = Len(a) + Len(b)
      /\ \A j \in 1 .. Len(a) + Len(b) : (a \o b)[j] = IF j <= Len(a) THEN a[j] ELSE b[j - Len(a)]
  <2>1. a \in Seq(Cmds) /\ b \in Seq(Cmds)
    BY <1>2
  <2>. QED  BY ONLY <2>1, ConcatProperties
<1>4. ASSUME NEW j \in 1 .. Len(u) PROVE c[j] = (a \o b)[j]
  <2>1. CASE j <= Len(p)
    <3>1. j \in 1 .. Len(p)
      BY <1>1, <2>1
    <3>. QED  BY <1>1, <1>2, <1>3, <2>1, <3>1
  <2>2. CASE ~(j <= Len(p))
    <3>1. j - Len(p) \in 1 .. Len(q)
      BY <1>1, <2>2
    <3>. QED  BY <1>1, <1>2, <1>3, <2>2, <3>1, ZenonT(30)
  <2>. QED  BY <2>1, <2>2
<1>5. c = a \o b
  BY <1>1, <1>2, <1>3, <1>4, SeqEqual
<1>. QED  BY <1>5 DEF a, b, c, u

\* The command that one reply answers.
LEMMA CommandsOne ==
  ASSUME NEW x \in Pieces
  PROVE  Commands(<<x>>) = << <<x[1].of, x[1].num>> >> /\ <<x[1].of, x[1].num>> \in Cmds
<1>. DEFINE y == <<x[1].of, x[1].num>>
            p == <<x>>
<1>1. p \in Seq(Pieces) /\ Len(p) = 1 /\ p[1] = x
  OBVIOUS
<1>. HIDE DEF p
<1>2. Commands(p) \in Seq(Cmds) /\ Len(Commands(p)) = 1 /\ Commands(p)[1] = y
  BY <1>1, CommandsType
<1>3. y \in Cmds
  BY DEF Pieces, Lines, Cmds
<1>. HIDE DEF y
<1>4. <<y>> \in Seq(Cmds) /\ Len(<<y>>) = 1 /\ <<y>>[1] = y
  BY <1>3
<1>5. \A j \in 1 .. 1 : Commands(p)[j] = <<y>>[j]
  BY <1>2, <1>4
<1>6. Commands(p) = <<y>>
  BY <1>2, <1>4, <1>5, SeqEqual
<1>. QED  BY <1>3, <1>6 DEF p, y

\* What is due on a connection: commands, answered or not.
LEMMA DueType ==
  ASSUME TypeOK, NEW c \in Conns
  PROVE  /\ Replies(c) \in Seq(Pieces) /\ Commands(Replies(c)) \in Seq(Cmds)
         /\ toServer[c] \in Seq(Cmds) /\ Due(c) \in Seq(Cmds) /\ Len(Due(c)) \in Nat
<1>1. Replies(c) \in Seq(Pieces)
  BY PipeType, KeptType DEF Replies
<1>2. Commands(Replies(c)) \in Seq(Cmds)
  BY <1>1, CommandsType
<1>3. toServer[c] \in Seq(Cmds)
  <2>1. toServer[c] \in Seq((0 .. MaxRequests) \X Nat) /\ (0 .. MaxRequests) \X Nat \subseteq Cmds
    BY TransportAssumption DEF TypeOK, Cmds
  <2>. QED  BY <2>1, SeqMonotonic
<1>4. Due(c) \in Seq(Cmds)
  BY <1>2, <1>3, ConcatProperties DEF Due
<1>. QED  BY <1>1, <1>2, <1>3, <1>4, LenProperties

\* Where nothing is under way, nothing is due.
LEMMA NothingDue ==
  ASSUME TypeOK, HeadsOnly(buf), NEW c \in Conns, toClient[c] = <<>>, toServer[c] = <<>>
  PROVE  Due(c) = <<>>
<1>1. buf \in Seq(Pieces)
  BY DEF TypeOK
<1>2. Pipe(c) = buf
  BY <1>1, ConcatEmptySeq DEF Pipe
<1>3. Replies(c) = <<>>
  BY <1>1, <1>2, KeptHeads DEF Replies
<1>4. Commands(<<>>) = <<>>
  BY DEF Commands
<1>5. <<>> \o <<>> = <<>>
  OBVIOUS
<1>. QED  BY <1>3, <1>4, <1>5 DEF Due

\* Nothing due is always in turn.
LEMMA TurnNone ==
  ASSUME NEW w, Len(w) \in Nat, NEW o
  PROVE  \A q : q = <<>> => InTurn(q, w, o)
BY DEF InTurn

-----------------------------------------------------------------------------
(* One lemma for each way in which a step touches what is due.             *)

\* Nothing of what the answers depend on changes.
LEMMA SameDue ==
  ASSUME Correct, UNCHANGED <<buf, toClient, toServer, waiters, out>>,
         \A c \in Conns : link'[c] = "open" => link[c] = "open"
  PROVE  Matched'
<1>1. \A c \in Conns : Due(c)' = Due(c)
  BY DEF Due, Replies, Pipe
<1>. QED  BY <1>1 DEF Correct, Matched

\* Every waiter is rejected, and no answer to anybody is under way.
LEMMA AllFail ==
  ASSUME Correct, NEW c \in Conns, FailAll, UNCHANGED <<transport, buf, size, out, toServer, toClient>>,
         Live(c), link[c] \in {"dialing", "gone", "errored"}, toClient[c] = <<>>
  PROVE  Matched' /\ Filed'
<1>1. waiters' = <<>> /\ promise' = [r \in Requests |-> IF r \in Waiting THEN "rejected" ELSE promise[r]]
  BY DEF FailAll
<1>2. \A d \in Conns : toClient[d] = <<>> /\ toServer[d] = <<>>
  BY DEF Correct, Delivery, OneLive, Live
<1>3. \A d \in Conns : Due(d) = <<>>
  BY <1>2, NothingDue DEF Correct, Delivery, Framed, IInv
<1>4. \A d \in Conns : Due(d)' = <<>>
  BY <1>3 DEF Due, Replies, Pipe
<1>5. Len(<<>>) = 0
  OBVIOUS
<1>6. \A d \in Conns : InTurn(Due(d), waiters, out)' /\ Len(Due(d)') = Len(waiters')
  <2>1. InTurn(<<>>, <<>>, out')
    BY <1>5, TurnNone
  <2>2. \A d \in Conns : InTurn(Due(d)', waiters', out')
    BY <1>1, <1>4, <2>1
  <2>. QED  BY <1>1, <1>4, <2>2
<1>7. Filed'
  BY <1>1 DEF Correct, Filed
<1>. QED  BY <1>6, <1>7 DEF Matched

\* Some of the answers under way on c are lost.
LEMMA AnswersLost ==
  ASSUME Correct, NEW c \in Conns, UNCHANGED <<waiters, out>>, buf' = buf,
         toServer' = [toServer EXCEPT ![c] = <<>>],
         \A d \in Conns \ {c} : toClient'[d] = toClient[d] /\ link'[d] = link[d], link'[c] # "open",
         NEW rest \in Seq(Pieces), Pipe(c)' \in Seq(Pieces), Pipe(c) = Pipe(c)' \o rest
  PROVE  Matched'
<1>1. TypeOK /\ waiters \in Seq(Requests) /\ toServer \in [Conns -> Seq((0 .. MaxRequests) \X Nat)]
  BY DEF Correct, Delivery, IInv, TypeOK
<1>2. \A d \in Conns \ {c} : Due(d)' = Due(d)
  BY <1>1 DEF Due, Replies, Pipe
<1>. DEFINE p == Pipe(c)'
            a == Kept(p, Ends("reply"))
            b == Kept(rest, Ends("reply"))
<1>3. Replies(c) = a \o b /\ a \in Seq(Pieces) /\ b \in Seq(Pieces) /\ Replies(c)' = a
  <2>1. p \in Seq(Pieces) /\ Pipe(c) = p \o rest
    OBVIOUS
  <2>2. Kept(p \o rest, Ends("reply")) = a \o b /\ a \in Seq(Pieces) /\ b \in Seq(Pieces)
    <3>. HIDE DEF p
    <3>. QED  BY <2>1, EndsJoin, KeptType
  <2>. QED  BY <2>1, <2>2 DEF Replies
<1>. HIDE DEF a, b, p
<1>. DEFINE ca == Commands(a)
            cb == Commands(b)
            s  == toServer[c]
<1>4. ca \in Seq(Cmds) /\ cb \in Seq(Cmds) /\ s \in Seq(Cmds) /\ Commands(Replies(c)) = ca \o cb
  BY <1>1, <1>3, CommandsType, CommandsJoin, DueType
<1>5. Due(c) = (ca \o cb) \o s
  BY <1>4 DEF Due
<1>6. Due(c)' = ca
  <2>1. toServer'[c] = <<>>
    BY <1>1
  <2>2. ca \o <<>> = ca
    BY <1>4, ConcatEmptySeq
  <2>. QED  BY <1>3, <2>1, <2>2 DEF Due
<1>. HIDE DEF ca, cb, s
<1>7. cb \o s \in Seq(Cmds) /\ (ca \o cb) \o s = ca \o (cb \o s)
  BY <1>4, CmdsJoin
<1>8. InTurn(ca, waiters, out)
  <2>1. InTurn(ca \o (cb \o s), waiters, out)
    BY <1>5, <1>7 DEF Correct, Matched
  <2>. QED  BY <1>1, <1>4, <1>7, <2>1, TurnPrefix
<1>9. InTurn(Due(c)', waiters', out')
  BY <1>6, <1>8
<1>. QED  BY <1>2, <1>9 DEF Correct, Matched

\* The server answers its next command: it is due as before.
LEMMA ServeDue ==
  ASSUME Correct, NEW c \in Conns, Serve(c)
  PROVE  Matched'
<1>. DEFINE s    == toServer[c]
            cmd  == Head(s)
            line == Reply(cmd[1], cmd[2])
            w    == Wire(transport, line)
            x    == LastOf(transport, line)
            k    == Replies(c)
<1>1. /\ s # <<>> /\ toServer' = [toServer EXCEPT ![c] = Tail(@)]
      /\ toClient' = [toClient EXCEPT ![c] = @ \o OnWire(line)]
      /\ UNCHANGED <<buf, waiters, out, link, transport>>
  BY DEF Serve, client, chosen, calls
<1>2. /\ TypeOK /\ toClient \in [Conns -> Seq(Pieces)] /\ buf \in Seq(Pieces)
      /\ toServer \in [Conns -> Seq((0 .. MaxRequests) \X Nat)] /\ toClient[c] \in Seq(Pieces)
  BY DEF Correct, Delivery, IInv, TypeOK
<1>3. s \in Seq(Cmds) /\ k \in Seq(Pieces) /\ Commands(k) \in Seq(Cmds)
  BY <1>2, DueType
<1>4. cmd \in (0 .. MaxRequests) \X Nat
  BY <1>1, <1>2, HeadTailProperties
<1>5. line \in Lines /\ line.kind = "reply" /\ <<line.of, line.num>> = cmd
  BY <1>4, TransportAssumption DEF Reply, Lines
<1>6. toServer'[c] = Tail(s) /\ toClient'[c] = toClient[c] \o w
  <2>1. OnWire(line) = w
    BY DEF OnWire, Wire
  <2>. QED  BY <1>1, <1>2, <2>1
<1>7. \A d \in Conns \ {c} : Due(d)' = Due(d)
  BY <1>1, <1>2 DEF Due, Replies, Pipe
<1>. HIDE DEF line, cmd
<1>8. w \in Seq(Pieces) /\ x \in Pieces /\ x[1] = line /\ Kept(w, Ends("reply")) = <<x>>
  BY <1>5, WireIs, KeptWire
<1>. HIDE DEF w, x, s, k
<1>9. Pipe(c)' = Pipe(c) \o w /\ Pipe(c) \in Seq(Pieces)
  <2>. DEFINE t == toClient[c]
  <2>1. t \in Seq(Pieces)
    BY <1>2
  <2>2. (buf \o t) \o w = buf \o (t \o w) /\ buf \o t \in Seq(Pieces)
    <3>1. buf \in Seq(Pieces) /\ t \in Seq(Pieces) /\ w \in Seq(Pieces)
      BY <1>2, <1>8, <2>1
    <3>. HIDE DEF t
    <3>. QED  BY ONLY <3>1, PiecesJoin
  <2>. QED  BY <1>1, <1>6, <2>2 DEF Pipe
<1>10. Replies(c)' = k \o <<x>>
  <2>1. Kept(Pipe(c) \o w, Ends("reply")) = k \o <<x>>
    BY <1>8, <1>9, EndsJoin DEF k, Replies
  <2>. QED  BY <1>9, <2>1 DEF Replies
<1>11. Commands(k \o <<x>>) = Append(Commands(k), cmd)
  <2>1. <<x>> \in Seq(Pieces) /\ Commands(<<x>>) = <<cmd>> /\ cmd \in Cmds
    BY <1>5, <1>8, CommandsOne
  <2>2. Commands(k \o <<x>>) = Commands(k) \o Commands(<<x>>)
    BY <1>3, <2>1, CommandsJoin
  <2>3. Append(Commands(k), cmd) = Commands(k) \o <<cmd>>
    BY <1>3, <2>1, AppendIsConcat
  <2>. QED  BY <2>1, <2>2, <2>3
<1>12. Append(Commands(k), cmd) \o Tail(s) = Commands(k) \o s
  BY <1>1, <1>3, MoveHead DEF cmd
<1>13. Due(c)' = Due(c)
  <2>1. Due(c)' = Append(Commands(k), cmd) \o Tail(s)
    BY <1>6, <1>10, <1>11 DEF Due
  <2>. QED  BY <1>12, <2>1 DEF Due, k, s
<1>. QED  BY <1>1, <1>7, <1>13 DEF Correct, Matched

\* An event is nobody's answer.
LEMMA PublishDue ==
  ASSUME Correct, NEW c \in Conns, Publish(c)
  PROVE  Matched'
<1>. DEFINE line == Push(c, pushed[c] + 1)
            w    == Wire(transport, line)
<1>1. /\ toClient' = [toClient EXCEPT ![c] = @ \o OnWire(line)]
      /\ UNCHANGED <<buf, waiters, out, link, transport, toServer>>
  BY DEF Publish, client, chosen, calls
<1>2. /\ TypeOK /\ toClient \in [Conns -> Seq(Pieces)] /\ buf \in Seq(Pieces)
      /\ pushed[c] \in Nat /\ toClient[c] \in Seq(Pieces)
  BY DEF Correct, Delivery, IInv, TypeOK
<1>3. line \in Lines /\ line.kind # "reply"
  BY <1>2, TransportAssumption DEF Push, Lines, Conns
<1>4. toClient'[c] = toClient[c] \o w
  <2>1. OnWire(line) = w
    BY DEF OnWire, Wire
  <2>. QED  BY <1>1, <1>2, <2>1
<1>5. \A d \in Conns \ {c} : Due(d)' = Due(d)
  BY <1>1, <1>2 DEF Due, Replies, Pipe
<1>. HIDE DEF line
<1>6. w \in Seq(Pieces) /\ Kept(w, Ends("reply")) = <<>>
  BY <1>3, WireIs, KeptWire
<1>. HIDE DEF w
<1>7. Pipe(c)' = Pipe(c) \o w /\ Pipe(c) \in Seq(Pieces)
  <2>. DEFINE t == toClient[c]
  <2>1. t \in Seq(Pieces)
    BY <1>2
  <2>2. (buf \o t) \o w = buf \o (t \o w) /\ buf \o t \in Seq(Pieces)
    <3>1. buf \in Seq(Pieces) /\ t \in Seq(Pieces) /\ w \in Seq(Pieces)
      BY <1>2, <1>6, <2>1
    <3>. HIDE DEF t
    <3>. QED  BY ONLY <3>1, PiecesJoin
  <2>. QED  BY <1>1, <1>4, <2>2 DEF Pipe
<1>8. Replies(c)' = Replies(c)
  <2>1. Kept(Pipe(c) \o w, Ends("reply")) = Replies(c) \o <<>>
    BY <1>6, <1>7, EndsJoin DEF Replies
  <2>2. Replies(c) \o <<>> = Replies(c)
    BY <1>2, DueType, ConcatEmptySeq
  <2>. QED  BY <1>7, <2>1, <2>2 DEF Replies
<1>9. Due(c)' = Due(c)
  BY <1>1, <1>8 DEF Due
<1>. QED  BY <1>1, <1>5, <1>9 DEF Correct, Matched

\* A request goes out: its answers are the last that are due.
LEMMA WriteMatched ==
  ASSUME Correct, NEW r \in Requests, NEW n \in Nat \ {0}, NEW c \in Conns, Write(r, n, c),
         transport # "wasm", UNCHANGED <<transport, buf, toClient>>,
         link[c] = "dialing" \/ socket = c, \A d \in Conns \ {c} : link'[d] = link[d],
         link'[c] = "open" => link[c] \in {"dialing", "open"}
  PROVE  Matched' /\ Filed'
<1>. DEFINE a == [i \in 1 .. n |-> <<r, i>>]
            b == [i \in 1 .. n |-> r]
<1>1. /\ promise[r] = "idle" /\ size' = [size EXCEPT ![r] = n] /\ promise' = [promise EXCEPT ![r] = "pending"]
      /\ waiters' = waiters \o b /\ out' = out
      /\ toServer' = IF link[c] \in {"dialing", "open"} THEN [toServer EXCEPT ![c] = @ \o a] ELSE toServer
  BY DEF Write, IsNext, Waiters, Written
<1>2. /\ TypeOK /\ waiters \in Seq(Requests) /\ Len(waiters) \in Nat
      /\ toServer \in [Conns -> Seq((0 .. MaxRequests) \X Nat)]
      /\ promise \in [Requests -> {"idle", "pending", "resolved", "rejected"}]
      /\ size \in [Requests -> Nat] /\ out \in [Requests -> Seq(Seq(Pieces))]
  BY LenProperties DEF Correct, Delivery, IInv, TypeOK
<1>3. /\ a \in Seq(Cmds) /\ b \in Seq(Requests) /\ Len(a) = n /\ Len(b) = n
      /\ \A i \in 1 .. n : a[i] = <<r, i>> /\ b[i] = r
  <2>1. n \in Nat /\ r \in Nat /\ \A i \in 1 .. n : <<r, i>> \in Cmds
    BY TransportAssumption DEF Requests, Cmds
  <2>. HIDE DEF Cmds
  <2>2. a \in [1 .. n -> Cmds] /\ b \in [1 .. n -> Requests]
    BY <2>1
  <2>. HIDE DEF a, b
  <2>3. \A S, f : f \in [1 .. n -> S] => f \in Seq(S)
    BY <2>1, SeqDef
  <2>4. a \in Seq(Cmds) /\ b \in Seq(Requests)
    BY <2>2, <2>3
  <2>5. Len(a) = n /\ Len(b) = n
    <3>1. DOMAIN a = 1 .. n /\ DOMAIN b = 1 .. n
      BY <2>2
    <3>2. DOMAIN a = 1 .. Len(a) /\ DOMAIN b = 1 .. Len(b) /\ Len(a) \in Nat /\ Len(b) \in Nat
      BY <2>4, LenProperties
    <3>. QED  BY <2>1, <3>1, <3>2
  <2>6. \A i \in 1 .. n : a[i] = <<r, i>> /\ b[i] = r
    BY DEF a, b
  <2>. QED  BY <2>4, <2>5, <2>6
<1>4. out[r] = <<>> /\ Len(out[r]) = 0 /\ \A i \in 1 .. Len(waiters) : waiters[i] # r
  <2>1. out[r] = <<>>
    BY <1>1 DEF Correct, Delivery, IInv, Numbered
  <2>2. \A i \in 1 .. Len(waiters) : promise[waiters[i]] = "pending"
    BY WaiterIsPending DEF Correct, Delivery, IInv
  <2>. QED  BY <1>1, <2>1, <2>2
<1>5. Filed'
  <2>1. \A q \in Requests : q # r => promise'[q] = promise[q] /\ size'[q] = size[q]
    BY <1>1, <1>2
  <2>2. promise'[r] = "pending" /\ size'[r] = n /\ out'[r] = <<>> /\ Len(out'[r]) = 0 /\ Len(out'[r]) < n
    BY <1>1, <1>2, <1>4
  <2>. HIDE DEF a, b
  <2>. QED  BY <1>1, <2>1, <2>2 DEF Correct, Filed
<1>6. \A d \in Conns \ {c} : Due(d)' = Due(d) /\ link'[d] # "open"
  <2>1. \A d \in Conns \ {c} : link'[d] # "open"
    BY DEF Correct, Delivery, OneLive, Live
  <2>. QED  BY <1>1, <1>2, <2>1 DEF Due, Replies, Pipe
<1>7. \A d \in Conns : Due(d) \in Seq(Cmds) /\ InTurn(Due(d), waiters, out)
  BY <1>2, DueType DEF Correct, Matched
<1>. HIDE DEF a, b
<1>8. \A d \in Conns : InTurn(Due(d), waiters \o b, out)
  BY <1>2, <1>3, <1>7, TurnLonger
<1>9. CASE link[c] \in {"dialing", "open"}
  <2>1. Len(Due(c)) = Len(waiters)
    <3>1. CASE link[c] = "open"
      BY <3>1 DEF Correct, Matched
    <3>2. CASE link[c] = "dialing"
      <4>1. toClient[c] = <<>> /\ toServer[c] = <<>> /\ waiters = <<>>
        BY <3>2 DEF Correct, Delivery, OneLive, NoWaiter
      <4>2. Due(c) = <<>>
        BY <1>2, <4>1, NothingDue DEF Correct, Delivery, Framed
      <4>. QED  BY <4>1, <4>2
    <3>. QED  BY <1>9, <3>1, <3>2
  <2>. DEFINE k == Commands(Replies(c))
              s == toServer[c]
  <2>2. k \in Seq(Cmds) /\ s \in Seq(Cmds) /\ Due(c) = k \o s
    BY <1>2, DueType DEF Due
  <2>. HIDE DEF a
  <2>3. toServer'[c] = s \o a
    BY <1>1, <1>2, <1>9
  <2>4. Due(c)' = k \o (s \o a)
    <3>1. Replies(c)' = Replies(c)
      BY DEF Replies, Pipe
    <3>. QED  BY <2>3, <3>1 DEF Due
  <2>. HIDE DEF k, s
  <2>5. Due(c)' = Due(c) \o a
    BY <1>3, <2>2, <2>4, CmdsJoin, SMTT(30)
  <2>6. InTurn(Due(c) \o a, waiters \o b, out) /\ Len(Due(c) \o a) = Len(waiters \o b)
    <3>. DEFINE q == Due(c)
    <3>1. q \in Seq(Cmds) /\ InTurn(q, waiters, out) /\ Len(q) = Len(waiters)
      BY <1>7, <2>1
    <3>. HIDE DEF q
    <3>2. /\ n \in Nat /\ waiters \in Seq(Requests) /\ Len(out[r]) = 0 /\ r \in Requests
          /\ Absent(r, waiters) /\ Joining(a, b, n, r)
      BY <1>2, <1>3, <1>4 DEF Absent, Joining
    <3>3. InTurn(q \o a, waiters \o b, out) /\ Len(q \o a) = Len(waiters \o b)
      BY ONLY <3>1, <3>2, TurnWritten
    <3>. QED  BY <3>3 DEF q
  <2>7. InTurn(Due(c), waiters, out)' /\ Len(Due(c))' = Len(waiters)'
    BY <1>1, <2>5, <2>6
  <2>8. \A d \in Conns \ {c} : InTurn(Due(d), waiters, out)'
    BY <1>1, <1>6, <1>8
  <2>. QED  BY <1>5, <1>6, <2>7, <2>8 DEF Matched
<1>10. CASE link[c] \notin {"dialing", "open"}
  <2>1. Due(c)' = Due(c) /\ link'[c] # "open"
    BY <1>1, <1>10 DEF Due, Replies, Pipe
  <2>2. \A d \in Conns : InTurn(Due(d), waiters, out)'
    BY <1>1, <1>6, <1>8, <2>1
  <2>. QED  BY <1>5, <1>6, <2>1, <2>2 DEF Matched
<1>. QED  BY <1>9, <1>10

\* A line that is complete takes the answer that is due first.
LEMMA DataMatched ==
  ASSUME Correct, NEW c \in Conns, Data(c)
  PROVE  Matched' /\ Filed'
<1>1. /\ link[c] \in {"open", "ended", "gone"} /\ UNCHANGED <<transport, link, size, toServer>>
  BY DEF Data, chosen
<1>2. /\ IInv /\ TypeOK /\ OneLive /\ Framed /\ waiters \in Seq(Requests) /\ toClient \in [Conns -> Seq(Pieces)]
      /\ out \in [Requests -> Seq(Seq(Pieces))] /\ size \in [Requests -> Nat]
      /\ promise \in [Requests -> {"idle", "pending", "resolved", "rejected"}] /\ Len(waiters) \in Nat
  BY LenProperties DEF Correct, Delivery, IInv, TypeOK
<1>3. /\ toClient[c] # <<>> /\ toClient' = [toClient EXCEPT ![c] = Tail(@)]
      /\ \/ /\ UNCHANGED <<waiters, promise, out, heard>>
            /\ Pipe(c)' = Pipe(c) /\ transport = "tcp"
            /\ buf' \in Seq(Pieces) /\ HeadsOnly(buf') /\ Len(buf') = 1
         \/ \E line \in Lines :
              /\ Route(Wire(transport, line)) /\ buf' = <<>>
              /\ Pipe(c)' \in Seq(Pieces) /\ Pipe(c) = Wire(transport, line) \o Pipe(c)'
  BY <1>2, DataLine
<1>4. /\ buf' \in Seq(Pieces) /\ HeadsOnly(buf')
  <2>1. \A e : e = <<>> => e \in Seq(Pieces) /\ HeadsOnly(e)
    BY DEF HeadsOnly
  <2>. QED  BY <1>3, <2>1
<1>5. \A d \in Conns \ {c} : Due(d)' = <<>> /\ link'[d] # "open"
  <2>1. \A d \in Conns \ {c} : ~Live(d) /\ link[d] # "open" /\ toClient[d] = <<>> /\ toServer[d] = <<>>
    BY <1>1, <1>2 DEF OneLive, Live
  <2>2. \A d \in Conns \ {c} : toClient'[d] = <<>> /\ toServer'[d] = <<>> /\ link'[d] # "open"
    BY <1>1, <1>2, <1>3, <2>1
  <2>. DEFINE b == buf'
  <2>3. b \o <<>> = b /\ Kept(b, Ends("reply")) = <<>> /\ Commands(<<>>) = <<>> /\ <<>> \o <<>> = <<>>
    <3>1. b \in Seq(Pieces) /\ HeadsOnly(b)
      BY <1>4
    <3>2. Commands(<<>>) = <<>> /\ <<>> \o <<>> = <<>>
      BY DEF Commands
    <3>. HIDE DEF b
    <3>3. b \o <<>> = b /\ Kept(b, Ends("reply")) = <<>>
      BY ONLY <3>1, ConcatEmptySeq, KeptHeads
    <3>. QED  BY <3>2, <3>3
  <2>4. \A d \in Conns \ {c} : Pipe(d)' = b
    BY <2>2, <2>3 DEF Pipe
  <2>5. \A d \in Conns \ {c} : Replies(d)' = <<>>
    BY <2>3, <2>4 DEF Replies
  <2>. QED  BY <2>2, <2>3, <2>5 DEF Due
<1>6. ASSUME waiters' \in Seq(Requests) PROVE \A d \in Conns \ {c} : InTurn(Due(d), waiters, out)'
  <2>1. Len(waiters') \in Nat
    BY <1>6, LenProperties
  <2>2. InTurn(<<>>, waiters', out')
    BY <2>1, TurnNone
  <2>. QED  BY <1>5, <2>2
<1>7. /\ InTurn(Due(c), waiters, out) /\ (link[c] = "open" => Len(Due(c)) = Len(waiters))
      /\ Due(c) \in Seq(Cmds) /\ toServer[c] \in Seq(Cmds)
  BY <1>2, DueType DEF Correct, Matched
<1>8. ASSUME UNCHANGED <<waiters, promise, out>>, Replies(c)' = Replies(c) PROVE Matched' /\ Filed'
  <2>1. Due(c)' = Due(c) /\ link'[c] = link[c]
    BY <1>1, <1>8 DEF Due
  <2>2. \A d \in Conns \ {c} : InTurn(Due(d), waiters, out)'
    BY <1>2, <1>6, <1>8
  <2>3. Filed'
    BY <1>1, <1>8 DEF Correct, Filed
  <2>. QED  BY <1>5, <1>7, <1>8, <2>1, <2>2, <2>3 DEF Matched
<1>9. CASE UNCHANGED <<waiters, promise, out>> /\ Pipe(c)' = Pipe(c)
  <2>1. Replies(c)' = Replies(c)
    BY <1>9 DEF Replies
  <2>. QED  BY <1>8, <1>9, <2>1
<1>10. ASSUME NEW line \in Lines, Route(Wire(transport, line)),
              Pipe(c)' \in Seq(Pieces), Pipe(c) = Wire(transport, line) \o Pipe(c)'
       PROVE  Matched' /\ Filed'
  <2>. DEFINE w == Wire(transport, line)
              p == Pipe(c)'
              x == LastOf(transport, line)
              k == Kept(p, Ends("reply"))
              s == toServer[c]
              q == Commands(k) \o s
              a == <<line.of, line.num>>
  <2>1. /\ w \in Seq(Pieces) /\ p \in Seq(Pieces) /\ Pipe(c) = w \o p /\ x \in Pieces /\ x[1] = line
    BY <1>10, WireIs
  <2>2. Replies(c) = Kept(w, Ends("reply")) \o k /\ k \in Seq(Pieces)
    <3>. HIDE DEF w, p, x
    <3>. QED  BY <2>1, EndsJoin, KeptType DEF Replies
  <2>3. Replies(c)' = k
    BY DEF Replies
  <2>. HIDE DEF p, x, k
  <2>4. CASE UNCHANGED <<waiters, promise, out>> /\ line.kind = "event"
    <3>1. Kept(w, Ends("reply")) = <<>>
      BY <2>4, KeptWire
    <3>2. Replies(c)' = Replies(c)
      BY <2>2, <2>3, <3>1, ConcatEmptySeq
    <3>. QED  BY <1>8, <2>4, <3>2
  <2>5. ASSUME line.kind = "reply"
        PROVE  /\ Due(c) = <<a>> \o q /\ q \in Seq(Cmds) /\ a \in Cmds /\ Due(c)' = q
               /\ Len(Due(c)) >= 1
    <3>1. Kept(w, Ends("reply")) = <<x>>
      BY <2>5, KeptWire DEF x
    <3>2. Commands(<<x>>) = <<a>> /\ a \in Cmds
      BY <2>1, CommandsOne
    <3>3. <<x>> \in Seq(Pieces)
      BY <2>1
    <3>4. Commands(<<x>> \o k) = Commands(<<x>>) \o Commands(k) /\ Commands(k) \in Seq(Cmds)
      <4>. DEFINE y == <<x>>
      <4>1. y \in Seq(Pieces) /\ k \in Seq(Pieces)
        BY <2>2, <3>3
      <4>. HIDE DEF y
      <4>2. Commands(y \o k) = Commands(y) \o Commands(k) /\ Commands(k) \in Seq(Cmds)
        BY ONLY <4>1, CommandsJoin, CommandsType
      <4>. QED  BY <4>2 DEF y
    <3>. HIDE DEF a, s
    <3>5. <<a>> \in Seq(Cmds) /\ s \in Seq(Cmds)
      BY <1>7, <3>2 DEF s
    <3>6. q \in Seq(Cmds) /\ (<<a>> \o Commands(k)) \o s = <<a>> \o q
      <4>. DEFINE y == <<a>>
                  z == Commands(k)
      <4>1. y \in Seq(Cmds) /\ z \in Seq(Cmds) /\ s \in Seq(Cmds)
        BY <3>4, <3>5
      <4>. HIDE DEF y, z
      <4>2. z \o s \in Seq(Cmds) /\ (y \o z) \o s = y \o (z \o s)
        BY ONLY <4>1, CmdsJoin
      <4>. QED  BY <4>2 DEF y, z
    <3>7. Due(c) = <<a>> \o q
      BY <2>2, <3>1, <3>2, <3>4, <3>6 DEF Due, s
    <3>8. toServer'[c] = s
      BY <1>1 DEF s
    <3>9. Due(c)' = q
      BY <2>3, <3>8 DEF Due
    <3>10. Len(<<a>> \o q) >= 1
      <4>1. Len(<<a>> \o q) = Len(<<a>>) + Len(q) /\ Len(<<a>>) = 1 /\ Len(q) \in Nat
        <5>. HIDE DEF q
        <5>. QED  BY <3>5, <3>6, ConcatProperties, LenProperties
      <4>. QED  BY <4>1
    <3>. QED  BY <3>2, <3>6, <3>7, <3>9, <3>10
  <2>6. CASE line.kind = "reply" /\ waiters = <<>>
    <3>1. Len(Due(c)) <= Len(waiters) /\ Len(waiters) = 0
      BY <1>7, <2>6 DEF InTurn
    <3>. QED  BY <2>5, <2>6, <3>1
  <2>7. CASE line.kind = "reply" /\ waiters # <<>> /\ Settle(w)
    <3>. DEFINE r == waiters[1]
    <3>1. /\ Head(waiters) = r /\ r \in Requests /\ Tail(waiters) \in Seq(Requests) /\ promise[r] = "pending"
      <4>1. 1 \in 1 .. Len(waiters)
        BY <1>2, <2>7, EmptySeq
      <4>. QED  BY <1>2, <2>7, <4>1, HeadTailProperties, WaiterIsPending DEF IInv
    <3>. HIDE DEF r, w
    <3>2. /\ waiters' = Tail(waiters) /\ out' = [out EXCEPT ![r] = Append(@, w)]
          /\ promise' = IF Len(out[r]) + 1 = size[r] THEN [promise EXCEPT ![r] = "resolved"] ELSE promise
      BY <2>7, <3>1 DEF Settle, ShiftWaiter
    <3>3. /\ Len(out[r]) \in Nat /\ Len(out'[r]) = Len(out[r]) + 1
          /\ out'[r][Len(out[r]) + 1] = w /\ \A i \in 1 .. Len(out[r]) : out'[r][i] = out[r][i]
          /\ \A o \in Requests \ {r} : out'[o] = out[o]
      <4>1. out'[r] = Append(out[r], w) /\ out[r] \in Seq(Seq(Pieces)) /\ w \in Seq(Pieces)
        BY <1>2, <2>1, <3>1, <3>2
      <4>2. /\ Len(out[r]) \in Nat /\ Len(Append(out[r], w)) = Len(out[r]) + 1
            /\ Append(out[r], w)[Len(out[r]) + 1] = w
            /\ \A i \in 1 .. Len(out[r]) : Append(out[r], w)[i] = out[r][i]
        BY <4>1, AppendProperties, LenProperties
      <4>. QED  BY <1>2, <3>1, <3>2, <4>1, <4>2
    <3>4. /\ a = <<r, Len(out[r]) + 1>> /\ InTurn(q, Tail(waiters), out')
          /\ Len(<<a>> \o q) = Len(waiters) => Len(q) = Len(Tail(waiters))
      <4>1. /\ \A o \in Requests : Len(out[o]) \in Nat
            /\ \A o \in Requests : Len(out'[o]) = IF o = waiters[1] THEN Len(out[o]) + 1 ELSE Len(out[o])
        <5>1. \A o \in Requests : Len(out[o]) \in Nat
          BY <1>2, LenProperties
        <5>. QED  BY <3>1, <3>3, <5>1 DEF r
      <4>2. \A i, j \in 1 .. Len(waiters) : i <= j => waiters[i] <= waiters[j]
        BY <1>2 DEF IInv, WaitersAreDue
      <4>3. /\ q \in Seq(Cmds) /\ a \in Cmds /\ InTurn(<<a>> \o q, waiters, out)
            /\ waiters \in Seq(Requests) /\ waiters # <<>>
        BY <1>2, <1>7, <2>5, <2>7
      <4>. HIDE DEF a, q
      <4>. QED  BY <4>1, <4>2, <4>3, TurnTaken DEF r
    <3>5. Matched'
      <4>1. link[c] = "open" => Len(<<a>> \o q) = Len(waiters)
        BY <1>7, <2>5, <2>7
      <4>2. Due(c)' = q /\ link'[c] = link[c]
        BY <1>1, <2>5, <2>7
      <4>. HIDE DEF a, q
      <4>3. InTurn(Due(c), waiters, out)' /\ (link'[c] = "open" => Len(Due(c)') = Len(waiters'))
        BY <3>2, <3>4, <4>1, <4>2
      <4>4. \A d \in Conns \ {c} : InTurn(Due(d), waiters, out)'
        BY <1>6, <3>1, <3>2
      <4>. QED  BY <1>5, <4>3, <4>4 DEF Matched
    <3>6. line = Reply(r, Len(out[r]) + 1)
      <4>1. line.of = r /\ line.num = Len(out[r]) + 1 /\ line = [kind |-> line.kind, of |-> line.of, num |-> line.num]
        BY <3>4 DEF Lines
      <4>. QED  BY <2>7, <4>1 DEF Reply
    <3>7. w \in Returns(Reply(r, Len(out[r]) + 1))
      BY <3>6 DEF w, Wire, Returns, Texts
    <3>8. transport # "wasm"
      BY <1>1, <1>2 DEF IInv, InProcess
    <3>9. ASSUME NEW o \in Requests
          PROVE  /\ \A i \in 1 .. Len(out'[o]) : out'[o][i] \in Returns(Reply(o, i))
                 /\ promise'[o] = "resolved" => Len(out'[o]) = size[o]
                 /\ promise'[o] = "pending" => Len(out'[o]) < size[o]
      <4>1. /\ \A i \in 1 .. Len(out[o]) : out[o][i] \in Returns(Reply(o, i))
            /\ promise[o] = "resolved" => Len(out[o]) = size[o]
            /\ promise[o] = "pending" => Len(out[o]) < size[o]
        BY <3>8 DEF Correct, Filed
      <4>2. CASE o = r
        <5>1. size[r] \in Nat /\ promise'[r] = IF Len(out[r]) + 1 = size[r] THEN "resolved" ELSE "pending"
          BY <1>2, <3>1, <3>2
        <5>2. Len(out[r]) < size[r]
          BY <3>1, <4>1, <4>2
        <5>3. /\ promise'[r] = "resolved" => Len(out'[r]) = size[r]
              /\ promise'[r] = "pending" => Len(out'[r]) < size[r]
          BY <3>3, <5>1, <5>2
        <5>4. \A i \in 1 .. Len(out'[r]) : out'[r][i] \in Returns(Reply(r, i))
          <6>1. \A i \in 1 .. Len(out[r]) + 1 : i \in 1 .. Len(out[r]) \/ i = Len(out[r]) + 1
            BY <3>3
          <6>. QED  BY <3>3, <3>7, <4>1, <4>2, <6>1
        <5>. QED  BY <4>2, <5>3, <5>4
      <4>3. CASE o # r
        <5>1. out'[o] = out[o] /\ promise'[o] = promise[o]
          BY <1>2, <3>1, <3>2, <3>3, <4>3
        <5>. QED  BY <4>1, <5>1
      <4>. QED  BY <4>2, <4>3
    <3>10. Filed'
      BY <1>1, <3>8, <3>9 DEF Filed
    <3>. QED  BY <3>5, <3>10
  <2>. QED  BY <1>10, <2>4, <2>6, <2>7, RouteLine
<1>. QED  BY <1>3, <1>9, <1>10

-----------------------------------------------------------------------------
(* In process.                                                             *)

\* What the caller reads is the response, whatever the buffer held before.
LEMMA ResponseIs ==
  ASSUME NEW old \in Seq(Pieces), NEW text \in Seq(Pieces)
  PROVE  Response(old, text) = text
<1>. DEFINE rest == SubSeq(old, Len(text) + 1, Len(old))
            all  == text \o rest
<1>1. Len(text) \in Nat /\ Len(old) \in Nat
  BY LenProperties
<1>2. rest \in Seq(Pieces)
  BY <1>1, SubSeqProperties
<1>. HIDE DEF rest
<1>3. /\ all \in Seq(Pieces) /\ Len(all) = Len(text) + Len(rest) /\ Len(rest) \in Nat
      /\ \A i \in 1 .. Len(text) + Len(rest) : all[i] = IF i <= Len(text) THEN text[i] ELSE rest[i - Len(text)]
  BY <1>2, ConcatProperties, LenProperties
<1>. HIDE DEF all
<1>. DEFINE s == SubSeq(all, 1, Len(text))
<1>4. s \in Seq(Pieces) /\ Len(s) = Len(text) /\ \A i \in 1 .. Len(text) : s[i] = all[i]
  BY <1>1, <1>3, SubSeqProperties
<1>5. s = text
  <2>. HIDE DEF s
  <2>1. \A i \in 1 .. Len(text) : s[i] = text[i]
    BY <1>1, <1>3, <1>4
  <2>. QED  BY <1>4, <2>1, SeqEqual
<1>. QED  BY <1>5 DEF Response, Overwritten, s, all, rest

\* Nothing is under way and nobody waits.
LEMMA InProcessDue ==
  ASSUME Correct, transport = "wasm"
  PROVE  \A c \in Conns : Due(c) = <<>> /\ link[c] = "none"
<1>1. \A c \in Conns : link[c] = "none" /\ toClient[c] = <<>> /\ toServer[c] = <<>>
  BY DEF Correct, Delivery, IInv, InProcess, OneLive
<1>. QED  BY <1>1, NothingDue DEF Correct, Delivery, Framed, IInv

\* In process nothing is due.
LEMMA InProcessMatched ==
  ASSUME Correct, transport = "wasm", UNCHANGED <<transport, buf, waiters, link, toServer, toClient>>
  PROVE  Matched'
<1>1. \A c \in Conns : Due(c) = <<>> /\ link[c] = "none"
  BY InProcessDue
<1>2. \A c \in Conns : Due(c)' = <<>> /\ link'[c] = "none"
  BY <1>1 DEF Due, Replies, Pipe
<1>3. Len(waiters') \in Nat
  BY LenProperties DEF Correct, Delivery, IInv, TypeOK
<1>4. \A c \in Conns : InTurn(Due(c)', waiters', out')
  BY <1>2, <1>3, TurnNone
<1>. QED  BY <1>2, <1>4 DEF Matched

\* Request r runs its commands: it collects the answers to them.
LEMMA ExecMatched ==
  ASSUME Correct, NEW r \in Requests, NEW n \in Nat, NEW about, \A i \in 1 .. n : about[i] = Reply(r, i),
         Exec(r, n, about)
  PROVE  Matched' /\ Filed'
<1>1. PICK texts \in {f \in [1 .. n -> UNION {Returns(about[i]) : i \in 1 .. n}] :
                        \A i \in 1 .. n : f[i] \in Returns(about[i])} :
        LET at == Buffers(heap, texts)
        IN \/ /\ out' = [out EXCEPT ![r] = [i \in 1 .. n |-> Response(at[i - 1], texts[i])]]
              /\ promise' = [promise EXCEPT ![r] = "pending"]
           \/ /\ promise' = [promise EXCEPT ![r] = "rejected"]
              /\ out' = out
  BY DEF Exec
<1>2. /\ transport = "wasm" /\ promise[r] = "idle" /\ size' = [size EXCEPT ![r] = n]
      /\ UNCHANGED <<transport, buf, waiters, link, toServer, toClient>>
  BY DEF Exec, IsNext, chosen, network
<1>3. /\ heap \in Seq(Pieces) /\ out \in [Requests -> Seq(Seq(Pieces))] /\ size \in [Requests -> Nat]
      /\ promise \in [Requests -> {"idle", "pending", "resolved", "rejected"}] /\ Numbered /\ Filed
  BY DEF Correct, Delivery, IInv, TypeOK
<1>4. Matched'
  BY <1>2, InProcessMatched
<1>5. /\ texts \in Seq(Seq(Pieces)) /\ Len(texts) = n
      /\ \A i \in 1 .. n : texts[i] \in Seq(Pieces) /\ texts[i] \in Returns(Reply(r, i))
  <2>1. r \in Nat /\ \A i \in 1 .. n : Reply(r, i) \in Lines
    BY TransportAssumption DEF Requests, Reply, Lines
  <2>2. \A line \in Lines : Returns(line) \subseteq Seq(Pieces)
    BY DEF Returns, Texts, Pieces
  <2>3. \A i \in 1 .. n : texts[i] \in Returns(Reply(r, i)) /\ texts[i] \in Seq(Pieces)
    BY <1>1, <2>1, <2>2
  <2>4. texts \in [1 .. n -> Seq(Pieces)]
    BY <1>1, <2>3
  <2>5. \A S, f : f \in [1 .. n -> S] => f \in Seq(S)
    BY SeqDef
  <2>. QED  BY <2>3, <2>4, <2>5, LenProperties
<1>. DEFINE at == Buffers(heap, texts)
<1>6. at \in [0 .. n -> Seq(Pieces)]
  BY <1>3, <1>5, BuffersDef
<1>. HIDE DEF at
<1>7. \A i \in 1 .. n : Response(at[i - 1], texts[i]) = texts[i]
  <2>1. \A i \in 1 .. n : at[i - 1] \in Seq(Pieces)
    BY <1>6
  <2>. QED  BY <1>5, <2>1, ResponseIs
<1>. DEFINE new == [i \in 1 .. n |-> Response(at[i - 1], texts[i])]
<1>8. Len(new) = n /\ \A i \in 1 .. n : new[i] \in Returns(Reply(r, i))
  BY <1>5, <1>7, LenProperties
<1>9. \A i \in 1 .. Len(out[r]) : FALSE
  <2>1. out[r] = <<>>
    BY <1>2, <1>3 DEF Numbered
  <2>2. Len(<<>>) = 0
    OBVIOUS
  <2>3. Len(out[r]) = 0
    BY <2>1, <2>2
  <2>. QED  BY <2>3
<1>. HIDE DEF new
<1>10. Filed'
  <2>1. CASE out' = [out EXCEPT ![r] = new] /\ promise' = [promise EXCEPT ![r] = "pending"]
    BY <1>2, <1>3, <1>8, <2>1 DEF Filed
  <2>2. CASE out' = out /\ promise' = [promise EXCEPT ![r] = "rejected"]
    BY <1>2, <1>3, <1>9, <2>2 DEF Filed
  <2>. QED  BY <1>1, <2>1, <2>2 DEF new, at
<1>. QED  BY <1>4, <1>10

\* The caller meets its answers.
LEMMA ResumeMatched ==
  ASSUME Correct, NEW r \in Requests, Resume(r)
  PROVE  Matched' /\ Filed'
<1>1. /\ transport = "wasm" /\ promise[r] = "pending" /\ promise' = [promise EXCEPT ![r] = "resolved"]
      /\ UNCHANGED <<transport, buf, waiters, link, toServer, toClient, out, size>>
  BY DEF Resume, chosen, network
<1>2. Filed /\ promise \in [Requests -> {"idle", "pending", "resolved", "rejected"}]
  BY DEF Correct, Delivery, IInv, TypeOK
<1>. QED  BY <1>1, <1>2, InProcessMatched DEF Filed

-----------------------------------------------------------------------------
(* Every step keeps the answers where they belong.                         *)

\* A connection is made: AUTH goes out, or nothing.
LEMMA EstablishedMatched ==
  ASSUME Correct, NEW c \in Conns, Established(c)
  PROVE  Matched' /\ Filed'
<1>1. /\ link[c] = "dialing" /\ link' = [link EXCEPT ![c] = "open"]
      /\ UNCHANGED <<transport, buf, toClient>>
  BY DEF Established, chosen
<1>2. /\ TypeOK /\ link \in [Conns -> Links] /\ toClient[c] = <<>> /\ toServer[c] = <<>> /\ waiters = <<>>
      /\ HeadsOnly(buf)
  BY <1>1 DEF Correct, Delivery, IInv, TypeOK, OneLive, NoWaiter, Framed
<1>3. transport # "wasm"
  BY <1>1 DEF Correct, Delivery, IInv, InProcess
<1>4. \A d \in Conns \ {c} : link'[d] = link[d]
  BY <1>1, <1>2
<1>5. CASE UNCHANGED <<calls, toServer>>
  <2>1. UNCHANGED <<waiters, promise, size, out, toServer>>
    BY <1>5 DEF calls
  <2>2. Filed'
    BY <1>1, <2>1 DEF Correct, Filed
  <2>3. \A d \in Conns : Due(d)' = Due(d)
    BY <1>1, <2>1 DEF Due, Replies, Pipe
  <2>4. \A q : q = <<>> => Len(q) = 0
    OBVIOUS
  <2>5. Len(Due(c)) = Len(waiters)
    BY <1>2, <2>4, NothingDue
  <2>6. ASSUME NEW d \in Conns PROVE InTurn(Due(d)', waiters', out') /\ (link'[d] = "open" => Len(Due(d)') = Len(waiters'))
    BY <1>4, <2>1, <2>3, <2>5 DEF Correct, Matched
  <2>. QED  BY <2>2, <2>6 DEF Matched
<1>6. CASE \E r \in Requests : Write(r, 1, c)
  <2>1. PICK r \in Requests : Write(r, 1, c)
    BY <1>6
  <2>2. 1 \in Nat \ {0} /\ (link[c] = "dialing" \/ socket = c) /\ (link'[c] = "open" => link[c] \in {"dialing", "open"})
    BY <1>1
  <2>. QED  BY <1>1, <1>3, <1>4, <2>1, <2>2, WriteMatched
<1>. QED  BY <1>5, <1>6 DEF Established

\* send() and sendBatch() on a socket, and without one.
LEMMA SendMatched ==
  ASSUME Correct, NEW r \in Requests, NEW n \in Nat \ {0}, Send(r, n)
  PROVE  Matched' /\ Filed'
<1>1. transport # "wasm" /\ UNCHANGED <<transport, socket, buf, link, toClient>>
  BY DEF Send, chosen
<1>2. CASE socket # 0 /\ Write(r, n, socket)
  <2>1. socket \in Conns /\ link[socket] \notin {"none", "dialing"}
    BY <1>2 DEF Correct, Delivery, IInv, TypeOK
  <2>2. /\ \A d \in Conns \ {socket} : link'[d] = link[d]
        /\ link[socket] = "dialing" \/ socket = socket
        /\ link'[socket] = "open" => link[socket] \in {"dialing", "open"}
    BY <1>1
  <2>. QED  BY <1>1, <1>2, <2>1, <2>2, WriteMatched
<1>3. CASE /\ promise' = [promise EXCEPT ![r] = "rejected"] /\ size' = [size EXCEPT ![r] = n]
           /\ promise[r] = "idle" /\ UNCHANGED <<waiters, out, toServer>>
  <2>1. Filed /\ promise \in [Requests -> {"idle", "pending", "resolved", "rejected"}] /\ size \in [Requests -> Nat]
    BY DEF Correct, Delivery, IInv, TypeOK
  <2>2. Filed'
    BY <1>1, <1>3, <2>1 DEF Filed
  <2>3. UNCHANGED <<buf, toClient, toServer, waiters, out>> /\ \A c \in Conns : link'[c] = "open" => link[c] = "open"
    BY <1>1, <1>3
  <2>. QED  BY <2>2, <2>3, SameDue
<1>. QED  BY <1>2, <1>3 DEF Send, IsNext

\* close() lets the answers under way be, or drops them.
LEMMA CloseMatched ==
  ASSUME Correct, Close
  PROVE  Matched' /\ Filed'
<1>0. PICK c \in Conns : c = socket
  BY DEF Correct, Delivery, IInv, TypeOK, Close
<1>1. /\ link \in [Conns -> Links] /\ toClient \in [Conns -> Seq(Pieces)]
      /\ link[c] # "ended"
  BY <1>0 DEF Correct, Delivery, IInv, TypeOK, Close
<1>2. UNCHANGED <<transport, buf, heard, pushed, waiters, promise, size, out>>
  BY DEF Close, chosen, calls
<1>3. Filed'
  BY <1>2 DEF Correct, Filed
<1>4. CASE /\ link' = IF link[c] = "open" THEN [link EXCEPT ![c] = "ended"] ELSE link
           /\ UNCHANGED <<toServer, toClient>>
  <2>1. \A d \in Conns : link'[d] = "open" => link[d] = "open"
    BY <1>1, <1>4
  <2>. QED  BY <1>2, <1>3, <1>4, <2>1, SameDue
<1>5. CASE /\ link' = IF link[c] = "open" THEN [link EXCEPT ![c] = "gone"] ELSE link
           /\ toServer' = [toServer EXCEPT ![c] = <<>>]
           /\ toClient' = [toClient EXCEPT ![c] = <<>>]
  <2>1. link'[c] \notin {"open", "ended"} /\ \A d \in Conns \ {c} : link'[d] = link[d]
    BY <1>1, <1>5
  <2>2. SubSeq(toClient[c], 1, 0) = <<>> /\ 0 \in 0 .. Len(toClient[c])
    BY <1>1, SubSeqEmpty, LenProperties
  <2>3. PICK k \in 0 .. Len(toClient[c]) : toClient' = [toClient EXCEPT ![c] = SubSeq(@, 1, k)]
    BY <1>5, <2>2
  <2>4. PICK rest \in Seq(Pieces) : Pipe(c)' \in Seq(Pieces) /\ Pipe(c) = Pipe(c)' \o rest
    <3>1. Delivery
      BY DEF Correct
    <3>. QED  BY <1>2, <2>1, <2>3, <3>1, PipeCut
  <2>5. \A d \in Conns \ {c} : toClient'[d] = toClient[d] /\ link'[d] = link[d]
    BY <1>1, <1>5, <2>1
  <2>6. /\ UNCHANGED <<waiters, out>> /\ buf' = buf /\ toServer' = [toServer EXCEPT ![c] = <<>>]
        /\ link'[c] # "open"
    BY <1>2, <1>5, <2>1
  <2>7. Matched'
    BY <2>4, <2>5, <2>6, AnswersLost
  <2>. QED  BY <1>3, <2>7
<1>. QED  BY <1>0, <1>4, <1>5 DEF Close

\* A broken connection loses what was still under way.
LEMMA BreakMatched ==
  ASSUME Correct, NEW c \in Conns, Break(c)
  PROVE  Matched' /\ Filed'
<1>1. /\ link \in [Conns -> Links] /\ toClient \in [Conns -> Seq(Pieces)] /\ Delivery
  BY DEF Correct, Delivery, IInv, TypeOK
<1>2. /\ UNCHANGED <<transport, buf, heard, pushed, waiters, promise, size, out>>
      /\ link' = [link EXCEPT ![c] = "gone"] /\ toServer' = [toServer EXCEPT ![c] = <<>>]
  BY DEF Break, client, chosen, calls
<1>3. PICK k \in 0 .. Len(toClient[c]) : toClient' = [toClient EXCEPT ![c] = SubSeq(@, 1, k)]
  BY DEF Break
<1>4. /\ link'[c] \notin {"open", "ended"} /\ link'[c] # "open"
      /\ \A d \in Conns \ {c} : toClient'[d] = toClient[d] /\ link'[d] = link[d]
  BY <1>1, <1>2, <1>3
<1>5. PICK rest \in Seq(Pieces) : Pipe(c)' \in Seq(Pieces) /\ Pipe(c) = Pipe(c)' \o rest
  BY <1>1, <1>2, <1>3, <1>4, PipeCut
<1>6. Matched'
  BY <1>2, <1>4, <1>5, AnswersLost
<1>7. Filed'
  BY <1>2 DEF Correct, Filed
<1>. QED  BY <1>6, <1>7

\* The callbacks and the network's steps that leave the answers alone.
LEMMA QuietMatched ==
  ASSUME Correct, NEW c \in Conns, Dial(c) \/ Finish(c) \/ (Refused(c) /\ transport # "ws")
  PROVE  Matched' /\ Filed'
<1>1. link \in [Conns -> Links]
  BY DEF Correct, Delivery, IInv, TypeOK
<1>2. /\ UNCHANGED <<transport, buf, toClient, toServer, waiters, promise, size, out>>
      /\ \E l \in {"dialing", "closed", "gone"} : link' = [link EXCEPT ![c] = l]
  BY DEF Dial, Finish, Refused, client, chosen, calls
<1>3. \A d \in Conns : link'[d] = "open" => link[d] = "open"
  BY <1>1, <1>2
<1>4. Filed'
  BY <1>2 DEF Correct, Filed
<1>. QED  BY <1>2, <1>3, <1>4, SameDue

\* The callbacks that reject every waiter.
LEMMA FailMatched ==
  ASSUME Correct, NEW c \in Conns, SocketError(c) \/ SocketClosed(c) \/ (Refused(c) /\ transport = "ws")
  PROVE  Matched' /\ Filed'
<1>1. /\ FailAll /\ UNCHANGED <<transport, buf, size, out, toServer, toClient>>
      /\ link[c] \in {"dialing", "gone", "errored"}
  BY DEF SocketError, SocketClosed, Refused, chosen
<1>2. toClient[c] = <<>> /\ Live(c)
  BY <1>1 DEF SocketError, SocketClosed, Refused, Live, Correct, Delivery, OneLive
<1>. QED  BY <1>1, <1>2, AllFail

\* A socket that is dialed finds who was left, and there is none to send on
\* until it has connected.
LEMMA NoWaiterNext ==
  ASSUME IInv, OneLive, NoWaiter, Next, "waiter" \notin over'
  PROVE  NoWaiter'
<1>. SUFFICES ASSUME NEW d \in Conns, link'[d] = "dialing" PROVE waiters' = <<>>
  BY DEF NoWaiter
<1>1. CASE Dial(d)
  <2>1. over' = over \cup Left /\ waiters' = waiters
    BY <1>1 DEF Dial, calls
  <2>. QED  BY <2>1 DEF Left
<1>2. CASE link[d] = "dialing"
  <2>1. waiters = <<>> /\ socket = 0 /\ \A c \in Conns : Live(c) => c = d
    BY <1>2 DEF NoWaiter, OneLive, Live
  <2>2. ASSUME NEW c \in Conns, Data(c) PROVE FALSE
    <3>1. link[c] \in {"open", "ended", "gone"}
      BY <2>2 DEF Data
    <3>. QED  BY <1>2, <2>1, <3>1 DEF Live
  <2>3. ASSUME NEW c \in Conns, Established(c) PROVE FALSE
    <3>1. link[c] = "dialing" /\ link' = [link EXCEPT ![c] = "open"] /\ link \in [Conns -> Links]
      BY <2>3 DEF Established, IInv, TypeOK
    <3>2. c = d
      BY <2>1, <3>1 DEF Live
    <3>. QED  BY <3>1, <3>2
  <2>4. waiters' = waiters \/ waiters' = <<>>
    <3>1. ASSUME NEW r \in Requests, NEW n, NEW about, Exec(r, n, about) PROVE waiters' = waiters
      BY <3>1 DEF Exec
    <3>2. ASSUME NEW c \in Conns, Dial(c) \/ Refused(c) \/ Callback(c) \/ Peer(c)
          PROVE  waiters' = waiters \/ waiters' = <<>>
      BY <2>2, <3>2 DEF Dial, Refused, Callback, SocketError, SocketClosed, FailAll,
                  Peer, Serve, Publish, Finish, Break, client, calls
    <3>3. ASSUME Application PROVE waiters' = waiters
      BY <2>1, <3>1, <3>3 DEF Application, Close, Send, SendInProcess, LoadSnapshot, calls
    <3>4. ASSUME NEW r \in Requests, Resume(r) PROVE waiters' = waiters
      BY <3>4 DEF Resume
    <3>. QED  BY <2>3, <3>2, <3>3, <3>4 DEF Next
  <2>. QED  BY <2>1, <2>4
<1>. QED  BY <1>1, <1>2, OnlyDialDials

\* One step for each action.
LEMMA CorrectNext ==
  ASSUME CarefulReconnect = TRUE, 0 \notin BatchSizes, Correct, Next, over' = {}
  PROVE  Correct'
<1>1. Delivery' /\ NoWaiter'
  BY DeliveryNext, NoWaiterNext DEF Correct, Delivery
<1>2. BatchSizes \subseteq Nat \ {0}
  BY TransportAssumption
<1>3. ASSUME NEW c \in Conns, Refused(c) PROVE Matched' /\ Filed'
  BY <1>3, QuietMatched, FailMatched
<1>4. ASSUME NEW c \in Conns, Serve(c) \/ Publish(c) PROVE Matched' /\ Filed'
  <2>1. UNCHANGED <<transport, promise, size, out>>
    BY <1>4 DEF Serve, Publish, client, chosen, calls
  <2>2. Filed'
    BY <2>1 DEF Correct, Filed
  <2>. QED  BY <1>4, <2>2, ServeDue, PublishDue
<1>5. ASSUME NEW r \in Requests, NEW n \in BatchSizes, SendInProcess(r, n) PROVE Matched' /\ Filed'
  <2>. DEFINE about == [i \in 1 .. n |-> Reply(r, i)]
  <2>1. n \in Nat /\ \A i \in 1 .. n : about[i] = Reply(r, i)
    BY <1>2
  <2>2. Exec(r, n, about)
    BY <1>5 DEF SendInProcess
  <2>. HIDE DEF about
  <2>. QED  BY <2>1, <2>2, ExecMatched
<1>6. ASSUME NEW r \in Requests, LoadSnapshot(r) PROVE Matched' /\ Filed'
  <2>. DEFINE about == <<Reply(file', 1)>>
  <2>1. \A i \in 1 .. 1 : about[i] = Reply(r, i)
    BY <1>6 DEF LoadSnapshot
  <2>2. Exec(r, 1, about) /\ 1 \in Nat
    BY <1>6 DEF LoadSnapshot
  <2>. HIDE DEF about
  <2>. QED  BY <2>1, <2>2, ExecMatched
<1>7. ASSUME NEW c \in Conns, Peer(c) PROVE Matched' /\ Filed'
  BY <1>4, <1>7, QuietMatched, BreakMatched DEF Peer
<1>8. ASSUME Application PROVE Matched' /\ Filed'
  <2>1. ASSUME NEW r \in Requests, NEW n \in BatchSizes, Send(r, n) PROVE Matched' /\ Filed'
    BY <1>2, <2>1, SendMatched
  <2>. QED  BY <1>5, <1>6, <1>8, <2>1, CloseMatched DEF Application
<1>9. ASSUME NEW c \in Conns, Callback(c) PROVE Matched' /\ Filed'
  BY <1>9, DataMatched, FailMatched DEF Callback
<1>10. ASSUME NEW c \in Conns, Dial(c) PROVE Matched' /\ Filed'
  BY <1>10, QuietMatched
<1>11. ASSUME NEW c \in Conns, Established(c) PROVE Matched' /\ Filed'
  BY <1>11, EstablishedMatched
<1>12. ASSUME NEW r \in Requests, Resume(r) PROVE Matched' /\ Filed'
  BY <1>12, ResumeMatched
<1>13. Matched' /\ Filed'
  BY <1>3, <1>7, <1>8, <1>9, <1>10, <1>11, <1>12 DEF Next
<1>. QED  BY <1>1, <1>13 DEF Correct

\* At first nothing is due and nothing is collected.
LEMMA CorrectInit == Init => Correct
<1>. SUFFICES ASSUME Init PROVE Correct
  OBVIOUS
<1>1. Delivery
  BY DeliveryInit
<1>2. /\ waiters = <<>> /\ NoWaiter /\ \A c \in Conns : link[c] = "none" /\ toClient[c] = <<>> /\ toServer[c] = <<>>
      /\ \A r \in Requests : promise[r] = "idle" /\ out[r] = <<>>
  BY DEF Init, NoWaiter
<1>3. \A c \in Conns : Due(c) = <<>>
  BY <1>1, <1>2, NothingDue DEF Delivery, Framed, IInv
<1>4. \A w : w = <<>> => Len(w) = 0
  OBVIOUS
<1>5. Matched
  <2>1. \A c \in Conns : InTurn(Due(c), waiters, out)
    BY <1>2, <1>3, <1>4, TurnNone
  <2>. QED  BY <1>2, <2>1 DEF Matched
<1>6. Filed
  <2>1. \A r \in Requests : Len(out[r]) = 0
    BY <1>2, <1>4
  <2>. QED  BY <1>2, <2>1 DEF Filed
<1>. QED  BY <1>1, <1>2, <1>5, <1>6 DEF Correct

\* Correct is an invariant of an application that is careful and sends no empty
\* batch, until it connects over half a line or a waiter.
LEMMA CorrectInvariance ==
  ASSUME CarefulReconnect = TRUE, 0 \notin BatchSizes
  PROVE  Spec => [](over = {} => Correct)
<1>. DEFINE Inv == over = {} => Correct
<1>1. Correct /\ UNCHANGED vars => Correct'
  <2>. SUFFICES ASSUME Correct, UNCHANGED vars PROVE Correct'
    OBVIOUS
  <2>1. UNCHANGED <<transport, buf, toClient, toServer, waiters, out, promise, size, link>>
    BY DEF vars, client, network, chosen, calls
  <2>2. Delivery' /\ NoWaiter'
    BY <2>1, DeliverySame DEF Correct, NoWaiter
  <2>3. \A c \in Conns : link'[c] = "open" => link[c] = "open"
    BY <2>1
  <2>4. Filed'
    BY <2>1 DEF Correct, Filed
  <2>. QED  BY <2>1, <2>2, <2>3, <2>4, SameDue DEF Correct
<1>2. Inv /\ [Next]_vars => Inv'
  <2>1. Next => over \subseteq over'
    BY OverGrows DEF Dial
  <2>2. UNCHANGED vars => over' = over
    BY DEF vars, past
  <2>. QED  BY <1>1, <2>1, <2>2, CorrectNext
<1>3. Init => Inv
  BY CorrectInit
<1>. QED  BY <1>2, <1>3, PTL DEF Spec

-----------------------------------------------------------------------------
(* The steps of Rpc, in terms of promise and size.                         *)

Answered(p, o) ==
  [r \in Requests |-> IF p[r] = "resolved" THEN [i \in 1 .. Len(o[r]) |-> AnswerTo(r, i, o[r][i])] ELSE <<>>]
OwnAnswers(p, s) ==
  [r \in Requests |-> IF p[r] = "resolved" THEN [i \in 1 .. s[r] |-> <<r, i>>] ELSE <<>>]

\* What is filed of the requests p of s commands that collected o.
AllFiled(p, s, o) ==
  \A r \in Requests : p[r] = "resolved" =>
    /\ Len(o[r]) = s[r]
    /\ \A i \in 1 .. Len(o[r]) : o[r][i] \in Returns(Reply(r, i))

\* What is filed of a resolved request is the answers to its own commands.
LEMMA AnswersAre ==
  ASSUME NEW p, NEW s, NEW o, AllFiled(p, s, o)
  PROVE  Answered(p, o) = OwnAnswers(p, s)
<1>1. \A r, i, line : line \in Returns(Reply(r, i)) => AnswerTo(r, i, line) = <<r, i>>
  BY DEF Returns, Texts, AnswerTo, Reply
<1>2. ASSUME NEW r \in Requests, p[r] = "resolved"
      PROVE  [i \in 1 .. Len(o[r]) |-> AnswerTo(r, i, o[r][i])] = [i \in 1 .. s[r] |-> <<r, i>>]
  BY <1>1, <1>2 DEF AllFiled
<1>. QED  BY <1>2 DEF Answered, OwnAnswers

\* A request is made, one resolves, all that are pending fail.
Issues(r, n) ==
  /\ IsNext(r) /\ n \in BatchSizes
  /\ \E s \in {"pending", "rejected"} : promise' = [promise EXCEPT ![r] = s]
  /\ size' = [size EXCEPT ![r] = n]
Resolves(r) ==
  /\ promise[r] = "pending" /\ \A q \in Requests : promise[q] = "pending" => r <= q
  /\ promise' = [promise EXCEPT ![r] = "resolved"] /\ size' = size
Fails ==
  /\ promise' = [r \in Requests |-> IF promise[r] = "pending" THEN "rejected" ELSE promise[r]]
  /\ size' = size

\* Each of them is a step of the abstract channel.
LEMMA MapCalls ==
  ASSUME Correct, Filed',
         \/ UNCHANGED <<promise, size>>
         \/ \E r \in Requests : Resolves(r) \/ \E n \in BatchSizes : Issues(r, n)
         \/ Fails
  PROVE  [Channel!Next]_(Channel!vars)
<1>. DEFINE ans == Answered(promise, out)
<1>1. /\ promise \in [Requests -> {"idle", "pending", "resolved", "rejected"}] /\ size \in [Requests -> Nat]
  BY DEF Correct, Delivery, IInv, TypeOK
<1>2. ans = OwnAnswers(promise, size)
  BY AnswersAre DEF Correct, Filed, AllFiled
<1>3. Answered(promise', out') = OwnAnswers(promise', size')
  <2>1. AllFiled(promise', size', out')
    BY DEF Filed, AllFiled
  <2>. QED  BY <2>1, AnswersAre
<1>4. /\ Channel!vars = <<promise, ans, size>>
      /\ (Channel!vars)' = <<promise', Answered(promise', out'), size'>>
  BY DEF Channel!vars, Answered
<1>5. CASE UNCHANGED <<promise, size>>
  BY <1>2, <1>3, <1>4, <1>5
<1>6. CASE \E r \in Requests : \E n \in BatchSizes : Issues(r, n)
  <2>1. PICK r \in Requests, n \in BatchSizes : Issues(r, n)
    BY <1>6
  <2>2. Answered(promise', out') = ans
    <3>1. promise[r] # "resolved" /\ promise'[r] # "resolved"
          /\ \A q \in Requests : q # r => promise'[q] = promise[q] /\ size'[q] = size[q]
      BY <1>1, <2>1 DEF Issues, IsNext
    <3>2. OwnAnswers(promise', size') = OwnAnswers(promise, size)
      BY <3>1 DEF OwnAnswers
    <3>. QED  BY <1>2, <1>3, <3>2
  <2>3. Channel!Issue(r)
    BY <2>1, <2>2 DEF Channel!Issue, Issues, IsNext, Answered
  <2>. QED  BY <2>3 DEF Channel!Next
<1>7. CASE \E r \in Requests : Resolves(r)
  <2>1. PICK r \in Requests : Resolves(r)
    BY <1>7
  <2>2. Answered(promise', out') = [ans EXCEPT ![r] = [i \in 1 .. size[r] |-> <<r, i>>]]
    <3>1. promise'[r] = "resolved" /\ size' = size /\ \A q \in Requests : q # r => promise'[q] = promise[q]
      BY <1>1, <2>1 DEF Resolves
    <3>2. OwnAnswers(promise', size') = [OwnAnswers(promise, size) EXCEPT ![r] = [i \in 1 .. size[r] |-> <<r, i>>]]
      BY <3>1 DEF OwnAnswers
    <3>. QED  BY <1>2, <1>3, <3>2
  <2>3. Channel!Resolve(r)
    BY <2>1, <2>2 DEF Channel!Resolve, Channel!Pending, Resolves, Answered
  <2>. QED  BY <2>3 DEF Channel!Next
<1>8. CASE Fails
  <2>1. Answered(promise', out') = ans
    <3>1. \A q \in Requests : promise'[q] = "resolved" <=> promise[q] = "resolved"
      BY <1>1, <1>8 DEF Fails
    <3>2. OwnAnswers(promise', size') = OwnAnswers(promise, size)
      BY <1>8, <3>1 DEF OwnAnswers, Fails
    <3>. QED  BY <1>2, <1>3, <3>2
  <2>2. Channel!FailAll
    BY <1>1, <1>8, <2>1 DEF Channel!FailAll, Channel!Pending, Fails, Answered
  <2>. QED  BY <2>2 DEF Channel!Next
<1>. QED  BY <1>5, <1>6, <1>7, <1>8

\* Over a socket the pending requests are the ones that have a waiter, and the
\* one at the head was made first.
LEMMA PendingWait ==
  ASSUME Correct, transport # "wasm"
  PROVE  /\ \A r \in Requests : promise[r] = "pending" <=> r \in Waiting
         /\ waiters # <<>> => \A q \in Requests : promise[q] = "pending" => Head(waiters) <= q
<1>1. /\ TypeOK /\ WaitersAreDue /\ Filed /\ waiters \in Seq(Requests) /\ out \in [Requests -> Seq(Seq(Pieces))]
      /\ size \in [Requests -> Nat] /\ Len(waiters) \in Nat
  BY LenProperties DEF Correct, Delivery, IInv, TypeOK
<1>2. ASSUME NEW r \in Requests, promise[r] = "pending" PROVE \E i \in 1 .. Len(waiters) : waiters[i] = r
  <2>1. Len(out[r]) < size[r] /\ Len(out[r]) \in Nat /\ size[r] \in Nat
    BY <1>1, <1>2, LenProperties DEF Filed
  <2>2. Count(waiters, r) # 0
    BY <1>1, <1>2, <2>1, DueParts DEF Lacks
  <2>. QED  BY <1>1, <2>2, CountType
<1>3. \A r \in Requests : promise[r] = "pending" <=> r \in Waiting
  <2>1. \A i \in 1 .. Len(waiters) : promise[waiters[i]] = "pending"
    BY <1>1, WaiterIsPending
  <2>. QED  BY <1>2, <2>1 DEF Waiting
<1>4. ASSUME waiters # <<>>, NEW q \in Requests, promise[q] = "pending" PROVE Head(waiters) <= q
  <2>1. PICK i \in 1 .. Len(waiters) : waiters[i] = q
    BY <1>2, <1>4
  <2>2. Head(waiters) = waiters[1] /\ 1 \in 1 .. Len(waiters)
    BY <1>1, <1>4, HeadTailProperties, LenProperties
  <2>3. Sorted
    BY <1>1, DueParts
  <2>. QED  BY <2>1, <2>2, <2>3 DEF Sorted
<1>. QED  BY <1>3, <1>4

-----------------------------------------------------------------------------
(* Every step maps to a step of the channel or to a stutter.               *)

\* A line: the oldest request resolves if it was its last.
LEMMA MapData ==
  ASSUME Correct, NEW c \in Conns, Data(c)
  PROVE  UNCHANGED <<promise, size>> \/ \E r \in Requests : Resolves(r)
<1>1. link[c] \in {"open", "ended", "gone"} /\ size' = size
  BY DEF Data
<1>2. transport # "wasm"
  BY <1>1 DEF Correct, Delivery, IInv, InProcess
<1>3. CASE \E line : Route(line)
  <2>1. CASE promise' = promise
    BY <1>1, <2>1
  <2>2. CASE waiters # <<>> /\ promise' = [promise EXCEPT ![Head(waiters)] = "resolved"]
    <3>1. TypeOK /\ WaitersAreDue /\ waiters \in Seq(Requests) /\ Len(waiters) \in Nat
      BY LenProperties DEF Correct, Delivery, IInv, TypeOK
    <3>2. Head(waiters) = waiters[1] /\ 1 \in 1 .. Len(waiters)
      BY <2>2, <3>1, HeadTailProperties, LenProperties
    <3>3. Head(waiters) \in Requests /\ promise[Head(waiters)] = "pending"
      BY <3>1, <3>2, WaiterIsPending
    <3>4. \A q \in Requests : promise[q] = "pending" => Head(waiters) <= q
      BY <1>2, <2>2, PendingWait
    <3>. QED  BY <1>1, <2>2, <3>3, <3>4 DEF Resolves
  <2>. QED  BY <1>3, <2>1, <2>2 DEF Route, Settle, ShiftWaiter
<1>. QED  BY <1>1, <1>3 DEF Data

\* The waiters are rejected: they are the requests that are pending.
LEMMA MapFail ==
  ASSUME Correct, NEW c \in Conns, SocketError(c) \/ SocketClosed(c) \/ (Refused(c) /\ transport = "ws")
  PROVE  Fails
<1>1. link[c] # "none" /\ FailAll /\ size' = size
  BY DEF SocketError, SocketClosed, Refused
<1>2. transport # "wasm"
  BY <1>1 DEF Correct, Delivery, IInv, InProcess
<1>. QED  BY <1>1, <1>2, PendingWait DEF FailAll, Fails

\* Every step is a step of Rpc, or changes nothing that Rpc sees.
LEMMA MapNext ==
  ASSUME CarefulReconnect = TRUE, 1 \in BatchSizes, Correct, Filed', Next
  PROVE  [Channel!Next]_(Channel!vars)
<1>. DEFINE Quietly == UNCHANGED <<promise, size>>
            Calls   == \E r \in Requests : Resolves(r) \/ \E n \in BatchSizes : Issues(r, n)
<1>1. ASSUME NEW c \in Conns, Dial(c) \/ Peer(c) \/ (Refused(c) /\ transport # "ws")
      PROVE  Quietly
  BY <1>1 DEF Dial, Peer, Serve, Publish, Finish, Break, Refused, client, calls
<1>2. ASSUME Close PROVE Quietly
  BY <1>2 DEF Close, calls
<1>3. ASSUME NEW c \in Conns, Established(c) PROVE Quietly \/ Calls
  <2>1. ASSUME NEW r \in Requests, Write(r, 1, c) PROVE Issues(r, 1)
    BY <2>1 DEF Write, Issues
  <2>. QED  BY <1>3, <2>1 DEF Established, calls
<1>4. ASSUME NEW r \in Requests, NEW n \in BatchSizes, Send(r, n) PROVE Calls
  <2>1. Issues(r, n)
    BY <1>4 DEF Send, Write, Issues
  <2>. QED  BY <2>1
<1>5. ASSUME NEW r \in Requests, NEW n \in BatchSizes, NEW about, Exec(r, n, about) PROVE Calls
  <2>1. Issues(r, n)
    BY <1>5 DEF Exec, Issues
  <2>. QED  BY <2>1
<1>6. ASSUME NEW r \in Requests, Resume(r) PROVE Calls
  <2>1. \A q \in Requests : promise[q] = "pending" => r <= q
    BY <1>6, TransportAssumption DEF Resume, Requests
  <2>2. Resolves(r)
    BY <1>6, <2>1 DEF Resume, Resolves
  <2>. QED  BY <2>2
<1>7. ASSUME NEW c \in Conns, Callback(c) PROVE Quietly \/ Calls \/ Fails
  BY <1>7, MapData, MapFail DEF Callback
<1>8. ASSUME NEW c \in Conns, Refused(c) PROVE Quietly \/ Fails
  BY <1>1, <1>8, MapFail
<1>9. ASSUME Application PROVE Quietly \/ Calls
  BY <1>2, <1>4, <1>5, <1>9 DEF Application, SendInProcess, LoadSnapshot
<1>. HIDE DEF Calls
<1>10. Quietly \/ Calls \/ Fails
  BY <1>1, <1>3, <1>6, <1>7, <1>8, <1>9 DEF Next
<1>. QED  BY <1>10, MapCalls DEF Calls

\* A transport is a pipelined channel: calls are made and settle in order, each
\* resolves with the answers to its own commands, and when the connection fails
\* all that wait fail.  So it is for an application that reconnects only when its
\* sockets have closed, until one of them leaves half a line or a waiter to the
\* next, and that sends no empty batch.
THEOREM ImplementsChannel ==
  ASSUME CarefulReconnect = TRUE, 1 \in BatchSizes, 0 \notin BatchSizes
  PROVE  Spec => ImplementsRpc
<1>. DEFINE Inv  == over = {} => Correct
            Step == over = {} => Channel!Next
<1>1. Init => Channel!Init
  BY DEF Init, Channel!Init
<1>2. Inv /\ Inv' /\ [Next]_vars => [Step]_(Channel!vars)
  <2>1. ASSUME over = {}, Correct, Next PROVE [Channel!Next]_(Channel!vars)
    <3>1. Filed'
      <4>1. ASSUME NEW c \in Conns, Dial(c) PROVE Filed'
        BY <2>1, <4>1, QuietMatched
      <4>2. over' = over => Correct'
        BY <2>1, CorrectNext
      <4>. QED  BY <2>1, <4>1, <4>2, OverGrows DEF Correct
    <3>. QED  BY <2>1, <3>1, MapNext
  <2>2. UNCHANGED vars => UNCHANGED Channel!vars
    BY DEF vars, client, calls, Channel!vars
  <2>. QED  BY <2>1, <2>2
<1>3. Spec => []Inv
  BY CorrectInvariance
<1>. QED  BY <1>1, <1>2, <1>3, PTL DEF Spec, ImplementsRpc

=============================================================================
