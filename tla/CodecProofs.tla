---------------------------- MODULE CodecProofs ----------------------------
(***************************************************************************)
(* Theorems about Codec and Commands for every set of strings, of          *)
(* encrypted columns and of answers, every width and number of rows,       *)
(* checked by TLAPS.                                                       *)
(*                                                                         *)
(* AsWritten is the inductive invariant: the table holds the rows as they  *)
(* were written, tokens where they were encrypted, and the arguments of a  *)
(* kernel arrived.  Every step keeps it because what an encoder makes of a *)
(* text the decoder on the other side takes back, in three steps:          *)
(*   - Encode escapes a text character by character (EncodeConcat), though *)
(*     it is defined as one pass over the text for each escape;            *)
(*   - to a walk in mode text these characters and pairs add one character *)
(*     each, and in mode raw themselves, and none of them separates parts  *)
(*     (Adds, EncodedAdds);                                                *)
(*   - so the split of the parts joined is the parts (SplitJoin).          *)
(* What the clients read of the table follows from it, by the same lemmas  *)
(* for the encoder of the server.  Keys of GROUPBY and lists of numbers    *)
(* are not escaped: there the separators are not in the parts.             *)
(*                                                                         *)
(* The theorems are about Spec, where the table changes, and AskSpec, with *)
(* the calls of Commands among them.                                       *)
(***************************************************************************)
EXTENDS Commands, SequenceLemmas

-----------------------------------------------------------------------------
(* Sequences.                                                              *)

\* A set of sequences that holds the empty one and, with each of its members,
\* all that are one element longer holds every sequence.
LEMMA SeqSetInduction ==
  ASSUME NEW S, NEW T, <<>> \in T, \A s \in Seq(S), x \in S : s \in T => Append(s, x) \in T
  PROVE  Seq(S) \subseteq T
<1>. DEFINE U == {m \in Nat : \A s \in Seq(S) : Len(s) = m => s \in T}
<1>1. 0 \in U
  BY EmptySeq
<1>2. ASSUME NEW m \in Nat, m \in U PROVE m + 1 \in U
  <2>. SUFFICES ASSUME NEW s \in Seq(S), Len(s) = m + 1 PROVE s \in T
    OBVIOUS
  <2>1. PICK t \in Seq(S), x \in S : s = Append(t, x) /\ Len(t) = m
    BY FrontLast
  <2>2. t \in T
    BY <1>2, <2>1
  <2>. QED  BY <2>1, <2>2
<1>. HIDE DEF U
<1>3. Nat \subseteq U
  BY <1>1, <1>2, SetInduction
<1>. QED  BY <1>3, LenProperties DEF U

\* Concatenation is associative.
LEMMA Associative ==
  ASSUME NEW S, NEW p \in Seq(S), NEW q \in Seq(S), NEW r \in Seq(S)
  PROVE  (p \o q) \o r = p \o (q \o r)
BY ConcatAssociative, SMTT(30)

\* Two elements appended.
LEMMA AppendTwo ==
  ASSUME NEW S, NEW s \in Seq(S), NEW b \in S, NEW c \in S
  PROVE  Append(Append(s, b), c) = s \o <<b, c>>
<1>. DEFINE n == Len(s)
            t == Append(s, b)
            u == Append(t, c)
            d == <<b, c>>
            v == s \o d
<1>1. /\ t \in Seq(S) /\ Len(t) = n + 1 /\ t[n + 1] = b
      /\ \A i \in 1 .. n : t[i] = s[i]
  BY AppendProperties
<1>2. n \in Nat /\ d \in Seq(S) /\ Len(d) = 2 /\ d[1] = b /\ d[2] = c
  BY LenProperties
<1>. HIDE DEF t, d
<1>3. /\ u \in Seq(S) /\ Len(u) = n + 2 /\ u[n + 2] = c
      /\ \A i \in 1 .. n + 1 : u[i] = t[i]
  <2>1. /\ u \in Seq(S) /\ Len(u) = Len(t) + 1 /\ u[Len(t) + 1] = c
        /\ \A i \in 1 .. Len(t) : u[i] = t[i]
    BY <1>1, AppendProperties
  <2>2. Len(t) + 1 = n + 2
    BY <1>1, <1>2
  <2>. HIDE DEF u
  <2>. QED  BY <1>1, <2>1, <2>2
<1>4. /\ v \in Seq(S) /\ Len(v) = n + 2
      /\ \A i \in 1 .. n + 2 : v[i] = IF i <= n THEN s[i] ELSE d[i - n]
  <2>1. /\ v \in Seq(S) /\ Len(v) = Len(s) + Len(d)
        /\ \A i \in 1 .. Len(s) + Len(d) : v[i] = IF i <= Len(s) THEN s[i] ELSE d[i - Len(s)]
    BY <1>2, ConcatProperties
  <2>. HIDE DEF v
  <2>. QED  BY <1>2, <2>1
<1>. HIDE DEF u, v
<1>5. \A i \in 1 .. n + 2 : u[i] = v[i]
  <2>. SUFFICES ASSUME NEW i \in 1 .. n + 2 PROVE u[i] = v[i]
    OBVIOUS
  <2>1. CASE i <= n
    BY <1>1, <1>2, <1>3, <1>4, <2>1
  <2>2. CASE i = n + 1
    <3>1. u[i] = b /\ v[i] = d[i - n] /\ i - n = 1
      BY <1>1, <1>2, <1>3, <1>4, <2>2
    <3>. QED  BY <1>2, <3>1
  <2>3. CASE i = n + 2
    <3>1. u[i] = c /\ v[i] = d[i - n] /\ i - n = 2
      BY <1>1, <1>2, <1>3, <1>4, <2>3
    <3>. QED  BY <1>2, <3>1
  <2>. QED  BY <1>2, <2>1, <2>2, <2>3
<1>6. u = v
  BY <1>3, <1>4, <1>5, SeqEqual
<1>. QED  BY <1>6 DEF u, v, t, d

\* A sequence of one element.
LEMMA OneOfSet ==
  ASSUME NEW S, NEW x \in S
  PROVE  <<x>> \in Seq(S)
OBVIOUS

\* The parts of a pair.
LEMMA PairParts ==
  ASSUME NEW a, NEW b, NEW t, t = <<a, b>>
  PROVE  t[1] = a /\ t[2] = b
OBVIOUS

\* If all of the elements are to be kept, all are.
LEMMA KeptAll ==
  ASSUME NEW S, NEW T, NEW s \in Seq(S), \A i \in 1 .. Len(s) : s[i] \in T
  PROVE  Kept(s, T) = s
<1>. DEFINE X == S \cap T
            U == {u \in Seq(X) : Kept(u, T) = u}
            e == <<>>
<1>1. s \in Seq(X)
  <2>. DEFINE n == Len(s)
  <2>1. n \in Nat /\ s \in [1 .. n -> S]
    BY LenProperties
  <2>2. s \in [1 .. n -> X]
    BY <2>1
  <2>. HIDE DEF n, X
  <2>. QED  BY <2>1, <2>2
<1>2. e \in U
  BY KeptEmpty, EmptySeq
<1>3. ASSUME NEW u \in Seq(X), NEW x \in X, u \in U PROVE Append(u, x) \in U
  <2>1. x \in T /\ Append(u, x) \in Seq(X)
    BY AppendProperties
  <2>. HIDE DEF X
  <2>2. Kept(Append(u, x), T) = Append(Kept(u, T), x)
    BY <2>1, KeptAppend
  <2>. QED  BY <1>3, <2>1, <2>2
<1>. HIDE DEF U
<1>4. Seq(X) \subseteq U
  BY <1>2, <1>3, SeqSetInduction
<1>. QED  BY <1>1, <1>4 DEF U

\* Everything kept belongs to the set.
LEMMA KeptIn ==
  ASSUME NEW S, NEW T, NEW s \in Seq(S)
  PROVE  Kept(s, T) \in Seq(S \cap T)
<1>. DEFINE X == S \cap T
            U == {u \in Seq(S) : Kept(u, T) \in Seq(X)}
            e == <<>>
<1>1. e \in U
  BY KeptEmpty, EmptySeq
<1>2. ASSUME NEW u \in Seq(S), NEW x \in S, u \in U PROVE Append(u, x) \in U
  <2>1. Append(u, x) \in Seq(S)
    BY AppendProperties
  <2>2. Kept(Append(u, x), T) = IF x \in T THEN Append(Kept(u, T), x) ELSE Kept(u, T)
    BY KeptAppend
  <2>3. Kept(u, T) \in Seq(X) /\ (x \in T => x \in X)
    BY <1>2
  <2>. HIDE DEF X
  <2>4. Kept(Append(u, x), T) \in Seq(X)
    BY <2>2, <2>3, AppendProperties
  <2>. QED  BY <2>1, <2>4
<1>. HIDE DEF U
<1>3. Seq(S) \subseteq U
  BY <1>1, <1>2, SeqSetInduction
<1>. QED  BY <1>3 DEF U

\* A set of numbers that is not empty has a least element.
LEMMA LeastOf ==
  ASSUME NEW I \in SUBSET Nat, I # {}
  PROVE  /\ (CHOOSE j \in I : \A k \in I : j <= k) \in I
         /\ \A i \in I : (CHOOSE j \in I : \A k \in I : j <= k) <= i
<1>. DEFINE U == {m \in Nat : \A k \in I : m <= k}
<1>1. \E j \in I : \A k \in I : j <= k
  <2>. SUFFICES ASSUME \A j \in I : \E k \in I : ~(j <= k) PROVE FALSE
    OBVIOUS
  <2>1. 0 \in U
    OBVIOUS
  <2>2. ASSUME NEW m \in Nat, m \in U PROVE m + 1 \in U
    <3>1. m \notin I
      BY <2>2
    <3>. QED  BY <2>2, <3>1
  <2>. HIDE DEF U
  <2>3. Nat \subseteq U
    BY <2>1, <2>2, SetInduction
  <2>4. PICK i : i \in I
    OBVIOUS
  <2>5. i + 1 \in U
    BY <2>3, <2>4
  <2>. QED  BY <2>4, <2>5 DEF U
<1>. QED  BY <1>1

\* A part of a sequence has elements of the same set.
LEMMA SubSeqType ==
  ASSUME NEW S, NEW s \in Seq(S), NEW a \in 1 .. Len(s) + 1, NEW b \in 0 .. Len(s)
  PROVE  SubSeq(s, a, b) \in Seq(S)
<1>1. Len(s) \in Nat /\ \A i \in 1 .. Len(s) : s[i] \in S
  BY LenProperties, ElementOfSeq
<1>2. \A i \in a .. b : s[i] \in S
  BY <1>1
<1>. QED  BY <1>1, <1>2, SubSeqProperties

\* The two parts of a text joined.
LEMMA Parts ==
  ASSUME NEW S, NEW p \in Seq(S), NEW q \in Seq(S)
  PROVE  /\ SubSeq(p \o q, 1, Len(p)) = p
         /\ SubSeq(p \o q, Len(p) + 1, Len(p \o q)) = q
<1>. DEFINE s == p \o q
            m == Len(p)
            n == Len(q)
            a == SubSeq(s, 1, m)
            b == SubSeq(s, m + 1, m + n)
<1>1. m \in Nat /\ n \in Nat
  BY LenProperties
<1>2. /\ s \in Seq(S) /\ Len(s) = m + n
      /\ \A i \in 1 .. m + n : s[i] = IF i <= m THEN p[i] ELSE q[i - m]
  BY ConcatProperties
<1>. HIDE DEF s
<1>3. a \in Seq(S) /\ Len(a) = m /\ \A i \in 1 .. m : a[i] = s[i]
  BY <1>1, <1>2, Cut
<1>4. b \in Seq(S) /\ Len(b) = n /\ \A i \in 1 .. n : b[i] = q[i]
  <2>1. \A i \in m + 1 .. m + n : s[i] \in S
    <3>1. \A i \in 1 .. m + n : s[i] \in S
      BY <1>2, ElementOfSeq
    <3>. QED  BY <1>1, <3>1
  <2>2. /\ b \in Seq(S) /\ Len(b) = IF m + 1 <= m + n THEN (m + n) - (m + 1) + 1 ELSE 0
        /\ \A i \in 1 .. (m + n) - (m + 1) + 1 : b[i] = s[(m + 1) + i - 1]
    BY <1>1, <2>1, SubSeqProperties
  <2>. HIDE DEF b
  <2>3. ASSUME NEW i \in 1 .. n PROVE b[i] = q[i]
    <3>1. i \in 1 .. (m + n) - (m + 1) + 1 /\ (m + 1) + i - 1 = m + i
      BY <1>1
    <3>2. m + i \in 1 .. m + n /\ ~(m + i <= m) /\ (m + i) - m = i
      BY <1>1
    <3>3. b[i] = s[m + i] /\ s[m + i] = q[(m + i) - m]
      BY <1>2, <2>2, <3>1, <3>2
    <3>. QED  BY <3>2, <3>3
  <2>. QED  BY <1>1, <2>2, <2>3
<1>. HIDE DEF a, b
<1>5. a = p
  <2>1. \A i \in 1 .. m : a[i] = p[i]
    BY <1>1, <1>2, <1>3
  <2>. QED  BY <1>3, <2>1, SeqEqual
<1>6. b = q
  BY <1>4, SeqEqual
<1>. QED  BY <1>2, <1>5, <1>6 DEF a, b, s

\* What FlattenSeq is the last value of.
Flattening(ss) ==
  CHOOSE f : f = [i \in 1 .. Len(ss) |-> IF i = 1 THEN ss[i] ELSE f[i - 1] \o ss[i]]

\* Its values, one for each prefix.
FlatRun(f, ss, S) ==
  /\ f \in [1 .. Len(ss) -> Seq(S)]
  /\ \A i \in 1 .. Len(ss) : f[i] = IF i = 1 THEN ss[i] ELSE f[i - 1] \o ss[i]

\* FlattenSeq has the value its recursion describes.
LEMMA FlattenDef ==
  ASSUME NEW S, NEW ss \in Seq(Seq(S)), Len(ss) # 0
  PROVE  FlattenSeq(ss) = Flattening(ss)[Len(ss)] /\ FlatRun(Flattening(ss), ss, S)
<1>. DEFINE n == Len(ss)
            X == Seq(S)
            k == Flattening(ss)
<1>1. n \in Nat /\ n # 0 /\ ss \in [1 .. n -> X]
  BY LenProperties
<1>. HIDE DEF n, X
<1>2. PICK f : f = [i \in 0 .. n |-> IF i = 0 THEN <<>> ELSE f[i - 1] \o ss[i]]
  BY <1>1, JoinExists DEF X
<1>3. JoinedUp(f, ss, n, S)
  BY <1>1, <1>2, JoinDef DEF X
<1>4. /\ f \in [0 .. n -> X] /\ f[0] = <<>>
      /\ \A i \in 1 .. n : f[i] = f[i - 1] \o ss[i]
  BY <1>3 DEF JoinedUp, X
<1>5. f[1] = ss[1]
  <2>0. 1 \in 1 .. n
    BY <1>1
  <2>1. f[1] = f[1 - 1] \o ss[1] /\ ss[1] \in Seq(S)
    <3>1. f[1] = f[1 - 1] \o ss[1]
      BY <1>4, <2>0
    <3>2. ss[1] \in X
      BY <1>1, <2>0
    <3>. QED  BY <3>1, <3>2 DEF X
  <2>2. 1 - 1 = 0
    OBVIOUS
  <2>3. <<>> \o ss[1] = ss[1]
    BY <2>1, ConcatEmptySeq
  <2>. QED  BY <1>4, <2>1, <2>2, <2>3
<1>. DEFINE h == [i \in 1 .. n |-> f[i]]
<1>6. h = [i \in 1 .. n |-> IF i = 1 THEN ss[i] ELSE h[i - 1] \o ss[i]]
  <2>1. \A i \in 1 .. n : i # 1 => i - 1 \in 1 .. n
    BY <1>1
  <2>2. \A i \in 1 .. n : f[i] = IF i = 1 THEN ss[i] ELSE h[i - 1] \o ss[i]
    BY <1>4, <1>5, <2>1
  <2>. QED  BY <2>2
<1>7. k = [i \in 1 .. n |-> IF i = 1 THEN ss[i] ELSE k[i - 1] \o ss[i]]
  <2>. HIDE DEF h
  <2>. QED  BY <1>6 DEF Flattening, n
<1>. HIDE DEF k, h
<1>8. /\ DOMAIN k = 1 .. n
      /\ \A i \in 1 .. n : k[i] = IF i = 1 THEN ss[i] ELSE k[i - 1] \o ss[i]
  <2>1. DOMAIN k = 1 .. n
    BY <1>7
  <2>2. \A i \in 1 .. n : k[i] = IF i = 1 THEN ss[i] ELSE k[i - 1] \o ss[i]
    BY <1>7
  <2>. QED  BY <2>1, <2>2
<1>9. \A i \in 1 .. n : k[i] \in X
  <2>. DEFINE U == {m \in Nat : m \in 1 .. n => k[m] \in X}
  <2>1. 0 \in U
    OBVIOUS
  <2>2. ASSUME NEW m \in Nat, m \in U PROVE m + 1 \in U
    <3>. SUFFICES ASSUME m + 1 \in 1 .. n PROVE k[m + 1] \in X
      OBVIOUS
    <3>1. ss[m + 1] \in X
      BY <1>1
    <3>2. CASE m = 0
      <4>1. m + 1 = 1
        BY <3>2
      <4>2. k[m + 1] = ss[m + 1]
        BY <1>8, <4>1
      <4>. QED  BY <3>1, <4>2
    <3>3. CASE m # 0
      <4>1. m \in 1 .. n /\ (m + 1) - 1 = m /\ m + 1 # 1
        BY <1>1, <3>3
      <4>2. k[m] \in X
        BY <2>2, <4>1
      <4>3. k[m] \o ss[m + 1] \in X
        BY <3>1, <4>2, ConcatProperties DEF X
      <4>. QED  BY <1>8, <4>1, <4>3
    <3>. QED  BY <3>2, <3>3
  <2>. HIDE DEF U
  <2>3. Nat \subseteq U
    BY <2>1, <2>2, SetInduction
  <2>. QED  BY <1>1, <2>3 DEF U
<1>10. FlattenSeq(ss) = k[n]
  BY <1>1 DEF FlattenSeq, Flattening, k, n
<1>11. k \in [1 .. n -> X]
  BY <1>7, <1>8, <1>9
<1>. QED  BY <1>8, <1>10, <1>11 DEF FlatRun, k, n, X

\* Nothing is put together of nothing.
LEMMA FlattenNone == FlattenSeq(<<>>) = <<>>
BY DEF FlattenSeq

\* One sequence more.
LEMMA FlattenMore ==
  ASSUME NEW S, NEW ss \in Seq(Seq(S)), NEW t \in Seq(S)
  PROVE  FlattenSeq(ss) \in Seq(S) /\ FlattenSeq(Append(ss, t)) = FlattenSeq(ss) \o t
<1>. DEFINE n == Len(ss)
            X == Seq(S)
            u == Append(ss, t)
            e == <<>>
<1>1. n \in Nat /\ ss \in [1 .. n -> X] /\ t \in X
  BY LenProperties
<1>2. /\ u \in Seq(X) /\ Len(u) = n + 1 /\ u[n + 1] = t
      /\ \A i \in 1 .. n : u[i] = ss[i]
  BY AppendProperties
<1>3. FlattenSeq(u) = Flattening(u)[n + 1] /\ FlatRun(Flattening(u), u, S)
  <2>. HIDE DEF u, n
  <2>. QED  BY <1>1, <1>2, FlattenDef DEF X
<1>. DEFINE g == Flattening(u)
<1>. HIDE DEF g, u
<1>4. \A i \in 1 .. n + 1 : g[i] = IF i = 1 THEN u[i] ELSE g[i - 1] \o u[i]
  BY <1>2, <1>3 DEF FlatRun, g
<1>5. CASE n = 0
  <2>1. ss = e /\ FlattenSeq(ss) = e /\ e \in X
    BY <1>5, FlattenNone, EmptySeq
  <2>2. g[1] = t
    BY <1>2, <1>4, <1>5
  <2>3. e \o t = t
    BY ConcatEmptySeq
  <2>4. n + 1 = 1
    BY <1>5
  <2>5. FlattenSeq(Append(ss, t)) = t
    BY <1>3, <2>2, <2>4 DEF g, u
  <2>. HIDE DEF e
  <2>. QED  BY <2>1, <2>3, <2>5 DEF X
<1>6. CASE n # 0
  <2>1. FlattenSeq(ss) = Flattening(ss)[n] /\ FlatRun(Flattening(ss), ss, S)
    BY <1>6, FlattenDef
  <2>. DEFINE f == Flattening(ss)
  <2>. HIDE DEF f
  <2>2. f \in [1 .. n -> X] /\ \A i \in 1 .. n : f[i] = IF i = 1 THEN ss[i] ELSE f[i - 1] \o ss[i]
    BY <2>1 DEF FlatRun, f
  <2>3. \A i \in 1 .. n : g[i] = f[i]
    <3>. DEFINE U == {m \in Nat : m \in 1 .. n => g[m] = f[m]}
    <3>1. 0 \in U
      OBVIOUS
    <3>2. ASSUME NEW m \in Nat, m \in U PROVE m + 1 \in U
      <4>. SUFFICES ASSUME m + 1 \in 1 .. n PROVE g[m + 1] = f[m + 1]
        OBVIOUS
      <4>1. m + 1 \in 1 .. n + 1 /\ u[m + 1] = ss[m + 1] /\ (m + 1) - 1 = m
        BY <1>1, <1>2
      <4>2. CASE m = 0
        <5>1. m + 1 = 1
          BY <4>2
        <5>2. g[m + 1] = u[m + 1] /\ f[m + 1] = ss[m + 1]
          BY <1>4, <2>2, <4>1, <5>1
        <5>. QED  BY <4>1, <5>2
      <4>3. CASE m # 0
        <5>1. g[m] = f[m]
          BY <3>2, <4>3, <1>1
        <5>2. m + 1 # 1
          BY <4>3
        <5>3. g[m + 1] = g[m] \o u[m + 1]
          BY <1>4, <4>1, <5>2
        <5>4. f[m + 1] = f[m] \o ss[m + 1]
          BY <2>2, <4>1, <5>2
        <5>. QED  BY <4>1, <5>1, <5>3, <5>4
      <4>. QED  BY <4>2, <4>3
    <3>. HIDE DEF U
    <3>3. Nat \subseteq U
      BY <3>1, <3>2, SetInduction
    <3>. QED  BY <1>1, <3>3 DEF U
  <2>4. n + 1 \in 1 .. n + 1 /\ (n + 1) - 1 = n /\ n \in 1 .. n /\ n + 1 # 1
    BY <1>1, <1>6
  <2>5. g[n + 1] = f[n] \o t /\ f[n] \in X
    <3>1. g[n + 1] = g[n] \o u[n + 1]
      BY <1>4, <2>4
    <3>2. g[n] = f[n] /\ f[n] \in X
      BY <2>2, <2>3, <2>4
    <3>. QED  BY <1>2, <3>1, <3>2
  <2>. QED  BY <1>3, <2>1, <2>5 DEF g, u, f
<1>. QED  BY <1>5, <1>6

-----------------------------------------------------------------------------
(* The walk of the decoders.                                               *)

\* The states of a walk over characters of S.
Walks(S) == [out : Seq(Seq(S)), cur : Seq(S), esc : BOOLEAN]

\* What a walk may put into the text that it does not find there.
Decodes(mode, S) == mode = "text" => {CR, LF} \subseteq S

\* One step of the walk keeps its state well typed.
LEMMA StepType ==
  ASSUME NEW S, NEW sep, NEW mode, Decodes(mode, S), NEW st \in Walks(S), NEW c \in S
  PROVE  Step(st, c, sep, mode) \in Walks(S)
<1>1. /\ st = [out |-> st.out, cur |-> st.cur, esc |-> st.esc]
      /\ st.out \in Seq(Seq(S)) /\ st.cur \in Seq(S) /\ st.esc \in BOOLEAN
  BY DEF Walks
<1>2. mode = "text" => Unescape(c) \in S
  BY DEF Decodes, Unescape
<1>3. \A d \in S, esc \in BOOLEAN : [out |-> st.out, cur |-> Append(st.cur, d), esc |-> esc] \in Walks(S)
  <2>. SUFFICES ASSUME NEW d \in S, NEW esc \in BOOLEAN
                PROVE  [out |-> st.out, cur |-> Append(st.cur, d), esc |-> esc] \in Walks(S)
    OBVIOUS
  <2>1. Append(st.cur, d) \in Seq(S)
    BY <1>1, AppendProperties
  <2>. QED  BY <1>1, <2>1 DEF Walks
<1>4. [out |-> st.out, cur |-> st.cur, esc |-> TRUE] \in Walks(S)
  BY <1>1 DEF Walks
<1>5. [out |-> Append(st.out, st.cur), cur |-> <<>>, esc |-> FALSE] \in Walks(S)
  <2>1. Append(st.out, st.cur) \in Seq(Seq(S)) /\ <<>> \in Seq(S)
    BY <1>1, AppendProperties, EmptySeq
  <2>. QED  BY <2>1 DEF Walks
<1>. QED  BY <1>2, <1>3, <1>4, <1>5 DEF Step

\* What Walk is the last value of.
Walking(s, sep, mode) ==
  CHOOSE f : f = [i \in 0 .. Len(s) |-> IF i = 0 THEN Start ELSE Step(f[i - 1], s[i], sep, mode)]

\* Its states, one for each prefix.
WalkRun(f, s, sep, mode, S) ==
  /\ f \in [0 .. Len(s) -> Walks(S)] /\ f[0] = Start
  /\ \A i \in 1 .. Len(s) : f[i] = Step(f[i - 1], s[i], sep, mode)

\* Walk has the value its recursion describes.
LEMMA WalkDef ==
  ASSUME NEW S, NEW sep, NEW mode, Decodes(mode, S), NEW s \in Seq(S)
  PROVE  Walk(s, sep, mode) = Walking(s, sep, mode)[Len(s)] /\ WalkRun(Walking(s, sep, mode), s, sep, mode, S)
<1>. DEFINE n == Len(s)
            X == Walks(S)
            step == [i \in 1 .. n |-> [x \in X |-> Step(x, s[i], sep, mode)]]
            k == Walking(s, sep, mode)
<1>1. n \in Nat /\ \A i \in 1 .. n : s[i] \in S
  BY LenProperties, ElementOfSeq
<1>2. \A x \in X, i \in 1 .. n : step[i][x] = Step(x, s[i], sep, mode)
  OBVIOUS
<1>3. \A x \in X, i \in 1 .. n : step[i][x] \in X
  <2>. HIDE DEF step, n
  <2>. QED  BY <1>1, <1>2, StepType
<1>4. step \in [1 .. n -> [X -> X]] /\ Start \in X
  <2>1. Start \in X
    <3>1. <<>> \in Seq(Seq(S)) /\ <<>> \in Seq(S)
      BY EmptySeq
    <3>. QED  BY <3>1 DEF Start, Walks
  <2>. QED  BY <1>3, <2>1
<1>. HIDE DEF n, X, step
<1>5. PICK f \in [0 .. n -> X] : f[0] = Start /\ \A i \in 1 .. n : f[i] = step[i][f[i - 1]]
  <2>. DEFINE e == Start
  <2>1. n \in Nat /\ e \in X /\ step \in [1 .. n -> [X -> X]]
    BY <1>1, <1>4
  <2>. HIDE DEF e
  <2>2. \E f : Run(f, n, X, e, step)
    BY <2>1, Recursion
  <2>. QED  BY <2>2 DEF Run, e
<1>6. \A i \in 1 .. n : f[i - 1] \in X /\ f[i] = Step(f[i - 1], s[i], sep, mode)
  <2>1. \A i \in 1 .. n : i - 1 \in 0 .. n
    BY <1>1
  <2>. QED  BY <1>2, <1>5, <2>1
<1>7. f = [i \in 0 .. n |-> IF i = 0 THEN Start ELSE Step(f[i - 1], s[i], sep, mode)]
  <2>1. \A i \in 0 .. n : i = 0 \/ i \in 1 .. n
    BY <1>1
  <2>. QED  BY <1>5, <1>6, <2>1
<1>8. k = [i \in 0 .. n |-> IF i = 0 THEN Start ELSE Step(k[i - 1], s[i], sep, mode)]
  BY <1>7 DEF Walking, n
<1>. HIDE DEF k
<1>9. DOMAIN k = 0 .. n /\ k[0] = Start /\ \A i \in 1 .. n : k[i] = Step(k[i - 1], s[i], sep, mode)
  <2>1. DOMAIN k = 0 .. n
    BY <1>8
  <2>2. \A i \in 0 .. n : k[i] = IF i = 0 THEN Start ELSE Step(k[i - 1], s[i], sep, mode)
    BY <1>8
  <2>3. 0 \in 0 .. n /\ \A i \in 1 .. n : i \in 0 .. n /\ i # 0
    BY <1>1
  <2>. QED  BY <2>1, <2>2, <2>3
<1>10. \A i \in 0 .. n : k[i] \in X
  <2>. DEFINE U == {m \in Nat : m <= n => k[m] \in X}
  <2>1. 0 \in U
    BY <1>4, <1>9
  <2>2. ASSUME NEW m \in Nat, m \in U PROVE m + 1 \in U
    <3>. SUFFICES ASSUME m + 1 <= n PROVE k[m + 1] \in X
      OBVIOUS
    <3>1. (m + 1) - 1 = m /\ m + 1 \in 1 .. n /\ k[m] \in X
      BY <1>1, <2>2
    <3>2. s[m + 1] \in S
      BY <1>1, <3>1
    <3>3. Step(k[m], s[m + 1], sep, mode) \in X
      BY <3>1, <3>2, StepType DEF X
    <3>. QED  BY <1>9, <3>1, <3>3
  <2>. HIDE DEF U
  <2>3. Nat \subseteq U
    BY <2>1, <2>2, SetInduction
  <2>. QED  BY <1>1, <2>3 DEF U
<1>11. Walk(s, sep, mode) = k[n]
  BY DEF Walk, Walking, k, n
<1>12. k \in [0 .. n -> X]
  BY <1>8, <1>9, <1>10
<1>. QED  BY <1>9, <1>11, <1>12 DEF WalkRun, k, n, X

\* The state after a walk.
LEMMA WalkType ==
  ASSUME NEW S, NEW sep, NEW mode, Decodes(mode, S), NEW s \in Seq(S)
  PROVE  Walk(s, sep, mode) \in Walks(S)
<1>1. Len(s) \in 0 .. Len(s)
  BY LenProperties
<1>2. /\ Walk(s, sep, mode) = Walking(s, sep, mode)[Len(s)]
      /\ Walking(s, sep, mode) \in [0 .. Len(s) -> Walks(S)]
  <2>1. Walk(s, sep, mode) = Walking(s, sep, mode)[Len(s)] /\ WalkRun(Walking(s, sep, mode), s, sep, mode, S)
    BY WalkDef
  <2>. QED  BY <2>1 DEF WalkRun
<1>. QED  BY <1>1, <1>2

\* A walk over nothing stays where it started.
LEMMA WalkNothing == ASSUME NEW sep, NEW mode PROVE Walk(<<>>, sep, mode) = Start
<1>. DEFINE e == <<>>
            S == {CR, LF}
<1>1. e \in Seq(S) /\ Len(e) = 0 /\ Decodes(mode, S)
  BY EmptySeq DEF Decodes
<1>. HIDE DEF e, S
<1>2. Walk(e, sep, mode) = Walking(e, sep, mode)[Len(e)] /\ WalkRun(Walking(e, sep, mode), e, sep, mode, S)
  BY <1>1, WalkDef
<1>3. Walk(e, sep, mode) = Start
  BY <1>1, <1>2 DEF WalkRun
<1>. QED  BY <1>3 DEF e

\* One character more is one step more.
LEMMA WalkAppend ==
  ASSUME NEW S, NEW sep, NEW mode, Decodes(mode, S), NEW s \in Seq(S), NEW c \in S
  PROVE  Walk(Append(s, c), sep, mode) = Step(Walk(s, sep, mode), c, sep, mode)
<1>. DEFINE t == Append(s, c)
            n == Len(s)
            f == Walking(s, sep, mode)
            g == Walking(t, sep, mode)
<1>1. n \in Nat /\ t \in Seq(S) /\ Len(t) = n + 1 /\ t[n + 1] = c /\ \A i \in 1 .. n : t[i] = s[i]
  BY AppendProperties, LenProperties
<1>. HIDE DEF t
<1>2. Walk(s, sep, mode) = f[n] /\ WalkRun(f, s, sep, mode, S)
  BY WalkDef
<1>3. Walk(t, sep, mode) = g[n + 1] /\ WalkRun(g, t, sep, mode, S)
  BY <1>1, WalkDef
<1>. HIDE DEF f, g, n
<1>4. f[0] = Start /\ \A i \in 1 .. n : f[i] = Step(f[i - 1], s[i], sep, mode)
  BY <1>2 DEF WalkRun, n
<1>5. g[0] = Start /\ \A i \in 1 .. n + 1 : g[i] = Step(g[i - 1], t[i], sep, mode)
  BY <1>1, <1>3 DEF WalkRun, n
<1>6. \A i \in 0 .. n : g[i] = f[i]
  <2>. DEFINE U == {m \in Nat : m <= n => g[m] = f[m]}
  <2>1. 0 \in U
    BY <1>4, <1>5
  <2>2. ASSUME NEW m \in Nat, m \in U PROVE m + 1 \in U
    <3>. SUFFICES ASSUME m + 1 <= n PROVE g[m + 1] = f[m + 1]
      OBVIOUS
    <3>1. (m + 1) - 1 = m /\ m + 1 \in 1 .. n /\ m + 1 \in 1 .. n + 1 /\ g[m] = f[m]
      BY <1>1, <2>2
    <3>. QED  BY <1>1, <1>4, <1>5, <3>1
  <2>. HIDE DEF U
  <2>3. Nat \subseteq U
    BY <2>1, <2>2, SetInduction
  <2>. QED  BY <1>1, <2>3 DEF U
<1>7. g[n + 1] = Step(g[n], c, sep, mode)
  <2>1. n + 1 \in 1 .. n + 1 /\ (n + 1) - 1 = n
    BY <1>1
  <2>. QED  BY <1>1, <1>5, <2>1
<1>8. g[n] = f[n]
  BY <1>1, <1>6
<1>. QED  BY <1>2, <1>3, <1>7, <1>8 DEF t

\* What a step does, out of an escape and in one.
LEMMA StepBackslash ==
  ASSUME NEW o, NEW u, NEW sep, NEW mode
  PROVE  /\ mode = "text" =>
              Step([out |-> o, cur |-> u, esc |-> FALSE], Backslash, sep, mode) = [out |-> o, cur |-> u, esc |-> TRUE]
         /\ mode = "raw" =>
              Step([out |-> o, cur |-> u, esc |-> FALSE], Backslash, sep, mode) =
                [out |-> o, cur |-> Append(u, Backslash), esc |-> TRUE]
BY DEF Step

\* A separator ends a part.
LEMMA StepSeparates ==
  ASSUME NEW o, NEW u, NEW sep, NEW mode, sep # Backslash \/ mode = "plain"
  PROVE  Step([out |-> o, cur |-> u, esc |-> FALSE], sep, sep, mode) =
           [out |-> Append(o, u), cur |-> <<>>, esc |-> FALSE]
BY DEF Step

\* Any other character is added to the part.
LEMMA StepAdds ==
  ASSUME NEW o, NEW u, NEW c, NEW sep, NEW mode, c # sep, c # Backslash \/ mode = "plain"
  PROVE  Step([out |-> o, cur |-> u, esc |-> FALSE], c, sep, mode) =
           [out |-> o, cur |-> Append(u, c), esc |-> FALSE]
BY DEF Step

\* So is one after a backslash, that a text has been read to mean.
LEMMA StepEscaped ==
  ASSUME NEW o, NEW u, NEW c, NEW sep, NEW mode
  PROVE  Step([out |-> o, cur |-> u, esc |-> TRUE], c, sep, mode) =
           [out |-> o, cur |-> Append(u, IF mode = "text" THEN Unescape(c) ELSE c), esc |-> FALSE]
BY DEF Step

\* The text does not end inside an escape.
Uncut(s, sep, mode) == Walk(s, sep, mode).esc = FALSE

\* After a piece t of a text that is not cut inside an escape, w is added to
\* the current part.
Adds(t, w, sep, mode, S) ==
  \A s \in Seq(S) : Uncut(s, sep, mode) =>
    Walk(s \o t, sep, mode) =
      [out |-> Walk(s, sep, mode).out, cur |-> Walk(s, sep, mode).cur \o w, esc |-> FALSE]

\* No text adds nothing.
LEMMA AddsNothing ==
  ASSUME NEW S, NEW sep, NEW mode, Decodes(mode, S)
  PROVE  Adds(<<>>, <<>>, sep, mode, S)
<1>. DEFINE e == <<>>
<1>. SUFFICES ASSUME NEW s \in Seq(S), Uncut(s, sep, mode)
              PROVE  Walk(s \o e, sep, mode) =
                       [out |-> Walk(s, sep, mode).out, cur |-> Walk(s, sep, mode).cur \o e, esc |-> FALSE]
  BY DEF Adds
<1>. DEFINE x == Walk(s, sep, mode)
<1>1. x \in Walks(S)
  BY WalkType
<1>. HIDE DEF x
<1>2. x = [out |-> x.out, cur |-> x.cur, esc |-> FALSE] /\ x.cur \in Seq(S)
  BY <1>1 DEF Walks, Uncut, x
<1>3. s \o e = s /\ x.cur \o e = x.cur
  BY <1>2, ConcatEmptySeq
<1>4. Walk(s \o e, sep, mode) = x
  BY <1>3 DEF x
<1>. HIDE DEF e
<1>5. x = [out |-> x.out, cur |-> x.cur \o e, esc |-> FALSE]
  BY <1>2, <1>3
<1>. QED  BY <1>4, <1>5 DEF x

\* Two texts that add something add both, one after the other.
LEMMA AddsMore ==
  ASSUME NEW S, NEW sep, NEW mode, Decodes(mode, S),
         NEW t \in Seq(S), NEW w \in Seq(S), NEW u \in Seq(S), NEW v \in Seq(S),
         Adds(t, w, sep, mode, S), Adds(u, v, sep, mode, S)
  PROVE  Adds(t \o u, w \o v, sep, mode, S)
<1>0. ASSUME NEW a \in Seq(S) PROVE (a \o w) \o v = a \o (w \o v)
  BY Associative, SMTT(30)
<1>. DEFINE tu == t \o u
            wv == w \o v
<1>. SUFFICES ASSUME NEW s \in Seq(S), Uncut(s, sep, mode)
              PROVE  Walk(s \o tu, sep, mode) =
                       [out |-> Walk(s, sep, mode).out, cur |-> Walk(s, sep, mode).cur \o wv, esc |-> FALSE]
  BY DEF Adds
<1>. DEFINE x == Walk(s, sep, mode)
            st == s \o t
            y == Walk(st, sep, mode)
            c == x.cur
            z == c \o w
<1>1. x \in Walks(S)
  BY WalkType
<1>2. c \in Seq(S)
  <2>. HIDE DEF x
  <2>. QED  BY <1>1 DEF Walks
<1>3. st \in Seq(S) /\ s \o tu = st \o u
  <2>1. (s \o t) \o u = s \o (t \o u)
    BY Associative, SMTT(30)
  <2>2. st \in Seq(S)
    BY ConcatProperties
  <2>. QED  BY <2>1, <2>2
<1>4. z \o v = c \o wv
  <2>. HIDE DEF c
  <2>. QED  BY <1>0, <1>2
<1>5. y = [out |-> x.out, cur |-> z, esc |-> FALSE]
  BY DEF Adds
<1>. HIDE DEF z, y, x, st, tu, wv
<1>6. y.out = x.out /\ y.cur = z /\ y.esc = FALSE
  BY <1>5
<1>7. Walk(st \o u, sep, mode) = [out |-> y.out, cur |-> y.cur \o v, esc |-> FALSE]
  BY <1>3, <1>6 DEF Adds, Uncut, y
<1>8. Walk(s \o tu, sep, mode) = [out |-> x.out, cur |-> x.cur \o wv, esc |-> FALSE]
  BY <1>3, <1>4, <1>6, <1>7
<1>. QED  BY <1>8 DEF x

\* A character that neither escapes nor separates.
LEMMA AddsChar ==
  ASSUME NEW S, NEW sep, NEW mode, Decodes(mode, S), NEW c \in S,
         c # sep, c # Backslash \/ mode = "plain"
  PROVE  Adds(<<c>>, <<c>>, sep, mode, S)
<1>. DEFINE d == <<c>>
<1>. SUFFICES ASSUME NEW s \in Seq(S), Uncut(s, sep, mode)
              PROVE  Walk(s \o d, sep, mode) =
                       [out |-> Walk(s, sep, mode).out, cur |-> Walk(s, sep, mode).cur \o d, esc |-> FALSE]
  BY DEF Adds
<1>. DEFINE x == Walk(s, sep, mode)
<1>1. x \in Walks(S)
  BY WalkType
<1>2. x = [out |-> x.out, cur |-> x.cur, esc |-> FALSE] /\ x.cur \in Seq(S)
  <2>1. x.esc = FALSE
    BY DEF Uncut
  <2>. HIDE DEF x
  <2>. QED  BY <1>1, <2>1 DEF Walks
<1>3. Walk(Append(s, c), sep, mode) = Step(x, c, sep, mode)
  BY WalkAppend
<1>. HIDE DEF x
<1>4. s \o d = Append(s, c) /\ x.cur \o d = Append(x.cur, c)
  BY <1>2, AppendIsConcat
<1>. DEFINE z == x.cur \o d
<1>. HIDE DEF z, d
<1>5. Append(x.cur, c) = z
  BY <1>4 DEF z
<1>6. Step(x, c, sep, mode) = [out |-> x.out, cur |-> z, esc |-> FALSE]
  <2>1. Step([out |-> x.out, cur |-> x.cur, esc |-> FALSE], c, sep, mode) =
          [out |-> x.out, cur |-> Append(x.cur, c), esc |-> FALSE]
    BY StepAdds
  <2>. QED  BY <1>2, <1>5, <2>1
<1>7. Walk(s \o d, sep, mode) = [out |-> x.out, cur |-> z, esc |-> FALSE]
  BY <1>3, <1>4, <1>6
<1>. QED  BY <1>7 DEF x, z

\* A backslash and the character it takes along.
LEMMA AddsPair ==
  ASSUME NEW S, NEW sep, NEW mode \in {"text", "raw"}, Decodes(mode, S), Backslash \in S, NEW c \in S
  PROVE  Adds(<<Backslash, c>>, IF mode = "text" THEN <<Unescape(c)>> ELSE <<Backslash, c>>, sep, mode, S)
<1>. DEFINE d == <<Backslash, c>>
            w == IF mode = "text" THEN <<Unescape(c)>> ELSE <<Backslash, c>>
<1>. SUFFICES ASSUME NEW s \in Seq(S), Uncut(s, sep, mode)
              PROVE  Walk(s \o d, sep, mode) =
                       [out |-> Walk(s, sep, mode).out, cur |-> Walk(s, sep, mode).cur \o w, esc |-> FALSE]
  BY DEF Adds
<1>. DEFINE x == Walk(s, sep, mode)
            t == Append(s, Backslash)
            y == Walk(t, sep, mode)
            z == x.cur \o w
<1>1. x \in Walks(S)
  BY WalkType
<1>2. x = [out |-> x.out, cur |-> x.cur, esc |-> FALSE] /\ x.cur \in Seq(S)
  <2>1. x.esc = FALSE
    BY DEF Uncut
  <2>. HIDE DEF x
  <2>. QED  BY <1>1, <2>1 DEF Walks
<1>3. t \in Seq(S) /\ s \o d = Append(t, c)
  BY AppendTwo, AppendProperties
<1>4. y = Step(x, Backslash, sep, mode)
  BY WalkAppend
<1>. HIDE DEF x, d, t
<1>5. Walk(s \o d, sep, mode) = Step(y, c, sep, mode)
  BY <1>3, WalkAppend
<1>. HIDE DEF y
<1>6. Step(y, c, sep, mode) = [out |-> x.out, cur |-> z, esc |-> FALSE]
  <2>1. CASE mode = "text"
    <3>1. y = [out |-> x.out, cur |-> x.cur, esc |-> TRUE]
      <4>1. Step([out |-> x.out, cur |-> x.cur, esc |-> FALSE], Backslash, sep, mode) =
              [out |-> x.out, cur |-> x.cur, esc |-> TRUE]
        BY <2>1, StepBackslash
      <4>. QED  BY <1>2, <1>4, <4>1
    <3>2. Unescape(c) \in S
      BY <2>1 DEF Unescape, Decodes
    <3>3. Append(x.cur, Unescape(c)) = z
      <4>1. Append(x.cur, Unescape(c)) = x.cur \o <<Unescape(c)>>
        BY <1>2, <3>2, AppendIsConcat
      <4>. QED  BY <2>1, <4>1
    <3>. HIDE DEF z
    <3>4. Step(y, c, sep, mode) = [out |-> x.out, cur |-> Append(x.cur, Unescape(c)), esc |-> FALSE]
      <4>. DEFINE o == x.out
                  k == x.cur
      <4>. HIDE DEF o, k
      <4>1. y = [out |-> o, cur |-> k, esc |-> TRUE]
        BY <3>1 DEF o, k
      <4>2. Step(y, c, sep, mode) = [out |-> o, cur |-> Append(k, Unescape(c)), esc |-> FALSE]
        BY <4>1, <2>1, StepEscaped
      <4>. QED  BY <4>2 DEF o, k
    <3>. QED  BY <3>3, <3>4
  <2>2. CASE mode = "raw"
    <3>1. y = [out |-> x.out, cur |-> Append(x.cur, Backslash), esc |-> TRUE]
      <4>1. Step([out |-> x.out, cur |-> x.cur, esc |-> FALSE], Backslash, sep, mode) =
              [out |-> x.out, cur |-> Append(x.cur, Backslash), esc |-> TRUE]
        BY <2>2, StepBackslash
      <4>. QED  BY <1>2, <1>4, <4>1
    <3>2. Append(Append(x.cur, Backslash), c) = z
      <4>1. Append(Append(x.cur, Backslash), c) = x.cur \o <<Backslash, c>>
        BY <1>2, AppendTwo
      <4>. QED  BY <2>2, <4>1
    <3>. HIDE DEF z
    <3>3. Step(y, c, sep, mode) = [out |-> x.out, cur |-> Append(Append(x.cur, Backslash), c), esc |-> FALSE]
      <4>. DEFINE o == x.out
                  k == Append(x.cur, Backslash)
      <4>. HIDE DEF o, k
      <4>1. y = [out |-> o, cur |-> k, esc |-> TRUE]
        BY <3>1 DEF o, k
      <4>2. Step(y, c, sep, mode) = [out |-> o, cur |-> Append(k, c), esc |-> FALSE]
        BY <4>1, <2>2, StepEscaped
      <4>. QED  BY <4>2 DEF o, k
    <3>. QED  BY <3>2, <3>3
  <2>. QED  BY <2>1, <2>2
<1>. HIDE DEF z
<1>7. Walk(s \o d, sep, mode) = [out |-> x.out, cur |-> z, esc |-> FALSE]
  BY <1>5, <1>6
<1>. QED  BY <1>7 DEF x, z

-----------------------------------------------------------------------------
(* The encoders.                                                           *)

\* What is put in the place of one character.
Code(c, pair) == IF c = pair[1] THEN pair[2] ELSE <<c>>

\* The codes of all characters of a text.
Codes(s, pair) == [i \in 1 .. Len(s) |-> Code(s[i], pair)]

\* Replace puts the codes of the characters together.
LEMMA ReplaceCodes ==
  ASSUME NEW s, NEW pair PROVE Replace(s, pair) = FlattenSeq(Codes(s, pair))
BY DEF Replace, Codes, Code

\* The code of a character is a text.
LEMMA CodeType ==
  ASSUME NEW S, NEW pair, pair[2] \in Seq(S), NEW c \in S PROVE Code(c, pair) \in Seq(S)
<1>1. <<c>> \in Seq(S)
  OBVIOUS
<1>. QED  BY <1>1 DEF Code

\* So the codes are a sequence of texts.
LEMMA CodesSeq ==
  ASSUME NEW S, NEW pair, pair[2] \in Seq(S), NEW s \in Seq(S)
  PROVE  Codes(s, pair) \in Seq(Seq(S)) /\ Len(Codes(s, pair)) = Len(s)
<1>1. Len(s) \in Nat /\ \A i \in 1 .. Len(s) : s[i] \in S
  BY LenProperties, ElementOfSeq
<1>2. Codes(s, pair) \in [1 .. Len(s) -> Seq(S)]
  BY <1>1, CodeType DEF Codes
<1>. QED  BY <1>1, <1>2, IsASeq, LenProperties

\* One pass of an encoder makes a text of a text.
LEMMA ReplaceType ==
  ASSUME NEW S, NEW pair, pair[2] \in Seq(S), NEW s \in Seq(S)
  PROVE  Replace(s, pair) \in Seq(S)
<1>. DEFINE f == Codes(s, pair)
            e == <<>>
<1>1. f \in Seq(Seq(S))
  BY CodesSeq
<1>2. e \in Seq(S)
  BY EmptySeq
<1>. HIDE DEF f, e
<1>3. FlattenSeq(f) \in Seq(S)
  BY <1>1, <1>2, FlattenMore
<1>. QED  BY <1>3, ReplaceCodes DEF f

\* Nothing is replaced in no text.
LEMMA ReplaceNothing == ASSUME NEW pair PROVE Replace(<<>>, pair) = <<>>
<1>. DEFINE e == <<>>
<1>1. Codes(e, pair) = e
  BY DEF Codes
<1>. QED  BY <1>1, FlattenNone, ReplaceCodes

\* One character more is one code more.
LEMMA ReplaceAppend ==
  ASSUME NEW S, NEW pair, pair[2] \in Seq(S), NEW s \in Seq(S), NEW c \in S
  PROVE  Replace(Append(s, c), pair) = Replace(s, pair) \o Code(c, pair)
<1>. DEFINE d == Code(c, pair)
            f == Codes(s, pair)
            t == Append(s, c)
            g == Codes(t, pair)
            n == Len(s)
            a == Append(f, d)
<1>1. n \in Nat /\ t \in Seq(S) /\ Len(t) = n + 1 /\ t[n + 1] = c /\ \A i \in 1 .. n : t[i] = s[i]
  BY AppendProperties, LenProperties
<1>2. f \in Seq(Seq(S)) /\ Len(f) = n
  BY CodesSeq
<1>3. d \in Seq(S)
  BY CodeType
<1>4. \A i \in 1 .. n : f[i] = Code(s[i], pair)
  BY DEF Codes
<1>. HIDE DEF t, f, d
<1>5. g \in Seq(Seq(S)) /\ Len(g) = n + 1
  BY <1>1, CodesSeq
<1>6. \A i \in 1 .. n + 1 : g[i] = Code(t[i], pair)
  BY <1>1 DEF Codes
<1>7. a \in Seq(Seq(S)) /\ Len(a) = n + 1 /\ a[n + 1] = d /\ \A i \in 1 .. n : a[i] = f[i]
  BY <1>2, <1>3, AppendProperties
<1>. HIDE DEF g, a
<1>8. g = a
  <2>1. \A i \in 1 .. n + 1 : i = n + 1 \/ i \in 1 .. n
    BY <1>1
  <2>2. g[n + 1] = d
    BY <1>1, <1>6 DEF d
  <2>3. \A i \in 1 .. n : g[i] = f[i]
    <3>1. \A i \in 1 .. n : i \in 1 .. n + 1
      BY <1>1
    <3>. HIDE DEF n
    <3>. QED  BY <3>1, <1>1, <1>4, <1>6
  <2>4. \A i \in 1 .. n + 1 : g[i] = a[i]
    BY <1>7, <2>1, <2>2, <2>3
  <2>. QED  BY <1>5, <1>7, <2>4, SeqEqual
<1>9. FlattenSeq(a) = FlattenSeq(f) \o d
  BY <1>2, <1>3, FlattenMore DEF a
<1>10. Replace(t, pair) = FlattenSeq(g) /\ Replace(s, pair) = FlattenSeq(f)
  BY ReplaceCodes DEF f, g
<1>. QED  BY <1>8, <1>9, <1>10 DEF t, d

\* A text of one character becomes its code.
LEMMA ReplaceOne ==
  ASSUME NEW S, NEW pair, pair[2] \in Seq(S), NEW c \in S
  PROVE  Replace(<<c>>, pair) = Code(c, pair)
<1>. DEFINE e == <<>>
            d == Code(c, pair)
            a == Replace(Append(e, c), pair)
<1>1. e \in Seq(S) /\ Append(e, c) = <<c>>
  BY EmptySeq
<1>2. d \in Seq(S)
  BY CodeType
<1>3. Replace(e, pair) = e
  BY ReplaceNothing
<1>4. a = Replace(e, pair) \o Code(c, pair)
  <2>. HIDE DEF e
  <2>. QED  BY <1>1, ReplaceAppend
<1>. HIDE DEF d
<1>5. <<>> \o d = d
  BY <1>2, ConcatEmptySeq
<1>6. Replace(e, pair) \o d = d
  BY <1>3, <1>5
<1>7. a = d
  BY <1>4, <1>6 DEF d
<1>. QED  BY <1>1, <1>7 DEF d

\* Sequences of one and of two elements.
LEMMA AppendOne ==
  ASSUME NEW S, NEW b \in S, NEW c \in S
  PROVE  /\ <<b>> \in Seq(S) /\ <<b, c>> \in Seq(S)
         /\ Append(<<b>>, c) = <<b, c>> /\ <<b>> \o <<c>> = <<b, c>>
<1>. DEFINE e == <<>>
            d == <<b>>
            w == <<b, c>>
<1>1. e \in Seq(S) /\ d \in Seq(S) /\ w \in Seq(S) /\ Append(e, b) = d
  BY EmptySeq
<1>. HIDE DEF e
<1>2. Append(Append(e, b), c) = e \o w
  BY <1>1, AppendTwo
<1>. HIDE DEF d, w
<1>3. e \o w = w
  BY <1>1, ConcatEmptySeq DEF e
<1>4. Append(d, c) = d \o <<c>>
  BY <1>1, AppendIsConcat
<1>5. Append(d, c) = w /\ d \o <<c>> = w
  BY <1>1, <1>2, <1>3, <1>4
<1>. QED  BY <1>1, <1>5 DEF d, w

\* A pass leaves two characters it is not about.
LEMMA ReplaceTwo ==
  ASSUME NEW S, NEW pair, pair[2] \in Seq(S), NEW b \in S, NEW c \in S, b # pair[1], c # pair[1]
  PROVE  Replace(<<b, c>>, pair) = <<b, c>>
<1>. DEFINE d == <<b>>
<1>1. d \in Seq(S) /\ Append(d, c) = <<b, c>>
  BY AppendOne
<1>2. Replace(d, pair) = d
  BY ReplaceOne DEF Code
<1>. HIDE DEF d
<1>3. Replace(Append(d, c), pair) = d \o <<c>>
  <2>1. Replace(Append(d, c), pair) = Replace(d, pair) \o Code(c, pair)
    BY <1>1, ReplaceAppend
  <2>2. Code(c, pair) = <<c>>
    BY DEF Code
  <2>. QED  BY <1>2, <2>1, <2>2
<1>. QED  BY <1>1, <1>3, AppendOne DEF d

\* Appending to the second of two sequences joined.
LEMMA ConcatAppend ==
  ASSUME NEW S, NEW s \in Seq(S), NEW t \in Seq(S), NEW c \in S
  PROVE  s \o Append(t, c) = Append(s \o t, c)
<1>. DEFINE d == <<c>>
            st == s \o t
<1>1. d \in Seq(S) /\ Append(t, c) = t \o d /\ st \in Seq(S)
  BY AppendIsConcat, ConcatProperties
<1>2. Append(st, c) = st \o d
  <2>. HIDE DEF st
  <2>. QED  BY <1>1, AppendIsConcat
<1>. HIDE DEF d
<1>3. st \o d = s \o (t \o d)
  BY <1>1, Associative, SMTT(30)
<1>. QED  BY <1>1, <1>2, <1>3 DEF st

\* A pass over two texts joined is a pass over each.
LEMMA ReplaceConcat ==
  ASSUME NEW S, NEW pair, pair[2] \in Seq(S), NEW s \in Seq(S)
  PROVE  \A t \in Seq(S) : Replace(s \o t, pair) = Replace(s, pair) \o Replace(t, pair)
<1>. DEFINE T == {t \in Seq(S) : Replace(s \o t, pair) = Replace(s, pair) \o Replace(t, pair)}
            a == Replace(s, pair)
            e == <<>>
<1>1. a \in Seq(S)
  BY ReplaceType
<1>2. e \in T
  <2>1. s \o e = s
    BY ConcatEmptySeq
  <2>2. Replace(e, pair) = e
    BY ReplaceNothing
  <2>3. a \o e = a
    <3>. HIDE DEF a
    <3>. QED  BY <1>1, ConcatEmptySeq
  <2>4. e \in Seq(S)
    BY EmptySeq
  <2>. HIDE DEF e
  <2>. QED  BY <2>1, <2>2, <2>3, <2>4
<1>3. ASSUME NEW t \in Seq(S), NEW c \in S, t \in T PROVE Append(t, c) \in T
  <2>. DEFINE d == Code(c, pair)
              b == Replace(t, pair)
              st == s \o t
              tc == Append(t, c)
  <2>1. st \in Seq(S) /\ tc \in Seq(S)
    BY ConcatProperties, AppendProperties
  <2>2. d \in Seq(S) /\ b \in Seq(S)
    BY CodeType, ReplaceType
  <2>3. s \o tc = Append(st, c)
    BY ConcatAppend
  <2>4. Replace(tc, pair) = Replace(t, pair) \o Code(c, pair)
    BY ReplaceAppend
  <2>5. Replace(st, pair) = a \o b
    BY <1>3
  <2>. HIDE DEF st
  <2>6. Replace(Append(st, c), pair) = Replace(st, pair) \o Code(c, pair)
    BY <2>1, ReplaceAppend
  <2>. HIDE DEF tc
  <2>7. Replace(s \o tc, pair) = (a \o b) \o d
    BY <2>3, <2>5, <2>6
  <2>8. Replace(tc, pair) = b \o d
    BY <2>4
  <2>. HIDE DEF a, b, d
  <2>9. (a \o b) \o d = a \o (b \o d)
    BY <1>1, <2>2, Associative, SMTT(30)
  <2>10. Replace(s \o tc, pair) = a \o Replace(tc, pair)
    BY <2>7, <2>8, <2>9
  <2>. QED  BY <2>1, <2>10 DEF a, tc
<1>. HIDE DEF T
<1>4. Seq(S) \subseteq T
  BY <1>2, <1>3, SeqSetInduction
<1>. QED  BY <1>4 DEF T

\* What Encode is the last value of.
Encoding(s, E) ==
  CHOOSE f : f = [i \in 0 .. Len(E) |-> IF i = 0 THEN s ELSE Replace(f[i - 1], E[i])]

\* Its values, one for each pass.
EncodeRun(f, s, E, S) ==
  /\ f \in [0 .. Len(E) -> Seq(S)] /\ f[0] = s
  /\ \A i \in 1 .. Len(E) : f[i] = Replace(f[i - 1], E[i])

\* The replacements of an encoder.
Pairs(E, S) == Len(E) \in Nat /\ \A i \in 1 .. Len(E) : E[i][2] \in Seq(S)

\* Encode has the value its recursion describes.
LEMMA EncodeDef ==
  ASSUME NEW S, NEW E, Pairs(E, S), NEW s \in Seq(S)
  PROVE  Encode(s, E) = Encoding(s, E)[Len(E)] /\ EncodeRun(Encoding(s, E), s, E, S)
<1>. DEFINE n == Len(E)
            X == Seq(S)
            step == [i \in 1 .. n |-> [x \in X |-> Replace(x, E[i])]]
            k == Encoding(s, E)
<1>1. n \in Nat
  BY DEF Pairs
<1>2. \A x \in X, i \in 1 .. n : step[i][x] = Replace(x, E[i])
  OBVIOUS
<1>3. \A x \in X, i \in 1 .. n : step[i][x] \in X
  <2>1. \A i \in 1 .. n : E[i][2] \in Seq(S)
    BY DEF Pairs
  <2>. SUFFICES ASSUME NEW x \in X, NEW i \in 1 .. n PROVE step[i][x] \in X
    OBVIOUS
  <2>2. step[i][x] = Replace(x, E[i]) /\ E[i][2] \in Seq(S)
    BY <1>2, <2>1
  <2>. HIDE DEF step, n
  <2>3. Replace(x, E[i]) \in Seq(S)
    BY <2>2, ReplaceType
  <2>. QED  BY <2>2, <2>3
<1>4. step \in [1 .. n -> [X -> X]] /\ s \in X
  BY <1>3
<1>. HIDE DEF n, X, step
<1>5. PICK f \in [0 .. n -> X] : f[0] = s /\ \A i \in 1 .. n : f[i] = step[i][f[i - 1]]
  <2>1. \E f : Run(f, n, X, s, step)
    BY <1>1, <1>4, Recursion
  <2>. QED  BY <2>1 DEF Run
<1>6. \A i \in 1 .. n : f[i - 1] \in X /\ f[i] = Replace(f[i - 1], E[i])
  <2>1. \A i \in 1 .. n : i - 1 \in 0 .. n
    BY <1>1
  <2>. QED  BY <1>2, <1>5, <2>1
<1>7. f = [i \in 0 .. n |-> IF i = 0 THEN s ELSE Replace(f[i - 1], E[i])]
  <2>1. \A i \in 0 .. n : i = 0 \/ i \in 1 .. n
    BY <1>1
  <2>. QED  BY <1>5, <1>6, <2>1
<1>8. k = [i \in 0 .. n |-> IF i = 0 THEN s ELSE Replace(k[i - 1], E[i])]
  BY <1>7 DEF Encoding, n
<1>. HIDE DEF k
<1>9. DOMAIN k = 0 .. n /\ k[0] = s /\ \A i \in 1 .. n : k[i] = Replace(k[i - 1], E[i])
  <2>1. DOMAIN k = 0 .. n
    BY <1>8
  <2>2. \A i \in 0 .. n : k[i] = IF i = 0 THEN s ELSE Replace(k[i - 1], E[i])
    BY <1>8
  <2>3. 0 \in 0 .. n /\ \A i \in 1 .. n : i \in 0 .. n /\ i # 0
    BY <1>1
  <2>. QED  BY <2>1, <2>2, <2>3
<1>10. \A i \in 0 .. n : k[i] \in X
  <2>. DEFINE U == {m \in Nat : m <= n => k[m] \in X}
  <2>1. 0 \in U
    BY <1>4, <1>9
  <2>2. ASSUME NEW m \in Nat, m \in U PROVE m + 1 \in U
    <3>. SUFFICES ASSUME m + 1 <= n PROVE k[m + 1] \in X
      OBVIOUS
    <3>1. (m + 1) - 1 = m /\ m + 1 \in 1 .. n /\ k[m] \in X
      BY <1>1, <2>2
    <3>2. Replace(k[m], E[m + 1]) \in X
      BY <1>2, <1>3, <3>1
    <3>. QED  BY <1>9, <3>1, <3>2
  <2>. HIDE DEF U
  <2>3. Nat \subseteq U
    BY <2>1, <2>2, SetInduction
  <2>. QED  BY <1>1, <2>3 DEF U
<1>11. Encode(s, E) = k[n]
  BY DEF Encode, Encoding, k, n
<1>12. k \in [0 .. n -> X]
  BY <1>8, <1>9, <1>10
<1>. QED  BY <1>9, <1>11, <1>12 DEF EncodeRun, k, n, X

\* What is encoded is a text.
LEMMA EncodeType ==
  ASSUME NEW S, NEW E, Pairs(E, S), NEW s \in Seq(S)
  PROVE  Encode(s, E) \in Seq(S)
<1>1. Encode(s, E) = Encoding(s, E)[Len(E)] /\ EncodeRun(Encoding(s, E), s, E, S)
  BY EncodeDef
<1>2. Len(E) \in 0 .. Len(E)
  BY DEF Pairs
<1>3. Encoding(s, E) \in [0 .. Len(E) -> Seq(S)]
  BY <1>1 DEF EncodeRun
<1>. QED  BY <1>1, <1>2, <1>3

\* What holds before the first replacement and survives each holds at the end.
LEMMA EncodeInduction ==
  ASSUME NEW S, NEW E, Pairs(E, S), NEW s \in Seq(S), NEW T, s \in T,
         \A u \in Seq(S), i \in 1 .. Len(E) : u \in T => Replace(u, E[i]) \in T
  PROVE  Encode(s, E) \in T
<1>. DEFINE n == Len(E)
            k == Encoding(s, E)
            U == {m \in Nat : m <= n => k[m] \in T}
<1>1. n \in Nat
  BY DEF Pairs
<1>2. Encode(s, E) = k[n] /\ EncodeRun(k, s, E, S)
  BY EncodeDef
<1>. HIDE DEF k
<1>3. k \in [0 .. n -> Seq(S)] /\ k[0] = s /\ \A i \in 1 .. n : k[i] = Replace(k[i - 1], E[i])
  BY <1>2 DEF EncodeRun
<1>4. 0 \in U
  BY <1>3
<1>5. ASSUME NEW m \in Nat, m \in U PROVE m + 1 \in U
  <2>. SUFFICES ASSUME m + 1 <= n PROVE k[m + 1] \in T
    OBVIOUS
  <2>1. (m + 1) - 1 = m /\ m + 1 \in 1 .. n /\ m \in 0 .. n /\ k[m] \in T
    BY <1>1, <1>5
  <2>2. k[m] \in Seq(S)
    BY <1>3, <2>1
  <2>. QED  BY <1>3, <2>1, <2>2
<1>. HIDE DEF U
<1>6. Nat \subseteq U
  BY <1>4, <1>5, SetInduction
<1>. QED  BY <1>1, <1>2, <1>6 DEF U

\* Two texts joined are encoded one after the other.
LEMMA EncodeConcat ==
  ASSUME NEW S, NEW E, Pairs(E, S), NEW s \in Seq(S), NEW t \in Seq(S)
  PROVE  Encode(s \o t, E) = Encode(s, E) \o Encode(t, E)
<1>. DEFINE n == Len(E)
            f == Encoding(s, E)
            g == Encoding(t, E)
            st == s \o t
            h == Encoding(st, E)
            P(m) == f[m] \o g[m]
            U == {m \in Nat : m <= n => h[m] = P(m)}
<1>1. n \in Nat
  BY DEF Pairs
<1>2. st \in Seq(S)
  BY ConcatProperties
<1>3. Encode(s, E) = f[n] /\ EncodeRun(f, s, E, S)
  BY EncodeDef
<1>4. Encode(t, E) = g[n] /\ EncodeRun(g, t, E, S)
  BY EncodeDef
<1>5. Encode(st, E) = h[n] /\ EncodeRun(h, st, E, S)
  <2>. HIDE DEF st
  <2>. QED  BY <1>2, EncodeDef
<1>. HIDE DEF f, g, h
<1>6. f \in [0 .. n -> Seq(S)] /\ f[0] = s /\ \A i \in 1 .. n : f[i] = Replace(f[i - 1], E[i])
  BY <1>3 DEF EncodeRun
<1>7. g \in [0 .. n -> Seq(S)] /\ g[0] = t /\ \A i \in 1 .. n : g[i] = Replace(g[i - 1], E[i])
  BY <1>4 DEF EncodeRun
<1>8. h[0] = st /\ \A i \in 1 .. n : h[i] = Replace(h[i - 1], E[i])
  BY <1>5 DEF EncodeRun
<1>9. 0 \in U
  BY <1>6, <1>7, <1>8
<1>. HIDE DEF P, U
<1>10. ASSUME NEW m \in Nat, m \in U PROVE m + 1 \in U
  <2>. SUFFICES ASSUME m + 1 <= n PROVE h[m + 1] = P(m + 1)
    BY DEF U
  <2>1. (m + 1) - 1 = m /\ m + 1 \in 1 .. n /\ m \in 0 .. n /\ h[m] = P(m)
    BY <1>1, <1>10 DEF U
  <2>2. E[m + 1][2] \in Seq(S) /\ f[m] \in Seq(S) /\ g[m] \in Seq(S)
    BY <1>6, <1>7, <2>1 DEF Pairs
  <2>3. Replace(f[m] \o g[m], E[m + 1]) = Replace(f[m], E[m + 1]) \o Replace(g[m], E[m + 1])
    BY <2>2, ReplaceConcat, ZenonT(30)
  <2>4. h[m + 1] = Replace(h[m], E[m + 1]) /\ f[m + 1] = Replace(f[m], E[m + 1]) /\ g[m + 1] = Replace(g[m], E[m + 1])
    BY <1>6, <1>7, <1>8, <2>1
  <2>. QED  BY <2>1, <2>3, <2>4 DEF P
<1>11. Nat \subseteq U
  BY <1>9, <1>10, SetInduction
<1>12. h[n] = f[n] \o g[n]
  <2>1. h[n] = P(n)
    BY <1>1, <1>11 DEF U
  <2>. QED  BY <2>1 DEF P
<1>. QED  BY <1>3, <1>4, <1>5, <1>12 DEF st

\* Characters of their own are replaced by a backslash and another, which is
\* decoded to them; what one replacement writes no later one replaces.
Escaping(E, S) ==
  /\ Len(E) \in Nat
  /\ \A i \in 1 .. Len(E) : \E c \in S :
       /\ E[i][2] = <<Backslash, c>> /\ Unescape(c) = E[i][1] /\ c \notin {CR, LF}
       /\ \A j \in i + 1 .. Len(E) : E[j][1] \notin {Backslash, c, E[i][1]}

\* The characters that have an escape.
Escaped(E) == {E[i][1] : i \in 1 .. Len(E)}

\* The escapes of an encoder are pairs of a character and its code.
LEMMA EscapingPairs ==
  ASSUME NEW S, NEW E, Backslash \in S, Escaping(E, S) PROVE Pairs(E, S)
<1>1. \A c \in S : <<Backslash, c>> \in Seq(S)
  OBVIOUS
<1>. QED  BY <1>1, ZenonT(30) DEF Pairs, Escaping

\* No text is encoded as no text.
LEMMA EncodeNothing ==
  ASSUME NEW S, NEW E, Pairs(E, S) PROVE Encode(<<>>, E) = <<>>
<1>. DEFINE e == <<>>
            T == {e}
<1>1. e \in Seq(S)
  BY EmptySeq
<1>2. \A u \in Seq(S), i \in 1 .. Len(E) : u \in T => Replace(u, E[i]) \in T
  BY ReplaceNothing
<1>3. e \in T
  OBVIOUS
<1>. HIDE DEF e, T
<1>4. Encode(e, E) \in T
  BY <1>1, <1>2, <1>3, EncodeInduction
<1>. QED  BY <1>4 DEF e, T

\* A character without an escape is encoded as itself.
LEMMA EncodeOther ==
  ASSUME NEW S, NEW E, Pairs(E, S), NEW c \in S, c \notin Escaped(E)
  PROVE  Encode(<<c>>, E) = <<c>>
<1>. DEFINE d == <<c>>
            T == {d}
<1>1. d \in Seq(S)
  OBVIOUS
<1>2. ASSUME NEW i \in 1 .. Len(E) PROVE Replace(d, E[i]) = d
  <2>1. E[i][2] \in Seq(S) /\ c # E[i][1]
    BY DEF Pairs, Escaped
  <2>. QED  BY <2>1, ReplaceOne DEF Code
<1>. HIDE DEF d
<1>3. \A u \in Seq(S), i \in 1 .. Len(E) : u \in T => Replace(u, E[i]) \in T
  BY <1>2
<1>4. d \in T
  OBVIOUS
<1>. HIDE DEF T
<1>5. Encode(d, E) \in T
  BY <1>1, <1>3, <1>4, EncodeInduction
<1>. QED  BY <1>5 DEF d, T

\* A character with one is encoded as its code: later passes leave it as it is.
LEMMA EncodeEscaped ==
  ASSUME NEW S, NEW E, Backslash \in S, Escaping(E, S), NEW i \in 1 .. Len(E), E[i][1] \in S
  PROVE  Encode(<<E[i][1]>>, E) = E[i][2]
<1>. DEFINE n == Len(E)
            x == E[i][1]
            d == <<x>>
            k == Encoding(d, E)
            U == {m \in Nat : m <= n => k[m] = IF m < i THEN d ELSE E[i][2]}
<1>1. n \in Nat /\ Pairs(E, S)
  BY EscapingPairs DEF Escaping
<1>2. PICK c \in S : /\ E[i][2] = <<Backslash, c>>
                     /\ \A j \in i + 1 .. Len(E) : E[j][1] \notin {Backslash, c, E[i][1]}
  BY DEF Escaping
<1>3. d \in Seq(S)
  OBVIOUS
<1>4. ASSUME NEW j \in 1 .. n, j < i PROVE x # E[j][1]
  <2>1. PICK b \in S : \A m \in j + 1 .. Len(E) : E[m][1] \notin {Backslash, b, E[j][1]}
    BY DEF Escaping
  <2>2. i \in j + 1 .. Len(E)
    BY <1>1, <1>4
  <2>. QED  BY <2>1, <2>2
<1>5. ASSUME NEW j \in 1 .. n, j < i PROVE Replace(d, E[j]) = d
  <2>1. E[j][2] \in Seq(S) /\ x # E[j][1]
    BY <1>1, <1>4, <1>5 DEF Pairs
  <2>. QED  BY <2>1, ReplaceOne DEF Code
<1>6. Replace(d, E[i]) = E[i][2]
  <2>1. E[i][2] \in Seq(S)
    BY <1>1 DEF Pairs
  <2>. QED  BY <2>1, ReplaceOne DEF Code
<1>7. ASSUME NEW j \in 1 .. n, j > i PROVE Replace(E[i][2], E[j]) = E[i][2]
  <2>1. E[j][2] \in Seq(S) /\ j \in i + 1 .. Len(E)
    BY <1>1, <1>7 DEF Pairs
  <2>2. Backslash # E[j][1] /\ c # E[j][1]
    BY <1>2, <2>1
  <2>3. Replace(<<Backslash, c>>, E[j]) = <<Backslash, c>>
    BY <2>1, <2>2, ReplaceTwo, SMTT(30)
  <2>. QED  BY <1>2, <2>3
<1>. HIDE DEF d
<1>8. Encode(d, E) = k[n] /\ EncodeRun(k, d, E, S)
  BY <1>1, <1>3, EncodeDef
<1>. HIDE DEF k
<1>9. k[0] = d /\ \A j \in 1 .. n : k[j] = Replace(k[j - 1], E[j])
  BY <1>8 DEF EncodeRun
<1>10. 0 \in U
  BY <1>9
<1>11. ASSUME NEW m \in Nat, m \in U PROVE m + 1 \in U
  <2>. SUFFICES ASSUME m + 1 <= n PROVE k[m + 1] = IF m + 1 < i THEN d ELSE E[i][2]
    OBVIOUS
  <2>1. (m + 1) - 1 = m /\ m + 1 \in 1 .. n /\ k[m] = IF m < i THEN d ELSE E[i][2]
    BY <1>1, <1>11
  <2>2. k[m + 1] = Replace(k[m], E[m + 1])
    BY <1>9, <2>1
  <2>3. CASE m + 1 < i
    BY <1>5, <2>1, <2>2, <2>3
  <2>4. CASE m + 1 = i
    <3>1. k[m] = d
      BY <2>1, <2>4
    <3>. QED  BY <1>6, <2>2, <2>4, <3>1
  <2>5. CASE m + 1 > i
    <3>1. k[m] = E[i][2]
      BY <2>1, <2>5
    <3>. QED  BY <1>7, <2>1, <2>2, <2>5, <3>1
  <2>. QED  BY <2>3, <2>4, <2>5
<1>. HIDE DEF U
<1>12. n \in U
  BY <1>1, <1>10, <1>11, SetInduction
<1>13. k[n] = E[i][2]
  BY <1>1, <1>12 DEF U
<1>. QED  BY <1>8, <1>13 DEF d

\* What a decoder gets out of an encoded text: the text, or, raw, its encoding.
Meant(s, E, mode) == IF mode = "text" THEN s ELSE Encode(s, E)

\* The encoder guards a decoder that looks for sep.
Guards(E, sep, mode, S) ==
  /\ mode \in {"text", "raw"} /\ Backslash \in S /\ {CR, LF} \subseteq S
  /\ Escaping(E, S) /\ Backslash \in Escaped(E)
  /\ sep \in S => sep \in Escaped(E)

\* What a decoder is to make of a text is a text.
LEMMA MeantType ==
  ASSUME NEW S, NEW E, NEW sep, NEW mode, Guards(E, sep, mode, S), NEW s \in Seq(S)
  PROVE  Meant(s, E, mode) \in Seq(S) /\ Encode(s, E) \in Seq(S)
<1>1. Encode(s, E) \in Seq(S)
  BY EscapingPairs, EncodeType DEF Guards
<1>. QED  BY <1>1 DEF Meant

\* One character more is meant by one more code.
LEMMA MeantAppend ==
  ASSUME NEW S, NEW E, NEW sep, NEW mode, Guards(E, sep, mode, S), NEW s \in Seq(S), NEW c \in S
  PROVE  /\ Encode(Append(s, c), E) = Encode(s, E) \o Encode(<<c>>, E)
         /\ Meant(Append(s, c), E, mode) = Meant(s, E, mode) \o Meant(<<c>>, E, mode)
<1>1. <<c>> \in Seq(S)
  OBVIOUS
<1>2. Append(s, c) = s \o <<c>>
  BY AppendIsConcat
<1>3. Encode(s \o <<c>>, E) = Encode(s, E) \o Encode(<<c>>, E)
  BY <1>1, EscapingPairs, EncodeConcat DEF Guards
<1>. QED  BY <1>2, <1>3 DEF Meant

\* What a character is encoded as adds what is meant by it.
LEMMA EncodedChar ==
  ASSUME NEW S, NEW E, NEW sep, NEW mode, Guards(E, sep, mode, S), NEW c \in S
  PROVE  Adds(Encode(<<c>>, E), Meant(<<c>>, E, mode), sep, mode, S)
<1>1. Decodes(mode, S) /\ Pairs(E, S)
  BY EscapingPairs DEF Guards, Decodes
<1>2. CASE c \in Escaped(E)
  <2>1. PICK i \in 1 .. Len(E) : c = E[i][1]
    BY <1>2 DEF Escaped
  <2>2. PICK d \in S : E[i][2] = <<Backslash, d>> /\ Unescape(d) = c
    BY <2>1 DEF Guards, Escaping
  <2>3. Encode(<<c>>, E) = <<Backslash, d>>
    BY <2>1, <2>2, EncodeEscaped DEF Guards
  <2>4. Meant(<<c>>, E, mode) = IF mode = "text" THEN <<Unescape(d)>> ELSE <<Backslash, d>>
    BY <2>2, <2>3 DEF Meant
  <2>5. Adds(<<Backslash, d>>, IF mode = "text" THEN <<Unescape(d)>> ELSE <<Backslash, d>>, sep, mode, S)
    BY <1>1, AddsPair DEF Guards
  <2>. QED  BY <2>3, <2>4, <2>5
<1>3. CASE c \notin Escaped(E)
  <2>1. Encode(<<c>>, E) = <<c>>
    BY <1>1, <1>3, EncodeOther
  <2>2. c # sep /\ c # Backslash
    BY <1>3 DEF Guards
  <2>3. Adds(<<c>>, <<c>>, sep, mode, S)
    BY <1>1, <2>2, AddsChar
  <2>. QED  BY <2>1, <2>3 DEF Meant
<1>. QED  BY <1>2, <1>3

\* An encoded text, whatever it holds, stays in one part, and the decoder gets
\* the text back.
LEMMA EncodedAdds ==
  ASSUME NEW S, NEW E, NEW sep, NEW mode, Guards(E, sep, mode, S)
  PROVE  \A s \in Seq(S) : Adds(Encode(s, E), Meant(s, E, mode), sep, mode, S)
<1>. DEFINE T == {s \in Seq(S) : Adds(Encode(s, E), Meant(s, E, mode), sep, mode, S)}
            e == <<>>
<1>1. Decodes(mode, S) /\ Pairs(E, S)
  BY EscapingPairs DEF Guards, Decodes
<1>2. e \in T
  <2>1. Encode(e, E) = e /\ Meant(e, E, mode) = e
    BY <1>1, EncodeNothing DEF Meant
  <2>2. e \in Seq(S)
    BY EmptySeq
  <2>3. Adds(e, e, sep, mode, S)
    BY <1>1, AddsNothing
  <2>. HIDE DEF e
  <2>. QED  BY <2>1, <2>2, <2>3
<1>3. ASSUME NEW s \in Seq(S), NEW c \in S, s \in T PROVE Append(s, c) \in T
  <2>. DEFINE d == <<c>>
              a == Encode(s, E)
              b == Encode(d, E)
              p == Meant(s, E, mode)
              q == Meant(d, E, mode)
  <2>1. d \in Seq(S) /\ Append(s, c) \in Seq(S)
    BY AppendProperties
  <2>2. a \in Seq(S) /\ p \in Seq(S)
    BY MeantType
  <2>3. Adds(b, q, sep, mode, S)
    BY EncodedChar
  <2>4. Encode(Append(s, c), E) = a \o b
    BY MeantAppend
  <2>5. Meant(Append(s, c), E, mode) = p \o q
    BY MeantAppend, SMTT(30)
  <2>6. Adds(a, p, sep, mode, S)
    BY <1>3
  <2>. HIDE DEF d
  <2>7. b \in Seq(S) /\ q \in Seq(S)
    BY <2>1, MeantType
  <2>. HIDE DEF a, b, p, q
  <2>8. Adds(a \o b, p \o q, sep, mode, S)
    BY <1>1, <2>2, <2>3, <2>6, <2>7, AddsMore
  <2>. QED  BY <2>1, <2>4, <2>5, <2>8
<1>. HIDE DEF T
<1>4. Seq(S) \subseteq T
  BY <1>2, <1>3, SeqSetInduction
<1>. QED  BY <1>4 DEF T

\* The encoders leave no newline.
LEMMA EncodedOneLine ==
  ASSUME NEW S, NEW E, Backslash \in S \ {CR, LF}, Escaping(E, S), {CR, LF} \subseteq Escaped(E)
  PROVE  \A s \in Seq(S) : Encode(s, E) \in Seq(S \ {CR, LF})
<1>. DEFINE C == S \ {CR, LF}
            T == {s \in Seq(S) : Encode(s, E) \in Seq(C)}
            e == <<>>
<1>1. Pairs(E, S)
  BY EscapingPairs
<1>2. e \in T
  <2>1. Encode(e, E) = e
    BY <1>1, EncodeNothing
  <2>2. e \in Seq(S) /\ e \in Seq(C)
    BY EmptySeq
  <2>. HIDE DEF e
  <2>. QED  BY <2>1, <2>2
<1>3. ASSUME NEW s \in Seq(S), NEW c \in S, s \in T PROVE Append(s, c) \in T
  <2>. DEFINE d == <<c>>
              a == Encode(s, E)
              b == Encode(d, E)
  <2>1. d \in Seq(S) /\ Append(s, c) = s \o d /\ Append(s, c) \in Seq(S)
    BY AppendProperties, AppendIsConcat
  <2>2. b \in Seq(C)
    <3>1. CASE c \in Escaped(E)
      <4>1. PICK i \in 1 .. Len(E) : c = E[i][1]
        BY <3>1 DEF Escaped
      <4>2. PICK y \in S : E[i][2] = <<Backslash, y>> /\ y \notin {CR, LF}
        BY DEF Escaping
      <4>3. b = <<Backslash, y>>
        BY <4>1, <4>2, EncodeEscaped
      <4>. HIDE DEF b
      <4>. QED  BY <4>2, <4>3
    <3>2. CASE c \notin Escaped(E)
      <4>1. b = d
        BY <1>1, <3>2, EncodeOther
      <4>2. d \in Seq(C)
        BY <3>2
      <4>. QED  BY <4>1, <4>2
    <3>. QED  BY <3>1, <3>2
  <2>. HIDE DEF d
  <2>3. Encode(s \o d, E) = a \o b
    BY <1>1, <2>1, EncodeConcat
  <2>4. a \in Seq(C)
    BY <1>3
  <2>. HIDE DEF a, b, C
  <2>5. a \o b \in Seq(C)
    BY <2>2, <2>4, ConcatProperties
  <2>. QED  BY <2>1, <2>3, <2>5
<1>. HIDE DEF T
<1>4. Seq(S) \subseteq T
  BY <1>2, <1>3, SeqSetInduction
<1>. QED  BY <1>4 DEF T

-----------------------------------------------------------------------------
(* The encoders of the two clients and of the server.                      *)

\* The characters with a meaning all differ.
LEMMA SpecialsDiffer ==
  /\ Backslash \notin {Comma, Semicolon, CR, LF, R, N}
  /\ Comma \notin {Semicolon, CR, LF, R, N} /\ Semicolon \notin {CR, LF, R, N}
  /\ CR \notin {LF, R, N} /\ LF \notin {R, N} /\ R # N
<1>. DEFINE f == <<Backslash, Comma, Semicolon, CR, LF, Quote, Bar, Colon, R, N>>
<1>1. \A i, j \in 1 .. 10 : f[i] = f[j] => i = j
  BY CodecAssumption DEF IsInjective
<1>2. /\ f[1] = Backslash /\ f[2] = Comma /\ f[3] = Semicolon /\ f[4] = CR /\ f[5] = LF
      /\ f[9] = R /\ f[10] = N
  OBVIOUS
<1>. HIDE DEF f
<1>3. /\ f[1] # f[2] /\ f[1] # f[3] /\ f[1] # f[4] /\ f[1] # f[5] /\ f[1] # f[9] /\ f[1] # f[10]
      /\ f[2] # f[3] /\ f[2] # f[4] /\ f[2] # f[5] /\ f[2] # f[9] /\ f[2] # f[10]
      /\ f[3] # f[4] /\ f[3] # f[5] /\ f[3] # f[9] /\ f[3] # f[10]
      /\ f[4] # f[5] /\ f[4] # f[9] /\ f[4] # f[10]
      /\ f[5] # f[9] /\ f[5] # f[10] /\ f[9] # f[10]
  BY <1>1
<1>. QED  BY <1>2, <1>3

\* The letters r and n stand for the newlines.
LEMMA Unescapes ==
  /\ Unescape(Backslash) = Backslash /\ Unescape(Comma) = Comma /\ Unescape(Semicolon) = Semicolon
  /\ Unescape(R) = CR /\ Unescape(N) = LF
BY SpecialsDiffer DEF Unescape

\* The encoder of insert escapes what the decoder of a row needs.
LEMMA ValueEscaping ==
  ASSUME NEW S, Chars \subseteq S
  PROVE  Escaping(ValueEscapes, S) /\ Escaped(ValueEscapes) = {Backslash, Comma, CR, LF}
<1>1. {Backslash, Comma, CR, LF, R, N} \subseteq S
  BY CodecAssumption
<1>. DEFINE E == ValueEscapes
<1>2. /\ Len(E) = 4
      /\ E[1][1] = Backslash /\ E[1][2] = <<Backslash, Backslash>>
      /\ E[2][1] = Comma /\ E[2][2] = <<Backslash, Comma>>
      /\ E[3][1] = CR /\ E[3][2] = <<Backslash, R>>
      /\ E[4][1] = LF /\ E[4][2] = <<Backslash, N>>
  BY DEF ValueEscapes, Esc
<1>. HIDE DEF E
<1>3. Escaped(E) = {Backslash, Comma, CR, LF}
  BY <1>2 DEF Escaped
<1>4. Escaping(E, S)
  BY <1>1, <1>2, SpecialsDiffer, Unescapes DEF Escaping
<1>. QED  BY <1>3, <1>4 DEF E

\* The encoder of a string kernel does for its arguments.
LEMMA ExecEscaping ==
  ASSUME NEW S, Chars \subseteq S
  PROVE  Escaping(ExecEscapes, S) /\ Escaped(ExecEscapes) = {Backslash, Semicolon, CR, LF}
<1>1. {Backslash, Semicolon, CR, LF, R, N} \subseteq S
  BY CodecAssumption
<1>. DEFINE E == ExecEscapes
<1>2. /\ Len(E) = 4
      /\ E[1][1] = Backslash /\ E[1][2] = <<Backslash, Backslash>>
      /\ E[2][1] = Semicolon /\ E[2][2] = <<Backslash, Semicolon>>
      /\ E[3][1] = CR /\ E[3][2] = <<Backslash, R>>
      /\ E[4][1] = LF /\ E[4][2] = <<Backslash, N>>
  BY DEF ExecEscapes, Esc
<1>. HIDE DEF E
<1>3. Escaped(E) = {Backslash, Semicolon, CR, LF}
  BY <1>2 DEF Escaped
<1>4. Escaping(E, S)
  BY <1>1, <1>2, SpecialsDiffer, Unescapes DEF Escaping
<1>. QED  BY <1>3, <1>4 DEF E

\* The encoder of the server does for rows and for results.
LEMMA ServerEscaping ==
  ASSUME NEW S, Chars \subseteq S
  PROVE  Escaping(ServerEscapes, S) /\ Escaped(ServerEscapes) = {Backslash, Comma, Semicolon, CR, LF}
<1>1. {Backslash, Comma, Semicolon, CR, LF, R, N} \subseteq S
  BY CodecAssumption
<1>. DEFINE E == ServerEscapes
<1>2. /\ Len(E) = 5
      /\ E[1][1] = Backslash /\ E[1][2] = <<Backslash, Backslash>>
      /\ E[2][1] = Comma /\ E[2][2] = <<Backslash, Comma>>
      /\ E[3][1] = Semicolon /\ E[3][2] = <<Backslash, Semicolon>>
      /\ E[4][1] = CR /\ E[4][2] = <<Backslash, R>>
      /\ E[5][1] = LF /\ E[5][2] = <<Backslash, N>>
  BY DEF ServerEscapes, Esc
<1>. HIDE DEF E
<1>3. Escaped(E) = {Backslash, Comma, Semicolon, CR, LF}
  BY <1>2 DEF Escaped
<1>4. Escaping(E, S)
  BY <1>1, <1>2, SpecialsDiffer, Unescapes DEF Escaping
<1>. QED  BY <1>3, <1>4 DEF E

-----------------------------------------------------------------------------
(* Parts joined and split.                                                 *)

\* What is put together for the parts ss.
Joints(sep, ss) == [i \in 1 .. Len(ss) |-> IF i = 1 THEN ss[i] ELSE <<sep>> \o ss[i]]

\* Join puts the parts with their separators together.
LEMMA JointsSeq ==
  ASSUME NEW S, NEW sep \in S, NEW ss \in Seq(Seq(S))
  PROVE  /\ Joints(sep, ss) \in Seq(Seq(S)) /\ Len(Joints(sep, ss)) = Len(ss)
         /\ Join(sep, ss) = FlattenSeq(Joints(sep, ss))
<1>. DEFINE X == Seq(S)
<1>1. Len(ss) \in Nat /\ \A i \in 1 .. Len(ss) : ss[i] \in X
  BY LenProperties, ElementOfSeq
<1>2. \A t \in X : <<sep>> \o t \in X
  <2>1. <<sep>> \in Seq(S)
    OBVIOUS
  <2>. QED  BY <2>1, ConcatProperties
<1>3. Joints(sep, ss) \in [1 .. Len(ss) -> Seq(S)]
  <2>. HIDE DEF X
  <2>1. Joints(sep, ss) \in [1 .. Len(ss) -> X]
    BY <1>1, <1>2 DEF Joints
  <2>. QED  BY <2>1 DEF X
<1>4. Joints(sep, ss) \in Seq(Seq(S)) /\ Len(Joints(sep, ss)) = Len(ss)
  <2>. DEFINE f == Joints(sep, ss)
              n == Len(ss)
  <2>1. n \in Nat /\ f \in [1 .. n -> Seq(S)]
    BY <1>1, <1>3
  <2>. HIDE DEF f, n, X
  <2>2. f \in Seq(Seq(S))
    BY <2>1, IsASeq
  <2>3. Len(f) = n
    BY <2>1, <2>2, LenProperties
  <2>. QED  BY <2>2, <2>3 DEF f, n
<1>. QED  BY <1>4 DEF Join, Joints

\* Parts joined are a text.
LEMMA JoinType ==
  ASSUME NEW S, NEW sep \in S, NEW ss \in Seq(Seq(S))
  PROVE  Join(sep, ss) \in Seq(S)
<1>. DEFINE f == Joints(sep, ss)
            e == <<>>
<1>1. f \in Seq(Seq(S)) /\ Join(sep, ss) = FlattenSeq(f) /\ e \in Seq(S)
  BY JointsSeq, EmptySeq
<1>. HIDE DEF f, e
<1>. QED  BY <1>1, FlattenMore

\* One part joined is the part.
LEMMA JoinOne ==
  ASSUME NEW S, NEW sep, NEW t \in Seq(S)
  PROVE  Join(sep, <<t>>) = t
<1>. DEFINE e == <<>>
            n == << >>
            f == <<t>>
<1>1. n \in Seq(Seq(S)) /\ Append(n, t) = f /\ FlattenSeq(n) = e
  BY EmptySeq, FlattenNone
<1>2. Joints(sep, f) = f
  BY DEF Joints
<1>3. Join(sep, f) = FlattenSeq(f)
  BY <1>2 DEF Join, Joints
<1>4. e \o t = t
  BY ConcatEmptySeq
<1>. HIDE DEF n, e, f
<1>5. FlattenSeq(Append(n, t)) = FlattenSeq(n) \o t
  BY <1>1, FlattenMore
<1>6. FlattenSeq(f) = t
  BY <1>1, <1>4, <1>5
<1>. QED  BY <1>3, <1>6 DEF f

\* One part more is joined with a separator.
LEMMA JoinMore ==
  ASSUME NEW S, NEW sep \in S, NEW ss \in Seq(Seq(S)), NEW t \in Seq(S), Len(ss) # 0
  PROVE  /\ Join(sep, Append(ss, t)) = Append(Join(sep, ss), sep) \o t
         /\ Join(sep, Append(ss, t)) = Join(sep, ss) \o (<<sep>> \o t)
<1>. DEFINE d == <<sep>>
            dt == d \o t
            f == Joints(sep, ss)
            u == Append(ss, t)
            g == Joints(sep, u)
            a == Append(f, dt)
            n == Len(ss)
            X == Seq(S)
<1>1. d \in Seq(S) /\ dt \in Seq(S)
  BY ConcatProperties
<1>2. n \in Nat /\ u \in Seq(X) /\ Len(u) = n + 1 /\ u[n + 1] = t /\ \A i \in 1 .. n : u[i] = ss[i]
  BY AppendProperties, LenProperties
<1>3. f \in Seq(X) /\ Len(f) = n /\ Join(sep, ss) = FlattenSeq(f)
  BY JointsSeq
<1>4. \A i \in 1 .. n : f[i] = IF i = 1 THEN ss[i] ELSE d \o ss[i]
  BY DEF Joints
<1>. HIDE DEF u, f, dt
<1>5. g \in Seq(X) /\ Len(g) = n + 1 /\ Join(sep, u) = FlattenSeq(g)
  BY <1>2, JointsSeq
<1>6. \A i \in 1 .. n + 1 : g[i] = IF i = 1 THEN u[i] ELSE d \o u[i]
  BY <1>2 DEF Joints
<1>7. a \in Seq(X) /\ Len(a) = n + 1 /\ a[n + 1] = dt /\ \A i \in 1 .. n : a[i] = f[i]
  BY <1>1, <1>3, AppendProperties
<1>. HIDE DEF g, a, d
<1>8. g = a
  <2>1. \A i \in 1 .. n + 1 : i = n + 1 \/ i \in 1 .. n
    BY <1>2
  <2>2. n + 1 # 1 /\ n + 1 \in 1 .. n + 1
    BY <1>2
  <2>3. g[n + 1] = dt
    BY <1>2, <1>6, <2>2 DEF dt
  <2>4. \A i \in 1 .. n : g[i] = f[i]
    <3>1. \A i \in 1 .. n : i \in 1 .. n + 1
      BY <1>2
    <3>. HIDE DEF n
    <3>. QED  BY <3>1, <1>2, <1>4, <1>6
  <2>5. \A i \in 1 .. n + 1 : g[i] = a[i]
    BY <1>7, <2>1, <2>3, <2>4
  <2>. QED  BY <1>5, <1>7, <2>5, SeqEqual
<1>9. FlattenSeq(a) = FlattenSeq(f) \o dt
  BY <1>1, <1>3, FlattenMore DEF a
<1>. DEFINE j == Join(sep, ss)
<1>10. Join(sep, u) = j \o dt /\ j \in Seq(S)
  BY <1>3, <1>5, <1>8, <1>9, JoinType
<1>. HIDE DEF j
<1>11. Append(j, sep) = j \o d
  BY <1>10, AppendIsConcat DEF d
<1>12. (j \o d) \o t = j \o (d \o t)
  BY <1>1, <1>10, Associative, SMTT(30)
<1>. QED  BY <1>10, <1>11, <1>12 DEF j, u, dt, d

\* Two sequences of parts, the second what a decoder makes of the first.
AddsEach(p, w, sep, mode, S) ==
  /\ p \in Seq(Seq(S)) /\ w \in Seq(Seq(S)) /\ Len(p) = Len(w)
  /\ \A i \in 1 .. Len(w) : Adds(p[i], w[i], sep, mode, S)

\* All but their last ones, and these.
LastParts(p, w, q, v, x, y, sep, mode, S) ==
  /\ q \in Seq(Seq(S)) /\ v \in Seq(Seq(S)) /\ x \in Seq(S) /\ y \in Seq(S)
  /\ p = Append(q, x) /\ w = Append(v, y) /\ Len(w) = Len(v) + 1
  /\ AddsEach(q, v, sep, mode, S) /\ Adds(x, y, sep, mode, S)

\* The last of the parts, and the others.
LEMMA AddsEachSplit ==
  ASSUME NEW S, NEW sep, NEW mode, NEW p, NEW w, AddsEach(p, w, sep, mode, S), Len(w) # 0
  PROVE  \E q, v, x, y : LastParts(p, w, q, v, x, y, sep, mode, S)
<1>. DEFINE X == Seq(S)
            m == Len(w) - 1
<1>1. p \in Seq(X) /\ w \in Seq(X) /\ Len(p) = Len(w) /\ \A i \in 1 .. Len(w) : Adds(p[i], w[i], sep, mode, S)
  BY DEF AddsEach
<1>2. m \in Nat /\ Len(w) = m + 1 /\ Len(p) = m + 1
  BY <1>1, LenProperties
<1>. HIDE DEF X, m
<1>3. PICK q \in Seq(X), x \in X : p = Append(q, x) /\ Len(q) = m
  BY <1>1, <1>2, FrontLast
<1>4. PICK v \in Seq(X), y \in X : w = Append(v, y) /\ Len(v) = m
  BY <1>1, <1>2, FrontLast
<1>5. p[m + 1] = x /\ \A i \in 1 .. m : p[i] = q[i]
  BY <1>3, AppendProperties
<1>6. w[m + 1] = y /\ \A i \in 1 .. m : w[i] = v[i]
  BY <1>4, AppendProperties
<1>7. AddsEach(q, v, sep, mode, S)
  <2>1. \A i \in 1 .. m : i \in 1 .. Len(w)
    BY <1>2
  <2>2. \A i \in 1 .. m : Adds(q[i], v[i], sep, mode, S)
    BY <1>1, <1>5, <1>6, <2>1
  <2>. QED  BY <1>3, <1>4, <2>2 DEF AddsEach, X
<1>8. Adds(x, y, sep, mode, S)
  <2>1. m + 1 \in 1 .. Len(w)
    BY <1>2
  <2>. QED  BY <1>1, <1>5, <1>6, <2>1
<1>9. Len(w) = Len(v) + 1
  BY <1>2, <1>4
<1>10. LastParts(p, w, q, v, x, y, sep, mode, S)
  BY <1>3, <1>4, <1>7, <1>8, <1>9 DEF X, LastParts
<1>. QED  BY <1>10

\* The walk over parts joined: all but the last are out.
LEMMA WalkJoin ==
  ASSUME NEW S, NEW sep \in S, NEW mode, Decodes(mode, S), sep # Backslash \/ mode = "plain"
  PROVE  \A m \in Nat : \A q, v \in Seq(Seq(S)), x, y \in Seq(S) :
           AddsEach(q, v, sep, mode, S) /\ Adds(x, y, sep, mode, S) /\ Len(v) = m =>
             Walk(Join(sep, Append(q, x)), sep, mode) = [out |-> v, cur |-> y, esc |-> FALSE]
<1>. DEFINE X == Seq(S)
            Good(q, v, x, y) == Walk(Join(sep, Append(q, x)), sep, mode) = [out |-> v, cur |-> y, esc |-> FALSE]
            U == {m \in Nat : \A q, v \in Seq(Seq(S)), x, y \in Seq(S) :
                    AddsEach(q, v, sep, mode, S) /\ Adds(x, y, sep, mode, S) /\ Len(v) = m => Good(q, v, x, y)}
            e == <<>>
<1>1. e \in Seq(S) /\ e \in Seq(X) /\ Walk(e, sep, mode) = Start
  BY EmptySeq, WalkNothing
<1>2. ASSUME NEW x \in Seq(S), NEW y \in Seq(S), NEW s \in Seq(S), NEW v, Adds(x, y, sep, mode, S),
             Walk(s, sep, mode) = [out |-> v, cur |-> e, esc |-> FALSE]
      PROVE  Walk(s \o x, sep, mode) = [out |-> v, cur |-> y, esc |-> FALSE]
  <2>1. e \o y = y
    BY ConcatEmptySeq
  <2>. HIDE DEF e
  <2>2. Uncut(s, sep, mode) /\ Walk(s, sep, mode).out = v /\ Walk(s, sep, mode).cur = e
    BY <1>2 DEF Uncut
  <2>3. Walk(s \o x, sep, mode) = [out |-> Walk(s, sep, mode).out, cur |-> Walk(s, sep, mode).cur \o y, esc |-> FALSE]
    BY <1>2, <2>2 DEF Adds
  <2>. QED  BY <2>1, <2>2, <2>3
<1>3. 0 \in U
  <2>. SUFFICES ASSUME NEW q \in Seq(Seq(S)), NEW v \in Seq(Seq(S)), NEW x \in Seq(S), NEW y \in Seq(S),
                       AddsEach(q, v, sep, mode, S), Adds(x, y, sep, mode, S), Len(v) = 0
                PROVE  Good(q, v, x, y)
    OBVIOUS
  <2>1. q = <<>> /\ v = <<>>
    BY EmptySeq DEF AddsEach
  <2>2. Append(q, x) = <<x>>
    BY <2>1
  <2>3. Join(sep, Append(q, x)) = x
    BY <2>2, JoinOne
  <2>4. Walk(e, sep, mode) = [out |-> v, cur |-> e, esc |-> FALSE] /\ e \o x = x
    BY <1>1, <2>1, ConcatEmptySeq DEF Start
  <2>. HIDE DEF e
  <2>5. Walk(e \o x, sep, mode) = [out |-> v, cur |-> y, esc |-> FALSE]
    <3>1. Walk(e, sep, mode) = [out |-> v, cur |-> e, esc |-> FALSE]
      BY <2>4
    <3>2. e \in Seq(S)
      BY <1>1
    <3>. HIDE DEF Good
    <3>. QED  BY <1>2, <3>1, <3>2
  <2>. QED  BY <2>3, <2>4, <2>5
<1>4. ASSUME NEW m \in Nat, m \in U PROVE m + 1 \in U
  <2>. SUFFICES ASSUME NEW q \in Seq(Seq(S)), NEW v \in Seq(Seq(S)), NEW x \in Seq(S), NEW y \in Seq(S),
                       AddsEach(q, v, sep, mode, S), Adds(x, y, sep, mode, S), Len(v) = m + 1
                PROVE  Good(q, v, x, y)
    OBVIOUS
  <2>1. PICK q1, v1, x1, y1 : LastParts(q, v, q1, v1, x1, y1, sep, mode, S)
    BY AddsEachSplit
  <2>10. /\ q1 \in Seq(Seq(S)) /\ v1 \in Seq(Seq(S)) /\ x1 \in Seq(S) /\ y1 \in Seq(S)
         /\ q = Append(q1, x1) /\ v = Append(v1, y1)
         /\ AddsEach(q1, v1, sep, mode, S) /\ Adds(x1, y1, sep, mode, S) /\ Len(v1) = m
    <3>1. Len(v1) = m
      BY <2>1, LenProperties DEF LastParts
    <3>. QED  BY <2>1, <3>1 DEF LastParts
  <2>2. Good(q1, v1, x1, y1)
    <3>. HIDE DEF Good
    <3>. QED  BY <1>4, <2>1, <2>10 DEF U
  <2>. DEFINE j == Join(sep, q)
              jc == Append(j, sep)
  <2>3. Walk(j, sep, mode) = [out |-> v1, cur |-> y1, esc |-> FALSE]
    BY <2>10, <2>2
  <2>4. j \in Seq(S) /\ jc \in Seq(S)
    BY JoinType, AppendProperties
  <2>5. Join(sep, Append(q, x)) = jc \o x
    <3>1. Len(q) # 0
      BY DEF AddsEach
    <3>. QED  BY <3>1, JoinMore, ZenonT(30)
  <2>. HIDE DEF j
  <2>6. Walk(jc, sep, mode) = [out |-> v, cur |-> e, esc |-> FALSE]
    <3>1. Walk(jc, sep, mode) = Step(Walk(j, sep, mode), sep, sep, mode)
      BY <2>4, WalkAppend
    <3>2. Step([out |-> v1, cur |-> y1, esc |-> FALSE], sep, sep, mode) = [out |-> Append(v1, y1), cur |-> <<>>, esc |-> FALSE]
      BY StepSeparates
    <3>. QED  BY <2>10, <2>3, <3>1, <3>2
  <2>. HIDE DEF e, jc
  <2>7. Walk(jc \o x, sep, mode) = [out |-> v, cur |-> y, esc |-> FALSE]
    BY <1>2, <2>4, <2>6
  <2>. QED  BY <2>5, <2>7
<1>. HIDE DEF U
<1>5. Nat \subseteq U
  BY <1>3, <1>4, SetInduction
<1>. QED  BY <1>5 DEF U

\* Split undoes Join.
LEMMA SplitJoin ==
  ASSUME NEW S, NEW sep \in S, NEW mode, Decodes(mode, S), sep # Backslash \/ mode = "plain",
         NEW p, NEW w, AddsEach(p, w, sep, mode, S), Len(w) # 0
  PROVE  Split(Join(sep, p), sep, mode) = w
<1>. DEFINE m == Len(w) - 1
<1>1. m \in Nat /\ Len(w) = m + 1
  <2>1. Len(w) \in Nat
    BY LenProperties DEF AddsEach
  <2>. QED  BY <2>1
<1>. HIDE DEF m
<1>2. PICK q, v, x, y : LastParts(p, w, q, v, x, y, sep, mode, S)
  BY <1>1, AddsEachSplit
<1>20. /\ q \in Seq(Seq(S)) /\ v \in Seq(Seq(S)) /\ x \in Seq(S) /\ y \in Seq(S)
       /\ p = Append(q, x) /\ w = Append(v, y)
       /\ AddsEach(q, v, sep, mode, S) /\ Adds(x, y, sep, mode, S) /\ Len(v) = m
  <2>1. Len(v) = m
    BY <1>1, <1>2, LenProperties DEF LastParts
  <2>. QED  BY <1>2, <2>1 DEF LastParts
<1>. DEFINE e == Walk(Join(sep, p), sep, mode)
<1>3. e = [out |-> v, cur |-> y, esc |-> FALSE]
  BY <1>1, <1>2, <1>20, WalkJoin
<1>. HIDE DEF e
<1>4. e.out = v /\ e.cur = y /\ e.esc = FALSE
  BY <1>3
<1>5. Split(Join(sep, p), sep, mode) = Append(e.out, e.cur)
  BY <1>4 DEF Split, e
<1>. QED  BY <1>20, <1>4, <1>5

\* A text without separators is one part.
LEMMA SplitOne ==
  ASSUME NEW S, NEW sep, NEW mode, Decodes(mode, S), NEW t \in Seq(S), NEW w \in Seq(S), Adds(t, w, sep, mode, S)
  PROVE  Split(t, sep, mode) = <<w>>
<1>. DEFINE e == <<>>
            x == Walk(t, sep, mode)
<1>1. e \in Seq(S) /\ e \o t = t /\ e \o w = w
  BY EmptySeq, ConcatEmptySeq
<1>2. Walk(e, sep, mode) = [out |-> <<>>, cur |-> e, esc |-> FALSE]
  BY WalkNothing DEF Start
<1>. HIDE DEF e
<1>3. Uncut(e, sep, mode) /\ Walk(e, sep, mode).out = <<>> /\ Walk(e, sep, mode).cur = e
  BY <1>2 DEF Uncut
<1>4. Walk(e \o t, sep, mode) = [out |-> Walk(e, sep, mode).out, cur |-> Walk(e, sep, mode).cur \o w, esc |-> FALSE]
  BY <1>1, <1>3 DEF Adds
<1>5. x = [out |-> <<>>, cur |-> w, esc |-> FALSE]
  BY <1>1, <1>3, <1>4
<1>. HIDE DEF x
<1>6. x.out = <<>> /\ x.cur = w /\ x.esc = FALSE
  BY <1>5
<1>7. Split(t, sep, mode) = Append(x.out, x.cur)
  BY <1>6 DEF Split, x
<1>. QED  BY <1>6, <1>7

\* Parts joined by another character stay in one part.
LEMMA JoinAdds ==
  ASSUME NEW S, NEW c \in S, NEW sep, NEW mode, Decodes(mode, S), c # sep, c # Backslash \/ mode = "plain"
  PROVE  \A m \in Nat : \A p, w : AddsEach(p, w, sep, mode, S) /\ Len(w) = m + 1 =>
           Adds(Join(c, p), Join(c, w), sep, mode, S)
<1>. DEFINE Good(p, w) == Adds(Join(c, p), Join(c, w), sep, mode, S)
            U == {m \in Nat : \A p, w : AddsEach(p, w, sep, mode, S) /\ Len(w) = m + 1 => Good(p, w)}
            d == <<c>>
<1>1. d \in Seq(S) /\ Adds(d, d, sep, mode, S)
  BY AddsChar
<1>2. 0 \in U
  <2>. SUFFICES ASSUME NEW p, NEW w, AddsEach(p, w, sep, mode, S), Len(w) = 0 + 1 PROVE Good(p, w)
    OBVIOUS
  <2>9. Len(w) # 0
    OBVIOUS
  <2>. HIDE DEF Good, U, d
  <2>10. PICK q, v, x, y : LastParts(p, w, q, v, x, y, sep, mode, S)
    BY <2>9, AddsEachSplit
  <2>1. /\ q \in Seq(Seq(S)) /\ v \in Seq(Seq(S)) /\ x \in Seq(S) /\ y \in Seq(S)
        /\ p = Append(q, x) /\ w = Append(v, y) /\ Len(v) = 0
        /\ AddsEach(q, v, sep, mode, S) /\ Adds(x, y, sep, mode, S)
    <3>1. Len(v) = 0
      BY <2>10, LenProperties DEF LastParts
    <3>. QED  BY <2>10, <3>1 DEF LastParts
  <2>2. q = <<>> /\ v = <<>>
    BY <2>1, EmptySeq DEF AddsEach
  <2>3. p = <<x>> /\ w = <<y>>
    BY <2>1, <2>2
  <2>4. Join(c, <<x>>) = x
    BY <2>1, JoinOne
  <2>5. Join(c, <<y>>) = y
    BY <2>1, JoinOne
  <2>. QED  BY <2>1, <2>3, <2>4, <2>5 DEF Good
<1>3. ASSUME NEW m \in Nat, m \in U PROVE m + 1 \in U
  <2>. SUFFICES ASSUME NEW p, NEW w, AddsEach(p, w, sep, mode, S), Len(w) = (m + 1) + 1 PROVE Good(p, w)
    OBVIOUS
  <2>10. PICK q, v, x, y : LastParts(p, w, q, v, x, y, sep, mode, S)
    BY AddsEachSplit
  <2>1. /\ q \in Seq(Seq(S)) /\ v \in Seq(Seq(S)) /\ x \in Seq(S) /\ y \in Seq(S)
        /\ p = Append(q, x) /\ w = Append(v, y) /\ Len(v) = m + 1
        /\ AddsEach(q, v, sep, mode, S) /\ Adds(x, y, sep, mode, S)
    <3>1. Len(v) = m + 1
      BY <2>10, LenProperties DEF LastParts
    <3>. QED  BY <2>10, <3>1 DEF LastParts
  <2>2. Len(q) # 0 /\ Len(v) # 0
    BY <2>1 DEF AddsEach
  <2>. DEFINE a == Join(c, q)
              b == Join(c, v)
              dx == d \o x
              dy == d \o y
  <2>3. Join(c, p) = a \o dx /\ Join(c, w) = b \o dy
    BY <2>1, <2>2, JoinMore, ZenonT(30)
  <2>4. a \in Seq(S) /\ b \in Seq(S)
    <3>1. a \in Seq(S)
      BY <2>1, JoinType
    <3>2. b \in Seq(S)
      BY <2>1, JoinType
    <3>. QED  BY <3>1, <3>2
  <2>5. Adds(a, b, sep, mode, S)
    <3>1. Good(q, v)
      <4>. HIDE DEF Good
      <4>. QED  BY <1>3, <2>1
    <3>. QED  BY <3>1
  <2>. HIDE DEF a, b, d
  <2>6. dx \in Seq(S) /\ dy \in Seq(S)
    <3>1. dx \in Seq(S)
      BY <1>1, <2>1, ConcatProperties
    <3>2. dy \in Seq(S)
      BY <1>1, <2>1, ConcatProperties
    <3>. QED  BY <3>1, <3>2
  <2>7. Adds(dx, dy, sep, mode, S)
    BY <1>1, <2>1, AddsMore
  <2>. HIDE DEF dx, dy
  <2>8. Adds(a \o dx, b \o dy, sep, mode, S)
    BY <2>4, <2>5, <2>6, <2>7, AddsMore
  <2>. QED  BY <2>3, <2>8
<1>. HIDE DEF U
<1>4. Nat \subseteq U
  BY <1>2, <1>3, SetInduction
<1>. QED  BY <1>4 DEF U

-----------------------------------------------------------------------------
(* str.split and the decoders do the same to a text without a backslash.   *)

\* A text without a backslash is walked alike in every mode.
LEMMA WalkPlain ==
  ASSUME NEW S, NEW sep \in S, Backslash \notin S, NEW mode, Decodes(mode, S)
  PROVE  \A s \in Seq(S) : Walk(s, sep, mode) = Walk(s, sep, "plain") /\ Uncut(s, sep, mode)
<1>. DEFINE Good(s) == Walk(s, sep, mode) = Walk(s, sep, "plain") /\ Uncut(s, sep, mode)
            T == {s \in Seq(S) : Good(s)}
            e == <<>>
<1>0. Decodes("plain", S)
  BY DEF Decodes
<1>1. e \in T
  <2>1. Walk(e, sep, mode) = Start /\ Walk(e, sep, "plain") = Start
    BY WalkNothing
  <2>2. e \in Seq(S)
    BY EmptySeq
  <2>3. Start.esc = FALSE
    BY DEF Start
  <2>. HIDE DEF e
  <2>4. Uncut(e, sep, mode)
    BY <2>1, <2>3 DEF Uncut
  <2>. QED  BY <2>1, <2>2, <2>4
<1>2. ASSUME NEW s \in Seq(S), NEW c \in S, s \in T PROVE Append(s, c) \in T
  <2>. DEFINE x == Walk(s, sep, mode)
              t == Append(s, c)
              o == x.out
              u == x.cur
  <2>1. x \in Walks(S) /\ t \in Seq(S)
    BY WalkType, AppendProperties
  <2>2. x = Walk(s, sep, "plain") /\ x.esc = FALSE
    BY <1>2 DEF Uncut
  <2>3. Walk(t, sep, mode) = Step(x, c, sep, mode)
    BY WalkAppend
  <2>4. Walk(t, sep, "plain") = Step(Walk(s, sep, "plain"), c, sep, "plain")
    BY <1>0, WalkAppend
  <2>. HIDE DEF x, t
  <2>5. x = [out |-> o, cur |-> u, esc |-> FALSE]
    BY <2>1, <2>2 DEF Walks
  <2>. HIDE DEF o, u
  <2>6. CASE c = sep
    <3>1. Step([out |-> o, cur |-> u, esc |-> FALSE], sep, sep, mode) = [out |-> Append(o, u), cur |-> <<>>, esc |-> FALSE]
      BY StepSeparates
    <3>2. Step([out |-> o, cur |-> u, esc |-> FALSE], sep, sep, "plain") = [out |-> Append(o, u), cur |-> <<>>, esc |-> FALSE]
      BY StepSeparates
    <3>3. /\ Walk(t, sep, mode) = [out |-> Append(o, u), cur |-> <<>>, esc |-> FALSE]
          /\ Walk(t, sep, "plain") = [out |-> Append(o, u), cur |-> <<>>, esc |-> FALSE]
      BY <2>2, <2>3, <2>4, <2>5, <2>6, <3>1, <3>2
    <3>4. Uncut(t, sep, mode)
      BY <3>3 DEF Uncut
    <3>. QED  BY <2>1, <3>3, <3>4 DEF t
  <2>7. CASE c # sep
    <3>1. Step([out |-> o, cur |-> u, esc |-> FALSE], c, sep, mode) = [out |-> o, cur |-> Append(u, c), esc |-> FALSE]
      BY <2>7, StepAdds
    <3>2. Step([out |-> o, cur |-> u, esc |-> FALSE], c, sep, "plain") = [out |-> o, cur |-> Append(u, c), esc |-> FALSE]
      BY <2>7, StepAdds
    <3>3. /\ Walk(t, sep, mode) = [out |-> o, cur |-> Append(u, c), esc |-> FALSE]
          /\ Walk(t, sep, "plain") = [out |-> o, cur |-> Append(u, c), esc |-> FALSE]
      BY <2>2, <2>3, <2>4, <2>5, <3>1, <3>2
    <3>4. Uncut(t, sep, mode)
      BY <3>3 DEF Uncut
    <3>. QED  BY <2>1, <3>3, <3>4 DEF t
  <2>. QED  BY <2>6, <2>7
<1>. HIDE DEF T
<1>3. Seq(S) \subseteq T
  BY <1>1, <1>2, SeqSetInduction
<1>. QED  BY <1>3 DEF T

\* So it is split alike.
LEMMA SplitWithoutBackslash ==
  ASSUME NEW S, NEW sep \in S, Backslash \notin S, NEW mode, Decodes(mode, S), NEW s \in Seq(S)
  PROVE  Split(s, sep, mode) = Split(s, sep, "plain") /\ Split(s, sep, mode) \in Seq(Seq(S))
<1>. DEFINE x == Walk(s, sep, mode)
<1>1. x = Walk(s, sep, "plain") /\ x.esc = FALSE /\ x \in Walks(S)
  BY WalkPlain, WalkType DEF Uncut
<1>2. Split(s, sep, mode) = Append(x.out, x.cur)
  BY <1>1 DEF Split
<1>3. Split(s, sep, "plain") = Append(x.out, x.cur)
  BY <1>1 DEF Split
<1>. HIDE DEF x
<1>4. x.out \in Seq(Seq(S)) /\ x.cur \in Seq(S)
  BY <1>1 DEF Walks
<1>5. Append(x.out, x.cur) \in Seq(Seq(S))
  BY <1>4, AppendProperties
<1>. QED  BY <1>2, <1>3, <1>5

\* The characters of the wire: those of strings, the prefix and the tokens.
Wire == Chars \cup {EncPrefix} \cup [text : Cells]

\* The characters of strings are characters of the wire.
LEMMA WireChars ==
  /\ {Backslash, Comma, Semicolon, CR, LF} \subseteq Chars /\ Chars \subseteq Wire
  /\ None \notin Wire /\ EncPrefix \notin Chars
  /\ \A mode : Decodes(mode, Wire)
BY CodecAssumption DEF Wire, Decodes

\* The fast path of Python and its slow one agree, and Python with JavaScript.
LEMMA ParsersAgree ==
  ASSUME NEW text \in Seq(Wire)
  PROVE  ParseRowlistPy(text) = ParseRowlistJs(text)
<1>. SUFFICES ASSUME text # <<>>, ~Contains(text, Backslash)
              PROVE  Each(LAMBDA s : SplitPlain(s, Comma), SplitPlain(text, Semicolon)) =
                     Each(SplitWireRow, SplitWireRows(text))
  BY DEF ParseRowlistPy, ParseRowlistJs
<1>. DEFINE S == Wire \ {Backslash}
            parts == Split(text, Semicolon, "raw")
<1>1. Semicolon \in S /\ Comma \in S /\ Backslash \notin S /\ Decodes("raw", S) /\ Decodes("text", S)
  BY WireChars, SpecialsDiffer DEF Decodes
<1>2. text \in Seq(S)
  <2>. DEFINE n == Len(text)
  <2>1. n \in Nat /\ text \in [1 .. n -> Wire]
    BY LenProperties
  <2>2. \A i \in 1 .. n : text[i] # Backslash
    BY DEF Contains
  <2>3. text \in [1 .. n -> S]
    BY <2>1, <2>2
  <2>. HIDE DEF S, n
  <2>. QED  BY <2>1, <2>3, IsASeq
<1>. HIDE DEF S
<1>3. SplitPlain(text, Semicolon) = parts /\ parts \in Seq(Seq(S))
  BY <1>1, <1>2, SplitWithoutBackslash DEF SplitPlain
<1>. HIDE DEF parts
<1>4. \A i \in 1 .. Len(parts) : parts[i] \in Seq(S)
  BY <1>3, ElementOfSeq
<1>5. \A i \in 1 .. Len(parts) : SplitPlain(parts[i], Comma) = SplitWireRow(parts[i])
  BY <1>1, <1>4, SplitWithoutBackslash DEF SplitPlain, SplitWireRow
<1>6. SplitWireRows(text) = parts
  BY DEF SplitWireRows, parts
<1>. QED  BY <1>3, <1>5, <1>6 DEF Each

-----------------------------------------------------------------------------
(* Rows on their way.                                                      *)

\* A row with its values encoded.
EncodeEach(row, E) == [i \in 1 .. Len(row) |-> Encode(row[i], E)]

\* Encoded parts add what they mean.
LEMMA EncodedEach ==
  ASSUME NEW S, NEW E, NEW sep, NEW mode, Guards(E, sep, mode, S), NEW row \in Seq(Seq(S))
  PROVE  /\ mode = "text" => AddsEach(EncodeEach(row, E), row, sep, mode, S)
         /\ mode = "raw" => AddsEach(EncodeEach(row, E), EncodeEach(row, E), sep, mode, S)
<1>. DEFINE n == Len(row)
            f == EncodeEach(row, E)
<1>1. n \in Nat /\ \A i \in 1 .. n : row[i] \in Seq(S)
  BY LenProperties, ElementOfSeq
<1>2. \A i \in 1 .. n : f[i] = Encode(row[i], E)
  BY DEF EncodeEach
<1>3. \A i \in 1 .. n : Encode(row[i], E) \in Seq(S)
  BY <1>1, MeantType
<1>4. f \in [1 .. n -> Seq(S)]
  BY <1>3 DEF EncodeEach
<1>. HIDE DEF f, n
<1>5. f \in Seq(Seq(S))
  BY <1>1, <1>4, IsASeq
<1>6. Len(f) = n
  BY <1>1, <1>4, <1>5, LenProperties
<1>7. \A i \in 1 .. n : Adds(f[i], Meant(row[i], E, mode), sep, mode, S)
  BY <1>1, <1>2, EncodedAdds
<1>8. ASSUME mode = "text" PROVE AddsEach(f, row, sep, mode, S)
  <2>1. \A i \in 1 .. n : Adds(f[i], row[i], sep, mode, S)
    BY <1>7, <1>8 DEF Meant
  <2>. QED  BY <1>5, <1>6, <2>1 DEF AddsEach, n
<1>9. ASSUME mode = "raw" PROVE AddsEach(f, f, sep, mode, S)
  <2>1. \A i \in 1 .. n : Adds(f[i], f[i], sep, mode, S)
    BY <1>2, <1>7, <1>9 DEF Meant
  <2>. QED  BY <1>5, <1>6, <2>1 DEF AddsEach
<1>. QED  BY <1>8, <1>9 DEF f

\* What either client writes the server reads: one row of values.
LEMMA ValuesArrive ==
  ASSUME NEW row \in Seq(Seq(Wire)), Len(row) # 0
  PROVE  ServerDecode(Join(Comma, Each(EncodeValue, row))) = row
<1>1. Guards(ValueEscapes, Comma, "text", Wire)
  BY WireChars, ValueEscaping DEF Guards
<1>2. AddsEach(EncodeEach(row, ValueEscapes), row, Comma, "text", Wire)
  BY <1>1, EncodedEach
<1>3. Split(Join(Comma, EncodeEach(row, ValueEscapes)), Comma, "text") = row
  <2>1. Comma \in Wire /\ Comma # Backslash /\ Decodes("text", Wire)
    BY WireChars, SpecialsDiffer
  <2>. QED  BY <1>2, <2>1, SplitJoin
<1>4. Each(EncodeValue, row) = EncodeEach(row, ValueEscapes)
  BY DEF Each, EncodeValue, EncodeEach
<1>. QED  BY <1>3, <1>4 DEF ServerDecode

\* What the server writes the clients read: one row.
LEMMA RowArrives ==
  ASSUME NEW row \in Seq(Seq(Wire)), Len(row) # 0
  PROVE  SplitWireRow(RowBody(row)) = row
<1>1. Guards(ServerEscapes, Comma, "text", Wire)
  BY WireChars, ServerEscaping DEF Guards
<1>2. AddsEach(EncodeEach(row, ServerEscapes), row, Comma, "text", Wire)
  BY <1>1, EncodedEach
<1>3. Split(Join(Comma, EncodeEach(row, ServerEscapes)), Comma, "text") = row
  <2>1. Comma \in Wire /\ Comma # Backslash /\ Decodes("text", Wire)
    BY WireChars, SpecialsDiffer
  <2>. QED  BY <1>2, <2>1, SplitJoin
<1>4. RowBody(row) = Join(Comma, EncodeEach(row, ServerEscapes))
  BY DEF RowBody, Each, ServerEncode, EncodeEach
<1>. QED  BY <1>3, <1>4 DEF SplitWireRow

\* One value.
LEMMA ValueArrives ==
  ASSUME NEW s \in Seq(Wire)
  PROVE  DecodeExecStr(EncodeValue(s)) = s /\ DecodeExecStr(EncodeExecStr(s)) = s
<1>0. None \notin Wire /\ Decodes("text", Wire)
  BY WireChars
<1>1. ASSUME NEW E, Guards(E, None, "text", Wire) PROVE DecodeExecStr(Encode(s, E)) = s
  <2>1. Adds(Encode(s, E), s, None, "text", Wire)
    BY <1>1, EncodedAdds DEF Meant
  <2>2. Encode(s, E) \in Seq(Wire)
    BY <1>1, MeantType
  <2>3. Split(Encode(s, E), None, "text") = <<s>>
    BY <1>0, <2>1, <2>2, SplitOne
  <2>. QED  BY <2>3 DEF DecodeExecStr
<1>2. Guards(ValueEscapes, None, "text", Wire) /\ Guards(ExecEscapes, None, "text", Wire)
  BY <1>0, WireChars, ValueEscaping, ExecEscaping DEF Guards
<1>. QED  BY <1>1, <1>2 DEF EncodeValue, EncodeExecStr

\* The body of a row is a text, and no semicolon in it ends it.
LEMMA RowBodyWhole ==
  ASSUME NEW row \in Seq(Seq(Wire)), Len(row) # 0
  PROVE  RowBody(row) \in Seq(Wire) /\ Adds(RowBody(row), RowBody(row), Semicolon, "raw", Wire)
<1>. DEFINE f == EncodeEach(row, ServerEscapes)
            m == Len(row) - 1
<1>1. Guards(ServerEscapes, Semicolon, "raw", Wire)
  BY WireChars, ServerEscaping DEF Guards
<1>2. AddsEach(f, f, Semicolon, "raw", Wire)
  BY <1>1, EncodedEach
<1>3. Len(f) = m + 1 /\ m \in Nat
  <2>1. Len(row) \in Nat
    BY LenProperties
  <2>2. f \in [1 .. Len(row) -> Seq(Wire)]
    <3>1. \A i \in 1 .. Len(row) : row[i] \in Seq(Wire)
      BY ElementOfSeq
    <3>2. \A i \in 1 .. Len(row) : Encode(row[i], ServerEscapes) \in Seq(Wire)
      BY <1>1, <3>1, MeantType
    <3>. QED  BY <3>2 DEF EncodeEach
  <2>3. f \in Seq(Seq(Wire))
    BY <1>2 DEF AddsEach
  <2>. HIDE DEF f
  <2>4. Len(f) = Len(row)
    BY <2>1, <2>2, <2>3, LenProperties
  <2>. QED  BY <2>1, <2>4
<1>4. RowBody(row) = Join(Comma, f)
  BY DEF RowBody, Each, ServerEncode, EncodeEach
<1>. HIDE DEF f, m
<1>5. Comma \in Wire /\ Comma # Semicolon /\ Comma # Backslash /\ Decodes("raw", Wire)
  BY WireChars, SpecialsDiffer
<1>6. Adds(Join(Comma, f), Join(Comma, f), Semicolon, "raw", Wire)
  BY <1>2, <1>3, <1>5, JoinAdds
<1>7. Join(Comma, f) \in Seq(Wire)
  BY <1>2, <1>5, JoinType DEF AddsEach
<1>. QED  BY <1>4, <1>6, <1>7

\* Rows of one column at least.
Rows == {row \in Seq(Seq(Wire)) : Len(row) # 0}

\* What the server writes the clients read: the rows of a result.
LEMMA RowsArrive ==
  ASSUME NEW rows \in Seq(Rows), Len(rows) # 0
  PROVE  /\ Rowlist(rows) \in Seq(Wire)
         /\ Each(SplitWireRow, SplitWireRows(Rowlist(rows))) = rows
         /\ Rowlist(rows) = <<>> => rows = << << <<>> >> >>
<1>. DEFINE n == Len(rows)
            f == [i \in 1 .. n |-> RowBody(rows[i])]
<1>1. n \in Nat /\ n # 0 /\ \A i \in 1 .. n : rows[i] \in Rows
  BY LenProperties, ElementOfSeq
<1>2. \A i \in 1 .. n : f[i] \in Seq(Wire) /\ Adds(f[i], f[i], Semicolon, "raw", Wire)
  BY <1>1, RowBodyWhole DEF Rows
<1>3. f \in [1 .. n -> Seq(Wire)]
  BY <1>2
<1>4. Rowlist(rows) = Join(Semicolon, f)
  BY DEF Rowlist, Each
<1>5. \A i \in 1 .. n : SplitWireRow(f[i]) = rows[i]
  BY <1>1, RowArrives DEF Rows
<1>50. \A i \in 1 .. n : f[i] = RowBody(rows[i])
  OBVIOUS
<1>. HIDE DEF f, n
<1>6. f \in Seq(Seq(Wire))
  BY <1>1, <1>3, IsASeq
<1>7. Len(f) = n
  BY <1>1, <1>3, <1>6, LenProperties
<1>8. AddsEach(f, f, Semicolon, "raw", Wire)
  BY <1>2, <1>6, <1>7 DEF AddsEach
<1>9. Semicolon \in Wire /\ Semicolon # Backslash /\ Decodes("raw", Wire)
  BY WireChars, SpecialsDiffer
<1>10. SplitWireRows(Rowlist(rows)) = f
  <2>1. Split(Join(Semicolon, f), Semicolon, "raw") = f
    BY <1>1, <1>7, <1>8, <1>9, SplitJoin
  <2>. QED  BY <1>4, <2>1 DEF SplitWireRows
<1>11. Each(SplitWireRow, f) = rows
  <2>1. Each(SplitWireRow, f) = [i \in 1 .. n |-> rows[i]]
    BY <1>5, <1>7 DEF Each
  <2>2. [i \in 1 .. n |-> rows[i]] = rows
    BY LenProperties DEF n
  <2>. QED  BY <2>1, <2>2
<1>12. Rowlist(rows) \in Seq(Wire)
  BY <1>4, <1>6, <1>9, JoinType
<1>13. ASSUME Rowlist(rows) = <<>> PROVE rows = << << <<>> >> >>
  <2>. DEFINE e == <<>>
  <2>1. Start.out = e /\ Start.cur = e /\ Start.esc = FALSE
    BY DEF Start
  <2>2. \A sep, mode : Split(e, sep, mode) = <<e>>
    <3>. SUFFICES ASSUME NEW sep, NEW mode PROVE Split(e, sep, mode) = <<e>>
      OBVIOUS
    <3>1. Walk(e, sep, mode) = Start
      BY WalkNothing
    <3>2. Split(e, sep, mode) = Append(Start.out, Start.cur)
      <4>. HIDE DEF e
      <4>. QED  BY <2>1, <3>1 DEF Split
    <3>. QED  BY <2>1, <3>2
  <2>3. f = <<e>>
    BY <1>10, <1>13, <2>2 DEF SplitWireRows
  <2>. HIDE DEF e
  <2>4. n = 1 /\ f[1] = e
    BY <1>7, <2>3
  <2>5. rows[1] = <<e>>
    BY <1>5, <2>2, <2>4 DEF SplitWireRow
  <2>6. rows = <<rows[1]>>
    BY <2>4, LenProperties DEF n
  <2>. QED  BY <2>5, <2>6 DEF e
<1>. QED  BY <1>10, <1>11, <1>12, <1>13

\* All rows of a result come back in both languages, but for the one result
\* that has the body of none.
LEMMA ResultArrives ==
  ASSUME NEW rows \in Seq(Rows), rows # << << <<>> >> >>
  PROVE  ParseRowlistPy(Rowlist(rows)) = rows /\ ParseRowlistJs(Rowlist(rows)) = rows
<1>1. CASE rows = <<>>
  <2>1. Each(RowBody, rows) = <<>>
    BY <1>1 DEF Each
  <2>2. Rowlist(rows) = <<>>
    <3>1. Join(Semicolon, <<>>) = <<>>
      <4>1. [i \in 1 .. Len(<<>>) |-> IF i = 1 THEN <<>>[i] ELSE <<Semicolon>> \o (<<>>[i])] = <<>>
        OBVIOUS
      <4>. QED  BY <4>1, FlattenNone DEF Join
    <3>. QED  BY <2>1, <3>1 DEF Rowlist
  <2>. QED  BY <1>1, <2>2 DEF ParseRowlistPy, ParseRowlistJs
<1>2. CASE rows # <<>>
  <2>1. Len(rows) # 0
    BY <1>2, EmptySeq
  <2>2. /\ Rowlist(rows) \in Seq(Wire) /\ Rowlist(rows) # <<>>
        /\ Each(SplitWireRow, SplitWireRows(Rowlist(rows))) = rows
    BY <2>1, RowsArrive
  <2>3. ParseRowlistJs(Rowlist(rows)) = rows
    BY <2>2 DEF ParseRowlistJs
  <2>. QED  BY <2>2, <2>3, ParsersAgree
<1>. QED  BY <1>1, <1>2

\* The two arguments of a string kernel.
LEMMA ArgumentsArrive ==
  ASSUME NEW a \in Seq(Wire), NEW b \in Seq(Wire)
  PROVE  ServerArgs(EncodeExecStr(a) \o <<Semicolon>> \o EncodeExecStr(b)) = <<a, b>>
<1>. DEFINE p == Encode(a, ExecEscapes)
            q == Encode(b, ExecEscapes)
            d == <<Semicolon>>
            f == <<p, q>>
            l == p \o d \o q
<1>1. Guards(ExecEscapes, Semicolon, "raw", Wire)
  BY WireChars, ExecEscaping DEF Guards
<1>2. p \in Seq(Wire) /\ q \in Seq(Wire)
  BY <1>1, MeantType
<1>3. Adds(p, p, Semicolon, "raw", Wire) /\ Adds(q, q, Semicolon, "raw", Wire)
  BY <1>1, EncodedAdds DEF Meant
<1>4. Semicolon \in Wire /\ Semicolon # Backslash /\ Decodes("raw", Wire)
  BY WireChars, SpecialsDiffer
<1>5. DecodeExecStr(p) = a /\ DecodeExecStr(q) = b
  BY ValueArrives DEF EncodeExecStr
<1>6. EncodeExecStr(a) = p /\ EncodeExecStr(b) = q
  BY DEF EncodeExecStr
<1>. HIDE DEF p, q
<1>7. f \in Seq(Seq(Wire)) /\ Len(f) = 2 /\ f[1] = p /\ f[2] = q
  BY <1>2
<1>8. AddsEach(f, f, Semicolon, "raw", Wire)
  <2>1. \A i \in 1 .. 2 : i = 1 \/ i = 2
    OBVIOUS
  <2>. HIDE DEF f
  <2>. QED  BY <1>3, <1>7, <2>1 DEF AddsEach
<1>9. Join(Semicolon, f) = l
  <2>. DEFINE g == <<p>>
  <2>1. g \in Seq(Seq(Wire)) /\ Len(g) # 0
    BY <1>2
  <2>2. Append(g, q) = f
    BY <1>2, AppendOne
  <2>3. Join(Semicolon, g) = p
    BY <1>2, JoinOne
  <2>. HIDE DEF g, f, d
  <2>4. Join(Semicolon, Append(g, q)) = Append(Join(Semicolon, g), Semicolon) \o q
    BY <1>2, <1>4, <2>1, JoinMore, ZenonT(30)
  <2>5. Append(p, Semicolon) = p \o d
    BY <1>2, <1>4, AppendIsConcat DEF d
  <2>. QED  BY <2>2, <2>3, <2>4, <2>5
<1>10. Split(l, Semicolon, "raw") = f
  <2>1. Len(f) # 0
    BY <1>7
  <2>. HIDE DEF f, l
  <2>. QED  BY <1>4, <1>8, <1>9, <2>1, SplitJoin
<1>11. Tail(f) = <<q>>
  BY <1>2
<1>12. Join(Semicolon, <<q>>) = q
  BY <1>2, JoinOne
<1>13. Each(DecodeExecStr, <<p, q>>) = <<a, b>>
  BY <1>5 DEF Each
<1>14. ServerArgs(l) = Each(DecodeExecStr, <<p, q>>)
  <2>1. f[1] = p
    BY <1>7
  <2>. HIDE DEF f, l
  <2>. QED  BY <1>10, <1>11, <1>12, <2>1 DEF ServerArgs
<1>. QED  BY <1>6, <1>13, <1>14 DEF l, d

-----------------------------------------------------------------------------
(* Lists of numbers: str.split, and the split at the first separator.      *)

\* To str.split a text without the separator adds itself.
LEMMA PlainAdds ==
  ASSUME NEW S, NEW sep
  PROVE  \A s \in Seq(S \ {sep}) : Adds(s, s, sep, "plain", S)
<1>. DEFINE C == S \ {sep}
            T == {s \in Seq(C) : Adds(s, s, sep, "plain", S)}
            e == <<>>
<1>0. Decodes("plain", S)
  BY DEF Decodes
<1>1. e \in T
  <2>1. e \in Seq(C) /\ Adds(e, e, sep, "plain", S)
    BY <1>0, EmptySeq, AddsNothing
  <2>. QED  BY <2>1
<1>2. ASSUME NEW s \in Seq(C), NEW c \in C, s \in T PROVE Append(s, c) \in T
  <2>. DEFINE d == <<c>>
              t == Append(s, c)
  <2>1. t \in Seq(C) /\ t = s \o d
    <3>1. t \in Seq(C)
      BY AppendProperties
    <3>2. t = s \o d
      <4>. HIDE DEF C
      <4>. QED  BY AppendIsConcat
    <3>. QED  BY <3>1, <3>2
  <2>2. s \in Seq(S) /\ d \in Seq(S)
    OBVIOUS
  <2>3. Adds(d, d, sep, "plain", S)
    BY <1>0, AddsChar
  <2>4. Adds(s, s, sep, "plain", S)
    BY <1>2
  <2>. HIDE DEF d
  <2>5. Adds(s \o d, s \o d, sep, "plain", S)
    BY <1>0, <2>2, <2>3, <2>4, AddsMore
  <2>. QED  BY <2>1, <2>5
<1>. HIDE DEF T, C
<1>3. Seq(C) \subseteq T
  BY <1>1, <1>2, SeqSetInduction
<1>. QED  BY <1>3 DEF T, C

\* Parts without the separator are split as they were joined.
LEMMA PlainParts ==
  ASSUME NEW S, NEW sep \in S, NEW ss \in Seq(Seq(S \ {sep})), Len(ss) # 0
  PROVE  SplitPlain(Join(sep, ss), sep) = ss
<1>1. ss \in Seq(Seq(S)) /\ \A i \in 1 .. Len(ss) : ss[i] \in Seq(S \ {sep})
  BY ElementOfSeq
<1>2. \A i \in 1 .. Len(ss) : Adds(ss[i], ss[i], sep, "plain", S)
  BY <1>1, PlainAdds
<1>3. AddsEach(ss, ss, sep, "plain", S) /\ Decodes("plain", S)
  BY <1>1, <1>2 DEF AddsEach, Decodes
<1>. QED  BY <1>3, SplitJoin DEF SplitPlain

\* No text is one empty part.
LEMMA SplitNothing ==
  ASSUME NEW sep, NEW mode PROVE Split(<<>>, sep, mode) = << <<>> >>
<1>. DEFINE e == <<>>
<1>1. Start.out = e /\ Start.cur = e /\ Start.esc = FALSE
  BY DEF Start
<1>2. Walk(e, sep, mode) = Start
  BY WalkNothing
<1>3. Split(e, sep, mode) = Append(Start.out, Start.cur)
  <2>. HIDE DEF e
  <2>. QED  BY <1>1, <1>2 DEF Split
<1>. QED  BY <1>1, <1>3

\* Rows of numbers, at least one to a row.
Tuples == {row \in Seq(Numeral) : Len(row) # 0}

\* A list of rows is read back row by row.
LEMMA ListArrives ==
  ASSUME NEW sep \in {Comma, Colon}, NEW rows \in Seq(Tuples), rows # <<>>
  PROVE  /\ ListBody(sep, rows) # <<>>
         /\ SplitPlain(ListBody(sep, rows), Semicolon) = [i \in 1 .. Len(rows) |-> Join(sep, rows[i])]
         /\ \A i \in 1 .. Len(rows) : SplitPlain(Join(sep, rows[i]), sep) = rows[i]
<1>. DEFINE S == Atoms \cup {Semicolon, sep}
            n == Len(rows)
            f == [i \in 1 .. n |-> Join(sep, rows[i])]
            C == S \ {Semicolon}
            D == S \ {sep}
<1>0. sep # Semicolon /\ sep \notin Atoms /\ Semicolon \notin Atoms
  <2>1. Comma # Semicolon /\ Colon # Semicolon
    <3>. DEFINE g == <<Backslash, Comma, Semicolon, CR, LF, Quote, Bar, Colon, R, N>>
    <3>1. \A i, j \in 1 .. 10 : g[i] = g[j] => i = j
      BY CodecAssumption DEF IsInjective
    <3>2. g[2] = Comma /\ g[3] = Semicolon /\ g[8] = Colon
      OBVIOUS
    <3>. HIDE DEF g
    <3>. QED  BY <3>1, <3>2
  <2>. QED  BY <2>1, CommandsAssumption
<1>1. n \in Nat /\ n # 0 /\ \A i \in 1 .. n : rows[i] \in Seq(Numeral) /\ Len(rows[i]) # 0
  BY LenProperties, ElementOfSeq, EmptySeq DEF Tuples
<1>2. sep \in C /\ Atoms \subseteq C /\ Atoms \subseteq D /\ Semicolon \in S /\ sep \in S
  BY <1>0
<1>3. \A i \in 1 .. n : rows[i] \in Seq(Seq(C)) /\ rows[i] \in Seq(Seq(D))
  <2>1. Numeral \subseteq Seq(C) /\ Numeral \subseteq Seq(D)
    <3>. HIDE DEF C, D
    <3>. QED  BY <1>2 DEF Numeral
  <2>. HIDE DEF C, D
  <2>. QED  BY <1>1, <2>1
<1>. HIDE DEF C, D
<1>4. \A i \in 1 .. n : Join(sep, rows[i]) \in Seq(C)
  BY <1>2, <1>3, JoinType
<1>. HIDE DEF S
<1>5. \A i \in 1 .. n : SplitPlain(Join(sep, rows[i]), sep) = rows[i]
  BY <1>1, <1>2, <1>3, PlainParts DEF D
<1>6. f \in [1 .. n -> Seq(C)] /\ \A i \in 1 .. n : f[i] = Join(sep, rows[i])
  BY <1>4
<1>7. ListBody(sep, rows) = Join(Semicolon, f)
  BY DEF ListBody, Each
<1>. HIDE DEF f, n
<1>8. f \in Seq(Seq(C))
  BY <1>1, <1>6
<1>9. Len(f) = n
  BY <1>1, <1>6, <1>8, LenProperties
<1>10. SplitPlain(ListBody(sep, rows), Semicolon) = f
  <2>1. SplitPlain(Join(Semicolon, f), Semicolon) = f
    BY <1>1, <1>2, <1>8, <1>9, PlainParts DEF C
  <2>. QED  BY <1>7, <2>1
<1>11. ASSUME ListBody(sep, rows) = <<>> PROVE FALSE
  <2>. DEFINE e == <<>>
  <2>1. f = <<e>>
    BY <1>10, <1>11, SplitNothing DEF SplitPlain
  <2>2. f[1] = e /\ 1 \in 1 .. n
    BY <1>1, <2>1
  <2>3. rows[1] = <<e>>
    BY <1>5, <1>6, <2>2, SplitNothing DEF SplitPlain
  <2>4. rows[1][1] \in Numeral
    BY <1>1, <2>2, <2>3
  <2>5. rows[1][1] = e
    BY <2>3
  <2>. QED  BY <2>4, <2>5 DEF Numeral
<1>. QED  BY <1>5, <1>10, <1>11 DEF f, n

\* A list without rows has no body.
LEMMA NoListArrives ==
  ASSUME NEW sep PROVE ListBody(sep, <<>>) = <<>>
<1>. DEFINE e == <<>>
<1>1. ListBody(sep, e) = Join(Semicolon, e)
  BY DEF ListBody, Each
<1>2. Join(Semicolon, e) = FlattenSeq(e)
  BY DEF Join
<1>. QED  BY <1>1, <1>2, FlattenNone

\* Rows of pairs and of scores are read back.
LEMMA RowsParse ==
  ASSUME NEW sep \in {Comma, Colon}, NEW rows \in Seq(Tuples)
  PROVE  ParseRows(ListBody(sep, rows), sep) = rows
<1>1. CASE rows = <<>>
  BY <1>1, NoListArrives DEF ParseRows
<1>2. CASE rows # <<>>
  <2>. DEFINE f == [i \in 1 .. Len(rows) |-> Join(sep, rows[i])]
              b == ListBody(sep, rows)
  <2>1. b # <<>> /\ SplitPlain(b, Semicolon) = f /\ \A i \in 1 .. Len(rows) : SplitPlain(f[i], sep) = rows[i]
    BY <1>2, ListArrives
  <2>2. Len(f) = Len(rows) /\ rows = [i \in 1 .. Len(rows) |-> rows[i]]
    BY LenProperties
  <2>. HIDE DEF f, b
  <2>3. ParseRows(b, sep) = [i \in 1 .. Len(f) |-> SplitPlain(f[i], sep)]
    BY <2>1 DEF ParseRows, Each
  <2>4. ParseRows(b, sep) = [i \in 1 .. Len(rows) |-> rows[i]]
    BY <2>1, <2>2, <2>3
  <2>. QED  BY <2>2, <2>4 DEF b
<1>. QED  BY <1>1, <1>2

\* Rows of a length are rows.
LEMMA NumeralsAreRows ==
  ASSUME NEW k \in Nat \ {0}, NEW rows \in Seq(Numerals(k))
  PROVE  rows \in Seq(Tuples)
<1>1. ASSUME NEW row \in Numerals(k) PROVE row \in Tuples
  <2>1. row \in Seq(Numeral) /\ DOMAIN row = 1 .. k
    BY DEF Numerals
  <2>2. Len(row) # 0
    BY <2>1, LenProperties
  <2>. QED  BY <2>1, <2>2 DEF Tuples
<1>. QED  BY <1>1

\* A list of ids is read back.
LEMMA IdsParse ==
  ASSUME NEW rows \in Seq(Numerals(1))
  PROVE  ParseIds(ListBody(Comma, rows)) = rows
<1>0. rows \in Seq(Tuples)
  <2>1. 1 \in Nat \ {0}
    OBVIOUS
  <2>. QED  BY <2>1, NumeralsAreRows
<1>1. CASE rows = <<>>
  BY <1>1, NoListArrives DEF ParseIds
<1>2. CASE rows # <<>>
  <2>. DEFINE f == [i \in 1 .. Len(rows) |-> Join(Comma, rows[i])]
              b == ListBody(Comma, rows)
  <2>1. b # <<>> /\ SplitPlain(b, Semicolon) = f
    BY <1>0, <1>2, ListArrives
  <2>2. Len(f) = Len(rows) /\ rows = [i \in 1 .. Len(rows) |-> rows[i]]
    BY LenProperties
  <2>3. \A i \in 1 .. Len(rows) : <<f[i]>> = rows[i]
    <3>. SUFFICES ASSUME NEW i \in 1 .. Len(rows) PROVE <<f[i]>> = rows[i]
      OBVIOUS
    <3>. DEFINE x == rows[i][1]
    <3>1. rows[i] \in [1 .. 1 -> Numeral]
      BY ElementOfSeq DEF Numerals
    <3>2. rows[i] = <<x>> /\ x \in Seq(Atoms)
      BY <3>1 DEF Numeral
    <3>. HIDE DEF x
    <3>3. Join(Comma, <<x>>) = x
      BY <3>2, JoinOne
    <3>. QED  BY <3>2, <3>3
  <2>. HIDE DEF f, b
  <2>4. ParseIds(b) = [i \in 1 .. Len(f) |-> <<f[i]>>]
    BY <2>1 DEF ParseIds, Each
  <2>5. ParseIds(b) = [i \in 1 .. Len(rows) |-> rows[i]]
    BY <2>2, <2>3, <2>4
  <2>. QED  BY <2>2, <2>5 DEF b
<1>. QED  BY <1>1, <1>2

\* A text is cut at its first separator.
LEMMA PartitionAt ==
  ASSUME NEW S, NEW sep \in S, NEW p \in Seq(S \ {sep}), NEW q \in Seq(S)
  PROVE  /\ Partition((p \o <<sep>>) \o q, sep) = <<p, q>>
         /\ Contains((p \o <<sep>>) \o q, sep)
<1>. DEFINE d == <<sep>>
            pd == p \o d
            s == pd \o q
            n == Len(p)
<1>1. p \in Seq(S) /\ \A i \in 1 .. n : p[i] # sep
  <2>1. \A i \in 1 .. n : p[i] \in S \ {sep}
    BY ElementOfSeq
  <2>. QED  BY <2>1
<1>2. n \in Nat /\ Len(q) \in Nat /\ d \in Seq(S) /\ Len(d) = 1 /\ d[1] = sep
  BY <1>1, LenProperties
<1>. HIDE DEF d
<1>3. pd \in Seq(S) /\ Len(pd) = n + 1 /\ pd[n + 1] = sep /\ \A i \in 1 .. n : pd[i] = p[i]
  <2>1. /\ pd \in Seq(S) /\ Len(pd) = Len(p) + Len(d)
        /\ \A i \in 1 .. Len(p) + Len(d) : pd[i] = IF i <= Len(p) THEN p[i] ELSE d[i - Len(p)]
    BY <1>1, <1>2, ConcatProperties
  <2>. HIDE DEF pd
  <2>2. n + 1 \in 1 .. n + 1 /\ (n + 1) - n = 1
    BY <1>2
  <2>. QED  BY <1>2, <2>1, <2>2
<1>. HIDE DEF pd
<1>5. /\ s \in Seq(S) /\ Len(s) = n + 1 + Len(q)
      /\ \A i \in 1 .. n + 1 : s[i] = pd[i]
  <2>1. /\ s \in Seq(S) /\ Len(s) = Len(pd) + Len(q)
        /\ \A i \in 1 .. Len(pd) + Len(q) : s[i] = IF i <= Len(pd) THEN pd[i] ELSE q[i - Len(pd)]
    BY <1>3, ConcatProperties
  <2>. HIDE DEF s
  <2>. QED  BY <1>2, <1>3, <2>1
<1>6. SubSeq(s, n + 2, Len(s)) = q
  <2>1. SubSeq(s, Len(pd) + 1, Len(s)) = q
    BY <1>3, Parts
  <2>2. Len(pd) + 1 = n + 2
    BY <1>2, <1>3
  <2>. HIDE DEF s
  <2>. QED  BY <2>1, <2>2
<1>. HIDE DEF s
<1>7. \A i \in 1 .. n + 1 : s[i] = sep <=> i = n + 1
  <2>1. \A i \in 1 .. n + 1 : i \in 1 .. n \/ i = n + 1
    BY <1>2
  <2>2. \A i \in 1 .. n : s[i] # sep
    <3>1. \A i \in 1 .. n : i \in 1 .. n + 1
      BY <1>2
    <3>. HIDE DEF n
    <3>. QED  BY <1>1, <1>3, <1>5, <3>1
  <2>3. s[n + 1] = sep
    BY <1>2, <1>3, <1>5
  <2>. QED  BY <1>2, <2>1, <2>2, <2>3
<1>. DEFINE I == {i \in 1 .. Len(s) : s[i] = sep}
<1>8. n + 1 \in I /\ \A i \in I : n + 1 <= i
  BY <1>2, <1>5, <1>7
<1>9. Min(I) = n + 1
  <2>1. I \subseteq Nat
    BY <1>2, <1>5
  <2>. HIDE DEF I
  <2>2. \A x \in I : (\A y \in I : x <= y) => x = n + 1
    BY <1>2, <1>8, <2>1
  <2>. QED  BY <1>8, <2>2 DEF Min
<1>10. SelectInSeq(s, LAMBDA c : c = sep) = n + 1
  BY <1>8, <1>9 DEF SelectInSeq
<1>11. Partition(s, sep) = <<SubSeq(s, 1, n), SubSeq(s, n + 2, Len(s))>>
  <2>1. (n + 1) - 1 = n /\ (n + 1) + 1 = n + 2
    BY <1>2
  <2>. QED  BY <1>10, <2>1 DEF Partition
<1>12. SubSeq(s, 1, n) = p
  <2>. DEFINE a == SubSeq(s, 1, n)
  <2>1. a \in Seq(S) /\ Len(a) = n /\ \A i \in 1 .. n : a[i] = s[i]
    BY <1>2, <1>5, Cut
  <2>. HIDE DEF a
  <2>2. \A i \in 1 .. n : i \in 1 .. n + 1
    BY <1>2
  <2>3. \A i \in 1 .. n : a[i] = p[i]
    <3>. HIDE DEF n
    <3>. QED  BY <1>3, <1>5, <2>1, <2>2
  <2>4. a = p
    BY <1>1, <2>1, <2>3, SeqEqual
  <2>. QED  BY <2>4 DEF a
<1>13. Contains(s, sep)
  BY <1>8 DEF Contains
<1>. QED  BY <1>6, <1>11, <1>12, <1>13 DEF s, pd, d

\* What the body of a list is made of.
LEMMA ListType ==
  ASSUME NEW sep, NEW rows \in Seq(Tuples), NEW S, Atoms \subseteq S, sep \in S, Semicolon \in S
  PROVE  ListBody(sep, rows) \in Seq(S)
<1>. DEFINE n == Len(rows)
            f == [i \in 1 .. n |-> Join(sep, rows[i])]
<1>1. n \in Nat /\ \A i \in 1 .. n : rows[i] \in Seq(Numeral)
  BY LenProperties, ElementOfSeq DEF Tuples
<1>2. Numeral \subseteq Seq(S)
  BY DEF Numeral
<1>3. \A i \in 1 .. n : Join(sep, rows[i]) \in Seq(S)
  BY <1>1, <1>2, JoinType
<1>4. f \in Seq(Seq(S))
  BY <1>1, <1>3
<1>5. ListBody(sep, rows) = Join(Semicolon, f)
  BY DEF ListBody, Each
<1>. HIDE DEF f
<1>. QED  BY <1>4, <1>5, JoinType

\* The cursor of a LOG and its events are read back.
LEMMA LogParses ==
  ASSUME NEW rows \in Lists.log
  PROVE  ParseLog(Body("log", rows)) = rows
<1>. DEFINE S == Atoms \cup {" ", Semicolon, Colon}
            h == Head(rows)
            p == h[1]
            t == Tail(rows)
            q == ListBody(Colon, t)
            b == (p \o <<" ">>) \o q
<1>1. rows # <<>> /\ rows \in Seq(Seq(Numeral)) /\ h \in Numerals(1) /\ t \in Seq(Numerals(3))
  BY CommandsAssumption
<1>2. <<h>> \o t = rows
  BY <1>1, HeadThenTail
<1>3. h = <<p>> /\ p \in Numeral
  <2>. HIDE DEF h, Numeral
  <2>. QED  BY <1>1 DEF Numerals
<1>4. t \in Seq(Tuples)
  <2>1. 3 \in Nat \ {0}
    OBVIOUS
  <2>. HIDE DEF t
  <2>. QED  BY <1>1, <2>1, NumeralsAreRows
<1>. HIDE DEF h, t
<1>5. q \in Seq(S)
  BY <1>4, ListType
<1>6. " " \in S /\ Atoms \subseteq S \ {" "}
  BY CommandsAssumption
<1>. HIDE DEF S, p
<1>7. p \in Seq(S \ {" "})
  <2>. DEFINE D == S \ {" "}
  <2>1. p \in Seq(Atoms)
    BY <1>3 DEF Numeral
  <2>2. Atoms \subseteq D
    BY <1>6
  <2>. HIDE DEF D
  <2>3. p \in Seq(D)
    BY <2>1, <2>2
  <2>. QED  BY <2>3 DEF D
<1>. HIDE DEF q
<1>8. Partition(b, " ") = <<p, q>>
  BY <1>5, <1>6, <1>7, PartitionAt
<1>9. ParseRows(q, Colon) = t
  BY <1>4, RowsParse DEF q
<1>10. Body("log", rows) = b
  BY DEF Body, p, q, h, t
<1>. HIDE DEF b
<1>11. ParseLog(b) = << <<p>> >> \o t
  <2>1. Partition(b, " ")[1] = p /\ Partition(b, " ")[2] = q
    BY <1>8, PairParts
  <2>2. ParseLog(b) = << <<Partition(b, " ")[1]>> >> \o ParseRows(Partition(b, " ")[2], Colon)
    BY DEF ParseLog
  <2>. QED  BY <1>9, <2>1, <2>2
<1>. QED  BY <1>2, <1>3, <1>10, <1>11

\* The pairs of INFO are read back, each split at its first "=".
LEMMA PairsParse ==
  ASSUME NEW rows \in Lists.kv
  PROVE  ParseKv(Body("kv", rows)) = rows
<1>. DEFINE C == Atoms \cup {"="}
            S == C \cup {" "}
            X == Seq(Atoms) \X Seq(C)
            n == Len(rows)
            f == [i \in 1 .. n |-> Join("=", rows[i])]
            T == {tok \in ToSet(f) : Contains(tok, "=")}
            b == Join(" ", f)
<1>0. " " \notin C /\ "=" \notin Atoms /\ "=" \in C /\ Atoms \subseteq C /\ C \subseteq S /\ " " \in S
  BY CommandsAssumption
<1>1. rows \in Seq(X)
  BY CommandsAssumption
<1>2. n \in Nat /\ \A i \in 1 .. n : rows[i] \in X
  <2>. HIDE DEF X
  <2>. QED  BY <1>1, LenProperties, ElementOfSeq
<1>3. ASSUME NEW i \in 1 .. n
      PROVE  f[i] \in Seq(C) /\ Contains(f[i], "=") /\ Partition(f[i], "=") = rows[i]
  <2>. DEFINE k == rows[i][1]
              v == rows[i][2]
              g == <<k>>
              d == <<"=">>
  <2>1. k \in Seq(Atoms) /\ v \in Seq(C) /\ rows[i] = <<k, v>>
    BY <1>2
  <2>2. f[i] = Join("=", rows[i])
    OBVIOUS
  <2>. HIDE DEF k, v
  <2>3. k \in Seq(C) /\ k \in Seq(C \ {"="})
    <3>. DEFINE D == C \ {"="}
    <3>1. Atoms \subseteq D /\ Atoms \subseteq C
      BY <1>0
    <3>. HIDE DEF C, D
    <3>2. k \in Seq(C)
      BY <2>1, <3>1
    <3>3. k \in Seq(D)
      BY <2>1, <3>1
    <3>. QED  BY <3>2, <3>3 DEF D
  <2>. HIDE DEF C
  <2>4. Join("=", g) = k /\ g \in Seq(Seq(C)) /\ Len(g) # 0
    <3>1. Join("=", g) = k
      BY <2>3, JoinOne
    <3>. QED  BY <2>3, <3>1
  <2>5. Append(g, v) = <<k, v>>
    <3>. DEFINE Y == Seq(C)
    <3>1. k \in Y /\ v \in Y
      BY <2>1, <2>3
    <3>. HIDE DEF Y
    <3>. QED  BY <3>1, AppendOne
  <2>. HIDE DEF g
  <2>6. Join("=", Append(g, v)) = Append(Join("=", g), "=") \o v
    BY <1>0, <2>1, <2>4, JoinMore, ZenonT(30)
  <2>7. Append(k, "=") = k \o d
    BY <1>0, <2>3, AppendIsConcat
  <2>8. f[i] = (k \o d) \o v
    BY <2>1, <2>2, <2>4, <2>5, <2>6, <2>7
  <2>. HIDE DEF f
  <2>9. Partition((k \o d) \o v, "=") = <<k, v>> /\ Contains((k \o d) \o v, "=")
    BY <1>0, <2>1, <2>3, PartitionAt
  <2>10. f[i] \in Seq(C)
    <3>1. k \o d \in Seq(C)
      <4>1. d \in Seq(C)
        BY <1>0, OneOfSet
      <4>. HIDE DEF d
      <4>. QED  BY <2>3, <4>1, ConcatProperties
    <3>2. (k \o d) \o v \in Seq(C)
      BY <2>1, <3>1, ConcatProperties
    <3>. QED  BY <2>8, <3>2
  <2>. QED  BY <2>1, <2>8, <2>9, <2>10
<1>4. f \in [1 .. n -> Seq(C)]
  BY <1>3
<1>5. Body("kv", rows) = b
  BY DEF Body, Each
<1>. HIDE DEF f, n, C
<1>6. f \in Seq(Seq(C))
  BY <1>2, <1>4
<1>7. Len(f) = n
  BY <1>2, <1>4, <1>6, LenProperties
<1>. HIDE DEF b
<1>8. CASE n # 0
  <2>1. SplitPlain(b, " ") = f
    <3>1. C = S \ {" "}
      BY <1>0
    <3>2. f \in Seq(Seq(S \ {" "}))
      BY <1>6, <3>1
    <3>. HIDE DEF S
    <3>. QED  BY <1>0, <1>7, <1>8, <3>2, PlainParts DEF b
  <2>2. Kept(f, T) = f
    <3>1. \A i \in 1 .. Len(f) : f[i] \in ToSet(f)
      BY DEF ToSet
    <3>2. \A i \in 1 .. Len(f) : f[i] \in T
      BY <1>3, <1>7, <3>1
    <3>. HIDE DEF T
    <3>. QED  BY <1>6, <3>2, KeptAll
  <2>3. ParseKv(b) = [i \in 1 .. n |-> Partition(f[i], "=")]
    <3>1. ParseKv(b) = Each(LAMBDA tok : Partition(tok, "="), Kept(f, T))
      BY <2>1 DEF ParseKv
    <3>. HIDE DEF T
    <3>. QED  BY <1>7, <2>2, <3>1 DEF Each
  <2>4. ParseKv(b) = [i \in 1 .. n |-> rows[i]]
    BY <1>3, <2>3
  <2>5. rows = [i \in 1 .. n |-> rows[i]]
    <3>. HIDE DEF X
    <3>. QED  BY <1>1, LenProperties DEF n
  <2>. QED  BY <1>5, <2>4, <2>5
<1>9. CASE n = 0
  <2>. DEFINE e == <<>>
              g == <<e>>
              V == {tok \in ToSet(g) : Contains(tok, "=")}
  <2>1. f = e /\ rows = e
    <3>. HIDE DEF X
    <3>. QED  BY <1>1, <1>6, <1>7, <1>9, EmptySeq DEF n
  <2>2. b = e
    BY <2>1, FlattenNone DEF b, Join
  <2>3. SplitPlain(e, " ") = g
    BY SplitNothing DEF SplitPlain
  <2>4. e \notin V
    BY DEF Contains
  <2>5. Kept(g, V) = e
    <3>1. e \in {e}
      OBVIOUS
    <3>. HIDE DEF V
    <3>. QED  BY <2>4, <3>1, KeptOne
  <2>6. ParseKv(e) = Each(LAMBDA tok : Partition(tok, "="), Kept(g, V))
    <3>. HIDE DEF e
    <3>. QED  BY <2>3 DEF ParseKv
  <2>7. Each(LAMBDA tok : Partition(tok, "="), e) = e
    BY DEF Each
  <2>. QED  BY <1>5, <2>1, <2>2, <2>5, <2>6, <2>7
<1>. QED  BY <1>2, <1>8, <1>9

\* Each list the server may answer with is parsed into its rows.
LEMMA ListsParse ==
  ASSUME NEW m \in DOMAIN Shape, NEW rows \in Lists[Shape[m]]
  PROVE  Parse(Shape[m], Body(Shape[m], rows)) = rows
<1>. DEFINE s == Shape[m]
<1>1. s \in {"ids", "pairs", "scores", "log", "kv"}
  BY DEF Shape
<1>. HIDE DEF s
<1>0. 1 \in Nat \ {0} /\ 2 \in Nat \ {0}
  OBVIOUS
<1>2. CASE s = "ids"
  <2>1. rows \in Seq(Numerals(1))
    BY <1>2, CommandsAssumption DEF s
  <2>2. Body("ids", rows) = ListBody(Comma, rows)
    BY DEF Body
  <2>3. Parse("ids", ListBody(Comma, rows)) = ParseIds(ListBody(Comma, rows))
    BY DEF Parse
  <2>. QED  BY <1>2, <2>1, <2>2, <2>3, IdsParse DEF s
<1>3. CASE s = "pairs"
  <2>1. rows \in Seq(Numerals(2))
    BY <1>3, CommandsAssumption DEF s
  <2>2. Body("pairs", rows) = ListBody(Comma, rows)
    BY DEF Body
  <2>3. Parse("pairs", ListBody(Comma, rows)) = ParseRows(ListBody(Comma, rows), Comma)
    BY DEF Parse
  <2>4. rows \in Seq(Tuples)
    BY <1>0, <2>1, NumeralsAreRows
  <2>. QED  BY <1>3, <2>2, <2>3, <2>4, RowsParse DEF s
<1>4. CASE s = "scores"
  <2>1. rows \in Seq(Numerals(2))
    BY <1>4, CommandsAssumption DEF s
  <2>2. Body("scores", rows) = ListBody(Colon, rows)
    BY DEF Body
  <2>3. Parse("scores", ListBody(Colon, rows)) = ParseRows(ListBody(Colon, rows), Colon)
    BY DEF Parse
  <2>4. rows \in Seq(Tuples)
    BY <1>0, <2>1, NumeralsAreRows
  <2>. QED  BY <1>4, <2>2, <2>3, <2>4, RowsParse DEF s
<1>5. CASE s = "log"
  <2>1. rows \in Lists.log
    BY <1>5 DEF s
  <2>2. Parse("log", Body("log", rows)) = ParseLog(Body("log", rows))
    BY DEF Parse
  <2>. QED  BY <1>5, <2>1, <2>2, LogParses DEF s
<1>6. CASE s = "kv"
  <2>1. rows \in Lists.kv
    BY <1>6 DEF s
  <2>2. Parse("kv", Body("kv", rows)) = ParseKv(Body("kv", rows))
    BY DEF Parse
  <2>. QED  BY <1>6, <2>1, <2>2, PairsParse DEF s
<1>. QED  BY <1>1, <1>2, <1>3, <1>4, <1>5, <1>6

-----------------------------------------------------------------------------
(* The keys of a GROUPBY.                                                  *)

\* The components of a key follow one another.
LEMMA ComponentType ==
  ASSUME NEW S, NEW s \in Seq(S), NEW i \in 1 .. Len(s)
  PROVE  GbComponent(s, i).comp \in Seq(S) /\ GbComponent(s, i).next \in i + 1 .. Len(s) + 2
<1>. DEFINE n == Len(s)
            stop == {j \in i .. n : s[j] \in {Bar, Colon}}
            quot == {j \in i + 1 .. n : s[j] \in {Quote}}
            term(j) == IF j \in 1 .. n THEN s[j] ELSE None
            j1 == IF stop = {} THEN n + 1 ELSE CHOOSE j \in stop : \A k \in stop : j <= k
            j2 == CHOOSE j \in quot : \A k \in quot : j <= k
            t1 == term(j1)
            t2 == term(j2 + 1)
<1>0. n \in Nat /\ i \in Nat /\ i >= 1 /\ i <= n
  BY LenProperties
<1>1. CASE s[i] # Quote
  <2>1. GbComponent(s, i) = [comp |-> SubSeq(s, i, j1 - 1), next |-> j1 + 1, term |-> t1]
    BY <1>1 DEF GbComponent
  <2>2. j1 \in i .. n + 1
    <3>1. CASE stop = {}
      BY <1>0, <3>1
    <3>2. CASE stop # {}
      <4>1. stop \in SUBSET Nat /\ stop \subseteq i .. n
        BY <1>0
      <4>. HIDE DEF stop
      <4>2. j1 \in stop
        BY <3>2, <4>1, LeastOf
      <4>. HIDE DEF j1
      <4>3. j1 \in i .. n
        BY <4>1, <4>2
      <4>. QED  BY <1>0, <4>3
    <3>. QED  BY <3>1, <3>2
  <2>. HIDE DEF j1, t1
  <2>3. GbComponent(s, i).comp = SubSeq(s, i, j1 - 1) /\ GbComponent(s, i).next = j1 + 1
    <3>. DEFINE x == SubSeq(s, i, j1 - 1)
                y == j1 + 1
    <3>1. GbComponent(s, i) = [comp |-> x, next |-> y, term |-> t1]
      BY <2>1
    <3>. HIDE DEF x, y
    <3>2. GbComponent(s, i).comp = x /\ GbComponent(s, i).next = y
      BY <3>1
    <3>. QED  BY <3>2 DEF x, y
  <2>4. j1 - 1 \in 0 .. n /\ i \in 1 .. n + 1 /\ j1 + 1 \in i + 1 .. n + 2
    BY <1>0, <2>2
  <2>5. SubSeq(s, i, j1 - 1) \in Seq(S)
    BY <2>4, SubSeqType
  <2>. QED  BY <2>3, <2>4, <2>5
<1>2. CASE s[i] = Quote /\ quot = {}
  <2>1. GbComponent(s, i) = [comp |-> SubSeq(s, i + 1, n), next |-> n + 1, term |-> None]
    BY <1>2 DEF GbComponent
  <2>3. GbComponent(s, i).comp = SubSeq(s, i + 1, n) /\ GbComponent(s, i).next = n + 1
    BY <2>1
  <2>4. n \in 0 .. n /\ i + 1 \in 1 .. n + 1 /\ n + 1 \in i + 1 .. n + 2
    BY <1>0
  <2>5. SubSeq(s, i + 1, n) \in Seq(S)
    BY <2>4, SubSeqType
  <2>. QED  BY <2>3, <2>4, <2>5
<1>3. CASE s[i] = Quote /\ quot # {}
  <2>1. GbComponent(s, i) = [comp |-> SubSeq(s, i + 1, j2 - 1), next |-> j2 + 2, term |-> t2]
    BY <1>3 DEF GbComponent
  <2>2. j2 \in i + 1 .. n
    <3>1. quot \in SUBSET Nat /\ quot \subseteq i + 1 .. n
      BY <1>0
    <3>. HIDE DEF quot
    <3>2. j2 \in quot
      BY <1>3, <3>1, LeastOf
    <3>. QED  BY <3>1, <3>2
  <2>. HIDE DEF j2, t2
  <2>3. GbComponent(s, i).comp = SubSeq(s, i + 1, j2 - 1) /\ GbComponent(s, i).next = j2 + 2
    <3>. DEFINE x == SubSeq(s, i + 1, j2 - 1)
                y == j2 + 2
    <3>1. GbComponent(s, i) = [comp |-> x, next |-> y, term |-> t2]
      BY <2>1
    <3>. HIDE DEF x, y
    <3>2. GbComponent(s, i).comp = x /\ GbComponent(s, i).next = y
      BY <3>1
    <3>. QED  BY <3>2 DEF x, y
  <2>4. j2 - 1 \in 0 .. n /\ i + 1 \in 1 .. n + 1 /\ j2 + 2 \in i + 1 .. n + 2
    BY <1>0, <2>2
  <2>5. SubSeq(s, i + 1, j2 - 1) \in Seq(S)
    BY <2>4, SubSeqType
  <2>. QED  BY <2>3, <2>4, <2>5
<1>. QED  BY <1>1, <1>2, <1>3

\* The components from position i on, those from a later one given by f.
KeyRest(f, s, i) ==
  IF i > Len(s) THEN <<>>
  ELSE LET c == GbComponent(s, i)
       IN <<c.comp>> \o IF c.term = Colon THEN <<>> ELSE f[c.next]

\* They are given for the positions from a on by the recursion of GroupKey.
KeyPart(f, s, a, S) ==
  /\ f \in [a .. Len(s) + 2 -> Seq(Seq(S))]
  /\ \A i \in a .. Len(s) + 2 : f[i] = KeyRest(f, s, i)

\* What GroupKey is the first value of.
KeyFrom(s) == CHOOSE f : f = [i \in 1 .. Len(s) + 2 |-> KeyRest(f, s, i)]

\* The components from a position on are texts.
LEMMA KeyRestType ==
  ASSUME NEW S, NEW s \in Seq(S), NEW i \in 1 .. Len(s) + 2, NEW f,
         \A j \in i + 1 .. Len(s) + 2 : f[j] \in Seq(Seq(S))
  PROVE  KeyRest(f, s, i) \in Seq(Seq(S))
<1>. DEFINE X == Seq(S)
            c == GbComponent(s, i)
<1>1. CASE i > Len(s)
  <2>1. <<>> \in Seq(X)
    BY EmptySeq
  <2>. QED  BY <1>1, <2>1 DEF KeyRest
<1>2. CASE ~(i > Len(s))
  <2>1. i \in 1 .. Len(s)
    BY <1>2, LenProperties
  <2>2. c.comp \in X /\ c.next \in i + 1 .. Len(s) + 2
    BY <2>1, ComponentType
  <2>3. f[c.next] \in Seq(X) /\ <<>> \in Seq(X) /\ <<c.comp>> \in Seq(X)
    BY <2>2, EmptySeq, OneOfSet
  <2>4. KeyRest(f, s, i) = <<c.comp>> \o IF c.term = Colon THEN <<>> ELSE f[c.next]
    BY <1>2 DEF KeyRest
  <2>. HIDE DEF X, c
  <2>5. (IF c.term = Colon THEN <<>> ELSE f[c.next]) \in Seq(X)
    BY <2>3
  <2>. QED  BY <2>3, <2>4, <2>5, ConcatProperties DEF X
<1>. QED  BY <1>1, <1>2

\* The recursion of GroupKey has a value.
LEMMA KeyExists ==
  ASSUME NEW S, NEW s \in Seq(S)
  PROVE  \E f : KeyPart(f, s, 1, S)
<1>. DEFINE n == Len(s) + 2
            X == Seq(Seq(S))
            U == {m \in Nat : m <= n => \E f : KeyPart(f, s, n + 1 - m, S)}
<1>0. n \in Nat
  BY LenProperties
<1>1. 0 \in U
  <2>. DEFINE f == [i \in n + 1 .. n |-> <<>>]
  <2>1. n + 1 - 0 = n + 1 /\ n + 1 .. n = {}
    BY <1>0
  <2>2. f \in [n + 1 .. n -> X]
    BY <2>1
  <2>3. KeyPart(f, s, n + 1, S)
    BY <2>1, <2>2 DEF KeyPart
  <2>. QED  BY <2>1, <2>3
<1>2. ASSUME NEW m \in Nat, m \in U PROVE m + 1 \in U
  <2>. SUFFICES ASSUME m + 1 <= n PROVE \E f : KeyPart(f, s, n + 1 - (m + 1), S)
    OBVIOUS
  <2>. DEFINE a == n - m
  <2>1. a \in 1 .. n /\ n + 1 - m = a + 1 /\ n + 1 - (m + 1) = a /\ m <= n
    BY <1>0
  <2>2. PICK f : KeyPart(f, s, a + 1, S)
    BY <1>2, <2>1
  <2>3. f \in [a + 1 .. n -> X] /\ \A i \in a + 1 .. n : f[i] = KeyRest(f, s, i)
    BY <2>2 DEF KeyPart
  <2>. DEFINE g == [i \in a .. n |-> IF i = a THEN KeyRest(f, s, a) ELSE f[i]]
  <2>. HIDE DEF a
  <2>4. KeyRest(f, s, a) \in X
    <3>1. \A j \in a + 1 .. n : f[j] \in X
      BY <2>3
    <3>. QED  BY <2>1, <3>1, KeyRestType
  <2>5. /\ DOMAIN g = a .. n /\ g[a] = KeyRest(f, s, a)
        /\ \A i \in a + 1 .. n : g[i] = f[i] /\ i \in a .. n
        /\ \A i \in a .. n : i = a \/ i \in a + 1 .. n
    BY <1>0, <2>1
  <2>6. g \in [a .. n -> X]
    <3>. HIDE DEF X
    <3>. QED  BY <1>0, <2>1, <2>3, <2>4
  <2>. HIDE DEF g
  <2>7. \A i \in a .. n : KeyRest(g, s, i) = KeyRest(f, s, i)
    <3>. SUFFICES ASSUME NEW i \in a .. n, ~(i > Len(s)) PROVE KeyRest(g, s, i) = KeyRest(f, s, i)
      BY DEF KeyRest
    <3>. DEFINE c == GbComponent(s, i)
    <3>1. i \in 1 .. Len(s)
      BY <1>0, <2>1, LenProperties
    <3>2. c.next \in i + 1 .. n
      BY <3>1, ComponentType
    <3>. HIDE DEF c
    <3>3. c.next \in a + 1 .. n
      BY <1>0, <2>1, <3>1, <3>2
    <3>4. g[c.next] = f[c.next]
      BY <2>5, <3>3
    <3>. QED  BY <3>4 DEF KeyRest, c
  <2>8. \A i \in a .. n : g[i] = KeyRest(g, s, i)
    BY <2>3, <2>5, <2>7
  <2>9. KeyPart(g, s, a, S)
    BY <2>6, <2>8 DEF KeyPart
  <2>. QED  BY <2>1, <2>9
<1>. HIDE DEF U
<1>3. Nat \subseteq U
  BY <1>1, <1>2, SetInduction
<1>4. n + 1 - n = 1 /\ n <= n
  BY <1>0
<1>. QED  BY <1>0, <1>3, <1>4 DEF U

\* GroupKey has the value its recursion describes.
LEMMA GroupKeyDef ==
  ASSUME NEW S, NEW s \in Seq(S)
  PROVE  GroupKey(s) = KeyFrom(s)[1] /\ KeyPart(KeyFrom(s), s, 1, S)
<1>. DEFINE n == Len(s) + 2
            X == Seq(Seq(S))
            k == KeyFrom(s)
<1>0. Len(s) \in Nat /\ n \in Nat
  BY LenProperties
<1>1. PICK f : KeyPart(f, s, 1, S)
  BY KeyExists
<1>2. f = [i \in 1 .. n |-> KeyRest(f, s, i)]
  BY <1>1 DEF KeyPart
<1>3. k = [i \in 1 .. n |-> KeyRest(k, s, i)]
  BY <1>2 DEF KeyFrom
<1>4. GroupKey(s) = k[1]
  BY DEF GroupKey, KeyFrom, KeyRest
<1>. HIDE DEF k
<1>5. DOMAIN k = 1 .. n /\ \A i \in 1 .. n : k[i] = KeyRest(k, s, i)
  BY <1>3
<1>6. \A i \in 1 .. n : k[i] \in X
  <2>. DEFINE U == {m \in Nat : \A i \in 1 .. n : n - m < i => k[i] \in X}
  <2>1. 0 \in U
    BY <1>0
  <2>2. ASSUME NEW m \in Nat, m \in U PROVE m + 1 \in U
    <3>. SUFFICES ASSUME NEW i \in 1 .. n, n - (m + 1) < i PROVE k[i] \in X
      OBVIOUS
    <3>1. \A j \in i + 1 .. n : k[j] \in X
      <4>1. \A j \in i + 1 .. n : j \in 1 .. n /\ n - m < j
        BY <1>0
      <4>. QED  BY <2>2, <4>1
    <3>2. KeyRest(k, s, i) \in X
      BY <3>1, KeyRestType
    <3>. QED  BY <1>5, <3>2
  <2>. HIDE DEF U
  <2>3. Nat \subseteq U
    BY <2>1, <2>2, SetInduction
  <2>4. n \in U /\ \A i \in 1 .. n : n - n < i
    BY <1>0, <2>3
  <2>. QED  BY <2>4 DEF U
<1>7. k \in [1 .. n -> X]
  <2>. HIDE DEF n, X
  <2>. QED  BY <1>3, <1>6
<1>. QED  BY <1>4, <1>5, <1>7 DEF KeyPart, k

\* A component as the server writes it.
Quoted(s) == <<Quote>> \o s \o <<Quote>>

\* One component in quotes.
LEMMA QuotedType ==
  ASSUME NEW S, Quote \in S, NEW c \in Seq(S)
  PROVE  /\ Quoted(c) \in Seq(S) /\ Len(Quoted(c)) = Len(c) + 2
         /\ Quoted(c)[1] = Quote /\ Quoted(c)[Len(c) + 2] = Quote
         /\ \A k \in 1 .. Len(c) : Quoted(c)[k + 1] = c[k]
<1>. DEFINE d == <<Quote>>
            m == Len(c)
            dc == d \o c
            q == dc \o d
<1>1. m \in Nat /\ d \in Seq(S) /\ Len(d) = 1 /\ d[1] = Quote
  BY LenProperties
<1>. HIDE DEF d
<1>2. dc \in Seq(S) /\ Len(dc) = m + 1 /\ \A i \in 1 .. m + 1 : dc[i] = IF i <= 1 THEN d[i] ELSE c[i - 1]
  <2>1. /\ dc \in Seq(S) /\ Len(dc) = Len(d) + Len(c)
        /\ \A i \in 1 .. Len(d) + Len(c) : dc[i] = IF i <= Len(d) THEN d[i] ELSE c[i - Len(d)]
    BY <1>1, ConcatProperties
  <2>. HIDE DEF dc
  <2>2. Len(d) + Len(c) = m + 1
    BY <1>1
  <2>. QED  BY <1>1, <2>1, <2>2
<1>. HIDE DEF dc
<1>3. q \in Seq(S) /\ Len(q) = m + 2 /\ \A i \in 1 .. m + 2 : q[i] = IF i <= m + 1 THEN dc[i] ELSE d[i - (m + 1)]
  <2>1. /\ q \in Seq(S) /\ Len(q) = Len(dc) + Len(d)
        /\ \A i \in 1 .. Len(dc) + Len(d) : q[i] = IF i <= Len(dc) THEN dc[i] ELSE d[i - Len(dc)]
    BY <1>1, <1>2, ConcatProperties
  <2>. HIDE DEF q
  <2>2. Len(dc) + Len(d) = m + 2
    BY <1>1, <1>2
  <2>. QED  BY <1>1, <1>2, <2>1, <2>2
<1>. HIDE DEF q
<1>4. q[1] = Quote
  <2>1. 1 \in 1 .. m + 2 /\ 1 \in 1 .. m + 1 /\ 1 <= m + 1
    BY <1>1
  <2>. QED  BY <1>1, <1>2, <1>3, <2>1
<1>5. q[m + 2] = Quote
  <2>1. m + 2 \in 1 .. m + 2 /\ ~(m + 2 <= m + 1) /\ (m + 2) - (m + 1) = 1
    BY <1>1
  <2>. QED  BY <1>1, <1>3, <2>1
<1>6. ASSUME NEW k \in 1 .. m PROVE q[k + 1] = c[k]
  <2>1. k + 1 \in 1 .. m + 2 /\ k + 1 \in 1 .. m + 1 /\ ~(k + 1 <= 1) /\ (k + 1) - 1 = k /\ k + 1 <= m + 1
    BY <1>1
  <2>. QED  BY <1>2, <1>3, <2>1
<1>7. Quoted(c) = q
  BY DEF Quoted, q, dc, d
<1>. QED  BY <1>3, <1>4, <1>5, <1>6, <1>7 DEF m

\* The component at position i.
ComponentIs(s, i, c, j, t) == GbComponent(s, i) = [comp |-> c, next |-> j, term |-> t]

\* It is read up to its closing quote, whatever is before and after it.
LEMMA QuotedComponent ==
  ASSUME NEW S, Quote \in S, NEW p \in Seq(S), NEW c \in Seq(S \ {Quote}), NEW t \in S, NEW z \in Seq(S),
         NEW s, s = (p \o Quoted(c)) \o (<<t>> \o z)
  PROVE  /\ s \in Seq(S) /\ Len(p) + Len(c) + 3 <= Len(s)
         /\ ComponentIs(s, Len(p) + 1, c, Len(p) + Len(c) + 4, t)
<1>. DEFINE n == Len(p)
            m == Len(c)
            l == Len(z)
            q == Quoted(c)
            pq == p \o q
            d == <<t>>
            r == d \o z
            i == n + 1
<1>1. /\ n \in Nat /\ m \in Nat /\ l \in Nat /\ c \in Seq(S)
      /\ d \in Seq(S) /\ Len(d) = 1 /\ d[1] = t
  <2>1. c \in Seq(S) /\ d \in Seq(S) /\ Len(d) = 1 /\ d[1] = t
    OBVIOUS
  <2>. HIDE DEF d
  <2>. QED  BY <2>1, LenProperties
<1>2. \A k \in 1 .. m : c[k] # Quote
  <2>1. \A k \in 1 .. m : c[k] \in S \ {Quote}
    BY ElementOfSeq
  <2>. QED  BY <2>1
<1>3. q \in Seq(S) /\ Len(q) = m + 2 /\ q[1] = Quote /\ q[m + 2] = Quote /\ \A k \in 1 .. m : q[k + 1] = c[k]
  BY <1>1, QuotedType
<1>. HIDE DEF q, d
<1>4. /\ pq \in Seq(S) /\ Len(pq) = n + m + 2
      /\ \A k \in 1 .. n + m + 2 : pq[k] = IF k <= n THEN p[k] ELSE q[k - n]
  <2>1. /\ pq \in Seq(S) /\ Len(pq) = Len(p) + Len(q)
        /\ \A k \in 1 .. Len(p) + Len(q) : pq[k] = IF k <= Len(p) THEN p[k] ELSE q[k - Len(p)]
    BY <1>3, ConcatProperties
  <2>. HIDE DEF pq
  <2>2. Len(p) + Len(q) = n + m + 2
    BY <1>1, <1>3
  <2>. QED  BY <2>1, <2>2
<1>5. r \in Seq(S) /\ Len(r) = l + 1 /\ r[1] = t
  <2>1. /\ r \in Seq(S) /\ Len(r) = Len(d) + Len(z)
        /\ \A k \in 1 .. Len(d) + Len(z) : r[k] = IF k <= Len(d) THEN d[k] ELSE z[k - Len(d)]
    BY <1>1, ConcatProperties
  <2>. HIDE DEF r
  <2>2. 1 \in 1 .. Len(d) + Len(z) /\ 1 <= Len(d) /\ Len(d) + Len(z) = l + 1
    BY <1>1
  <2>. QED  BY <1>1, <2>1, <2>2
<1>. HIDE DEF pq, r
<1>6. /\ s \in Seq(S) /\ Len(s) = n + m + 2 + (l + 1)
      /\ \A k \in 1 .. n + m + 2 + (l + 1) : s[k] = IF k <= n + m + 2 THEN pq[k] ELSE r[k - (n + m + 2)]
  <2>0. s = pq \o r
    BY DEF pq, r, q, d
  <2>1. /\ pq \o r \in Seq(S) /\ Len(pq \o r) = Len(pq) + Len(r)
        /\ \A k \in 1 .. Len(pq) + Len(r) : (pq \o r)[k] = IF k <= Len(pq) THEN pq[k] ELSE r[k - Len(pq)]
    BY <1>4, <1>5, ConcatProperties
  <2>2. Len(pq) + Len(r) = n + m + 2 + (l + 1)
    BY <1>1, <1>4, <1>5
  <2>. QED  BY <1>4, <2>0, <2>1, <2>2
<1>. HIDE DEF n, m, l
<1>7. s[i] = Quote
  <2>1. i \in 1 .. n + m + 2 + (l + 1) /\ i <= n + m + 2 /\ i \in 1 .. n + m + 2 /\ ~(i <= n) /\ i - n = 1
    BY <1>1
  <2>. HIDE DEF i
  <2>. QED  BY <1>3, <1>4, <1>6, <2>1
<1>8. ASSUME NEW k \in 1 .. m PROVE s[i + k] = c[k]
  <2>. DEFINE j == i + k
  <2>1. j \in 1 .. n + m + 2 + (l + 1) /\ j <= n + m + 2 /\ j \in 1 .. n + m + 2 /\ ~(j <= n) /\ j - n = k + 1
    BY <1>1
  <2>. HIDE DEF i, j
  <2>2. s[j] = c[k]
    BY <1>3, <1>4, <1>6, <2>1
  <2>. QED  BY <2>2 DEF j
<1>9. s[i + m + 1] = Quote
  <2>. DEFINE j == i + m + 1
  <2>1. j \in 1 .. n + m + 2 + (l + 1) /\ j <= n + m + 2 /\ j \in 1 .. n + m + 2 /\ ~(j <= n) /\ j - n = m + 2
    BY <1>1
  <2>. HIDE DEF i, j
  <2>2. s[j] = Quote
    BY <1>3, <1>4, <1>6, <2>1
  <2>. QED  BY <2>2 DEF j
<1>10. s[i + m + 2] = t
  <2>. DEFINE j == i + m + 2
  <2>1. j \in 1 .. n + m + 2 + (l + 1) /\ ~(j <= n + m + 2) /\ j - (n + m + 2) = 1
    BY <1>1
  <2>. HIDE DEF i, j
  <2>2. s[j] = t
    BY <1>5, <1>6, <2>1
  <2>. QED  BY <2>2 DEF j
<1>. DEFINE quot == {j \in i + 1 .. Len(s) : s[j] \in {Quote}}
            e == CHOOSE j \in quot : \A k \in quot : j <= k
<1>11. quot # {} /\ e = i + m + 1
  <2>1. i + m + 1 \in i + 1 .. Len(s)
    BY <1>1, <1>6
  <2>2. i + m + 1 \in quot
    BY <1>9, <2>1
  <2>3. quot \in SUBSET Nat /\ \A k \in quot : s[k] = Quote /\ k >= i + 1
    BY <1>1, <1>6, SMTT(30)
  <2>. HIDE DEF quot
  <2>4. e \in quot /\ \A k \in quot : e <= k
    BY <2>2, <2>3, LeastOf
  <2>. HIDE DEF e
  <2>5. e \in Nat /\ s[e] = Quote /\ e >= i + 1 /\ e <= i + m + 1
    BY <2>2, <2>3, <2>4
  <2>6. ASSUME e < i + m + 1 PROVE FALSE
    <3>. DEFINE k == e - i
    <3>1. k \in 1 .. m /\ i + k = e
      BY <1>1, <2>5, <2>6
    <3>. HIDE DEF k
    <3>. QED  BY <1>2, <1>8, <2>5, <3>1 DEF m
  <2>. QED  BY <1>1, <2>2, <2>5, <2>6
<1>12. GbComponent(s, i) = [comp |-> SubSeq(s, i + 1, e - 1), next |-> e + 2,
                             term |-> IF e + 1 \in 1 .. Len(s) THEN s[e + 1] ELSE None]
  BY <1>7, <1>11 DEF GbComponent
<1>. HIDE DEF e, quot
<1>13. SubSeq(s, i + 1, e - 1) = c
  <2>. DEFINE w == SubSeq(s, i + 1, i + m)
  <2>1. e - 1 = i + m
    BY <1>1, <1>11
  <2>2. \A k \in i + 1 .. i + m : s[k] \in S
    <3>1. \A k \in 1 .. Len(s) : s[k] \in S
      BY <1>6, ElementOfSeq
    <3>2. \A k \in i + 1 .. i + m : k \in 1 .. Len(s)
      BY <1>1, <1>6
    <3>. QED  BY <3>1, <3>2
  <2>3. /\ w \in Seq(S) /\ Len(w) = IF i + 1 <= i + m THEN (i + m) - (i + 1) + 1 ELSE 0
        /\ \A k \in 1 .. (i + m) - (i + 1) + 1 : w[k] = s[(i + 1) + k - 1]
    <3>. DEFINE a == i + 1
                b == i + m
    <3>0. i \in Int /\ m \in Int
      BY <1>1
    <3>1. a \in Int /\ b \in Int
      BY <3>0
    <3>2. \A k \in a .. b : s[k] \in S
      BY <2>2
    <3>. HIDE DEF a, b
    <3>3. /\ SubSeq(s, a, b) \in Seq(S) /\ Len(SubSeq(s, a, b)) = IF a <= b THEN b - a + 1 ELSE 0
          /\ \A k \in 1 .. b - a + 1 : SubSeq(s, a, b)[k] = s[a + k - 1]
      BY ONLY <3>1, <3>2, SubSeqProperties
    <3>. QED  BY <3>3 DEF a, b
  <2>. HIDE DEF w
  <2>4. ASSUME NEW k \in 1 .. m PROVE w[k] = c[k]
    <3>1. k \in 1 .. (i + m) - (i + 1) + 1 /\ (i + 1) + k - 1 = i + k
      BY <1>1
    <3>. HIDE DEF i
    <3>. QED  BY <1>8, <2>3, <3>1
  <2>5. Len(w) = m
    BY <1>1, <2>3
  <2>6. w = c
    BY <1>1, <2>3, <2>4, <2>5, SeqEqual DEF m
  <2>. QED  BY <2>1, <2>6 DEF w
<1>14. e + 2 = n + m + 4 /\ e + 1 = i + m + 2 /\ e + 1 \in 1 .. Len(s) /\ n + m + 3 <= Len(s)
  <2>1. e = n + m + 2 /\ e \in Nat
    BY <1>1, <1>11
  <2>2. Len(s) = n + m + 3 + l
    BY <1>1, <1>6
  <2>. QED  BY <1>1, <2>1, <2>2
<1>15. GbComponent(s, i) = [comp |-> c, next |-> n + m + 4, term |-> t]
  <2>. HIDE DEF i
  <2>. QED  BY <1>10, <1>12, <1>13, <1>14
<1>. QED  BY <1>6, <1>14, <1>15 DEF ComponentIs, n, m

\* What follows a component.
KeyOn(f, t, i) == IF t = Colon THEN <<>> ELSE f[i]

\* The component c after the prefix p.
KeyGoesOn(f, p, c, t) == f[Len(p) + 1] = <<c>> \o KeyOn(f, t, Len(p) + Len(c) + 4)

\* A component in quotes is the next one of the key.
LEMMA KeyStep ==
  ASSUME NEW S, Quote \in S, NEW p \in Seq(S), NEW c \in Seq(S \ {Quote}), NEW t \in S, NEW z \in Seq(S),
         NEW f, KeyPart(f, (p \o Quoted(c)) \o (<<t>> \o z), 1, S)
  PROVE  KeyGoesOn(f, p, c, t)
<1>. DEFINE s == (p \o Quoted(c)) \o (<<t>> \o z)
            i == Len(p) + 1
            j == Len(p) + Len(c) + 4
            g == GbComponent(s, i)
<1>0. s = (p \o Quoted(c)) \o (<<t>> \o z) /\ KeyPart(f, s, 1, S)
  OBVIOUS
<1>. HIDE DEF s
<1>1. s \in Seq(S) /\ Len(p) + Len(c) + 3 <= Len(s) /\ g = [comp |-> c, next |-> j, term |-> t]
  <2>1. s \in Seq(S) /\ Len(p) + Len(c) + 3 <= Len(s)
    BY ONLY Quote \in S, p \in Seq(S), c \in Seq(S \ {Quote}), t \in S, z \in Seq(S),
            <1>0, QuotedComponent
  <2>2. ComponentIs(s, Len(p) + 1, c, Len(p) + Len(c) + 4, t)
    BY ONLY Quote \in S, p \in Seq(S), c \in Seq(S \ {Quote}), t \in S, z \in Seq(S),
            <1>0, QuotedComponent
  <2>. QED  BY <2>1, <2>2 DEF ComponentIs
<1>2. Len(p) \in Nat /\ Len(c) \in Nat /\ Len(s) \in Nat
  BY <1>1, LenProperties
<1>3. i \in 1 .. Len(s) + 2 /\ ~(i > Len(s))
  BY <1>1, <1>2
<1>4. f[i] = KeyRest(f, s, i)
  BY <1>0, <1>3 DEF KeyPart
<1>. HIDE DEF i, j, g
<1>5. g.comp = c /\ g.next = j /\ g.term = t
  BY <1>1
<1>6. KeyRest(f, s, i) = <<g.comp>> \o IF g.term = Colon THEN <<>> ELSE f[g.next]
  BY <1>3 DEF KeyRest, g
<1>7. f[i] = <<c>> \o KeyOn(f, t, j)
  BY <1>4, <1>5, <1>6 DEF KeyOn
<1>. QED  BY <1>7 DEF KeyGoesOn, i, j

\* The key of a row, as the server puts it together.
QuotedRow(row) == Join(Bar, [i \in 1 .. Len(row) |-> Quoted(row[i])])

\* A row of one column more.
LEMMA QuotedRowMore ==
  ASSUME NEW S, Quote \in S, Bar \in S, NEW row \in Seq(Seq(S)), NEW c \in Seq(S)
  PROVE  /\ QuotedRow(row) \in Seq(S)
         /\ QuotedRow(<<c>>) = Quoted(c)
         /\ row # <<>> => QuotedRow(Append(row, c)) = QuotedRow(row) \o (<<Bar>> \o Quoted(c))
<1>. DEFINE X == Seq(S)
            n == Len(row)
            u == Append(row, c)
            Q(x) == [i \in 1 .. Len(x) |-> Quoted(x[i])]
            q == Q(row)
            v == Append(q, Quoted(c))
            h == <<c>>
<1>1. \A x \in X : Quoted(x) \in X
  BY QuotedType
<1>2. \A x \in Seq(X) : Q(x) \in Seq(X) /\ Len(Q(x)) = Len(x)
  <2>. SUFFICES ASSUME NEW x \in Seq(X) PROVE Q(x) \in Seq(X) /\ Len(Q(x)) = Len(x)
    OBVIOUS
  <2>. DEFINE m == Len(x)
              g == Q(x)
  <2>1. m \in Nat /\ \A i \in 1 .. m : x[i] \in X
    <3>. HIDE DEF X
    <3>. QED  BY LenProperties, ElementOfSeq
  <2>2. g \in [1 .. m -> X]
    <3>. HIDE DEF X
    <3>. QED  BY <1>1, <2>1
  <2>. HIDE DEF g, m, X
  <2>3. g \in Seq(X)
    BY <2>1, <2>2
  <2>4. Len(g) = m
    BY <2>1, <2>2, <2>3, LenProperties
  <2>. QED  BY <2>3, <2>4 DEF g, m
<1>3. u \in Seq(X) /\ Len(u) = n + 1 /\ u[n + 1] = c /\ (\A i \in 1 .. n : u[i] = row[i]) /\ n \in Nat
  BY AppendProperties, LenProperties
<1>4. q \in Seq(X) /\ Len(q) = n /\ \A i \in 1 .. n : q[i] = Quoted(row[i])
  BY <1>2
<1>5. v \in Seq(X) /\ Len(v) = n + 1 /\ v[n + 1] = Quoted(c) /\ \A i \in 1 .. n : v[i] = q[i]
  <2>1. Quoted(c) \in X
    BY <1>1
  <2>. HIDE DEF q, X
  <2>. QED  BY <1>4, <2>1, AppendProperties
<1>6. Q(u) = v
  <2>. DEFINE g == Q(u)
  <2>. HIDE DEF u, v
  <2>1. g \in Seq(X) /\ Len(g) = n + 1 /\ \A i \in 1 .. n + 1 : g[i] = Quoted(u[i])
    BY <1>2, <1>3
  <2>. HIDE DEF g, q
  <2>2. \A i \in 1 .. n + 1 : i \in 1 .. n \/ i = n + 1
    BY <1>3
  <2>3. \A i \in 1 .. n + 1 : g[i] = v[i]
    BY <1>3, <1>4, <1>5, <2>1, <2>2
  <2>. HIDE DEF X
  <2>4. g = v
    BY <1>5, <2>1, <2>3, SeqEqual
  <2>. QED  BY <2>4 DEF g
<1>7. QuotedRow(row) \in Seq(S)
  <2>. HIDE DEF q
  <2>1. Join(Bar, q) \in Seq(S)
    BY <1>4, JoinType
  <2>. QED  BY <2>1 DEF QuotedRow, q
<1>8. QuotedRow(h) = Quoted(c)
  <2>1. Q(h) = <<Quoted(c)>>
    OBVIOUS
  <2>2. Join(Bar, <<Quoted(c)>>) = Quoted(c)
    BY <1>1, JoinOne
  <2>. QED  BY <2>1, <2>2 DEF QuotedRow
<1>9. ASSUME row # <<>> PROVE QuotedRow(u) = QuotedRow(row) \o (<<Bar>> \o Quoted(c))
  <2>1. Len(q) # 0
    BY <1>4, <1>9, EmptySeq
  <2>2. QuotedRow(u) = Join(Bar, v)
    BY <1>6 DEF QuotedRow
  <2>3. QuotedRow(row) = Join(Bar, q)
    BY DEF QuotedRow
  <2>. HIDE DEF q
  <2>4. Join(Bar, v) = Join(Bar, q) \o (<<Bar>> \o Quoted(c))
    <3>1. Quoted(c) \in Seq(S) /\ q \in Seq(Seq(S))
      BY <1>1, <1>4
    <3>2. Join(Bar, Append(q, Quoted(c))) = Join(Bar, q) \o (<<Bar>> \o Quoted(c))
      BY ONLY Bar \in S, <2>1, <3>1, JoinMore, ZenonT(30)
    <3>. QED  BY <3>2
  <2>. QED  BY <2>2, <2>3, <2>4
<1>. QED  BY <1>7, <1>8, <1>9

\* All components of a row are read, one after the other, and then what follows.
KeyReads(w, S) ==
  w # <<>> => \A t \in S, z \in Seq(S) : \A f :
                KeyPart(f, QuotedRow(w) \o (<<t>> \o z), 1, S)
                  => f[1] = w \o KeyOn(f, t, Len(QuotedRow(w)) + 2)

\* A row of one column.
LEMMA KeyReadsOne ==
  ASSUME NEW S, Quote \in S, Bar \in S, NEW c \in Seq(S \ {Quote})
  PROVE  KeyReads(<<c>>, S)
<1>. DEFINE h == <<c>>
            e == <<>>
<1>1. c \in Seq(S) /\ e \in Seq(S) /\ Len(e) = 0 /\ Len(c) \in Nat /\ e \in Seq(Seq(S))
  <2>1. c \in Seq(S) /\ e \in Seq(S) /\ Len(e) = 0 /\ e \in Seq(Seq(S))
    BY EmptySeq
  <2>. QED  BY <2>1, LenProperties
<1>2. QuotedRow(h) = Quoted(c) /\ Quoted(c) \in Seq(S) /\ Len(Quoted(c)) = Len(c) + 2
  BY <1>1, QuotedRowMore, QuotedType
<1>. HIDE DEF e, h
<1>3. e \o Quoted(c) = Quoted(c)
  BY <1>2, ConcatEmptySeq DEF e
<1>4. ASSUME NEW t \in S, NEW z \in Seq(S), NEW f, KeyPart(f, QuotedRow(h) \o (<<t>> \o z), 1, S)
      PROVE  f[1] = h \o KeyOn(f, t, Len(QuotedRow(h)) + 2)
  <2>. DEFINE s == (e \o Quoted(c)) \o (<<t>> \o z)
  <2>1. KeyPart(f, s, 1, S)
    BY <1>2, <1>3, <1>4
  <2>. HIDE DEF s
  <2>2. f[Len(e) + 1] = <<c>> \o KeyOn(f, t, Len(e) + Len(c) + 4)
    <3>1. KeyGoesOn(f, e, c, t)
      BY <1>1, <2>1, KeyStep DEF s
    <3>. QED  BY <3>1 DEF KeyGoesOn
  <2>3. Len(e) + 1 = 1 /\ Len(e) + Len(c) + 4 = Len(QuotedRow(h)) + 2
    BY <1>1, <1>2
  <2>. QED  BY <2>2, <2>3 DEF h
<1>. QED  BY <1>4 DEF KeyReads, h

\* One column more: the key is read on behind the bar.
LEMMA KeyReadsMore ==
  ASSUME NEW S, Quote \in S, Bar \in S, Bar # Colon,
         NEW w \in Seq(Seq(S)), w # <<>>, KeyReads(w, S), NEW c \in Seq(S \ {Quote})
  PROVE  KeyReads(Append(w, c), S)
<1>. DEFINE u == Append(w, c)
            p == QuotedRow(w)
            q == Quoted(c)
            b == <<Bar>>
            pu == QuotedRow(u)
            X == Seq(S)
<1>1. c \in Seq(S) /\ b \in Seq(S) /\ Len(b) = 1
  OBVIOUS
<1>. HIDE DEF b, u
<1>2. pu = p \o (b \o q) /\ p \in Seq(S)
  BY <1>1, QuotedRowMore DEF b, u
<1>3. q \in Seq(S) /\ Len(q) = Len(c) + 2
  BY <1>1, QuotedType
<1>. HIDE DEF p, q, pu
<1>4. /\ b \o q \in Seq(S) /\ Len(b \o q) = Len(b) + Len(q)
      /\ p \o b \in Seq(S) /\ Len(p \o b) = Len(p) + Len(b)
  BY <1>1, <1>2, <1>3, ConcatProperties
<1>5. pu \in Seq(S) /\ Len(pu) = Len(p) + Len(b \o q)
  <2>1. p \o (b \o q) \in Seq(S) /\ Len(p \o (b \o q)) = Len(p) + Len(b \o q)
    BY <1>2, <1>4, ConcatProperties
  <2>. QED  BY <1>2, <2>1
<1>6. Len(p) \in Nat /\ Len(c) \in Nat
  BY <1>1, <1>2, LenProperties
<1>7. ASSUME NEW t \in S, NEW z \in Seq(S), NEW f, KeyPart(f, pu \o (<<t>> \o z), 1, S)
      PROVE  f[1] = u \o KeyOn(f, t, Len(pu) + 2)
  <2>. DEFINE d == <<t>>
              r == d \o z
              s == pu \o r
              k == KeyOn(f, t, Len(pu) + 2)
  <2>1. d \in Seq(S) /\ Len(d) = 1
    OBVIOUS
  <2>. HIDE DEF d
  <2>2. r \in Seq(S) /\ Len(r) = Len(d) + Len(z) /\ Len(z) \in Nat
    BY <2>1, ConcatProperties, LenProperties
  <2>3. KeyPart(f, s, 1, S)
    BY <1>7 DEF d
  <2>. HIDE DEF r
  <2>4. s \in Seq(S) /\ Len(s) = Len(pu) + Len(r) /\ q \o r \in Seq(S)
    BY <1>3, <1>5, <2>2, ConcatProperties
  <2>5. s = p \o (b \o (q \o r))
    <3>1. (p \o (b \o q)) \o r = p \o ((b \o q) \o r)
      <4>. DEFINE bq == b \o q
      <4>1. bq \in Seq(S)
        BY <1>4
      <4>. HIDE DEF bq
      <4>2. (p \o bq) \o r = p \o (bq \o r)
        BY ONLY <1>2, <2>2, <4>1, Associative, SMTT(30)
      <4>. QED  BY <4>2 DEF bq
    <3>2. (b \o q) \o r = b \o (q \o r)
      BY ONLY <1>1, <1>3, <2>2, Associative, SMTT(30)
    <3>. QED  BY <1>2, <3>1, <3>2
  <2>6. s = ((p \o b) \o q) \o r
    <3>1. (p \o b) \o q = p \o (b \o q)
      BY <1>1, <1>2, <1>3, Associative, SMTT(30)
    <3>. QED  BY <1>2, <3>1
  <2>. HIDE DEF s
  <2>7. f[1] = w \o f[Len(p) + 2]
    <3>. DEFINE zz == q \o r
    <3>1. KeyPart(f, p \o (<<Bar>> \o zz), 1, S) /\ zz \in Seq(S)
      BY <2>3, <2>4, <2>5 DEF b
    <3>. HIDE DEF zz
    <3>2. f[1] = w \o KeyOn(f, Bar, Len(p) + 2)
      BY <3>1 DEF KeyReads, p
    <3>. QED  BY <3>2 DEF KeyOn
  <2>8. f[Len(p \o b) + 1] = <<c>> \o KeyOn(f, t, Len(p \o b) + Len(c) + 4)
    <3>. DEFINE pp == p \o b
    <3>1. pp \in Seq(S) /\ KeyPart(f, (pp \o Quoted(c)) \o (<<t>> \o z), 1, S)
      BY <1>4, <2>3, <2>6 DEF q, r, d
    <3>. HIDE DEF pp
    <3>2. KeyGoesOn(f, pp, c, t)
      BY <3>1, KeyStep
    <3>. QED  BY <3>2 DEF KeyGoesOn, pp
  <2>9. Len(p \o b) + 1 = Len(p) + 2 /\ Len(p \o b) + Len(c) + 4 = Len(pu) + 2
    BY <1>1, <1>3, <1>4, <1>5, <1>6
  <2>10. f[1] = w \o (<<c>> \o k)
    BY <2>7, <2>8, <2>9
  <2>11. k \in Seq(X)
    <3>1. Len(pu) + 2 \in 1 .. Len(s) + 2
      BY <1>1, <1>3, <1>4, <1>5, <1>6, <2>1, <2>2, <2>4, SMTT(30)
    <3>2. f[Len(pu) + 2] \in Seq(X)
      BY <2>3, <3>1 DEF KeyPart
    <3>3. <<>> \in Seq(X)
      BY EmptySeq
    <3>. QED  BY <3>2, <3>3 DEF KeyOn
  <2>. DEFINE h == <<c>>
  <2>12. h \in Seq(X) /\ u = w \o h
    <3>1. c \in X
      BY <1>1
    <3>. HIDE DEF X
    <3>2. w \in Seq(X)
      BY DEF X
    <3>. QED  BY <3>1, <3>2, OneOfSet, AppendIsConcat DEF u
  <2>. HIDE DEF h, k, X
  <2>13. (w \o h) \o k = w \o (h \o k)
    <3>1. w \in Seq(X)
      BY DEF X
    <3>. QED  BY <2>11, <2>12, <3>1, Associative, SMTT(30)
  <2>. QED  BY <2>10, <2>12, <2>13 DEF h, k
<1>. QED  BY <1>7 DEF KeyReads, pu, u

\* Each row is read back from its key.
LEMMA KeyArrives ==
  ASSUME NEW S, {Quote, Bar, Colon} \subseteq S, Bar # Colon,
         NEW w \in Seq(Seq(S \ {Quote})), w # <<>>, NEW x \in S
  PROVE  /\ GroupKey(QuotedRow(w) \o <<Colon, x>>) = w
         /\ QuotedRow(w) \in Seq(S)
<1>. DEFINE C == Seq(S \ {Quote})
            T == {v \in Seq(C) : KeyReads(v, S)}
            e == <<>>
<1>0. C \subseteq Seq(S) /\ Quote \in S /\ Bar \in S /\ Colon \in S
  OBVIOUS
<1>1. e \in T
  BY EmptySeq DEF KeyReads
<1>2. ASSUME NEW v \in Seq(C), NEW c \in C, v \in T PROVE Append(v, c) \in T
  <2>1. Append(v, c) \in Seq(C)
    <3>. HIDE DEF C
    <3>. QED  BY AppendProperties
  <2>2. v \in Seq(Seq(S))
    <3>. DEFINE Y == Seq(S)
    <3>1. C \subseteq Y
      BY <1>0
    <3>. HIDE DEF C, Y
    <3>2. v \in Seq(Y)
      BY <3>1
    <3>. QED  BY <3>2 DEF Y
  <2>3. KeyReads(v, S) /\ c \in Seq(S \ {Quote})
    BY <1>2
  <2>4. CASE v = e
    <3>1. Append(v, c) = <<c>>
      BY <2>4
    <3>2. KeyReads(<<c>>, S)
      BY <1>0, <2>3, KeyReadsOne
    <3>. QED  BY <2>1, <3>1, <3>2
  <2>5. CASE v # e
    <3>1. KeyReads(Append(v, c), S)
      BY <1>0, <2>2, <2>3, <2>5, KeyReadsMore
    <3>. QED  BY <2>1, <3>1
  <2>. QED  BY <2>4, <2>5
<1>. HIDE DEF T
<1>3. Seq(C) \subseteq T
  <2>. HIDE DEF C
  <2>. QED  BY <1>1, <1>2, SeqSetInduction
<1>4. KeyReads(w, S)
  BY <1>3 DEF T
<1>5. w \in Seq(Seq(S))
  <2>. DEFINE Y == Seq(S)
  <2>1. C \subseteq Y /\ w \in Seq(C)
    BY <1>0
  <2>. HIDE DEF C, Y
  <2>2. w \in Seq(Y)
    BY <2>1
  <2>. QED  BY <2>2 DEF Y
<1>. DEFINE p == QuotedRow(w)
            z == <<x>>
            d == <<Colon>>
            dz == <<Colon, x>>
            s == p \o dz
            f == KeyFrom(s)
<1>6. p \in Seq(S)
  <2>1. e \in Seq(S)
    BY EmptySeq
  <2>. HIDE DEF e
  <2>. QED  BY <1>0, <1>5, <2>1, QuotedRowMore
<1>7. dz \in Seq(S) /\ z \in Seq(S) /\ d \o z = dz
  BY <1>0, AppendOne, OneOfSet
<1>. HIDE DEF dz, z
<1>8. s \in Seq(S)
  BY <1>6, <1>7, ConcatProperties
<1>9. GroupKey(s) = f[1] /\ KeyPart(f, s, 1, S)
  <2>. HIDE DEF s
  <2>. QED  BY <1>8, GroupKeyDef
<1>. HIDE DEF f
<1>10. KeyPart(f, p \o (<<Colon>> \o z), 1, S)
  BY <1>7, <1>9
<1>. HIDE DEF s
<1>11. f[1] = w \o KeyOn(f, Colon, Len(p) + 2)
  BY <1>0, <1>4, <1>7, <1>10 DEF KeyReads
<1>12. KeyOn(f, Colon, Len(p) + 2) = e
  BY DEF KeyOn
<1>13. w \o e = w
  BY <1>5, ConcatEmptySeq
<1>. QED  BY <1>6, <1>9, <1>11, <1>12, <1>13 DEF s, dz

\* What a key may hold, and the rows that have one.
Keyed   == Wire \ {Semicolon}
KeyRows == {row \in Seq(Seq(Keyed \ {Quote})) : row # <<>>}

\* The characters of keys are not those between them.
LEMMA KeyedChars ==
  /\ {Quote, Bar, Colon, R} \subseteq Keyed /\ Bar # Colon
  /\ Semicolon \in Wire
<1>. DEFINE f == <<Backslash, Comma, Semicolon, CR, LF, Quote, Bar, Colon, R, N>>
<1>1. \A i, j \in 1 .. 10 : f[i] = f[j] => i = j
  BY CodecAssumption DEF IsInjective
<1>2. f[3] = Semicolon /\ f[6] = Quote /\ f[7] = Bar /\ f[8] = Colon /\ f[9] = R
  OBVIOUS
<1>. HIDE DEF f
<1>3. f[3] # f[6] /\ f[3] # f[7] /\ f[3] # f[8] /\ f[3] # f[9] /\ f[7] # f[8]
  BY <1>1
<1>4. {Quote, Bar, Colon, R, Semicolon} \subseteq Wire
  BY CodecAssumption DEF Wire
<1>. QED  BY <1>2, <1>3, <1>4 DEF Keyed

\* The keys of a result are read back, row by row.
LEMMA KeysArrive ==
  ASSUME NEW keys \in Seq(KeyRows)
  PROVE  ParseGroupBy(GroupBody(keys, R)) = keys
<1>. DEFINE n == Len(keys)
            d == <<Colon, R>>
            f == [i \in 1 .. n |-> QuotedRow(keys[i]) \o d]
            e == <<>>
            b == Join(Semicolon, f)
            T == ToSet(f) \ {e}
<1>1. n \in Nat /\ \A i \in 1 .. n : keys[i] \in KeyRows
  BY LenProperties, ElementOfSeq
<1>2. d \in Seq(Keyed) /\ Len(d) = 2
  BY KeyedChars
<1>3. ASSUME NEW i \in 1 .. n
      PROVE  f[i] \in Seq(Keyed) /\ f[i] # e /\ GroupKey(f[i]) = keys[i]
  <2>. DEFINE w == keys[i]
              p == QuotedRow(w)
              pd == p \o d
  <2>1. w \in Seq(Seq(Keyed \ {Quote})) /\ w # e
    BY <1>1 DEF KeyRows
  <2>. HIDE DEF w
  <2>2. GroupKey(pd) = w /\ p \in Seq(Keyed)
    BY <2>1, KeyedChars, KeyArrives
  <2>3. f[i] = pd
    BY DEF w
  <2>. HIDE DEF d, p
  <2>4. pd \in Seq(Keyed) /\ Len(pd) = Len(p) + 2 /\ Len(p) \in Nat
    <3>1. Len(p) \in Nat
      BY <2>2, LenProperties
    <3>2. pd \in Seq(Keyed) /\ Len(pd) = Len(p) + Len(d)
      BY <1>2, <2>2, ConcatProperties
    <3>. HIDE DEF pd
    <3>. QED  BY <1>2, <3>1, <3>2
  <2>. HIDE DEF pd
  <2>5. pd # e
    <3>1. Len(pd) # 0
      BY <2>4
    <3>. QED  BY <3>1
  <2>. HIDE DEF f
  <2>. QED  BY <2>2, <2>3, <2>4, <2>5 DEF w
<1>4. GroupBody(keys, R) = b
  BY DEF GroupBody, QuotedRow, Quoted, Each
<1>5. f \in [1 .. n -> Seq(Keyed)]
  BY <1>3
<1>. HIDE DEF f, n, d
<1>6. f \in Seq(Seq(Keyed))
  BY <1>1, <1>5
<1>7. Len(f) = n
  BY <1>1, <1>5, <1>6, LenProperties
<1>. HIDE DEF b
<1>8. CASE n # 0
  <2>1. SplitPlain(b, Semicolon) = f
    BY <1>6, <1>7, <1>8, KeyedChars, PlainParts DEF b, Keyed
  <2>2. Kept(f, T) = f
    <3>1. \A i \in 1 .. Len(f) : f[i] \in ToSet(f)
      BY DEF ToSet
    <3>2. \A i \in 1 .. Len(f) : f[i] \in T
      BY <1>3, <1>7, <3>1
    <3>. HIDE DEF T
    <3>. QED  BY <1>6, <3>2, KeptAll
  <2>3. ParseGroupBy(b) = Each(GroupKey, Kept(f, T))
    <3>1. ParseGroupBy(b) = Each(GroupKey, Kept(f, ToSet(f) \ {<<>>}))
      BY <2>1 DEF ParseGroupBy
    <3>. QED  BY <3>1
  <2>. HIDE DEF T
  <2>4. ParseGroupBy(b) = [i \in 1 .. n |-> keys[i]]
    BY <1>3, <1>7, <2>2, <2>3 DEF Each
  <2>5. keys = [i \in 1 .. n |-> keys[i]]
    BY LenProperties DEF n
  <2>. QED  BY <1>4, <2>4, <2>5
<1>9. CASE n = 0
  <2>. DEFINE g == <<e>>
              V == ToSet(g) \ {e}
  <2>1. f = e /\ keys = e
    BY <1>6, <1>7, <1>9, EmptySeq DEF n
  <2>2. b = e
    BY <2>1, FlattenNone DEF b, Join
  <2>3. SplitPlain(e, Semicolon) = g
    BY SplitNothing DEF SplitPlain
  <2>4. Kept(g, V) = e
    <3>1. e \in {e} /\ e \notin V
      OBVIOUS
    <3>. HIDE DEF V
    <3>. QED  BY <3>1, KeptOne
  <2>5. ParseGroupBy(e) = Each(GroupKey, Kept(g, V))
    <3>. HIDE DEF g
    <3>. QED  BY <2>3 DEF ParseGroupBy
  <2>6. Each(GroupKey, e) = e
    BY DEF Each
  <2>. QED  BY <1>4, <2>1, <2>2, <2>4, <2>5, <2>6
<1>. QED  BY <1>1, <1>8, <1>9

-----------------------------------------------------------------------------
(* The table.                                                              *)

\* The wire without newlines.
Clean == Wire \ {CR, LF}

\* Cells and their tokens are texts, which Decrypt tells apart.
LEMMA CellsAreTexts ==
  /\ \A s \in Cells : s \in Seq(Wire) /\ Encrypt(s) \in Seq(Wire)
  /\ \A s \in Cells : IsEncrypted(Encrypt(s)) /\ Decrypt(Encrypt(s)) = s
  /\ \A s \in Cells : ~IsEncrypted(s) /\ Decrypt(s) = s
<1>1. ASSUME NEW s \in Cells PROVE s \in Seq(Wire)
  <2>1. s \in Seq(Chars) /\ Chars \subseteq Wire
    BY CodecAssumption, WireChars
  <2>. QED  BY <2>1
<1>2. ASSUME NEW s \in Cells PROVE Encrypt(s) \in Seq(Wire)
  <2>1. EncPrefix \in Wire /\ [text |-> s] \in Wire
    BY DEF Wire
  <2>. QED  BY <2>1 DEF Encrypt
<1>3. ASSUME NEW s \in Cells PROVE IsEncrypted(Encrypt(s)) /\ Decrypt(Encrypt(s)) = s
  <2>. DEFINE t == Encrypt(s)
  <2>1. t # <<>> /\ t[1] = EncPrefix /\ t[2] = [text |-> s]
    BY DEF Encrypt
  <2>. HIDE DEF t
  <2>2. t[2].text = s
    BY <2>1
  <2>. QED  BY <2>1, <2>2 DEF IsEncrypted, Decrypt, t
<1>4. ASSUME NEW s \in Cells PROVE ~IsEncrypted(s) /\ Decrypt(s) = s
  <2>1. s \in Seq(Chars) /\ EncPrefix \notin Chars
    BY CodecAssumption, WireChars
  <2>2. s # <<>> => s[1] \in Chars
    BY <2>1
  <2>. QED  BY <2>1, <2>2 DEF IsEncrypted, Decrypt
<1>. QED  BY <1>1, <1>2, <1>3, <1>4

\* A row with some columns encrypted is a row.
LEMMA EncRowType ==
  ASSUME NEW n \in Nat \ {0}, NEW row \in [1 .. n -> Cells], NEW cols
  PROVE  /\ EncRow(row, cols) \in Rows /\ Len(EncRow(row, cols)) = n
         /\ EncRow(row, cols) = [j \in 1 .. n |-> IF j \in cols THEN Encrypt(row[j]) ELSE row[j]]
<1>1. row \in Seq(Cells) /\ Len(row) = n
  <2>1. row \in Seq(Cells)
    BY IsASeq
  <2>. QED  BY <2>1, LenProperties
<1>2. EncRow(row, cols) = [j \in 1 .. n |-> IF j \in cols THEN Encrypt(row[j]) ELSE row[j]]
  BY <1>1 DEF EncRow
<1>. DEFINE f == EncRow(row, cols)
            X == Seq(Wire)
<1>3. f \in [1 .. n -> X]
  <2>1. \A j \in 1 .. n : row[j] \in X /\ Encrypt(row[j]) \in X
    BY CellsAreTexts
  <2>. HIDE DEF X
  <2>. QED  BY <1>2, <2>1
<1>. HIDE DEF f, X
<1>4. f \in Seq(X)
  BY <1>3, IsASeq
<1>5. Len(f) = n
  BY <1>3, <1>4, LenProperties
<1>. QED  BY <1>2, <1>4, <1>5 DEF Rows, f, X

\* A row as the application wrote it.
Written(n) == [row : [1 .. n -> Cells], enc : SUBSET Nat]

\* What the table holds of it.
Stored(w) == EncRow(w.row, w.enc)

\* So is what the table holds of one.
LEMMA StoredType ==
  ASSUME NEW n \in Nat \ {0}, NEW w \in Written(n)
  PROVE  /\ Stored(w) \in Rows /\ Len(Stored(w)) = n
         /\ Stored(w) = [j \in 1 .. n |-> IF j \in w.enc THEN Encrypt(w.row[j]) ELSE w.row[j]]
BY EncRowType DEF Stored, Written

\* The inductive invariant: the table holds the rows as they were written.
AsWritten ==
  /\ width \in Widths /\ Len(wrote) <= MaxRows
  /\ wrote \in Seq(Written(width))
  /\ table = [i \in 1 .. Len(wrote) |-> Stored(wrote[i])]
  /\ args = asked

\* The table is a sequence of rows.
LEMMA TableType ==
  ASSUME NEW n \in Nat \ {0}, NEW ws \in Seq(Written(n)), NEW t, t = [i \in 1 .. Len(ws) |-> Stored(ws[i])]
  PROVE  t \in Seq(Rows) /\ Len(t) = Len(ws)
<1>. DEFINE m == Len(ws)
<1>1. m \in Nat /\ \A i \in 1 .. m : ws[i] \in Written(n)
  BY LenProperties, ElementOfSeq
<1>2. t \in [1 .. m -> Rows]
  BY <1>1, StoredType
<1>. HIDE DEF m
<1>3. t \in Seq(Rows)
  BY <1>1, <1>2, IsASeq
<1>4. Len(t) = m
  BY <1>1, <1>2, <1>3, LenProperties
<1>. QED  BY <1>3, <1>4 DEF m

\* What is sent holds no newline.
LEMMA ValueIsClean ==
  \A s \in Seq(Wire) : EncodeValue(s) \in Seq(Clean) /\ EncodeExecStr(s) \in Seq(Clean)
<1>1. Backslash \in Wire \ {CR, LF}
  BY WireChars, SpecialsDiffer
<1>2. /\ Escaping(ValueEscapes, Wire) /\ {CR, LF} \subseteq Escaped(ValueEscapes)
      /\ Escaping(ExecEscapes, Wire) /\ {CR, LF} \subseteq Escaped(ExecEscapes)
  BY WireChars, ValueEscaping, ExecEscaping
<1>3. \A s \in Seq(Wire) : Encode(s, ValueEscapes) \in Seq(Clean)
  BY <1>1, <1>2, EncodedOneLine DEF Clean
<1>4. \A s \in Seq(Wire) : Encode(s, ExecEscapes) \in Seq(Clean)
  BY <1>1, <1>2, EncodedOneLine DEF Clean
<1>. QED  BY <1>3, <1>4 DEF EncodeValue, EncodeExecStr

\* Nor do the values of a row joined.
LEMMA ValuesAreClean ==
  ASSUME NEW row \in Rows PROVE Join(Comma, Each(EncodeValue, row)) \in Seq(Clean)
<1>. DEFINE n == Len(row)
            f == Each(EncodeValue, row)
<1>1. row \in Seq(Seq(Wire))
  BY DEF Rows
<1>2. n \in Nat /\ \A i \in 1 .. n : row[i] \in Seq(Wire)
  BY <1>1, LenProperties, ElementOfSeq
<1>3. \A i \in 1 .. n : EncodeValue(row[i]) \in Seq(Clean)
  BY <1>2, ValueIsClean
<1>4. f \in [1 .. n -> Seq(Clean)]
  BY <1>3 DEF Each
<1>. HIDE DEF f, n
<1>5. f \in Seq(Seq(Clean))
  BY <1>2, <1>4, IsASeq
<1>6. Comma \in Clean
  BY WireChars, SpecialsDiffer DEF Clean
<1>7. Join(Comma, f) \in Seq(Clean)
  BY <1>5, <1>6, JoinType
<1>. QED  BY <1>7 DEF f

\* The empty table.
LEMMA InitAsWritten == Init => AsWritten /\ line \in Seq(Clean)
<1>. SUFFICES ASSUME Init PROVE AsWritten /\ line \in Seq(Clean)
  OBVIOUS
<1>1. width \in Widths /\ table = <<>> /\ wrote = <<>> /\ line = <<>> /\ args = asked
  BY DEF Init
<1>2. wrote \in Seq(Written(width)) /\ line \in Seq(Clean) /\ Len(wrote) = 0
  BY <1>1, EmptySeq
<1>3. table = [i \in 1 .. Len(wrote) |-> Stored(wrote[i])]
  BY <1>1, <1>2
<1>. QED  BY <1>1, <1>2, <1>3, CodecAssumption DEF AsWritten

\* insert: the server reads the row that was written, and takes it.
LEMMA InsertAsWritten ==
  ASSUME AsWritten, NEW row \in [1 .. width -> Cells], NEW cols \in EncCols, Insert(row, cols)
  PROVE  AsWritten' /\ line' \in Seq(Clean)
<1>. DEFINE n == Len(wrote)
            w == [row |-> row, enc |-> cols]
            r == EncRow(row, cols)
            ws == Append(wrote, w)
            g == [i \in 1 .. Len(ws) |-> Stored(ws[i])]
            t == Append(table, r)
<1>1. width \in Nat \ {0} /\ cols \subseteq Nat /\ MaxRows \in Nat
  BY CodecAssumption DEF AsWritten
<1>2. wrote \in Seq(Written(width)) /\ w \in Written(width)
  BY <1>1 DEF AsWritten, Written
<1>3. r \in Rows /\ Len(r) = width
  BY <1>1, EncRowType
<1>4. r = Stored(w)
  BY DEF Stored
<1>5. table \in Seq(Rows) /\ Len(table) = n /\ \A i \in 1 .. n : table[i] = Stored(wrote[i])
  BY <1>1, <1>2, TableType DEF AsWritten
<1>. HIDE DEF w, r
<1>6. line' = Join(Comma, Each(EncodeValue, r))
  BY DEF Insert, InsertArgs, r
<1>7. ServerDecode(line') = r
  BY <1>3, <1>6, ValuesArrive DEF Rows
<1>8. table' = t
  BY <1>3, <1>7 DEF Insert
<1>9. ws \in Seq(Written(width)) /\ Len(ws) = n + 1 /\ ws[n + 1] = w /\ \A i \in 1 .. n : ws[i] = wrote[i]
  BY <1>2, AppendProperties
<1>10. t \in Seq(Rows) /\ Len(t) = n + 1 /\ t[n + 1] = r /\ \A i \in 1 .. n : t[i] = table[i]
  BY <1>3, <1>5, AppendProperties
<1>11. wrote' = ws /\ width' = width /\ args' = asked' /\ Len(table) < MaxRows
  BY DEF Insert, w
<1>12. n \in Nat
  BY <1>2, LenProperties
<1>. HIDE DEF ws, t
<1>13. t = g
  <2>1. g \in Seq(Rows) /\ Len(g) = Len(ws)
    BY <1>1, <1>9, TableType
  <2>2. \A i \in 1 .. n + 1 : g[i] = Stored(ws[i])
    BY <1>9
  <2>3. \A i \in 1 .. n + 1 : i = n + 1 \/ i \in 1 .. n
    BY <1>12
  <2>. HIDE DEF g
  <2>4. \A i \in 1 .. n + 1 : t[i] = g[i]
    BY <1>4, <1>5, <1>9, <1>10, <2>2, <2>3
  <2>. QED  BY <1>9, <1>10, <2>1, <2>4, SeqEqual
<1>14. line' \in Seq(Clean)
  BY <1>3, <1>6, ValuesAreClean
<1>15. Len(ws) <= MaxRows
  BY <1>1, <1>5, <1>9, <1>11, <1>12
<1>16. width' \in Widths
  BY <1>11 DEF AsWritten
<1>. QED  BY <1>8, <1>9, <1>11, <1>13, <1>14, <1>15, <1>16 DEF AsWritten

\* update_row_str: one cell is replaced, by what was written.
LEMMA UpdateAsWritten ==
  ASSUME AsWritten, NEW i \in 1 .. Len(table), NEW j \in 1 .. width, NEW s \in Cells, UpdateRowStr(i, j, s)
  PROVE  AsWritten' /\ line' \in Seq(Clean)
<1>. DEFINE n == Len(wrote)
            w == wrote[i]
            v == [row |-> [w.row EXCEPT ![j] = s], enc |-> w.enc \ {j}]
            ws == [wrote EXCEPT ![i] = v]
            g == [k \in 1 .. Len(ws) |-> Stored(ws[k])]
<1>1. width \in Nat \ {0}
  BY CodecAssumption DEF AsWritten
<1>2. wrote \in Seq(Written(width)) /\ n \in Nat
  BY LenProperties DEF AsWritten
<1>3. table \in Seq(Rows) /\ Len(table) = n /\ \A k \in 1 .. n : table[k] = Stored(wrote[k])
  BY <1>1, <1>2, TableType DEF AsWritten
<1>4. i \in 1 .. n /\ w \in Written(width)
  BY <1>2, <1>3, ElementOfSeq
<1>. HIDE DEF w
<1>5. w.row \in [1 .. width -> Cells] /\ w.enc \subseteq Nat /\ w = [row |-> w.row, enc |-> w.enc]
  BY <1>4 DEF Written
<1>6. v \in Written(width)
  <2>1. [w.row EXCEPT ![j] = s] \in [1 .. width -> Cells]
    BY <1>5
  <2>. QED  BY <1>5, <2>1 DEF Written
<1>7. line' = EncodeValue(s) /\ line' \in Seq(Clean) /\ DecodeExecStr(line') = s
  <2>1. line' = EncodeValue(s)
    BY DEF UpdateRowStr, UpdateArgs
  <2>2. s \in Seq(Wire)
    BY CellsAreTexts
  <2>3. EncodeValue(s) \in Seq(Clean) /\ DecodeExecStr(EncodeValue(s)) = s
    BY <2>2, ValueIsClean, ValueArrives
  <2>. QED  BY <2>1, <2>3
<1>8. wrote' = ws
  <2>1. wrote' = [wrote EXCEPT ![i] = [row |-> [@.row EXCEPT ![j] = s], enc |-> @.enc \ {j}]]
    BY DEF UpdateRowStr
  <2>. QED  BY <2>1 DEF w
<1>9. table' = [table EXCEPT ![i] = [table[i] EXCEPT ![j] = s]]
  BY <1>7 DEF UpdateRowStr
<1>10. [table[i] EXCEPT ![j] = s] = Stored(v)
  <2>1. table[i] = [k \in 1 .. width |-> IF k \in w.enc THEN Encrypt(w.row[k]) ELSE w.row[k]]
    BY <1>1, <1>3, <1>4, StoredType DEF w
  <2>2. Stored(v) = [k \in 1 .. width |-> IF k \in v.enc THEN Encrypt(v.row[k]) ELSE v.row[k]]
    <3>. HIDE DEF v
    <3>. QED  BY <1>1, <1>6, StoredType
  <2>3. v.row = [w.row EXCEPT ![j] = s] /\ v.enc = w.enc \ {j}
    OBVIOUS
  <2>4. /\ v.row[j] = s /\ \A k \in 1 .. width : k # j => v.row[k] = w.row[k]
        /\ \A k \in 1 .. width : k \in v.enc <=> k # j /\ k \in w.enc
    BY <1>5, <2>3
  <2>. DEFINE x == table[i]
              f == [k \in 1 .. width |-> IF k \in w.enc THEN Encrypt(w.row[k]) ELSE w.row[k]]
              h == [k \in 1 .. width |-> IF k \in v.enc THEN Encrypt(v.row[k]) ELSE v.row[k]]
  <2>5. [f EXCEPT ![j] = s] = [k \in 1 .. width |-> IF k = j THEN s ELSE f[k]]
    <3>. HIDE DEF v
    <3>. QED  OBVIOUS
  <2>6. \A k \in 1 .. width : h[k] = IF k = j THEN s ELSE f[k]
    <3>. HIDE DEF v
    <3>. QED  BY <2>4
  <2>7. h = [k \in 1 .. width |-> h[k]]
    OBVIOUS
  <2>. HIDE DEF v, f, h
  <2>8. [f EXCEPT ![j] = s] = h
    BY <2>5, <2>6, <2>7
  <2>. QED  BY <2>1, <2>2, <2>8 DEF f, h
<1>. HIDE DEF v
<1>11. ws \in Seq(Written(width)) /\ Len(ws) = n /\ \A k \in 1 .. n : ws[k] = IF k = i THEN v ELSE wrote[k]
  BY <1>2, <1>4, <1>6, ExceptSeq
<1>. HIDE DEF ws
<1>12. table' = g
  <2>1. g = [k \in 1 .. n |-> Stored(ws[k])]
    BY <1>11
  <2>2. table' = [k \in 1 .. n |-> IF k = i THEN Stored(v) ELSE table[k]]
    <3>1. DOMAIN table = 1 .. n
      BY <1>3, LenProperties
    <3>. QED  BY <1>9, <1>10, <3>1
  <2>3. \A k \in 1 .. n : Stored(ws[k]) = IF k = i THEN Stored(v) ELSE table[k]
    BY <1>3, <1>11
  <2>. QED  BY <2>1, <2>2, <2>3
<1>13. width' = width /\ args' = asked' /\ Len(ws) <= MaxRows
  BY <1>11 DEF UpdateRowStr, AsWritten
<1>14. width' \in Widths
  BY <1>13 DEF AsWritten
<1>. QED  BY <1>7, <1>8, <1>11, <1>12, <1>13, <1>14 DEF AsWritten

\* exec_str_kernel: the arguments arrive and the table stays.
LEMMA ExecAsWritten ==
  ASSUME AsWritten, NEW a \in Cells, NEW b \in Cells, ExecStrKernel(a, b)
  PROVE  AsWritten' /\ line' \in Seq(Clean)
<1>. DEFINE p == EncodeExecStr(a)
            q == EncodeExecStr(b)
            d == <<Semicolon>>
<1>1. a \in Seq(Wire) /\ b \in Seq(Wire)
  BY CellsAreTexts
<1>2. line' = p \o d \o q /\ asked' = <<a, b>> /\ args' = ServerArgs(line')
  BY DEF ExecStrKernel
<1>3. args' = asked'
  BY <1>1, <1>2, ArgumentsArrive
<1>4. p \in Seq(Clean) /\ q \in Seq(Clean)
  BY <1>1, ValueIsClean
<1>5. d \in Seq(Clean)
  BY WireChars, SpecialsDiffer DEF Clean
<1>. HIDE DEF p, q, d
<1>6. line' \in Seq(Clean)
  <2>1. p \o d \in Seq(Clean)
    BY <1>4, <1>5, ConcatProperties
  <2>2. (p \o d) \o q \in Seq(Clean)
    BY <1>4, <2>1, ConcatProperties
  <2>. QED  BY <1>2, <2>2
<1>7. UNCHANGED <<width, table, wrote>>
  BY DEF ExecStrKernel
<1>. QED  BY <1>3, <1>6, <1>7 DEF AsWritten

\* Every step keeps the invariant and sends no newline.
LEMMA NextAsWritten ==
  ASSUME AsWritten, Next
  PROVE  AsWritten' /\ line' \in Seq(Clean)
<1>. DEFINE Good == AsWritten' /\ line' \in Seq(Clean)
<1>1. ASSUME NEW row \in [1 .. width -> Cells], NEW cols \in EncCols, Insert(row, cols) PROVE Good
  BY <1>1, InsertAsWritten
<1>2. ASSUME NEW i \in 1 .. Len(table), NEW j \in 1 .. width, NEW s \in Cells, UpdateRowStr(i, j, s) PROVE Good
  BY <1>2, UpdateAsWritten
<1>3. ASSUME NEW a \in Cells, NEW b \in Cells, ExecStrKernel(a, b) PROVE Good
  BY <1>3, ExecAsWritten
<1>. HIDE DEF Good
<1>4. Good
  BY <1>1, <1>2, <1>3 DEF Next
<1>. QED  BY <1>4 DEF Good

\* So it holds in every state.
LEMMA AlwaysAsWritten == Spec => [](AsWritten /\ line \in Seq(Clean))
<1>. DEFINE I == AsWritten /\ line \in Seq(Clean)
<1>1. Init => I
  BY InitAsWritten
<1>2. I /\ [Next]_vars => I'
  <2>. SUFFICES ASSUME I, [Next]_vars PROVE I'
    OBVIOUS
  <2>1. CASE Next
    BY <2>1, NextAsWritten
  <2>2. CASE UNCHANGED vars
    BY <2>2 DEF AsWritten, vars
  <2>. QED  BY <2>1, <2>2
<1>. HIDE DEF I
<1>3. Spec => []I
  BY <1>1, <1>2, PTL DEF Spec
<1>. QED  BY <1>3 DEF I

\* Calls of the other methods leave the table as it is.
LEMMA AlwaysAsWrittenAsked == AskSpec => []AsWritten
<1>1. AskInit => AsWritten
  BY InitAsWritten DEF AskInit
<1>2. AsWritten /\ [AskNext]_all => AsWritten'
  <2>. SUFFICES ASSUME AsWritten, [AskNext]_all PROVE AsWritten'
    OBVIOUS
  <2>1. CASE Next
    BY <2>1, NextAsWritten
  <2>2. ASSUME NEW l \in Langs, NEW c \in Calls, Ask(l, c) PROVE AsWritten'
    <3>1. UNCHANGED <<width, table, wrote>> /\ args' = asked'
      BY <2>2 DEF Ask
    <3>. QED  BY <3>1 DEF AsWritten
  <2>3. CASE UNCHANGED all
    BY <2>3 DEF AsWritten, vars, all
  <2>. QED  BY <2>1, <2>2, <2>3 DEF AskNext
<1>. QED  BY <1>1, <1>2, PTL DEF AskSpec

-----------------------------------------------------------------------------
(* What follows from it.                                                   *)

\* What the invariant says of each row.
LEMMA AsWrittenTypes ==
  ASSUME AsWritten
  PROVE  /\ width \in Nat \ {0} /\ width \in Widths
         /\ table \in Seq(Rows) /\ Len(table) = Len(wrote) /\ Len(wrote) \in Nat
         /\ \A i \in 1 .. Len(wrote) :
              /\ wrote[i] \in Written(width)
              /\ table[i] = Stored(wrote[i]) /\ table[i] \in Rows /\ Len(table[i]) = width
              /\ table[i] = [j \in 1 .. width |-> IF j \in wrote[i].enc THEN Encrypt(wrote[i].row[j]) ELSE wrote[i].row[j]]
<1>1. width \in Nat \ {0} /\ width \in Widths
  BY CodecAssumption DEF AsWritten
<1>2. wrote \in Seq(Written(width)) /\ Len(wrote) \in Nat
  BY LenProperties DEF AsWritten
<1>3. table \in Seq(Rows) /\ Len(table) = Len(wrote)
  BY <1>1, <1>2, TableType DEF AsWritten
<1>4. ASSUME NEW i \in 1 .. Len(wrote)
      PROVE  /\ wrote[i] \in Written(width)
             /\ table[i] = Stored(wrote[i]) /\ table[i] \in Rows /\ Len(table[i]) = width
             /\ table[i] = [j \in 1 .. width |-> IF j \in wrote[i].enc THEN Encrypt(wrote[i].row[j]) ELSE wrote[i].row[j]]
  <2>1. wrote[i] \in Written(width)
    BY <1>2, ElementOfSeq
  <2>2. table[i] = Stored(wrote[i])
    BY DEF AsWritten
  <2>3. /\ Stored(wrote[i]) \in Rows /\ Len(Stored(wrote[i])) = width
        /\ Stored(wrote[i]) = [j \in 1 .. width |-> IF j \in wrote[i].enc THEN Encrypt(wrote[i].row[j]) ELSE wrote[i].row[j]]
    BY <1>1, <2>1, StoredType
  <2>. QED  BY <2>1, <2>2, <2>3
<1>. QED  BY <1>1, <1>2, <1>3, <1>4

\* The rows keep the columns of the table, and none was refused: what insert
\* sends always has as many columns for the server as the row has.
THEOREM CodecTypeCorrect == (Spec => []TypeOK) /\ (AskSpec => []TypeOK)
<1>1. AsWritten => TypeOK
  <2>. SUFFICES ASSUME AsWritten PROVE TypeOK
    OBVIOUS
  <2>1. \A i \in 1 .. Len(table) : DOMAIN table[i] = 1 .. width /\ DOMAIN wrote[i].row = 1 .. width
    BY AsWrittenTypes DEF Written
  <2>. QED  BY <2>1, AsWrittenTypes DEF TypeOK, AsWritten
<1>2. Spec => []TypeOK
  BY <1>1, AlwaysAsWritten, PTL
<1>3. AskSpec => []TypeOK
  BY <1>1, AlwaysAsWrittenAsked, PTL
<1>. QED  BY <1>2, <1>3

\* No argument, whatever it holds, puts a newline on the wire.
THEOREM CodecOneLine == Spec => []OneLine
<1>1. line \in Seq(Clean) => OneLine
  <2>. SUFFICES ASSUME line \in Seq(Clean), NEW i \in 1 .. Len(line) PROVE line[i] \notin {CR, LF}
    BY DEF OneLine, Contains
  <2>1. line[i] \in Clean
    BY ElementOfSeq
  <2>. QED  BY <2>1 DEF Clean
<1>. QED  BY <1>1, AlwaysAsWritten, PTL

\* GET returns what insert and update_row_str wrote, and get_dec the plaintext.
THEOREM CodecRowsReadBack == (Spec => []RowsReadBack) /\ (AskSpec => []RowsReadBack)
<1>1. AsWritten => RowsReadBack
  <2>. SUFFICES ASSUME AsWritten, NEW i \in 1 .. Len(table)
                PROVE  /\ Get(i) = EncRow(wrote[i].row, wrote[i].enc)
                       /\ \A cols \in EncCols : wrote[i].enc \subseteq cols => GetDec(i, cols) = wrote[i].row
    BY DEF RowsReadBack
  <2>. DEFINE w == wrote[i]
              x == table[i]
  <2>1. /\ w \in Written(width) /\ width \in Nat /\ x = Stored(w) /\ x \in Rows /\ Len(x) = width
        /\ x = [j \in 1 .. width |-> IF j \in w.enc THEN Encrypt(w.row[j]) ELSE w.row[j]]
    BY AsWrittenTypes
  <2>. HIDE DEF w, x
  <2>2. Get(i) = x
    <3>1. SplitWireRow(RowBody(x)) = x
      <4>1. x \in Seq(Seq(Wire)) /\ Len(x) # 0
        BY <2>1 DEF Rows
      <4>. QED  BY <4>1, RowArrives
    <3>. QED  BY <3>1 DEF Get, x
  <2>3. ASSUME NEW cols, w.enc \subseteq cols PROVE GetDec(i, cols) = w.row
    <3>1. w.row \in [1 .. width -> Cells]
      BY <2>1 DEF Written
    <3>2. GetDec(i, cols) = [j \in 1 .. width |-> IF j \in cols THEN Decrypt(x[j]) ELSE x[j]]
      BY <2>1, <2>2 DEF GetDec, DecRow
    <3>3. ASSUME NEW j \in 1 .. width PROVE (IF j \in cols THEN Decrypt(x[j]) ELSE x[j]) = w.row[j]
      <4>1. w.row[j] \in Cells /\ x[j] = IF j \in w.enc THEN Encrypt(w.row[j]) ELSE w.row[j]
        BY <2>1, <3>1
      <4>2. Decrypt(Encrypt(w.row[j])) = w.row[j] /\ Decrypt(w.row[j]) = w.row[j]
        BY <4>1, CellsAreTexts
      <4>3. CASE j \in w.enc
        BY <2>3, <4>1, <4>2, <4>3
      <4>4. CASE j \notin w.enc
        BY <4>1, <4>2, <4>4
      <4>. QED  BY <4>3, <4>4
    <3>4. GetDec(i, cols) = [j \in 1 .. width |-> w.row[j]]
      BY <3>2, <3>3
    <3>. QED  BY <3>1, <3>4
  <2>. QED  BY <2>1, <2>2, <2>3 DEF w, Stored
<1>2. Spec => []RowsReadBack
  BY <1>1, AlwaysAsWritten, PTL
<1>3. AskSpec => []RowsReadBack
  BY <1>1, AlwaysAsWrittenAsked, PTL
<1>. QED  BY <1>2, <1>3

\* Uncut results come back row by row, by Python's fast path, by its slow one
\* and in JavaScript, but for the one result whose body is empty too.
THEOREM CodecRowlistReadBack == (Spec => []RowlistReadBack) /\ (AskSpec => []RowlistReadBack)
<1>1. AsWritten => RowlistReadBack
  <2>. SUFFICES ASSUME AsWritten PROVE RowlistReadBack
    OBVIOUS
  <2>. DEFINE rows == [i \in 1 .. Len(table) |-> EncRow(wrote[i].row, wrote[i].enc)]
  <2>1. table = rows
    BY AsWrittenTypes DEF AsWritten, Stored
  <2>2. table \in Seq(Rows)
    BY AsWrittenTypes
  <2>3. table # << << <<>> >> >> => ParseRowlistPy(Rowlist(table)) = table /\ ParseRowlistJs(Rowlist(table)) = table
    BY <2>2, ResultArrives
  <2>. HIDE DEF rows
  <2>4. rows # << << <<>> >> >> => ParseRowlistPy(Rowlist(table)) = rows /\ ParseRowlistJs(Rowlist(table)) = rows
    BY <2>1, <2>3
  <2>. QED  BY <2>4 DEF RowlistReadBack, rows
<1>2. Spec => []RowlistReadBack
  BY <1>1, AlwaysAsWritten, PTL
<1>3. AskSpec => []RowlistReadBack
  BY <1>1, AlwaysAsWrittenAsked, PTL
<1>. QED  BY <1>2, <1>3

\* Where a column is written encrypted the server has a token, and only there.
THEOREM CodecOnlyTokensStored == (Spec => []OnlyTokensStored) /\ (AskSpec => []OnlyTokensStored)
<1>1. AsWritten => OnlyTokensStored
  <2>. SUFFICES ASSUME AsWritten, NEW i \in 1 .. Len(table), NEW j \in 1 .. width
                PROVE  j \in wrote[i].enc <=> IsEncrypted(table[i][j])
    BY DEF OnlyTokensStored
  <2>1. /\ wrote[i].row[j] \in Cells
        /\ table[i][j] = IF j \in wrote[i].enc THEN Encrypt(wrote[i].row[j]) ELSE wrote[i].row[j]
    BY AsWrittenTypes DEF Written
  <2>2. IsEncrypted(Encrypt(wrote[i].row[j])) /\ ~IsEncrypted(wrote[i].row[j])
    BY <2>1, CellsAreTexts
  <2>3. CASE j \in wrote[i].enc
    BY <2>1, <2>2, <2>3
  <2>4. CASE j \notin wrote[i].enc
    BY <2>1, <2>2, <2>4
  <2>. QED  BY <2>3, <2>4
<1>2. Spec => []OnlyTokensStored
  BY <1>1, AlwaysAsWritten, PTL
<1>3. AskSpec => []OnlyTokensStored
  BY <1>1, AlwaysAsWrittenAsked, PTL
<1>. QED  BY <1>2, <1>3

\* Both arguments of a string kernel arrive as they were given.
THEOREM CodecExecArgsArrive == (Spec => []ExecArgsArrive) /\ (AskSpec => []ExecArgsArrive)
<1>1. AsWritten => ExecArgsArrive
  BY DEF AsWritten, ExecArgsArrive
<1>2. Spec => []ExecArgsArrive
  BY <1>1, AlwaysAsWritten, PTL
<1>3. AskSpec => []ExecArgsArrive
  BY <1>1, AlwaysAsWrittenAsked, PTL
<1>. QED  BY <1>2, <1>3

\* The keys of GROUPBY come back apart, whatever separators of keys they hold.
THEOREM CodecGroupsReadBack == (Spec => []GroupsReadBack) /\ (AskSpec => []GroupsReadBack)
<1>1. AsWritten => GroupsReadBack
  <2>. SUFFICES ASSUME AsWritten PROVE GroupsReadBack
    OBVIOUS
  <2>. DEFINE fit(row) == \A j \in 1 .. width : \A c \in {Quote, Semicolon, CR, LF} : ~Contains(row[j], c)
              T == {row \in ToSet(table) : fit(row)}
              X == {row \in Rows : Len(row) = width}
              keys == Kept(table, T)
  <2>1. width \in Nat \ {0}
    BY AsWrittenTypes
  <2>2. table \in Seq(X)
    <3>. DEFINE n == Len(table)
    <3>1. n \in Nat /\ \A i \in 1 .. n : table[i] \in X
      BY AsWrittenTypes
    <3>2. DOMAIN table = 1 .. n
      <4>1. table \in Seq(Rows)
        BY AsWrittenTypes
      <4>. QED  BY <4>1, LenProperties
    <3>3. table = [i \in 1 .. n |-> table[i]]
      <4>1. table \in Seq(Rows)
        BY AsWrittenTypes
      <4>. QED  BY <4>1, LenProperties
    <3>. HIDE DEF n, X
    <3>4. table \in [1 .. n -> X]
      BY <3>1, <3>3
    <3>. QED  BY <3>1, <3>4
  <2>3. keys \in Seq(X \cap T)
    <3>. HIDE DEF X, T
    <3>. QED  BY <2>2, KeptIn
  <2>4. X \cap T \subseteq KeyRows
    <3>. SUFFICES ASSUME NEW row \in X, fit(row) PROVE row \in KeyRows
      OBVIOUS
    <3>1. row \in Seq(Seq(Wire)) /\ Len(row) = width
      BY DEF Rows
    <3>. DEFINE Y == Seq(Keyed \ {Quote})
    <3>2. \A j \in 1 .. width : row[j] \in Y
      <4>. SUFFICES ASSUME NEW j \in 1 .. width PROVE row[j] \in Y
        OBVIOUS
      <4>. DEFINE s == row[j]
                  m == Len(s)
                  Z == Keyed \ {Quote}
      <4>1. s \in Seq(Wire)
        BY <3>1, ElementOfSeq
      <4>2. ~Contains(s, Quote) /\ ~Contains(s, Semicolon)
        OBVIOUS
      <4>. HIDE DEF s
      <4>3. m \in Nat /\ \A i \in 1 .. m : s[i] \in Z
        <5>1. m \in Nat /\ \A i \in 1 .. m : s[i] \in Wire
          BY <4>1, LenProperties, ElementOfSeq
        <5>2. \A i \in 1 .. m : s[i] # Quote /\ s[i] # Semicolon
          BY <4>2 DEF Contains
        <5>. QED  BY <5>1, <5>2 DEF Keyed
      <4>4. s = [i \in 1 .. m |-> s[i]]
        BY <4>1, LenProperties
      <4>. HIDE DEF m, Z
      <4>5. s \in [1 .. m -> Z]
        BY <4>3, <4>4
      <4>6. s \in Seq(Z)
        BY <4>3, <4>5
      <4>. QED  BY <4>6 DEF s, Z
    <3>3. row = [j \in 1 .. width |-> row[j]]
      BY <3>1, LenProperties
    <3>. HIDE DEF Y
    <3>4. row \in [1 .. width -> Y]
      BY <3>2, <3>3
    <3>5. row \in Seq(Y)
      BY <2>1, <3>4
    <3>6. row # <<>>
      BY <2>1, <3>1, EmptySeq
    <3>. QED  BY <3>5, <3>6 DEF KeyRows, Y
  <2>5. keys \in Seq(KeyRows)
    <3>. HIDE DEF X, T, keys
    <3>. QED  BY <2>3, <2>4
  <2>6. ParseGroupBy(GroupBody(keys, R)) = keys
    <3>. HIDE DEF keys
    <3>. QED  BY <2>5, KeysArrive
  <2>. QED  BY <2>6 DEF GroupsReadBack
<1>2. Spec => []GroupsReadBack
  BY <1>1, AlwaysAsWritten, PTL
<1>3. AskSpec => []GroupsReadBack
  BY <1>1, AlwaysAsWrittenAsked, PTL
<1>. QED  BY <1>2, <1>3

-----------------------------------------------------------------------------
(* The lists in the answers.                                               *)

\* The answer of the latest call is the body of its list.
Answered ==
  call # None /\ call.method \in DOMAIN Shape =>
    result \in Lists[Shape[call.method]] /\ body = Body(Shape[call.method], result)

\* Lists come back row by row: empty ones, the -1 of an outer join, the cursor of
\* a LOG without events, a value with "=" in it.
THEOREM CommandsListsReadBack == AskSpec => []ListsReadBack
<1>1. AskInit => Answered
  BY DEF AskInit, Answered
<1>2. Answered /\ [AskNext]_all => Answered'
  <2>. SUFFICES ASSUME Answered, [AskNext]_all PROVE Answered'
    OBVIOUS
  <2>1. CASE call' = None
    BY <2>1 DEF Answered
  <2>2. ASSUME NEW l \in Langs, NEW c \in Calls, Ask(l, c) PROVE Answered'
    <3>1. /\ call' = c
          /\ c.method \in DOMAIN Shape =>
               result' \in Lists[Shape[c.method]] /\ body' = Body(Shape[c.method], result')
      BY <2>2 DEF Ask
    <3>. QED  BY <3>1 DEF Answered
  <2>3. CASE UNCHANGED all
    BY <2>3 DEF Answered, all
  <2>. QED  BY <2>1, <2>2, <2>3 DEF AskNext
<1>3. Answered => ListsReadBack
  <2>. SUFFICES ASSUME Answered, call # None, call.method \in DOMAIN Shape
                PROVE  Parse(Shape[call.method], body) = result
    BY DEF ListsReadBack
  <2>1. result \in Lists[Shape[call.method]] /\ body = Body(Shape[call.method], result)
    BY DEF Answered
  <2>2. Parse(Shape[call.method], Body(Shape[call.method], result)) = result
    BY <2>1, ListsParse
  <2>. QED  BY <2>1, <2>2
<1>. QED  BY <1>1, <1>2, <1>3, PTL DEF AskSpec
=============================================================================
