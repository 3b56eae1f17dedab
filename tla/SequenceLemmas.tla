--------------------------- MODULE SequenceLemmas ---------------------------
(***************************************************************************)
(* Facts about sequences that the proofs of several components need: that  *)
(* a function defined by recursion along a sequence exists, and how the    *)
(* elements kept of a sequence change as it grows and shrinks.             *)
(*                                                                         *)
(* The library's induction theorem takes a predicate as its parameter; the *)
(* same is said here of a set of naturals.                                 *)
(***************************************************************************)
EXTENDS Filter, SequenceTheorems, WellFoundedInduction, TLAPS

\* A set of naturals that holds 0 and the successor of each of its members
\* holds them all.
LEMMA SetInduction ==
  ASSUME NEW T, 0 \in T, \A n \in Nat : n \in T => n + 1 \in T
  PROVE  Nat \subseteq T
<1>. DEFINE R == {ss \in Nat \X Nat : ss[1] < ss[2]}
            U == Nat \ T
<1>1. IsWellFoundedOn(R, Nat)
  BY NatLessThanWellFounded, Zenon DEF OpToRel
<1>2. \A x, y \in Nat : <<x, y>> \in R <=> x < y
  OBVIOUS
<1>. HIDE DEF R
<1>3. SUFFICES ASSUME U # {} PROVE FALSE
  OBVIOUS
<1>4. \E x \in U : \A y \in U : ~ (<<y, x>> \in R)
  BY <1>1, <1>3, WFMin
<1>5. PICK x \in U : \A y \in U : ~ (y < x)
  BY <1>2, <1>4
<1>6. x # 0 /\ x - 1 \in Nat /\ x - 1 \in T
  BY <1>5
<1>. QED  BY <1>5, <1>6

\* f starts at x and makes at every place i the step of i.
Run(f, n, X, x, step) ==
  f \in [0 .. n -> X] /\ f[0] = x /\ \A i \in 1 .. n : f[i] = step[i][f[i - 1]]

\* Whatever the steps make of the value before them, there is such a function.
LEMMA Recursion ==
  ASSUME NEW n \in Nat, NEW X, NEW x \in X, NEW step \in [1 .. n -> [X -> X]]
  PROVE  \E f : Run(f, n, X, x, step)
<1>. DEFINE Good(g, m) == g \in [0 .. m -> X] /\ g[0] = x /\ \A i \in 1 .. m : g[i] = step[i][g[i - 1]]
            T == {m \in Nat : m <= n => \E g : Good(g, m)}
<1>1. 0 \in T
  <2>1. Good([i \in 0 .. 0 |-> x], 0)
    OBVIOUS
  <2>. QED  BY <2>1
<1>2. ASSUME NEW m \in Nat, m \in T PROVE m + 1 \in T
  <2>. SUFFICES ASSUME m + 1 <= n PROVE \E g : Good(g, m + 1)
    <3>. HIDE DEF Good
    <3>. QED  BY <1>2
  <2>1. PICK g : Good(g, m)
    <3>1. m <= n
      OBVIOUS
    <3>. HIDE DEF Good
    <3>. QED  BY <1>2, <3>1
  <2>. DEFINE h == [i \in 0 .. m + 1 |-> IF i = m + 1 THEN step[m + 1][g[m]] ELSE g[i]]
  <2>2. step[m + 1][g[m]] \in X
    <3>1. g[m] \in X /\ m + 1 \in 1 .. n
      BY <2>1
    <3>. QED  BY <3>1
  <2>3. h \in [0 .. m + 1 -> X] /\ h[0] = x
    <3>1. \A i \in 0 .. m + 1 : i # m + 1 => i \in 0 .. m
      OBVIOUS
    <3>2. \A i \in 0 .. m + 1 : h[i] \in X
      BY <2>1, <2>2, <3>1
    <3>. QED  BY <2>1, <3>2
  <2>4. \A i \in 1 .. m + 1 : h[i] = step[i][h[i - 1]]
    <3>1. h[m + 1] = step[m + 1][h[(m + 1) - 1]]
      <4>1. (m + 1) - 1 = m /\ m \in 0 .. m + 1 /\ m # m + 1 /\ m + 1 \in 0 .. m + 1
        OBVIOUS
      <4>2. h[m] = g[m] /\ h[m + 1] = step[m + 1][g[m]]
        BY <4>1
      <4>. QED  BY <4>1, <4>2
    <3>2. ASSUME NEW i \in 1 .. m PROVE h[i] = step[i][h[i - 1]]
      <4>1. i \in 0 .. m + 1 /\ i # m + 1 /\ i - 1 \in 0 .. m + 1 /\ i - 1 # m + 1
        OBVIOUS
      <4>2. h[i] = g[i] /\ h[i - 1] = g[i - 1]
        BY <4>1
      <4>. QED  BY <2>1, <4>2
    <3>3. \A i \in 1 .. m + 1 : i = m + 1 \/ i \in 1 .. m
      OBVIOUS
    <3>. HIDE DEF h
    <3>. QED  BY <3>1, <3>2, <3>3
  <2>. HIDE DEF h
  <2>. QED  BY <2>3, <2>4
<1>3. n \in T
  <2>. HIDE DEF T
  <2>1. Nat \subseteq T
    BY <1>1, <1>2, SetInduction
  <2>. QED  BY <2>1
<1>4. \E g : Good(g, n)
  <2>. HIDE DEF Good
  <2>. QED  BY <1>3
<1>. QED  BY <1>4 DEF Run

-----------------------------------------------------------------------------
(* The elements of s that belong to T.                                     *)

\* What Kept is the last value of.
KeptUpTo(s, T) ==
  CHOOSE f : f = [i \in 0 .. Len(s) |->
                    IF i = 0 THEN <<>>
                    ELSE IF s[i] \in T THEN Append(f[i - 1], s[i]) ELSE f[i - 1]]

KeptRun(f, s, S, T) ==
  /\ f \in [0 .. Len(s) -> Seq(S)] /\ f[0] = <<>>
  /\ \A i \in 1 .. Len(s) : f[i] = IF s[i] \in T THEN Append(f[i - 1], s[i]) ELSE f[i - 1]

\* Kept has the value its recursion describes.
LEMMA KeptDef ==
  ASSUME NEW S, NEW s \in Seq(S), NEW T
  PROVE  Kept(s, T) = KeptUpTo(s, T)[Len(s)] /\ KeptRun(KeptUpTo(s, T), s, S, T)
<1>. DEFINE n == Len(s)
            X == Seq(S)
            step == [i \in 1 .. n |-> [x \in X |-> IF s[i] \in T THEN Append(x, s[i]) ELSE x]]
            k == KeptUpTo(s, T)
<1>1. n \in Nat /\ \A i \in 1 .. n : s[i] \in S
  BY LenProperties, ElementOfSeq
<1>2. \A x \in X, i \in 1 .. n : step[i][x] = IF s[i] \in T THEN Append(x, s[i]) ELSE x
  OBVIOUS
<1>3. \A x \in X, i \in 1 .. n : step[i][x] \in X
  BY <1>1, <1>2, AppendProperties
<1>4. step \in [1 .. n -> [X -> X]] /\ <<>> \in X
  BY <1>3
<1>. HIDE DEF n, X, step
<1>5. PICK f \in [0 .. n -> X] : f[0] = <<>> /\ \A i \in 1 .. n : f[i] = step[i][f[i - 1]]
  <2>. DEFINE e == <<>>
  <2>1. n \in Nat /\ e \in X /\ step \in [1 .. n -> [X -> X]]
    BY <1>1, <1>4
  <2>. HIDE DEF e
  <2>2. \E f : Run(f, n, X, e, step)
    BY <2>1, Recursion
  <2>. QED  BY <2>2 DEF Run, e
<1>6. \A i \in 1 .. n : f[i - 1] \in X /\ f[i] = IF s[i] \in T THEN Append(f[i - 1], s[i]) ELSE f[i - 1]
  <2>1. \A i \in 1 .. n : i - 1 \in 0 .. n
    BY <1>1
  <2>. QED  BY <1>2, <1>5, <2>1
<1>7. f = [i \in 0 .. n |-> IF i = 0 THEN <<>>
                            ELSE IF s[i] \in T THEN Append(f[i - 1], s[i]) ELSE f[i - 1]]
  <2>1. \A i \in 0 .. n : i = 0 \/ i \in 1 .. n
    BY <1>1
  <2>. QED  BY <1>5, <1>6, <2>1
<1>8. k = [i \in 0 .. n |-> IF i = 0 THEN <<>>
                            ELSE IF s[i] \in T THEN Append(k[i - 1], s[i]) ELSE k[i - 1]]
  BY <1>7 DEF KeptUpTo, n
<1>. HIDE DEF k
<1>9. /\ DOMAIN k = 0 .. n /\ k[0] = <<>>
      /\ \A i \in 1 .. n : k[i] = IF s[i] \in T THEN Append(k[i - 1], s[i]) ELSE k[i - 1]
  <2>1. DOMAIN k = 0 .. n
    BY <1>8
  <2>2. \A i \in 0 .. n : k[i] = IF i = 0 THEN <<>>
                                ELSE IF s[i] \in T THEN Append(k[i - 1], s[i]) ELSE k[i - 1]
    BY <1>8
  <2>3. 0 \in 0 .. n /\ \A i \in 1 .. n : i \in 0 .. n /\ i # 0
    BY <1>1
  <2>. QED  BY <2>1, <2>2, <2>3
<1>10. \A i \in 0 .. n : k[i] \in X
  <2>. DEFINE U == {m \in Nat : m <= n => k[m] \in X}
  <2>1. 0 \in U
    BY <1>4, <1>9
  <2>2. ASSUME NEW m \in Nat, m \in U PROVE m + 1 \in U
    <3>. SUFFICES ASSUME m + 1 <= n PROVE k[m + 1] \in X
      OBVIOUS
    <3>1. (m + 1) - 1 = m /\ m + 1 \in 1 .. n /\ k[m] \in X
      BY <1>1, <2>2
    <3>2. s[m + 1] \in S
      BY <1>1, <3>1
    <3>3. Append(k[m], s[m + 1]) \in X
      BY <3>1, <3>2, AppendProperties DEF X
    <3>. QED  BY <1>9, <3>1, <3>3
  <2>. HIDE DEF U
  <2>3. Nat \subseteq U
    BY <2>1, <2>2, SetInduction
  <2>. QED  BY <1>1, <2>3 DEF U
<1>11. Kept(s, T) = k[n]
  BY DEF Kept, KeptUpTo, k, n
<1>12. k \in [0 .. n -> X]
  BY <1>8, <1>9, <1>10
<1>. QED  BY <1>9, <1>11, <1>12 DEF KeptRun, k, n, X

\* Nothing is kept of nothing.
LEMMA KeptEmpty == ASSUME NEW T PROVE Kept(<<>>, T) = <<>>
<1>. SUFFICES ASSUME NEW s, s = <<>> PROVE Kept(s, T) = <<>>
  OBVIOUS
<1>1. s \in Seq({}) /\ Len(s) = 0
  OBVIOUS
<1>2. Kept(s, T) = KeptUpTo(s, T)[Len(s)] /\ KeptRun(KeptUpTo(s, T), s, {}, T)
  BY ONLY <1>1, KeptDef
<1>. QED  BY <1>1, <1>2 DEF KeptRun

\* What is kept are elements of the sequence.
LEMMA KeptType ==
  ASSUME NEW S, NEW s \in Seq(S), NEW T
  PROVE  Kept(s, T) \in Seq(S)
<1>1. Len(s) \in 0 .. Len(s)
  BY LenProperties
<1>. QED  BY <1>1, KeptDef DEF KeptRun

\* One element more is kept or not.
LEMMA KeptAppend ==
  ASSUME NEW S, NEW s \in Seq(S), NEW x \in S, NEW T
  PROVE  Kept(Append(s, x), T) = IF x \in T THEN Append(Kept(s, T), x) ELSE Kept(s, T)
<1>. DEFINE t == Append(s, x)
            n == Len(s)
            f == KeptUpTo(s, T)
            g == KeptUpTo(t, T)
<1>1. /\ n \in Nat /\ t \in Seq(S) /\ Len(t) = n + 1 /\ t[n + 1] = x
      /\ \A i \in 1 .. n : t[i] = s[i]
  BY AppendProperties, LenProperties
<1>2. /\ Kept(s, T) = f[n] /\ f[0] = <<>>
      /\ \A i \in 1 .. n : f[i] = IF s[i] \in T THEN Append(f[i - 1], s[i]) ELSE f[i - 1]
  BY KeptDef DEF KeptRun
<1>3. /\ Kept(t, T) = g[n + 1] /\ g[0] = <<>>
      /\ \A i \in 1 .. n + 1 : g[i] = IF t[i] \in T THEN Append(g[i - 1], t[i]) ELSE g[i - 1]
  <2>. HIDE DEF t
  <2>1. Kept(t, T) = g[Len(t)] /\ KeptRun(g, t, S, T)
    BY <1>1, KeptDef
  <2>. HIDE DEF g
  <2>. QED  BY <1>1, <2>1 DEF KeptRun
<1>. HIDE DEF t, n, f, g
<1>4. g[n] = f[n]
  <2>. DEFINE U == {m \in Nat : m <= n => g[m] = f[m]}
  <2>1. 0 \in U
    BY <1>2, <1>3
  <2>2. ASSUME NEW m \in Nat, m \in U PROVE m + 1 \in U
    <3>. SUFFICES ASSUME m + 1 <= n PROVE g[m + 1] = f[m + 1]
      OBVIOUS
    <3>1. (m + 1) - 1 = m /\ m + 1 \in 1 .. n /\ m + 1 \in 1 .. n + 1 /\ g[m] = f[m]
      BY <1>1, <2>2
    <3>2. t[m + 1] = s[m + 1]
      BY <1>1, <3>1
    <3>. QED  BY <1>2, <1>3, <3>1, <3>2
  <2>. HIDE DEF U
  <2>3. Nat \subseteq U
    BY <2>1, <2>2, SetInduction
  <2>. QED  BY <1>1, <2>3 DEF U
<1>5. (n + 1) - 1 = n /\ n + 1 \in 1 .. n + 1
  BY <1>1
<1>6. g[n + 1] = IF x \in T THEN Append(f[n], x) ELSE f[n]
  BY <1>1, <1>3, <1>4, <1>5
<1>. QED  BY <1>2, <1>3, <1>6 DEF t

\* A sequence that is not empty is its front and its last element.
LEMMA FrontLast ==
  ASSUME NEW S, NEW s \in Seq(S), NEW m \in Nat, Len(s) = m + 1
  PROVE  \E t \in Seq(S), x \in S : s = Append(t, x) /\ Len(t) = m
<1>. DEFINE t == SubSeq(s, 1, m)
            x == s[m + 1]
<1>1. t \in Seq(S) /\ Len(t) = m /\ \A i \in 1 .. m : t[i] = s[i]
  BY SubSeqProperties, ElementOfSeq
<1>2. x \in S
  BY ElementOfSeq
<1>. HIDE DEF t, x
<1>3. /\ Append(t, x) \in Seq(S) /\ Len(Append(t, x)) = m + 1 /\ Append(t, x)[m + 1] = x
      /\ \A i \in 1 .. m : Append(t, x)[i] = t[i]
  BY <1>1, <1>2, AppendProperties
<1>4. \A i \in 1 .. m + 1 : i = m + 1 \/ i \in 1 .. m
  OBVIOUS
<1>5. \A i \in 1 .. m + 1 : Append(t, x)[i] = s[i]
  BY <1>1, <1>3, <1>4 DEF x
<1>6. s = Append(t, x)
  BY <1>3, <1>5, SeqEqual
<1>. QED  BY <1>1, <1>2, <1>6

\* What is kept of two sequences, one after the other.
LEMMA KeptConcat ==
  ASSUME NEW S, NEW s \in Seq(S), NEW T
  PROVE  \A t \in Seq(S) : Kept(s \o t, T) = Kept(s, T) \o Kept(t, T)
<1>. DEFINE U == {m \in Nat : \A t \in Seq(S) : Len(t) = m => Kept(s \o t, T) = Kept(s, T) \o Kept(t, T)}
<1>1. Kept(s, T) \in Seq(S)
  BY KeptType
<1>2. 0 \in U
  <2>. SUFFICES ASSUME NEW t \in Seq(S), Len(t) = 0 PROVE Kept(s \o t, T) = Kept(s, T) \o Kept(t, T)
    OBVIOUS
  <2>1. t = <<>>
    BY EmptySeq
  <2>2. s \o <<>> = s /\ Kept(s, T) \o <<>> = Kept(s, T)
    BY <1>1, ConcatEmptySeq
  <2>. QED  BY <2>1, <2>2, KeptEmpty
<1>3. ASSUME NEW m \in Nat, m \in U PROVE m + 1 \in U
  <2>. SUFFICES ASSUME NEW t \in Seq(S), Len(t) = m + 1
                PROVE  Kept(s \o t, T) = Kept(s, T) \o Kept(t, T)
    OBVIOUS
  <2>1. PICK u \in Seq(S), x \in S : t = Append(u, x) /\ Len(u) = m
    BY FrontLast
  <2>2. Kept(s \o u, T) = Kept(s, T) \o Kept(u, T)
    BY <1>3, <2>1
  <2>3. s \o t = Append(s \o u, x) /\ s \o u \in Seq(S)
    BY <2>1, ConcatProperties, AppendIsConcat, ConcatAssociative
  <2>4. Kept(s \o t, T) = IF x \in T THEN Append(Kept(s \o u, T), x) ELSE Kept(s \o u, T)
    <3>. DEFINE v == s \o u
    <3>1. v \in Seq(S) /\ s \o t = Append(v, x)
      BY <2>3
    <3>. HIDE DEF v
    <3>2. Kept(Append(v, x), T) = IF x \in T THEN Append(Kept(v, T), x) ELSE Kept(v, T)
      BY <3>1, KeptAppend
    <3>. QED  BY <3>1, <3>2 DEF v
  <2>5. Kept(t, T) = IF x \in T THEN Append(Kept(u, T), x) ELSE Kept(u, T)
    BY <2>1, KeptAppend
  <2>6. Kept(u, T) \in Seq(S)
    BY KeptType
  <2>7. Append(Kept(s, T) \o Kept(u, T), x) = Kept(s, T) \o Append(Kept(u, T), x)
    <3>. DEFINE a == Kept(s, T)
                b == Kept(u, T)
    <3>1. a \in Seq(S) /\ b \in Seq(S) /\ <<x>> \in Seq(S)
      BY <1>1, <2>6
    <3>. HIDE DEF a, b
    <3>2. a \o b \in Seq(S) /\ (a \o b) \o <<x>> = a \o (b \o <<x>>)
      BY <3>1, ConcatProperties, ConcatAssociative, SMTT(30)
    <3>3. Append(a \o b, x) = (a \o b) \o <<x>> /\ Append(b, x) = b \o <<x>>
      BY <3>1, <3>2, AppendIsConcat
    <3>. QED  BY <3>2, <3>3 DEF a, b
  <2>. QED  BY <2>2, <2>4, <2>5, <2>7
<1>. HIDE DEF U
<1>4. Nat \subseteq U
  BY <1>2, <1>3, SetInduction
<1>. QED  BY <1>4, LenProperties DEF U

\* The one element of a sequence is kept or not.
LEMMA KeptOne ==
  ASSUME NEW S, NEW x \in S, NEW T
  PROVE  Kept(<<x>>, T) = IF x \in T THEN <<x>> ELSE <<>>
<1>1. <<>> \in Seq(S) /\ Append(<<>>, x) = <<x>>
  OBVIOUS
<1>2. \A e \in Seq(S) : Kept(Append(e, x), T) = IF x \in T THEN Append(Kept(e, T), x) ELSE Kept(e, T)
  BY KeptAppend
<1>. QED  BY <1>1, <1>2, KeptEmpty

\* If none of the elements is to be kept, none is.
LEMMA KeptNone ==
  ASSUME NEW S, NEW s \in Seq(S), NEW T, \A i \in 1 .. Len(s) : s[i] \notin T
  PROVE  Kept(s, T) = <<>>
<1>. DEFINE n == Len(s)
            f == KeptUpTo(s, T)
            e == <<>>
            U == {m \in Nat : m <= n => f[m] = e}
<1>1. /\ Kept(s, T) = f[n] /\ f[0] = e /\ n \in Nat
      /\ \A i \in 1 .. n : f[i] = IF s[i] \in T THEN Append(f[i - 1], s[i]) ELSE f[i - 1]
  BY KeptDef, LenProperties DEF KeptRun
<1>. HIDE DEF f, e
<1>2. 0 \in U
  BY <1>1
<1>3. ASSUME NEW m \in Nat, m \in U PROVE m + 1 \in U
  <2>. SUFFICES ASSUME m + 1 <= n PROVE f[m + 1] = e
    OBVIOUS
  <2>1. (m + 1) - 1 = m /\ m + 1 \in 1 .. n /\ f[m] = e
    BY <1>1, <1>3
  <2>. QED  BY <1>1, <2>1
<1>. HIDE DEF U
<1>4. Nat \subseteq U
  BY <1>2, <1>3, SetInduction
<1>. QED  BY <1>1, <1>4 DEF U, e

-----------------------------------------------------------------------------
(* Taking a sequence apart.                                                *)

\* A sequence that is not empty is its head and its tail.
LEMMA HeadThenTail ==
  ASSUME NEW S, NEW s \in Seq(S), s # <<>>
  PROVE  <<Head(s)>> \o Tail(s) = s
<1>1. /\ Head(s) \in S /\ Tail(s) \in Seq(S) /\ Len(s) \in Nat \ {0} /\ Len(Tail(s)) = Len(s) - 1
      /\ Head(s) = s[1] /\ \A i \in 1 .. Len(Tail(s)) : Tail(s)[i] = s[i + 1]
  BY HeadTailProperties, LenProperties
<1>. DEFINE h == <<Head(s)>>
            t == Tail(s)
<1>2. h \in Seq(S) /\ t \in Seq(S) /\ Len(h) = 1 /\ h[1] = s[1]
  BY <1>1
<1>. HIDE DEF h, t
<1>3. /\ h \o t \in Seq(S) /\ Len(h \o t) = Len(s)
      /\ \A i \in 1 .. Len(s) : (h \o t)[i] = IF i <= 1 THEN h[i] ELSE t[i - 1]
  <2>1. Len(t) = Len(s) - 1 /\ Len(h) + Len(t) = Len(s)
    BY <1>1, <1>2 DEF t
  <2>2. /\ h \o t \in Seq(S) /\ Len(h \o t) = Len(h) + Len(t)
        /\ \A i \in 1 .. Len(h) + Len(t) : (h \o t)[i] = IF i <= Len(h) THEN h[i] ELSE t[i - Len(h)]
    BY ONLY <1>2, ConcatProperties
  <2>. QED  BY <1>2, <2>1, <2>2
<1>4. \A i \in 1 .. Len(s) : (h \o t)[i] = s[i]
  <2>1. \A i \in 1 .. Len(s) : i = 1 \/ (i - 1 \in 1 .. Len(t) /\ (i - 1) + 1 = i)
    BY <1>1 DEF t
  <2>. QED  BY <1>1, <1>2, <1>3, <2>1 DEF t
<1>. QED  BY <1>3, <1>4, SeqEqual DEF h, t

\* The head of one sequence moves to the end of another before it.
LEMMA MoveHead ==
  ASSUME NEW S, NEW a \in Seq(S), NEW s \in Seq(S), s # <<>>
  PROVE  Append(a, Head(s)) \o Tail(s) = a \o s
<1>. DEFINE h == <<Head(s)>>
            t == Tail(s)
<1>1. Head(s) \in S /\ h \in Seq(S) /\ t \in Seq(S) /\ h \o t = s
  BY HeadTailProperties, HeadThenTail
<1>2. Append(a, Head(s)) = a \o h
  BY <1>1, AppendIsConcat
<1>. HIDE DEF h, t
<1>3. (a \o h) \o t = a \o (h \o t)
  <2>1. \A x, y, z \in Seq(S) : (x \o y) \o z = x \o (y \o z)
    BY ConcatAssociative, SMTT(30)
  <2>. QED  BY <1>1, <2>1
<1>. QED  BY <1>1, <1>2, <1>3 DEF t

\* A sequence is what is before a place and what is after it.
LEMMA Cut ==
  ASSUME NEW S, NEW s \in Seq(S), NEW k \in 0 .. Len(s)
  PROVE  /\ SubSeq(s, 1, k) \in Seq(S) /\ Len(SubSeq(s, 1, k)) = k
         /\ \A i \in 1 .. k : SubSeq(s, 1, k)[i] = s[i]
         /\ SubSeq(s, k + 1, Len(s)) \in Seq(S)
         /\ SubSeq(s, 1, k) \o SubSeq(s, k + 1, Len(s)) = s
<1>1. Len(s) \in Nat /\ k \in Nat /\ k <= Len(s) /\ \A i \in 1 .. Len(s) : s[i] \in S
  BY LenProperties, ElementOfSeq
<1>2. /\ SubSeq(s, 1, k) \in Seq(S) /\ Len(SubSeq(s, 1, k)) = k
      /\ \A i \in 1 .. k : SubSeq(s, 1, k)[i] = s[i]
  BY <1>1, SubSeqProperties
<1>3. SubSeq(s, k + 1, Len(s)) \in Seq(S)
  BY <1>1, SubSeqProperties
<1>4. SubSeq(s, 1, k) \o SubSeq(s, k + 1, Len(s)) = SubSeq(s, 1, Len(s))
  <2>1. 1 \in 1 .. Len(s) + 1 /\ k \in 1 - 1 .. Len(s) /\ Len(s) \in k .. Len(s)
    BY <1>1
  <2>. QED  BY ONLY s \in Seq(S), <2>1, ConcatAdjacentSubSeq
<1>5. SubSeq(s, 1, Len(s)) = s
  BY SubSeqFull
<1>. QED  BY <1>2, <1>3, <1>4, <1>5
-----------------------------------------------------------------------------
(* The sequences g[1] .. g[n], one after the other.                        *)

JoinedUp(f, g, n, S) ==
  /\ f \in [0 .. n -> Seq(S)] /\ f[0] = <<>>
  /\ \A i \in 1 .. n : g[i] \in Seq(S) /\ f[i] = f[i - 1] \o g[i]

\* There is a function that joins the first i of them for each i.
LEMMA JoinExists ==
  ASSUME NEW S, NEW n \in Nat, NEW g \in [1 .. n -> Seq(S)]
  PROVE  \E f : f = [i \in 0 .. n |-> IF i = 0 THEN <<>> ELSE f[i - 1] \o g[i]]
<1>. DEFINE X == Seq(S)
            e == <<>>
            step == [i \in 1 .. n |-> [x \in X |-> x \o g[i]]]
<1>1. \A x \in X, i \in 1 .. n : step[i][x] = x \o g[i]
  OBVIOUS
<1>2. \A x \in X, i \in 1 .. n : x \o g[i] \in X
  BY ConcatProperties
<1>3. step \in [1 .. n -> [X -> X]] /\ e \in X
  BY <1>2
<1>. HIDE DEF X, e, step
<1>4. PICK f : Run(f, n, X, e, step)
  BY <1>3, Recursion
<1>5. f \in [0 .. n -> X] /\ f[0] = e /\ \A i \in 1 .. n : f[i] = step[i][f[i - 1]]
  BY <1>4 DEF Run
<1>6. \A i \in 1 .. n : f[i - 1] \in X /\ f[i] = f[i - 1] \o g[i]
  <2>1. \A i \in 1 .. n : i - 1 \in 0 .. n
    OBVIOUS
  <2>. QED  BY <1>1, <1>5, <2>1
<1>7. f = [i \in 0 .. n |-> IF i = 0 THEN e ELSE f[i - 1] \o g[i]]
  <2>1. \A i \in 0 .. n : i = 0 \/ i \in 1 .. n
    OBVIOUS
  <2>. QED  BY <1>5, <1>6, <2>1
<1>. QED  BY <1>7 DEF e

\* It is the one that is defined by the recursion.
LEMMA JoinDef ==
  ASSUME NEW S, NEW n \in Nat, NEW g \in [1 .. n -> Seq(S)], NEW k,
         k = [i \in 0 .. n |-> IF i = 0 THEN <<>> ELSE k[i - 1] \o g[i]]
  PROVE  JoinedUp(k, g, n, S)
<1>. DEFINE e == <<>>
            X == Seq(S)
<1>1. /\ DOMAIN k = 0 .. n /\ k[0] = e
      /\ \A i \in 1 .. n : k[i] = k[i - 1] \o g[i]
  <2>1. \A i \in 0 .. n : k[i] = IF i = 0 THEN e ELSE k[i - 1] \o g[i]
    OBVIOUS
  <2>2. 0 \in 0 .. n /\ \A i \in 1 .. n : i \in 0 .. n /\ i # 0
    OBVIOUS
  <2>3. DOMAIN k = 0 .. n
    OBVIOUS
  <2>. QED  BY <2>1, <2>2, <2>3
<1>2. e \in X /\ \A i \in 1 .. n : g[i] \in X
  OBVIOUS
<1>3. \A x, y \in X : x \o y \in X
  BY ConcatProperties
<1>. HIDE DEF e, X
<1>4. \A i \in 0 .. n : k[i] \in X
  <2>. DEFINE U == {m \in Nat : m <= n => k[m] \in X}
  <2>1. 0 \in U
    BY <1>1, <1>2
  <2>2. ASSUME NEW m \in Nat, m \in U PROVE m + 1 \in U
    <3>. SUFFICES ASSUME m + 1 <= n PROVE k[m + 1] \in X
      OBVIOUS
    <3>1. (m + 1) - 1 = m /\ m + 1 \in 1 .. n /\ k[m] \in X
      BY <2>2
    <3>2. g[m + 1] \in X
      BY <1>2, <3>1
    <3>3. k[m] \o g[m + 1] \in X
      BY <1>3, <3>1, <3>2
    <3>. QED  BY <1>1, <3>1, <3>3
  <2>. HIDE DEF U
  <2>3. Nat \subseteq U
    BY <2>1, <2>2, SetInduction
  <2>4. \A i \in 0 .. n : i \in Nat /\ i <= n
    OBVIOUS
  <2>5. \A i \in U : i <= n => k[i] \in X
    BY DEF U
  <2>. QED  BY <2>3, <2>4, <2>5
<1>5. k = [i \in 0 .. n |-> k[i]]
  OBVIOUS
<1>6. k \in [0 .. n -> X]
  BY <1>4, <1>5
<1>. QED  BY <1>1, <1>2, <1>6 DEF JoinedUp, e, X

\* d are the sequences g, but for w behind the last that is not empty.
Lengthened(g, d, n, c, w) ==
  /\ c \in 1 .. n /\ d[c] = g[c] \o w
  /\ \A i \in 1 .. n : /\ i < c => d[i] = g[i]
                       /\ i > c => Len(d[i]) = 0 /\ Len(g[i]) = 0

\* Then w is behind all of them.
LEMMA JoinLonger ==
  ASSUME NEW S, NEW n \in Nat, NEW f, NEW g, NEW h, NEW d, NEW c, NEW w \in Seq(S),
         JoinedUp(f, g, n, S), JoinedUp(h, d, n, S), Lengthened(g, d, n, c, w)
  PROVE  h[n] = f[n] \o w
<1>. DEFINE e == <<>>
            X == Seq(S)
<1>5. /\ c \in 1 .. n /\ d[c] = g[c] \o w
      /\ \A i \in 1 .. n : /\ i < c => d[i] = g[i]
                           /\ i > c => Len(d[i]) = 0 /\ Len(g[i]) = 0
  BY DEF Lengthened
<1>1. /\ \A i \in 0 .. n : f[i] \in X /\ h[i] \in X
      /\ f[0] = e /\ h[0] = e
      /\ \A i \in 1 .. n : g[i] \in X /\ d[i] \in X /\ f[i] = f[i - 1] \o g[i] /\ h[i] = h[i - 1] \o d[i]
  BY DEF JoinedUp
<1>2. \A x, y, z \in X : (x \o y) \o z = x \o (y \o z)
  BY ConcatAssociative, SMTT(30)
<1>4. \A x \in X : x \o e = x /\ (Len(x) = 0 => x = e)
  BY ConcatEmptySeq, EmptySeq
<1>. HIDE DEF e, X
<1>3. \A i \in 0 .. n : IF i < c THEN h[i] = f[i] ELSE h[i] = f[i] \o w
  <2>. DEFINE Holds(i) == IF i < c THEN h[i] = f[i] ELSE h[i] = f[i] \o w
              U == {m \in Nat : m <= n => Holds(m)}
  <2>1. 0 \in U
    BY <1>1, <1>5
  <2>2. ASSUME NEW m \in Nat, m \in U PROVE m + 1 \in U
    <3>. SUFFICES ASSUME m + 1 <= n PROVE Holds(m + 1)
      OBVIOUS
    <3>1. (m + 1) - 1 = m /\ m + 1 \in 1 .. n /\ m \in 0 .. n /\ Holds(m)
      BY <2>2
    <3>2. /\ f[m + 1] = f[m] \o g[m + 1] /\ h[m + 1] = h[m] \o d[m + 1]
          /\ f[m] \in X /\ h[m] \in X /\ g[m + 1] \in X /\ d[m + 1] \in X /\ w \in X
      BY <1>1, <3>1 DEF X
    <3>3. CASE m + 1 < c
      <4>1. d[m + 1] = g[m + 1] /\ h[m] = f[m]
        BY <1>5, <3>1, <3>3
      <4>. QED  BY <3>2, <3>3, <4>1
    <3>4. CASE m + 1 = c
      <4>1. d[m + 1] = g[m + 1] \o w
        BY <1>5, <3>4
      <4>2. h[m] = f[m]
        BY <1>5, <3>1, <3>4
      <4>3. \A x, y \in X : (x \o y) \o w = x \o (y \o w)
        BY <1>2, <3>2, ZenonT(60)
      <4>4. (f[m] \o g[m + 1]) \o w = f[m] \o (g[m + 1] \o w)
        BY <3>2, <4>3
      <4>5. h[m + 1] = f[m + 1] \o w
        BY ONLY <3>2, <4>1, <4>2, <4>4
      <4>. QED  BY <3>4, <4>5
    <3>5. CASE m + 1 > c
      <4>1. g[m + 1] = e /\ d[m + 1] = e
        BY <1>4, <1>5, <3>1, <3>2, <3>5
      <4>2. f[m + 1] = f[m] /\ h[m + 1] = h[m]
        BY <1>4, <3>2, <4>1
      <4>. QED  BY <1>5, <3>1, <3>5, <4>2
    <3>. QED  BY <1>5, <3>3, <3>4, <3>5
  <2>. HIDE DEF U
  <2>3. Nat \subseteq U
    BY <2>1, <2>2, SetInduction
  <2>. QED  BY <2>3 DEF U
<1>. QED  BY <1>3, <1>5

\* If all of them are empty, so are all of them together.
LEMMA JoinNone ==
  ASSUME NEW S, NEW n \in Nat, NEW f, NEW g, JoinedUp(f, g, n, S), \A i \in 1 .. n : Len(g[i]) = 0
  PROVE  f[n] = <<>>
<1>. DEFINE e == <<>>
            X == Seq(S)
            U == {m \in Nat : m <= n => f[m] = e}
<1>1. /\ f[0] = e /\ e \in X
      /\ \A i \in 1 .. n : g[i] \in X /\ f[i] = f[i - 1] \o g[i]
  <2>1. e \in X
    OBVIOUS
  <2>. HIDE DEF e
  <2>. QED  BY <2>1 DEF JoinedUp, e
<1>2. \A x \in X : x \o e = x /\ (Len(x) = 0 => x = e)
  BY ConcatEmptySeq, EmptySeq
<1>. HIDE DEF e, X
<1>3. 0 \in U
  BY <1>1
<1>4. ASSUME NEW m \in Nat, m \in U PROVE m + 1 \in U
  <2>. SUFFICES ASSUME m + 1 <= n PROVE f[m + 1] = e
    OBVIOUS
  <2>1. (m + 1) - 1 = m /\ m + 1 \in 1 .. n /\ f[m] = e
    BY <1>4
  <2>2. g[m + 1] = e /\ f[m + 1] = f[m] \o g[m + 1]
    BY <1>1, <1>2, <2>1
  <2>. QED  BY <1>1, <1>2, <2>1, <2>2
<1>. HIDE DEF U
<1>5. Nat \subseteq U
  BY <1>3, <1>4, SetInduction
<1>. QED  BY <1>5 DEF U, e
=============================================================================
