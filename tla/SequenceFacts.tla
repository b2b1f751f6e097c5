---------------------------- MODULE SequenceFacts ----------------------------
(***************************************************************************)
(* Induction over the natural numbers for a set, functions of 0 .. n that  *)
(* are defined by recursion, what FlattenSeq of the community modules      *)
(* computes, the beginnings of a sequence, the least and the greatest of a *)
(* set of numbers, and sets of one size.                                   *)
(***************************************************************************)
EXTENDS Integers, SequencesExt, FiniteSetsExt, SequenceTheorems, FiniteSetTheorems,
        WellFoundedInduction, TLAPS

\* A set that holds 0, and with n also n + 1, holds every natural number.
LEMMA SetInduction ==
  ASSUME NEW S, 0 \in S, \A n \in Nat : n \in S => n + 1 \in S
  PROVE  Nat \subseteq S
<1> DEFINE R == {p \in Nat \X Nat : p[1] < p[2]}
           T == Nat \ S
<1>1. IsWellFoundedOn(R, Nat)
  BY NatLessThanWellFounded DEF OpToRel
<1> SUFFICES ASSUME T # {} PROVE FALSE
  OBVIOUS
<1>2. PICK x \in T : \A y \in T : ~ (<<y, x>> \in R)
  <2> HIDE DEF R
  <2>1. T \subseteq Nat
    OBVIOUS
  <2> HIDE DEF T
  <2> QED
    BY <1>1, <2>1, WFMin
<1>3. x \in Nat /\ x # 0
  OBVIOUS
<1>4. x - 1 \in T
  BY <1>3
<1>5. <<x - 1, x>> \in R
  BY <1>3
<1> QED
  BY <1>2, <1>4, <1>5

-----------------------------------------------------------------------------
(***************************************************************************)
(* A recursive function of 0 .. n, its steps given as a function G.        *)
(***************************************************************************)

Agree(n, f, g) == f[0] = g[0] /\ \A i \in 1 .. n : f[i - 1] = g[i - 1] => f[i] = g[i]

\* Two functions whose values follow from the values before agree.
LEMMA SameSteps ==
  ASSUME NEW n \in Nat, NEW f, NEW g, Agree(n, f, g)
  PROVE  \A i \in 0 .. n : f[i] = g[i]
<1> USE DEF Agree
<1> DEFINE S == {i \in Nat : i <= n => f[i] = g[i]}
<1>1. 0 \in S
  OBVIOUS
<1>2. ASSUME NEW i \in Nat, i \in S PROVE i + 1 \in S
  <2> SUFFICES ASSUME i + 1 <= n PROVE f[i + 1] = g[i + 1]
    OBVIOUS
  <2>1. i + 1 \in 1 .. n /\ (i + 1) - 1 = i /\ f[i] = g[i]
    BY <1>2
  <2> QED
    BY <2>1
<1>3. Nat \subseteq S
  <2> HIDE DEF S
  <2> QED
    BY <1>1, <1>2, SetInduction
<1> QED
  BY <1>3

Follows(n, a, G, f) == f[0] = a /\ \A i \in 1 .. n : f[i] = G[<<i, f[i - 1]>>]

\* There is a function that begins with a and goes on as G says.
LEMMA StepsExist ==
  ASSUME NEW n \in Nat, NEW S, NEW a \in S, NEW G \in [(1 .. n) \X S -> S]
  PROVE  \E f \in [0 .. n -> S] : Follows(n, a, G, f)
<1> USE DEF Follows
<1> DEFINE Reached(m) ==
             \E f \in [0 .. m -> S] : f[0] = a /\ \A i \in 1 .. m : f[i] = G[<<i, f[i - 1]>>]
           T == {m \in Nat : m <= n => Reached(m)}
<1>1. 0 \in T
  <2> DEFINE f == [i \in 0 .. 0 |-> a]
  <2>1. f \in [0 .. 0 -> S] /\ f[0] = a /\ \A i \in 1 .. 0 : f[i] = G[<<i, f[i - 1]>>]
    OBVIOUS
  <2> HIDE DEF f
  <2> QED
    BY <2>1
<1>2. ASSUME NEW m \in Nat, m \in T PROVE m + 1 \in T
  <2> SUFFICES ASSUME m + 1 <= n PROVE Reached(m + 1)
    OBVIOUS
  <2>1. PICK f \in [0 .. m -> S] : f[0] = a /\ \A i \in 1 .. m : f[i] = G[<<i, f[i - 1]>>]
    BY <1>2
  <2> DEFINE w == G[<<m + 1, f[m]>>]
             g == [i \in 0 .. m + 1 |-> IF i = m + 1 THEN w ELSE f[i]]
  <2>2. w \in S
    <3>1. m + 1 \in 1 .. n /\ f[m] \in S
      OBVIOUS
    <3> QED
      BY <3>1
  <2> HIDE DEF w
  <2>3. g \in [0 .. m + 1 -> S] /\ g[0] = a
    BY <2>1, <2>2
  <2>4. ASSUME NEW i \in 1 .. m + 1 PROVE g[i] = G[<<i, g[i - 1]>>]
    <3>1. CASE i = m + 1
      <4>1. i - 1 = m /\ g[i] = w /\ g[m] = f[m]
        BY <3>1
      <4> QED
        BY <3>1, <4>1 DEF w
    <3>2. CASE i # m + 1
      <4>1. i \in 1 .. m /\ g[i] = f[i] /\ g[i - 1] = f[i - 1]
        BY <3>2
      <4> QED
        BY <2>1, <4>1
    <3> QED
      BY <3>1, <3>2
  <2> HIDE DEF g
  <2> QED
    BY <2>3, <2>4
<1>3. Nat \subseteq T
  <2> HIDE DEF T
  <2> QED
    BY <1>1, <1>2, SetInduction
<1>4. n \in T
  <2> HIDE DEF T
  <2> QED
    BY <1>3
<1> QED
  BY <1>4

-----------------------------------------------------------------------------
(***************************************************************************)
(* The function that FlattenSeq(s) defines: f[i] is what the first i       *)
(* sequences of s make.                                                    *)
(***************************************************************************)
Flattens(s, n, f) == f = [i \in 1 .. n |-> IF i = 1 THEN s[i] ELSE f[i - 1] \o s[i]]

\* There is such a function,
LEMMA FlattensExists ==
  ASSUME NEW X, NEW s \in Seq(Seq(X))
  PROVE  \A n \in 0 .. Len(s) : \E f \in [1 .. n -> Seq(X)] : Flattens(s, n, f)
<1> DEFINE S == {n \in Nat : n <= Len(s) => \E f \in [1 .. n -> Seq(X)] : Flattens(s, n, f)}
<1>1. 0 \in S
  <2> DEFINE f == [i \in 1 .. 0 |-> <<>>]
  <2>1. f \in [1 .. 0 -> Seq(X)] /\ Flattens(s, 0, f)
    BY DEF Flattens
  <2> QED
    BY <2>1
<1>2. ASSUME NEW n \in Nat, n \in S PROVE n + 1 \in S
  <2> SUFFICES ASSUME n + 1 <= Len(s)
               PROVE  \E f \in [1 .. n + 1 -> Seq(X)] : Flattens(s, n + 1, f)
    OBVIOUS
  <2>1. PICK f \in [1 .. n -> Seq(X)] : Flattens(s, n, f)
    BY <1>2
  <2>2. s[n + 1] \in Seq(X)
    OBVIOUS
  <2> DEFINE w == IF n = 0 THEN s[1] ELSE f[n] \o s[n + 1]
             g == [i \in 1 .. n + 1 |-> IF i = n + 1 THEN w ELSE f[i]]
  <2>3. w \in Seq(X)
    <3>1. n # 0 => f[n] \in Seq(X)
      OBVIOUS
    <3> QED
      BY <2>2, <3>1, ConcatProperties
  <2>4. g \in [1 .. n + 1 -> Seq(X)]
    BY <2>3
  <2>5. Flattens(s, n + 1, g)
    <3>1. \A i \in 1 .. n + 1 : g[i] = IF i = 1 THEN s[i] ELSE g[i - 1] \o s[i]
      <4> SUFFICES ASSUME NEW i \in 1 .. n + 1
                   PROVE  g[i] = IF i = 1 THEN s[i] ELSE g[i - 1] \o s[i]
        OBVIOUS
      <4>1. CASE i = n + 1
        <5>1. g[i] = w /\ (i # 1 => n # 0 /\ i - 1 \in 1 .. n + 1 /\ i - 1 # n + 1 /\ i - 1 = n)
          BY <4>1
        <5>2. i # 1 => g[i - 1] = f[n]
          BY <5>1
        <5> QED
          BY <4>1, <5>1, <5>2
      <4>2. CASE i # n + 1
        <5>1. i \in 1 .. n /\ g[i] = f[i]
          BY <4>2
        <5>2. i # 1 => i - 1 \in 1 .. n /\ g[i - 1] = f[i - 1]
          BY <5>1
        <5>3. f[i] = IF i = 1 THEN s[i] ELSE f[i - 1] \o s[i]
          BY <2>1, <5>1 DEF Flattens
        <5> QED
          BY <5>1, <5>2, <5>3
      <4> QED
        BY <4>1, <4>2
    <3> HIDE DEF w
    <3>2. g = [i \in 1 .. n + 1 |-> g[i]]
      OBVIOUS
    <3> HIDE DEF g
    <3> QED
      BY <3>1, <3>2 DEF Flattens
  <2> HIDE DEF g
  <2> QED
    BY <2>4, <2>5
<1>3. Nat \subseteq S
  <2> HIDE DEF S
  <2> QED
    BY <1>1, <1>2, SetInduction
<1>4. \A n \in 0 .. Len(s) : n \in Nat /\ n \in S /\ n <= Len(s)
  BY <1>3
<1> QED
  BY <1>4

\* and one only.
LEMMA FlattensUnique ==
  ASSUME NEW s, NEW n \in Nat, NEW f, NEW g, Flattens(s, n, f), Flattens(s, n, g)
  PROVE  f = g
<1> DEFINE S == {i \in Nat : i \in 1 .. n => f[i] = g[i]}
<1>1. 0 \in S
  OBVIOUS
<1>2. ASSUME NEW i \in Nat, i \in S PROVE i + 1 \in S
  <2> SUFFICES ASSUME i + 1 \in 1 .. n PROVE f[i + 1] = g[i + 1]
    OBVIOUS
  <2>1. /\ f[i + 1] = IF i + 1 = 1 THEN s[i + 1] ELSE f[(i + 1) - 1] \o s[i + 1]
        /\ g[i + 1] = IF i + 1 = 1 THEN s[i + 1] ELSE g[(i + 1) - 1] \o s[i + 1]
    BY DEF Flattens
  <2>2. i + 1 # 1 => i \in 1 .. n /\ (i + 1) - 1 = i
    OBVIOUS
  <2> QED
    BY <1>2, <2>1, <2>2
<1>3. Nat \subseteq S
  <2> HIDE DEF S
  <2> QED
    BY <1>1, <1>2, SetInduction
<1>4. \A i \in 1 .. n : f[i] = g[i]
  BY <1>3
<1>5. f = [i \in 1 .. n |-> f[i]] /\ g = [i \in 1 .. n |-> g[i]]
  BY DEF Flattens
<1> QED
  BY <1>4, <1>5

\* So it is the one FlattenSeq takes its last value from.
LEMMA FlattenIs ==
  ASSUME NEW X, NEW s \in Seq(Seq(X)), Len(s) # 0, NEW f, Flattens(s, Len(s), f)
  PROVE  FlattenSeq(s) = f[Len(s)] /\ FlattenSeq(s) \in Seq(X)
<1> DEFINE h == CHOOSE g : Flattens(s, Len(s), g)
<1>1. Flattens(s, Len(s), h)
  OBVIOUS
<1>2. h = f
  <2>1. Len(s) \in Nat
    OBVIOUS
  <2> HIDE DEF h
  <2> QED
    BY <1>1, <2>1, FlattensUnique
<1>3. FlattenSeq(s) = h[Len(s)]
  BY DEF FlattenSeq, Flattens
<1>4. PICK g \in [1 .. Len(s) -> Seq(X)] : Flattens(s, Len(s), g)
  BY FlattensExists
<1>5. g = f
  <2>1. Len(s) \in Nat
    OBVIOUS
  <2> QED
    BY <1>4, <2>1, FlattensUnique
<1> HIDE DEF h
<1>6. FlattenSeq(s) = f[Len(s)]
  BY <1>2, <1>3
<1>7. f[Len(s)] \in Seq(X)
  <2>1. Len(s) \in 1 .. Len(s)
    OBVIOUS
  <2> QED
    BY <1>4, <1>5, <2>1
<1> QED
  BY <1>6, <1>7

\* Nothing makes nothing, and what comes first in s comes first in FlattenSeq(s).
LEMMA FlattenCons ==
  ASSUME NEW X, NEW s \in Seq(Seq(X)), NEW a \in Seq(X)
  PROVE  /\ FlattenSeq(<<>>) = <<>> /\ FlattenSeq(s) \in Seq(X)
         /\ FlattenSeq(<<a>> \o s) = a \o FlattenSeq(s)
<1> DEFINE n == Len(s)
           t == <<a>> \o s
<1>1. FlattenSeq(<<>>) = <<>>
  BY DEF FlattenSeq
<1>2. t \in Seq(Seq(X)) /\ Len(t) = n + 1 /\ n \in Nat /\ t[1] = a
      /\ \A i \in 2 .. n + 1 : t[i] = s[i - 1]
  <2>1. <<a>> \in Seq(Seq(X)) /\ Len(<<a>>) = 1 /\ <<a>>[1] = a
    OBVIOUS
  <2>2. /\ t \in Seq(Seq(X)) /\ Len(t) = 1 + Len(s)
        /\ \A i \in 1 .. 1 + Len(s) : t[i] = IF i <= 1 THEN <<a>>[i] ELSE s[i - 1]
    BY <2>1, ConcatProperties
  <2> HIDE DEF t
  <2> QED
    BY <2>1, <2>2
<1>3. PICK f \in [1 .. n -> Seq(X)] : Flattens(s, n, f)
  <2>1. n \in 0 .. Len(s)
    BY <1>2
  <2> HIDE DEF n, t
  <2> QED
    BY <2>1, FlattensExists
<1> DEFINE g == [j \in 1 .. n + 1 |-> IF j = 1 THEN a ELSE a \o f[j - 1]]
<1> HIDE DEF t
<1>4. Flattens(t, n + 1, g)
  <2>1. ASSUME NEW j \in 1 .. n + 1
        PROVE  g[j] = IF j = 1 THEN t[j] ELSE g[j - 1] \o t[j]
    <3>1. CASE j = 1
      BY <1>2, <3>1
    <3>2. CASE j = 2
      <4>1. 1 \in 1 .. n /\ f[1] = s[1] /\ t[2] = s[1] /\ j - 1 = 1
        BY <1>2, <1>3, <3>2 DEF Flattens
      <4>2. 2 \in 1 .. n + 1 /\ 1 \in 1 .. n + 1
        BY <3>2
      <4>3. g[1] = a /\ g[2] = a \o f[1]
        BY <4>2
      <4>4. g[j] = a \o s[1] /\ g[j - 1] = a /\ t[j] = s[1]
        <5> HIDE DEF g, n
        <5> QED
          BY <3>2, <4>1, <4>3
      <4> HIDE DEF g, n
      <4> QED
        BY <3>2, <4>4
    <3>3. CASE j # 1 /\ j # 2
      <4> DEFINE i == j - 1
      <4>1. i \in 1 .. n /\ i # 1 /\ i - 1 \in 1 .. n /\ j - 1 = i /\ i \in 1 .. n + 1
            /\ j \in 2 .. n + 1
        BY <1>2, <3>3
      <4>2. f[i] = f[i - 1] \o s[i] /\ t[j] = s[i]
        BY <1>2, <1>3, <4>1 DEF Flattens
      <4>3. g[j] = a \o f[i] /\ g[i] = a \o f[i - 1]
        BY <3>3, <4>1
      <4>4. f[i - 1] \in Seq(X) /\ s[i] \in Seq(X)
        <5>1. n = Len(s) /\ s \in Seq(Seq(X))
          OBVIOUS
        <5>2. \A k \in 1 .. Len(s) : s[k] \in Seq(X)
          OBVIOUS
        <5> HIDE DEF n, i, g
        <5>3. f[i - 1] \in Seq(X)
          BY <4>1, Zenon
        <5>4. s[i] \in Seq(X)
          BY <4>1, <5>1, <5>2
        <5> QED
          BY <5>3, <5>4
      <4>5. a \o (f[i - 1] \o s[i]) = (a \o f[i - 1]) \o s[i]
        <5> DEFINE b == f[i - 1]
                   c == s[i]
        <5>1. b \in Seq(X) /\ c \in Seq(X)
          BY <4>4
        <5> HIDE DEF b, c, g, i, n
        <5>2. (a \o b) \o c = a \o (b \o c)
          BY <5>1, ConcatAssociative
        <5> QED
          BY <5>2 DEF b, c
      <4> HIDE DEF g, i
      <4> QED
        BY <3>3, <4>1, <4>2, <4>3, <4>5
    <3> QED
      BY <3>1, <3>2, <3>3
  <2>2. g = [j \in 1 .. n + 1 |-> g[j]]
    OBVIOUS
  <2> HIDE DEF g
  <2> QED
    BY <2>1, <2>2 DEF Flattens
<1>5. FlattenSeq(t) = g[n + 1]
  <2> HIDE DEF g
  <2> QED
    BY <1>2, <1>4, FlattenIs
<1>6. CASE n = 0
  <2>1. s = <<>> /\ FlattenSeq(s) = <<>>
    BY <1>1, <1>6, EmptySeq
  <2>2. g[n + 1] = a
    BY <1>6
  <2>3. a \o <<>> = a /\ <<>> \in Seq(X)
    BY ConcatEmptySeq
  <2> HIDE DEF g
  <2> QED
    BY <1>1, <1>5, <2>1, <2>2, <2>3 DEF t
<1>7. CASE n # 0
  <2>1. FlattenSeq(s) = f[n] /\ FlattenSeq(s) \in Seq(X)
    <3>1. Len(s) # 0 /\ Flattens(s, Len(s), f)
      BY <1>3, <1>7
    <3> HIDE DEF n, g
    <3>2. FlattenSeq(s) = f[Len(s)] /\ FlattenSeq(s) \in Seq(X)
      BY <3>1, FlattenIs
    <3> QED
      BY <3>2 DEF n
  <2>2. g[n + 1] = a \o f[n]
    BY <1>2, <1>7
  <2> HIDE DEF g
  <2> QED
    BY <1>1, <1>5, <2>1, <2>2 DEF t
<1> QED
  BY <1>6, <1>7

-----------------------------------------------------------------------------
(***************************************************************************)
(* A sequence is its first element before the rest, and has beginnings.    *)
(***************************************************************************)

\* An element put in front of a sequence is its head, and the sequence its tail.
LEMMA ConsOps ==
  ASSUME NEW X, NEW x \in X, NEW s \in Seq(X)
  PROVE  /\ <<x>> \o s \in Seq(X) /\ <<x>> \o s # <<>>
         /\ Head(<<x>> \o s) = x /\ Tail(<<x>> \o s) = s
<1> DEFINE t == <<x>> \o s
<1>1. /\ t \in Seq(X) /\ Len(t) = Len(s) + 1 /\ Len(s) \in Nat /\ t[1] = x
      /\ \A i \in 1 .. Len(s) : t[i + 1] = s[i]
  <2>1. <<x>> \in Seq(X) /\ Len(<<x>>) = 1 /\ <<x>>[1] = x
    OBVIOUS
  <2>2. /\ t \in Seq(X) /\ Len(t) = 1 + Len(s)
        /\ \A i \in 1 .. 1 + Len(s) : t[i] = IF i <= 1 THEN <<x>>[i] ELSE s[i - 1]
    BY <2>1, ConcatProperties
  <2> HIDE DEF t
  <2> QED
    BY <2>1, <2>2
<1> HIDE DEF t
<1>2. t # <<>>
  BY <1>1
<1>3. /\ Head(t) = t[1] /\ Tail(t) \in Seq(X) /\ Len(Tail(t)) = Len(t) - 1
      /\ \A i \in 1 .. Len(t) - 1 : Tail(t)[i] = t[i + 1]
  BY <1>1, <1>2, HeadTailProperties
<1>4. Tail(t) = s
  <2> DEFINE u == Tail(t)
  <2>1. u \in Seq(X) /\ Len(u) = Len(s) /\ \A i \in 1 .. Len(u) : u[i] = s[i]
    BY <1>1, <1>3
  <2> HIDE DEF u
  <2>2. u = s
    BY <2>1, SeqEqual
  <2> QED
    BY <2>2 DEF u
<1> QED
  BY <1>1, <1>2, <1>3, <1>4 DEF t

\* A sequence that is not empty is its head in front of its tail.
LEMMA HeadBeforeTail ==
  ASSUME NEW X, NEW s \in Seq(X), s # <<>>
  PROVE  Head(s) \in X /\ Tail(s) \in Seq(X) /\ s = <<Head(s)>> \o Tail(s)
<1> DEFINE x == Head(s)
           r == Tail(s)
           t == <<x>> \o r
<1>1. /\ x \in X /\ x = s[1] /\ r \in Seq(X) /\ Len(r) = Len(s) - 1 /\ Len(s) \in Nat
      /\ \A i \in 1 .. Len(s) - 1 : r[i] = s[i + 1]
  BY HeadTailProperties
<1> HIDE DEF x, r
<1>2. /\ t \in Seq(X) /\ Len(t) = 1 + Len(r)
      /\ \A i \in 1 .. 1 + Len(r) : t[i] = IF i <= 1 THEN x ELSE r[i - 1]
  <2>1. <<x>> \in Seq(X) /\ Len(<<x>>) = 1 /\ <<x>>[1] = x
    BY <1>1
  <2>2. /\ t \in Seq(X) /\ Len(t) = 1 + Len(r)
        /\ \A i \in 1 .. 1 + Len(r) : t[i] = IF i <= 1 THEN <<x>>[i] ELSE r[i - 1]
    BY <1>1, <2>1, ConcatProperties
  <2> HIDE DEF t
  <2> QED
    BY <1>1, <2>1, <2>2
<1> HIDE DEF t
<1>3. Len(t) = Len(s) /\ \A i \in 1 .. Len(s) : s[i] = t[i]
  <2>1. \A i \in 2 .. Len(s) : i - 1 \in 1 .. Len(s) - 1 /\ (i - 1) + 1 = i
    BY <1>1
  <2> QED
    BY <1>1, <1>2, <2>1
<1>4. s = t
  BY <1>2, <1>3, SeqEqual
<1> QED
  BY <1>1, <1>4 DEF t, x, r

\* A beginning of a sequence, and the beginning one longer.
LEMMA Beginnings ==
  ASSUME NEW S, NEW s \in Seq(S), NEW m \in 0 .. Len(s)
  PROVE  /\ SubSeq(s, 1, m) \in Seq(S)
         /\ \A x \in S : SubSeq(Append(s, x), 1, m) = SubSeq(s, 1, m)
         /\ m < Len(s) => SubSeq(s, 1, m + 1) = Append(SubSeq(s, 1, m), s[m + 1])
<1>1. m \in Nat /\ Len(s) \in Nat /\ m <= Len(s) /\ \A i \in 1 .. Len(s) : s[i] \in S
  BY LenProperties, ElementOfSeq
<1>2. ASSUME NEW t \in Seq(S), NEW k \in Nat, k <= Len(t)
      PROVE  /\ SubSeq(t, 1, k) \in Seq(S) /\ Len(SubSeq(t, 1, k)) = k
             /\ \A i \in 1 .. k : SubSeq(t, 1, k)[i] = t[i]
  <2>1. Len(t) \in Nat /\ \A i \in 1 .. k : t[i] \in S
    BY <1>2, LenProperties, ElementOfSeq
  <2>2. /\ SubSeq(t, 1, k) \in Seq(S)
        /\ Len(SubSeq(t, 1, k)) = IF 1 <= k THEN k - 1 + 1 ELSE 0
        /\ \A i \in 1 .. k - 1 + 1 : SubSeq(t, 1, k)[i] = t[1 + i - 1]
    BY <2>1, SubSeqProperties
  <2>3. k - 1 + 1 = k /\ \A i \in 1 .. k : 1 + i - 1 = i
    OBVIOUS
  <2>4. Len(SubSeq(t, 1, k)) = k
    BY <2>2
  <2> QED
    BY <2>2, <2>3, <2>4
<1> DEFINE b == SubSeq(s, 1, m)
<1>3. b \in Seq(S) /\ Len(b) = m /\ \A i \in 1 .. m : b[i] = s[i]
  BY <1>1, <1>2
<1> HIDE DEF b
<1>4. ASSUME NEW x \in S PROVE SubSeq(Append(s, x), 1, m) = b
  <2> DEFINE a == Append(s, x)
             c == SubSeq(a, 1, m)
  <2>1. a \in Seq(S) /\ Len(a) = Len(s) + 1 /\ \A i \in 1 .. Len(s) : a[i] = s[i]
    BY AppendProperties
  <2> HIDE DEF a
  <2>2. m <= Len(a)
    BY <1>1, <2>1
  <2>3. c \in Seq(S) /\ Len(c) = m /\ \A i \in 1 .. m : c[i] = a[i]
    BY <1>1, <1>2, <2>1, <2>2
  <2> HIDE DEF c
  <2>4. \A i \in 1 .. m : i \in 1 .. Len(s)
    BY <1>1
  <2>5. \A i \in 1 .. Len(c) : c[i] = b[i]
    BY <1>3, <2>1, <2>3, <2>4
  <2>6. c = b
    BY <1>3, <2>3, <2>5, SeqEqual
  <2> QED
    BY <2>6 DEF a, c
<1>5. ASSUME m < Len(s) PROVE SubSeq(s, 1, m + 1) = Append(b, s[m + 1])
  <2> DEFINE c == SubSeq(s, 1, m + 1)
             x == s[m + 1]
             d == Append(b, x)
  <2>1. m + 1 \in Nat /\ m + 1 <= Len(s) /\ x \in S
    BY <1>1, <1>5
  <2>2. c \in Seq(S) /\ Len(c) = m + 1 /\ \A i \in 1 .. m + 1 : c[i] = s[i]
    BY <1>2, <2>1
  <2> HIDE DEF c
  <2>3. x = s[m + 1]
    OBVIOUS
  <2> HIDE DEF x
  <2>4. d \in Seq(S) /\ Len(d) = m + 1 /\ d[m + 1] = x /\ \A i \in 1 .. m : d[i] = b[i]
    BY <1>3, <2>1, AppendProperties
  <2> HIDE DEF d
  <2>5. \A i \in 1 .. m + 1 : i \in 1 .. m \/ i = m + 1
    BY <1>1
  <2>6. \A i \in 1 .. Len(c) : c[i] = d[i]
    BY <1>3, <2>2, <2>3, <2>4, <2>5
  <2>7. c = d
    BY <2>2, <2>4, <2>6, SeqEqual
  <2> QED
    BY <2>7 DEF c, d, x
<1> QED
  BY <1>3, <1>4, <1>5 DEF b

-----------------------------------------------------------------------------
(***************************************************************************)
(* The least and the greatest of a set of numbers, and sets of one size.   *)
(***************************************************************************)

\* The least of a set of natural numbers is the one below all.
LEMMA MinOf ==
  ASSUME NEW S \in SUBSET Nat, S # {}
  PROVE  Min(S) \in S /\ \A y \in S : Min(S) <= y
<1> DEFINE R == {p \in Nat \X Nat : p[1] < p[2]}
<1>1. IsWellFoundedOn(R, Nat)
  BY NatLessThanWellFounded DEF OpToRel
<1>2. PICK x \in S : \A y \in S : ~ (<<y, x>> \in R)
  <2> HIDE DEF R
  <2> QED
    BY <1>1, WFMin
<1>3. \A y \in S : x <= y
  <2> SUFFICES ASSUME NEW y \in S PROVE x <= y
    OBVIOUS
  <2>1. x \in Nat /\ y \in Nat
    OBVIOUS
  <2>2. ~ (y < x)
    BY <1>2, <2>1
  <2> QED
    BY <2>1, <2>2
<1> QED
  BY <1>3 DEF Min

\* And the greatest the one above all.
LEMMA MaxOf ==
  ASSUME NEW n \in Nat, NEW S \in SUBSET (0 .. n), S # {}
  PROVE  Max(S) \in S /\ \A y \in S : Max(S) >= y
<1> DEFINE T == {n - y : y \in S}
<1>1. T \in SUBSET Nat /\ T # {}
  <2>1. \A y \in S : n - y \in Nat
    OBVIOUS
  <2>2. PICK y \in S : TRUE
    OBVIOUS
  <2>3. n - y \in T
    OBVIOUS
  <2> QED
    BY <2>1, <2>3
<1> HIDE DEF T
<1>2. PICK m \in T : \A y \in T : m <= y
  BY <1>1, MinOf
<1>3. PICK x \in S : m = n - x
  BY <1>2 DEF T
<1>4. \A y \in S : x >= y
  <2> SUFFICES ASSUME NEW y \in S PROVE x >= y
    OBVIOUS
  <2>1. m <= n - y
    BY <1>2 DEF T
  <2> QED
    BY <1>3, <2>1
<1> QED
  BY <1>4 DEF Max

\* The lesser of two.
LEMMA MinTwo ==
  ASSUME NEW a \in Nat, NEW b \in Nat
  PROVE  Min({a, b}) = IF a <= b THEN a ELSE b
<1> DEFINE S == {a, b}
<1>1. S \in SUBSET Nat /\ S # {} /\ a \in S /\ b \in S
  OBVIOUS
<1>2. \A y \in S : y = a \/ y = b
  OBVIOUS
<1> HIDE DEF S
<1>3. Min(S) \in S /\ \A y \in S : Min(S) <= y
  BY <1>1, MinOf
<1>4. Min(S) <= a /\ Min(S) <= b /\ (Min(S) = a \/ Min(S) = b)
  BY <1>1, <1>2, <1>3
<1>5. Min(S) = IF a <= b THEN a ELSE b
  BY <1>4
<1> QED
  BY <1>5 DEF S

\* A set that can be put into a finite set is finite and no larger.
LEMMA NoMoreThan ==
  ASSUME NEW S, NEW T, IsFiniteSet(T), NEW f \in [S -> T],
         \A p, q \in S : f[p] = f[q] => p = q
  PROVE  IsFiniteSet(S) /\ Cardinality(S) <= Cardinality(T)
<1>1. f \in Injection(S, T)
  BY DEF Injection, IsInjective
<1> QED
  BY <1>1, FS_Injection

\* Pairs that are equal have equal parts.
LEMMA PartsOfPairs ==
  ASSUME NEW a, NEW b, NEW c, NEW d, <<a, b>> = <<c, d>>
  PROVE  a = c /\ b = d
<1>1. <<a, b>>[1] = <<c, d>>[1] /\ <<a, b>>[2] = <<c, d>>[2]
  OBVIOUS
<1> QED
  BY <1>1

\* A set and the set moved by d have as many members.
LEMMA ShiftCount ==
  ASSUME NEW S, NEW T, NEW d \in Int, IsFiniteSet(S), IsFiniteSet(T), S \subseteq Int, T \subseteq Int,
         \A i \in S : i + d \in T, \A j \in T : j - d \in S
  PROVE  Cardinality(S) = Cardinality(T)
<1> DEFINE f == [i \in S |-> i + d]
           g == [j \in T |-> j - d]
<1>1. f \in [S -> T] /\ g \in [T -> S]
  OBVIOUS
<1>2. ASSUME NEW p \in S, NEW q \in S, f[p] = f[q] PROVE p = q
  <2>1. p \in Int /\ q \in Int /\ p + d = q + d
    BY <1>2
  <2> QED
    BY <2>1
<1>3. ASSUME NEW p \in T, NEW q \in T, g[p] = g[q] PROVE p = q
  <2>1. p \in Int /\ q \in Int /\ p - d = q - d
    BY <1>3
  <2> QED
    BY <2>1
<1> HIDE DEF f, g
<1>4. Cardinality(S) <= Cardinality(T)
  BY <1>1, <1>2, NoMoreThan
<1>5. Cardinality(T) <= Cardinality(S)
  BY <1>1, <1>3, NoMoreThan
<1>6. Cardinality(S) \in Nat /\ Cardinality(T) \in Nat
  BY FS_CardinalityType
<1> QED
  BY <1>4, <1>5, <1>6
=============================================================================
