-------------------------- MODULE LineEditorProofs --------------------------
(***************************************************************************)
(* The line editor for all characters, prompts, buffer sizes and settings  *)
(* of the echo, and for firmware that clears the key or keeps it.          *)
(***************************************************************************)
EXTENDS LineEditor, SequenceFacts, TLAPS

-----------------------------------------------------------------------------
(***************************************************************************)
(* What the helpers do to sequences.                                       *)
(***************************************************************************)

\* Front takes the last element and no other.
LEMMA FrontOps ==
  ASSUME NEW S, NEW s \in Seq(S), s # <<>>
  PROVE  /\ Front(s) \in Seq(S) /\ Len(Front(s)) = Len(s) - 1 /\ Len(s) \in Nat \ {0}
         /\ \A i \in 1 .. Len(s) - 1 : Front(s)[i] = s[i]
<1> DEFINE n == Len(s) - 1
<1>1. Len(s) \in Nat \ {0} /\ \A i \in 1 .. Len(s) : s[i] \in S
  BY EmptySeq, ElementOfSeq
<1>2. n \in Nat /\ Len(s) = n + 1 /\ \A i \in 1 .. n : s[i] \in S
  BY <1>1
<1>3. Front(s) = SubSeq(s, 1, n)
  BY DEF Front
<1> HIDE DEF n
<1>4. /\ SubSeq(s, 1, n) \in Seq(S)
      /\ Len(SubSeq(s, 1, n)) = IF 1 <= n THEN n - 1 + 1 ELSE 0
      /\ \A i \in 1 .. n - 1 + 1 : SubSeq(s, 1, n)[i] = s[1 + i - 1]
  BY <1>2, SubSeqProperties
<1>5. /\ SubSeq(s, 1, n) \in Seq(S) /\ Len(SubSeq(s, 1, n)) = n
      /\ \A i \in 1 .. n : SubSeq(s, 1, n)[i] = s[i]
  BY <1>2, <1>4
<1>6. n = Len(s) - 1
  BY DEF n
<1> QED
  BY <1>1, <1>3, <1>5, <1>6

\* The last element of a concatenation is that of its second part.
LEMMA FrontOfConcat ==
  ASSUME NEW S, NEW s \in Seq(S), NEW t \in Seq(S), t # <<>>
  PROVE  s \o t # <<>> /\ Front(s \o t) = s \o Front(t)
<1> DEFINE u == s \o t
           f == Front(t)
<1>1. /\ u \in Seq(S) /\ Len(u) = Len(s) + Len(t) /\ Len(s) \in Nat /\ Len(t) \in Nat \ {0}
      /\ \A i \in 1 .. Len(s) + Len(t) : u[i] = IF i <= Len(s) THEN s[i] ELSE t[i - Len(s)]
  BY ConcatProperties, EmptySeq, LenProperties
<1>2. /\ f \in Seq(S) /\ Len(f) = Len(t) - 1
      /\ \A i \in 1 .. Len(t) - 1 : f[i] = t[i]
  BY FrontOps
<1> HIDE DEF u, f
<1>3. u # <<>>
  BY <1>1, EmptySeq
<1>4. /\ Front(u) \in Seq(S) /\ Len(Front(u)) = Len(u) - 1
      /\ \A i \in 1 .. Len(u) - 1 : Front(u)[i] = u[i]
  BY <1>1, <1>3, FrontOps
<1>5. /\ s \o f \in Seq(S) /\ Len(s \o f) = Len(s) + Len(f)
      /\ \A i \in 1 .. Len(s) + Len(f) : (s \o f)[i] = IF i <= Len(s) THEN s[i] ELSE f[i - Len(s)]
  BY <1>2, ConcatProperties
<1>6. \A i \in 1 .. Len(Front(u)) : Front(u)[i] = (s \o f)[i]
  <2>0. Len(Front(u)) = Len(s) + Len(t) - 1
    BY <1>1, <1>4
  <2> SUFFICES ASSUME NEW i \in 1 .. Len(s) + Len(t) - 1 PROVE Front(u)[i] = (s \o f)[i]
    BY <2>0
  <2>1. Front(u)[i] = IF i <= Len(s) THEN s[i] ELSE t[i - Len(s)]
    BY <1>1, <1>4
  <2>2. i > Len(s) => i - Len(s) \in 1 .. Len(t) - 1
    BY <1>1
  <2>3. i > Len(s) => f[i - Len(s)] = t[i - Len(s)]
    BY <1>2, <2>2
  <2> QED
    BY <1>1, <1>2, <1>5, <2>1, <2>3
<1>7. Front(u) = s \o f
  <2>1. Len(Front(u)) = Len(s \o f)
    BY <1>1, <1>2, <1>4, <1>5
  <2> QED
    BY <1>4, <1>5, <1>6, <2>1, SeqEqual
<1> QED
  BY <1>3, <1>7 DEF u, f

\* A prefix, element by element.
LEMMA PrefixElements ==
  ASSUME NEW S, NEW s \in Seq(S), NEW t \in Seq(S)
  PROVE  IsPrefix(s, t) <=> Len(s) <= Len(t) /\ \A i \in 1 .. Len(s) : s[i] = t[i]
<1>1. Len(s) \in Nat /\ Len(t) \in Nat /\ SubSeq(s, 1, Len(s)) = s
  BY LenProperties, SubSeqFull
<1> SUFFICES ASSUME Len(s) <= Len(t)
             PROVE  s = SubSeq(t, 1, Len(s)) <=> \A i \in 1 .. Len(s) : s[i] = t[i]
  BY <1>1 DEF IsPrefix
<1>2. \A i \in 1 .. Len(s) : t[i] \in S
  BY <1>1, ElementOfSeq
<1>3. /\ SubSeq(t, 1, Len(s)) \in Seq(S) /\ Len(SubSeq(t, 1, Len(s))) = Len(s)
      /\ \A i \in 1 .. Len(s) : SubSeq(t, 1, Len(s))[i] = t[i]
  <2>1. /\ SubSeq(t, 1, Len(s)) \in Seq(S)
        /\ Len(SubSeq(t, 1, Len(s))) = IF 1 <= Len(s) THEN Len(s) - 1 + 1 ELSE 0
        /\ \A i \in 1 .. Len(s) - 1 + 1 : SubSeq(t, 1, Len(s))[i] = t[1 + i - 1]
    BY <1>1, <1>2, SubSeqProperties
  <2> QED
    BY <1>1, <2>1
<1>4. (\A i \in 1 .. Len(s) : s[i] = t[i]) => s = SubSeq(t, 1, Len(s))
  <2> SUFFICES ASSUME \A i \in 1 .. Len(s) : s[i] = t[i] PROVE s = SubSeq(t, 1, Len(s))
    OBVIOUS
  <2>1. \A i \in 1 .. Len(s) : s[i] = SubSeq(t, 1, Len(s))[i]
    BY <1>3
  <2> QED
    BY <1>3, <2>1, SeqEqual
<1>5. s = SubSeq(t, 1, Len(s)) => \A i \in 1 .. Len(s) : s[i] = t[i]
  BY <1>3
<1> QED
  BY <1>4, <1>5

\* A prefix that loses a character, or has none to lose, is a prefix still.
LEMMA ErasedPrefix ==
  ASSUME NEW S, NEW s \in Seq(S), NEW t \in Seq(S), IsPrefix(s, t)
  PROVE  Erased(s) \in Seq(S) /\ IsPrefix(Erased(s), t)
<1>1. CASE s = <<>>
  BY <1>1 DEF Erased
<1>2. CASE s # <<>>
  <2>1. /\ Front(s) \in Seq(S) /\ Len(Front(s)) = Len(s) - 1 /\ Len(s) \in Nat \ {0}
        /\ \A i \in 1 .. Len(s) - 1 : Front(s)[i] = s[i]
    BY <1>2, FrontOps
  <2>2. Len(s) <= Len(t) /\ Len(t) \in Nat /\ \A i \in 1 .. Len(s) : s[i] = t[i]
    BY PrefixElements, LenProperties
  <2>3. Len(Front(s)) <= Len(t) /\ \A i \in 1 .. Len(Front(s)) : Front(s)[i] = t[i]
    BY <2>1, <2>2
  <2>4. IsPrefix(Front(s), t)
    BY <2>1, <2>3, PrefixElements
  <2> QED
    BY <1>2, <2>1, <2>4 DEF Erased
<1> QED
  BY <1>1, <1>2

-----------------------------------------------------------------------------
(***************************************************************************)
(* Edited and LinesOf go through the keys one by one.                      *)
(***************************************************************************)

\* One key more or less leaves a text a text.
LEMMA EditType ==
  ASSUME NEW t \in Seq(Chars), NEW k \in Keys, NEW max \in Nat
  PROVE  Edit(t, k, max) \in Seq(Chars)
<1>1. t # <<>> => Front(t) \in Seq(Chars)
  BY FrontOps
<1>2. k \in Chars => Append(t, k) \in Seq(Chars)
  BY AppendProperties
<1> QED
  BY <1>1, <1>2, EditorAssumption DEF Edit, Erased, Keys

\* The texts after each of the keys.
LEMMA EditedSteps ==
  ASSUME NEW keys \in Seq(Keys), NEW max \in Nat
  PROVE  \E f \in [0 .. Len(keys) -> Seq(Chars)] :
           /\ f[0] = <<>> /\ \A i \in 1 .. Len(keys) : f[i] = Edit(f[i - 1], keys[i], max)
           /\ Edited(keys, max) = f[Len(keys)]
<1> DEFINE n == Len(keys)
           G == [p \in (1 .. n) \X Seq(Chars) |-> Edit(p[2], keys[p[1]], max)]
           Is(h) == h = [i \in 0 .. n |-> IF i = 0 THEN <<>> ELSE Edit(h[i - 1], keys[i], max)]
           h == CHOOSE h : Is(h)
<1>1. n \in Nat /\ \A i \in 1 .. n : keys[i] \in Keys
  BY LenProperties, ElementOfSeq
<1>2. Edited(keys, max) = h[n]
  BY DEF Edited
<1> HIDE DEF n
<1>3. G \in [(1 .. n) \X Seq(Chars) -> Seq(Chars)]
  <2>1. \A p \in (1 .. n) \X Seq(Chars) : Edit(p[2], keys[p[1]], max) \in Seq(Chars)
    BY <1>1, EditType
  <2> QED
    BY <2>1
<1>4. <<>> \in Seq(Chars)
  BY EmptySeq
<1>5. PICK f \in [0 .. n -> Seq(Chars)] : f[0] = <<>> /\ \A i \in 1 .. n : f[i] = G[<<i, f[i - 1]>>]
  <2> DEFINE T == Seq(Chars)
             a == <<>>
  <2>1. G \in [(1 .. n) \X T -> T] /\ a \in T
    BY <1>3, <1>4
  <2> HIDE DEF G, T, a
  <2>2. \E f \in [0 .. n -> T] : Follows(n, a, G, f)
    BY <1>1, <2>1, StepsExist
  <2> QED
    BY <2>2 DEF Follows, T, a
<1>6. \A i \in 1 .. n : f[i] = Edit(f[i - 1], keys[i], max)
  <2>1. \A i \in 1 .. n : <<i, f[i - 1]>> \in (1 .. n) \X Seq(Chars)
    <3>1. \A i \in 1 .. n : i - 1 \in 0 .. n
      BY <1>1
    <3> QED
      BY <3>1
  <2> QED
    BY <1>5, <2>1
<1> HIDE DEF G
<1>7. Is(f)
  <2>1. \A i \in 0 .. n : f[i] = IF i = 0 THEN <<>> ELSE Edit(f[i - 1], keys[i], max)
    <3>1. \A i \in 0 .. n : i # 0 => i \in 1 .. n
      BY <1>1
    <3> QED
      BY <1>5, <1>6, <3>1
  <2>2. f = [i \in 0 .. n |-> f[i]]
    OBVIOUS
  <2> QED
    BY <2>1, <2>2
<1>8. Is(h)
  <2> HIDE DEF Is
  <2> QED
    BY <1>7
<1>9. h[n] = f[n]
  <2> HIDE DEF h
  <2>1. h[0] = <<>> /\ \A i \in 1 .. n : h[i] = Edit(h[i - 1], keys[i], max)
    <3>1. 0 \in 0 .. n /\ \A i \in 1 .. n : i \in 0 .. n /\ i # 0
      BY <1>1
    <3> QED
      BY <1>8, <3>1
  <2>2. Agree(n, h, f)
    BY <1>5, <1>6, <2>1 DEF Agree
  <2> HIDE DEF Is
  <2>3. \A i \in 0 .. n : h[i] = f[i]
    BY <1>1, <2>2, SameSteps
  <2> QED
    BY <1>1, <2>3
<1> HIDE DEF h, Is
<1> QED
  BY <1>2, <1>5, <1>6, <1>9 DEF n

\* What is edited is a text, at first empty; a key more edits it further.
LEMMA EditedFacts ==
  ASSUME NEW max \in Nat
  PROVE  /\ Edited(<<>>, max) = <<>>
         /\ \A keys \in Seq(Keys) : Edited(keys, max) \in Seq(Chars)
         /\ \A keys \in Seq(Keys), k \in Keys :
              Edited(Append(keys, k), max) = Edit(Edited(keys, max), k, max)
<1>1. Edited(<<>>, max) = <<>>
  <2> DEFINE no == <<>>
  <2>1. no \in Seq(Keys) /\ Len(no) = 0
    BY EmptySeq
  <2> HIDE DEF no
  <2>2. PICK f \in [0 .. Len(no) -> Seq(Chars)] : f[0] = <<>> /\ Edited(no, max) = f[Len(no)]
    BY <2>1, EditedSteps
  <2> QED
    BY <2>1, <2>2 DEF no
<1>2. ASSUME NEW keys \in Seq(Keys) PROVE Edited(keys, max) \in Seq(Chars)
  <2>1. PICK f \in [0 .. Len(keys) -> Seq(Chars)] : Edited(keys, max) = f[Len(keys)]
    BY EditedSteps
  <2>2. Len(keys) \in 0 .. Len(keys)
    BY LenProperties
  <2> QED
    BY <2>1, <2>2
<1>3. ASSUME NEW keys \in Seq(Keys), NEW k \in Keys
      PROVE  Edited(Append(keys, k), max) = Edit(Edited(keys, max), k, max)
  <2> DEFINE more == Append(keys, k)
             n == Len(keys)
  <2>1. /\ n \in Nat /\ more \in Seq(Keys) /\ Len(more) = n + 1 /\ more[n + 1] = k
        /\ \A i \in 1 .. n : more[i] = keys[i]
    BY AppendProperties, LenProperties
  <2>2. PICK f \in [0 .. n -> Seq(Chars)] :
          /\ f[0] = <<>> /\ \A i \in 1 .. n : f[i] = Edit(f[i - 1], keys[i], max)
          /\ Edited(keys, max) = f[n]
    BY EditedSteps
  <2> HIDE DEF more, n
  <2>3. PICK g \in [0 .. n + 1 -> Seq(Chars)] :
          /\ g[0] = <<>> /\ \A i \in 1 .. n + 1 : g[i] = Edit(g[i - 1], more[i], max)
          /\ Edited(more, max) = g[n + 1]
    <3>1. \E g \in [0 .. Len(more) -> Seq(Chars)] :
          /\ g[0] = <<>> /\ \A i \in 1 .. Len(more) : g[i] = Edit(g[i - 1], more[i], max)
          /\ Edited(more, max) = g[Len(more)]
      BY <2>1, EditedSteps
    <3> QED
      BY <2>1, <3>1
  <2>4. Agree(n, f, g)
    <3>1. \A i \in 1 .. n : i \in 1 .. n + 1
      BY <2>1
    <3> QED
      BY <2>1, <2>2, <2>3, <3>1 DEF Agree
  <2>5. f[n] = g[n]
    <3>1. n \in Nat
      BY <2>1
    <3>2. \A i \in 0 .. n : f[i] = g[i]
      BY <3>1, <2>4, SameSteps, ZenonT(30)
    <3> QED
      BY <3>1, <3>2
  <2>6. n + 1 \in 1 .. n + 1 /\ (n + 1) - 1 = n
    BY <2>1
  <2>7. g[n + 1] = Edit(g[n], k, max)
    BY <2>1, <2>3, <2>6
  <2>8. Edited(more, max) = Edit(Edited(keys, max), k, max)
    BY <2>2, <2>3, <2>5, <2>7
  <2> QED
    BY <2>8 DEF more
<1> QED
  BY <1>1, <1>2, <1>3

-----------------------------------------------------------------------------
\* The lines that keys make: at least one, the last without an Enter.
Cuts == {s \in Seq(Seq(Keys)) : Len(s) # 0}

\* A key more or less leaves lines lines; only the last of them is changed.
LEMMA TypedFacts ==
  ASSUME NEW s \in Cuts, NEW k \in Keys
  PROVE  /\ Typed(s, k) \in Cuts /\ Len(s) \in Nat
         /\ k = "enter" => /\ Len(Typed(s, k)) = Len(s) + 1
                           /\ Typed(s, k)[Len(s) + 1] = <<>>
                           /\ \A i \in 1 .. Len(s) : Typed(s, k)[i] = s[i]
         /\ k # "enter" => /\ Len(Typed(s, k)) = Len(s)
                           /\ Typed(s, k)[Len(s)] = Append(s[Len(s)], k)
                           /\ \A i \in 1 .. Len(s) - 1 : Typed(s, k)[i] = s[i]
<1> DEFINE n == Len(s)
<1>1. n \in Nat \ {0} /\ n \in 1 .. n /\ s \in Seq(Seq(Keys)) /\ s \in [1 .. n -> Seq(Keys)]
  BY LenProperties DEF Cuts
<1>2. s[n] \in Seq(Keys)
  BY <1>1
<1>3. CASE k = "enter"
  <2> DEFINE e == <<>>
             S == Seq(Keys)
  <2>1. e \in S /\ s \in Seq(S)
    BY <1>1, EmptySeq
  <2> HIDE DEF e, S
  <2>2. /\ Append(s, e) \in Seq(S) /\ Len(Append(s, e)) = Len(s) + 1
        /\ Append(s, e)[Len(s) + 1] = e /\ \A i \in 1 .. Len(s) : Append(s, e)[i] = s[i]
    BY <2>1, AppendProperties
  <2>3. Typed(s, k) = Append(s, e)
    BY <1>3 DEF Typed, e
  <2> HIDE DEF n
  <2>4. Typed(s, k) \in Cuts
    <3>1. Len(s) + 1 # 0
      BY <1>1 DEF n
    <3> QED
      BY <2>2, <2>3, <3>1 DEF Cuts, S
  <2> QED
    BY <1>1, <1>3, <2>2, <2>3, <2>4 DEF e, n
<1>4. CASE k # "enter"
  <2> DEFINE x == Append(s[n], k)
             t == [s EXCEPT ![n] = x]
  <2>1. x \in Seq(Keys)
    BY <1>2, AppendProperties
  <2>2. Typed(s, k) = t
    BY <1>4 DEF Typed
  <2> HIDE DEF x, n
  <2>3. /\ t \in [1 .. n -> Seq(Keys)] /\ t[n] = x
        /\ \A i \in 1 .. n : i # n => t[i] = s[i]
    BY <1>1, <2>1
  <2>4. \A i \in 1 .. n - 1 : i \in 1 .. n /\ i # n
    BY <1>1
  <2> HIDE DEF t
  <2>5. t \in Seq(Seq(Keys)) /\ Len(t) = n
    <3>1. \A i \in 1 .. n : t[i] \in Seq(Keys)
      BY <2>3
    <3>2. DOMAIN t = 1 .. n
      BY <2>3
    <3> DEFINE S == Seq(Keys)
    <3>3. t \in [1 .. n -> S] /\ n \in Nat
      BY <1>1, <2>3
    <3> HIDE DEF S
    <3>4. t \in Seq(S)
      BY <3>3, SeqDef
    <3>5. Len(t) = n
      BY <3>2, <3>3, <3>4, LenProperties
    <3> QED
      BY <3>4, <3>5 DEF S
  <2>6. t \in Cuts
    BY <1>1, <2>5 DEF Cuts
  <2> QED
    BY <1>1, <1>4, <2>2, <2>3, <2>4, <2>5, <2>6 DEF n, x
<1> QED
  BY <1>3, <1>4

\* The lines after each of the keys.
LEMMA LinesSteps ==
  ASSUME NEW keys \in Seq(Keys)
  PROVE  \E f \in [0 .. Len(keys) -> Cuts] :
           /\ f[0] = <<<<>>>> /\ \A i \in 1 .. Len(keys) : f[i] = Typed(f[i - 1], keys[i])
           /\ LinesOf(keys) = f[Len(keys)]
<1> DEFINE n == Len(keys)
           G == [p \in (1 .. n) \X Cuts |-> Typed(p[2], keys[p[1]])]
           Is(h) == h = [i \in 0 .. n |-> IF i = 0 THEN <<<<>>>> ELSE Typed(h[i - 1], keys[i])]
           h == CHOOSE h : Is(h)
<1>1. n \in Nat /\ \A i \in 1 .. n : keys[i] \in Keys
  BY LenProperties, ElementOfSeq
<1>2. LinesOf(keys) = h[n]
  BY DEF LinesOf
<1> HIDE DEF n
<1>3. G \in [(1 .. n) \X Cuts -> Cuts]
  <2>1. \A p \in (1 .. n) \X Cuts : Typed(p[2], keys[p[1]]) \in Cuts
    BY <1>1, TypedFacts
  <2> QED
    BY <2>1
<1>4. <<<<>>>> \in Cuts
  <2>1. <<<<>>>> \in Seq(Seq(Keys)) /\ Len(<<<<>>>>) = 1
    BY EmptySeq
  <2> QED
    BY <2>1 DEF Cuts
<1>5. PICK f \in [0 .. n -> Cuts] : f[0] = <<<<>>>> /\ \A i \in 1 .. n : f[i] = G[<<i, f[i - 1]>>]
  <2> DEFINE T == Cuts
             a == <<<<>>>>
  <2>1. G \in [(1 .. n) \X T -> T] /\ a \in T
    BY <1>3, <1>4
  <2> HIDE DEF G, T, a
  <2>2. \E f \in [0 .. n -> T] : Follows(n, a, G, f)
    BY <1>1, <2>1, StepsExist
  <2> QED
    BY <2>2 DEF Follows, T, a
<1>6. \A i \in 1 .. n : f[i] = Typed(f[i - 1], keys[i])
  <2>1. \A i \in 1 .. n : <<i, f[i - 1]>> \in (1 .. n) \X Cuts
    <3>1. \A i \in 1 .. n : i - 1 \in 0 .. n
      BY <1>1
    <3> QED
      BY <3>1
  <2> QED
    BY <1>5, <2>1
<1> HIDE DEF G
<1>7. Is(f)
  <2>1. \A i \in 0 .. n : f[i] = IF i = 0 THEN <<<<>>>> ELSE Typed(f[i - 1], keys[i])
    <3>1. \A i \in 0 .. n : i # 0 => i \in 1 .. n
      BY <1>1
    <3> QED
      BY <1>5, <1>6, <3>1
  <2>2. f = [i \in 0 .. n |-> f[i]]
    OBVIOUS
  <2> QED
    BY <2>1, <2>2
<1>8. Is(h)
  <2> HIDE DEF Is
  <2> QED
    BY <1>7
<1>9. h[n] = f[n]
  <2> HIDE DEF h
  <2>1. h[0] = <<<<>>>> /\ \A i \in 1 .. n : h[i] = Typed(h[i - 1], keys[i])
    <3>1. 0 \in 0 .. n /\ \A i \in 1 .. n : i \in 0 .. n /\ i # 0
      BY <1>1
    <3> QED
      BY <1>8, <3>1
  <2>2. Agree(n, h, f)
    BY <1>5, <1>6, <2>1 DEF Agree
  <2> HIDE DEF Is
  <2>3. \A i \in 0 .. n : h[i] = f[i]
    BY <1>1, <2>2, SameSteps
  <2> QED
    BY <1>1, <2>3
<1> HIDE DEF h, Is
<1> QED
  BY <1>2, <1>5, <1>6, <1>9 DEF n

\* No keys make one empty line; a key more goes into the last line or ends it.
LEMMA LinesFacts ==
  /\ LinesOf(<<>>) = <<<<>>>>
  /\ \A keys \in Seq(Keys) : LinesOf(keys) \in Cuts
  /\ \A keys \in Seq(Keys), k \in Keys :
       LinesOf(Append(keys, k)) = Typed(LinesOf(keys), k)
<1>1. LinesOf(<<>>) = <<<<>>>>
  <2> DEFINE no == <<>>
  <2>1. no \in Seq(Keys) /\ Len(no) = 0
    BY EmptySeq
  <2> HIDE DEF no
  <2>2. PICK f \in [0 .. Len(no) -> Cuts] : f[0] = <<<<>>>> /\ LinesOf(no) = f[Len(no)]
    BY <2>1, LinesSteps
  <2> QED
    BY <2>1, <2>2 DEF no
<1>2. ASSUME NEW keys \in Seq(Keys) PROVE LinesOf(keys) \in Cuts
  <2>1. PICK f \in [0 .. Len(keys) -> Cuts] : LinesOf(keys) = f[Len(keys)]
    BY LinesSteps
  <2>2. Len(keys) \in 0 .. Len(keys)
    BY LenProperties
  <2> QED
    BY <2>1, <2>2
<1>3. ASSUME NEW keys \in Seq(Keys), NEW k \in Keys
      PROVE  LinesOf(Append(keys, k)) = Typed(LinesOf(keys), k)
  <2> DEFINE more == Append(keys, k)
             n == Len(keys)
  <2>1. /\ n \in Nat /\ more \in Seq(Keys) /\ Len(more) = n + 1 /\ more[n + 1] = k
        /\ \A i \in 1 .. n : more[i] = keys[i]
    BY AppendProperties, LenProperties
  <2>2. PICK f \in [0 .. n -> Cuts] :
          /\ f[0] = <<<<>>>> /\ \A i \in 1 .. n : f[i] = Typed(f[i - 1], keys[i])
          /\ LinesOf(keys) = f[n]
    BY LinesSteps
  <2> HIDE DEF more, n
  <2>3. PICK g \in [0 .. n + 1 -> Cuts] :
          /\ g[0] = <<<<>>>> /\ \A i \in 1 .. n + 1 : g[i] = Typed(g[i - 1], more[i])
          /\ LinesOf(more) = g[n + 1]
    <3>1. \E g \in [0 .. Len(more) -> Cuts] :
          /\ g[0] = <<<<>>>> /\ \A i \in 1 .. Len(more) : g[i] = Typed(g[i - 1], more[i])
          /\ LinesOf(more) = g[Len(more)]
      BY <2>1, LinesSteps
    <3> QED
      BY <2>1, <3>1
  <2>4. Agree(n, f, g)
    <3>1. \A i \in 1 .. n : i \in 1 .. n + 1
      BY <2>1
    <3> QED
      BY <2>1, <2>2, <2>3, <3>1 DEF Agree
  <2>5. f[n] = g[n]
    <3>1. n \in Nat
      BY <2>1
    <3>2. \A i \in 0 .. n : f[i] = g[i]
      BY <3>1, <2>4, SameSteps, ZenonT(30)
    <3> QED
      BY <3>1, <3>2
  <2>6. n + 1 \in 1 .. n + 1 /\ (n + 1) - 1 = n
    BY <2>1
  <2>7. g[n + 1] = Typed(g[n], k)
    BY <2>1, <2>3, <2>6
  <2>8. LinesOf(more) = Typed(LinesOf(keys), k)
    BY <2>2, <2>3, <2>5, <2>7
  <2> QED
    BY <2>8 DEF more
<1> QED
  BY <1>1, <1>2, <1>3

-----------------------------------------------------------------------------
(***************************************************************************)
(* The invariant: ranges, and what the screen shows.                       *)
(***************************************************************************)
EditorInv == TypeOK /\ ScreenShowsLine

Shown == Chars \cup ToSet(Prompt)

LEMMA ShownSeqs ==
  /\ Prompt \in Seq(Shown) /\ \A s \in Seq(Chars) : s \in Seq(Shown) /\ Prompt \o s \in Seq(Shown)
  /\ Chars \subseteq Shown /\ Chars \subseteq Keys
<1>1. DOMAIN Prompt = 1 .. Len(Prompt) /\ Len(Prompt) \in Nat
  BY EditorAssumption, LenProperties
<1>2. \A i \in 1 .. Len(Prompt) : Prompt[i] \in Shown
  BY <1>1 DEF Shown, ToSet
<1>3. SubSeq(Prompt, 1, Len(Prompt)) \in Seq(Shown) /\ SubSeq(Prompt, 1, Len(Prompt)) = Prompt
  BY <1>1, <1>2, SubSeqProperties, SubSeqFull, EditorAssumption
<1>4. Chars \subseteq Shown /\ Chars \subseteq Keys
  BY DEF Shown, Keys
<1>5. \A s \in Seq(Chars) : s \in Seq(Shown)
  BY <1>4, SeqMonotonic
<1> QED
  BY <1>3, <1>4, <1>5, ConcatProperties

LEMMA EditorInit == Init => EditorInv
<1> SUFFICES ASSUME Init PROVE EditorInv
  OBVIOUS
<1>1. request \in Requests /\ request.max \in Nat \ {0}
  BY EditorAssumption DEF Init
<1>2. <<>> \in Seq(Chars) /\ <<>> \in Seq(Keys) /\ <<>> \in Seq(Shown) /\ Len(<<>>) = 0
  BY EmptySeq
<1>3. key \in Keys
  BY DEF Init, Keys
<1>4. line = <<>> /\ Len(line) < request.max
  BY <1>1, <1>2 DEF Init
<1> QED
  BY <1>1, <1>2, <1>3, <1>4 DEF Init, EditorInv, TypeOK, ScreenShowsLine, Shown

LEMMA CallKeepsEditor == ASSUME EditorInv, NEW r \in Requests, Call(r) PROVE EditorInv'
<1>1. r.max \in Nat \ {0} /\ <<>> \in Seq(Chars) /\ Len(<<>>) = 0
  BY EditorAssumption, EmptySeq
<1>2. Prompt \in Seq(Shown) /\ Prompt \o <<>> = Prompt
  BY ShownSeqs, ConcatEmptySeq
<1>3. IsPrefix(Prompt, Prompt)
  BY <1>2, PrefixElements, LenProperties
<1>4. key' \in Keys
  BY DEF Call, Keys
<1> QED
  BY <1>1, <1>2, <1>3, <1>4 DEF Call, EditorInv, TypeOK, ScreenShowsLine, Shown

LEMMA PressKeepsEditor == ASSUME EditorInv, NEW k \in Keys, Press(k) PROVE EditorInv'
<1>1. keyboard' \in Seq(Keys) /\ pressed' \in Seq(Keys)
  BY AppendProperties DEF Press, EditorInv, TypeOK
<1> QED
  BY <1>1 DEF Press, EditorInv, TypeOK, ScreenShowsLine, editor

\* What a round of the loop leaves: the keys, and that a line is being read.
LEMMA ReadsTypes ==
  ASSUME EditorInv, NEW k, Reads(k)
  PROVE  /\ pc = "reading" /\ request' = request /\ pressed' = pressed /\ key' = k /\ k \in Keys
         /\ keyboard' \in Seq(Keys) /\ repeated' \in BOOLEAN
         /\ line \in Seq(Chars) /\ Len(line) < request.max /\ screen \in Seq(Shown)
         /\ request.max \in Nat \ {0} /\ request.echo \in BOOLEAN
<1> USE DEF EditorInv, TypeOK
<1>1. CASE NextKey(k)
  <2>1. keyboard # <<>> /\ k = Head(keyboard) /\ keyboard' = Tail(keyboard) /\ repeated' = repeated
    BY <1>1 DEF NextKey
  <2>2. k \in Keys /\ keyboard' \in Seq(Keys)
    BY <2>1, HeadTailProperties
  <2> QED
    BY <2>1, <2>2, EditorAssumption DEF Reads, Shown
<1>2. CASE NoKey(k)
  <2>1. k \in Keys /\ keyboard' = keyboard /\ repeated' \in BOOLEAN
    BY <1>2 DEF NoKey, Keys
  <2> QED
    BY <2>1, EditorAssumption DEF Reads, Shown
<1> QED
  BY <1>1, <1>2 DEF Reads

LEMMA ReadKeepsEditor == EditorInv /\ Read => EditorInv'
<1> SUFFICES ASSUME EditorInv, Read PROVE EditorInv'
  OBVIOUS
<1>1. CASE NoChar
  BY <1>1, ReadsTypes DEF NoChar, EditorInv, TypeOK, ScreenShowsLine
<1>2. CASE Enter
  <2>1. <<>> \in Seq(Shown)
    BY EmptySeq
  <2> QED
    BY <1>2, <2>1, ReadsTypes DEF Enter, EditorInv, TypeOK, ScreenShowsLine, Shown
<1>3. CASE Back
  <2>1. Reads("back") /\ pc' = pc
    BY <1>3 DEF Back
  <2>2. CASE line = <<>>
    BY <1>3, <2>1, <2>2, ReadsTypes DEF Back, Erasable, EditorInv, TypeOK, ScreenShowsLine
  <2>3. CASE line # <<>>
    <3>1. line' = Front(line) /\ screen' = Erased(screen)
      BY <1>3, <2>3 DEF Back, Erasable
    <3>2. Front(line) \in Seq(Chars) /\ Len(Front(line)) < request.max
      BY <2>1, <2>3, ReadsTypes, FrontOps
    <3>3. CASE request.echo
      <4>1. screen = Prompt \o line
        BY <2>1, <3>3, ReadsTypes DEF EditorInv, ScreenShowsLine
      <4>2. line \in Seq(Shown) /\ Prompt \in Seq(Shown)
        BY <2>1, ReadsTypes, ShownSeqs
      <4>3. screen # <<>> /\ Front(screen) = Prompt \o Front(line)
        BY <2>3, <4>1, <4>2, FrontOfConcat
      <4>4. screen' = Prompt \o line' /\ screen' \in Seq(Shown)
        BY <3>1, <3>2, <4>3, ShownSeqs DEF Erased
      <4> QED
        BY <2>1, <3>1, <3>2, <3>3, <4>4, ReadsTypes DEF EditorInv, TypeOK, ScreenShowsLine, Shown
    <3>4. CASE ~ request.echo
      <4>1. IsPrefix(screen, Prompt)
        BY <2>1, <3>4, ReadsTypes DEF EditorInv, ScreenShowsLine
      <4>2. Erased(screen) \in Seq(Shown) /\ IsPrefix(Erased(screen), Prompt)
        BY <2>1, <4>1, ReadsTypes, ShownSeqs, ErasedPrefix
      <4> QED
        BY <2>1, <3>1, <3>2, <3>4, <4>2, ReadsTypes DEF EditorInv, TypeOK, ScreenShowsLine, Shown
    <3> QED
      BY <3>3, <3>4
  <2> QED
    BY <2>2, <2>3
<1>4. ASSUME NEW c \in Chars, Drop(c) PROVE EditorInv'
  BY <1>4, ReadsTypes DEF Drop, HideDropped, EditorInv, TypeOK, ScreenShowsLine
<1>5. ASSUME NEW c \in Chars, Type(c) PROVE EditorInv'
  <2>1. /\ Reads(c) /\ ~ (Len(line) + 1 >= request.max) /\ line' = Append(line, c) /\ pc' = pc
        /\ screen' = IF request.echo THEN Append(screen, c) ELSE screen
    BY <1>5 DEF Type, Full
  <2>2. Append(line, c) \in Seq(Chars) /\ Len(Append(line, c)) = Len(line) + 1 /\ Len(line) \in Nat
    BY <2>1, ReadsTypes, AppendProperties, LenProperties
  <2>3. Len(line') < request.max
    BY <2>1, <2>2, ReadsTypes
  <2>4. screen' \in Seq(Shown)
    BY <2>1, ReadsTypes, ShownSeqs, AppendProperties
  <2>5. request.echo => screen' = Prompt \o line'
    <3> SUFFICES ASSUME request.echo PROVE Append(screen, c) = Prompt \o Append(line, c)
      BY <2>1
    <3>0. screen = Prompt \o line
      BY <2>1, ReadsTypes DEF EditorInv, ScreenShowsLine
    <3>1. line \in Seq(Shown) /\ Prompt \in Seq(Shown) /\ c \in Shown
      BY <2>1, ReadsTypes, ShownSeqs
    <3>2. Append(Prompt \o line, c) = Prompt \o Append(line, c)
      <4>1. /\ Prompt \o line \in Seq(Shown) /\ <<c>> \in Seq(Shown)
            /\ (Prompt \o line) \o <<c>> = Prompt \o (line \o <<c>>)
        BY <3>1, ConcatProperties, ConcatAssociative
      <4>2. Append(line, c) = line \o <<c>>
        BY <3>1, AppendIsConcat
      <4>3. Append(Prompt \o line, c) = (Prompt \o line) \o <<c>>
        BY <3>1, <4>1, AppendIsConcat
      <4> QED
        BY <4>1, <4>2, <4>3
    <3>3. Append(screen, c) = Append(Prompt \o line, c)
      BY <3>0
    <3> QED
      BY <3>2, <3>3
  <2> QED
    BY <2>1, <2>2, <2>3, <2>4, <2>5, ReadsTypes DEF EditorInv, TypeOK, ScreenShowsLine, Shown
<1> QED
  BY <1>1, <1>2, <1>3, <1>4, <1>5 DEF Read

-----------------------------------------------------------------------------
(***************************************************************************)
(* The invariant for the lines: the keyboard holds the keys pressed last,  *)
(* those before are taken, and between two calls the last Enter was the    *)
(* last key taken.                                                         *)
(***************************************************************************)
KeysInOrder ==
  /\ Len(keyboard) <= Len(pressed)
  /\ \A i \in 1 .. Len(keyboard) : keyboard[i] = pressed[Len(pressed) - Len(keyboard) + i]

LinesInv ==
  /\ got \in Seq([text : Seq(Chars), max : Nat])
  /\ KeysInOrder /\ LinesAreTyped
  /\ ~ repeated /\ pc = "caller" => LinesOf(Taken)[Len(LinesOf(Taken))] = <<>>

\* The keys taken are keys, and a key pressed is not taken yet.
LEMMA TakenKeys == EditorInv /\ LinesInv => Taken \in Seq(Keys)
<1> SUFFICES ASSUME EditorInv, LinesInv PROVE Taken \in Seq(Keys)
  OBVIOUS
<1>1. pressed \in Seq(Keys) /\ keyboard \in Seq(Keys) /\ Len(keyboard) <= Len(pressed)
  BY DEF EditorInv, TypeOK, LinesInv, KeysInOrder
<1>2. Len(pressed) - Len(keyboard) \in 0 .. Len(pressed)
  BY <1>1, LenProperties
<1> QED
  BY <1>1, <1>2, Beginnings DEF Taken

LEMMA PressKeepsLines ==
  ASSUME EditorInv, LinesInv, NEW k \in Keys, Press(k) PROVE LinesInv'
<1>1. /\ pressed \in Seq(Keys) /\ keyboard \in Seq(Keys) /\ Len(keyboard) <= Len(pressed)
      /\ \A i \in 1 .. Len(keyboard) : keyboard[i] = pressed[Len(pressed) - Len(keyboard) + i]
  BY DEF EditorInv, TypeOK, LinesInv, KeysInOrder
<1> DEFINE m == Len(pressed) - Len(keyboard)
<1>2. /\ Len(pressed) \in Nat /\ Len(keyboard) \in Nat /\ m \in 0 .. Len(pressed)
      /\ Len(pressed) = m + Len(keyboard)
  BY <1>1, LenProperties
<1>3. /\ Len(pressed') = Len(pressed) + 1 /\ pressed'[Len(pressed) + 1] = k
      /\ \A i \in 1 .. Len(pressed) : pressed'[i] = pressed[i]
  BY <1>1, AppendProperties DEF Press
<1>4. /\ Len(keyboard') = Len(keyboard) + 1 /\ keyboard'[Len(keyboard) + 1] = k
      /\ \A i \in 1 .. Len(keyboard) : keyboard'[i] = keyboard[i]
  BY <1>1, AppendProperties DEF Press
<1>5. Len(pressed') - Len(keyboard') = m
  BY <1>2, <1>3, <1>4
<1>6. Taken' = Taken
  <2>1. pressed' = Append(pressed, k)
    BY DEF Press
  <2>2. SubSeq(Append(pressed, k), 1, m) = SubSeq(pressed, 1, m)
    <3> HIDE DEF m
    <3> QED
      BY <1>1, <1>2, Beginnings
  <2> QED
    BY <1>5, <2>1, <2>2 DEF Taken
<1> HIDE DEF m
<1>7. KeysInOrder'
  <2>1. \A i \in 1 .. Len(keyboard) : m + i \in 1 .. Len(pressed)
    BY <1>2
  <2>2. \A i \in 1 .. Len(keyboard) : keyboard[i] = pressed[m + i]
    BY <1>1 DEF m
  <2>3. \A i \in 1 .. Len(keyboard) + 1 : keyboard'[i] = pressed'[m + i]
    <3>1. \A i \in 1 .. Len(keyboard) : keyboard'[i] = pressed'[m + i]
      BY <1>3, <1>4, <2>1, <2>2
    <3>2. keyboard'[Len(keyboard) + 1] = pressed'[m + (Len(keyboard) + 1)]
      <4>1. m + (Len(keyboard) + 1) = Len(pressed) + 1
        BY <1>2
      <4> QED
        BY <1>3, <1>4, <4>1
    <3>3. \A i \in 1 .. Len(keyboard) + 1 : i \in 1 .. Len(keyboard) \/ i = Len(keyboard) + 1
      BY <1>2
    <3> QED
      BY <3>1, <3>2, <3>3
  <2>4. Len(keyboard') <= Len(pressed')
    BY <1>2, <1>3, <1>4
  <2> QED
    BY <1>4, <1>5, <2>3, <2>4 DEF KeysInOrder
<1> QED
  BY <1>6, <1>7 DEF Press, editor, LinesInv, LinesAreTyped

LEMMA CallKeepsLines ==
  ASSUME EditorInv, LinesInv, NEW r \in Requests, Call(r) PROVE LinesInv'
<1>1. Taken' = Taken /\ KeysInOrder'
  BY DEF Call, Taken, LinesInv, KeysInOrder
<1>2. r.max \in Nat
  BY EditorAssumption
<1>3. ~ repeated => LinesOf(Taken)[Len(LinesOf(Taken))] = <<>>
  BY DEF Call, LinesInv
<1>4. Edited(<<>>, r.max) = <<>>
  BY <1>2, EditedFacts
<1> QED
  BY <1>1, <1>3, <1>4 DEF Call, LinesInv, LinesAreTyped

\* A round of the loop takes the next key, or finds none and makes nothing of it.
LEMMA ReadsTakes ==
  ASSUME EditorInv, LinesInv, NEW k, Reads(k)
  PROVE  /\ KeysInOrder'
         /\ ~ repeated' => ~ repeated /\ (Taken' = Append(Taken, k) \/ (Taken' = Taken /\ k = "none"))
<1>1. /\ pressed \in Seq(Keys) /\ keyboard \in Seq(Keys) /\ Len(keyboard) <= Len(pressed)
      /\ \A i \in 1 .. Len(keyboard) : keyboard[i] = pressed[Len(pressed) - Len(keyboard) + i]
  BY DEF EditorInv, TypeOK, LinesInv, KeysInOrder
<1>2. pressed' = pressed
  BY DEF Reads
<1>3. CASE NoKey(k)
  <2>1. keyboard' = keyboard /\ Taken' = Taken /\ KeysInOrder'
    BY <1>2, <1>3 DEF NoKey, Taken, LinesInv, KeysInOrder
  <2> QED
    BY <1>3, <2>1 DEF NoKey, EditorInv, TypeOK
<1>4. CASE NextKey(k)
  <2> DEFINE m == Len(pressed) - Len(keyboard)
  <2>1. keyboard # <<>> /\ k = Head(keyboard) /\ keyboard' = Tail(keyboard) /\ repeated' = repeated
    BY <1>4 DEF NextKey
  <2>2. /\ Len(keyboard) \in Nat /\ Len(keyboard) # 0 /\ Len(pressed) \in Nat
        /\ Len(keyboard') = Len(keyboard) - 1 /\ k = keyboard[1]
        /\ \A i \in 1 .. Len(keyboard) - 1 : keyboard'[i] = keyboard[i + 1]
    BY <1>1, <2>1, HeadTailProperties, LenProperties, EmptySeq
  <2>3. /\ m \in 0 .. Len(pressed) /\ m < Len(pressed) /\ Len(pressed') - Len(keyboard') = m + 1
        /\ \A i \in 1 .. Len(keyboard) : keyboard[i] = pressed[m + i]
    BY <1>1, <1>2, <2>2
  <2> HIDE DEF m
  <2>4. pressed[m + 1] = k
    BY <2>2, <2>3
  <2>5. Taken' = Append(Taken, k)
    <3>1. SubSeq(pressed, 1, m + 1) = Append(SubSeq(pressed, 1, m), pressed[m + 1])
      BY <1>1, <2>3, Beginnings
    <3>2. Taken = SubSeq(pressed, 1, m) /\ Taken' = SubSeq(pressed, 1, m + 1)
      BY <1>2, <2>3 DEF Taken, m
    <3> QED
      BY <2>4, <3>1, <3>2
  <2>6. KeysInOrder'
    <3>1. ASSUME NEW i \in 1 .. Len(keyboard') PROVE keyboard'[i] = pressed'[(m + 1) + i]
      <4>1. i \in 1 .. Len(keyboard) - 1 /\ i + 1 \in 1 .. Len(keyboard) /\ m + (i + 1) = (m + 1) + i
        BY <2>2, <2>3
      <4>2. keyboard'[i] = keyboard[i + 1] /\ keyboard[i + 1] = pressed[m + (i + 1)]
        BY <2>2, <2>3, <4>1
      <4> QED
        BY <1>2, <4>1, <4>2
    <3>2. Len(keyboard') <= Len(pressed')
      BY <1>1, <1>2, <2>2
    <3> QED
      BY <2>3, <3>1, <3>2 DEF KeysInOrder
  <2> QED
    BY <2>1, <2>5, <2>6
<1> QED
  BY <1>3, <1>4 DEF Reads

\* A key that does not end the line is what Edit makes of the line.
LEMMA LineGoesOn ==
  ASSUME EditorInv, LinesInv, NEW k, Reads(k), k # "enter",
         pc' = pc, got' = got, line' = Edit(line, k, request.max)
  PROVE  LinesInv'
<1>1. /\ pc = "reading" /\ request' = request /\ k \in Keys /\ request.max \in Nat /\ KeysInOrder'
      /\ got \in Seq([text : Seq(Chars), max : Nat])
  BY ReadsTypes, ReadsTakes DEF LinesInv
<1> SUFFICES ASSUME ~ repeated' PROVE LinesAreTyped'
  BY <1>1 DEF LinesInv, LinesAreTyped
<1>2. ~ repeated /\ (Taken' = Append(Taken, k) \/ (Taken' = Taken /\ k = "none"))
  BY ReadsTakes
<1>3. CASE Taken' = Taken /\ k = "none"
  <2>1. line' = line
    BY <1>3, EditorAssumption DEF Edit
  <2> QED
    BY <1>1, <1>2, <1>3, <2>1 DEF LinesInv, LinesAreTyped
<1>4. CASE Taken' = Append(Taken, k)
  <2> DEFINE s == LinesOf(Taken)
             n == Len(s)
             t == LinesOf(Taken')
  <2>1. Taken \in Seq(Keys) /\ s \in Cuts
    BY TakenKeys, LinesFacts
  <2>2. t = Typed(s, k)
    BY <1>1, <1>4, <2>1, LinesFacts
  <2>3. /\ n = Len(got) + 1 /\ line = Edited(s[n], request.max)
        /\ \A i \in DOMAIN got : got[i].text = Edited(s[i], got[i].max)
    BY <1>1, <1>2 DEF LinesInv, LinesAreTyped
  <2> HIDE DEF s, t
  <2>4. /\ t \in Cuts /\ n \in Nat /\ Len(t) = n /\ t[n] = Append(s[n], k)
        /\ \A i \in 1 .. n - 1 : t[i] = s[i]
    BY <1>1, <2>1, <2>2, TypedFacts
  <2>5. s[n] \in Seq(Keys)
    <3>1. n \in 1 .. n
      BY <2>1, <2>4 DEF Cuts
    <3> QED
      BY <2>1, <3>1, ElementOfSeq DEF Cuts
  <2> HIDE DEF n
  <2>6. line' = Edited(t[n], request.max)
    <3>1. Edited(Append(s[n], k), request.max) = Edit(Edited(s[n], request.max), k, request.max)
      BY <1>1, <2>5, EditedFacts
    <3> QED
      BY <1>1, <2>3, <2>4, <3>1
  <2>7. DOMAIN got = 1 .. n - 1
    <3>1. Len(got) \in Nat /\ DOMAIN got = 1 .. Len(got)
      BY <1>1, LenProperties
    <3> QED
      BY <2>3, <3>1
  <2>8. \A i \in DOMAIN got : got[i].text = Edited(t[i], got[i].max)
    BY <2>3, <2>4, <2>7
  <2>9. LinesOf(Taken') = t
    BY DEF t
  <2> QED
    BY <1>1, <2>3, <2>4, <2>6, <2>8, <2>9 DEF LinesAreTyped
<1> QED
  BY <1>2, <1>3, <1>4

LEMMA EnterKeepsLines == ASSUME EditorInv, LinesInv, Enter PROVE LinesInv'
<1> DEFINE r == [text |-> line, max |-> request.max]
           R == [text : Seq(Chars), max : Nat]
<1>1. /\ Reads("enter") /\ got' = Append(got, r) /\ pc' = "caller"
  BY DEF Enter
<1>2. /\ pc = "reading" /\ request' = request /\ request.max \in Nat /\ line \in Seq(Chars)
      /\ KeysInOrder' /\ got \in Seq(R)
  BY <1>1, ReadsTypes, ReadsTakes DEF LinesInv
<1>3. r \in R /\ r.text = line /\ r.max = request.max
  BY <1>2
<1> HIDE DEF r, R
<1>4. /\ got' \in Seq(R) /\ Len(got') = Len(got) + 1 /\ got'[Len(got) + 1] = r
      /\ \A i \in 1 .. Len(got) : got'[i] = got[i]
  BY <1>1, <1>2, <1>3, AppendProperties
<1> SUFFICES ASSUME ~ repeated'
             PROVE  LinesAreTyped' /\ LinesOf(Taken')[Len(LinesOf(Taken'))] = <<>>
  BY <1>2, <1>4 DEF LinesInv, LinesAreTyped, R
<1> DEFINE s == LinesOf(Taken)
           n == Len(s)
           t == LinesOf(Taken')
<1>5. ~ repeated /\ Taken' = Append(Taken, "enter")
  BY <1>1, ReadsTakes
<1>6. Taken \in Seq(Keys) /\ s \in Cuts /\ "enter" \in Keys
  BY TakenKeys, LinesFacts DEF Keys
<1>7. t = Typed(s, "enter")
  BY <1>5, <1>6, LinesFacts
<1>8. /\ n = Len(got) + 1 /\ line = Edited(s[n], request.max)
      /\ \A i \in DOMAIN got : got[i].text = Edited(s[i], got[i].max)
  BY <1>2, <1>5 DEF LinesInv, LinesAreTyped
<1> HIDE DEF s, t
<1>9. /\ n \in Nat /\ Len(t) = n + 1 /\ t[n + 1] = <<>> /\ \A i \in 1 .. n : t[i] = s[i]
  BY <1>6, <1>7, TypedFacts
<1> HIDE DEF n
<1>10. /\ Len(got) \in Nat /\ DOMAIN got = 1 .. Len(got) /\ DOMAIN got' = 1 .. n
  BY <1>2, <1>4, <1>8, LenProperties
<1>11. ASSUME NEW i \in DOMAIN got' PROVE got'[i].text = Edited(t[i], got'[i].max)
  <2>1. i \in 1 .. n /\ t[i] = s[i]
    BY <1>9, <1>10
  <2>2. CASE i = n
    BY <1>3, <1>4, <1>8, <2>1, <2>2
  <2>3. CASE i # n
    <3>1. i \in 1 .. Len(got)
      BY <1>8, <1>10, <2>1, <2>3
    <3> QED
      BY <1>4, <1>8, <1>10, <2>1, <3>1
  <2> QED
    BY <2>2, <2>3
<1>12. LinesOf(Taken') = t
  BY DEF t
<1>13. Len(t) = Len(got') + 1 /\ t[Len(t)] = <<>>
  BY <1>4, <1>8, <1>9, <1>10
<1> QED
  BY <1>1, <1>11, <1>12, <1>13 DEF LinesAreTyped

LEMMA ReadKeepsLines == EditorInv /\ LinesInv /\ Read => LinesInv'
<1> SUFFICES ASSUME EditorInv, LinesInv, Read PROVE LinesInv'
  OBVIOUS
<1>1. CASE NoChar
  <2>1. Edit(line, "none", request.max) = line
    BY EditorAssumption DEF Edit
  <2> QED
    BY <1>1, <2>1, LineGoesOn DEF NoChar
<1>2. CASE Enter
  BY <1>2, EnterKeepsLines DEF Enter
<1>3. CASE Back
  <2>1. Reads("back") /\ line' = Erased(line) /\ pc' = pc /\ got' = got
    BY <1>3 DEF Back, Erasable, Erased
  <2>2. Edit(line, "back", request.max) = Erased(line)
    BY EditorAssumption DEF Edit
  <2> QED
    BY <2>1, <2>2, LineGoesOn
<1>4. ASSUME NEW c \in Chars, Drop(c) PROVE LinesInv'
  <2>1. Reads(c) /\ Full /\ line' = line /\ pc' = pc /\ got' = got
    BY <1>4 DEF Drop
  <2>2. line \in Seq(Chars) /\ request.max \in Nat \ {0} /\ Len(line) \in Nat
    BY <2>1, ReadsTypes, LenProperties
  <2>3. ~ (Len(line) < request.max - 1)
    BY <2>1, <2>2 DEF Full
  <2>4. Edit(line, c, request.max) = line /\ c # "enter"
    BY <2>3, EditorAssumption DEF Edit
  <2> QED
    BY <2>1, <2>4, LineGoesOn
<1>5. ASSUME NEW c \in Chars, Type(c) PROVE LinesInv'
  <2>1. Reads(c) /\ ~ Full /\ line' = Append(line, c) /\ pc' = pc /\ got' = got
    BY <1>5 DEF Type
  <2>2. line \in Seq(Chars) /\ request.max \in Nat \ {0} /\ Len(line) \in Nat
    BY <2>1, ReadsTypes, LenProperties
  <2>3. Len(line) < request.max - 1
    BY <2>1, <2>2 DEF Full
  <2>4. Edit(line, c, request.max) = Append(line, c) /\ c # "enter"
    BY <2>3, EditorAssumption DEF Edit
  <2> QED
    BY <2>1, <2>4, LineGoesOn
<1> QED
  BY <1>1, <1>2, <1>3, <1>4, <1>5 DEF Read

LEMMA LinesInit == Init => LinesInv
<1> SUFFICES ASSUME Init PROVE LinesInv
  OBVIOUS
<1>1. /\ got = <<>> /\ keyboard = <<>> /\ pressed = <<>> /\ pc = "caller" /\ repeated = FALSE
      /\ Len(<<>>) = 0 /\ <<>> \in Seq(Keys) /\ <<>> \in Seq([text : Seq(Chars), max : Nat])
  BY EmptySeq DEF Init
<1>2. KeysInOrder
  BY <1>1 DEF KeysInOrder
<1>3. Taken = <<>>
  <2>1. 0 \in 0 .. Len(<<>>) /\ Len(pressed) - Len(keyboard) = 0
    BY <1>1
  <2>2. /\ SubSeq(<<>>, 1, 0) \in Seq(Keys)
        /\ Len(SubSeq(<<>>, 1, 0)) = IF 1 <= 0 THEN 0 - 1 + 1 ELSE 0
    BY <1>1, SubSeqProperties
  <2>3. SubSeq(<<>>, 1, 0) = <<>>
    BY <2>2, EmptySeq
  <2> QED
    BY <1>1, <2>1, <2>3 DEF Taken
<1>4. LinesOf(Taken) = <<<<>>>> /\ Len(<<<<>>>>) = 1
  BY <1>3, LinesFacts
<1>5. LinesAreTyped
  BY <1>1, <1>4 DEF LinesAreTyped
<1> QED
  BY <1>1, <1>2, <1>4, <1>5 DEF LinesInv

-----------------------------------------------------------------------------
LEMMA EditorAlways == Spec => [](EditorInv /\ LinesInv)
<1>1. EditorInv /\ LinesInv /\ [Next]_vars => (EditorInv /\ LinesInv)'
  <2>1. EditorInv /\ LinesInv /\ UNCHANGED vars => (EditorInv /\ LinesInv)'
    <3> SUFFICES ASSUME EditorInv, LinesInv, UNCHANGED vars PROVE EditorInv' /\ LinesInv'
      OBVIOUS
    <3>1. UNCHANGED <<pc, request, key, line, screen, keyboard, pressed, got, repeated>>
      BY DEF vars, editor
    <3>2. EditorInv'
      BY <3>1 DEF EditorInv, TypeOK, ScreenShowsLine
    <3>3. Taken' = Taken /\ KeysInOrder'
      BY <3>1 DEF Taken, LinesInv, KeysInOrder
    <3> QED
      BY <3>1, <3>2, <3>3 DEF LinesInv, LinesAreTyped
  <2>2. ASSUME EditorInv, LinesInv, Next PROVE EditorInv' /\ LinesInv'
    BY <2>2, CallKeepsEditor, PressKeepsEditor, ReadKeepsEditor,
       CallKeepsLines, PressKeepsLines, ReadKeepsLines DEF Next, Calls
  <2> QED
    BY <2>1, <2>2
<1> QED
  BY <1>1, EditorInit, LinesInit, PTL DEF Spec

(***************************************************************************)
(* TypeOK: the line and its terminating zero fit into the caller's buffer  *)
(* for every buffer size and whatever the firmware leaves in the key.      *)
(***************************************************************************)
THEOREM LineFitsBuffer == Spec => []TypeOK
BY EditorAlways, PTL DEF EditorInv

(***************************************************************************)
(* ScreenShowsLine: with echo the screen shows the line that would be      *)
(* returned, without it nothing typed.                                     *)
(***************************************************************************)
THEOREM ScreenIsHonest == Spec => []ScreenShowsLine
BY EditorAlways, PTL DEF EditorInv

(***************************************************************************)
(* LinesAreTyped: with firmware that clears the key, every key pressed     *)
(* goes into one line, in the order pressed and once, whenever it is       *)
(* pressed and whichever prompts ask.                                      *)
(***************************************************************************)
THEOREM EveryLineIsTyped == Spec => []LinesAreTyped
BY EditorAlways, PTL DEF LinesInv
=============================================================================
