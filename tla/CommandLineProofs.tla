-------------------------- MODULE CommandLineProofs --------------------------
(***************************************************************************)
(* How a text becomes commands, for all texts, names of the commands and   *)
(* limits on the words.                                                    *)
(***************************************************************************)
EXTENDS CommandLine, SequenceFacts, FiniteSetTheorems, TLAPS

Texts == Seq(STRING)

-----------------------------------------------------------------------------
(***************************************************************************)
(* Searching a text, and its runs.                                         *)
(***************************************************************************)
\* f is the first position from i on of a character of chars, or the end.
IsFirst(text, i, chars, f) ==
  /\ f \in i .. Len(text) + 1
  /\ \A j \in i .. f - 1 : text[j] \notin chars
  /\ f # Len(text) + 1 => text[f] \in chars

\* FirstFrom finds it.
LEMMA FirstFromIs ==
  ASSUME NEW text \in Texts, NEW i \in 1 .. Len(text) + 1, NEW chars
  PROVE  IsFirst(text, i, chars, FirstFrom(text, i, chars))
<1> DEFINE n == Len(text)
           S == {j \in i .. n : text[j] \in chars}
           T == S \cup {n + 1}
           f == FirstFrom(text, i, chars)
<1>1. n \in Nat /\ i \in 1 .. n + 1
  BY LenProperties DEF Texts
<1>2. f = Min(T)
  BY DEF FirstFrom
<1> HIDE DEF n, f
<1>3. T \in SUBSET Nat /\ T # {}
  BY <1>1
<1>4. f \in T /\ \A j \in T : f <= j
  <2> HIDE DEF T
  <2> QED
    BY <1>2, <1>3, MinOf
<1>5. f \in i .. n + 1 /\ (f # n + 1 => text[f] \in chars)
  BY <1>1, <1>4
<1>6. ASSUME NEW j \in i .. f - 1 PROVE text[j] \notin chars
  <2>1. j \in i .. n /\ ~ (f <= j)
    BY <1>1, <1>5
  <2> QED
    BY <1>4, <2>1
<1> QED
  BY <1>5, <1>6 DEF IsFirst, n, f

\* Skipping the characters of a set stops at the first that is not one.
LEMMA SkipIs ==
  ASSUME NEW text \in Texts, NEW i \in 1 .. Len(text) + 1
  PROVE  LET s == SkipBlanks(text, i)
         IN  /\ s \in i .. Len(text) + 1
             /\ \A j \in i .. s - 1 : IsBlank(text[j])
             /\ s # Len(text) + 1 => ~ IsBlank(text[s])
<1> DEFINE s == SkipBlanks(text, i)
           C == ToSet(text) \ Blanks
<1>1. Len(text) \in Nat /\ DOMAIN text = 1 .. Len(text)
  BY LenProperties DEF Texts
<1>2. IsFirst(text, i, C, s)
  BY FirstFromIs DEF SkipBlanks
<1> HIDE DEF s
<1>3. s \in i .. Len(text) + 1
  BY <1>2 DEF IsFirst
<1>4. ASSUME NEW j \in i .. s - 1 PROVE IsBlank(text[j])
  <2>1. j \in DOMAIN text
    BY <1>1, <1>3
  <2>2. text[j] \in ToSet(text)
    BY <2>1 DEF ToSet
  <2> QED
    BY <1>2, <2>2 DEF IsFirst, IsBlank
<1>5. s # Len(text) + 1 => ~ IsBlank(text[s])
  BY <1>2 DEF IsFirst, IsBlank
<1> QED
  BY <1>3, <1>4, <1>5 DEF s

\* A run ends before the first character of its set.
LEMMA RunIs ==
  ASSUME NEW text \in Texts, NEW i \in 1 .. Len(text) + 1, NEW chars,
         NEW f, IsFirst(text, i, chars, f)
  PROVE  Run(text, i, chars) = SubSeq(text, i, f - 1)
<1> DEFINE n == Len(text)
           S == {j \in i .. n : \A k \in i .. j : text[k] \notin chars}
           T == {i - 1} \cup S
           m == Max(T)
<1>1. n \in Nat /\ i \in 1 .. n + 1
  BY LenProperties DEF Texts
<1>2. /\ f \in i .. n + 1 /\ (\A j \in i .. f - 1 : text[j] \notin chars)
      /\ (f # n + 1 => text[f] \in chars)
  BY DEF IsFirst
<1> HIDE DEF n
<1>3. T \in SUBSET (0 .. n) /\ T # {}
  BY <1>1
<1>4. m \in T /\ \A j \in T : m >= j
  <2> HIDE DEF T
  <2> QED
    BY <1>1, <1>3, MaxOf
<1> HIDE DEF m
<1>5. f - 1 \in T
  <2>1. CASE f = i
    BY <2>1
  <2>2. CASE f # i
    <3>1. f - 1 \in i .. n
      BY <1>1, <1>2, <2>2
    <3> QED
      BY <1>2, <3>1
  <2> QED
    BY <2>1, <2>2
<1>6. ~ (m > f - 1)
  <2> SUFFICES ASSUME m > f - 1 PROVE FALSE
    OBVIOUS
  <2>1. m # i - 1 /\ m \in S
    BY <1>1, <1>2, <1>4
  <2>2. f \in i .. m /\ f # n + 1
    BY <1>1, <1>2, <2>1
  <2> QED
    BY <1>2, <2>1, <2>2
<1>7. m = f - 1
  <2>1. m \in Int /\ f \in Int
    BY <1>1, <1>2, <1>3, <1>4
  <2>2. m >= f - 1
    BY <1>4, <1>5
  <2> QED
    BY <1>6, <2>1, <2>2
<1> QED
  BY <1>7 DEF Run, m, n

\* Where a text has a character, PositionOf is the place of the first.
LEMMA PositionIs ==
  ASSUME NEW text \in Texts, NEW x, NEW i \in DOMAIN text, text[i] = x
  PROVE  LET at == PositionOf(text, x)
         IN  at \in 1 .. Len(text) /\ text[at] = x /\ IsFirst(text, 1, {x}, at)
<1> DEFINE at == PositionOf(text, x)
<1>1. Len(text) \in Nat /\ DOMAIN text = 1 .. Len(text)
  BY LenProperties DEF Texts
<1>2. 1 \in 1 .. Len(text) + 1
  BY <1>1
<1>3. IsFirst(text, 1, {x}, at)
  BY <1>2, FirstFromIs DEF PositionOf
<1> HIDE DEF at
<1>4. /\ at \in 1 .. Len(text) + 1
      /\ \A j \in 1 .. at - 1 : text[j] # x
      /\ at # Len(text) + 1 => text[at] = x
  BY <1>3 DEF IsFirst
<1>5. at # Len(text) + 1
  <2> SUFFICES ASSUME at = Len(text) + 1 PROVE FALSE
    OBVIOUS
  <2>1. i \in 1 .. at - 1
    BY <1>1
  <2> QED
    BY <1>4, <2>1
<1>6. at \in 1 .. Len(text)
  BY <1>1, <1>4, <1>5
<1> QED
  BY <1>3, <1>4, <1>5, <1>6 DEF at

-----------------------------------------------------------------------------
(***************************************************************************)
(* Where a number stands in a set of positions.                            *)
(***************************************************************************)
Below(S, i) == Cardinality({j \in S : j < i})

Positions(S) == \E n \in Nat : S \in SUBSET (1 .. n)

\* Positions are finite in number.
LEMMA PartFinite ==
  ASSUME NEW S, Positions(S)
  PROVE  /\ IsFiniteSet(S) /\ Cardinality(S) \in Nat /\ S \subseteq Int
         /\ \A T \in SUBSET S : /\ IsFiniteSet(T) /\ Cardinality(T) \in Nat
                                /\ Cardinality(T) <= Cardinality(S)
<1>1. PICK n \in Nat : S \in SUBSET (1 .. n)
  BY DEF Positions
<1>2. IsFiniteSet(1 .. n)
  BY FS_Interval
<1>3. IsFiniteSet(S)
  BY <1>1, <1>2, FS_Subset
<1>4. ASSUME NEW T \in SUBSET S
      PROVE  IsFiniteSet(T) /\ Cardinality(T) \in Nat /\ Cardinality(T) <= Cardinality(S)
  BY <1>3, FS_Subset, FS_CardinalityType
<1>5. S \subseteq Int
  BY <1>1
<1> QED
  BY <1>3, <1>4, <1>5, FS_CardinalityType

\* How many are below one of them, below all and above all.
LEMMA BelowFacts ==
  ASSUME NEW S, Positions(S), NEW i \in Int
  PROVE  /\ Below(S, i) \in Nat /\ Below(S, i) <= Cardinality(S) /\ Cardinality(S) \in Nat
         /\ i \in S => Below(S, i) < Cardinality(S) /\ Place(S, i) = Below(S, i) + 1
         /\ (\A j \in S : j < i) => Below(S, i) = Cardinality(S)
         /\ (\A j \in S : ~ (j < i)) => Below(S, i) = 0
<1> DEFINE T == {j \in S : j < i}
           U == {j \in S : j <= i}
<1>1. T \in SUBSET S /\ U \in SUBSET S
  OBVIOUS
<1>2. Below(S, i) = Cardinality(T) /\ Place(S, i) = Cardinality(U)
  BY DEF Below, Place
<1>3. ASSUME i \in S PROVE i \notin T /\ U = T \cup {i}
  <2>1. \A j \in S : j \in Int
    BY PartFinite
  <2>2. \A j \in S : j <= i <=> j < i \/ j = i
    BY <2>1
  <2>3. ~ (i < i)
    OBVIOUS
  <2> QED
    BY <1>3, <2>2, <2>3
<1>4. ASSUME \A j \in S : j < i PROVE T = S
  BY <1>4
<1>5. ASSUME \A j \in S : ~ (j < i) PROVE T = {}
  BY <1>5
<1> HIDE DEF T, U
<1>6. /\ IsFiniteSet(T) /\ Cardinality(T) \in Nat /\ Cardinality(T) <= Cardinality(S)
      /\ Cardinality(U) \in Nat /\ Cardinality(U) <= Cardinality(S) /\ Cardinality(S) \in Nat
  BY <1>1, PartFinite
<1>7. ASSUME i \in S PROVE Cardinality(U) = Cardinality(T) + 1
  BY <1>3, <1>6, <1>7, FS_AddElement
<1>8. Cardinality({}) = 0
  BY FS_EmptySet
<1>9. i \in S => Below(S, i) < Cardinality(S) /\ Place(S, i) = Below(S, i) + 1
  BY <1>2, <1>6, <1>7
<1>10. (\A j \in S : j < i) => Below(S, i) = Cardinality(S)
  BY <1>2, <1>4
<1>11. (\A j \in S : ~ (j < i)) => Below(S, i) = 0
  BY <1>2, <1>5, <1>8
<1> QED
  BY <1>2, <1>6, <1>9, <1>10, <1>11

\* As many are below m as below i, or one more.
LEMMA BelowNext ==
  ASSUME NEW S, Positions(S), NEW i \in Int, NEW m \in Int, i < m,
         \A j \in S : i < j => m <= j
  PROVE  Below(S, m) = IF i \in S THEN Below(S, i) + 1 ELSE Below(S, i)
<1> DEFINE T == {j \in S : j < i}
           U == {j \in S : j < m}
<1>1. \A j \in S : j \in Int
  BY PartFinite
<1>2. \A j \in S : (j < m <=> j < i \/ j = i)
  BY <1>1
<1>3. ASSUME i \in S PROVE i \notin T /\ U = T \cup {i}
  <2>1. ~ (i < i)
    OBVIOUS
  <2> QED
    BY <1>2, <1>3, <2>1
<1>4. ASSUME i \notin S PROVE U = T
  BY <1>2, <1>4
<1>5. T \in SUBSET S /\ Below(S, i) = Cardinality(T) /\ Below(S, m) = Cardinality(U)
  BY DEF Below
<1> HIDE DEF T, U
<1>6. IsFiniteSet(T)
  BY <1>5, PartFinite
<1>7. CASE i \in S
  BY <1>3, <1>5, <1>6, <1>7, FS_AddElement
<1>8. CASE i \notin S
  BY <1>4, <1>5, <1>8
<1> QED
  BY <1>7, <1>8

\* The higher has more below it,
LEMMA BelowGrows ==
  ASSUME NEW S, Positions(S), NEW i \in S, NEW m \in Int, i < m
  PROVE  Below(S, i) < Below(S, m)
<1> DEFINE T == {j \in S : j < i}
           U == {j \in S : j < m}
           V == T \cup {i}
<1>1. \A j \in S : j \in Int
  BY PartFinite
<1>2. \A j \in S : j < i => j < m
  BY <1>1
<1>3. ~ (i < i)
  BY <1>1
<1>4. V \subseteq U /\ U \subseteq S /\ T \subseteq S /\ i \notin T
  BY <1>2, <1>3
<1>5. Below(S, i) = Cardinality(T) /\ Below(S, m) = Cardinality(U)
  BY DEF Below
<1> HIDE DEF T, U
<1>6. IsFiniteSet(T) /\ IsFiniteSet(U) /\ Cardinality(T) \in Nat /\ Cardinality(U) \in Nat
  BY <1>4, PartFinite
<1>7. Cardinality(V) = Cardinality(T) + 1
  BY <1>4, <1>6, FS_AddElement
<1> HIDE DEF V
<1>8. Cardinality(V) <= Cardinality(U)
  BY <1>4, <1>6, FS_Subset
<1> QED
  BY <1>5, <1>6, <1>7, <1>8

\* so no two stand in one place.
LEMMA SamePlace ==
  ASSUME NEW S, Positions(S), NEW i \in S, NEW j \in S, Below(S, i) = Below(S, j)
  PROVE  i = j
<1>1. i \in Int /\ j \in Int
  BY PartFinite
<1>2. Below(S, i) \in Nat /\ Below(S, j) \in Nat
  BY <1>1, BelowFacts
<1>3. ~ (i < j)
  <2> SUFFICES ASSUME i < j PROVE FALSE
    OBVIOUS
  <2>1. Below(S, i) < Below(S, j)
    BY <1>1, BelowGrows
  <2> QED
    BY <1>2, <2>1
<1>4. ~ (j < i)
  <2> SUFFICES ASSUME j < i PROVE FALSE
    OBVIOUS
  <2>1. Below(S, j) < Below(S, i)
    BY <1>1, BelowGrows
  <2> QED
    BY <1>2, <2>1
<1> QED
  BY <1>1, <1>3, <1>4

-----------------------------------------------------------------------------
(***************************************************************************)
(* terminal_parse_command() finds the first words of a text.               *)
(***************************************************************************)
NextWord(text, i) == SkipBlanks(text, WordEnd(text, i))

\* The cursor stays in the text.
LEMMA NextWordIn ==
  ASSUME NEW text \in Texts, NEW i \in 1 .. Len(text) + 1
  PROVE  /\ WordEnd(text, i) \in i .. Len(text) + 1
         /\ IsFirst(text, i, Blanks, WordEnd(text, i))
         /\ NextWord(text, i) \in WordEnd(text, i) .. Len(text) + 1
         /\ NextWord(text, i) \in 1 .. Len(text) + 1
<1> DEFINE n == Len(text)
           e == WordEnd(text, i)
           s == NextWord(text, i)
<1>1. n \in Nat
  BY LenProperties DEF Texts
<1>2. IsFirst(text, i, Blanks, e)
  BY FirstFromIs DEF WordEnd
<1> HIDE DEF e
<1>3. e \in i .. n + 1
  BY <1>2 DEF IsFirst
<1>4. e \in 1 .. n + 1
  BY <1>1, <1>3
<1>5. s \in e .. n + 1
  BY <1>4, SkipIs DEF NextWord, e
<1> HIDE DEF s
<1>6. s \in 1 .. n + 1
  BY <1>1, <1>4, <1>5
<1> QED
  BY <1>2, <1>3, <1>5, <1>6 DEF e, s

\* The positions of the words of a text, as the loop finds them.
AtWords(text, at) ==
  /\ at \in [0 .. Len(text) -> 1 .. Len(text) + 1]
  /\ at[0] = SkipBlanks(text, 1)
  /\ \A k \in 1 .. Len(text) : at[k] = NextWord(text, at[k - 1])

Argc(text, at) == Cardinality({k \in 0 .. Len(text) : at[k] <= Len(text) /\ RoomForArg(k)})

\* The recursion of Parse() has a solution, and argv[] is read off it.
LEMMA WordSteps ==
  ASSUME NEW text \in Texts
  PROVE  \E at : /\ AtWords(text, at)
                 /\ Parse(text) = [k \in 1 .. Argc(text, at) |->
                                     SubSeq(text, at[k - 1], WordEnd(text, at[k - 1]) - 1)]
<1> DEFINE n == Len(text)
           S == 1 .. n + 1
           a == SkipBlanks(text, 1)
           G == [p \in (1 .. n) \X S |-> NextWord(text, p[2])]
           Is(h) == h = [k \in 0 .. n |-> IF k = 0 THEN SkipBlanks(text, 1)
                                          ELSE SkipBlanks(text, WordEnd(text, h[k - 1]))]
           h == CHOOSE h : Is(h)
<1>1. n \in Nat /\ 1 \in S
  BY LenProperties DEF Texts
<1>2. Parse(text) = [k \in 1 .. Argc(text, h) |->
                       SubSeq(text, h[k - 1], WordEnd(text, h[k - 1]) - 1)]
  BY DEF Parse, Argc
<1>3. \A i \in S : NextWord(text, i) \in S
  BY NextWordIn
<1>4. a \in S
  BY <1>1, SkipIs
<1> HIDE DEF n, S
<1>5. G \in [(1 .. n) \X S -> S]
  <2>1. \A p \in (1 .. n) \X S : NextWord(text, p[2]) \in S
    BY <1>3
  <2> QED
    BY <2>1
<1>6. PICK f \in [0 .. n -> S] : f[0] = a /\ \A i \in 1 .. n : f[i] = G[<<i, f[i - 1]>>]
  <2> HIDE DEF G, a
  <2>1. \E f \in [0 .. n -> S] : Follows(n, a, G, f)
    BY <1>1, <1>4, <1>5, StepsExist
  <2> QED
    BY <2>1 DEF Follows
<1>7. \A i \in 1 .. n : f[i] = NextWord(text, f[i - 1])
  <2>1. \A i \in 1 .. n : <<i, f[i - 1]>> \in (1 .. n) \X S
    <3>1. \A i \in 1 .. n : i - 1 \in 0 .. n
      BY <1>1
    <3> QED
      BY <3>1
  <2> QED
    BY <1>6, <2>1
<1> HIDE DEF G
<1>8. Is(f)
  <2>1. \A i \in 0 .. n : f[i] = IF i = 0 THEN SkipBlanks(text, 1)
                                 ELSE SkipBlanks(text, WordEnd(text, f[i - 1]))
    <3>1. \A i \in 0 .. n : i # 0 => i \in 1 .. n
      BY <1>1
    <3> QED
      BY <1>6, <1>7, <3>1 DEF NextWord
  <2>2. f = [i \in 0 .. n |-> f[i]]
    OBVIOUS
  <2> QED
    BY <2>1, <2>2
<1>9. Is(h)
  <2> HIDE DEF Is
  <2> QED
    BY <1>8
<1>10. h = f
  <2> HIDE DEF h
  <2>1. h[0] = a /\ \A i \in 1 .. n : h[i] = NextWord(text, h[i - 1])
    <3>1. 0 \in 0 .. n /\ \A i \in 1 .. n : i \in 0 .. n /\ i # 0
      BY <1>1
    <3> QED
      BY <1>9, <3>1 DEF NextWord
  <2>2. Agree(n, h, f)
    BY <1>6, <1>7, <2>1 DEF Agree
  <2>3. h = [i \in 0 .. n |-> h[i]] /\ f = [i \in 0 .. n |-> f[i]]
    BY <1>9
  <2> HIDE DEF Is
  <2>4. \A i \in 0 .. n : h[i] = f[i]
    BY <1>1, <2>2, SameSteps
  <2> QED
    BY <2>3, <2>4
<1> HIDE DEF h, Is
<1>11. AtWords(text, h)
  BY <1>6, <1>7, <1>10 DEF AtWords, n, S
<1> QED
  BY <1>2, <1>11

\* The words of a text begin at positions of it.
LEMMA StartsAre ==
  ASSUME NEW text \in Texts
  PROVE  /\ Positions(WordStarts(text)) /\ Cardinality(WordStarts(text)) <= Len(text)
         /\ \A i : i \in WordStarts(text) <=>
              /\ i \in 1 .. Len(text) /\ ~ IsBlank(text[i])
              /\ i = 1 \/ IsBlank(text[i - 1])
<1>1. Len(text) \in Nat /\ DOMAIN text = 1 .. Len(text)
  BY LenProperties DEF Texts
<1>2. WordStarts(text) \in SUBSET (1 .. Len(text))
  BY <1>1 DEF WordStarts
<1>3. Positions(WordStarts(text))
  BY <1>1, <1>2 DEF Positions
<1>4. Cardinality(WordStarts(text)) <= Len(text)
  <2>1. IsFiniteSet(1 .. Len(text)) /\ Cardinality(1 .. Len(text)) = Len(text)
    <3> DEFINE n == Len(text)
    <3>1. n \in Nat
      BY <1>1
    <3> HIDE DEF n
    <3>2. IsFiniteSet(1 .. n) /\ Cardinality(1 .. n) = IF 1 > n THEN 0 ELSE n - 1 + 1
      BY <3>1, FS_Interval
    <3>3. IsFiniteSet(1 .. n) /\ Cardinality(1 .. n) = n
      BY <3>1, <3>2
    <3> QED
      BY <3>3 DEF n
  <2> DEFINE R == 1 .. Len(text)
             W == WordStarts(text)
  <2>2. W \in SUBSET R /\ IsFiniteSet(R)
    BY <1>2, <2>1
  <2> HIDE DEF R, W
  <2>3. Cardinality(W) <= Cardinality(R)
    BY <2>2, FS_Subset
  <2> QED
    BY <2>1, <2>3 DEF R, W
<1>5. \A i : i \in WordStarts(text) <=>
              /\ i \in 1 .. Len(text) /\ ~ IsBlank(text[i])
              /\ i = 1 \/ IsBlank(text[i - 1])
  BY <1>1 DEF WordStarts
<1> QED
  BY <1>3, <1>4, <1>5

\* From one word the loop comes to the next, or to the end.
LEMMA OneWord ==
  ASSUME NEW text \in Texts, NEW i \in WordStarts(text)
  PROVE  LET s == NextWord(text, i)
         IN  /\ s \in 1 .. Len(text) + 1 /\ i < s
             /\ \A j \in WordStarts(text) : i < j => s <= j
             /\ s # Len(text) + 1 => s \in WordStarts(text)
<1> DEFINE n == Len(text)
           e == WordEnd(text, i)
           s == NextWord(text, i)
<1>1. n \in Nat
  BY LenProperties DEF Texts
<1>2. i \in 1 .. n /\ ~ IsBlank(text[i])
  BY StartsAre
<1>3. i \in 1 .. n + 1
  BY <1>1, <1>2
<1>4. /\ e \in i .. n + 1 /\ s \in e .. n + 1 /\ s \in 1 .. n + 1
      /\ \A j \in i .. e - 1 : ~ IsBlank(text[j])
      /\ e # n + 1 => IsBlank(text[e])
  <2>1. /\ e \in i .. n + 1 /\ s \in e .. n + 1 /\ s \in 1 .. n + 1
        /\ IsFirst(text, i, Blanks, e)
    BY <1>3, NextWordIn
  <2> QED
    BY <2>1 DEF IsFirst, IsBlank
<1>5. (\A j \in e .. s - 1 : IsBlank(text[j])) /\ (s # n + 1 => ~ IsBlank(text[s]))
  <2>1. e \in 1 .. n + 1
    BY <1>1, <1>3, <1>4
  <2> QED
    BY <2>1, SkipIs DEF NextWord
<1> HIDE DEF n, e, s
<1>6. e # i /\ i < s
  <2>1. e # i
    BY <1>1, <1>2, <1>4
  <2> QED
    BY <1>1, <1>2, <1>4, <2>1
<1>7. ASSUME NEW j \in WordStarts(text), i < j PROVE s <= j
  <2>1. j \in 1 .. n /\ ~ IsBlank(text[j]) /\ (j = 1 \/ IsBlank(text[j - 1]))
    BY StartsAre DEF n
  <2> SUFFICES ASSUME j < s PROVE FALSE
    BY <1>1, <1>4, <2>1
  <2>2. CASE j < e
    <3>1. j - 1 \in i .. e - 1 /\ j # 1
      BY <1>1, <1>2, <1>4, <1>7, <2>1, <2>2
    <3> QED
      BY <1>4, <2>1, <3>1
  <2>3. CASE ~ (j < e)
    <3>1. j \in e .. s - 1
      BY <1>1, <1>4, <2>1, <2>3
    <3> QED
      BY <1>5, <2>1, <3>1
  <2> QED
    BY <2>2, <2>3
<1>8. ASSUME s # n + 1 PROVE s \in WordStarts(text)
  <2>1. s # e
    BY <1>4, <1>5, <1>8
  <2>2. s - 1 \in e .. s - 1 /\ s \in 1 .. n
    BY <1>1, <1>2, <1>4, <1>8, <2>1
  <2>3. IsBlank(text[s - 1]) /\ ~ IsBlank(text[s])
    BY <1>5, <1>8, <2>2
  <2> QED
    BY <2>2, <2>3, StartsAre DEF n
<1> QED
  BY <1>4, <1>6, <1>7, <1>8 DEF n, s

\* After k steps the loop is at the word that has k before it, or at the end.
LEMMA WordsInOrder ==
  ASSUME NEW text \in Texts, NEW at, AtWords(text, at)
  PROVE  \A k \in 0 .. Len(text) :
           IF at[k] = Len(text) + 1 THEN Cardinality(WordStarts(text)) <= k
           ELSE at[k] \in WordStarts(text) /\ Below(WordStarts(text), at[k]) = k
<1> DEFINE n == Len(text)
           W == WordStarts(text)
           Reached(k) == IF at[k] = n + 1 THEN Cardinality(W) <= k
                         ELSE at[k] \in W /\ Below(W, at[k]) = k
           S == {k \in Nat : k <= n => Reached(k)}
<1>1. n \in Nat /\ 1 \in 1 .. n + 1
  BY LenProperties DEF Texts
<1>2. /\ Positions(W)
      /\ \A i : i \in W <=> i \in 1 .. n /\ ~ IsBlank(text[i]) /\ (i = 1 \/ IsBlank(text[i - 1]))
  BY StartsAre
<1>3. /\ at \in [0 .. n -> 1 .. n + 1] /\ at[0] = SkipBlanks(text, 1)
      /\ \A k \in 1 .. n : at[k] = NextWord(text, at[k - 1])
  BY DEF AtWords
<1>4. \A i \in W : i \in 1 .. n + 1 /\ i # n + 1 /\ i < n + 1
  BY <1>1, <1>2
<1>5. Below(W, n + 1) = Cardinality(W)
  <2>1. n + 1 \in Int
    BY <1>1
  <2> HIDE DEF n, W
  <2> QED
    BY <1>2, <1>4, <2>1, BelowFacts
<1>6. Reached(0)
  <2> DEFINE s == at[0]
  <2>1. s \in 1 .. n + 1 /\ (\A j \in 1 .. s - 1 : IsBlank(text[j])) /\ (s # n + 1 => ~ IsBlank(text[s]))
    BY <1>1, <1>3, SkipIs
  <2> HIDE DEF s, n, W
  <2>2. \A j \in W : ~ (j < s)
    <3> SUFFICES ASSUME NEW j \in W, j < s PROVE FALSE
      OBVIOUS
    <3>1. j \in 1 .. s - 1
      BY <1>1, <1>2, <2>1
    <3> QED
      BY <1>2, <2>1, <3>1
  <2>3. s \in Int
    BY <1>1, <2>1
  <2>4. Below(W, s) = 0
    BY <1>2, <2>2, <2>3, BelowFacts
  <2>5. CASE s = n + 1
    <3>1. Cardinality(W) <= 0
      BY <1>5, <2>4, <2>5
    <3> QED
      BY <2>5, <3>1 DEF s
  <2>6. CASE s # n + 1
    <3>1. s \in 1 .. n /\ (s # 1 => s - 1 \in 1 .. s - 1)
      BY <1>1, <2>1, <2>6
    <3>2. s \in W
      BY <1>2, <2>1, <2>6, <3>1
    <3> QED
      BY <2>4, <2>6, <3>2 DEF s
  <2> QED
    BY <2>5, <2>6
<1>7. ASSUME NEW k \in Nat, k + 1 <= n, Reached(k) PROVE Reached(k + 1)
  <2> DEFINE i == at[k]
             s == at[k + 1]
  <2>1. k \in 0 .. n /\ k + 1 \in 1 .. n /\ (k + 1) - 1 = k /\ k + 1 \in 0 .. n
    BY <1>1, <1>7
  <2>2. s = NextWord(text, i) /\ i \in 1 .. n + 1
    BY <1>3, <2>1
  <2>3. CASE i = n + 1
    <3>1. s \in 1 .. n + 1 /\ s \in WordEnd(text, i) .. n + 1 /\ WordEnd(text, i) \in i .. n + 1
      BY <2>2, NextWordIn
    <3>2. s = n + 1
      <4> HIDE DEF s, i
      <4>1. WordEnd(text, i) = n + 1
        BY <1>1, <2>3, <3>1
      <4> QED
        BY <1>1, <3>1, <4>1
    <3>3. Cardinality(W) <= k
      BY <1>7, <2>3
    <3>4. Cardinality(W) <= k + 1
      <4> HIDE DEF W
      <4>1. Cardinality(W) \in Nat
        BY <1>2, PartFinite
      <4> QED
        BY <3>3, <4>1
    <3> QED
      BY <3>2, <3>4
  <2>4. CASE i # n + 1
    <3>1. i \in W /\ Below(W, i) = k
      BY <1>7, <2>4
    <3>2. /\ s \in 1 .. n + 1 /\ i < s /\ (\A j \in W : i < j => s <= j)
          /\ (s # n + 1 => s \in W)
      BY <2>2, <3>1, OneWord
    <3> HIDE DEF s, i, W, n
    <3>3. i \in Int /\ s \in Int
      BY <1>1, <2>2, <3>2
    <3>4. Below(W, s) = k + 1
      BY <1>2, <3>1, <3>2, <3>3, BelowNext
    <3>5. CASE s = n + 1
      <4>1. Cardinality(W) <= k + 1
        BY <1>5, <3>4, <3>5
      <4> QED
        BY <3>5, <4>1 DEF s
    <3>6. CASE s # n + 1
      BY <3>2, <3>4, <3>6 DEF s
    <3> QED
      BY <3>5, <3>6
  <2> QED
    BY <2>3, <2>4
<1>8. 0 \in S
  <2> HIDE DEF Reached
  <2> QED
    BY <1>6
<1>9. ASSUME NEW k \in Nat, k \in S PROVE k + 1 \in S
  <2> HIDE DEF Reached, n
  <2> SUFFICES ASSUME k + 1 <= n PROVE Reached(k + 1)
    OBVIOUS
  <2>1. Reached(k)
    BY <1>1, <1>9
  <2> QED
    BY <1>7, <2>1
<1>10. Nat \subseteq S
  <2> HIDE DEF S
  <2> QED
    BY <1>8, <1>9, SetInduction
<1>11. ASSUME NEW k \in 0 .. n PROVE Reached(k)
  <2> HIDE DEF Reached, n
  <2>1. k \in Nat /\ k <= n
    BY <1>1
  <2> QED
    BY <1>10, <2>1
<1> QED
  BY <1>11

\* What the code has parsed: the first words, as many as there is room for.
LEMMA ParseIs ==
  ASSUME NEW text \in Texts
  PROVE  /\ FirstWords(text, Parse(text)) /\ Len(Parse(text)) \in Nat
         /\ Parse(text) = <<>> <=> WordStarts(text) = {}
<1> DEFINE n == Len(text)
           W == WordStarts(text)
           m == Min({MaxArgs, Cardinality(W)})
<1>1. n \in Nat
  BY LenProperties DEF Texts
<1>2. PICK at : /\ AtWords(text, at)
                /\ Parse(text) = [k \in 1 .. Argc(text, at) |->
                                    SubSeq(text, at[k - 1], WordEnd(text, at[k - 1]) - 1)]
  BY WordSteps
<1>3. /\ Positions(W) /\ Cardinality(W) <= n /\ Cardinality(W) \in Nat /\ W \subseteq 1 .. n
      /\ IsFiniteSet(W)
  <2>1. Positions(W) /\ Cardinality(W) <= n /\ W \subseteq 1 .. n
    BY StartsAre
  <2> QED
    BY <2>1, PartFinite
<1>4. at \in [0 .. n -> 1 .. n + 1]
  BY <1>2 DEF AtWords
<1>5. \A k \in 0 .. n : IF at[k] = n + 1 THEN Cardinality(W) <= k
                        ELSE at[k] \in W /\ Below(W, at[k]) = k
  BY <1>2, WordsInOrder
<1> HIDE DEF n, W
<1>6. m \in Nat /\ \A k \in Nat : k < m <=> k < MaxArgs /\ k < Cardinality(W)
  <2> DEFINE c == Cardinality(W)
             P == {MaxArgs, c}
  <2>1. MaxArgs \in Nat /\ c \in Nat
    BY <1>3, CommandLineAssumption
  <2> HIDE DEF c
  <2>2. P \in SUBSET Nat /\ P # {}
    BY <2>1
  <2>3. Min(P) \in P /\ \A y \in P : Min(P) <= y
    <3> HIDE DEF P
    <3> QED
      BY <2>2, MinOf
  <2>4. m = Min(P)
    BY DEF c
  <2> HIDE DEF m
  <2>5. (m = MaxArgs \/ m = c) /\ m <= MaxArgs /\ m <= c
    BY <2>3, <2>4
  <2>6. \A k \in Nat : k < m <=> k < MaxArgs /\ k < c
    BY <2>1, <2>5
  <2> QED
    BY <2>1, <2>5, <2>6 DEF c
<1> HIDE DEF m
<1>7. ASSUME NEW k \in 0 .. n PROVE at[k] <= n <=> k < Cardinality(W)
  <2>1. at[k] \in 1 .. n + 1 /\ k \in Nat
    BY <1>1, <1>4
  <2>2. CASE at[k] = n + 1
    <3>1. Cardinality(W) <= k
      BY <1>5, <2>2
    <3> QED
      BY <1>1, <1>3, <2>1, <2>2, <3>1
  <2>3. CASE at[k] # n + 1
    <3>1. at[k] \in W /\ Below(W, at[k]) = k /\ at[k] \in Int
      BY <1>1, <1>5, <2>1, <2>3
    <3>2. k < Cardinality(W)
      BY <1>3, <3>1, BelowFacts
    <3> QED
      BY <1>1, <2>1, <2>3, <3>2
  <2> QED
    BY <2>2, <2>3
<1>8. Argc(text, at) = m
  <2> DEFINE K == {k \in 0 .. n : at[k] <= n /\ RoomForArg(k)}
  <2>1. Argc(text, at) = Cardinality(K)
    BY DEF Argc, n
  <2>2. \A k : k \in K <=> k \in 0 .. m - 1
    <3>1. ASSUME NEW k \in K PROVE k \in 0 .. m - 1
      <4>1. k \in 0 .. n /\ k \in Nat /\ k < MaxArgs
        BY <1>1 DEF RoomForArg
      <4>2. k < Cardinality(W)
        BY <1>7, <4>1
      <4>3. k < m
        BY <1>6, <4>1, <4>2
      <4> QED
        BY <1>6, <4>1, <4>3
    <3>2. ASSUME NEW k \in 0 .. m - 1 PROVE k \in K
      <4>1. k \in Nat /\ k < m
        BY <1>6
      <4>2. k < MaxArgs /\ k < Cardinality(W)
        BY <1>6, <4>1
      <4>3. k \in 0 .. n
        BY <1>1, <1>3, <4>1, <4>2
      <4>4. at[k] <= n
        BY <1>7, <4>2, <4>3
      <4> QED
        BY <4>2, <4>3, <4>4 DEF RoomForArg
    <3> QED
      BY <3>1, <3>2
  <2>3. K = 0 .. m - 1
    BY <2>2
  <2> HIDE DEF K
  <2>4. 0 \in Int /\ m - 1 \in Int
    BY <1>6
  <2>5. Cardinality(0 .. m - 1) = m
    <3> DEFINE b == m - 1
    <3>1. b \in Int /\ b >= -1 /\ m = b + 1
      BY <1>6
    <3> HIDE DEF b
    <3>2. Cardinality(0 .. b) = IF 0 > b THEN 0 ELSE b - 0 + 1
      BY <3>1, FS_Interval
    <3>3. Cardinality(0 .. b) = b + 1
      BY <3>1, <3>2
    <3> QED
      BY <3>1, <3>3 DEF b
  <2> QED
    BY <2>1, <2>3, <2>5
<1> DEFINE args == Parse(text)
<1>9. args = [k \in 1 .. m |-> SubSeq(text, at[k - 1], WordEnd(text, at[k - 1]) - 1)]
  BY <1>2, <1>8
<1> HIDE DEF args
<1>10. Len(args) = m /\ (args = <<>> <=> m = 0)
  <2> DEFINE F(k) == SubSeq(text, at[k - 1], WordEnd(text, at[k - 1]) - 1)
  <2>1. args = [k \in 1 .. m |-> F(k)]
    BY <1>9
  <2> HIDE DEF F
  <2>2. Len(args) = m
    BY <1>6, <2>1
  <2>3. m = 0 => args = <<>>
    BY <2>1
  <2>4. args = <<>> => m = 0
    BY <2>2
  <2> QED
    BY <2>2, <2>3, <2>4
<1>11. ASSUME NEW i \in W, Place(W, i) <= MaxArgs PROVE args[Place(W, i)] = Word(text, i)
  <2> DEFINE p == Place(W, i)
  <2>1. i \in Int /\ i \in 1 .. n + 1 /\ i # n + 1
    BY <1>1, <1>3
  <2>2. Below(W, i) \in Nat /\ Below(W, i) < Cardinality(W) /\ p = Below(W, i) + 1
    BY <1>3, <2>1, BelowFacts
  <2> HIDE DEF p
  <2>3. p - 1 \in Nat /\ p - 1 < MaxArgs /\ p - 1 < Cardinality(W) /\ p - 1 = Below(W, i)
    <3>1. p <= MaxArgs /\ MaxArgs \in Nat
      BY <1>11, CommandLineAssumption DEF p
    <3> QED
      BY <1>3, <2>2, <3>1
  <2>4. p - 1 < m
    BY <1>6, <2>3
  <2>5. p \in 1 .. m /\ p - 1 \in 0 .. n
    BY <1>1, <1>3, <1>6, <2>2, <2>3, <2>4
  <2>6. at[p - 1] # n + 1
    <3>1. ~ (Cardinality(W) <= p - 1)
      BY <1>3, <2>3
    <3> QED
      BY <1>5, <2>5, <3>1
  <2>7. at[p - 1] \in W /\ Below(W, at[p - 1]) = Below(W, i)
    BY <1>5, <2>3, <2>5, <2>6
  <2>8. at[p - 1] = i
    BY <1>3, <2>7, SamePlace
  <2>9. args[p] = SubSeq(text, i, WordEnd(text, i) - 1)
    BY <1>9, <2>5, <2>8
  <2>10. IsFirst(text, i, Blanks, WordEnd(text, i))
    BY <2>1, NextWordIn DEF n
  <2>11. Word(text, i) = SubSeq(text, i, WordEnd(text, i) - 1)
    BY <2>1, <2>10, RunIs DEF Word, n
  <2> QED
    BY <2>9, <2>11 DEF p
<1>12. m = 0 <=> W = {}
  <2>1. Cardinality(W) = 0 <=> W = {}
    BY <1>3, FS_EmptySet
  <2>2. MaxArgs \in Nat /\ MaxArgs > 0
    BY CommandLineAssumption
  <2>3. 0 < m <=> 0 < MaxArgs /\ 0 < Cardinality(W)
    BY <1>6
  <2> QED
    BY <1>3, <1>6, <2>1, <2>2, <2>3
<1> QED
  BY <1>6, <1>10, <1>11, <1>12 DEF FirstWords, m, W, args

-----------------------------------------------------------------------------
(***************************************************************************)
(* Pieces of texts, blanks left out at both ends.                          *)
(***************************************************************************)
\* What lies from position x up to, not including, y.
LEMMA SubText ==
  ASSUME NEW c \in Texts, NEW x \in 1 .. Len(c) + 1, NEW y \in x .. Len(c) + 1
  PROVE  LET p == SubSeq(c, x, y - 1)
         IN  /\ p \in Texts /\ Len(p) = y - x /\ DOMAIN p = 1 .. y - x
             /\ \A j \in 1 .. y - x : p[j] = c[j + x - 1]
<1> DEFINE m == y - 1
           p == SubSeq(c, x, m)
<1>1. Len(c) \in Nat /\ \A i \in 1 .. Len(c) : c[i] \in STRING
  BY LenProperties, ElementOfSeq DEF Texts
<1>2. x \in Int /\ y \in Int /\ m \in Int /\ x >= 1 /\ x <= y /\ y <= Len(c) + 1 /\ m = y - 1
  BY <1>1
<1>3. \A i \in x .. m : c[i] \in STRING
  BY <1>1, <1>2
<1> HIDE DEF m
<1>4. /\ p \in Seq(STRING) /\ Len(p) = (IF x <= m THEN m - x + 1 ELSE 0)
      /\ \A j \in 1 .. m - x + 1 : p[j] = c[x + j - 1]
  BY <1>2, <1>3, SubSeqProperties
<1> HIDE DEF p
<1>5. m - x + 1 = y - x /\ (IF x <= m THEN m - x + 1 ELSE 0) = y - x
  BY <1>2
<1>6. p \in Texts /\ Len(p) = y - x
  BY <1>4, <1>5 DEF Texts
<1>7. DOMAIN p = 1 .. y - x
  BY <1>6, LenProperties DEF Texts
<1>8. ASSUME NEW j \in 1 .. y - x PROVE p[j] = c[j + x - 1]
  <2>1. x + j - 1 = j + x - 1
    BY <1>2
  <2>2. p[j] = c[x + j - 1]
    BY <1>4, <1>5
  <2> QED
    BY <2>1, <2>2
<1> QED
  BY <1>6, <1>7, <1>8 DEF p, m

\* The same characters make the same piece.
LEMMA SameSubSeq ==
  ASSUME NEW s, NEW t, NEW a \in Int, NEW b \in Int, NEW d \in Int,
         \A i \in a .. b : s[i] \in STRING /\ t[i + d] = s[i]
  PROVE  SubSeq(s, a, b) \in Texts /\ SubSeq(s, a, b) = SubSeq(t, a + d, b + d)
<1> DEFINE x == a + d
           y == b + d
           u == SubSeq(s, a, b)
           v == SubSeq(t, x, y)
           n == IF a <= b THEN b - a + 1 ELSE 0
<1>1. x \in Int /\ y \in Int /\ y - x + 1 = b - a + 1 /\ (x <= y <=> a <= b)
  OBVIOUS
<1>2. \A j \in x .. y : t[j] \in STRING
  <2> SUFFICES ASSUME NEW j \in x .. y PROVE t[j] \in STRING
    OBVIOUS
  <2>1. j - d \in a .. b /\ (j - d) + d = j
    OBVIOUS
  <2> QED
    BY <2>1
<1> HIDE DEF x, y
<1>3. u \in Seq(STRING) /\ Len(u) = n /\ \A i \in 1 .. b - a + 1 : u[i] = s[a + i - 1]
  BY SubSeqProperties
<1>4. /\ v \in Seq(STRING) /\ Len(v) = IF x <= y THEN y - x + 1 ELSE 0
      /\ \A i \in 1 .. y - x + 1 : v[i] = t[x + i - 1]
  BY <1>1, <1>2, SubSeqProperties
<1> HIDE DEF u, v
<1>5. Len(v) = n
  BY <1>1, <1>4
<1>6. ASSUME NEW i \in 1 .. Len(u) PROVE u[i] = v[i]
  <2>1. i \in 1 .. b - a + 1 /\ a + i - 1 \in a .. b /\ x + i - 1 = (a + i - 1) + d
    BY <1>3 DEF x
  <2>2. i \in 1 .. y - x + 1
    BY <1>1, <2>1
  <2>3. u[i] = s[a + i - 1]
    BY <1>3, <2>1
  <2>4. v[i] = t[x + i - 1]
    BY <1>4, <2>2
  <2> QED
    BY <2>1, <2>3, <2>4
<1>7. u = v
  <2>1. u \in Seq(STRING) /\ v \in Seq(STRING) /\ Len(u) = Len(v)
    BY <1>3, <1>4, <1>5
  <2> QED
    BY <1>6, <2>1, SeqEqual
<1> QED
  BY <1>3, <1>7 DEF u, v, x, y, Texts

\* seg is what lies from position from up to, not including, to, d positions
\* further to the left; what is left out are blanks.
PieceAt(seg, text, from, to, d) ==
  /\ d \in Nat /\ d >= from - 1
  /\ \A i \in DOMAIN seg : i + d \in from .. to - 1 /\ seg[i] = text[i + d]
  /\ \A j \in from .. to - 1 : j - d \in DOMAIN seg \/ IsBlank(text[j])

\* A piece of a piece is a piece of the whole.
LEMMA PieceOfPiece ==
  ASSUME NEW s, NEW t, NEW c, NEW a \in Int, NEW b \in Int, NEW f \in Int, NEW g \in Int,
         NEW x \in Int, NEW y \in Int, NEW d, NEW e, DOMAIN s \subseteq Int,
         PieceAt(s, t, a, b, d), PieceAt(t, c, f, g, e), x <= a + e,
         \A i \in DOMAIN s : i + d \in DOMAIN t /\ i + d + e \in x .. y - 1,
         \A j \in x .. y - 1 : j \in f .. g - 1 /\ (j - e \in DOMAIN t => j - e \in a .. b - 1)
  PROVE  PieceAt(s, c, x, y, d + e)
<1>1. d \in Nat /\ e \in Nat /\ d >= a - 1
  BY DEF PieceAt
<1>2. d + e \in Nat /\ d + e >= x - 1
  BY <1>1
<1>3. ASSUME NEW i \in DOMAIN s PROVE i + (d + e) \in x .. y - 1 /\ s[i] = c[i + (d + e)]
  <2>1. i + d \in DOMAIN t /\ s[i] = t[i + d]
    BY DEF PieceAt
  <2>2. t[i + d] = c[i + d + e]
    BY <2>1 DEF PieceAt
  <2>3. i + d + e = i + (d + e)
    BY <1>1
  <2> QED
    BY <2>1, <2>2, <2>3
<1>4. ASSUME NEW j \in x .. y - 1 PROVE j - (d + e) \in DOMAIN s \/ IsBlank(c[j])
  <2>1. j \in f .. g - 1
    OBVIOUS
  <2>2. j - e \in DOMAIN t \/ IsBlank(c[j])
    BY <2>1 DEF PieceAt
  <2>3. ASSUME j - e \in DOMAIN t PROVE j - (d + e) \in DOMAIN s \/ IsBlank(c[j])
    <3>1. j - e \in a .. b - 1
      BY <2>3
    <3>2. (j - e) - d \in DOMAIN s \/ IsBlank(t[j - e])
      BY <3>1 DEF PieceAt
    <3>3. t[j - e] = c[(j - e) + e]
      BY <2>3 DEF PieceAt
    <3>4. (j - e) + e = j /\ (j - e) - d = j - (d + e)
      BY <1>1
    <3> QED
      BY <3>2, <3>3, <3>4
  <2> QED
    BY <2>2, <2>3
<1> QED
  BY <1>2, <1>3, <1>4 DEF PieceAt

\* terminal_copy_segment() copies a piece.
LEMMA SegmentCovers ==
  ASSUME NEW text \in Texts, NEW from \in 1 .. Len(text) + 1, NEW to \in 1 .. Len(text) + 1
  PROVE  /\ Segment(text, from, to) \in Texts
         /\ \E d : PieceAt(Segment(text, from, to), text, from, to, d)
<1> DEFINE inked == {i \in from .. to - 1 : ~ IsBlank(text[i])}
           seg == Segment(text, from, to)
<1>1. seg = IF inked = {} THEN <<>> ELSE SubSeq(text, Min(inked), Max(inked))
  BY DEF Segment
<1>2. Len(text) \in Nat /\ \A i \in 1 .. Len(text) : text[i] \in STRING
  BY LenProperties, ElementOfSeq DEF Texts
<1>3. CASE inked = {}
  <2>1. seg = <<>> /\ <<>> \in Texts /\ DOMAIN <<>> = {}
    BY <1>1, <1>3, EmptySeq DEF Texts
  <2> DEFINE d == from - 1
  <2>2. d \in Nat /\ d >= from - 1
    BY <1>2
  <2>3. \A j \in from .. to - 1 : IsBlank(text[j])
    BY <1>3
  <2> HIDE DEF d, seg
  <2>4. PieceAt(seg, text, from, to, d)
    BY <2>1, <2>2, <2>3 DEF PieceAt
  <2> QED
    BY <2>1, <2>4 DEF seg
<1>4. CASE inked # {}
  <2> DEFINE a == Min(inked)
             b == Max(inked)
  <2>1. inked \in SUBSET Nat /\ inked \in SUBSET (0 .. Len(text) + 1)
    BY <1>2
  <2> HIDE DEF inked
  <2>2. a \in inked /\ b \in inked /\ \A y \in inked : a <= y /\ y <= b
    <3> DEFINE n == Len(text) + 1
    <3>1. n \in Nat /\ inked \in SUBSET (0 .. n)
      BY <1>2, <2>1
    <3> HIDE DEF n
    <3>2. a \in inked /\ \A y \in inked : a <= y
      BY <1>4, <2>1, MinOf
    <3>3. b \in inked /\ \A y \in inked : b >= y
      BY <1>4, <3>1, MaxOf
    <3>4. b \in Int /\ \A y \in inked : y \in Int
      <4>1. \A y \in inked : y \in Int
        BY <2>1
      <4> QED
        BY <3>3, <4>1
    <3> QED
      BY <3>2, <3>3, <3>4
  <2> HIDE DEF a, b
  <2>3. a \in from .. to - 1 /\ b \in from .. to - 1 /\ a \in Nat /\ b \in Nat /\ a >= 1 /\ b <= Len(text) /\ a <= b
    BY <1>2, <2>2 DEF inked
  <2>4. \A i \in a .. b : text[i] \in STRING
    BY <1>2, <2>3
  <2>5. seg = SubSeq(text, a, b)
    BY <1>1, <1>4 DEF a, b, inked
  <2>6. /\ SubSeq(text, a, b) \in Texts
        /\ Len(SubSeq(text, a, b)) = IF a <= b THEN b - a + 1 ELSE 0
        /\ \A i \in 1 .. b - a + 1 : SubSeq(text, a, b)[i] = text[a + i - 1]
    BY <2>3, <2>4, SubSeqProperties DEF Texts
  <2> HIDE DEF seg
  <2>7. seg \in Texts /\ Len(seg) = b - a + 1 /\ \A i \in 1 .. b - a + 1 : seg[i] = text[a + i - 1]
    BY <2>3, <2>5, <2>6
  <2>8. DOMAIN seg = 1 .. b - a + 1
    BY <2>7, LenProperties DEF Texts
  <2> DEFINE d == a - 1
  <2>9. d \in Nat /\ d >= from - 1
    BY <2>3
  <2>10. ASSUME NEW i \in DOMAIN seg PROVE i + d \in from .. to - 1 /\ seg[i] = text[i + d]
    <3>1. i \in 1 .. b - a + 1 /\ i + d \in from .. to - 1 /\ i + d = a + i - 1
      BY <2>3, <2>8
    <3> QED
      BY <2>7, <3>1
  <2>11. ASSUME NEW j \in from .. to - 1 PROVE j - d \in DOMAIN seg \/ IsBlank(text[j])
    <3>1. CASE j \in inked
      <4>1. a <= j /\ j <= b /\ j \in Int
        BY <2>2, <3>1
      <4>2. j - d \in 1 .. b - a + 1
        BY <2>3, <4>1
      <4> QED
        BY <2>8, <4>2
    <3>2. CASE j \notin inked
      BY <3>2 DEF inked
    <3> QED
      BY <3>1, <3>2
  <2> HIDE DEF d
  <2>12. PieceAt(seg, text, from, to, d)
    BY <2>9, <2>10, <2>11 DEF PieceAt
  <2> QED
    BY <2>7, <2>12 DEF seg
<1> QED
  BY <1>3, <1>4

\* What is not indented.
Unindented(text) == text = <<>> \/ ~ IsBlank(text[1])

\* Blanks at the beginning are never copied.
LEMMA SegmentUnindented ==
  ASSUME NEW text \in Texts, NEW from \in 1 .. Len(text) + 1, NEW to \in 1 .. Len(text) + 1
  PROVE  Unindented(Segment(text, from, to))
<1> DEFINE inked == {i \in from .. to - 1 : ~ IsBlank(text[i])}
           a == Min(inked)
           b == Max(inked)
<1>1. Segment(text, from, to) = IF inked = {} THEN <<>> ELSE SubSeq(text, a, b)
  BY DEF Segment
<1> SUFFICES ASSUME inked # {} PROVE ~ IsBlank(SubSeq(text, a, b)[1])
  BY <1>1 DEF Unindented
<1> DEFINE n == Len(text)
           y == b + 1
<1>2. n \in Nat /\ from \in 1 .. n + 1 /\ to \in 1 .. n + 1
  BY LenProperties DEF Texts
<1>3. inked \in SUBSET Nat /\ inked \in SUBSET (0 .. n) /\ inked # {}
  BY <1>2
<1>4. \A i \in inked : i \in 1 .. n /\ ~ IsBlank(text[i])
  BY <1>2
<1> HIDE DEF inked, n
<1>5. a \in inked /\ \A i \in inked : a <= i
  BY <1>3, MinOf
<1>6. b \in inked
  BY <1>2, <1>3, MaxOf
<1> HIDE DEF a, b
<1>7. a \in 1 .. n /\ ~ IsBlank(text[a]) /\ b \in 1 .. n /\ a <= b
  BY <1>4, <1>5, <1>6
<1>8. a \in 1 .. n + 1 /\ y \in a .. n + 1 /\ y - 1 = b /\ 1 \in 1 .. y - a /\ 1 + a - 1 = a
  BY <1>2, <1>7
<1> HIDE DEF y
<1>9. \A j \in 1 .. y - a : SubSeq(text, a, y - 1)[j] = text[j + a - 1]
  BY <1>8, SubText DEF n
<1>10. SubSeq(text, a, b)[1] = text[1 + a - 1]
  BY <1>8, <1>9
<1> QED
  BY <1>7, <1>8, <1>10

\* seg is the whole of text but blanks at its ends.
Trimmed(seg, text, d) == PieceAt(seg, text, 1, Len(text) + 1, d)

\* A piece of a text is, but for blanks at its ends, what lies there.
LEMMA TrimmedPiece ==
  ASSUME NEW s \in Texts, NEW c \in Texts, NEW x \in 1 .. Len(c) + 1, NEW y \in x .. Len(c) + 1,
         NEW d, PieceAt(s, c, x, y, d)
  PROVE  Trimmed(s, SubSeq(c, x, y - 1), d - x + 1)
<1> DEFINE p == SubSeq(c, x, y - 1)
           e == d - x + 1
           n == Len(p)
<1>1. /\ p \in Texts /\ n = y - x /\ DOMAIN p = 1 .. y - x
      /\ \A j \in 1 .. y - x : p[j] = c[j + x - 1]
  BY SubText
<1>2. x \in Nat /\ y \in Nat /\ x <= y
  BY LenProperties DEF Texts
<1>3. /\ d \in Nat /\ d >= x - 1
      /\ \A i \in DOMAIN s : i + d \in x .. y - 1 /\ s[i] = c[i + d]
      /\ \A j \in x .. y - 1 : j - d \in DOMAIN s \/ IsBlank(c[j])
  BY DEF PieceAt
<1>4. DOMAIN s \subseteq Int
  BY LenProperties DEF Texts
<1> HIDE DEF p
<1>5. e \in Nat /\ e >= 1 - 1
  BY <1>2, <1>3
<1>6. ASSUME NEW i \in DOMAIN s PROVE i + e \in 1 .. n + 1 - 1 /\ s[i] = p[i + e]
  <2>1. i \in Int /\ i + d \in x .. y - 1 /\ s[i] = c[i + d]
    BY <1>3, <1>4
  <2>2. i + e \in 1 .. y - x /\ i + e \in 1 .. n + 1 - 1 /\ (i + e) + x - 1 = i + d
    BY <1>1, <1>2, <1>3, <2>1
  <2>3. p[i + e] = c[(i + e) + x - 1]
    BY <1>1, <2>2
  <2> QED
    BY <2>1, <2>2, <2>3
<1>7. ASSUME NEW j \in 1 .. n + 1 - 1 PROVE j - e \in DOMAIN s \/ IsBlank(p[j])
  <2>1. j \in 1 .. y - x /\ j + x - 1 \in x .. y - 1 /\ (j + x - 1) - d = j - e
    BY <1>1, <1>2, <1>3
  <2>2. p[j] = c[j + x - 1]
    BY <1>1, <2>1
  <2>3. (j + x - 1) - d \in DOMAIN s \/ IsBlank(c[j + x - 1])
    BY <1>3, <2>1
  <2> QED
    BY <2>1, <2>2, <2>3
<1>8. n \in Nat
  BY <1>1, <1>2
<1> HIDE DEF e, n
<1>9. PieceAt(s, p, 1, n + 1, e)
  <2> DEFINE a == 1
             b == n + 1
  <2>1. a .. b - 1 = 1 .. n /\ 1 .. n + 1 - 1 = 1 .. n
    BY <1>8
  <2>2. e \in Nat /\ e >= a - 1
    BY <1>5
  <2>3. \A i \in DOMAIN s : i + e \in 1 .. n /\ s[i] = p[i + e]
    BY <1>6, <2>1
  <2>4. \A j \in 1 .. n : j - e \in DOMAIN s \/ IsBlank(p[j])
    BY <1>7, <2>1
  <2> HIDE DEF a, b
  <2>5. PieceAt(s, p, a, b, e)
    BY <2>1, <2>2, <2>3, <2>4 DEF PieceAt
  <2> QED
    BY <2>5 DEF a, b
<1> QED
  BY <1>9 DEF Trimmed, p, n, e

\* What that says, in the terms of the lengths.
LEMMA TrimmedFacts ==
  ASSUME NEW s \in Texts, NEW t \in Texts, NEW d, Trimmed(s, t, d)
  PROVE  /\ d \in Nat /\ Len(s) \in Nat /\ Len(t) \in Nat
         /\ \A i \in 1 .. Len(s) : i + d \in 1 .. Len(t) /\ s[i] = t[i + d] /\ s[i] \in STRING
         /\ \A j \in 1 .. Len(t) : j - d \in 1 .. Len(s) \/ IsBlank(t[j])
<1>1. /\ Len(s) \in Nat /\ Len(t) \in Nat /\ DOMAIN s = 1 .. Len(s)
      /\ \A i \in 1 .. Len(s) : s[i] \in STRING
  BY LenProperties, ElementOfSeq DEF Texts
<1>2. d \in Nat
  BY DEF Trimmed, PieceAt
<1>3. \A j : j \in 1 .. Len(t) + 1 - 1 <=> j \in 1 .. Len(t)
  BY <1>1
<1>4. /\ \A i \in DOMAIN s : i + d \in 1 .. Len(t) + 1 - 1 /\ s[i] = t[i + d]
      /\ \A j \in 1 .. Len(t) + 1 - 1 : j - d \in DOMAIN s \/ IsBlank(t[j])
  BY DEF Trimmed, PieceAt
<1>5. ASSUME NEW i \in 1 .. Len(s)
      PROVE  i + d \in 1 .. Len(t) /\ s[i] = t[i + d] /\ s[i] \in STRING
  BY <1>1, <1>3, <1>4
<1>6. ASSUME NEW j \in 1 .. Len(t) PROVE j - d \in 1 .. Len(s) \/ IsBlank(t[j])
  BY <1>1, <1>3, <1>4
<1> QED
  BY <1>1, <1>2, <1>5, <1>6

\* The words of one are those of the other, d positions away,
LEMMA TrimmedStarts ==
  ASSUME NEW s \in Texts, NEW t \in Texts, NEW d, Trimmed(s, t, d)
  PROVE  /\ \A i \in WordStarts(s) : i + d \in WordStarts(t)
         /\ \A j \in WordStarts(t) : j - d \in WordStarts(s)
<1>1. /\ d \in Nat /\ Len(s) \in Nat /\ Len(t) \in Nat
      /\ \A i \in 1 .. Len(s) : i + d \in 1 .. Len(t) /\ s[i] = t[i + d]
      /\ \A j \in 1 .. Len(t) : j - d \in 1 .. Len(s) \/ IsBlank(t[j])
  BY TrimmedFacts
<1>2. \A i : i \in WordStarts(s) <=>
             i \in 1 .. Len(s) /\ ~ IsBlank(s[i]) /\ (i = 1 \/ IsBlank(s[i - 1]))
  BY StartsAre
<1>3. \A i : i \in WordStarts(t) <=>
             i \in 1 .. Len(t) /\ ~ IsBlank(t[i]) /\ (i = 1 \/ IsBlank(t[i - 1]))
  BY StartsAre
<1>4. ASSUME NEW i \in WordStarts(s) PROVE i + d \in WordStarts(t)
  <2>1. i \in 1 .. Len(s) /\ ~ IsBlank(s[i]) /\ (i = 1 \/ IsBlank(s[i - 1]))
    BY <1>2
  <2>2. i + d \in 1 .. Len(t) /\ ~ IsBlank(t[i + d])
    BY <1>1, <2>1
  <2>3. i + d = 1 \/ IsBlank(t[(i + d) - 1])
    <3>1. CASE i = 1
      <4> SUFFICES ASSUME i + d # 1 PROVE IsBlank(t[(i + d) - 1])
        OBVIOUS
      <4>1. d \in 1 .. Len(t) /\ (i + d) - 1 = d /\ ~ (d - d \in 1 .. Len(s))
        BY <1>1, <2>2, <3>1
      <4> QED
        BY <1>1, <4>1
    <3>2. CASE i # 1
      <4>1. i - 1 \in 1 .. Len(s) /\ (i - 1) + d = (i + d) - 1
        BY <1>1, <2>1, <3>2
      <4>2. s[i - 1] = t[(i - 1) + d]
        BY <1>1, <4>1
      <4> QED
        BY <2>1, <3>2, <4>1, <4>2
    <3> QED
      BY <3>1, <3>2
  <2> QED
    BY <1>3, <2>2, <2>3
<1>5. ASSUME NEW j \in WordStarts(t) PROVE j - d \in WordStarts(s)
  <2>1. j \in 1 .. Len(t) /\ ~ IsBlank(t[j]) /\ (j = 1 \/ IsBlank(t[j - 1]))
    BY <1>3
  <2> DEFINE i == j - d
  <2>2. i \in 1 .. Len(s) /\ i + d = j
    BY <1>1, <2>1
  <2> HIDE DEF i
  <2>3. ~ IsBlank(s[i])
    BY <1>1, <2>1, <2>2
  <2>4. i = 1 \/ IsBlank(s[i - 1])
    <3> SUFFICES ASSUME i # 1 PROVE IsBlank(s[i - 1])
      OBVIOUS
    <3>1. i - 1 \in 1 .. Len(s) /\ (i - 1) + d = j - 1 /\ j # 1
      BY <1>1, <2>1, <2>2
    <3>2. s[i - 1] = t[(i - 1) + d]
      BY <1>1, <3>1
    <3> QED
      BY <2>1, <3>1, <3>2
  <2> QED
    BY <1>2, <2>2, <2>3, <2>4 DEF i
<1> QED
  BY <1>4, <1>5

\* and are the same words.
LEMMA TrimmedWord ==
  ASSUME NEW s \in Texts, NEW t \in Texts, NEW d, Trimmed(s, t, d), NEW i \in WordStarts(s)
  PROVE  Word(s, i) = Word(t, i + d)
<1>1. /\ d \in Nat /\ Len(s) \in Nat /\ Len(t) \in Nat
      /\ \A k \in 1 .. Len(s) : k + d \in 1 .. Len(t) /\ s[k] = t[k + d] /\ s[k] \in STRING
      /\ \A j \in 1 .. Len(t) : j - d \in 1 .. Len(s) \/ IsBlank(t[j])
  BY TrimmedFacts
<1>2. i \in 1 .. Len(s)
  BY StartsAre
<1> DEFINE f == WordEnd(s, i)
           g == f + d
           m == i + d
<1>3. i \in 1 .. Len(s) + 1 /\ m \in 1 .. Len(t) + 1 /\ m \in Int
  BY <1>1, <1>2
<1>4. IsFirst(s, i, Blanks, f)
  BY <1>3, NextWordIn
<1> HIDE DEF f
<1>5. /\ f \in i .. Len(s) + 1 /\ (\A j \in i .. f - 1 : s[j] \notin Blanks)
      /\ (f # Len(s) + 1 => s[f] \in Blanks)
  BY <1>4 DEF IsFirst
<1>6. Len(s) + d <= Len(t)
  <2>1. Len(s) \in 1 .. Len(s)
    BY <1>1, <1>2
  <2>2. Len(s) + d \in 1 .. Len(t)
    BY <1>1, <2>1
  <2> QED
    BY <1>1, <2>2
<1>7. g \in m .. Len(t) + 1
  BY <1>1, <1>2, <1>5, <1>6
<1>8. ASSUME NEW j \in m .. g - 1 PROVE t[j] \notin Blanks
  <2>1. j - d \in i .. f - 1 /\ j - d \in 1 .. Len(s) /\ (j - d) + d = j
    BY <1>1, <1>2, <1>5
  <2>2. s[j - d] = t[(j - d) + d] /\ s[j - d] \notin Blanks
    BY <1>1, <1>5, <2>1
  <2> QED
    BY <2>1, <2>2
<1>9. ASSUME g # Len(t) + 1 PROVE t[g] \in Blanks
  <2>1. CASE f = Len(s) + 1
    <3>1. f \in Int /\ g \in m .. Len(t) + 1 /\ Len(s) \in Nat /\ Len(t) \in Nat /\ d \in Nat /\ m \in Nat /\ m >= 1
      BY <1>1, <1>2, <1>5, <1>7
    <3>2. g - d = Len(s) + 1
      BY <2>1, <3>1
    <3> HIDE DEF m, g
    <3>3. g \in 1 .. Len(t)
      BY <1>9, <3>1
    <3>4. ~ (g - d \in 1 .. Len(s))
      BY <3>1, <3>2
    <3> QED
      BY <1>1, <3>3, <3>4 DEF IsBlank
  <2>2. CASE f # Len(s) + 1
    <3>1. f \in 1 .. Len(s)
      BY <1>1, <1>2, <1>5, <2>2
    <3> QED
      BY <1>1, <1>5, <2>2, <3>1
  <2> QED
    BY <2>1, <2>2
<1> HIDE DEF g, m
<1>10. IsFirst(t, m, Blanks, g)
  BY <1>7, <1>8, <1>9 DEF IsFirst
<1>11. Word(s, i) = SubSeq(s, i, f - 1)
  BY <1>3, <1>4, RunIs DEF Word
<1>12. Word(t, m) = SubSeq(t, m, g - 1)
  BY <1>3, <1>10, RunIs DEF Word
<1>13. SubSeq(s, i, f - 1) = SubSeq(t, m, g - 1)
  <2> DEFINE b == f - 1
  <2>1. i \in Int /\ b \in Int /\ d \in Int /\ b + d = g - 1
    BY <1>1, <1>2, <1>5 DEF g
  <2>2. ASSUME NEW k \in i .. b PROVE s[k] \in STRING /\ t[k + d] = s[k]
    <3>1. k \in 1 .. Len(s)
      BY <1>1, <1>2, <1>5
    <3> QED
      BY <1>1, <3>1
  <2> HIDE DEF b
  <2>3. SubSeq(s, i, b) = SubSeq(t, i + d, b + d)
    BY <2>1, <2>2, SameSubSeq
  <2> QED
    BY <2>1, <2>3 DEF b, m
<1> QED
  BY <1>11, <1>12, <1>13 DEF m

\* So what are the first words of one are those of the other.
LEMMA TrimmedWords ==
  ASSUME NEW s \in Texts, NEW t \in Texts, NEW d, Trimmed(s, t, d)
  PROVE  /\ Cardinality(WordStarts(s)) = Cardinality(WordStarts(t))
         /\ WordStarts(s) = {} <=> WordStarts(t) = {}
         /\ \A args : FirstWords(s, args) => FirstWords(t, args)
<1> DEFINE S == WordStarts(s)
           T == WordStarts(t)
<1>1. d \in Nat /\ d \in Int
  BY TrimmedFacts
<1>2. (\A i \in S : i + d \in T) /\ (\A j \in T : j - d \in S)
  BY TrimmedStarts
<1>3. \A i \in S : Word(s, i) = Word(t, i + d)
  BY TrimmedWord
<1>4. Positions(S) /\ Positions(T)
  BY StartsAre
<1> HIDE DEF S, T
<1>5. /\ IsFiniteSet(S) /\ IsFiniteSet(T) /\ S \subseteq Int /\ T \subseteq Int
      /\ \A R \in SUBSET S : IsFiniteSet(R)
      /\ \A R \in SUBSET T : IsFiniteSet(R)
  BY <1>4, PartFinite
<1>6. Cardinality(S) = Cardinality(T)
  BY <1>1, <1>2, <1>5, ShiftCount
<1>7. ASSUME NEW j \in T PROVE Place(S, j - d) = Place(T, j)
  <2> DEFINE P == {k \in S : k <= j - d}
             Q == {k \in T : k <= j}
  <2>1. j \in Int
    BY <1>5
  <2>2. ASSUME NEW k \in P PROVE k + d \in Q
    <3>1. k \in Int /\ k <= j - d /\ k + d \in T
      BY <1>2, <1>5
    <3>2. k + d <= j
      BY <1>1, <2>1, <3>1
    <3> QED
      BY <3>1, <3>2
  <2>3. ASSUME NEW k \in Q PROVE k - d \in P
    <3>1. k \in Int /\ k <= j /\ k - d \in S
      BY <1>2, <1>5
    <3>2. k - d <= j - d
      BY <1>1, <2>1, <3>1
    <3> QED
      BY <3>1, <3>2
  <2>4. P \in SUBSET S /\ Q \in SUBSET T
    OBVIOUS
  <2>5. Place(S, j - d) = Cardinality(P) /\ Place(T, j) = Cardinality(Q)
    BY DEF Place
  <2> HIDE DEF P, Q
  <2>6. IsFiniteSet(P) /\ IsFiniteSet(Q) /\ P \subseteq Int /\ Q \subseteq Int
    BY <1>5, <2>4
  <2>7. Cardinality(P) = Cardinality(Q)
    BY <1>1, <2>2, <2>3, <2>6, ShiftCount
  <2> QED
    BY <2>5, <2>7
<1>8. S = {} <=> T = {}
  BY <1>2
<1>9. ASSUME NEW args, FirstWords(s, args) PROVE FirstWords(t, args)
  <2>1. /\ Len(args) = Min({MaxArgs, Cardinality(S)})
        /\ \A i \in S : Place(S, i) <= MaxArgs => args[Place(S, i)] = Word(s, i)
    BY <1>9 DEF FirstWords, S
  <2>2. ASSUME NEW j \in T, Place(T, j) <= MaxArgs PROVE args[Place(T, j)] = Word(t, j)
    <3>1. j - d \in S /\ Place(S, j - d) = Place(T, j)
      BY <1>2, <1>7
    <3>2. args[Place(S, j - d)] = Word(s, j - d)
      BY <2>1, <2>2, <3>1
    <3>3. Word(s, j - d) = Word(t, (j - d) + d)
      BY <1>3, <3>1
    <3>4. j \in Int
      BY <1>5
    <3>5. (j - d) + d = j
      BY <1>1, <3>4
    <3> QED
      BY <3>1, <3>2, <3>3, <3>5
  <2> QED
    BY <1>6, <2>1, <2>2 DEF FirstWords, T
<1> QED
  BY <1>6, <1>8, <1>9 DEF S, T

\* What a piece has in it, blanks left aside, is in the whole, and the other way round.
LEMMA TrimmedHas ==
  ASSUME NEW s \in Texts, NEW t \in Texts, NEW d, Trimmed(s, t, d), NEW x, ~ IsBlank(x)
  PROVE  (\E i \in DOMAIN s : s[i] = x) <=> (\E j \in DOMAIN t : t[j] = x)
<1>1. /\ d \in Nat /\ Len(s) \in Nat /\ Len(t) \in Nat
      /\ \A i \in 1 .. Len(s) : i + d \in 1 .. Len(t) /\ s[i] = t[i + d]
      /\ \A j \in 1 .. Len(t) : j - d \in 1 .. Len(s) \/ IsBlank(t[j])
  BY TrimmedFacts
<1>2. DOMAIN s = 1 .. Len(s) /\ DOMAIN t = 1 .. Len(t)
  BY LenProperties DEF Texts
<1>3. ASSUME NEW i \in DOMAIN s, s[i] = x PROVE \E j \in DOMAIN t : t[j] = x
  BY <1>1, <1>2, <1>3
<1>4. ASSUME NEW j \in DOMAIN t, t[j] = x PROVE \E i \in DOMAIN s : s[i] = x
  <2>1. j - d \in 1 .. Len(s)
    BY <1>1, <1>2, <1>4
  <2>2. s[j - d] = t[(j - d) + d]
    BY <1>1, <2>1
  <2>3. (j - d) + d = j
    BY <1>1, <1>2
  <2> QED
    BY <1>2, <1>4, <2>1, <2>2, <2>3
<1> QED
  BY <1>3, <1>4

\* A text has a word if it has a character that is no blank.
LEMMA HasWord ==
  ASSUME NEW t \in Texts, NEW i \in DOMAIN t, ~ IsBlank(t[i])
  PROVE  WordStarts(t) # {}
<1> DEFINE S == {j \in 1 .. Len(t) : ~ IsBlank(t[j])}
           m == Min(S)
<1>1. Len(t) \in Nat /\ DOMAIN t = 1 .. Len(t)
  BY LenProperties DEF Texts
<1>2. i \in S /\ S \in SUBSET Nat
  BY <1>1
<1>3. m \in S /\ \A j \in S : m <= j
  <2> HIDE DEF S
  <2> QED
    BY <1>2, MinOf
<1> HIDE DEF m
<1>4. m \in 1 .. Len(t) /\ ~ IsBlank(t[m])
  BY <1>3
<1>5. m = 1 \/ IsBlank(t[m - 1])
  <2> SUFFICES ASSUME m # 1 PROVE IsBlank(t[m - 1])
    OBVIOUS
  <2>1. m - 1 \in 1 .. Len(t) /\ ~ (m <= m - 1)
    BY <1>1, <1>4
  <2>2. m - 1 \notin S
    BY <1>3, <2>1
  <2> QED
    BY <2>1, <2>2
<1>6. m \in WordStarts(t)
  BY <1>4, <1>5, StartsAre
<1> QED
  BY <1>6

\* A character occurs in a text where the text has it.
LEMMA OccursOne ==
  ASSUME NEW t \in Texts, NEW x
  PROVE  Occurs(t, <<x>>) <=> \E i \in DOMAIN t : t[i] = x
<1>1. /\ Len(t) \in Nat /\ DOMAIN t = 1 .. Len(t) /\ Len(<<x>>) = 1
      /\ \A i \in 1 .. Len(t) : t[i] \in STRING
  BY LenProperties, ElementOfSeq DEF Texts
<1>2. Occurs(t, <<x>>) <=> \E i \in 0 .. Len(t) - 1 : SubSeq(t, i + 1, i + 1) = <<x>>
  BY <1>1 DEF Occurs
<1>3. ASSUME NEW k \in 1 .. Len(t) PROVE SubSeq(t, k, k) = <<x>> <=> t[k] = x
  <2> DEFINE y == k + 1
             n == y - k
             p == SubSeq(t, k, y - 1)
  <2>1. k \in 1 .. Len(t) + 1 /\ y \in k .. Len(t) + 1 /\ y - 1 = k /\ n = 1 /\ k \in Int
    BY <1>1
  <2> HIDE DEF y
  <2>2. p \in Texts /\ Len(p) = n /\ \A j \in 1 .. n : p[j] = t[j + k - 1]
    BY <2>1, SubText
  <2>3. 1 + k - 1 = k /\ 1 \in 1 .. n
    BY <2>1
  <2>4. Len(p) = 1 /\ p[1] = t[k]
    BY <2>1, <2>2, <2>3
  <2>5. p = SubSeq(t, k, k)
    BY <2>1
  <2> HIDE DEF p
  <2>6. ASSUME p = <<x>> PROVE t[k] = x
    BY <2>4, <2>6
  <2>7. ASSUME t[k] = x PROVE p = <<x>>
    <3> DEFINE q == <<x>>
    <3>1. x \in STRING
      BY <1>1, <2>7
    <3>2. q \in Texts /\ Len(q) = 1 /\ q[1] = x
      <4> DEFINE S == STRING
      <4>1. x \in S
        BY <3>1
      <4> HIDE DEF S
      <4>2. q \in Seq(S) /\ Len(q) = 1 /\ q[1] = x
        BY <4>1
      <4> QED
        BY <4>2 DEF S, Texts
    <3> HIDE DEF q
    <3>3. Len(p) = Len(q) /\ \A i \in 1 .. Len(p) : p[i] = q[i]
      <4>1. \A i \in 1 .. 1 : i = 1
        OBVIOUS
      <4> QED
        BY <2>4, <2>7, <3>2, <4>1
    <3> QED
      BY <2>2, <3>2, <3>3, SeqEqual DEF Texts, q
  <2> QED
    BY <2>5, <2>6, <2>7
<1>4. ASSUME NEW i \in 0 .. Len(t) - 1, SubSeq(t, i + 1, i + 1) = <<x>>
      PROVE  \E j \in DOMAIN t : t[j] = x
  <2>1. i + 1 \in 1 .. Len(t)
    BY <1>1
  <2> QED
    BY <1>1, <1>3, <1>4, <2>1
<1>5. ASSUME NEW j \in DOMAIN t, t[j] = x
      PROVE  \E i \in 0 .. Len(t) - 1 : SubSeq(t, i + 1, i + 1) = <<x>>
  <2>1. j - 1 \in 0 .. Len(t) - 1 /\ (j - 1) + 1 = j
    BY <1>1
  <2> QED
    BY <1>1, <1>3, <1>5, <2>1
<1> QED
  BY <1>2, <1>4, <1>5

-----------------------------------------------------------------------------
(***************************************************************************)
(* Splitting a text, and the places of the separators.                     *)
(***************************************************************************)
\* What the texts are after a split.
LEMMA SplitTexts ==
  ASSUME todo \in Seq(Texts), Split
  PROVE  LET at == PositionOf(Text, "&")
         IN  /\ Text \in Texts /\ Text = todo[1] /\ at \in 1 .. Len(Text) /\ Text[at] = "&"
             /\ todo' \in Seq(Texts) /\ Len(todo') = Len(todo) + 1
             /\ todo'[1] = Segment(Text, 1, at)
             /\ todo'[2] = Segment(Text, at + 1, Len(Text) + 1)
             /\ \A k \in 3 .. Len(todo) + 1 : todo'[k] = todo[k - 1]
             /\ Len(todo) \in Nat \ {0}
<1> DEFINE text == Text
           rest == Tail(todo)
           at == PositionOf(text, "&")
           l == Segment(text, 1, at)
           r == Segment(text, at + 1, Len(text) + 1)
           n == Len(todo)
           new == todo'
<1>1. /\ text \in Texts /\ text = todo[1] /\ rest \in Seq(Texts) /\ Len(rest) = n - 1
      /\ n \in Nat \ {0} /\ \A k \in 1 .. n - 1 : rest[k] = todo[k + 1]
  <2>1. todo # <<>>
    BY DEF Split
  <2> QED
    BY <2>1, HeadTailProperties, EmptySeq, LenProperties DEF Text
<1>2. Len(text) \in Nat /\ at \in 1 .. Len(text) /\ text[at] = "&"
  <2>1. Occurs(text, <<"&">>)
    BY DEF Split
  <2> HIDE DEF text
  <2>2. PICK i \in DOMAIN text : text[i] = "&"
    BY <1>1, <2>1, OccursOne
  <2> QED
    BY <1>1, <2>2, PositionIs, LenProperties DEF Texts
<1>3. new = <<l, r>> \o rest
  BY DEF Split, AfterAnd
<1> HIDE DEF text, rest, at
<1>4. at + 1 \in 1 .. Len(text) + 1 /\ at \in 1 .. Len(text) + 1 /\ 1 \in 1 .. Len(text) + 1
      /\ Len(text) + 1 \in 1 .. Len(text) + 1
  BY <1>2
<1>5. l \in Texts /\ r \in Texts
  BY <1>1, <1>4, SegmentCovers
<1> HIDE DEF l, r
<1> DEFINE two == <<l, r>>
<1>6. two \in Seq(Texts) /\ Len(two) = 2 /\ two[1] = l /\ two[2] = r
  BY <1>5
<1>7. new = two \o rest
  BY <1>3
<1> HIDE DEF two, new, n
<1>8. /\ new \in Seq(Texts) /\ Len(new) = 2 + Len(rest)
      /\ \A k \in 1 .. 2 + Len(rest) : new[k] = IF k <= 2 THEN two[k] ELSE rest[k - 2]
  <2>1. /\ two \o rest \in Seq(Texts) /\ Len(two \o rest) = Len(two) + Len(rest)
        /\ \A k \in 1 .. Len(two) + Len(rest) :
             (two \o rest)[k] = IF k <= Len(two) THEN two[k] ELSE rest[k - Len(two)]
    BY <1>1, <1>6, ConcatProperties
  <2> QED
    BY <1>6, <1>7, <2>1
<1>9. Len(new) = n + 1 /\ new[1] = l /\ new[2] = r
  BY <1>1, <1>6, <1>8
<1>10. ASSUME NEW k \in 3 .. n + 1 PROVE new[k] = todo[k - 1]
  <2>1. k \in 1 .. 2 + Len(rest) /\ ~ (k <= 2) /\ k - 2 \in 1 .. n - 1 /\ (k - 2) + 1 = k - 1
    BY <1>1
  <2> QED
    BY <1>1, <1>8, <2>1
<1> QED
  BY <1>1, <1>2, <1>8, <1>9, <1>10 DEF text, at, l, r, n, new

\* What Separators() collects.
LEMMA SeparatorsAre ==
  ASSUME NEW texts \in Seq(Texts), NEW p
  PROVE  p \in Separators(texts) <=>
           /\ p = <<p[1], p[2]>> /\ p[1] \in 1 .. Len(texts)
           /\ p[2] \in DOMAIN texts[p[1]] /\ texts[p[1]][p[2]] = "&"
<1>1. DOMAIN texts = 1 .. Len(texts)
  BY LenProperties
<1> QED
  BY <1>1 DEF Separators

\* There are finitely many.
LEMMA SeparatorsFinite ==
  ASSUME NEW texts \in Seq(Texts)
  PROVE  IsFiniteSet(Separators(texts)) /\ Cardinality(Separators(texts)) \in Nat
<1> DEFINE P(k) == {k} \X {i \in DOMAIN texts[k] : texts[k][i] = "&"}
           U(n) == UNION {P(k) : k \in 1 .. n}
           F == {n \in Nat : n <= Len(texts) => IsFiniteSet(U(n))}
<1>1. Len(texts) \in Nat /\ DOMAIN texts = 1 .. Len(texts)
  BY LenProperties
<1>2. 0 \in F
  <2>1. U(0) = {}
    OBVIOUS
  <2> QED
    BY <2>1, FS_EmptySet
<1>3. ASSUME NEW n \in Nat, n \in F PROVE n + 1 \in F
  <2> SUFFICES ASSUME n + 1 <= Len(texts) PROVE IsFiniteSet(U(n + 1))
    OBVIOUS
  <2>1. IsFiniteSet(U(n))
    BY <1>1, <1>3
  <2>2. IsFiniteSet(P(n + 1))
    <3> DEFINE k == n + 1
               D == {i \in DOMAIN texts[k] : texts[k][i] = "&"}
    <3>1. texts[k] \in Texts
      BY <1>1, ElementOfSeq
    <3>2. DOMAIN texts[k] = 1 .. Len(texts[k]) /\ Len(texts[k]) \in Nat
      BY <3>1, LenProperties DEF Texts
    <3>3. IsFiniteSet(1 .. Len(texts[k]))
      BY <3>2, FS_Interval
    <3>4. D \subseteq 1 .. Len(texts[k])
      BY <3>2
    <3> HIDE DEF D
    <3>5. IsFiniteSet(D)
      BY <3>3, <3>4, FS_Subset
    <3>6. IsFiniteSet({k})
      BY FS_Singleton
    <3> HIDE DEF k
    <3>7. IsFiniteSet({k} \X D)
      BY <3>5, <3>6, FS_Product
    <3> QED
      BY <3>7 DEF D, k
  <2>3. U(n + 1) = U(n) \cup P(n + 1)
    <3>1. \A k \in 1 .. n + 1 : k \in 1 .. n \/ k = n + 1
      OBVIOUS
    <3>2. n + 1 \in 1 .. n + 1 /\ \A k \in 1 .. n : k \in 1 .. n + 1
      OBVIOUS
    <3> HIDE DEF P
    <3> QED
      BY <3>1, <3>2
  <2> HIDE DEF U, P
  <2> QED
    <3> DEFINE V == U(n)
               W == P(n + 1)
    <3>1. IsFiniteSet(V) /\ IsFiniteSet(W) /\ U(n + 1) = V \cup W
      BY <2>1, <2>2, <2>3
    <3> HIDE DEF V, W
    <3>2. IsFiniteSet(V \cup W)
      BY <3>1, FS_Union
    <3> QED
      BY <3>1, <3>2
<1>4. Len(texts) \in F
  <2> HIDE DEF F
  <2>1. Nat \subseteq F
    BY <1>2, <1>3, SetInduction
  <2> QED
    BY <1>1, <2>1
<1>5. Separators(texts) = U(Len(texts))
  BY <1>1 DEF Separators
<1>6. IsFiniteSet(Separators(texts))
  BY <1>1, <1>4, <1>5
<1> QED
  BY <1>6, FS_CardinalityType

\* The place <<x, y>> a separator <<k, i>> of the divided texts had before, when the
\* first text was divided at 'at', which is the place of none of them.
Moved(at, dl, dr, k, i, x, y) ==
  \/ k = 1 /\ x = 1 /\ y = i + dl /\ y < at
  \/ k = 2 /\ x = 1 /\ y = i + dr /\ y > at
  \/ k > 2 /\ x = k - 1 /\ y = i

\* A split gives up one '&' and adds one text.
LEMMA SplitMakesFewer ==
  ASSUME todo \in Seq(Texts), Split
  PROVE  todo' \in Seq(Texts) /\ StillToDo(todo') < StillToDo(todo)
<1> DEFINE text == Text
           at == PositionOf(text, "&")
           l == Segment(text, 1, at)
           r == Segment(text, at + 1, Len(text) + 1)
           n == Len(todo)
           new == todo'
<1>1. /\ text \in Texts /\ text = todo[1] /\ n \in Nat \ {0}
      /\ at \in 1 .. Len(text) /\ text[at] = "&"
  BY SplitTexts
<1>9. /\ new \in Seq(Texts) /\ Len(new) = n + 1 /\ new[1] = l /\ new[2] = r
      /\ \A k \in 3 .. n + 1 : new[k] = todo[k - 1]
  BY SplitTexts
<1> HIDE DEF text, at
<1>2. Len(text) \in Nat /\ at \in 1 .. Len(text) /\ text[at] = "&" /\ DOMAIN text = 1 .. Len(text)
  BY <1>1, LenProperties DEF Texts
<1>4. at + 1 \in 1 .. Len(text) + 1 /\ at \in 1 .. Len(text) + 1 /\ 1 \in 1 .. Len(text) + 1
      /\ Len(text) + 1 \in 1 .. Len(text) + 1 /\ at \in Nat
  BY <1>2
<1>5. l \in Texts /\ \E d : PieceAt(l, text, 1, at, d)
  BY <1>1, <1>4, SegmentCovers
<1>6. r \in Texts /\ \E d : PieceAt(r, text, at + 1, Len(text) + 1, d)
  BY <1>1, <1>4, SegmentCovers
<1> HIDE DEF l, r
<1>7. PICK dl \in Nat : \A i \in DOMAIN l : i + dl \in 1 .. at - 1 /\ l[i] = text[i + dl]
  BY <1>5 DEF PieceAt
<1>8. PICK dr \in Nat : \A i \in DOMAIN r : i + dr \in at + 1 .. Len(text) + 1 - 1 /\ r[i] = text[i + dr]
  BY <1>6 DEF PieceAt
<1> DEFINE A == Separators(todo)
           B == Separators(new)
           C == A \ {<<1, at>>}
           X(p) == IF p[1] <= 2 THEN 1 ELSE p[1] - 1
           Y(p) == IF p[1] = 1 THEN p[2] + dl ELSE IF p[1] = 2 THEN p[2] + dr ELSE p[2]
           f == [p \in B |-> <<X(p), Y(p)>>]
<1>10. n \in Nat \ {0} /\ 1 \in 1 .. n
  BY <1>1
<1> HIDE DEF n, new
<1>11. IsFiniteSet(A) /\ Cardinality(A) \in Nat /\ <<1, at>> \in A
  BY <1>1, <1>2, <1>10, SeparatorsFinite, SeparatorsAre DEF n
<1>12. \A p \in A : /\ p = <<p[1], p[2]>> /\ p[1] \in 1 .. n
                    /\ p[2] \in DOMAIN todo[p[1]] /\ todo[p[1]][p[2]] = "&"
  BY SeparatorsAre DEF n
<1>13. ASSUME NEW p \in B
       PROVE  /\ p = <<p[1], p[2]>> /\ p[1] \in 1 .. n + 1
              /\ p[2] \in DOMAIN new[p[1]] /\ new[p[1]][p[2]] = "&"
  BY <1>9, SeparatorsAre
<1>14. ASSUME NEW a \in 1 .. n, NEW b \in DOMAIN todo[a], todo[a][b] = "&"
       PROVE  <<a, b>> \in A
  BY <1>14, SeparatorsAre DEF n
<1> HIDE DEF A, B, C
<1>15. ASSUME NEW p \in B
       PROVE  /\ <<X(p), Y(p)>> \in A
              /\ p[1] \in Nat /\ p[2] \in Nat /\ X(p) \in Nat /\ Y(p) \in Nat
              /\ Moved(at, dl, dr, p[1], p[2], X(p), Y(p))
  <2>1. p[1] \in 1 .. n + 1 /\ p[2] \in DOMAIN new[p[1]] /\ new[p[1]][p[2]] = "&"
    BY <1>13
  <2> SUFFICES /\ X(p) \in 1 .. n /\ Y(p) \in DOMAIN todo[X(p)] /\ todo[X(p)][Y(p)] = "&"
               /\ p[2] \in Nat /\ Y(p) \in Nat
               /\ Moved(at, dl, dr, p[1], p[2], X(p), Y(p))
    <3> HIDE DEF X, Y
    <3>1. p[1] \in Nat /\ (X(p) \in 1 .. n => X(p) \in Nat)
      BY <1>10, <2>1
    <3> QED
      BY <1>14, <3>1
  <2>2. CASE p[1] = 1
    <3>1. p[2] \in DOMAIN l /\ l[p[2]] = "&"
      BY <1>9, <2>1, <2>2
    <3>2. p[2] \in Nat
      BY <1>5, <3>1, LenProperties DEF Texts
    <3>3. p[2] + dl \in 1 .. at - 1 /\ text[p[2] + dl] = "&"
      BY <1>2, <1>7, <3>1
    <3>4. p[2] + dl \in DOMAIN todo[1] /\ todo[1][p[2] + dl] = "&"
      BY <1>1, <1>2, <1>4, <3>3
    <3>5. X(p) = 1 /\ Y(p) = p[2] + dl
      BY <2>2
    <3> HIDE DEF X, Y
    <3>6. p[2] + dl \in Nat /\ p[2] + dl < at
      BY <1>4, <3>2, <3>3
    <3>7. Y(p) \in Nat /\ Y(p) < at
      BY <3>5, <3>6
    <3>8. Moved(at, dl, dr, p[1], p[2], X(p), Y(p))
      BY <2>2, <3>5, <3>7 DEF Moved
    <3> QED
      BY <1>10, <3>2, <3>4, <3>5, <3>7, <3>8
  <2>3. CASE p[1] = 2
    <3>1. p[2] \in DOMAIN r /\ r[p[2]] = "&"
      BY <1>9, <2>1, <2>3
    <3>2. p[2] \in Nat
      BY <1>6, <3>1, LenProperties DEF Texts
    <3>3. p[2] + dr \in at + 1 .. Len(text) /\ text[p[2] + dr] = "&"
      BY <1>2, <1>8, <3>1
    <3>4. p[2] + dr \in DOMAIN todo[1] /\ todo[1][p[2] + dr] = "&"
      BY <1>1, <1>2, <1>4, <3>3
    <3>5. X(p) = 1 /\ Y(p) = p[2] + dr
      BY <2>3
    <3> HIDE DEF X, Y
    <3>6. p[2] + dr \in Nat /\ p[2] + dr > at
      BY <1>4, <3>2, <3>3
    <3>7. Y(p) \in Nat /\ Y(p) > at
      BY <3>5, <3>6
    <3>8. Moved(at, dl, dr, p[1], p[2], X(p), Y(p))
      BY <2>3, <3>5, <3>7 DEF Moved
    <3> QED
      BY <1>10, <3>2, <3>4, <3>5, <3>7, <3>8
  <2>4. CASE p[1] \notin {1, 2}
    <3>1. /\ p[1] \in 3 .. n + 1 /\ p[1] - 1 \in 2 .. n /\ p[1] - 1 \in 1 .. n
          /\ p[1] > 2 /\ p[1] \in Nat
      BY <1>10, <2>1, <2>4
    <3>2. p[2] \in DOMAIN todo[p[1] - 1] /\ todo[p[1] - 1][p[2]] = "&"
      BY <1>9, <2>1, <3>1
    <3>3. p[2] \in Nat
      <4>1. todo[p[1] - 1] \in Texts
        <5> DEFINE k == p[1] - 1
        <5>1. k \in 1 .. Len(todo)
          BY <3>1 DEF n
        <5> HIDE DEF k
        <5>2. todo[k] \in Texts
          BY <5>1, ElementOfSeq
        <5> QED
          BY <5>2 DEF k
      <4> QED
        BY <3>2, <4>1, LenProperties DEF Texts
    <3>4. X(p) = p[1] - 1 /\ Y(p) = p[2]
      BY <2>4, <3>1
    <3> HIDE DEF X, Y
    <3>5. Moved(at, dl, dr, p[1], p[2], X(p), Y(p))
      BY <3>1, <3>4 DEF Moved
    <3> QED
      BY <3>1, <3>2, <3>3, <3>4, <3>5
  <2> QED
    BY <2>2, <2>3, <2>4
<1> HIDE DEF X, Y
<1>16. ASSUME NEW p \in B PROVE <<X(p), Y(p)>> \in C
  <2>1. ASSUME <<X(p), Y(p)>> = <<1, at>> PROVE FALSE
    <3> DEFINE k == p[1]
               i == p[2]
               x == X(p)
               y == Y(p)
    <3>1. x = 1 /\ y = at
      BY <2>1, PartsOfPairs
    <3>2. k \in Nat /\ i \in Nat /\ x \in Nat /\ y \in Nat /\ Moved(at, dl, dr, k, i, x, y)
      BY <1>15
    <3> HIDE DEF k, i, x, y
    <3> QED
      BY <1>4, <3>1, <3>2 DEF Moved
  <2> QED
    BY <1>15, <2>1 DEF C
<1>17. ASSUME NEW p \in B, NEW q \in B, <<X(p), Y(p)>> = <<X(q), Y(q)>> PROVE p = q
  <2>1. p = <<p[1], p[2]>> /\ q = <<q[1], q[2]>>
    BY <1>13
  <2>2. X(p) = X(q) /\ Y(p) = Y(q)
    BY <1>17, PartsOfPairs
  <2>3. p[1] = q[1] /\ p[2] = q[2]
    <3> DEFINE k == p[1]
               i == p[2]
               m == q[1]
               j == q[2]
               x == X(p)
               y == Y(p)
    <3>1. k \in Nat /\ i \in Nat /\ x \in Nat /\ y \in Nat /\ Moved(at, dl, dr, k, i, x, y)
      BY <1>15
    <3>2. m \in Nat /\ j \in Nat /\ Moved(at, dl, dr, m, j, X(q), Y(q))
      BY <1>15
    <3>3. m \in Nat /\ j \in Nat /\ Moved(at, dl, dr, m, j, x, y)
      BY <2>2, <3>2
    <3>4. at \in Nat
      BY <1>4
    <3> HIDE DEF k, i, m, j, x, y
    <3>5. k = m /\ i = j
      BY <3>1, <3>3, <3>4 DEF Moved
    <3> QED
      BY <3>5 DEF k, i, m, j
  <2> QED
    BY <2>1, <2>3
<1>18. IsFiniteSet(B) /\ Cardinality(B) <= Cardinality(C) /\ Cardinality(C) = Cardinality(A) - 1
  <2>1. f \in [B -> C] /\ \A p, q \in B : f[p] = f[q] => p = q
    BY <1>16, <1>17
  <2> HIDE DEF f
  <2>2. IsFiniteSet(C) /\ Cardinality(C) = Cardinality(A) - 1
    BY <1>11, FS_RemoveElement DEF C
  <2> QED
    BY <2>1, <2>2, NoMoreThan
<1>19. Cardinality(B) \in Nat
  BY <1>18, FS_CardinalityType
<1>20. StillToDo(todo) = 2 * Cardinality(A) + n /\ StillToDo(new) = 2 * Cardinality(B) + (n + 1)
  BY <1>9 DEF StillToDo, A, B, n
<1>21. StillToDo(new) < StillToDo(todo)
  BY <1>10, <1>11, <1>18, <1>19, <1>20
<1> QED
  BY <1>9, <1>21 DEF new

\* A text executed takes its separators with it.
LEMMA LessToDo ==
  ASSUME todo \in Seq(Texts), todo # <<>>, todo' = Tail(todo)
  PROVE  todo' \in Seq(Texts) /\ StillToDo(todo') < StillToDo(todo)
<1> DEFINE n == Len(todo)
           new == todo'
           A == Separators(todo)
           B == Separators(new)
           f == [p \in B |-> <<p[1] + 1, p[2]>>]
<1>1. /\ new \in Seq(Texts) /\ Len(new) = n - 1 /\ n \in Nat \ {0}
      /\ \A k \in 1 .. n - 1 : new[k] = todo[k + 1]
  BY HeadTailProperties, EmptySeq, LenProperties
<1> HIDE DEF new, n
<1>2. IsFiniteSet(A) /\ Cardinality(A) \in Nat /\ IsFiniteSet(B) /\ Cardinality(B) \in Nat
  BY <1>1, SeparatorsFinite
<1>3. ASSUME NEW p \in B
      PROVE  /\ p = <<p[1], p[2]>> /\ p[1] \in 1 .. n - 1 /\ <<p[1] + 1, p[2]>> \in A
  <2>1. /\ p = <<p[1], p[2]>> /\ p[1] \in 1 .. n - 1
        /\ p[2] \in DOMAIN new[p[1]] /\ new[p[1]][p[2]] = "&"
    BY <1>1, SeparatorsAre
  <2> DEFINE a == p[1] + 1
             b == p[2]
  <2>2. a \in 1 .. Len(todo) /\ b \in DOMAIN todo[a] /\ todo[a][b] = "&"
    BY <1>1, <2>1 DEF n
  <2> HIDE DEF a, b
  <2>3. <<a, b>> \in A
    BY <2>2, SeparatorsAre
  <2> QED
    BY <2>1, <2>3 DEF a, b
<1> HIDE DEF A, B
<1>4. f \in [B -> A]
  BY <1>3
<1>5. ASSUME NEW p \in B, NEW q \in B, f[p] = f[q] PROVE p = q
  <2>1. <<p[1] + 1, p[2]>> = <<q[1] + 1, q[2]>>
    BY <1>5
  <2>2. p[1] + 1 = q[1] + 1 /\ p[2] = q[2] /\ p[1] \in Nat /\ q[1] \in Nat
    <3>1. p[1] \in Nat /\ q[1] \in Nat
      <4>1. \A k \in 1 .. n - 1 : k \in Nat
        BY <1>1
      <4> QED
        BY <1>3, <4>1
    <3> DEFINE a == p[1] + 1
               b == p[2]
               c == q[1] + 1
               d == q[2]
    <3>2. <<a, b>> = <<c, d>>
      BY <2>1
    <3> HIDE DEF a, b, c, d
    <3>3. a = c /\ b = d
      BY <3>2, PartsOfPairs
    <3> QED
      BY <3>1, <3>3 DEF a, b, c, d
  <2>3. p[1] = q[1]
    BY <2>2
  <2> QED
    BY <1>3, <2>2, <2>3
<1> HIDE DEF f
<1>6. Cardinality(B) <= Cardinality(A)
  BY <1>2, <1>4, <1>5, NoMoreThan
<1>7. StillToDo(todo) = 2 * Cardinality(A) + n /\ StillToDo(new) = 2 * Cardinality(B) + (n - 1)
  BY <1>1 DEF StillToDo, A, B, n
<1>8. StillToDo(new) < StillToDo(todo)
  BY <1>1, <1>2, <1>6, <1>7
<1> QED
  BY <1>1, <1>8 DEF new

(***************************************************************************)
(* CallsGetFewer: whatever the text, its calls come to an end.             *)
(***************************************************************************)
THEOREM CallsEnd == Spec => CallsGetFewer
<1> DEFINE TextsInv == todo \in Seq(Texts)
<1>1. Init => TextsInv
  <2> SUFFICES ASSUME Init PROVE TextsInv
    OBVIOUS
  <2>1. command \in Texts /\ todo = <<command>>
    BY CommandLineAssumption DEF Init, Texts
  <2> QED
    BY <2>1
<1>2. TextsInv /\ Next => TextsInv' /\ StillToDo(todo') < StillToDo(todo)
  BY SplitMakesFewer, LessToDo DEF Next, Pipe, Dispatch
<1>3. TextsInv /\ UNCHANGED vars => TextsInv'
  BY DEF vars
<1>4. TextsInv /\ [Next]_vars => [StillToDo(todo') < StillToDo(todo)]_vars
  BY <1>2
<1> HIDE DEF TextsInv
<1>5. TextsInv /\ [Next]_vars => TextsInv'
  BY <1>2, <1>3
<1> QED
  BY <1>1, <1>4, <1>5, PTL DEF Spec, CallsGetFewer

-----------------------------------------------------------------------------
(***************************************************************************)
(* The texts still to execute stand for the parts of the line not yet      *)
(* executed.                                                               *)
(***************************************************************************)
\* Where parts begin, and where one more would begin.
Cuts(c) == PartStarts(c) \cup {Len(c) + 2}

\* What stands for a line from one cut up to the next '&' before another cut.
StandsFor(text, c, f, g) ==
  /\ text \in Texts /\ f \in PartStarts(c) /\ g \in Cuts(c) /\ f < g
  /\ \E d : PieceAt(text, c, f, g - 1, d)

\* Where the cuts are.
LEMMA CutsAre ==
  ASSUME NEW c \in Texts
  PROVE  /\ Len(c) \in Nat /\ Positions(PartStarts(c))
         /\ \A f \in PartStarts(c) : f \in 1 .. Len(c) + 1 /\ (f = 1 \/ c[f - 1] = "&")
         /\ \A j \in 1 .. Len(c) : c[j] = "&" => j + 1 \in PartStarts(c)
         /\ \A g \in Cuts(c) : /\ g \in 1 .. Len(c) + 2
                               /\ g = Len(c) + 2 \/ (g \in PartStarts(c) /\ g <= Len(c) + 1)
<1> DEFINE n == Len(c)
           A == {j \in DOMAIN c : c[j] = "&"}
<1>1. n \in Nat /\ DOMAIN c = 1 .. n
  BY LenProperties DEF Texts
<1> HIDE DEF n
<1>2. ASSUME NEW f \in PartStarts(c) PROVE f \in 1 .. n + 1 /\ (f = 1 \/ c[f - 1] = "&")
  <2>1. f = 1 \/ \E j \in A : f = j + 1
    BY DEF PartStarts
  <2>2. CASE f = 1
    BY <1>1, <2>2
  <2>3. ASSUME NEW j \in A, f = j + 1 PROVE f \in 1 .. n + 1 /\ c[f - 1] = "&"
    <3>1. j \in 1 .. n /\ c[j] = "&"
      BY <1>1
    <3>2. f - 1 = j /\ f \in 1 .. n + 1
      BY <1>1, <2>3, <3>1
    <3> QED
      BY <3>1, <3>2
  <2> QED
    BY <2>1, <2>2, <2>3
<1>3. ASSUME NEW j \in 1 .. n, c[j] = "&" PROVE j + 1 \in PartStarts(c)
  BY <1>1, <1>3 DEF PartStarts
<1>4. PartStarts(c) \in SUBSET (1 .. n + 1) /\ n + 1 \in Nat
  BY <1>1, <1>2
<1>5. Positions(PartStarts(c))
  <2> DEFINE m == n + 1
  <2>1. m \in Nat /\ PartStarts(c) \in SUBSET (1 .. m)
    BY <1>4
  <2> HIDE DEF m
  <2> QED
    BY <2>1 DEF Positions
<1>6. ASSUME NEW g \in Cuts(c)
      PROVE  g \in 1 .. n + 2 /\ (g = n + 2 \/ (g \in PartStarts(c) /\ g <= n + 1))
  <2>1. g \in PartStarts(c) \/ g = n + 2
    BY DEF Cuts, n
  <2> QED
    BY <1>1, <1>2, <2>1
<1> QED
  BY <1>1, <1>2, <1>3, <1>5, <1>6 DEF n

\* A text that is divided at a '&' divides what it stands for.
LEMMA DividedStands ==
  ASSUME NEW text, NEW c \in Texts, NEW f, NEW g, StandsFor(text, c, f, g),
         NEW at \in 1 .. Len(text), text[at] = "&"
  PROVE  \E h : /\ StandsFor(Segment(text, 1, at), c, f, h)
                /\ StandsFor(Segment(text, at + 1, Len(text) + 1), c, h, g)
<1> DEFINE l == Segment(text, 1, at)
           r == Segment(text, at + 1, Len(text) + 1)
           n == Len(text)
<1>1. PICK d : PieceAt(text, c, f, g - 1, d)
  BY DEF StandsFor
<1> DEFINE y == g - 1
           p == at + d
           h == at + d + 1
<1>2. text \in Texts /\ f \in PartStarts(c) /\ g \in Cuts(c) /\ f < g
  BY DEF StandsFor
<1>3. n \in Nat /\ DOMAIN text = 1 .. n
  BY <1>2, LenProperties DEF Texts
<1>4. f \in 1 .. Len(c) + 1 /\ g \in 1 .. Len(c) + 2 /\ Len(c) \in Nat
  BY <1>2, CutsAre
<1>5. f \in Int /\ g \in Int /\ y \in Int /\ at \in Int /\ at >= 1 /\ at <= n
  BY <1>3, <1>4
<1>6. PieceAt(text, c, f, y, d)
  BY <1>1
<1> HIDE DEF n, y
<1>7. /\ d \in Nat /\ d >= f - 1
      /\ \A i \in 1 .. n : i + d \in f .. y - 1 /\ text[i] = c[i + d]
  BY <1>3, <1>6 DEF PieceAt
<1>8. p \in f .. y - 1 /\ c[p] = "&" /\ p \in Int /\ h \in Int /\ h = p + 1
  BY <1>3, <1>5, <1>7
<1>9. p \in 1 .. Len(c)
  BY <1>4, <1>5, <1>8 DEF y
<1>10. h \in PartStarts(c) /\ h \in Cuts(c) /\ f < h /\ h < g
  <2>1. p + 1 \in PartStarts(c)
    BY <1>8, <1>9, CutsAre
  <2>2. h \in PartStarts(c) /\ h \in Cuts(c)
    BY <1>8, <2>1 DEF Cuts
  <2>3. f < h /\ h < g
    BY <1>5, <1>8 DEF y
  <2> QED
    BY <2>2, <2>3
<1>11. 1 \in 1 .. n + 1 /\ at \in 1 .. n + 1 /\ at + 1 \in 1 .. n + 1 /\ n + 1 \in 1 .. n + 1
  BY <1>3, <1>5
<1>12. l \in Texts /\ \E e : PieceAt(l, text, 1, at, e)
  BY <1>2, <1>11, SegmentCovers DEF n
<1>13. r \in Texts /\ \E e : PieceAt(r, text, at + 1, n + 1, e)
  BY <1>2, <1>11, SegmentCovers DEF n
<1> HIDE DEF l, r, h
<1>14. \E e : PieceAt(l, c, f, h - 1, e)
  <2> DEFINE z == h - 1
             a == 1
  <2>1. PICK e : PieceAt(l, text, a, at, e)
    BY <1>12
  <2>2. z \in Int /\ z = at + d /\ a \in Int /\ a = 1
    BY <1>5, <1>7, <1>8
  <2> HIDE DEF z, a, p
  <2>3. e \in Nat /\ \A i \in DOMAIN l : i + e \in a .. at - 1
    BY <2>1 DEF PieceAt
  <2>4. DOMAIN l \subseteq Int
    BY <1>12, LenProperties DEF Texts
  <2>5. f <= a + d
    BY <1>5, <1>7, <2>2
  <2>6. ASSUME NEW i \in DOMAIN l PROVE i + e \in DOMAIN text /\ i + e + d \in f .. z - 1
    <3> DEFINE k == i + e
    <3>1. k \in a .. at - 1
      BY <2>3
    <3> HIDE DEF k
    <3>2. k \in 1 .. n /\ k + d \in f .. y - 1 /\ k + d <= z - 1 /\ k \in Int
      BY <1>3, <1>5, <1>7, <2>2, <3>1
    <3>3. k \in DOMAIN text /\ k + d \in f .. z - 1
      BY <1>3, <1>5, <1>7, <2>2, <3>2
    <3> QED
      BY <3>3 DEF k
  <2>7. ASSUME NEW j \in f .. z - 1
        PROVE  j \in f .. y - 1 /\ (j - d \in DOMAIN text => j - d \in a .. at - 1)
    <3>1. z <= y - 1
      BY <1>5, <1>8, <2>2 DEF p
    <3>2. j \in f .. y - 1 /\ j - d <= at - 1 /\ j - d \in Int
      BY <1>5, <1>7, <2>2, <3>1
    <3>3. j - d \in DOMAIN text => j - d >= a
      BY <1>3, <2>2
    <3> QED
      BY <1>5, <2>2, <3>2, <3>3
  <2>8. PieceAt(l, c, f, z, e + d)
    BY <1>5, <1>6, <2>1, <2>2, <2>4, <2>5, <2>6, <2>7, PieceOfPiece
  <2> QED
    BY <2>8 DEF z
<1>15. \E e : PieceAt(r, c, h, g - 1, e)
  <2> DEFINE a == at + 1
             b == n + 1
  <2>1. PICK e : PieceAt(r, text, a, b, e)
    BY <1>13
  <2>2. a \in Int /\ b \in Int /\ a = at + 1 /\ b = n + 1 /\ h \in Int /\ h = at + d + 1
    BY <1>3, <1>5, <1>8 DEF h
  <2> HIDE DEF a, b, p
  <2>3. e \in Nat /\ \A i \in DOMAIN r : i + e \in a .. b - 1
    BY <2>1 DEF PieceAt
  <2>4. DOMAIN r \subseteq Int
    BY <1>13, LenProperties DEF Texts
  <2>5. h <= a + d
    BY <1>5, <1>7, <2>2
  <2>6. ASSUME NEW i \in DOMAIN r PROVE i + e \in DOMAIN text /\ i + e + d \in h .. y - 1
    <3> DEFINE k == i + e
    <3>1. k \in a .. b - 1
      BY <2>3
    <3> HIDE DEF k
    <3>2. k \in 1 .. n /\ k + d \in f .. y - 1 /\ k + d >= h /\ k \in Int
      BY <1>3, <1>5, <1>7, <2>2, <3>1
    <3>3. k \in DOMAIN text /\ k + d \in h .. y - 1
      BY <1>3, <1>5, <1>7, <2>2, <3>2
    <3> QED
      BY <3>3 DEF k
  <2>7. ASSUME NEW j \in h .. y - 1
        PROVE  j \in f .. y - 1 /\ (j - d \in DOMAIN text => j - d \in a .. b - 1)
    <3>1. f <= h
      BY <1>5, <1>10, <2>2
    <3>2. j \in f .. y - 1 /\ j - d >= a /\ j - d \in Int
      BY <1>5, <1>7, <2>2, <3>1
    <3>3. j - d \in DOMAIN text => j - d <= b - 1
      BY <1>3, <2>2
    <3> QED
      BY <1>5, <2>2, <3>2, <3>3
  <2>8. PieceAt(r, c, h, y, e + d)
    BY <1>5, <1>6, <2>1, <2>2, <2>4, <2>5, <2>6, <2>7, PieceOfPiece
  <2> QED
    BY <2>8 DEF y
<1>16. StandsFor(l, c, f, h) /\ StandsFor(r, c, h, g)
  BY <1>2, <1>10, <1>12, <1>13, <1>14, <1>15 DEF StandsFor
<1> QED
  BY <1>16 DEF l, r, n

\* A text without '&' stands for a part of the line.
LEMMA WholePart ==
  ASSUME NEW text, NEW c \in Texts, NEW f, NEW g, StandsFor(text, c, f, g),
         \A i \in DOMAIN text : text[i] # "&"
  PROVE  /\ f \in Int /\ g \in Int /\ f < g /\ \A j \in PartStarts(c) : f < j => g <= j
         /\ Part(c, f) \in Texts /\ \E e : Trimmed(text, Part(c, f), e)
<1> DEFINE y == g - 1
<1>1. PICK d : PieceAt(text, c, f, y, d)
  BY DEF StandsFor
<1>2. text \in Texts /\ f \in PartStarts(c) /\ g \in Cuts(c) /\ f < g
  BY DEF StandsFor
<1>3. DOMAIN text \subseteq Int
  BY <1>2, LenProperties DEF Texts
<1>4. /\ f \in 1 .. Len(c) + 1 /\ g \in 1 .. Len(c) + 2 /\ Len(c) \in Nat
      /\ g = Len(c) + 2 \/ c[g - 1] = "&" \/ g = 1
  BY <1>2, CutsAre
<1>5. f \in Int /\ g \in Int /\ y \in f .. Len(c) + 1 /\ y \in Int /\ y = g - 1 /\ f >= 1
  BY <1>2, <1>4
<1>6. y = Len(c) + 1 \/ c[y] = "&"
  BY <1>2, <1>4, <1>5
<1>7. ASSUME NEW j \in f .. y - 1 PROVE c[j] # "&"
  <2>1. j - d \in DOMAIN text \/ IsBlank(c[j])
    BY <1>1 DEF PieceAt
  <2>2. CASE IsBlank(c[j])
    BY <2>2 DEF IsBlank, Blanks
  <2>3. CASE j - d \in DOMAIN text
    <3>1. text[j - d] = c[(j - d) + d] /\ d \in Nat
      BY <1>1, <2>3 DEF PieceAt
    <3>2. j \in Int
      BY <1>5
    <3>3. (j - d) + d = j
      BY <3>1, <3>2
    <3> QED
      BY <2>3, <3>1, <3>3
  <2> QED
    BY <2>1, <2>2, <2>3
<1>8. ASSUME NEW j \in PartStarts(c), f < j PROVE g <= j
  <2>1. j \in 1 .. Len(c) + 1 /\ (j = 1 \/ c[j - 1] = "&")
    BY CutsAre
  <2> SUFFICES ASSUME j < g PROVE FALSE
    BY <1>4, <1>5, <2>1
  <2>2. j \in Int /\ c[j - 1] = "&" /\ j - 1 >= f /\ j - 1 <= y - 1
    BY <1>4, <1>5, <1>8, <2>1
  <2>3. j - 1 \in f .. y - 1
    BY <1>5, <2>2
  <2> QED
    BY <1>7, <2>2, <2>3
<1> HIDE DEF y
<1>9. IsFirst(c, f, {"&"}, y)
  BY <1>5, <1>6, <1>7 DEF IsFirst
<1>10. Part(c, f) = SubSeq(c, f, y - 1)
  BY <1>4, <1>9, RunIs DEF Part
<1>11. Part(c, f) \in Texts
  BY <1>4, <1>5, <1>10, SubText
<1>12. Trimmed(text, Part(c, f), d - f + 1)
  BY <1>1, <1>2, <1>4, <1>5, <1>10, TrimmedPiece
<1> QED
  BY <1>2, <1>5, <1>8, <1>11, <1>12

\* The texts stand for what is left of a line from a cut on.
StandFrom(texts, c, m) ==
  \E b \in [1 .. Len(texts) + 1 -> Nat] :
    /\ b[1] = m /\ b[Len(texts) + 1] = Len(c) + 2
    /\ \A k \in 1 .. Len(texts) : StandsFor(texts[k], c, b[k], b[k + 1])

\* The first text stands for what lies before the next cut.
LEMMA FirstStands ==
  ASSUME NEW c \in Texts, NEW m, NEW texts \in Seq(Texts), texts # <<>>, StandFrom(texts, c, m)
  PROVE  \E g : StandsFor(Head(texts), c, m, g) /\ StandFrom(Tail(texts), c, g)
<1> DEFINE n == Len(texts)
           rest == Tail(texts)
           l == Len(rest)
<1>1. /\ Head(texts) = texts[1] /\ rest \in Seq(Texts) /\ l = n - 1 /\ n \in Nat \ {0}
      /\ \A k \in 1 .. n - 1 : rest[k] = texts[k + 1]
  BY HeadTailProperties, EmptySeq, LenProperties
<1> HIDE DEF n, rest, l
<1>2. PICK b \in [1 .. n + 1 -> Nat] :
        /\ b[1] = m /\ b[n + 1] = Len(c) + 2
        /\ \A k \in 1 .. n : StandsFor(texts[k], c, b[k], b[k + 1])
  BY DEF StandFrom, n
<1> DEFINE a == [k \in 1 .. l + 1 |-> b[k + 1]]
           g == b[2]
<1>3. /\ 1 \in 1 .. n /\ 1 \in 1 .. l + 1 /\ l + 1 \in 1 .. l + 1 /\ (l + 1) + 1 = n + 1 /\ 1 + 1 = 2
      /\ \A k \in 1 .. l + 1 : k + 1 \in 1 .. n + 1
  BY <1>1
<1>4. /\ a \in [1 .. l + 1 -> Nat] /\ a[1] = g /\ a[l + 1] = Len(c) + 2
      /\ \A k \in 1 .. l + 1 : a[k] = b[k + 1]
  BY <1>2, <1>3
<1> HIDE DEF a, g
<1>5. ASSUME NEW k \in 1 .. l PROVE StandsFor(rest[k], c, a[k], a[k + 1])
  <2>1. k \in 1 .. n - 1 /\ k + 1 \in 1 .. n /\ k \in 1 .. l + 1 /\ k + 1 \in 1 .. l + 1
    BY <1>1
  <2>2. StandsFor(texts[k + 1], c, b[k + 1], b[(k + 1) + 1])
    BY <1>2, <2>1
  <2>3. rest[k] = texts[k + 1] /\ a[k] = b[k + 1] /\ a[k + 1] = b[(k + 1) + 1]
    BY <1>1, <1>4, <2>1
  <2> QED
    BY <2>2, <2>3
<1>6. StandFrom(rest, c, g)
  BY <1>4, <1>5 DEF StandFrom, l
<1>7. StandsFor(Head(texts), c, m, g)
  <2>1. StandsFor(texts[1], c, b[1], b[1 + 1])
    BY <1>2, <1>3
  <2> QED
    BY <1>1, <1>2, <1>3, <2>1 DEF g
<1> QED
  BY <1>6, <1>7 DEF rest

\* The first text divided in two.
LEMMA TwoStand ==
  ASSUME NEW c \in Texts, NEW m, NEW texts \in Seq(Texts), NEW new \in Seq(Texts),
         Len(texts) \in Nat \ {0}, Len(new) = Len(texts) + 1,
         \A k \in 3 .. Len(texts) + 1 : new[k] = texts[k - 1],
         StandFrom(texts, c, m),
         \A f, g : StandsFor(texts[1], c, f, g) =>
                     \E h : StandsFor(new[1], c, f, h) /\ StandsFor(new[2], c, h, g)
  PROVE  StandFrom(new, c, m)
<1> DEFINE n == Len(texts)
<1>1. n \in Nat \ {0} /\ Len(new) = n + 1
  OBVIOUS
<1>2. PICK b \in [1 .. n + 1 -> Nat] :
        /\ b[1] = m /\ b[n + 1] = Len(c) + 2
        /\ \A k \in 1 .. n : StandsFor(texts[k], c, b[k], b[k + 1])
  BY DEF StandFrom
<1>3. \A k \in 3 .. n + 1 : new[k] = texts[k - 1]
  OBVIOUS
<1> HIDE DEF n
<1>4. PICK h : StandsFor(new[1], c, b[1], h) /\ StandsFor(new[2], c, h, b[2])
  <2>1. 1 \in 1 .. n /\ 1 + 1 = 2
    BY <1>1
  <2>2. StandsFor(texts[1], c, b[1], b[2])
    BY <1>2, <2>1
  <2> QED
    BY <2>2
<1>5. h \in Nat
  <2>1. h \in PartStarts(c)
    BY <1>4 DEF StandsFor
  <2>2. h \in 1 .. Len(c) + 1 /\ Len(c) \in Nat
    BY <2>1, CutsAre
  <2> QED
    BY <2>2
<1> DEFINE a == [k \in 1 .. (n + 1) + 1 |-> IF k = 1 THEN b[1] ELSE IF k = 2 THEN h ELSE b[k - 1]]
<1>6. a \in [1 .. (n + 1) + 1 -> Nat]
  <2>1. ASSUME NEW k \in 1 .. (n + 1) + 1
        PROVE  (IF k = 1 THEN b[1] ELSE IF k = 2 THEN h ELSE b[k - 1]) \in Nat
    <3>1. 1 \in 1 .. n + 1
      BY <1>1
    <3>2. k # 1 => k - 1 \in 1 .. n + 1
      BY <1>1
    <3> QED
      BY <1>2, <1>5, <3>1, <3>2
  <2> QED
    BY <2>1
<1>7. a[1] = b[1] /\ a[2] = h /\ \A k \in 3 .. (n + 1) + 1 : a[k] = b[k - 1]
  <2>1. 1 \in 1 .. (n + 1) + 1 /\ 2 \in 1 .. (n + 1) + 1 /\ 1 # 2
    BY <1>1
  <2>2. \A k \in 3 .. (n + 1) + 1 : k \in 1 .. (n + 1) + 1 /\ k # 1 /\ k # 2
    BY <1>1
  <2> QED
    BY <2>1, <2>2
<1> HIDE DEF a
<1>8. a[(n + 1) + 1] = Len(c) + 2
  <2> DEFINE e == (n + 1) + 1
  <2>1. e \in 3 .. e /\ e - 1 = n + 1
    BY <1>1
  <2>2. \A k \in 3 .. e : a[k] = b[k - 1]
    BY <1>7
  <2> HIDE DEF e
  <2>3. a[e] = b[e - 1]
    BY <2>1, <2>2
  <2> QED
    BY <1>2, <2>1, <2>3 DEF e
<1>9. ASSUME NEW k \in 1 .. n + 1 PROVE StandsFor(new[k], c, a[k], a[k + 1])
  <2>1. CASE k = 1
    <3>1. k + 1 = 2
      BY <2>1
    <3> QED
      BY <1>4, <1>7, <2>1, <3>1
  <2>2. CASE k = 2
    <3>1. k + 1 = 3 /\ 3 \in 3 .. (n + 1) + 1 /\ 3 - 1 = 2
      BY <1>1, <2>2
    <3>2. a[3] = b[2]
      BY <1>7, <3>1
    <3> QED
      BY <1>4, <1>7, <2>2, <3>1, <3>2
  <2>3. CASE k # 1 /\ k # 2
    <3> DEFINE j == k - 1
    <3>1. /\ k \in 3 .. n + 1 /\ k \in 3 .. (n + 1) + 1 /\ k + 1 \in 3 .. (n + 1) + 1 /\ j \in 1 .. n
          /\ (k + 1) - 1 = j + 1
      BY <1>1, <2>3
    <3>2. a[k] = b[j] /\ a[k + 1] = b[j + 1] /\ new[k] = texts[j]
      BY <1>3, <1>7, <3>1
    <3> HIDE DEF j
    <3>3. StandsFor(texts[j], c, b[j], b[j + 1])
      BY <1>2, <3>1
    <3> QED
      BY <3>2, <3>3
  <2> QED
    BY <2>1, <2>2, <2>3
<1>10. a[1] = m
  BY <1>2, <1>7
<1> DEFINE l2 == Len(new)
<1>11. l2 = n + 1
  BY <1>1
<1> HIDE DEF l2
<1>12. /\ a \in [1 .. l2 + 1 -> Nat] /\ a[1] = m /\ a[l2 + 1] = Len(c) + 2
       /\ \A k \in 1 .. l2 : StandsFor(new[k], c, a[k], a[k + 1])
  BY <1>6, <1>8, <1>9, <1>10, <1>11
<1> QED
  BY <1>12 DEF StandFrom, l2

-----------------------------------------------------------------------------
(***************************************************************************)
(* What was executed are the parts before a cut.                           *)
(***************************************************************************)
ExecutedOf(c) == {i \in PartStarts(c) : WordStarts(Part(c, i)) # {}}

\* What a part is to have done; the second conjunct is about lines not indented.
RightOutcome(c, part, o) ==
  /\ IF IsPipeline(part) THEN o.kind # "command" ELSE o.kind = "command" /\ FirstWords(part, o.args)
  /\ IsPipeline(part) /\ Unindented(c) => o = Filtered(part)

RanBefore(c, done, m) ==
  /\ \E U : done \in Seq(U)
  /\ Len(done) = Below(ExecutedOf(c), m)
  /\ \A i \in ExecutedOf(c) : i < m => RightOutcome(c, Part(c, i), done[Place(ExecutedOf(c), i)])

\* The parts executed are finite in number.
LEMMA ExecutedAre ==
  ASSUME NEW c \in Texts
  PROVE  Positions(ExecutedOf(c)) /\ ExecutedOf(c) \subseteq Int /\ ExecutedOf(c) \subseteq PartStarts(c)
<1>1. PICK n \in Nat : PartStarts(c) \in SUBSET (1 .. n)
  BY CutsAre DEF Positions
<1>2. ExecutedOf(c) \subseteq PartStarts(c)
  BY DEF ExecutedOf
<1>3. Positions(ExecutedOf(c))
  BY <1>1, <1>2 DEF Positions
<1> QED
  BY <1>2, <1>3, PartFinite

\* A part without a word is passed over.
LEMMA PassedOver ==
  ASSUME NEW c \in Texts, NEW m \in Int, NEW g \in Int, m < g,
         \A j \in PartStarts(c) : m < j => g <= j,
         NEW done, RanBefore(c, done, m), m \notin ExecutedOf(c)
  PROVE  RanBefore(c, done, g)
<1> DEFINE X == ExecutedOf(c)
<1>1. Positions(X) /\ X \subseteq Int /\ X \subseteq PartStarts(c) /\ m \notin X
  BY ExecutedAre
<1>2. /\ \E U : done \in Seq(U)
      /\ Len(done) = Below(X, m)
      /\ \A i \in X : i < m => RightOutcome(c, Part(c, i), done[Place(X, i)])
  BY DEF RanBefore
<1> HIDE DEF X
<1>3. \A j \in X : m < j => g <= j
  BY <1>1
<1>4. Below(X, g) = Below(X, m)
  BY <1>1, <1>3, BelowNext
<1>5. \A i \in X : i < g => i < m
  <2> SUFFICES ASSUME NEW i \in X, i < g PROVE i < m
    OBVIOUS
  <2>1. i \in Int /\ i # m /\ (m < i => g <= i)
    BY <1>1, <1>3
  <2> QED
    BY <2>1
<1>6. /\ \E U : done \in Seq(U)
      /\ Len(done) = Below(X, g)
      /\ \A i \in X : i < g => RightOutcome(c, Part(c, i), done[Place(X, i)])
  BY <1>2, <1>4, <1>5
<1> QED
  BY <1>6 DEF RanBefore, X

\* A part with one adds its outcome, in its place.
LEMMA OneMoreRan ==
  ASSUME NEW c \in Texts, NEW m \in Int, NEW g \in Int, m < g,
         \A j \in PartStarts(c) : m < j => g <= j,
         NEW done, RanBefore(c, done, m), m \in ExecutedOf(c),
         NEW o, RightOutcome(c, Part(c, m), o)
  PROVE  RanBefore(c, Append(done, o), g)
<1> DEFINE X == ExecutedOf(c)
           new == Append(done, o)
           Right(i, x) == RightOutcome(c, Part(c, i), x)
<1>1. Positions(X) /\ X \subseteq Int /\ X \subseteq PartStarts(c) /\ m \in X
  BY ExecutedAre
<1>2. /\ \E U : done \in Seq(U)
      /\ Len(done) = Below(X, m)
      /\ \A i \in X : i < m => Right(i, done[Place(X, i)])
  BY DEF RanBefore
<1>3. Right(m, o)
  OBVIOUS
<1>4. \A j \in X : m < j => g <= j
  BY <1>1
<1> HIDE DEF X, Right
<1>5. Below(X, g) = Below(X, m) + 1
  BY <1>1, <1>4, BelowNext
<1>6. PICK U : done \in Seq(U)
  BY <1>2
<1> DEFINE V == U \cup {o}
<1>7. done \in Seq(V) /\ o \in V /\ Len(done) \in Nat
  <2>1. Len(done) \in Nat /\ \A i \in 1 .. Len(done) : done[i] \in V
    BY <1>6, LenProperties, ElementOfSeq
  <2>2. done = [i \in 1 .. Len(done) |-> done[i]]
    BY <1>6, LenProperties
  <2> HIDE DEF V
  <2>3. done \in Seq(V)
    BY <2>1, <2>2, IsASeq
  <2> QED
    BY <2>1, <2>3 DEF V
<1> HIDE DEF V
<1>8. /\ new \in Seq(V) /\ Len(new) = Len(done) + 1
      /\ (\A i \in 1 .. Len(done) : new[i] = done[i]) /\ new[Len(done) + 1] = o
  BY <1>7, AppendProperties
<1> HIDE DEF new
<1>9. ASSUME NEW i \in X, i < g PROVE Right(i, new[Place(X, i)])
  <2>1. i \in Int /\ (m < i => g <= i)
    BY <1>1, <1>4
  <2>2. Place(X, i) = Below(X, i) + 1 /\ Below(X, i) \in Nat
    BY <1>1, <2>1, BelowFacts
  <2>3. CASE i < m
    <3>1. Below(X, i) < Below(X, m)
      BY <1>1, <2>3, BelowGrows
    <3>2. Place(X, i) \in 1 .. Len(done)
      BY <1>2, <1>7, <2>2, <3>1
    <3> QED
      BY <1>2, <1>8, <2>3, <3>2
  <2>4. CASE i = m
    <3>1. Place(X, i) = Len(done) + 1
      BY <1>2, <2>2, <2>4
    <3> QED
      BY <1>3, <1>8, <2>4, <3>1
  <2> QED
    BY <1>9, <2>1, <2>3, <2>4
<1>10. Len(new) = Below(X, g)
  BY <1>2, <1>5, <1>8
<1>11. /\ \E W : new \in Seq(W)
       /\ Len(new) = Below(X, g)
       /\ \A i \in X : i < g => Right(i, new[Place(X, i)])
  BY <1>8, <1>9, <1>10
<1> QED
  BY <1>11 DEF RanBefore, X, Right, new

-----------------------------------------------------------------------------
(***************************************************************************)
(* Pipelines.                                                              *)
(***************************************************************************)
\* argv[] of a pipeline's sides.
LEMMA ArgsAre ==
  ASSUME NEW t \in Texts, NEW args, FirstWords(t, args)
  PROVE  /\ Len(args) < 2 <=> Cardinality(WordStarts(t)) < 2
         /\ Len(args) = 2 <=> Cardinality(WordStarts(t)) = 2
         /\ Cardinality(WordStarts(t)) >= 1 => args[1] = FirstWord(t)
         /\ Cardinality(WordStarts(t)) = 2 => args[2] = LastWord(t)
<1> DEFINE W == WordStarts(t)
           k == Cardinality(W)
           a == Min(W)
           b == Max(W)
<1>1. Positions(W) /\ k \in Nat /\ MaxArgs \in Nat /\ MaxArgs > 2 /\ W \subseteq Int /\ IsFiniteSet(W)
  BY StartsAre, PartFinite, CommandLineAssumption
<1>2. /\ Len(args) = Min({MaxArgs, k})
      /\ \A i \in W : Place(W, i) <= MaxArgs => args[Place(W, i)] = Word(t, i)
  BY DEF FirstWords
<1>3. PICK n \in Nat : W \in SUBSET (1 .. n)
  BY <1>1 DEF Positions
<1> HIDE DEF W
<1>4. k = 0 <=> W = {}
  BY <1>1, FS_EmptySet
<1> HIDE DEF k
<1>5. Len(args) = IF MaxArgs <= k THEN MaxArgs ELSE k
  BY <1>1, <1>2, MinTwo
<1>6. (Len(args) < 2 <=> k < 2) /\ (Len(args) = 2 <=> k = 2)
  BY <1>1, <1>5
<1>7. ASSUME k >= 1 PROVE args[1] = Word(t, a)
  <2>1. W # {} /\ W \in SUBSET Nat
    BY <1>3, <1>4, <1>7
  <2>2. a \in W /\ \A j \in W : a <= j
    BY <2>1, MinOf
  <2> HIDE DEF a
  <2>3. a \in Int /\ \A j \in W : j \in Int
    BY <1>1, <2>2
  <2>4. \A j \in W : ~ (j < a)
    BY <2>2, <2>3
  <2>5. Place(W, a) = Below(W, a) + 1 /\ Below(W, a) = 0
    BY <1>1, <2>2, <2>3, <2>4, BelowFacts
  <2>6. Place(W, a) = 1 /\ 1 <= MaxArgs
    BY <1>1, <2>5
  <2> QED
    BY <1>2, <2>2, <2>6
<1>8. ASSUME k = 2 PROVE args[2] = Word(t, b)
  <2>1. W # {} /\ W \in SUBSET (0 .. n)
    BY <1>3, <1>4, <1>8
  <2>2. b \in W /\ \A j \in W : b >= j
    BY <1>3, <2>1, MaxOf
  <2> HIDE DEF b
  <2>3. b \in Int /\ \A j \in W : j \in Int
    BY <1>1, <2>2
  <2> DEFINE T == {j \in W : j <= b}
  <2>4. T = W
    BY <2>2, <2>3
  <2>5. Place(W, b) = 2
    BY <1>8, <2>4 DEF Place, k
  <2>6. Place(W, b) = 2 /\ Place(W, b) <= MaxArgs
    BY <1>1, <2>5
  <2> QED
    BY <1>2, <2>2, <2>6
<1> QED
  BY <1>6, <1>7, <1>8 DEF k, W, FirstWord, LastWord

\* The first word of a text begins at a, the second at m, and its last character is b.
Laid(t, a, m, b) ==
  /\ a \in WordStarts(t) /\ \A j \in WordStarts(t) : a <= j
  /\ m \in WordStarts(t) /\ m # a /\ \A j \in WordStarts(t) : j = a \/ m <= j
  /\ b \in 1 .. Len(t) /\ ~ IsBlank(t[b]) /\ \A j \in 1 .. Len(t) : IsBlank(t[j]) \/ j <= b

\* A text of two words has these places,
LEMMA TwoWordsLaid ==
  ASSUME NEW t \in Texts, ~ (Cardinality(WordStarts(t)) < 2)
  PROVE  \E a, m, b : Laid(t, a, m, b)
<1> DEFINE W == WordStarts(t)
           a == Min(W)
           V == W \ {a}
           m == Min(V)
           S == {j \in 1 .. Len(t) : ~ IsBlank(t[j])}
           n == Len(t)
           b == Max(S)
<1>1. /\ Positions(W) /\ IsFiniteSet(W) /\ Cardinality(W) \in Nat /\ ~ (Cardinality(W) < 2) /\ n \in Nat
      /\ \A i : i \in W => i \in 1 .. n /\ ~ IsBlank(t[i])
  BY StartsAre, PartFinite, LenProperties DEF Texts
<1>2. W \in SUBSET Nat /\ S \in SUBSET (0 .. n)
  BY <1>1
<1> HIDE DEF W
<1>3. W # {}
  BY <1>1, FS_EmptySet
<1>4. a \in W /\ \A j \in W : a <= j
  BY <1>2, <1>3, MinOf
<1> HIDE DEF a
<1>5. IsFiniteSet(V) /\ Cardinality(V) = Cardinality(W) - 1
  BY <1>1, <1>4, FS_RemoveElement
<1>6. V # {} /\ V \in SUBSET Nat
  <2>1. Cardinality({}) = 0
    BY FS_EmptySet
  <2>2. Cardinality(V) # 0
    BY <1>1, <1>5
  <2> QED
    BY <1>2, <2>1, <2>2
<1>7. m \in V /\ \A j \in V : m <= j
  <2> HIDE DEF V
  <2> QED
    BY <1>6, MinOf
<1> HIDE DEF m
<1>8. a \in S
  BY <1>1, <1>4
<1>9. b \in S /\ \A j \in S : b >= j
  <2> HIDE DEF S, n
  <2> QED
    BY <1>1, <1>2, <1>8, MaxOf
<1> HIDE DEF b
<1>10. m \in W /\ m # a /\ \A j \in W : j = a \/ m <= j
  BY <1>7
<1>11. b \in 1 .. n /\ ~ IsBlank(t[b]) /\ \A j \in 1 .. n : IsBlank(t[j]) \/ j <= b
  <2>1. \A j \in 1 .. n : j \in Int
    OBVIOUS
  <2>2. b \in 1 .. n /\ ~ IsBlank(t[b])
    BY <1>9
  <2>3. ASSUME NEW j \in 1 .. n, ~ IsBlank(t[j]) PROVE j <= b
    <3>1. j \in S
      BY <2>3
    <3>2. b >= j
      BY <1>9, <3>1
    <3> QED
      BY <2>1, <2>2, <3>2
  <2> QED
    BY <2>2, <2>3
<1> QED
  BY <1>4, <1>10, <1>11 DEF Laid, W

\* they are what the reference looks for,
LEMMA LaidIs ==
  ASSUME NEW t \in Texts, NEW a, NEW m, NEW b, Laid(t, a, m, b)
  PROVE  FirstWord(t) = Word(t, a) /\ BehindFirstWord(t) = SubSeq(t, m, b)
<1> DEFINE W == WordStarts(t)
           V == W \ {a}
           n == Len(t)
           S == {j \in DOMAIN t : ~ IsBlank(t[j])}
<1>1. /\ a \in W /\ (\A j \in W : a <= j)
      /\ m \in W /\ m # a /\ (\A j \in W : j = a \/ m <= j)
      /\ b \in 1 .. n /\ ~ IsBlank(t[b]) /\ \A j \in 1 .. n : IsBlank(t[j]) \/ j <= b
  BY DEF Laid
<1>2. Positions(W) /\ n \in Nat /\ DOMAIN t = 1 .. n
  BY StartsAre, LenProperties DEF Texts
<1>3. W \in SUBSET Nat /\ S \in SUBSET (0 .. n)
  BY <1>2, StartsAre
<1> HIDE DEF W
<1>4. Min(W) = a
  <2> DEFINE x == Min(W)
  <2>1. x \in W /\ \A j \in W : x <= j
    BY <1>1, <1>3, MinOf
  <2> HIDE DEF x
  <2>2. x <= a /\ a <= x /\ x \in Nat /\ a \in Nat
    BY <1>1, <1>3, <2>1
  <2>3. x = a
    BY <2>2
  <2> QED
    BY <2>3 DEF x
<1>5. Min(V) = m
  <2> DEFINE x == Min(V)
  <2>1. m \in V /\ V \in SUBSET Nat /\ \A j \in V : m <= j
    BY <1>1, <1>3
  <2> HIDE DEF V
  <2>2. x \in V /\ \A j \in V : x <= j
    BY <2>1, MinOf
  <2> HIDE DEF x
  <2>3. x <= m /\ m <= x /\ x \in Nat /\ m \in Nat
    BY <2>1, <2>2
  <2>4. x = m
    BY <2>3
  <2> QED
    BY <2>4 DEF x
<1>6. Max(S) = b
  <2> DEFINE x == Max(S)
  <2>1. b \in S /\ \A j \in S : j <= b
    BY <1>1, <1>2
  <2> HIDE DEF S
  <2>2. x \in S /\ \A j \in S : x >= j
    BY <1>2, <1>3, <2>1, MaxOf
  <2> HIDE DEF x
  <2>3. x >= b /\ x <= b /\ x \in Int /\ b \in Int
    BY <1>2, <1>3, <2>1, <2>2
  <2>4. x = b
    BY <2>3
  <2> QED
    BY <2>4 DEF x
<1>7. FirstWord(t) = Word(t, a)
  BY <1>4 DEF FirstWord, W
<1>8. BehindFirstWord(t) = SubSeq(t, m, b)
  BY <1>4, <1>5, <1>6 DEF BehindFirstWord, W
<1> QED
  BY <1>7, <1>8

\* and a piece has them where the whole does.
LEMMA TrimmedLaid ==
  ASSUME NEW s \in Texts, NEW t \in Texts, NEW d, Trimmed(s, t, d),
         NEW a, NEW m, NEW b, Laid(s, a, m, b)
  PROVE  Laid(t, a + d, m + d, b + d)
<1> DEFINE S == WordStarts(s)
           T == WordStarts(t)
<1>1. /\ a \in S /\ (\A j \in S : a <= j)
      /\ m \in S /\ m # a /\ (\A j \in S : j = a \/ m <= j)
      /\ b \in 1 .. Len(s) /\ ~ IsBlank(s[b]) /\ \A j \in 1 .. Len(s) : IsBlank(s[j]) \/ j <= b
  BY DEF Laid
<1>2. /\ d \in Nat /\ Len(s) \in Nat /\ Len(t) \in Nat
      /\ \A i \in 1 .. Len(s) : i + d \in 1 .. Len(t) /\ s[i] = t[i + d]
      /\ \A j \in 1 .. Len(t) : j - d \in 1 .. Len(s) \/ IsBlank(t[j])
  BY TrimmedFacts
<1>3. (\A i \in S : i + d \in T) /\ (\A j \in T : j - d \in S)
  BY TrimmedStarts
<1>4. (\A j \in S : j \in Int) /\ (\A j \in T : j \in Int)
  BY StartsAre
<1> HIDE DEF S, T
<1>5. a \in Int /\ m \in Int /\ b \in Int /\ d \in Int
  BY <1>1, <1>2, <1>4
<1>6. a + d \in T /\ m + d \in T /\ m + d # a + d
  BY <1>1, <1>3, <1>5
<1>7. ASSUME NEW j \in T PROVE a + d <= j /\ (j = a + d \/ m + d <= j)
  <2> DEFINE i == j - d
  <2>1. i \in S /\ j \in Int /\ i = j - d
    BY <1>3, <1>4
  <2> HIDE DEF i
  <2>2. i \in Int /\ a <= i /\ (i = a \/ m <= i)
    BY <1>1, <1>4, <2>1
  <2> QED
    BY <1>5, <2>1, <2>2
<1>8. b + d \in 1 .. Len(t) /\ ~ IsBlank(t[b + d])
  BY <1>1, <1>2
<1>9. ASSUME NEW j \in 1 .. Len(t), ~ IsBlank(t[j]) PROVE j <= b + d
  <2> DEFINE i == j - d
  <2>1. i \in 1 .. Len(s) /\ j \in Int /\ i = j - d /\ i + d = j
    BY <1>2, <1>9
  <2> HIDE DEF i
  <2>2. s[i] = t[j]
    BY <1>2, <2>1
  <2>3. i <= b /\ i \in Int
    BY <1>1, <1>2, <1>9, <2>1, <2>2
  <2> QED
    BY <1>5, <2>1, <2>3
<1> DEFINE x == a + d
           y == m + d
           z == b + d
<1>10. /\ x \in T /\ (\A j \in T : x <= j)
       /\ y \in T /\ y # x /\ (\A j \in T : j = x \/ y <= j)
       /\ z \in 1 .. Len(t) /\ ~ IsBlank(t[z]) /\ \A j \in 1 .. Len(t) : IsBlank(t[j]) \/ j <= z
  BY <1>6, <1>7, <1>8, <1>9
<1> HIDE DEF x, y, z
<1>11. Laid(t, x, y, z)
  BY <1>10 DEF Laid, T
<1> QED
  BY <1>11 DEF x, y, z

\* The two sides of the first '|'.
LEMMA SidesAre ==
  ASSUME NEW text \in Texts, NEW part \in Texts, NEW e, Trimmed(text, part, e),
         NEW bar \in 1 .. Len(text), text[bar] = "|", IsFirst(text, 1, {"|"}, bar)
  PROVE  /\ Before(part) \in Texts /\ After(part) \in Texts
         /\ \A i \in 1 .. bar - 1 : text[i] \in STRING /\ Before(part)[i + e] = text[i]
         /\ \A s \in Texts : \A d : PieceAt(s, text, 1, bar, d) => Trimmed(s, Before(part), d + e)
         /\ \A s \in Texts : \A d : PieceAt(s, text, bar + 1, Len(text) + 1, d) =>
                                  \E k : Trimmed(s, After(part), k)
<1> DEFINE n == Len(text)
           N == Len(part)
           p == bar + e
           l == SubSeq(part, 1, p - 1)
           r == SubSeq(part, p + 1, N)
<1>1. /\ e \in Nat /\ n \in Nat /\ N \in Nat
      /\ \A i \in 1 .. n : i + e \in 1 .. N /\ text[i] = part[i + e] /\ text[i] \in STRING
      /\ \A j \in 1 .. N : j - e \in 1 .. n \/ IsBlank(part[j])
  BY TrimmedFacts
<1>2. DOMAIN text = 1 .. n /\ bar \in 1 .. n
  BY LenProperties DEF Texts
<1>3. \A j \in 1 .. bar - 1 : text[j] # "|"
  BY DEF IsFirst
<1>4. p \in 1 .. N /\ part[p] = "|"
  BY <1>1, <1>2
<1>5. bar \in Int /\ p \in Int /\ p = bar + e /\ bar >= 1 /\ bar <= n /\ p <= N
  BY <1>1, <1>2, <1>4
<1> HIDE DEF n, N, p
<1>6. ASSUME NEW j \in 1 .. p - 1 PROVE part[j] # "|"
  <2>1. j \in 1 .. N /\ j \in Int
    BY <1>1, <1>5
  <2>2. CASE IsBlank(part[j])
    BY <2>2 DEF IsBlank, Blanks
  <2>3. CASE j - e \in 1 .. n
    <3>1. j - e \in 1 .. bar - 1 /\ (j - e) + e = j
      BY <1>1, <1>5, <2>1, <2>3
    <3>2. text[j - e] = part[(j - e) + e] /\ text[j - e] # "|"
      BY <1>1, <1>3, <2>3, <3>1
    <3> QED
      BY <3>1, <3>2
  <2> QED
    BY <1>1, <2>1, <2>2, <2>3
<1>7. IsFirst(part, 1, {"|"}, p)
  <2>1. p \in 1 .. N + 1
    BY <1>1, <1>4
  <2> QED
    BY <1>4, <1>6, <2>1 DEF IsFirst, N
<1>8. 1 \in 1 .. N + 1 /\ p \in 1 .. N + 1 /\ p + 1 \in 1 .. N + 1 /\ N + 1 \in p + 1 .. N + 1 /\ (N + 1) - 1 = N
  BY <1>1, <1>5, <1>4
<1>9. Before(part) = l
  BY <1>7, <1>8, RunIs DEF Before, N
<1>10. l \in Texts /\ Len(l) = p - 1 /\ \A j \in 1 .. p - 1 : l[j] = part[j + 1 - 1]
  BY <1>8, SubText DEF N
<1>11. After(part) = r
  <2>1. Len(l) + 2 = p + 1
    BY <1>5, <1>10
  <2> QED
    BY <1>9, <2>1 DEF After, N
<1>12. r \in Texts
  <2> DEFINE x == p + 1
             y == N + 1
  <2>1. x \in 1 .. Len(part) + 1 /\ y \in x .. Len(part) + 1 /\ y - 1 = N
    BY <1>8 DEF N
  <2> HIDE DEF x, y
  <2>2. SubSeq(part, x, y - 1) \in Texts
    BY <2>1, SubText
  <2> QED
    BY <2>1, <2>2 DEF x
<1> HIDE DEF l, r
<1>13. ASSUME NEW i \in 1 .. bar - 1 PROVE text[i] \in STRING /\ l[i + e] = text[i]
  <2>1. i \in 1 .. n /\ i + e \in 1 .. p - 1 /\ (i + e) + 1 - 1 = i + e
    BY <1>1, <1>5
  <2>2. l[i + e] = part[(i + e) + 1 - 1]
    BY <1>10, <2>1
  <2> QED
    BY <1>1, <2>1, <2>2
<1>14. PieceAt(text, part, 1, N + 1, e)
  BY DEF Trimmed, N
<1>15. ASSUME NEW s \in Texts, NEW d, PieceAt(s, text, 1, bar, d)
       PROVE  Trimmed(s, l, d + e)
  <2> DEFINE a == 1
             b == N + 1
  <2>1. a \in Int /\ a = 1 /\ b \in Int /\ b = N + 1 /\ PieceAt(s, text, a, bar, d) /\ PieceAt(text, part, a, b, e)
    BY <1>1, <1>14, <1>15
  <2> HIDE DEF a, b
  <2>2. d \in Nat /\ \A i \in DOMAIN s : i + d \in a .. bar - 1
    BY <2>1 DEF PieceAt
  <2>3. DOMAIN s \subseteq Int
    BY LenProperties DEF Texts
  <2>4. a <= a + e
    BY <1>1, <2>1
  <2>5. ASSUME NEW i \in DOMAIN s PROVE i + d \in DOMAIN text /\ i + d + e \in a .. p - 1
    <3> DEFINE k == i + d
    <3>1. k \in a .. bar - 1
      BY <2>2
    <3> HIDE DEF k
    <3>2. k \in 1 .. n /\ k + e \in a .. p - 1
      BY <1>1, <1>5, <2>1, <3>1
    <3> QED
      BY <1>2, <3>2 DEF k
  <2>6. ASSUME NEW j \in a .. p - 1
        PROVE  j \in a .. b - 1 /\ (j - e \in DOMAIN text => j - e \in a .. bar - 1)
    <3>1. j \in a .. b - 1 /\ j - e \in Int /\ j - e <= bar - 1
      BY <1>1, <1>5, <2>1
    <3>2. j - e \in DOMAIN text => j - e >= a
      BY <1>2, <2>1
    <3> QED
      BY <1>5, <2>1, <3>1, <3>2
  <2>7. PieceAt(s, part, a, p, d + e)
    BY <1>5, <2>1, <2>3, <2>4, <2>5, <2>6, PieceOfPiece
  <2>8. a \in 1 .. Len(part) + 1 /\ p \in a .. Len(part) + 1
    BY <1>8, <2>1 DEF N
  <2>9. Trimmed(s, SubSeq(part, a, p - 1), (d + e) - a + 1)
    BY <2>7, <2>8, TrimmedPiece
  <2>10. (d + e) - a + 1 = d + e
    BY <1>1, <2>1, <2>2
  <2> QED
    BY <2>1, <2>9, <2>10 DEF l
<1>16. ASSUME NEW s \in Texts, NEW d, PieceAt(s, text, bar + 1, n + 1, d)
       PROVE  \E k : Trimmed(s, r, k)
  <2> DEFINE a == bar + 1
             b == n + 1
             x == p + 1
             y == N + 1
             z == 1
  <2>1. /\ a \in Int /\ a = bar + 1 /\ b \in Int /\ b = n + 1 /\ x \in Int /\ x = p + 1
        /\ y \in Int /\ y = N + 1 /\ z \in Int /\ z = 1
        /\ PieceAt(s, text, a, b, d) /\ PieceAt(text, part, z, y, e)
    BY <1>1, <1>5, <1>14, <1>16
  <2> HIDE DEF a, b, x, y, z
  <2>2. d \in Nat /\ \A i \in DOMAIN s : i + d \in a .. b - 1
    BY <2>1 DEF PieceAt
  <2>3. DOMAIN s \subseteq Int
    BY LenProperties DEF Texts
  <2>4. x <= a + e /\ b - 1 = n /\ e \in Nat /\ n \in Nat
    BY <1>1, <1>5, <2>1
  <2>5. ASSUME NEW i \in DOMAIN s PROVE i + d \in DOMAIN text /\ i + d + e \in x .. y - 1
    <3> DEFINE k == i + d
    <3>1. k \in a .. b - 1
      BY <2>2
    <3> HIDE DEF k
    <3>2. k \in 1 .. n /\ k + e \in 1 .. N /\ k + e >= x
      <4>1. k \in 1 .. n /\ k + e >= x
        BY <1>5, <2>1, <2>4, <3>1
      <4> QED
        BY <1>1, <4>1
    <3>3. k + e \in x .. y - 1
      BY <1>1, <2>1, <3>2
    <3> QED
      BY <1>2, <3>2, <3>3 DEF k
  <2>6. ASSUME NEW j \in x .. y - 1
        PROVE  j \in z .. y - 1 /\ (j - e \in DOMAIN text => j - e \in a .. b - 1)
    <3>1. j \in z .. y - 1 /\ j - e \in Int /\ j - e >= a
      BY <1>1, <1>5, <2>1
    <3>2. j - e \in DOMAIN text => j - e <= b - 1
      BY <1>2, <2>4
    <3> QED
      BY <1>5, <2>1, <3>1, <3>2
  <2>7. PieceAt(s, part, x, y, d + e)
    BY <1>5, <2>1, <2>3, <2>4, <2>5, <2>6, PieceOfPiece
  <2>8. x \in 1 .. Len(part) + 1 /\ y \in x .. Len(part) + 1 /\ y - 1 = N
    BY <1>8, <2>1 DEF N
  <2>9. Trimmed(s, SubSeq(part, x, y - 1), (d + e) - x + 1)
    BY <2>7, <2>8, TrimmedPiece
  <2> QED
    BY <2>1, <2>8, <2>9 DEF r
<1> QED
  BY <1>9, <1>10, <1>11, <1>12, <1>13, <1>15, <1>16 DEF n

\* What is copied from behind "echo" begins with the second word, when the first
\* is at the beginning of the text.
LEMMA EchoedIs ==
  ASSUME NEW text \in Texts, NEW bar \in 1 .. Len(text), NEW left \in Texts,
         Len(left) = bar - 1, \A j \in 1 .. bar - 1 : left[j] = text[j],
         NEW m, NEW b, Laid(left, 1, m, b), Word(left, 1) = EchoName
  PROVE  /\ Segment(text, Len(EchoName) + 2, bar) = SubSeq(text, m, b)
         /\ m \in 1 .. bar - 1 /\ b \in 1 .. bar - 1
<1> DEFINE n == bar - 1
           f == WordEnd(left, 1)
           q == Len(EchoName) + 2
           W == WordStarts(left)
           S == {i \in q .. bar - 1 : ~ IsBlank(text[i])}
<1>1. /\ Len(left) = n /\ n \in Nat /\ bar \in Nat /\ n = bar - 1
      /\ \A j \in 1 .. n : left[j] = text[j]
  BY LenProperties DEF Texts
<1>2. /\ 1 \in W
      /\ m \in W /\ m # 1 /\ (\A j \in W : j = 1 \/ m <= j)
      /\ b \in 1 .. n /\ ~ IsBlank(left[b]) /\ \A j \in 1 .. n : IsBlank(left[j]) \/ j <= b
  BY <1>1 DEF Laid
<1>3. \A i : i \in W <=> i \in 1 .. n /\ ~ IsBlank(left[i]) /\ (i = 1 \/ IsBlank(left[i - 1]))
  BY <1>1, StartsAre
<1> HIDE DEF W, n
<1>4. m \in 1 .. n /\ ~ IsBlank(left[m]) /\ IsBlank(left[m - 1]) /\ m \in Int /\ b \in Int
  BY <1>1, <1>2, <1>3
<1>5. IsFirst(left, 1, Blanks, f)
  <2>1. 1 \in 1 .. Len(left) + 1
    BY <1>1
  <2> QED
    BY <2>1, FirstFromIs DEF WordEnd
<1>6. EchoName = SubSeq(left, 1, f - 1)
  <2>1. 1 \in 1 .. Len(left) + 1
    BY <1>1
  <2> QED
    BY <1>5, <2>1, RunIs DEF Word
<1> HIDE DEF f
<1>7. /\ f \in 1 .. n + 1 /\ (\A j \in 1 .. f - 1 : ~ IsBlank(left[j]))
      /\ (f # n + 1 => IsBlank(left[f]))
  BY <1>1, <1>5 DEF IsFirst, IsBlank
<1>8. Len(EchoName) = f - 1
  <2>1. 1 \in 1 .. Len(left) + 1 /\ f \in 1 .. Len(left) + 1
    BY <1>1, <1>7
  <2>2. Len(SubSeq(left, 1, f - 1)) = f - 1
    BY <2>1, SubText
  <2> QED
    BY <1>6, <2>2
<1>9. f \in Int /\ f >= 1 /\ q = f + 1 /\ q \in Int
  BY <1>1, <1>7, <1>8
<1> HIDE DEF q
<1>10. m >= q /\ IsBlank(left[f]) /\ f \in 1 .. n
  <2>1. ~ (m - 1 \in 1 .. f - 1)
    BY <1>4, <1>7
  <2>2. m - 1 >= f
    BY <1>2, <1>4, <1>9, <2>1
  <2> QED
    BY <1>1, <1>4, <1>7, <1>9, <2>2
<1>11. m <= b
  BY <1>2, <1>4
<1>12. \A i : i \in S <=> i \in q .. n /\ ~ IsBlank(left[i])
  <2>1. \A i \in q .. n : i \in 1 .. n
    BY <1>1, <1>9
  <2> QED
    BY <1>1, <2>1
<1>13. m \in S /\ b \in S
  <2>1. m \in q .. n /\ b \in q .. n
    BY <1>1, <1>2, <1>4, <1>9, <1>10, <1>11
  <2> QED
    BY <1>2, <1>4, <1>12, <2>1
<1>14. S \in SUBSET Nat /\ S \in SUBSET (0 .. n) /\ S # {}
  BY <1>1, <1>9, <1>12, <1>13
<1>15. Segment(text, q, bar) = SubSeq(text, Min(S), Max(S))
  BY <1>14 DEF Segment
<1> HIDE DEF S
<1>16. Min(S) = m
  <2> DEFINE x == Min(S)
  <2>1. x \in S /\ \A j \in S : x <= j
    BY <1>14, MinOf
  <2> HIDE DEF x
  <2>2. x \in q .. n /\ ~ IsBlank(left[x]) /\ x \in Int /\ x <= m
    BY <1>1, <1>9, <1>12, <1>13, <2>1
  <2>3. IsBlank(left[x - 1])
    <3>1. CASE x = q
      <4>1. x - 1 = f
        BY <1>9, <3>1
      <4> QED
        BY <1>10, <4>1
    <3>2. CASE x # q
      <4>1. x - 1 \in q .. n /\ ~ (x <= x - 1)
        BY <1>1, <1>9, <2>2, <3>2
      <4> QED
        BY <1>12, <2>1, <4>1
    <3> QED
      BY <3>1, <3>2
  <2>4. x \in W /\ x # 1
    <3>1. x \in 1 .. n /\ x # 1
      BY <1>1, <1>9, <2>2
    <3> QED
      BY <1>3, <2>2, <2>3, <3>1
  <2>5. m <= x
    BY <1>2, <2>4
  <2>6. x = m
    BY <1>4, <2>2, <2>5
  <2> QED
    BY <2>6 DEF x
<1>17. Max(S) = b
  <2> DEFINE x == Max(S)
  <2>1. x \in S /\ \A j \in S : x >= j
    BY <1>1, <1>14, MaxOf
  <2> HIDE DEF x
  <2>2. x \in q .. n /\ ~ IsBlank(left[x]) /\ x \in Int /\ x >= b
    BY <1>1, <1>9, <1>12, <1>13, <2>1
  <2>3. x \in 1 .. n
    BY <1>1, <1>9, <2>2
  <2>4. x <= b
    BY <1>2, <2>2, <2>3
  <2>5. x = b
    BY <1>4, <2>2, <2>4
  <2> QED
    BY <2>5 DEF x
<1> QED
  BY <1>2, <1>4, <1>15, <1>16, <1>17 DEF q, n

\* A pipeline prints what it should.
LEMMA PipeIsRight ==
  ASSUME Text \in Texts, Occurs(Text, <<"|">>), Unindented(Text),
         NEW part \in Texts, NEW e, Trimmed(Text, part, e)
  PROVE  PipeOutcome = Filtered(part)
<1> DEFINE text == Text
           bar == PositionOf(text, "|")
           n == Len(text)
           sl == Segment(text, 1, bar)
           sr == Segment(text, bar + 1, n + 1)
           l == Before(part)
           r == After(part)
           left == Parse(sl)
           right == Parse(sr)
           echoed == Segment(text, Len(EchoName) + 2, bar)
<1>1. PICK i \in DOMAIN text : text[i] = "|"
  BY OccursOne
<1> HIDE DEF text
<1>2. text \in Texts /\ Unindented(text) /\ Trimmed(text, part, e)
  BY DEF text
<1>3. bar \in 1 .. n /\ text[bar] = "|" /\ IsFirst(text, 1, {"|"}, bar) /\ n \in Nat
  BY <1>1, <1>2, PositionIs, LenProperties DEF Texts
<1> HIDE DEF bar
<1>4. /\ 1 \in 1 .. n + 1 /\ bar \in 1 .. n + 1 /\ bar + 1 \in 1 .. n + 1 /\ n + 1 \in 1 .. n + 1
      /\ bar \in 1 .. n + 1 /\ bar \in Nat
  BY <1>3
<1>5. PICK dl : sl \in Texts /\ PieceAt(sl, text, 1, bar, dl)
  BY <1>2, <1>4, SegmentCovers
<1>6. PICK dr : sr \in Texts /\ PieceAt(sr, text, bar + 1, n + 1, dr)
  BY <1>2, <1>4, SegmentCovers
<1>7. /\ l \in Texts /\ r \in Texts
      /\ \A k \in 1 .. bar - 1 : text[k] \in STRING /\ l[k + e] = text[k]
      /\ \A s \in Texts : \A d : PieceAt(s, text, 1, bar, d) => Trimmed(s, l, d + e)
      /\ \A s \in Texts : \A d : PieceAt(s, text, bar + 1, n + 1, d) => \E k : Trimmed(s, r, k)
  BY <1>2, <1>3, SidesAre
<1> HIDE DEF sl, sr, l, r, n
<1>8. FirstWords(l, left)
  <2>1. Trimmed(sl, l, dl + e)
    BY <1>5, <1>7
  <2>2. FirstWords(sl, left)
    BY <1>5, ParseIs
  <2> QED
    BY <1>5, <1>7, <2>1, <2>2, TrimmedWords
<1>9. FirstWords(r, right)
  <2>1. PICK k : Trimmed(sr, r, k)
    BY <1>6, <1>7
  <2>2. FirstWords(sr, right)
    BY <1>6, ParseIs
  <2> QED
    BY <1>6, <1>7, <2>1, <2>2, TrimmedWords
<1> HIDE DEF left, right, echoed
<1>10. /\ Len(left) < 2 <=> Cardinality(WordStarts(l)) < 2
       /\ ~ (Cardinality(WordStarts(l)) < 2) => left[1] = FirstWord(l)
  <2>1. Cardinality(WordStarts(l)) \in Nat
    BY <1>7, StartsAre, PartFinite
  <2> QED
    BY <1>7, <1>8, <2>1, ArgsAre
<1>11. /\ Len(right) = 2 <=> Cardinality(WordStarts(r)) = 2
       /\ Cardinality(WordStarts(r)) = 2 => right[1] = FirstWord(r) /\ right[2] = LastWord(r)
  <2>1. Cardinality(WordStarts(r)) = 2 => Cardinality(WordStarts(r)) >= 1
    OBVIOUS
  <2> QED
    BY <1>7, <1>9, <2>1, ArgsAre
<1>12. ASSUME ~ (Cardinality(WordStarts(l)) < 2), FirstWord(l) = EchoName
       PROVE  echoed = BehindFirstWord(l)
  <2> DEFINE h == SubSeq(text, 1, bar - 1)
             w == bar - 1
  <2>1. /\ h \in Texts /\ Len(h) = w /\ DOMAIN h = 1 .. w /\ w \in Nat
        /\ \A j \in 1 .. w : h[j] = text[j]
    <3>1. /\ h \in Texts /\ Len(h) = w /\ DOMAIN h = 1 .. w
          /\ \A j \in 1 .. w : h[j] = text[j + 1 - 1]
      BY <1>2, <1>4, SubText DEF n
    <3>2. w \in Nat /\ \A j \in 1 .. w : j + 1 - 1 = j
      BY <1>3, <1>4
    <3> QED
      BY <3>1, <3>2
  <2> HIDE DEF h, w
  <2>2. PieceAt(h, text, 1, bar, 0)
    <3>1. 0 \in Nat /\ 0 >= 1 - 1
      OBVIOUS
    <3>2. ASSUME NEW j \in DOMAIN h PROVE j + 0 \in 1 .. bar - 1 /\ h[j] = text[j + 0]
      <4>1. j \in 1 .. w /\ j \in Int
        BY <2>1
      <4>2. j + 0 = j
        BY <4>1
      <4> QED
        BY <2>1, <4>1, <4>2 DEF w
    <3>3. ASSUME NEW j \in 1 .. bar - 1 PROVE j - 0 \in DOMAIN h
      <4>1. j - 0 = j
        OBVIOUS
      <4> QED
        BY <2>1, <4>1 DEF w
    <3> QED
      BY <3>1, <3>2, <3>3 DEF PieceAt
  <2>3. Trimmed(h, l, 0 + e)
    BY <1>7, <2>1, <2>2
  <2>4. e \in Nat /\ 0 + e = e
    BY <1>2, TrimmedFacts
  <2>5. Trimmed(h, l, e)
    BY <2>3, <2>4
  <2>6. Cardinality(WordStarts(h)) = Cardinality(WordStarts(l))
    BY <1>7, <2>1, <2>5, TrimmedWords
  <2>7. PICK a, m, b : Laid(h, a, m, b)
    BY <1>12, <2>1, <2>6, TwoWordsLaid
  <2>8. Laid(l, a + e, m + e, b + e)
    BY <1>7, <2>1, <2>5, <2>7, TrimmedLaid
  <2>9. FirstWord(l) = Word(l, a + e) /\ BehindFirstWord(l) = SubSeq(l, m + e, b + e)
    BY <1>7, <2>8, LaidIs
  <2>10. a \in WordStarts(h) /\ \A j \in WordStarts(h) : a <= j
    BY <2>7 DEF Laid
  <2>11. Word(h, a) = EchoName
    BY <1>7, <1>12, <2>1, <2>5, <2>9, <2>10, TrimmedWord
  <2>12. a = 1
    <3>1. a \in 1 .. w
      BY <2>1, <2>10, StartsAre
    <3>2. 1 \in 1 .. w /\ text # <<>>
      <4>1. 1 \in 1 .. w
        BY <2>1, <3>1
      <4>2. DOMAIN text # {}
        BY <1>1
      <4> QED
        BY <4>1, <4>2
    <3>3. ~ IsBlank(h[1])
      BY <1>2, <2>1, <3>2 DEF Unindented
    <3>4. 1 \in WordStarts(h)
      BY <2>1, <3>2, <3>3, StartsAre
    <3>5. a <= 1
      BY <2>10, <3>4
    <3> QED
      BY <2>1, <3>1, <3>5
  <2>13. Laid(h, 1, m, b) /\ Word(h, 1) = EchoName
    BY <2>7, <2>11, <2>12
  <2>14. echoed = SubSeq(text, m, b) /\ m \in 1 .. bar - 1 /\ b \in 1 .. bar - 1
    BY <1>2, <1>3, <2>1, <2>13, EchoedIs DEF echoed, w, n
  <2>15. m \in Int /\ b \in Int /\ e \in Int
    BY <2>4, <2>14
  <2>16. ASSUME NEW k \in m .. b PROVE text[k] \in STRING /\ l[k + e] = text[k]
    <3>1. k \in 1 .. bar - 1
      BY <1>4, <2>14
    <3> QED
      BY <1>7, <3>1
  <2>17. SubSeq(text, m, b) = SubSeq(l, m + e, b + e)
    BY <2>15, <2>16, SameSubSeq
  <2> QED
    BY <2>9, <2>14, <2>17
<1>13. PipeOutcome =
         IF Len(left) < 2 \/ left[1] # EchoName THEN Outcome("unsupported", <<>>)
         ELSE IF Len(right) # 2 \/ right[1] # GrepName THEN Outcome("usage", <<>>)
         ELSE IF Occurs(echoed, right[2]) THEN Outcome("printed", echoed)
         ELSE Outcome("filtered", <<>>)
  BY DEF PipeOutcome, EchoedText, left, right, sl, sr, echoed, bar, text, n
<1>14. Filtered(part) =
         IF Cardinality(WordStarts(l)) < 2 \/ FirstWord(l) # EchoName
           THEN Outcome("unsupported", <<>>)
         ELSE IF Cardinality(WordStarts(r)) # 2 \/ FirstWord(r) # GrepName
           THEN Outcome("usage", <<>>)
         ELSE IF Occurs(BehindFirstWord(l), LastWord(r)) THEN Outcome("printed", BehindFirstWord(l))
         ELSE Outcome("filtered", <<>>)
  BY DEF Filtered, l, r
<1>15. CASE Cardinality(WordStarts(l)) < 2 \/ FirstWord(l) # EchoName
  <2>1. Len(left) < 2 \/ left[1] # EchoName
    BY <1>10, <1>15
  <2> QED
    BY <1>13, <1>14, <1>15, <2>1
<1>16. CASE ~ (Cardinality(WordStarts(l)) < 2 \/ FirstWord(l) # EchoName)
  <2>1. ~ (Len(left) < 2 \/ left[1] # EchoName) /\ echoed = BehindFirstWord(l)
    BY <1>10, <1>12, <1>16
  <2>2. CASE Cardinality(WordStarts(r)) # 2 \/ FirstWord(r) # GrepName
    <3>1. Len(right) # 2 \/ right[1] # GrepName
      BY <1>11, <2>2
    <3> QED
      BY <1>13, <1>14, <1>16, <2>1, <2>2, <3>1
  <2>3. CASE ~ (Cardinality(WordStarts(r)) # 2 \/ FirstWord(r) # GrepName)
    <3>1. ~ (Len(right) # 2 \/ right[1] # GrepName) /\ right[2] = LastWord(r)
      BY <1>11, <2>3
    <3> QED
      BY <1>13, <1>14, <1>16, <2>1, <2>3, <3>1
  <2> QED
    BY <2>2, <2>3
<1> QED
  BY <1>15, <1>16

-----------------------------------------------------------------------------
(***************************************************************************)
(* The inductive invariant: the texts still to execute stand for the parts *)
(* from a cut m on, and what was executed are the parts before it.         *)
(***************************************************************************)
PartsInv ==
  /\ command \in Texts /\ todo \in Seq(Texts)
  /\ \E m : StandFrom(todo, command, m) /\ RanBefore(command, ran, m)
  /\ Unindented(command) => \A k \in DOMAIN todo : Unindented(todo[k])

\* At first one text stands for the whole line.
LEMMA PartsInit == Init => PartsInv
<1> SUFFICES ASSUME Init PROVE PartsInv
  OBVIOUS
<1> DEFINE c == command
           N == Len(c)
           b == [k \in 1 .. 1 + 1 |-> IF k = 1 THEN 1 ELSE N + 2]
<1>1. c \in Texts /\ todo = <<c>> /\ ran = <<>>
  BY CommandLineAssumption DEF Init, Texts
<1> HIDE DEF c
<1>2. todo \in Seq(Texts) /\ Len(todo) = 1 /\ todo[1] = c /\ DOMAIN todo = 1 .. 1
  <2> DEFINE t == <<c>>
  <2>1. t \in Seq(Texts) /\ Len(t) = 1 /\ t[1] = c
    BY <1>1
  <2> HIDE DEF t
  <2>2. DOMAIN t = 1 .. 1
    BY <2>1, LenProperties
  <2> QED
    BY <1>1, <2>1, <2>2 DEF t
<1>3. N \in Nat /\ DOMAIN c = 1 .. N
  BY <1>1, LenProperties DEF Texts
<1>4. StandsFor(c, c, 1, N + 2)
  <2> DEFINE a == 1
             y == (N + 2) - 1
             d == 0
  <2>1. y \in Int /\ y = N + 1 /\ a = 1 /\ d = 0
    BY <1>3
  <2> HIDE DEF a, y, d
  <2>2. d \in Nat /\ d >= a - 1
    BY <2>1
  <2>3. ASSUME NEW i \in DOMAIN c PROVE i + d \in a .. y - 1 /\ c[i] = c[i + d]
    <3>1. i \in 1 .. N /\ i + d = i
      BY <1>3, <2>1
    <3>2. i \in a .. y - 1
      BY <1>3, <2>1, <3>1
    <3> QED
      BY <3>1, <3>2
  <2>4. ASSUME NEW j \in a .. y - 1 PROVE j - d \in DOMAIN c
    <3>1. j \in 1 .. N /\ j - d = j
      BY <1>3, <2>1
    <3> QED
      BY <1>3, <3>1
  <2>5. PieceAt(c, c, a, y, d)
    BY <2>2, <2>3, <2>4 DEF PieceAt
  <2>6. 1 \in PartStarts(c) /\ N + 2 \in Cuts(c) /\ 1 < N + 2
    BY <1>3 DEF PartStarts, Cuts
  <2> QED
    BY <1>1, <2>5, <2>6 DEF StandsFor, a, y
<1>5. /\ b \in [1 .. 1 + 1 -> Nat] /\ b[1] = 1 /\ b[1 + 1] = N + 2
      /\ \A k \in 1 .. 1 : StandsFor(todo[k], c, b[k], b[k + 1])
  <2>1. b \in [1 .. 1 + 1 -> Nat] /\ b[1] = 1 /\ b[1 + 1] = N + 2
    BY <1>3
  <2> HIDE DEF b
  <2>2. \A k \in 1 .. 1 : k = 1
    OBVIOUS
  <2> QED
    BY <1>2, <1>4, <2>1, <2>2
<1> HIDE DEF b
<1>6. StandFrom(todo, c, 1)
  <2> DEFINE n == Len(todo)
  <2>1. n = 1
    BY <1>2
  <2> HIDE DEF n
  <2>2. /\ b \in [1 .. n + 1 -> Nat] /\ b[1] = 1 /\ b[n + 1] = N + 2
        /\ \A k \in 1 .. n : StandsFor(todo[k], c, b[k], b[k + 1])
    BY <1>5, <2>1
  <2> QED
    BY <2>2 DEF StandFrom, n
<1>7. RanBefore(c, ran, 1)
  <2> DEFINE X == ExecutedOf(c)
  <2>1. \A i \in X : i \in 1 .. N + 1
    BY <1>1, ExecutedAre, CutsAre
  <2>2. \A i \in X : ~ (i < 1)
    BY <1>3, <2>1
  <2>3. Below(X, 1) = 0
    BY <1>1, <2>2, ExecutedAre, BelowFacts
  <2>4. ran \in Seq(Texts) /\ Len(ran) = 0
    BY <1>1, EmptySeq
  <2> QED
    BY <2>2, <2>3, <2>4 DEF RanBefore
<1>8. Unindented(c) => \A k \in DOMAIN todo : Unindented(todo[k])
  <2>1. \A k \in 1 .. 1 : k = 1
    OBVIOUS
  <2> QED
    BY <1>2, <2>1
<1> QED
  BY <1>1, <1>2, <1>6, <1>7, <1>8 DEF PartsInv, c

\* A split moves no outcome, and puts a cut behind the '&'.
LEMMA PartsSplit ==
  ASSUME PartsInv, Split
  PROVE  PartsInv'
<1> DEFINE c == command
           text == Text
           at == PositionOf(text, "&")
           l == Segment(text, 1, at)
           r == Segment(text, at + 1, Len(text) + 1)
           new == todo'
<1>1. /\ c \in Texts /\ todo \in Seq(Texts) /\ command' = c /\ ran' = ran
      /\ Unindented(c) => \A k \in DOMAIN todo : Unindented(todo[k])
  BY DEF PartsInv, Split
<1>2. PICK m : StandFrom(todo, c, m) /\ RanBefore(c, ran, m)
  BY DEF PartsInv
<1>3. /\ text \in Texts /\ text = todo[1] /\ at \in 1 .. Len(text) /\ text[at] = "&"
      /\ new \in Seq(Texts) /\ Len(new) = Len(todo) + 1 /\ new[1] = l /\ new[2] = r
      /\ \A k \in 3 .. Len(todo) + 1 : new[k] = todo[k - 1]
      /\ Len(todo) \in Nat \ {0}
  BY <1>1, SplitTexts
<1> HIDE DEF text, at, new, c
<1>4. \A f, g : StandsFor(todo[1], c, f, g) => \E h : StandsFor(l, c, f, h) /\ StandsFor(r, c, h, g)
  BY <1>1, <1>3, DividedStands
<1>5. Unindented(l) /\ Unindented(r)
  <2>1. Len(text) \in Nat
    BY <1>3, LenProperties DEF Texts
  <2>2. /\ 1 \in 1 .. Len(text) + 1 /\ at \in 1 .. Len(text) + 1 /\ at + 1 \in 1 .. Len(text) + 1
        /\ Len(text) + 1 \in 1 .. Len(text) + 1
    BY <1>3, <2>1
  <2> QED
    BY <1>3, <2>2, SegmentUnindented
<1> HIDE DEF l, r
<1>6. StandFrom(new, c, m)
  <2>1. \A f, g : StandsFor(todo[1], c, f, g) =>
                    \E h : StandsFor(new[1], c, f, h) /\ StandsFor(new[2], c, h, g)
    BY <1>3, <1>4
  <2> QED
    BY <1>1, <1>2, <1>3, <2>1, TwoStand
<1>7. ASSUME Unindented(c), NEW k \in DOMAIN new PROVE Unindented(new[k])
  <2>1. DOMAIN new = 1 .. Len(todo) + 1 /\ DOMAIN todo = 1 .. Len(todo)
    BY <1>1, <1>3, LenProperties
  <2>2. CASE k = 1 \/ k = 2
    BY <1>3, <1>5, <2>2
  <2>3. CASE ~ (k = 1 \/ k = 2)
    <3>1. k \in 3 .. Len(todo) + 1 /\ k - 1 \in 1 .. Len(todo)
      BY <1>3, <1>7, <2>1, <2>3
    <3> QED
      BY <1>1, <1>3, <1>7, <2>1, <3>1
  <2> QED
    BY <2>2, <2>3
<1> QED
  BY <1>1, <1>2, <1>3, <1>6, <1>7 DEF PartsInv, new

\* The text executed is a part of the line, but for blanks at its ends.
LEMMA FirstPart ==
  ASSUME PartsInv, todo # <<>>, ~ Occurs(Text, <<"&">>)
  PROVE  \E m, g, e :
           /\ m \in Int /\ g \in Int /\ m < g /\ \A j \in PartStarts(command) : m < j => g <= j
           /\ m \in PartStarts(command) /\ Text \in Texts
           /\ Part(command, m) \in Texts /\ Trimmed(Text, Part(command, m), e)
           /\ RanBefore(command, ran, m) /\ StandFrom(Tail(todo), command, g)
<1>1. command \in Texts /\ todo \in Seq(Texts)
  BY DEF PartsInv
<1>2. PICK m : StandFrom(todo, command, m) /\ RanBefore(command, ran, m)
  BY DEF PartsInv
<1>3. PICK g : StandsFor(Text, command, m, g) /\ StandFrom(Tail(todo), command, g)
  BY <1>1, <1>2, FirstStands DEF Text
<1>4. Text \in Texts /\ m \in PartStarts(command)
  BY <1>3 DEF StandsFor
<1>5. \A i \in DOMAIN Text : Text[i] # "&"
  BY <1>4, OccursOne
<1>6. /\ m \in Int /\ g \in Int /\ m < g /\ \A j \in PartStarts(command) : m < j => g <= j
      /\ Part(command, m) \in Texts /\ \E e : Trimmed(Text, Part(command, m), e)
  BY <1>1, <1>3, <1>5, WholePart
<1> QED
  BY <1>2, <1>3, <1>4, <1>6

\* The first text taken away, its part is among those before the cut.
LEMMA PartsTail ==
  ASSUME PartsInv, todo # <<>>, command' = command, todo' = Tail(todo),
         NEW g, StandFrom(Tail(todo), command, g), RanBefore(command, ran', g)
  PROVE  PartsInv'
<1>1. /\ command \in Texts /\ todo \in Seq(Texts)
      /\ Unindented(command) => \A k \in DOMAIN todo : Unindented(todo[k])
  BY DEF PartsInv
<1> DEFINE n == Len(todo)
           new == todo'
<1>2. /\ new \in Seq(Texts) /\ Len(new) = n - 1 /\ n \in Nat \ {0} /\ DOMAIN todo = 1 .. n
      /\ \A k \in 1 .. n - 1 : new[k] = todo[k + 1]
  BY <1>1, HeadTailProperties, EmptySeq, LenProperties
<1>3. DOMAIN new = 1 .. n - 1
  BY <1>2, LenProperties
<1> HIDE DEF n, new
<1>4. ASSUME Unindented(command), NEW k \in DOMAIN new PROVE Unindented(new[k])
  <2>1. k \in 1 .. n - 1 /\ k + 1 \in 1 .. n
    BY <1>2, <1>3
  <2> QED
    BY <1>1, <1>2, <1>4, <2>1
<1>5. \E m : StandFrom(new, command, m) /\ RanBefore(command, ran', m)
  BY DEF new
<1> QED
  BY <1>1, <1>2, <1>4, <1>5 DEF PartsInv, new

\* A pipeline is a part with a word.
LEMMA PartsPipe ==
  ASSUME PartsInv, Pipe
  PROVE  PartsInv'
<1>1. /\ todo # <<>> /\ ~ Occurs(Text, <<"&">>) /\ Occurs(Text, <<"|">>)
      /\ ran' = Append(ran, PipeOutcome) /\ todo' = Tail(todo) /\ command' = command
  BY DEF Pipe
<1>2. command \in Texts /\ (Unindented(command) => Unindented(Text))
  <2>1. Text = todo[1] /\ 1 \in DOMAIN todo
    BY <1>1, EmptySeq, LenProperties DEF PartsInv, Text
  <2> QED
    BY <2>1 DEF PartsInv
<1>3. PICK m, g, e :
           /\ m \in Int /\ g \in Int /\ m < g /\ \A j \in PartStarts(command) : m < j => g <= j
           /\ m \in PartStarts(command) /\ Text \in Texts
           /\ Part(command, m) \in Texts /\ Trimmed(Text, Part(command, m), e)
           /\ RanBefore(command, ran, m) /\ StandFrom(Tail(todo), command, g)
  BY <1>1, FirstPart
<1> DEFINE part == Part(command, m)
<1>4. /\ Text \in Texts /\ part \in Texts /\ Trimmed(Text, part, e)
  BY <1>3
<1>5. PICK i \in DOMAIN Text : Text[i] = "|"
  BY <1>1, <1>4, OccursOne
<1>6. ~ IsBlank("|")
  BY DEF IsBlank, Blanks
<1> HIDE DEF part
<1>7. IsPipeline(part)
  BY <1>4, <1>5, <1>6, TrimmedHas DEF IsPipeline
<1>8. m \in ExecutedOf(command)
  <2>1. WordStarts(Text) # {}
    BY <1>4, <1>5, <1>6, HasWord
  <2>2. WordStarts(part) # {}
    BY <1>4, <2>1, TrimmedWords
  <2> QED
    BY <1>3, <2>2 DEF ExecutedOf, part
<1>9. RightOutcome(command, part, PipeOutcome)
  <2>1. PipeOutcome.kind # "command"
    BY DEF PipeOutcome, Outcome
  <2>2. Unindented(command) => PipeOutcome = Filtered(part)
    BY <1>1, <1>2, <1>4, PipeIsRight
  <2> QED
    BY <1>7, <2>1, <2>2 DEF RightOutcome
<1>10. RanBefore(command, Append(ran, PipeOutcome), g)
  BY <1>2, <1>3, <1>8, <1>9, OneMoreRan DEF part
<1> QED
  BY <1>1, <1>3, <1>10, PartsTail

\* Any other text is passed over or is one command.
LEMMA PartsDispatch ==
  ASSUME PartsInv, Dispatch
  PROVE  PartsInv'
<1> DEFINE o == [kind |-> "command", args |-> Parse(Text), text |-> CommandArgs(Text)]
<1>1. /\ todo # <<>> /\ ~ Occurs(Text, <<"&">>) /\ ~ Occurs(Text, <<"|">>)
      /\ ran' = IF Parse(Text) = <<>> THEN ran ELSE Append(ran, o)
      /\ todo' = Tail(todo) /\ command' = command
  BY DEF Dispatch
<1>2. command \in Texts
  BY DEF PartsInv
<1>3. PICK m, g, e :
           /\ m \in Int /\ g \in Int /\ m < g /\ \A j \in PartStarts(command) : m < j => g <= j
           /\ m \in PartStarts(command) /\ Text \in Texts
           /\ Part(command, m) \in Texts /\ Trimmed(Text, Part(command, m), e)
           /\ RanBefore(command, ran, m) /\ StandFrom(Tail(todo), command, g)
  BY <1>1, FirstPart
<1> DEFINE part == Part(command, m)
<1>4. /\ Text \in Texts /\ part \in Texts /\ Trimmed(Text, part, e)
  BY <1>3
<1>5. ~ IsBlank("|")
  BY DEF IsBlank, Blanks
<1> HIDE DEF part
<1>6. ~ IsPipeline(part)
  BY <1>1, <1>4, <1>5, OccursOne, TrimmedHas DEF IsPipeline
<1>7. Parse(Text) = <<>> <=> WordStarts(part) = {}
  BY <1>4, ParseIs, TrimmedWords
<1>8. FirstWords(part, Parse(Text))
  BY <1>4, ParseIs, TrimmedWords
<1>9. RightOutcome(command, part, o)
  <2>1. o.kind = "command" /\ o.args = Parse(Text)
    OBVIOUS
  <2> HIDE DEF o
  <2> QED
    BY <1>6, <1>8, <2>1 DEF RightOutcome
<1> HIDE DEF o
<1>10. RanBefore(command, ran', g)
  <2>1. CASE Parse(Text) = <<>>
    <3>1. m \notin ExecutedOf(command)
      BY <1>7, <2>1 DEF ExecutedOf, part
    <3>2. RanBefore(command, ran, g)
      BY <1>2, <1>3, <3>1, PassedOver
    <3> QED
      BY <1>1, <2>1, <3>2
  <2>2. CASE Parse(Text) # <<>>
    <3>1. m \in ExecutedOf(command)
      BY <1>3, <1>7, <2>2 DEF ExecutedOf, part
    <3>2. RanBefore(command, Append(ran, o), g)
      BY <1>2, <1>3, <1>9, <3>1, OneMoreRan DEF part
    <3> QED
      BY <1>1, <2>2, <3>2
  <2> QED
    BY <2>1, <2>2
<1> QED
  BY <1>1, <1>3, <1>10, PartsTail

\* When nothing is left, every part has run.
LEMMA AllRan ==
  ASSUME PartsInv, todo = <<>>
  PROVE  /\ Len(ran) = Cardinality(Executed)
         /\ \A i \in Executed : RightOutcome(command, Part(command, i), OutcomeOf(i))
<1> DEFINE c == command
           N == Len(c)
           X == ExecutedOf(c)
<1>1. c \in Texts
  BY DEF PartsInv
<1>2. PICK m : StandFrom(todo, c, m) /\ RanBefore(c, ran, m)
  BY DEF PartsInv
<1> HIDE DEF c
<1>3. m = N + 2
  <2> DEFINE n == Len(todo)
  <2>1. n = 0
    BY EmptySeq
  <2>2. PICK b \in [1 .. n + 1 -> Nat] : b[1] = m /\ b[n + 1] = N + 2
    BY <1>2 DEF StandFrom
  <2> HIDE DEF n
  <2>3. n + 1 = 1
    BY <2>1
  <2> QED
    BY <2>2, <2>3
<1>4. /\ N \in Nat /\ \A i \in X : i \in 1 .. N + 1
  BY <1>1, ExecutedAre, CutsAre
<1>5. \A i \in X : i < N + 2
  BY <1>4
<1>6. Below(X, N + 2) = Cardinality(X)
  <2> DEFINE w == N + 2
  <2>1. w \in Int /\ \A i \in X : i < w
    BY <1>4, <1>5
  <2>2. Positions(X)
    BY <1>1, ExecutedAre
  <2> HIDE DEF w, X
  <2>3. Below(X, w) = Cardinality(X)
    BY <2>1, <2>2, BelowFacts
  <2> QED
    BY <2>3 DEF w
<1>7. Executed = X
  BY DEF Executed, ExecutedOf, c
<1> HIDE DEF X
<1>8. /\ Len(ran) = Below(X, m)
      /\ \A i \in X : i < m => RightOutcome(c, Part(c, i), ran[Place(X, i)])
  BY <1>2 DEF RanBefore, X
<1>9. Len(ran) = Cardinality(X) /\ \A i \in X : RightOutcome(c, Part(c, i), ran[Place(X, i)])
  BY <1>3, <1>5, <1>6, <1>8
<1> QED
  BY <1>7, <1>9 DEF c, OutcomeOf

\* No step leaves the invariant.
LEMMA PartsInductive == Spec => []PartsInv
<1>1. PartsInv /\ Next => PartsInv'
  BY PartsSplit, PartsPipe, PartsDispatch DEF Next
<1>2. PartsInv /\ UNCHANGED vars => PartsInv'
  BY DEF vars, PartsInv
<1>3. PartsInv /\ [Next]_vars => PartsInv'
  BY <1>1, <1>2
<1> QED
  BY PartsInit, <1>3, PTL DEF Spec

(***************************************************************************)
(* EveryPartRuns: every part of a line that holds a word is executed, once *)
(* and in order, and a command gets its words.                             *)
(***************************************************************************)
THEOREM EveryPartIsRun == Spec => []EveryPartRuns
<1>1. PartsInv => EveryPartRuns
  BY AllRan DEF EveryPartRuns, RightOutcome
<1> QED
  BY PartsInductive, <1>1, PTL

(***************************************************************************)
(* PipelinesFilter: on a line not indented, a pipeline prints the text     *)
(* given to echo if and only if grep finds its pattern there.              *)
(***************************************************************************)
THEOREM PipelinesAreFilters == Spec => []PipelinesFilter
<1>1. PartsInv => PipelinesFilter
  <2> SUFFICES ASSUME PartsInv, todo = <<>>, ~ IsBlank(Head(command)),
                      NEW i \in Executed, IsPipeline(Part(command, i))
               PROVE  OutcomeOf(i) = Filtered(Part(command, i))
    BY DEF PipelinesFilter
  <2>1. Unindented(command)
    BY DEF PartsInv, Unindented, Texts
  <2>2. RightOutcome(command, Part(command, i), OutcomeOf(i))
    BY AllRan
  <2> QED
    BY <2>1, <2>2 DEF RightOutcome
<1> QED
  BY PartsInductive, <1>1, PTL
=============================================================================
