------------------------- MODULE InterruptStubsProofs -------------------------
(***************************************************************************)
(* The interrupt entry code for every set of vectors, layout of the stubs  *)
(* in memory and depth of nesting.                                         *)
(***************************************************************************)
EXTENDS InterruptStubs, SequenceTheorems, TLAPS

-----------------------------------------------------------------------------
(***************************************************************************)
(* What may lie on the stack, and the ranges of the variables.             *)
(***************************************************************************)
Places ==
  [at : {"main", "stub", "save", "load", "dispatch", "handler", "restore", "drop", "iretq"},
   step : 0 .. 15, vector : 0 .. 15]

Words ==
  [number : 0 .. 15] \cup [error : 0 .. 15] \cup [pad : {0}] \cup [segment : {"ss", "cs"}]
    \cup [flags : {"off"}] \cup [pointer : Nat] \cup [return : Places]
    \cup [kept : Registers] \cup [spoilt : Registers]

Entry ==
  [vector : 0 .. 15, rip : Places, regs : [Registers -> Words], pointer : Nat, served : BOOLEAN]

Ranges ==
  /\ rip \in Places /\ regs \in [Registers -> Words] /\ stack \in Seq(Words)
  /\ idt = [v \in 0 .. 15 |-> Gate(v)] /\ masked \in BOOLEAN
  /\ entries \in Seq(Entry) /\ Len(entries) <= MaxNesting

\* Where the frame that the processor pushed for an interrupt ends.
FrameTop(e) == e.pointer + (e.pointer % 2) + 5

Framed(s, e) ==
  s[FrameTop(e)] = [return |-> e.rip] /\ s[FrameTop(e) - 3] = [pointer |-> e.pointer]

\* The words of struct irq_context up to the m-th register pushed.
Saved(s, e, m) ==
  /\ s[FrameTop(e) + 1] = ErrorCode(e.vector) /\ s[FrameTop(e) + 2] = Number(e.vector)
  /\ \A i \in 1 .. m : s[FrameTop(e) + 2 + i] = e.regs[PushOrder[i]]

(***************************************************************************)
(* The interrupt e is being served at the place r with the registers g and *)
(* the first t words of the stack s.                                       *)
(***************************************************************************)
Serving(s, e, r, g, t) ==
  /\ Framed(s, e) /\ r.at # "main"
  /\ r.at = "stub" =>
       /\ r.vector = e.vector /\ g = e.regs
       /\ IF e.vector \in WithErrorCode THEN r.step = 1 /\ t = FrameTop(e) + 1
          ELSE r.step \in {1, 2} /\ t = FrameTop(e) + r.step - 1
       /\ t > FrameTop(e) => s[FrameTop(e) + 1] = ErrorCode(e.vector)
  /\ r.at = "save" =>
       r.step # 0 /\ g = e.regs /\ t = FrameTop(e) + 1 + r.step /\ Saved(s, e, r.step - 1)
  /\ r.at \in {"load", "dispatch"} =>
       /\ t = FrameTop(e) + 17 /\ Saved(s, e, 15)
       /\ IF r.at = "load" THEN g = e.regs ELSE g["rax"] = Number(e.vector)
  /\ r.at = "handler" =>
       /\ t = FrameTop(e) + 18 /\ Saved(s, e, 15) /\ r.vector = e.vector
       /\ s[t] = [return |-> At("restore", 1, 0)] /\ g["rdi"] = [pointer |-> t - 1]
  /\ r.at = "restore" =>
       /\ r.step # 0 /\ t = FrameTop(e) + 18 - r.step /\ Saved(s, e, 16 - r.step) /\ e.served
       /\ \A i \in 1 .. r.step - 1 : g[PopOrder[i]] = e.regs[PopOrder[i]]
  /\ r.at = "drop" => t = FrameTop(e) + 2 /\ g = e.regs /\ e.served
  /\ r.at = "iretq" => t = FrameTop(e) /\ g = e.regs /\ e.served

(***************************************************************************)
(* The same of the k-th interrupt, and of the halted kernel for k = 0.     *)
(***************************************************************************)
Sound(k, r, g, t) ==
  IF k = 0 THEN r.at = "main" /\ t \in {1, 2}
  ELSE Serving(stack, entries[k], r, g, t) /\ t <= 1 + 24 * k

StackInv ==
  /\ \A j, k \in 1 .. Len(entries) : j <= k => entries[j].pointer <= entries[k].pointer
  /\ Sound(Len(entries), rip, regs, Len(stack))
  /\ \A k \in 0 .. Len(entries) - 1 :
       LET e == entries[k + 1] IN Sound(k, e.rip, e.regs, e.pointer)

-----------------------------------------------------------------------------
(***************************************************************************)
(* Facts about the tables of registers and about the gates.                *)
(***************************************************************************)

\* What is popped is what was pushed, the last first.
LEMMA Orders ==
  /\ \A i \in 1 .. 15 : /\ PushOrder[i] \in Registers /\ PopOrder[i] = PushOrder[16 - i]
                        /\ PopOrder[i] \in Registers /\ Members[i] = PopOrder[i]
  /\ \A r \in Registers : \E i \in 1 .. 15 : PopOrder[i] = r
  /\ Members[16] = "irq_number" /\ Members[17] = "error_code"
  /\ "irq_number" \notin Registers /\ "error_code" \notin Registers
  /\ "rax" \in Registers /\ "rdi" \in Registers
<1>1. \A i \in 1 .. 15 : PushOrder[i] \in Registers
  BY DEF Registers
<1>2. \A i \in 1 .. 15 : i = 1 \/ i = 2 \/ i = 3 \/ i = 4 \/ i = 5 \/ i = 6 \/ i = 7 \/ i = 8
                         \/ i = 9 \/ i = 10 \/ i = 11 \/ i = 12 \/ i = 13 \/ i = 14 \/ i = 15
  OBVIOUS
<1>3. \A i \in 1 .. 15 : PopOrder[i] = PushOrder[16 - i] /\ Members[i] = PopOrder[i]
  BY <1>2 DEF PushOrder, PopOrder, Members
<1>4. \A i \in 1 .. 15 : 16 - i \in 1 .. 15 /\ 16 - (16 - i) = i
  OBVIOUS
<1>5. \A r \in Registers : \E i \in 1 .. 15 : PopOrder[i] = r
  <2> SUFFICES ASSUME NEW r \in Registers PROVE \E i \in 1 .. 15 : PopOrder[i] = r
    OBVIOUS
  <2>1. PICK i \in 1 .. 15 : PushOrder[i] = r
    BY DEF Registers
  <2>2. PopOrder[16 - i] = PushOrder[16 - (16 - i)]
    BY <1>3, <1>4
  <2> QED
    BY <1>4, <2>1, <2>2
<1>6. PushOrder[1] = "rax" /\ PushOrder[6] = "rdi"
  BY DEF PushOrder
<1>7. Members[16] = "irq_number" /\ Members[17] = "error_code"
  BY DEF Members
<1>8. \A i \in 1 .. 15 : PushOrder[i] # "irq_number" /\ PushOrder[i] # "error_code"
  BY <1>2 DEF PushOrder
<1> QED
  BY <1>1, <1>3, <1>4, <1>5, <1>6, <1>7, <1>8 DEF Registers

-----------------------------------------------------------------------------
(***************************************************************************)
(* A gate keeps the whole address: division by Half, twice, and back.      *)
(***************************************************************************)

\* Division with its remainder gives the dividend.
LEMMA DivMod ==
  ASSUME NEW a \in Nat, NEW h \in Nat \ {0}
  PROVE  /\ a = (a \div h) * h + (a % h)
         /\ a \div h \in Nat /\ a % h \in 0 .. h - 1
<1>1. a = (a \div h) * h + (a % h)
  BY SMTT(60)
<1>2. a \div h \in Nat /\ a % h \in 0 .. h - 1
  OBVIOUS
<1> QED
  BY <1>1, <1>2

\* Dividing by h twice is dividing by h * h.
LEMMA DivDiv ==
  ASSUME NEW a \in Nat, NEW h \in Nat \ {0}
  PROVE  a \div (h * h) = (a \div h) \div h
<1> DEFINE q == a \div h
           s == q \div h
           x == a % h
           y == q % h
           r == y * h + x
           k == h * h
<1>1. a = q * h + x /\ q \in Nat /\ x \in 0 .. h - 1
  BY DivMod
<1> HIDE DEF q, x
<1>2. q = s * h + y /\ s \in Nat /\ y \in 0 .. h - 1
  BY <1>1, DivMod
<1> HIDE DEF s, y
<1>3. r \in Nat
  BY <1>1, <1>2
<1>4. r <= h * h - 1
  <2>1. y * h <= (h - 1) * h
    BY <1>2
  <2>2. (h - 1) * h = h * h - h
    OBVIOUS
  <2> QED
    BY <1>1, <1>2, <2>1, <2>2
<1>5. a = s * (h * h) + r
  <2>1. (s * h + y) * h = s * (h * h) + y * h
    BY <1>1, <1>2
  <2> QED
    BY <1>1, <1>2, <2>1
<1>6. k \in Nat \ {0}
  <2>1. h * h >= h
    OBVIOUS
  <2> QED
    BY <2>1
<1> HIDE DEF r
<1>7. a = s * k + r /\ r \in 0 .. k - 1
  BY <1>3, <1>4, <1>5, <1>6
<1> HIDE DEF k
<1>8. a \div k = s
  BY <1>2, <1>6, <1>7
<1> QED
  BY <1>8 DEF k, s, q

\* What is less than h * h has a quotient that h does not cut.
LEMMA DivLess ==
  ASSUME NEW a \in Nat, NEW h \in Nat \ {0}, a < h * h
  PROVE  (a \div h) % h = a \div h
<1> DEFINE q == a \div h
<1>1. a = q * h + (a % h) /\ q \in Nat /\ a % h \in 0 .. h - 1
  BY DivMod
<1> HIDE DEF q
<1>2. q < h
  <2> SUFFICES ASSUME q >= h PROVE FALSE
    BY <1>1
  <2>1. PICK d \in Nat : q = h + d
    <3>1. q - h \in Nat /\ q = h + (q - h)
      BY <1>1
    <3> QED
      BY <3>1
  <2>2. (h + d) * h = h * h + d * h /\ d * h >= 0
    OBVIOUS
  <2>3. q * h >= h * h
    BY <2>1, <2>2
  <2> QED
    BY <1>1, <2>3
<1>3. q % h = q
  <2> DEFINE d == q \div h
  <2>1. q = d * h + (q % h) /\ d \in Nat /\ q % h \in 0 .. h - 1
    BY <1>1, DivMod
  <2> HIDE DEF d
  <2>2. d = 0
    <3> SUFFICES ASSUME d >= 1 PROVE FALSE
      BY <2>1
    <3>1. d * h >= h
      BY <2>1
    <3> QED
      BY <1>1, <1>2, <2>1, <3>1
  <2> QED
    BY <1>1, <2>1, <2>2
<1> QED
  BY <1>3 DEF q

\* The three parts of a gate give the address they were cut from.
LEMMA GateParts == \A v \in 0 .. 15 : Target(Gate(v)) = StubAt[v]
<1> SUFFICES ASSUME NEW v \in 0 .. 15 PROVE Target(Gate(v)) = StubAt[v]
  OBVIOUS
<1> DEFINE a == StubAt[v]
           k == Half * Half
           low == a % Half
           q == a \div Half
           mid == q % Half
           z == a \div k
<1>1. Half \in Nat \ {0} /\ a \in 0 .. Half * Half * Half * Half - 1
  BY InterruptAssumption
<1>2. k \in Nat \ {0}
  <2>1. Half * Half >= Half
    BY <1>1
  <2> QED
    BY <1>1, <2>1
<1>3. a \in Nat /\ a < k * k
  <2>1. Half * Half * Half * Half = k * k
    BY <1>1
  <2> QED
    BY <1>1, <1>2, <2>1
<1> HIDE DEF a
<1>4. z = q \div Half
  BY <1>1, <1>3, DivDiv
<1>5. z % k = z
  <2> HIDE DEF k
  <2> QED
    BY <1>2, <1>3, DivLess
<1>6. a = q * Half + low /\ q \in Nat /\ low \in Nat
  BY <1>1, <1>3, DivMod
<1>7. q = z * Half + mid /\ z \in Nat /\ mid \in Nat
  <2> HIDE DEF q, z, low, k
  <2>1. q \in Nat
    BY <1>6
  <2>2. q = (q \div Half) * Half + mid /\ q \div Half \in Nat /\ q % Half \in 0 .. Half - 1
    BY <1>1, <2>1, DivMod
  <2> HIDE DEF mid
  <2> QED
    BY <1>1, <1>4, <2>2 DEF mid
<1>8. Target(idt_set_gate(a, 8, 142)) = low + Half * mid + k * z
  <2> DEFINE g == idt_set_gate(a, 8, 142)
  <2>1. g.low = low /\ g.mid = mid /\ g.high = z % k
    BY DEF idt_set_gate
  <2> HIDE DEF g, z, low, mid, k
  <2>2. Target(g) = low + Half * mid + Half * Half * (z % k)
    BY <2>1 DEF Target
  <2> QED
    BY <1>5, <2>2 DEF g, k
<1>9. low + Half * mid + k * z = a
  <2> HIDE DEF q, z, low, mid
  <2>1. (z * Half + mid) * Half = k * z + Half * mid
    BY <1>1, <1>7
  <2>2. k * z \in Nat /\ Half * mid \in Nat
    BY <1>1, <1>2, <1>7
  <2> QED
    BY <1>6, <1>7, <2>1, <2>2
<1> QED
  BY <1>8, <1>9 DEF a, Gate

-----------------------------------------------------------------------------
(***************************************************************************)
(* How the stack and the place of an interrupt bound each other.           *)
(***************************************************************************)

\* The frame lies above the interrupted stack, padded to an odd top.
LEMMA FrameAbove ==
  ASSUME NEW e \in Entry
  PROVE  /\ FrameTop(e) \in Nat /\ e.pointer \in Nat
         /\ e.pointer + 5 <= FrameTop(e) /\ FrameTop(e) <= e.pointer + 6
         /\ FrameTop(e) % 2 = 1
<1> DEFINE p == e.pointer
<1>1. p \in Nat
  BY DEF Entry
<1> HIDE DEF p
<1>2. p % 2 = 0 \/ p % 2 = 1
  BY <1>1
<1>3. (p + (p % 2) + 5) % 2 = 1
  BY <1>1, <1>2
<1> QED
  BY <1>1, <1>2, <1>3 DEF FrameTop, p

\* The service of an interrupt uses at most 18 words on top of the frame.
LEMMA ServiceBound ==
  ASSUME NEW s, NEW e \in Entry, NEW r \in Places, NEW g, NEW t \in Nat, Serving(s, e, r, g, t)
  PROVE  FrameTop(e) <= t /\ t <= FrameTop(e) + 18
<1> DEFINE f == FrameTop(e)
<1>1. f \in Nat
  BY FrameAbove
<1>2. r.step \in 0 .. 15
        /\ r.at \in {"main", "stub", "save", "load", "dispatch", "handler", "restore", "drop",
                    "iretq"}
  BY DEF Places
<1> HIDE DEF f
<1> QED
  BY <1>1, <1>2 DEF Serving, f

\* Frame and saved words stay where the first t words of the stack do.
LEMMA Below ==
  ASSUME NEW s, NEW s2, NEW e \in Entry, NEW t \in Nat, FrameTop(e) <= t,
         \A i \in 1 .. t : s2[i] = s[i]
  PROVE  /\ Framed(s, e) => Framed(s2, e)
         /\ \A m \in 0 .. 15 : FrameTop(e) + 2 + m <= t /\ Saved(s, e, m) => Saved(s2, e, m)
<1> DEFINE f == FrameTop(e)
<1>1. f \in Nat /\ f >= 5 /\ f <= t
  BY FrameAbove DEF Entry
<1> HIDE DEF f
<1>2. Framed(s, e) => Framed(s2, e)
  <2>1. f \in 1 .. t /\ f - 3 \in 1 .. t
    BY <1>1
  <2> QED
    BY <2>1 DEF Framed, f
<1>3. ASSUME NEW m \in 0 .. 15, f + 2 + m <= t, Saved(s, e, m)
      PROVE  Saved(s2, e, m)
  <2>1. f + 1 \in 1 .. t /\ f + 2 \in 1 .. t
    BY <1>1, <1>3
  <2>2. \A i \in 1 .. m : f + 2 + i \in 1 .. t
    BY <1>1, <1>3
  <2> QED
    BY <1>3, <2>1, <2>2 DEF Saved, f
<1> QED
  BY <1>2, <1>3 DEF f

\* What is on top of the words in use does not matter to an interrupt.
LEMMA ServingStable ==
  ASSUME NEW s, NEW s2, NEW e \in Entry, NEW r \in Places, NEW g, NEW t \in Nat,
         Serving(s, e, r, g, t), \A i \in 1 .. t : s2[i] = s[i]
  PROVE  Serving(s2, e, r, g, t)
<1> DEFINE f == FrameTop(e)
<1>1. f \in Nat /\ f >= 5 /\ f <= t
  BY FrameAbove, ServiceBound DEF Entry
<1>2. r.step \in 0 .. 15
  BY DEF Places
<1>3. Framed(s2, e)
  BY <1>1, Below DEF Serving
<1>4. ASSUME NEW m \in 0 .. 15, f + 2 + m <= t, Saved(s, e, m)
      PROVE  Saved(s2, e, m)
  BY <1>1, <1>4, Below
<1> HIDE DEF f
<1>5. r.at = "stub" => (t > f => s2[f + 1] = s[f + 1])
  <2>1. t > f => f + 1 \in 1 .. t
    BY <1>1
  <2> QED
    BY <2>1
<1>6. CASE r.at = "stub"
  BY <1>3, <1>5, <1>6 DEF Serving, f
<1>7. CASE r.at = "save"
  <2>1. r.step # 0 /\ g = e.regs /\ t = f + 1 + r.step /\ Saved(s, e, r.step - 1)
    BY <1>7 DEF Serving, f
  <2>2. r.step - 1 \in 0 .. 15 /\ f + 2 + (r.step - 1) <= t
    BY <1>1, <1>2, <2>1
  <2>3. Saved(s2, e, r.step - 1)
    BY <1>4, <2>1, <2>2
  <2> QED
    BY <1>3, <1>7, <2>1, <2>3 DEF Serving, f
<1>8. CASE r.at \in {"load", "dispatch"}
  <2>1. t = f + 17 /\ Saved(s, e, 15)
    BY <1>8 DEF Serving, f
  <2>2. Saved(s2, e, 15)
    BY <1>1, <1>4, <2>1
  <2> QED
    BY <1>3, <1>8, <2>2 DEF Serving
<1>9. CASE r.at = "handler"
  <2>1. t = f + 18 /\ Saved(s, e, 15)
    BY <1>9 DEF Serving, f
  <2>2. Saved(s2, e, 15) /\ t \in 1 .. t
    BY <1>1, <1>4, <2>1
  <2> QED
    BY <1>3, <1>9, <2>2 DEF Serving
<1>10. CASE r.at = "restore"
  <2>1. r.step # 0 /\ t = f + 18 - r.step /\ Saved(s, e, 16 - r.step)
    BY <1>10 DEF Serving, f
  <2>2. 16 - r.step \in 0 .. 15 /\ f + 2 + (16 - r.step) <= t
    BY <1>1, <1>2, <2>1
  <2>3. Saved(s2, e, 16 - r.step)
    BY <1>4, <2>1, <2>2
  <2> QED
    BY <1>3, <1>10, <2>3 DEF Serving
<1>11. CASE r.at \in {"drop", "iretq"}
  BY <1>3, <1>11 DEF Serving
<1> QED
  BY <1>6, <1>7, <1>8, <1>9, <1>10, <1>11 DEF Places, Serving

\* Each interrupt adds at most 24 words to what the halted kernel has.
LEMMA Room ==
  ASSUME Ranges, StackInv
  PROVE  \A k \in 1 .. Len(entries) :
           /\ entries[k] \in Entry /\ FrameTop(entries[k]) + 18 <= 1 + 24 * k
           /\ k < Len(entries) => FrameTop(entries[k]) <= entries[k + 1].pointer
<1> SUFFICES ASSUME NEW k \in 1 .. Len(entries)
             PROVE  /\ entries[k] \in Entry /\ FrameTop(entries[k]) + 18 <= 1 + 24 * k
                    /\ k < Len(entries) => FrameTop(entries[k]) <= entries[k + 1].pointer
  OBVIOUS
<1>1. Len(entries) \in Nat /\ \A j \in 1 .. Len(entries) : entries[j] \in Entry
  BY DEF Ranges
<1> DEFINE e == entries[k]
           p == e.pointer
<1>2. e \in Entry /\ p \in Nat /\ p <= 2 + 24 * (k - 1) /\ (k > 1 => p <= 1 + 24 * (k - 1))
  <2>1. k - 1 \in 0 .. Len(entries) - 1 /\ (k - 1) + 1 = k
    BY <1>1
  <2>2. Sound(k - 1, e.rip, e.regs, p)
    BY <2>1 DEF StackInv
  <2> QED
    BY <1>1, <2>1, <2>2 DEF Sound, Entry
<1>3. FrameTop(e) + 18 <= 1 + 24 * k
  <2>1. FrameTop(e) \in Nat /\ FrameTop(e) <= p + 6 /\ FrameTop(e) = p + (p % 2) + 5
    BY <1>2, FrameAbove DEF FrameTop
  <2> HIDE DEF p, e
  <2>2. CASE k = 1
    BY <1>2, <2>1, <2>2
  <2>3. CASE k > 1
    <3>1. p = 1 + 24 * (k - 1) => p % 2 = 1
      BY <1>1, <1>2
    <3> QED
      BY <1>1, <1>2, <2>1, <2>3, <3>1
  <2> QED
    BY <1>1, <2>2, <2>3
<1>4. ASSUME k < Len(entries) PROVE FrameTop(e) <= entries[k + 1].pointer
  <2> DEFINE d == entries[k + 1]
  <2>1. d \in Entry /\ d.rip \in Places /\ d.pointer \in Nat
    BY <1>1, <1>4 DEF Entry
  <2>2. Sound(k, d.rip, d.regs, d.pointer)
    BY <1>1, <1>4 DEF StackInv
  <2>3. Serving(stack, e, d.rip, d.regs, d.pointer)
    BY <2>2 DEF Sound
  <2> HIDE DEF d, e
  <2> QED
    BY <1>2, <2>1, <2>3, ServiceBound DEF d
<1> QED
  BY <1>2, <1>3, <1>4

-----------------------------------------------------------------------------
(***************************************************************************)
(* The instructions of the entry code: each touches the innermost          *)
(* interrupt only, above its frame.                                        *)
(***************************************************************************)
Inv == Ranges /\ StackInv

\* An instruction outside the halted kernel serves the innermost interrupt.
LEMMA Innermost ==
  ASSUME Inv, rip.at # "main"
  PROVE  /\ Len(entries) \in 1 .. MaxNesting /\ Current \in Entry /\ Current = entries[Len(entries)]
         /\ Serving(stack, Current, rip, regs, Len(stack))
         /\ Len(stack) \in Nat /\ FrameTop(Current) \in Nat /\ FrameTop(Current) >= 5
         /\ FrameTop(Current) <= Len(stack) /\ FrameTop(Current) % 2 = 1
<1>1. Sound(Len(entries), rip, regs, Len(stack)) /\ Len(entries) \in Nat /\ Len(stack) \in Nat
  BY DEF Inv, StackInv, Ranges
<1>2. Len(entries) # 0 /\ Serving(stack, entries[Len(entries)], rip, regs, Len(stack))
  BY <1>1 DEF Sound
<1>3. Len(entries) \in 1 .. MaxNesting
  BY <1>1, <1>2, InterruptAssumption DEF Inv, Ranges
<1>4. Current \in Entry /\ Current = entries[Len(entries)]
  BY <1>1, <1>3 DEF Inv, Ranges, Current
<1>5. FrameTop(Current) \in Nat /\ FrameTop(Current) >= 5 /\ FrameTop(Current) % 2 = 1
  BY <1>4, FrameAbove
<1>6. FrameTop(Current) <= Len(stack)
  BY <1>1, <1>2, <1>4, ServiceBound DEF Inv, Ranges
<1> QED
  BY <1>1, <1>2, <1>3, <1>4, <1>5, <1>6

\* The next place of the innermost interrupt leaves the outer ones in order.
LEMMA InnerStep ==
  ASSUME Inv, rip.at # "main", Ranges',
         Len(entries') = Len(entries),
         \A j \in 1 .. Len(entries) :
           /\ entries'[j].vector = entries[j].vector /\ entries'[j].rip = entries[j].rip
           /\ entries'[j].regs = entries[j].regs /\ entries'[j].pointer = entries[j].pointer
           /\ j < Len(entries) => entries'[j] = entries[j],
         \A i \in 1 .. FrameTop(Current) : stack'[i] = stack[i],
         Serving(stack', entries'[Len(entries)], rip', regs', Len(stack'))
  PROVE  StackInv'
<1> DEFINE n == Len(entries)
           f == FrameTop(Current)
<1>1. n \in Nat /\ n >= 1 /\ Current = entries[n] /\ Current \in Entry
  BY Innermost
<1>2. \A k \in 1 .. n : entries[k] \in Entry /\ FrameTop(entries[k]) + 18 <= 1 + 24 * k
                        /\ (k < n => FrameTop(entries[k]) <= entries[k + 1].pointer)
  BY Room DEF Inv
<1>3. \A j, k \in 1 .. n : j <= k => entries[j].pointer <= entries[k].pointer
  BY DEF Inv, StackInv
<1>4. \A k \in 0 .. n - 1 : LET e == entries[k + 1] IN Sound(k, e.rip, e.regs, e.pointer)
  BY DEF Inv, StackInv
<1>5. entries'[n] \in Entry /\ FrameTop(entries'[n]) = f
  BY <1>1 DEF Ranges, FrameTop
<1>6. Sound(Len(entries), rip, regs, Len(stack))'
  <2>1. Len(stack') \in Nat /\ rip' \in Places
    BY DEF Ranges
  <2>2. Len(stack') <= f + 18
    BY <1>5, <2>1, ServiceBound
  <2>3. f + 18 <= 1 + 24 * n /\ f \in Nat
    BY <1>1, <1>2, <1>5, FrameAbove
  <2>4. Len(stack') <= 1 + 24 * n
    BY <1>1, <2>1, <2>2, <2>3
  <2> QED
    BY <1>1, <2>4 DEF Sound
<1>7. ASSUME NEW k \in 0 .. n - 1
      PROVE  Sound(k, entries[k + 1].rip, entries[k + 1].regs, entries[k + 1].pointer)'
  <2> DEFINE e == entries[k + 1]
  <2>1. k + 1 \in 1 .. n /\ e \in Entry /\ e.pointer \in Nat /\ e.rip \in Places
    BY <1>1, <1>2 DEF Entry
  <2>2. Sound(k, e.rip, e.regs, e.pointer)
    BY <1>4
  <2>3. \A i \in 1 .. e.pointer : stack'[i] = stack[i]
    <3>1. e.pointer <= entries[n].pointer
      BY <1>1, <1>3, <2>1
    <3>2. entries[n].pointer \in Nat /\ f \in Nat /\ entries[n].pointer <= f
      BY <1>1, FrameAbove
    <3> QED
      BY <2>1, <3>1, <3>2
  <2>4. CASE k = 0
    BY <1>1, <2>1, <2>2, <2>4 DEF Sound
  <2>5. CASE k # 0
    <3>1. k \in 1 .. n /\ k < n /\ entries[k] \in Entry
      BY <1>1, <1>2, <2>5
    <3>2. Serving(stack, entries[k], e.rip, e.regs, e.pointer) /\ e.pointer <= 1 + 24 * k
      BY <2>2, <2>5 DEF Sound
    <3>3. Serving(stack', entries[k], e.rip, e.regs, e.pointer)
      <4> DEFINE d == entries[k]
                 r == e.rip
                 g == e.regs
                 t == e.pointer
      <4>1. /\ d \in Entry /\ r \in Places /\ t \in Nat /\ Serving(stack, d, r, g, t)
            /\ \A i \in 1 .. t : stack'[i] = stack[i]
        BY <2>1, <2>3, <3>1, <3>2
      <4> HIDE DEF d, e, r, g, t
      <4>2. Serving(stack', d, r, g, t)
        BY <4>1, ServingStable
      <4> QED
        BY <4>2 DEF d, r, g, t
    <3>4. entries'[k] = entries[k]
      BY <3>1
    <3> QED
      BY <2>1, <2>5, <3>2, <3>3, <3>4 DEF Sound
  <2> QED
    BY <2>4, <2>5
<1>8. \A j, k \in 1 .. n : j <= k => entries'[j].pointer <= entries'[k].pointer
  BY <1>3
<1> QED
  BY <1>6, <1>7, <1>8 DEF StackInv

\* An element more on a stack.
LEMMA Pushing ==
  ASSUME NEW s \in Seq(Words), NEW w \in Words
  PROVE  /\ Append(s, w) \in Seq(Words) /\ Len(Append(s, w)) = Len(s) + 1
         /\ Append(s, w)[Len(s) + 1] = w
         /\ \A i \in 1 .. Len(s) : Append(s, w)[i] = s[i]
OBVIOUS

\* A stack with words put on top.
LEMMA Joining ==
  ASSUME NEW s \in Seq(Words), NEW w \in Seq(Words)
  PROVE  /\ s \o w \in Seq(Words) /\ Len(s \o w) = Len(s) + Len(w)
         /\ \A i \in 1 .. Len(s) + Len(w) :
              (s \o w)[i] = IF i <= Len(s) THEN s[i] ELSE w[i - Len(s)]
BY ConcatProperties

\* The first m elements of a stack.
LEMMA Cutting ==
  ASSUME NEW s \in Seq(Words), NEW m \in 0 .. Len(s)
  PROVE  /\ SubSeq(s, 1, m) \in Seq(Words) /\ Len(SubSeq(s, 1, m)) = m
         /\ \A i \in 1 .. m : SubSeq(s, 1, m)[i] = s[i]
<1>1. Len(s) \in Nat /\ \A i \in 1 .. m : s[i] \in Words
  OBVIOUS
<1> QED
  BY <1>1, SubSeqProperties

\* The instruction after this one in a row.
LEMMA Stepping ==
  ASSUME NEW r \in Places, NEW k \in 0 .. 15
  PROVE  LET q == [r EXCEPT !.step = k] IN
         q \in Places /\ q.at = r.at /\ q.step = k /\ q.vector = r.vector
<1> DEFINE q == [r EXCEPT !.step = k]
<1>1. r = [at |-> r.at, step |-> r.step, vector |-> r.vector]
  BY DEF Places
<1>2. q = [at |-> r.at, step |-> k, vector |-> r.vector]
  BY <1>1
<1> HIDE DEF q
<1> QED
  BY <1>2 DEF Places, q

\* An instruction that leaves the entries alone.
LEMMA CodeStep ==
  ASSUME Inv, rip.at # "main", UNCHANGED <<idt, masked, entries>>,
         rip' \in Places, regs' \in [Registers -> Words], stack' \in Seq(Words),
         \A i \in 1 .. FrameTop(Current) : stack'[i] = stack[i],
         Serving(stack', Current, rip', regs', Len(stack'))
  PROVE  Inv'
<1>1. Ranges'
  BY DEF Inv, Ranges
<1>2. StackInv'
  BY <1>1, InnerStep DEF Current
<1> QED
  BY <1>1, <1>2 DEF Inv

\* A stub pushes the dummy error code where it is due, and the number.
LEMMA StubStep == ASSUME Inv, Stub PROVE Inv'
<1> DEFINE e == Current
           f == FrameTop(e)
           t == Len(stack)
           v == e.vector
<1>1. rip.at = "stub" /\ rip \in Places /\ stack \in Seq(Words) /\ regs \in [Registers -> Words]
  BY DEF Inv, Ranges, Stub
<1>2. /\ e \in Entry /\ v \in 0 .. 15 /\ t \in Nat /\ f \in Nat /\ f >= 5 /\ f <= t
      /\ Serving(stack, e, rip, regs, t)
  BY <1>1, Innermost DEF Entry
<1>3. UNCHANGED <<regs, idt, masked, entries>>
  BY DEF Stub
<1>4. rip.vector = v
  BY <1>1, <1>2 DEF Serving
<1>5. ASSUME NEW w \in Words, stack' = Append(stack, w)
      PROVE  /\ stack' \in Seq(Words) /\ Len(stack') = t + 1 /\ stack'[t + 1] = w
             /\ \A i \in 1 .. t : stack'[i] = stack[i]
  BY <1>1, <1>5, Pushing
<1>6. ASSUME NEW w \in Words, stack' = Append(stack, w) PROVE Framed(stack', e)
  <2>1. \A i \in 1 .. t : stack'[i] = stack[i]
    BY <1>5, <1>6
  <2>2. Framed(stack, e)
    BY <1>2 DEF Serving
  <2> HIDE DEF e, t
  <2> QED
    BY <1>2, <2>1, <2>2, Below DEF e
<1>7. Number(v) \in Words /\ Number(0) \in Words
  BY <1>2 DEF Number, Words
<1> SUFFICES /\ rip' \in Places /\ stack' \in Seq(Words)
             /\ \A i \in 1 .. t : stack'[i] = stack[i]
             /\ Serving(stack', e, rip', regs', Len(stack'))
  <2>1. \A i \in 1 .. f : i \in 1 .. t
    BY <1>2
  <2> QED
    BY <1>1, <1>3, <2>1, CodeStep
<1>8. CASE v \in WithErrorCode
  <2>1. rip.step = 1 /\ t = f + 1 /\ stack[f + 1] = ErrorCode(v) /\ regs = e.regs
    BY <1>1, <1>2, <1>8 DEF Serving
  <2>2. StubPushes(v) = <<Number(v)>>
    BY <1>8 DEF StubPushes, WithErrorCode
  <2>3. stack' = Append(stack, Number(v)) /\ rip' = At("save", 1, 0)
    BY <1>4, <2>1, <2>2 DEF Stub
  <2>4. Saved(stack', e, 0)
    BY <1>2, <1>5, <1>7, <2>1, <2>3 DEF Saved
  <2>5. rip' \in Places /\ rip'.at = "save" /\ rip'.step = 1
    BY <2>3 DEF At, Places
  <2>6. Len(stack') = f + 1 + 1
    BY <1>2, <1>5, <1>7, <2>1, <2>3
  <2> QED
    BY <1>3, <1>5, <1>6, <1>7, <2>1, <2>3, <2>4, <2>5, <2>6 DEF Serving
<1>9. CASE v \notin WithErrorCode
  <2>1. rip.step \in {1, 2} /\ t = f + rip.step - 1 /\ regs = e.regs
        /\ (t > f => stack[f + 1] = ErrorCode(v))
    BY <1>1, <1>2, <1>9 DEF Serving
  <2>2. StubPushes(v) = <<Number(0), Number(v)>> /\ ErrorCode(v) = Number(0)
    BY <1>9 DEF StubPushes, WithErrorCode, ErrorCode
  <2>3. CASE rip.step = 1
    <3>1. stack' = Append(stack, Number(0)) /\ rip' = [rip EXCEPT !.step = 2] /\ t = f
      BY <1>2, <1>4, <2>1, <2>2, <2>3 DEF Stub
    <3>2. rip' \in Places /\ rip'.at = "stub" /\ rip'.step = 2 /\ rip'.vector = v
      <4>1. 2 \in 0 .. 15
        OBVIOUS
      <4> HIDE DEF v
      <4> QED
        BY <1>1, <1>4, <3>1, <4>1, Stepping
    <3>3. Len(stack') = f + 2 - 1 /\ stack'[f + 1] = ErrorCode(v)
      BY <1>2, <1>5, <1>7, <2>2, <3>1
    <3> QED
      BY <1>2, <1>3, <1>5, <1>6, <1>7, <1>9, <2>1, <3>1, <3>2, <3>3 DEF Serving
  <2>4. CASE rip.step = 2
    <3>1. stack' = Append(stack, Number(v)) /\ rip' = At("save", 1, 0) /\ t = f + 1
      BY <1>2, <1>4, <2>1, <2>2, <2>4 DEF Stub
    <3>2. rip' \in Places /\ rip'.at = "save" /\ rip'.step = 1
      BY <3>1 DEF At, Places
    <3>3. Len(stack') = f + 1 + 1
      BY <1>2, <1>5, <1>7, <3>1
    <3>4. Saved(stack', e, 0)
      BY <1>2, <1>5, <1>7, <2>1, <3>1 DEF Saved
    <3> QED
      BY <1>2, <1>3, <1>5, <1>6, <1>7, <2>1, <3>1, <3>2, <3>3, <3>4 DEF Serving
  <2> QED
    BY <2>1, <2>3, <2>4
<1> QED
  BY <1>8, <1>9

\* A register is pushed over those before it.
LEMMA SaveStep == ASSUME Inv, Save PROVE Inv'
<1> DEFINE e == Current
           f == FrameTop(e)
           t == Len(stack)
           i == rip.step
<1>1. rip.at = "save" /\ rip \in Places /\ stack \in Seq(Words) /\ regs \in [Registers -> Words]
  BY DEF Inv, Ranges, Save
<1>2. /\ e \in Entry /\ t \in Nat /\ f \in Nat /\ f >= 5 /\ f <= t
      /\ Serving(stack, e, rip, regs, t)
  BY <1>1, Innermost
<1>3. UNCHANGED <<regs, idt, masked, entries>>
  BY DEF Save
<1>4. i \in 1 .. 15 /\ regs = e.regs /\ t = f + 1 + i /\ Saved(stack, e, i - 1)
  BY <1>1, <1>2 DEF Serving, Places
<1>5. PushOrder[i] \in Registers /\ regs[PushOrder[i]] \in Words
  BY <1>1, <1>4, Orders
<1>6. /\ stack' \in Seq(Words) /\ Len(stack') = t + 1 /\ stack'[t + 1] = regs[PushOrder[i]]
      /\ \A j \in 1 .. t : stack'[j] = stack[j]
  <2>1. stack' = Append(stack, regs[PushOrder[i]])
    BY DEF Save, Pushed
  <2> HIDE DEF i
  <2> QED
    BY <1>1, <1>5, <2>1, Pushing
<1>7. Framed(stack', e)
  BY <1>2, <1>6, Below DEF Serving
<1>8. Saved(stack', e, i)
  <2> HIDE DEF i, f
  <2>1. i - 1 \in 0 .. 15 /\ f + 2 + (i - 1) <= t
    BY <1>2, <1>4
  <2>2. Saved(stack', e, i - 1)
    BY <1>2, <1>4, <1>6, <2>1, Below DEF f
  <2>3. stack'[f + 2 + i] = e.regs[PushOrder[i]]
    <3>1. t + 1 = f + 2 + i
      BY <1>2, <1>4
    <3> QED
      BY <1>4, <1>6, <3>1
  <2>4. \A j \in 1 .. i : j \in 1 .. i - 1 \/ j = i
    BY <1>4
  <2> QED
    BY <2>2, <2>3, <2>4 DEF Saved, f
<1>9. \A j \in 1 .. f : stack'[j] = stack[j]
  BY <1>2, <1>6
<1>10. CASE i < 15
  <2>1. rip' = [rip EXCEPT !.step = i + 1]
    BY <1>10 DEF Save
  <2>2. rip' \in Places /\ rip'.at = "save" /\ rip'.step = i + 1
    <3>1. i + 1 \in 0 .. 15
      BY <1>4, <1>10
    <3> HIDE DEF i
    <3> QED
      BY <1>1, <2>1, <3>1, Stepping
  <2>3. Serving(stack', e, rip', regs', Len(stack'))
    <3> HIDE DEF i, f
    <3>1. i + 1 # 0 /\ (i + 1) - 1 = i /\ Len(stack') = f + 1 + (i + 1)
      BY <1>2, <1>4, <1>6
    <3> QED
      BY <1>3, <1>4, <1>7, <1>8, <2>2, <3>1 DEF Serving, f
  <2> QED
    BY <1>1, <1>3, <1>6, <1>9, <2>2, <2>3, CodeStep
<1>11. CASE i = 15
  <2>1. rip' = At("load", 0, 0)
    BY <1>11 DEF Save
  <2>2. rip' \in Places /\ rip'.at = "load"
    BY <2>1 DEF At, Places
  <2>3. Len(stack') = f + 17
    BY <1>2, <1>4, <1>6, <1>11
  <2>4. Serving(stack', e, rip', regs', Len(stack'))
    BY <1>3, <1>4, <1>7, <1>8, <1>11, <2>2, <2>3 DEF Serving
  <2> QED
    BY <1>1, <1>3, <1>6, <1>9, <2>2, <2>4, CodeStep
<1> QED
  BY <1>4, <1>10, <1>11

\* What the handler notes leaves the rest of an entry alone.
LEMMA Marking ==
  ASSUME NEW e \in Entry
  PROVE  LET d == [e EXCEPT !.served = TRUE] IN
         /\ d \in Entry /\ d.served = TRUE /\ d.vector = e.vector /\ d.rip = e.rip
         /\ d.regs = e.regs /\ d.pointer = e.pointer
BY DEF Entry

\* rax gets the number that the stub has pushed.
LEMMA LoadStep == ASSUME Inv, Load PROVE Inv'
<1> DEFINE e == Current
           f == FrameTop(e)
           t == Len(stack)
           v == e.vector
<1>1. rip.at = "load" /\ stack \in Seq(Words) /\ regs \in [Registers -> Words]
  BY DEF Inv, Ranges, Load
<1>2. /\ e \in Entry /\ v \in 0 .. 15 /\ t \in Nat /\ f \in Nat
      /\ Serving(stack, e, rip, regs, t)
  BY <1>1, Innermost DEF Entry
<1>3. Framed(stack, e) /\ t = f + 17 /\ Saved(stack, e, 15)
  BY <1>1, <1>2 DEF Serving
<1>4. VectorWord = Number(v)
  <2>1. t - 15 = f + 2
    BY <1>2, <1>3
  <2> QED
    BY <1>3, <2>1 DEF VectorWord, Saved
<1>5. regs' = [regs EXCEPT !["rax"] = Number(v)] /\ rip' = At("dispatch", 0, 0)
  BY <1>4 DEF Load
<1>6. UNCHANGED <<stack, idt, masked, entries>>
  BY DEF Load
<1>7. Number(v) \in Words
  BY <1>2 DEF Number, Words
<1>8. regs' \in [Registers -> Words] /\ regs'["rax"] = Number(v)
  BY <1>1, <1>5, <1>7, Orders
<1>9. rip' \in Places /\ rip'.at = "dispatch"
  BY <1>5 DEF At, Places
<1>10. Serving(stack', e, rip', regs', Len(stack'))
  BY <1>3, <1>6, <1>8, <1>9 DEF Serving
<1> QED
  BY <1>1, <1>6, <1>8, <1>9, <1>10, CodeStep

\* The comparisons find the handler of the vector.
LEMMA DispatchStep == ASSUME Inv, Dispatch PROVE Inv'
<1> DEFINE e == Current
           f == FrameTop(e)
           t == Len(stack)
           v == e.vector
           back == [return |-> At("restore", 1, 0)]
<1>1. rip.at = "dispatch" /\ stack \in Seq(Words) /\ regs \in [Registers -> Words]
  BY DEF Inv, Ranges, Dispatch
<1>2. /\ e \in Entry /\ v \in 0 .. 15 /\ t \in Nat /\ f \in Nat /\ f <= t
      /\ Serving(stack, e, rip, regs, t)
  BY <1>1, Innermost DEF Entry
<1>3. Framed(stack, e) /\ t = f + 17 /\ Saved(stack, e, 15) /\ regs["rax"] = Number(v)
  BY <1>1, <1>2 DEF Serving
<1>4. v \in Known /\ (CHOOSE w \in Known : regs["rax"] = Number(w)) = v
  <2>1. v \in Known
    BY <1>2 DEF Known
  <2>2. \A w \in Known : regs["rax"] = Number(w) => w = v
    BY <1>3 DEF Number
  <2> QED
    BY <1>3, <2>1, <2>2
<1>5. /\ rip' = At("handler", 0, v) /\ regs' = [regs EXCEPT !["rdi"] = [pointer |-> t]]
      /\ stack' = Append(stack, back)
  BY <1>3, <1>4 DEF Dispatch
<1>6. UNCHANGED <<idt, masked, entries>>
  BY DEF Dispatch
<1>7. back \in Words /\ [pointer |-> t] \in Words
  BY <1>2 DEF Words, Places, At
<1>8. rip' \in Places /\ rip'.at = "handler" /\ rip'.vector = v
  BY <1>2, <1>5 DEF At, Places
<1>9. regs' \in [Registers -> Words] /\ regs'["rdi"] = [pointer |-> t]
  BY <1>1, <1>5, <1>7, Orders
<1>10. /\ stack' \in Seq(Words) /\ Len(stack') = t + 1 /\ stack'[t + 1] = back
       /\ \A i \in 1 .. t : stack'[i] = stack[i]
  <2> HIDE DEF back
  <2> QED
    BY <1>1, <1>5, <1>7, Pushing
<1>11. Framed(stack', e) /\ Saved(stack', e, 15)
  <2> DEFINE m == 15
  <2>1. f + 2 + m <= t /\ m \in 0 .. 15 /\ Saved(stack, e, m)
    BY <1>2, <1>3
  <2> HIDE DEF e, back, m
  <2>2. Framed(stack', e) /\ Saved(stack', e, m)
    BY <1>2, <1>3, <1>10, <2>1, Below
  <2> QED
    BY <2>2 DEF m
<1>12. \A i \in 1 .. f : stack'[i] = stack[i]
  BY <1>2, <1>10
<1>13. Serving(stack', e, rip', regs', Len(stack'))
  <2>1. Len(stack') = f + 18 /\ Len(stack') - 1 = t
    BY <1>2, <1>3, <1>10
  <2> QED
    BY <1>8, <1>9, <1>10, <1>11, <2>1 DEF Serving
<1> QED
  BY <1>1, <1>6, <1>8, <1>9, <1>10, <1>12, <1>13, CodeStep

\* The handler returns behind its call; what a call may use is lost.
LEMMA HandlerStep == ASSUME Inv, Handler PROVE Inv'
<1> DEFINE e == Current
           f == FrameTop(e)
           t == Len(stack)
           n == Len(entries)
           d == [e EXCEPT !.served = TRUE]
<1>1. /\ rip.at = "handler" /\ stack \in Seq(Words) /\ regs \in [Registers -> Words]
      /\ entries \in Seq(Entry)
  BY DEF Inv, Ranges, Handler
<1>2. /\ e \in Entry /\ t \in Nat /\ f \in Nat /\ f <= t /\ n \in 1 .. MaxNesting /\ n \in Nat
      /\ e = entries[n] /\ Serving(stack, e, rip, regs, t)
  BY <1>1, Innermost
<1>3. /\ Framed(stack, e) /\ t = f + 18 /\ Saved(stack, e, 15)
      /\ stack[t] = [return |-> At("restore", 1, 0)]
  BY <1>1, <1>2 DEF Serving
<1>4. rip' = At("restore", 1, 0)
  BY <1>3 DEF Handler
<1>5. rip' \in Places /\ rip'.at = "restore" /\ rip'.step = 1
  BY <1>4 DEF At, Places
<1>6. /\ stack' \in Seq(Words) /\ Len(stack') = t - 1
      /\ \A i \in 1 .. t - 1 : stack'[i] = stack[i]
  <2>1. t - 1 \in 0 .. t
    BY <1>2, <1>3
  <2>2. stack' = SubSeq(stack, 1, t - 1)
    BY DEF Handler
  <2> QED
    BY <1>1, <2>1, <2>2, Cutting
<1>7. regs' \in [Registers -> Words]
  <2>1. \A r \in Registers : [spoilt |-> r] \in Words /\ regs[r] \in Words
    BY <1>1 DEF Words
  <2> QED
    BY <2>1 DEF Handler
<1>8. d \in Entry /\ d.served = TRUE /\ d.vector = e.vector /\ d.rip = e.rip /\ d.regs = e.regs
        /\ d.pointer = e.pointer
  <2> HIDE DEF e
  <2> QED
    BY <1>2, Marking
<1>9. entries' = [entries EXCEPT ![n] = d]
  BY <1>2 DEF Handler
<1>10. /\ entries' \in Seq(Entry) /\ Len(entries') = n /\ entries'[n] = d
       /\ \A j \in 1 .. n : j < n => entries'[j] = entries[j]
  <2> HIDE DEF d
  <2> QED
    BY <1>1, <1>2, <1>8, <1>9, ExceptSeq
<1>11. Ranges'
  BY <1>5, <1>6, <1>7, <1>10 DEF Inv, Ranges, Handler
<1>12. Framed(stack', d) /\ Saved(stack', d, 15) /\ FrameTop(d) = f
  <2> DEFINE m == 15
             u == t - 1
  <2>1. /\ f <= u /\ u \in Nat /\ f + 2 + m <= u /\ m \in 0 .. 15 /\ Saved(stack, e, m)
        /\ \A i \in 1 .. u : stack'[i] = stack[i]
    BY <1>2, <1>3, <1>6
  <2>2. Framed(stack', e) /\ Saved(stack', e, m)
    <3> HIDE DEF e, m, u
    <3> QED
      BY <1>2, <1>3, <2>1, Below
  <2> HIDE DEF d
  <2> QED
    BY <1>8, <2>2 DEF Framed, Saved, FrameTop
<1>13. Serving(stack', entries'[n], rip', regs', Len(stack'))
  <2>1. Len(stack') = f + 18 - 1
    BY <1>2, <1>3, <1>6
  <2> HIDE DEF d
  <2> QED
    BY <1>5, <1>8, <1>10, <1>12, <2>1 DEF Serving
<1>14. \A i \in 1 .. f : stack'[i] = stack[i]
  <2>1. \A i \in 1 .. f : i \in 1 .. t - 1
    BY <1>2, <1>3
  <2> QED
    BY <1>6, <2>1
<1>15. \A j \in 1 .. n :
         /\ entries'[j].vector = entries[j].vector /\ entries'[j].rip = entries[j].rip
         /\ entries'[j].regs = entries[j].regs /\ entries'[j].pointer = entries[j].pointer
         /\ j < n => entries'[j] = entries[j]
  <2>1. \A j \in 1 .. n : j < n \/ j = n
    BY <1>2
  <2> HIDE DEF d
  <2> QED
    BY <1>2, <1>8, <1>10, <2>1
<1>16. StackInv'
  BY <1>1, <1>10, <1>11, <1>13, <1>14, <1>15, InnerStep
<1> QED
  BY <1>11, <1>16 DEF Inv

\* A register is popped back, the last one pushed first.
LEMMA RestoreStep == ASSUME Inv, Restore PROVE Inv'
<1> DEFINE e == Current
           f == FrameTop(e)
           t == Len(stack)
           i == rip.step
           word == stack[t]
<1>1. rip.at = "restore" /\ rip \in Places /\ stack \in Seq(Words) /\ regs \in [Registers -> Words]
  BY DEF Inv, Ranges, Restore
<1>2. /\ e \in Entry /\ e.regs \in [Registers -> Words]
      /\ t \in Nat /\ f \in Nat /\ f >= 5 /\ f <= t
      /\ Serving(stack, e, rip, regs, t)
  BY <1>1, Innermost DEF Entry
<1>3. /\ Framed(stack, e) /\ i \in 1 .. 15 /\ t = f + 18 - i /\ Saved(stack, e, 16 - i) /\ e.served
      /\ \A j \in 1 .. i - 1 : regs[PopOrder[j]] = e.regs[PopOrder[j]]
  BY <1>1, <1>2 DEF Serving, Places
<1>4. UNCHANGED <<idt, masked, entries>>
  BY DEF Restore
<1>5. word = e.regs[PopOrder[i]] /\ word \in Words
  <2> HIDE DEF i, f, t
  <2>1. 16 - i \in 1 .. 16 - i /\ 16 - (16 - i) = i /\ f + 2 + (16 - i) = t /\ 16 - i \in 1 .. 15
    BY <1>2, <1>3
  <2>2. word = e.regs[PushOrder[16 - i]]
    BY <1>3, <2>1 DEF Saved, f
  <2>3. PopOrder[i] = PushOrder[16 - i] /\ PopOrder[i] \in Registers
    BY <1>3, Orders
  <2> QED
    BY <1>2, <2>2, <2>3
<1>6. /\ stack' \in Seq(Words) /\ Len(stack') = t - 1
      /\ \A j \in 1 .. t - 1 : stack'[j] = stack[j]
  <2>1. t - 1 \in 0 .. t
    BY <1>2
  <2>2. stack' = SubSeq(stack, 1, t - 1)
    BY DEF Restore
  <2> QED
    BY <1>1, <2>1, <2>2, Cutting
<1>7. /\ regs' \in [Registers -> Words]
      /\ \A j \in 1 .. i : regs'[PopOrder[j]] = e.regs[PopOrder[j]]
  <2>1. regs' = [regs EXCEPT ![PopOrder[i]] = word]
    BY DEF Restore, Popped
  <2> HIDE DEF i, word
  <2>2. \A j \in 1 .. i : PopOrder[j] \in Registers /\ (j \in 1 .. i - 1 \/ j = i)
    <3>1. \A j \in 1 .. i : j \in 1 .. 15 /\ (j \in 1 .. i - 1 \/ j = i)
      BY <1>3
    <3> QED
      BY <3>1, Orders
  <2> QED
    BY <1>1, <1>3, <1>5, <2>1, <2>2
<1>8. Framed(stack', e) /\ Saved(stack', e, 15 - i)
  <2> DEFINE m == 15 - i
             u == t - 1
  <2>1. /\ f <= u /\ u \in Nat /\ f + 2 + m <= u /\ m \in 0 .. 15 /\ m <= 16 - i
        /\ \A j \in 1 .. u : stack'[j] = stack[j]
    <3> HIDE DEF e, f, t, i
    <3> QED
      BY <1>2, <1>3, <1>6
  <2>2. Saved(stack, e, m)
    <3>1. \A j \in 1 .. m : j \in 1 .. 16 - i
      <4>1. i \in 1 .. 15
        BY <1>3
      <4> HIDE DEF i
      <4> QED
        BY <4>1
    <3> QED
      BY <1>3, <3>1 DEF Saved
  <2> HIDE DEF e, m, u
  <2>3. Framed(stack', e) /\ Saved(stack', e, m)
    BY <1>2, <1>3, <2>1, <2>2, Below
  <2> QED
    BY <2>3 DEF m
<1>9. \A j \in 1 .. f : stack'[j] = stack[j]
  <2> HIDE DEF i, f, t
  <2>1. \A j \in 1 .. f : j \in 1 .. t - 1
    BY <1>2, <1>3
  <2> QED
    BY <1>6, <2>1
<1>10. CASE i < 15
  <2>1. rip' = [rip EXCEPT !.step = i + 1]
    BY <1>10 DEF Restore
  <2>2. rip' \in Places /\ rip'.at = "restore" /\ rip'.step = i + 1
    <3>1. i + 1 \in 0 .. 15
      BY <1>3, <1>10
    <3> HIDE DEF i
    <3> QED
      BY <1>1, <2>1, <3>1, Stepping
  <2>3. Serving(stack', e, rip', regs', Len(stack'))
    <3> HIDE DEF i, f
    <3>1. i + 1 # 0 /\ 16 - (i + 1) = 15 - i /\ Len(stack') = f + 18 - (i + 1) /\ (i + 1) - 1 = i
      BY <1>2, <1>3, <1>6
    <3> QED
      BY <1>3, <1>7, <1>8, <2>2, <3>1 DEF Serving, f
  <2> QED
    BY <1>1, <1>4, <1>6, <1>7, <1>9, <2>2, <2>3, CodeStep
<1>11. CASE i = 15
  <2>1. rip' = At("drop", 0, 0)
    BY <1>11 DEF Restore
  <2>2. rip' \in Places /\ rip'.at = "drop"
    BY <2>1 DEF At, Places
  <2>3. Len(stack') = f + 2
    <3> HIDE DEF f, t, i
    <3>1. t = f + 3
      BY <1>2, <1>3, <1>11
    <3> QED
      BY <1>2, <1>6, <3>1
  <2>4. regs' = e.regs
    <3>1. \A r \in Registers : regs'[r] = e.regs[r]
      BY <1>7, <1>11, Orders
    <3> QED
      BY <1>2, <1>7, <3>1
  <2>5. Serving(stack', e, rip', regs', Len(stack'))
    BY <1>3, <1>8, <2>2, <2>3, <2>4 DEF Serving
  <2> QED
    BY <1>1, <1>4, <1>6, <1>7, <1>9, <2>2, <2>5, CodeStep
<1>12. i < 15 \/ i = 15
  <2>1. i \in 1 .. 15
    BY <1>3
  <2> HIDE DEF i
  <2> QED
    BY <2>1
<1> QED
  BY <1>10, <1>11, <1>12

\* Number and error code are dropped: the frame is on top.
LEMMA DropStep == ASSUME Inv, Drop PROVE Inv'
<1> DEFINE e == Current
           f == FrameTop(e)
           t == Len(stack)
<1>1. rip.at = "drop" /\ stack \in Seq(Words) /\ regs \in [Registers -> Words]
  BY DEF Inv, Ranges, Drop
<1>2. e \in Entry /\ t \in Nat /\ f \in Nat /\ Serving(stack, e, rip, regs, t)
  BY <1>1, Innermost
<1>3. Framed(stack, e) /\ t = f + 2 /\ regs = e.regs /\ e.served
  BY <1>1, <1>2 DEF Serving
<1>4. UNCHANGED <<regs, idt, masked, entries>>
  BY DEF Drop
<1>5. rip' = At("iretq", 0, 0)
  BY DEF Drop
<1>6. rip' \in Places /\ rip'.at = "iretq"
  BY <1>5 DEF At, Places
<1>7. stack' \in Seq(Words) /\ Len(stack') = f /\ \A j \in 1 .. f : stack'[j] = stack[j]
  <2>1. stack' = SubSeq(stack, 1, f) /\ f \in 0 .. t
    BY <1>2, <1>3 DEF Drop, DropTwo
  <2> HIDE DEF f
  <2> QED
    BY <1>1, <2>1, Cutting
<1>8. Framed(stack', e)
  <2>1. FrameTop(e) <= f /\ f \in Nat
    BY <1>2
  <2> HIDE DEF e, f
  <2> QED
    BY <1>2, <1>3, <1>7, <2>1, Below
<1>9. Serving(stack', e, rip', regs', Len(stack'))
  BY <1>3, <1>4, <1>6, <1>7, <1>8 DEF Serving
<1> QED
  BY <1>1, <1>4, <1>6, <1>7, <1>9, CodeStep

-----------------------------------------------------------------------------
(***************************************************************************)
(* An interrupt and the return from one: the entries in between are as     *)
(* they were, on a stack that is the same below.                           *)
(***************************************************************************)

\* An interrupt waits where it was while the words it uses are there.
LEMMA OuterKept ==
  ASSUME Inv, NEW k \in 0 .. Len(entries), NEW r \in Places, NEW g, NEW t \in Nat,
         Sound(k, r, g, t),
         \A i \in 1 .. t : stack'[i] = stack[i], k # 0 => entries'[k] = entries[k]
  PROVE  IF k = 0 THEN r.at = "main" /\ t \in {1, 2}
         ELSE Serving(stack', entries'[k], r, g, t) /\ t <= 1 + 24 * k
<1>1. CASE k = 0
  BY <1>1 DEF Sound
<1>2. CASE k # 0
  <2>1. entries[k] \in Entry
    <3>1. entries \in Seq(Entry)
      BY DEF Inv, Ranges
    <3>2. k \in 1 .. Len(entries)
      BY <1>2, <3>1
    <3> QED
      BY <3>1, <3>2
  <2>2. Serving(stack, entries[k], r, g, t) /\ t <= 1 + 24 * k
    BY <1>2 DEF Sound
  <2> QED
    BY <1>2, <2>1, <2>2, ServingStable
<1> QED
  BY <1>1, <1>2

\* The pointers of the entries lie on the stack, the inner ones above.
LEMMA Pointers ==
  ASSUME Inv
  PROVE  /\ Len(entries) \in Nat /\ Len(stack) \in Nat
         /\ \A k \in 1 .. Len(entries) :
              /\ entries[k] \in Entry /\ entries[k].pointer \in Nat /\ entries[k].rip \in Places
              /\ entries[k].pointer <= Len(stack)
<1> DEFINE n == Len(entries)
<1>1. /\ n \in Nat /\ Len(stack) \in Nat /\ rip \in Places
      /\ \A k \in 1 .. n : entries[k] \in Entry /\ entries[k].pointer \in Nat
                           /\ entries[k].rip \in Places
  <2>1. /\ n \in Nat /\ Len(stack) \in Nat /\ rip \in Places
        /\ \A k \in 1 .. n : entries[k] \in Entry
    BY DEF Inv, Ranges
  <2> HIDE DEF n
  <2>2. \A e \in Entry : e.pointer \in Nat /\ e.rip \in Places
    BY DEF Entry
  <2> QED
    BY <2>1, <2>2
<1>2. ASSUME NEW k \in 1 .. n PROVE entries[k].pointer <= Len(stack)
  <2>1. n \in 1 .. n /\ n # 0 /\ k <= n
    BY <1>1
  <2>2. /\ entries[k].pointer <= entries[n].pointer
        /\ Serving(stack, entries[n], rip, regs, Len(stack))
    BY <2>1 DEF Inv, StackInv, Sound
  <2>3. entries[n].pointer + 5 <= FrameTop(entries[n]) /\ FrameTop(entries[n]) \in Nat
    BY <1>1, <2>1, FrameAbove
  <2>4. FrameTop(entries[n]) <= Len(stack)
    BY <1>1, <2>1, <2>2, ServiceBound
  <2> HIDE DEF n
  <2> QED
    BY <1>1, <2>1, <2>2, <2>3, <2>4
<1> QED
  BY <1>1, <1>2

\* The gate of a vector leads to the stub of that vector.
LEMMA GateTaken ==
  ASSUME Ranges, NEW v \in 0 .. 15
  PROVE  (CHOOSE w \in 0 .. 15 : StubAt[w] = Target(idt[v])) = v
<1>1. Target(idt[v]) = StubAt[v]
  <2>1. idt[v] = Gate(v)
    BY DEF Ranges
  <2> QED
    BY <2>1, GateParts
<1>2. \A w \in 0 .. 15 : StubAt[w] = StubAt[v] => w = v
  BY InterruptAssumption
<1> QED
  BY <1>1, <1>2

\* The processor's frame, and the first step of the stub, for a vector v.
LEMMA InterruptStep == ASSUME Inv, NEW v \in Vectors, Interrupt(v) PROVE Inv'
<1> DEFINE n == Len(entries)
           L == Len(stack)
           d == [vector |-> v, rip |-> rip, regs |-> regs, pointer |-> L, served |-> FALSE]
           f == FrameTop(d)
           x == IF v \in WithErrorCode THEN <<ErrorCode(v)>> ELSE <<>>
           a == stack \o Padding
           b == a \o Frame
<1>1. /\ rip \in Places /\ stack \in Seq(Words) /\ regs \in [Registers -> Words]
      /\ entries \in Seq(Entry) /\ n \in Nat /\ L \in Nat /\ n < MaxNesting /\ MaxNesting \in Nat
  <2>1. MaxNesting \in Nat
    BY InterruptAssumption
  <2>2. rip \in Places /\ stack \in Seq(Words) /\ regs \in [Registers -> Words]
          /\ entries \in Seq(Entry)
    BY DEF Inv, Ranges
  <2>3. n < MaxNesting
    BY DEF Interrupt
  <2>4. n \in Nat /\ L \in Nat
    BY <2>2
  <2> QED
    BY <2>1, <2>2, <2>3, <2>4
<1>2. v \in 0 .. 15
  BY InterruptAssumption
<1>3. d \in Entry /\ d.vector = v /\ d.rip = rip /\ d.regs = regs /\ d.pointer = L
  BY <1>1, <1>2 DEF Entry
<1>4. f \in Nat /\ f >= 5 /\ f = L + (L % 2) + 5
  <2>1. FrameTop(d) = d.pointer + (d.pointer % 2) + 5
    BY DEF FrameTop
  <2> HIDE DEF d
  <2> QED
    BY <1>3, <2>1, FrameAbove
<1>5. stack' = b \o x /\ rip' = At("stub", 1, v) /\ entries' = Append(entries, d)
      /\ regs' = regs /\ idt' = idt /\ masked' = (masked \/ v = NMI)
  BY <1>2, GateTaken DEF Inv, Interrupt
<1>6. /\ Padding \in Seq(Words) /\ Len(Padding) = L % 2
      /\ Frame \in Seq(Words) /\ Len(Frame) = 5 /\ Frame[5] = [return |-> rip]
      /\ Frame[2] = [pointer |-> L]
      /\ x \in Seq(Words) /\ Len(x) = (IF v \in WithErrorCode THEN 1 ELSE 0)
      /\ v \in WithErrorCode => x[1] = ErrorCode(v)
  <2>1. Padding \in Seq(Words) /\ Len(Padding) = L % 2
    <3>1. [pad |-> 0] \in Words
      BY DEF Words
    <3>2. L % 2 = 0 \/ L % 2 = 1
      BY <1>1
    <3> QED
      BY <3>1, <3>2 DEF Padding
  <2>2. /\ Frame \in Seq(Words) /\ Len(Frame) = 5 /\ Frame[5] = [return |-> rip]
        /\ Frame[2] = [pointer |-> L]
    <3>1. /\ [segment |-> "ss"] \in Words /\ [segment |-> "cs"] \in Words
          /\ [flags |-> "off"] \in Words
          /\ [pointer |-> L] \in Words /\ [return |-> rip] \in Words
      BY <1>1 DEF Words
    <3> QED
      BY <3>1 DEF Frame
  <2>3. /\ x \in Seq(Words) /\ Len(x) = (IF v \in WithErrorCode THEN 1 ELSE 0)
        /\ v \in WithErrorCode => x[1] = ErrorCode(v)
    <3>1. v \in WithErrorCode => ErrorCode(v) \in Words
      BY <1>2 DEF ErrorCode, Words
    <3> QED
      BY <3>1
  <2> QED
    BY <2>1, <2>2, <2>3
<1>7. /\ a \in Seq(Words) /\ Len(a) = L + (L % 2) /\ \A i \in 1 .. L : a[i] = stack[i]
  <2> HIDE DEF x
  <2>1. L % 2 \in Nat
    BY <1>1
  <2>2. /\ a \in Seq(Words) /\ Len(a) = L + Len(Padding)
        /\ \A i \in 1 .. L + Len(Padding) : a[i] = IF i <= L THEN stack[i] ELSE Padding[i - L]
    BY <1>1, <1>6, Joining
  <2> HIDE DEF a, L
  <2> QED
    BY <1>1, <1>6, <2>1, <2>2
<1> HIDE DEF x, a, L, d, f
<1>8. /\ b \in Seq(Words) /\ Len(b) = f /\ \A i \in 1 .. L : b[i] = stack[i]
      /\ b[f] = [return |-> rip] /\ b[f - 3] = [pointer |-> L]
  <2>1. /\ b \in Seq(Words) /\ Len(b) = Len(a) + 5
        /\ \A i \in 1 .. Len(a) + 5 : b[i] = IF i <= Len(a) THEN a[i] ELSE Frame[i - Len(a)]
    <3>1. /\ b \in Seq(Words) /\ Len(b) = Len(a) + Len(Frame)
          /\ \A i \in 1 .. Len(a) + Len(Frame) :
               b[i] = IF i <= Len(a) THEN a[i] ELSE Frame[i - Len(a)]
      BY <1>6, <1>7, Joining
    <3> HIDE DEF b
    <3> QED
      BY <1>6, <3>1
  <2> HIDE DEF b
  <2>2. Len(a) \in Nat /\ Len(a) + 5 = f /\ L <= Len(a) /\ L % 2 \in Nat
    BY <1>1, <1>4, <1>7
  <2>3. \A i \in 1 .. L : i \in 1 .. Len(a) + 5 /\ i <= Len(a)
    BY <1>1, <2>2
  <2>4. /\ f \in 1 .. Len(a) + 5 /\ ~ (f <= Len(a)) /\ f - Len(a) = 5
        /\ f - 3 \in 1 .. Len(a) + 5 /\ ~ (f - 3 <= Len(a)) /\ (f - 3) - Len(a) = 2
    BY <1>4, <2>2
  <2> QED
    BY <1>6, <1>7, <2>1, <2>2, <2>3, <2>4
<1> HIDE DEF b
<1>9. /\ stack' \in Seq(Words) /\ Len(stack') = f + Len(x) /\ \A i \in 1 .. f : stack'[i] = b[i]
      /\ v \in WithErrorCode => stack'[f + 1] = ErrorCode(v)
  <2>1. /\ stack' \in Seq(Words) /\ Len(stack') = f + Len(x)
        /\ \A i \in 1 .. f + Len(x) : stack'[i] = IF i <= f THEN b[i] ELSE x[i - f]
    <3>1. /\ b \o x \in Seq(Words) /\ Len(b \o x) = Len(b) + Len(x)
          /\ \A i \in 1 .. Len(b) + Len(x) :
               (b \o x)[i] = IF i <= Len(b) THEN b[i] ELSE x[i - Len(b)]
      BY <1>6, <1>8, Joining
    <3> QED
      BY <1>5, <1>8, <3>1
  <2>2. Len(x) \in Nat
    BY <1>6
  <2>3. \A i \in 1 .. f : i \in 1 .. f + Len(x) /\ i <= f
    BY <1>4, <2>2
  <2>4. v \in WithErrorCode => f + 1 \in 1 .. f + Len(x) /\ ~ (f + 1 <= f) /\ (f + 1) - f = 1
    BY <1>4, <1>6
  <2> QED
    BY <1>6, <2>1, <2>3, <2>4
<1>10. \A i \in 1 .. L : stack'[i] = stack[i]
  <2>1. \A i \in 1 .. L : i \in 1 .. f
    <3>1. L % 2 \in Nat
      BY <1>1
    <3> QED
      BY <1>1, <1>4, <3>1
  <2> QED
    BY <1>8, <1>9, <2>1
<1>11. rip' \in Places /\ rip'.at = "stub" /\ rip'.step = 1 /\ rip'.vector = v
  BY <1>2, <1>5 DEF At, Places
<1>12. Serving(stack', d, rip', regs', Len(stack'))
  <2>1. Framed(stack', d)
    <3>1. f \in 1 .. f /\ f - 3 \in 1 .. f
      BY <1>4
    <3> QED
      BY <1>3, <1>8, <1>9, <3>1 DEF Framed, f
  <2>2. CASE v \in WithErrorCode
    <3>1. Len(stack') = f + 1 /\ stack'[f + 1] = ErrorCode(v)
      BY <1>6, <1>9, <2>2
    <3> QED
      BY <1>3, <1>5, <1>11, <2>1, <2>2, <3>1 DEF Serving, f
  <2>3. CASE v \notin WithErrorCode
    <3>1. Len(stack') = f /\ Len(stack') = f + 1 - 1 /\ ~ (Len(stack') > f)
      BY <1>4, <1>6, <1>9, <2>3
    <3> QED
      BY <1>3, <1>5, <1>11, <2>1, <2>3, <3>1 DEF Serving, f
  <2> QED
    BY <2>2, <2>3
<1>13. /\ entries' \in Seq(Entry) /\ Len(entries') = n + 1 /\ entries'[n + 1] = d
       /\ \A k \in 1 .. n : entries'[k] = entries[k]
  BY <1>1, <1>3, <1>5
<1>14. Ranges'
  <2>1. n + 1 <= MaxNesting
    BY <1>1
  <2>2. masked' \in BOOLEAN
    BY <1>5 DEF Inv, Ranges
  <2> QED
    BY <1>1, <1>5, <1>9, <1>11, <1>13, <2>1, <2>2 DEF Inv, Ranges
<1>15. Sound(n, rip, regs, L) /\ (n # 0 => L <= 1 + 24 * n) /\ (n = 0 => L \in {1, 2})
  BY DEF Inv, StackInv, Sound, L
<1>16. Sound(Len(entries), rip, regs, Len(stack))'
  <2> DEFINE T == Len(stack')
  <2> HIDE DEF n
  <2>1. T <= 1 + 24 * (n + 1)
    <3>1. T \in Nat /\ T <= f + 1
      BY <1>4, <1>6, <1>9
    <3>2. f <= L + 6
      BY <1>1, <1>4
    <3>3. L <= 2 + 24 * n
      BY <1>1, <1>15
    <3> HIDE DEF T
    <3> QED
      BY <1>1, <1>4, <3>1, <3>2, <3>3
  <2> QED
    BY <1>1, <1>12, <1>13, <2>1 DEF Sound
<1>17. ASSUME NEW k \in 0 .. n
       PROVE  Sound(k, entries[k + 1].rip, entries[k + 1].regs, entries[k + 1].pointer)'
  <2> DEFINE r == entries'[k + 1].rip
             g == entries'[k + 1].regs
             t == entries'[k + 1].pointer
  <2>1. r \in Places /\ t \in Nat /\ t <= L /\ Sound(k, r, g, t)
    <3>1. CASE k = n
      BY <1>1, <1>3, <1>13, <1>15, <3>1
    <3>2. CASE k # n
      <4>1. k \in 0 .. n - 1 /\ k + 1 \in 1 .. n
        BY <1>1, <3>2
      <4>2. entries'[k + 1] = entries[k + 1]
        BY <1>13, <4>1
      <4>3. LET e == entries[k + 1] IN Sound(k, e.rip, e.regs, e.pointer)
        BY <4>1 DEF Inv, StackInv
      <4> QED
        BY <4>1, <4>2, <4>3, Pointers DEF L
    <3> QED
      BY <3>1, <3>2
  <2>2. \A i \in 1 .. t : stack'[i] = stack[i]
    BY <1>1, <1>10, <2>1
  <2>3. k # 0 => entries'[k] = entries[k]
    BY <1>1, <1>13
  <2> HIDE DEF r, g, t
  <2>4. IF k = 0 THEN r.at = "main" /\ t \in {1, 2}
        ELSE Serving(stack', entries'[k], r, g, t) /\ t <= 1 + 24 * k
    BY <2>1, <2>2, <2>3, OuterKept
  <2> QED
    BY <2>4 DEF Sound, r, g, t
<1>18. \A j, k \in 1 .. n + 1 : j <= k => entries'[j].pointer <= entries'[k].pointer
  <2> SUFFICES ASSUME NEW j \in 1 .. n + 1, NEW k \in 1 .. n + 1, j <= k
               PROVE  entries'[j].pointer <= entries'[k].pointer
    OBVIOUS
  <2>1. CASE k \in 1 .. n
    <3>1. j \in 1 .. n
      BY <1>1, <2>1
    <3> QED
      BY <1>13, <2>1, <3>1 DEF Inv, StackInv
  <2>2. CASE k = n + 1 /\ j \in 1 .. n
    <3>1. entries'[k].pointer = L /\ entries'[j] = entries[j]
      BY <1>3, <1>13, <2>2
    <3> QED
      BY <2>2, <3>1, Pointers DEF L
  <2>3. CASE k = n + 1 /\ j = n + 1
    BY <1>1, <1>3, <1>13, <2>3
  <2> QED
    BY <1>1, <2>1, <2>2, <2>3
<1>19. StackInv'
  <2>1. Len(entries') = n + 1 /\ (n + 1) - 1 = n
    BY <1>1, <1>13
  <2> QED
    BY <1>16, <1>17, <1>18, <2>1 DEF StackInv
<1> QED
  BY <1>14, <1>19 DEF Inv

\* iretq gives the interrupted place what it had, and cuts the stack there.
LEMMA IretqStep == ASSUME Inv, Iretq PROVE Inv'
<1> DEFINE e == Current
           f == FrameTop(e)
           n == Len(entries)
           t == e.pointer
<1>1. /\ rip.at = "iretq" /\ stack \in Seq(Words) /\ regs \in [Registers -> Words]
      /\ entries \in Seq(Entry) /\ Len(entries) <= MaxNesting
  BY DEF Inv, Ranges, Iretq
<1>2. /\ n \in Nat /\ n >= 1 /\ e = entries[n] /\ e \in Entry /\ f <= Len(stack)
      /\ Len(stack) \in Nat /\ Serving(stack, e, rip, regs, Len(stack))
  BY <1>1, Innermost
<1>3. t \in Nat /\ t <= Len(stack) /\ e.rip \in Places
  <2>1. n \in 1 .. n
    BY <1>2
  <2> QED
    BY <1>2, <2>1, Pointers
<1>4. Framed(stack, e) /\ Len(stack) = f /\ regs = e.regs
  BY <1>1, <1>2 DEF Serving
<1>5. stack[Len(stack)] = [return |-> e.rip] /\ stack[Len(stack) - 3] = [pointer |-> t]
  BY <1>4 DEF Framed
<1>6. rip' = e.rip /\ stack' = SubSeq(stack, 1, t) /\ entries' = SubSeq(entries, 1, n - 1)
      /\ regs' = e.regs /\ idt' = idt /\ masked' = FALSE
  <2>1. /\ rip' = stack[Len(stack)].return
        /\ stack' = SubSeq(stack, 1, stack[Len(stack) - 3].pointer)
        /\ entries' = SubSeq(entries, 1, n - 1) /\ regs' = regs /\ idt' = idt /\ masked' = FALSE
    BY DEF Iretq
  <2>2. stack[Len(stack)].return = e.rip /\ stack[Len(stack) - 3].pointer = t
    BY <1>5
  <2> QED
    BY <1>4, <2>1, <2>2
<1>7. stack' \in Seq(Words) /\ Len(stack') = t /\ \A i \in 1 .. t : stack'[i] = stack[i]
  <2> HIDE DEF t
  <2>1. t \in 0 .. Len(stack)
    BY <1>2, <1>3
  <2> QED
    BY <1>1, <1>6, <2>1, Cutting
<1>8. /\ entries' \in Seq(Entry) /\ Len(entries') = n - 1
      /\ \A k \in 1 .. n - 1 : entries'[k] = entries[k]
  <2>1. n - 1 \in Int /\ 1 <= n /\ (n - 1) - 1 + 1 = n - 1
        /\ \A k \in 1 .. n - 1 : entries[k] \in Entry /\ 1 + k - 1 = k
    BY <1>1, <1>2
  <2> HIDE DEF n
  <2>2. /\ SubSeq(entries, 1, n - 1) \in Seq(Entry)
        /\ Len(SubSeq(entries, 1, n - 1)) = IF 1 <= n - 1 THEN (n - 1) - 1 + 1 ELSE 0
        /\ \A k \in 1 .. (n - 1) - 1 + 1 : SubSeq(entries, 1, n - 1)[k] = entries[1 + k - 1]
    BY <2>1, SubSeqProperties
  <2>3. (IF 1 <= n - 1 THEN (n - 1) - 1 + 1 ELSE 0) = n - 1
    BY <1>2
  <2> QED
    BY <1>6, <2>1, <2>2, <2>3
<1>9. Ranges'
  <2>1. n - 1 <= MaxNesting
    BY <1>1, <1>2, InterruptAssumption
  <2>2. regs' \in [Registers -> Words]
    BY <1>1, <1>4, <1>6
  <2>3. rip' \in Places
    BY <1>3, <1>6
  <2>4. masked' \in BOOLEAN
    BY <1>6
  <2> QED
    BY <1>6, <1>7, <1>8, <2>1, <2>2, <2>3, <2>4 DEF Inv, Ranges
<1>10. ASSUME NEW k \in 0 .. n - 1, NEW r \in Places, NEW g, NEW u \in Nat, u <= t,
              Sound(k, r, g, u)
       PROVE  IF k = 0 THEN r.at = "main" /\ u \in {1, 2}
              ELSE Serving(stack', entries'[k], r, g, u) /\ u <= 1 + 24 * k
  <2>1. k \in 0 .. n /\ \A i \in 1 .. u : stack'[i] = stack[i]
    BY <1>2, <1>3, <1>7, <1>10
  <2>2. k # 0 => entries'[k] = entries[k]
    BY <1>2, <1>8
  <2> QED
    BY <1>10, <2>1, <2>2, OuterKept
<1>11. Sound(Len(entries), rip, regs, Len(stack))'
  <2> DEFINE k == n - 1
             r == e.rip
             g == e.regs
  <2>1. k \in 0 .. n - 1 /\ r \in Places /\ t \in Nat /\ t <= t /\ Sound(k, r, g, t)
    <3>1. n - 1 \in 0 .. Len(entries) - 1 /\ (n - 1) + 1 = n
      BY <1>2
    <3>2. Sound(n - 1, entries[n].rip, entries[n].regs, entries[n].pointer)
      BY <3>1 DEF Inv, StackInv
    <3> QED
      BY <1>2, <1>3, <3>1, <3>2
  <2> HIDE DEF k, r, g, t
  <2>2. IF k = 0 THEN r.at = "main" /\ t \in {1, 2}
        ELSE Serving(stack', entries'[k], r, g, t) /\ t <= 1 + 24 * k
    BY <1>10, <2>1
  <2>3. rip' = r /\ regs' = g /\ Len(stack') = t /\ Len(entries') = k
    BY <1>6, <1>7, <1>8 DEF r, g, k
  <2> QED
    BY <2>2, <2>3 DEF Sound
<1>12. ASSUME NEW k \in 0 .. (n - 1) - 1
       PROVE  Sound(k, entries[k + 1].rip, entries[k + 1].regs, entries[k + 1].pointer)'
  <2> DEFINE r == entries[k + 1].rip
             g == entries[k + 1].regs
             u == entries[k + 1].pointer
  <2>1. k \in 0 .. n - 1 /\ k + 1 \in 1 .. n - 1 /\ k + 1 \in 1 .. n /\ n \in 1 .. n /\ k + 1 <= n
    BY <1>2
  <2>2. entries'[k + 1] = entries[k + 1]
    BY <1>8, <2>1
  <2>3. r \in Places /\ u \in Nat /\ u <= t /\ Sound(k, r, g, u)
    <3>1. LET d == entries[k + 1] IN Sound(k, d.rip, d.regs, d.pointer)
      BY <2>1 DEF Inv, StackInv
    <3>2. entries[k + 1].pointer <= entries[n].pointer
      BY <2>1 DEF Inv, StackInv
    <3> QED
      BY <1>2, <2>1, <3>1, <3>2, Pointers
  <2> HIDE DEF r, g, u, t
  <2>4. IF k = 0 THEN r.at = "main" /\ u \in {1, 2}
        ELSE Serving(stack', entries'[k], r, g, u) /\ u <= 1 + 24 * k
    BY <1>10, <2>1, <2>3
  <2>5. entries'[k + 1].rip = r /\ entries'[k + 1].regs = g /\ entries'[k + 1].pointer = u
    BY <2>2 DEF r, g, u
  <2> QED
    BY <2>4, <2>5 DEF Sound
<1>13. \A j, k \in 1 .. n - 1 : j <= k => entries'[j].pointer <= entries'[k].pointer
  <2>1. \A j \in 1 .. n - 1 : j \in 1 .. n
    BY <1>2
  <2>2. \A j, k \in 1 .. n : j <= k => entries[j].pointer <= entries[k].pointer
    BY DEF Inv, StackInv
  <2> QED
    BY <1>8, <2>1, <2>2
<1>14. StackInv'
  BY <1>8, <1>11, <1>12, <1>13 DEF StackInv
<1> QED
  BY <1>9, <1>14 DEF Inv

-----------------------------------------------------------------------------
(***************************************************************************)
(* The invariant, and what it says where the properties look.              *)
(***************************************************************************)

\* The invariant holds whatever is interrupted where.
THEOREM InterruptsInvariant == Spec => []Inv
<1>1. Init => Inv
  <2> SUFFICES ASSUME Init PROVE Inv
    OBVIOUS
  <2>1. rip \in Places /\ rip.at = "main"
    BY DEF Init, Main, At, Places
  <2>2. regs \in [Registers -> Words]
    <3>1. \A r \in Registers : [kept |-> r] \in Words
      BY DEF Words
    <3> QED
      BY <3>1 DEF Init
  <2>3. stack \in Seq(Words) /\ Len(stack) \in {1, 2}
    <3>1. Number(0) \in Words
      BY DEF Words, Number
    <3> DEFINE w == Number(0)
    <3>2. stack = <<w>> \/ stack = <<w, w>>
      BY DEF Init
    <3> HIDE DEF w
    <3>3. \A u \in Words : /\ <<u>> \in Seq(Words) /\ Len(<<u>>) = 1
                           /\ <<u, u>> \in Seq(Words) /\ Len(<<u, u>>) = 2
      OBVIOUS
    <3> QED
      BY <3>1, <3>2, <3>3 DEF w
  <2>4. entries \in Seq(Entry) /\ Len(entries) = 0
    BY EmptySeq DEF Init
  <2>5. Len(entries) <= MaxNesting /\ masked \in BOOLEAN
    <3>1. MaxNesting \in Nat
      BY InterruptAssumption
    <3>2. Len(entries) <= MaxNesting
      BY <2>4, <3>1
    <3>3. masked \in BOOLEAN
      BY DEF Init
    <3> QED
      BY <3>2, <3>3
  <2>6. Ranges
    BY <2>1, <2>2, <2>3, <2>4, <2>5 DEF Init, Ranges
  <2>7. StackInv
    BY <2>1, <2>3, <2>4 DEF StackInv, Sound
  <2> QED
    BY <2>6, <2>7 DEF Inv
<1>2. Inv /\ [Next]_vars => Inv'
  <2> SUFFICES ASSUME Inv, [Next]_vars PROVE Inv'
    OBVIOUS
  <2>1. CASE Code
    BY <2>1, StubStep, SaveStep, LoadStep, DispatchStep, HandlerStep, RestoreStep, DropStep,
       IretqStep DEF Code
  <2>2. CASE \E v \in Vectors : Interrupt(v)
    BY <2>2, InterruptStep
  <2>3. CASE UNCHANGED vars
    BY <2>3 DEF vars, Inv, Ranges, StackInv, Sound
  <2> QED
    BY <2>1, <2>2, <2>3 DEF Next
<1> QED
  BY <1>1, <1>2, PTL DEF Spec

\* TypeOK: places, registers and nesting in range, at most 24 words for each interrupt.
THEOREM InterruptsTypeCorrect == Spec => []TypeOK
<1>1. Inv => TypeOK
  <2> SUFFICES ASSUME Inv PROVE TypeOK
    OBVIOUS
  <2>1. DOMAIN regs = Registers /\ Len(entries) <= MaxNesting /\ masked \in BOOLEAN
    BY DEF Inv, Ranges
  <2>2. /\ rip.at \in {"main", "stub", "save", "load", "dispatch", "handler", "restore", "drop",
                       "iretq"}
        /\ rip.step \in 0 .. 15 /\ rip.vector \in 0 .. 15
    BY DEF Inv, Ranges, Places
  <2>3. Len(stack) <= 2 \/ Len(stack) <= 1 + 24 * Len(entries)
    <3>1. Sound(Len(entries), rip, regs, Len(stack))
      BY DEF Inv, StackInv
    <3>2. CASE Len(entries) = 0
      <4>1. Len(stack) \in {1, 2}
        BY <3>1, <3>2 DEF Sound
      <4>2. Len(stack) <= 2
        <5> DEFINE t == Len(stack)
        <5>1. t = 1 \/ t = 2
          BY <4>1
        <5> HIDE DEF t
        <5>2. t <= 2
          BY <5>1
        <5> QED
          BY <5>2 DEF t
      <4> QED
        BY <4>2
    <3>3. CASE Len(entries) # 0
      BY <3>1, <3>3 DEF Sound
    <3> QED
      BY <3>2, <3>3
  <2> QED
    BY <2>1, <2>2, <2>3 DEF TypeOK
<1> QED
  BY <1>1, InterruptsInvariant, PTL

\* Transparent: at iretq the registers and the frame are those of what was interrupted.
THEOREM InterruptsAreTransparent == Spec => []Transparent
<1>1. Inv => Transparent
  <2> SUFFICES ASSUME Inv, rip.at = "iretq"
               PROVE  regs = Current.regs /\ ReturnsTo(Current, Len(stack))
    BY DEF Transparent
  <2>1. Serving(stack, Current, rip, regs, Len(stack))
    BY Innermost
  <2> QED
    BY <2>1 DEF Serving, Framed, ReturnsTo
<1> QED
  BY <1>1, InterruptsInvariant, PTL

\* CallAligned: every handler is called with an odd number of words on the stack.
THEOREM CallsAreAligned == Spec => []CallAligned
<1>1. Inv => CallAligned
  <2> SUFFICES ASSUME Inv, rip.at = "handler" PROVE Len(stack) % 2 = 1
    BY DEF CallAligned
  <2> DEFINE f == FrameTop(Current)
  <2>1. f \in Nat /\ f % 2 = 1 /\ Serving(stack, Current, rip, regs, Len(stack))
    BY Innermost
  <2>2. Len(stack) = f + 18
    BY <2>1 DEF Serving
  <2> HIDE DEF f
  <2> QED
    BY <2>1, <2>2
<1> QED
  BY <1>1, InterruptsInvariant, PTL

\* ServedBeforeReturn: no interrupt returns before its handler has run.
THEOREM EveryInterruptIsServed == Spec => []ServedBeforeReturn
<1>1. Inv => ServedBeforeReturn
  <2> SUFFICES ASSUME Inv, rip.at = "iretq" PROVE Current.served
    BY DEF ServedBeforeReturn
  <2>1. Serving(stack, Current, rip, regs, Len(stack))
    BY Innermost
  <2> QED
    BY <2>1 DEF Serving
<1> QED
  BY <1>1, InterruptsInvariant, PTL

\* ContextIsRight: struct irq_context shows the interrupted registers, vector and error code.
THEOREM ContextIsTrue == Spec => []ContextIsRight
<1>1. Inv => ContextIsRight
  <2> SUFFICES ASSUME Inv, rip.at = "handler"
               PROVE  /\ rip.vector = Current.vector
                      /\ \A i \in 1 .. 17 :
                           stack[regs["rdi"].pointer - i + 1] = Shown(Current)[Members[i]]
    BY DEF ContextIsRight
  <2> DEFINE e == Current
             f == FrameTop(e)
             t == Len(stack)
  <2>1. /\ t = f + 18 /\ Saved(stack, e, 15) /\ rip.vector = e.vector
        /\ regs["rdi"] = [pointer |-> t - 1] /\ f \in Nat /\ t \in Nat
    BY Innermost DEF Serving
  <2>2. regs["rdi"].pointer = f + 17
    BY <2>1
  <2>3. ASSUME NEW i \in 1 .. 17
        PROVE  stack[regs["rdi"].pointer - i + 1] = Shown(e)[Members[i]]
    <3>1. Shown(e)[Members[i]] = CASE Members[i] = "irq_number" -> Number(e.vector)
                                   [] Members[i] = "error_code" -> ErrorCode(e.vector)
                                   [] OTHER -> e.regs[Members[i]]
      BY DEF Shown
    <3>2. CASE i \in 1 .. 15
      <4>1. Members[i] = PushOrder[16 - i] /\ Members[i] \in Registers
        BY <3>2, Orders
      <4>2. Members[i] # "irq_number" /\ Members[i] # "error_code"
        BY <4>1, Orders
      <4>3. Shown(e)[Members[i]] = e.regs[Members[i]]
        BY <3>1, <4>2
      <4>4. 16 - i \in 1 .. 15 /\ (f + 17) - i + 1 = f + 2 + (16 - i)
        <5>1. f \in Nat
          BY <2>1
        <5> HIDE DEF f
        <5> QED
          BY <3>2, <5>1
      <4>5. stack[f + 2 + (16 - i)] = e.regs[PushOrder[16 - i]]
        BY <2>1, <4>4 DEF Saved
      <4> QED
        BY <2>2, <4>1, <4>3, <4>4, <4>5
    <3>3. CASE i = 16
      <4>1. Members[i] = "irq_number"
        BY <3>3, Orders
      <4>2. (f + 17) - i + 1 = f + 2
        <5>1. f \in Nat
          BY <2>1
        <5> HIDE DEF f
        <5> QED
          BY <3>3, <5>1
      <4> QED
        BY <2>1, <2>2, <3>1, <4>1, <4>2 DEF Saved
    <3>4. CASE i = 17
      <4>1. Members[i] = "error_code" /\ Members[i] # "irq_number"
        BY <3>4, Orders
      <4>2. (f + 17) - i + 1 = f + 1
        <5>1. f \in Nat
          BY <2>1
        <5> HIDE DEF f
        <5> QED
          BY <3>4, <5>1
      <4> QED
        BY <2>1, <2>2, <3>1, <4>1, <4>2 DEF Saved
    <3> QED
      BY <3>2, <3>3, <3>4
  <2> QED
    BY <2>1, <2>3
<1> QED
  BY <1>1, InterruptsInvariant, PTL
=============================================================================
