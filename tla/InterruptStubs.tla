--------------------------- MODULE InterruptStubs ---------------------------
(***************************************************************************)
(* The interrupt entry code of the kernel (interrupts.S, idt.c and         *)
(* irq_handlers.c), one instruction a step, interrupted again wherever the *)
(* processor may: exceptions and the non-maskable interrupt come although  *)
(* maskable interrupts are off.  A stack is a sequence of 64-bit words,    *)
(* its top last, so the stack pointer is its length.  A word is a record   *)
(* whose field says what it holds.  Definitions marked "faulty" are slips  *)
(* the checked properties must notice.                                     *)
(*                                                                         *)
(* The kernel loads no segment table of its own (there is no lgdt), so the *)
(* selector 0x08 of its gates is looked up in the one the firmware left.   *)
(* An interrupt is delivered only if that is a 64-bit code segment there;  *)
(* if it is not, the processor resets, and nothing below is said of that.  *)
(***************************************************************************)
EXTENDS Integers, Sequences

CONSTANTS
  Vectors,     \* the vectors that occur
  StubAt,      \* the address of irq0 to irq15
  Half,        \* 2^16, what the two lower parts of an address hold
  CodeSelectors, \* the 64-bit code segments of the firmware's segment table
  MaxNesting   \* bound: interrupts at a time

ASSUME InterruptAssumption ==
  /\ Vectors \subseteq 0 .. 15
  /\ Half \in Nat \ {0} /\ MaxNesting \in Nat \ {0}
  /\ StubAt \in [0 .. 15 -> 0 .. Half * Half * Half * Half - 1]
  /\ \A v, w \in 0 .. 15 : StubAt[v] = StubAt[w] => v = w

\* The order in which irq_common pushes, the one in which it pops, and the
\* members of struct irq_context.
PushOrder ==
  <<"rax", "rbx", "rcx", "rdx", "rsi", "rdi", "rbp", "r8", "r9", "r10", "r11",
    "r12", "r13", "r14", "r15">>
SwappedPushes == \* faulty
  <<"rax", "rbx", "rdx", "rcx", "rsi", "rdi", "rbp", "r8", "r9", "r10", "r11",
    "r12", "r13", "r14", "r15">>
Pushed == PushOrder

PopOrder ==
  <<"r15", "r14", "r13", "r12", "r11", "r10", "r9", "r8", "rbp", "rdi", "rsi",
    "rdx", "rcx", "rbx", "rax">>
Popped == PopOrder

Members ==
  <<"r15", "r14", "r13", "r12", "r11", "r10", "r9", "r8", "rbp", "rdi", "rsi",
    "rdx", "rcx", "rbx", "rax", "irq_number", "error_code">>

Registers == {PushOrder[i] : i \in 1 .. 15}
CallerSaved == {"rax", "rcx", "rdx", "rsi", "rdi", "r8", "r9", "r10", "r11"}

VARIABLES
  rip,      \* the next instruction: [at, step, vector]
  regs,     \* the general registers without rsp
  stack,    \* the words on the kernel's stack
  idt,      \* the gates idt_init() has set
  masked,   \* the processor holds back non-maskable interrupts
  entries   \* history: the interrupts being served, the innermost last

vars == <<rip, regs, stack, idt, masked, entries>>

Number(n) == [number |-> n]
At(place, step, vector) == [at |-> place, step |-> step, vector |-> vector]
Main == At("main", 0, 0)

-----------------------------------------------------------------------------
(***************************************************************************)
(* A gate holds an address in three parts, which idt_set_gate() cuts and   *)
(* the processor puts together, a code segment and what kind of gate it is.*)
(***************************************************************************)
idt_set_gate(handler, selector, flags) ==
  [low  |-> handler % Half,
   mid  |-> (handler \div Half) % Half,
   high |-> (handler \div (Half * Half)) % (Half * Half),
   selector |-> selector, ist |-> 0, type_attr |-> flags]

Target(gate) == gate.low + Half * gate.mid + Half * Half * gate.high

\* What idt_init() sets for a vector: selector 0x08, type_attr 0x8E.
Gate(v) == idt_set_gate(StubAt[v], 8, 142)

\* The gate is present, an interrupt gate, and keeps to the current stack.
Delivers(gate) ==
  /\ gate.selector \in CodeSelectors
  /\ gate.type_attr \div 128 = 1 /\ gate.type_attr % 16 = 14
  /\ gate.ist = 0

\* The kernel halts in kernel_startup() with a stack of either parity.
Init ==
  /\ rip = Main
  /\ regs = [r \in Registers |-> [kept |-> r]]
  /\ stack \in {<<Number(0)>>, <<Number(0), Number(0)>>}
  /\ idt = [v \in 0 .. 15 |-> Gate(v)]
  /\ masked = FALSE
  /\ entries = <<>>

-----------------------------------------------------------------------------
(***************************************************************************)
(* The processor: it aligns the stack, pushes a frame, for some exceptions *)
(* an error code, and takes the gate.                                      *)
(***************************************************************************)
NMI == 2
WithErrorCode == {8, 10, 11, 12, 13, 14}
ErrorCode(v) == IF v \in WithErrorCode THEN [error |-> v] ELSE Number(0)

Padding == IF Len(stack) % 2 = 1 THEN <<[pad |-> 0]>> ELSE <<>>
Frame == <<[segment |-> "ss"], [pointer |-> Len(stack)], [flags |-> "off"],
           [segment |-> "cs"], [return |-> rip]>>

Interrupt(v) ==
  /\ Len(entries) < MaxNesting /\ Delivers(idt[v])
  /\ v = NMI => ~ masked
  /\ stack' = stack \o Padding \o Frame
                \o (IF v \in WithErrorCode THEN <<ErrorCode(v)>> ELSE <<>>)
  /\ rip' = At("stub", 1, CHOOSE w \in 0 .. 15 : StubAt[w] = Target(idt[v]))
  /\ masked' = (masked \/ v = NMI)
  /\ entries' = Append(entries,
       [vector |-> v, rip |-> rip, regs |-> regs, pointer |-> Len(stack), served |-> FALSE])
  /\ UNCHANGED <<regs, idt>>

-----------------------------------------------------------------------------
(***************************************************************************)
(* The stubs irq0 to irq15: a dummy for the error code where the processor *)
(* pushes none, the number, and on to irq_common.                          *)
(***************************************************************************)
AlwaysDummy(v) == <<Number(0), Number(v)>> \* faulty
NeverDummy(v) == <<Number(v)>> \* faulty
StubPushes(v) == IF v \in {8, 10, 11, 12, 13, 14} THEN <<Number(v)>> ELSE <<Number(0), Number(v)>>

Stub ==
  LET words == StubPushes(rip.vector) IN
  /\ rip.at = "stub"
  /\ stack' = Append(stack, words[rip.step])
  /\ rip' = IF rip.step < Len(words) THEN [rip EXCEPT !.step = @ + 1] ELSE At("save", 1, 0)
  /\ UNCHANGED <<regs, idt, masked, entries>>

Save ==
  /\ rip.at = "save"
  /\ stack' = Append(stack, regs[Pushed[rip.step]])
  /\ rip' = IF rip.step < 15 THEN [rip EXCEPT !.step = @ + 1] ELSE At("load", 0, 0)
  /\ UNCHANGED <<regs, idt, masked, entries>>

\* movq 120(%rsp), %rax
VectorWord == stack[Len(stack) - 15]

Load ==
  /\ rip.at = "load"
  /\ regs' = [regs EXCEPT !["rax"] = VectorWord]
  /\ rip' = At("dispatch", 0, 0)
  /\ UNCHANGED <<stack, idt, masked, entries>>

\* The comparisons: a number none of them knows goes straight to .done.
FirstFifteen == 0 .. 14 \* faulty
Known == 0 .. 15

Dispatch ==
  /\ rip.at = "dispatch"
  /\ IF \E v \in Known : regs["rax"] = Number(v)
       THEN /\ rip' = At("handler", 0, CHOOSE v \in Known : regs["rax"] = Number(v))
            /\ regs' = [regs EXCEPT !["rdi"] = [pointer |-> Len(stack)]]
            /\ stack' = Append(stack, [return |-> At("restore", 1, 0)])
       ELSE /\ rip' = At("restore", 1, 0)
            /\ UNCHANGED <<regs, stack>>
  /\ UNCHANGED <<idt, masked, entries>>

\* irq0_handler() to irq15_handler() do nothing but may use what a call may.
Handler ==
  /\ rip.at = "handler"
  /\ rip' = stack[Len(stack)].return
  /\ stack' = SubSeq(stack, 1, Len(stack) - 1)
  /\ \E used \in {{}, CallerSaved} :
       regs' = [r \in Registers |-> IF r \in used THEN [spoilt |-> r] ELSE regs[r]]
  /\ entries' = [entries EXCEPT ![Len(entries)].served = TRUE]
  /\ UNCHANGED <<idt, masked>>

Restore ==
  /\ rip.at = "restore"
  /\ regs' = [regs EXCEPT ![Popped[rip.step]] = stack[Len(stack)]]
  /\ stack' = SubSeq(stack, 1, Len(stack) - 1)
  /\ rip' = IF rip.step < 15 THEN [rip EXCEPT !.step = @ + 1] ELSE At("drop", 0, 0)
  /\ UNCHANGED <<idt, masked, entries>>

\* addq $16, %rsp
DropNumberOnly == SubSeq(stack, 1, Len(stack) - 1) \* faulty
DropTwo == SubSeq(stack, 1, Len(stack) - 2)

Drop ==
  /\ rip.at = "drop"
  /\ stack' = DropTwo
  /\ rip' = At("iretq", 0, 0)
  /\ UNCHANGED <<regs, idt, masked, entries>>

Iretq ==
  /\ rip.at = "iretq"
  /\ rip' = stack[Len(stack)].return
  /\ stack' = SubSeq(stack, 1, stack[Len(stack) - 3].pointer)
  /\ masked' = FALSE
  /\ entries' = SubSeq(entries, 1, Len(entries) - 1)
  /\ UNCHANGED <<regs, idt>>

Code == Stub \/ Save \/ Load \/ Dispatch \/ Handler \/ Restore \/ Drop \/ Iretq
Next == Code \/ \E v \in Vectors : Interrupt(v)
Spec == Init /\ [][Next]_vars

-----------------------------------------------------------------------------
Current == entries[Len(entries)]
ReturnsTo(e, top) ==
  /\ stack[top] = [return |-> e.rip]
  /\ stack[top - 3] = [pointer |-> e.pointer]

(***************************************************************************)
(* Ranges; and the stack stays within what the nesting allows: for each    *)
(* interrupt a word of padding, five of frame, error code, number, 15      *)
(* registers and a return address, on what the halted kernel has there.    *)
(***************************************************************************)
TypeOK ==
  /\ rip.at \in {"main", "stub", "save", "load", "dispatch", "handler", "restore", "drop", "iretq"}
  /\ rip.step \in 0 .. 15 /\ rip.vector \in 0 .. 15
  /\ DOMAIN regs = Registers
  /\ Len(entries) <= MaxNesting /\ masked \in BOOLEAN
  /\ Len(stack) <= 2 \/ Len(stack) <= 1 + 24 * Len(entries)

(***************************************************************************)
(* What is interrupted does not notice: at iretq every register is as it   *)
(* was and the frame on top is the processor's own, however deep the       *)
(* interrupts are nested and whichever of them had an error code.          *)
(***************************************************************************)
Transparent ==
  rip.at = "iretq" => regs = Current.regs /\ ReturnsTo(Current, Len(stack))

(***************************************************************************)
(* The stack is aligned to 16 bytes at every call, as compiled code may    *)
(* expect: with the return address an odd number of words is on it.        *)
(***************************************************************************)
CallAligned == rip.at = "handler" => Len(stack) % 2 = 1

(***************************************************************************)
(* The handler is the one of the vector that occurred, and struct          *)
(* irq_context, laid over the words at rdi, shows the interrupted          *)
(* registers, the vector and the error code under their names.             *)
(***************************************************************************)
Shown(e) ==
  [name \in {Members[i] : i \in 1 .. 17} |->
     CASE name = "irq_number" -> Number(e.vector)
       [] name = "error_code" -> ErrorCode(e.vector)
       [] OTHER -> e.regs[name]]

ContextIsRight ==
  rip.at = "handler" =>
    /\ rip.vector = Current.vector
    /\ \A i \in 1 .. 17 : stack[regs["rdi"].pointer - i + 1] = Shown(Current)[Members[i]]

(***************************************************************************)
(* No interrupt returns before its handler has run.                        *)
(***************************************************************************)
ServedBeforeReturn == rip.at = "iretq" => Current.served
=============================================================================
