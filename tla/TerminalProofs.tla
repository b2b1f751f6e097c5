--------------------------- MODULE TerminalProofs ---------------------------
(***************************************************************************)
(* What holds of the terminal for every boot batch, script, line and user. *)
(***************************************************************************)
EXTENDS TerminalRefinement, SequenceFacts, TLAPS

(***************************************************************************)
(* The echo is off for a password prompt and otherwise as the user last    *)
(* left it.  Outside the prompts this must hold as well: a command between *)
(* two prompts does not touch it.                                          *)
(***************************************************************************)
Secret == {"login_password", "old_password", "new_password"}

EchoInv ==
  /\ pc \in Secret => ~ echo
  /\ pc \notin Secret => echo \/ muted

LEMMA EchoInit == Init => EchoInv
BY DEF Init, EchoInv, Secret

\* The runners neither prompt nor touch the echo.
LEMMA RunnerKeepsEcho == EchoInv /\ Runner => EchoInv'
<1> SUFFICES ASSUME EchoInv, Runner PROVE EchoInv'
    OBVIOUS
<1> USE DEF EchoInv, Secret, settings, history
<1>1. CASE NextLine
  BY <1>1 DEF NextLine, Running
<1>2. CASE NextCommand
  BY <1>2 DEF NextCommand, Running
<1>3. CASE Return
  BY <1>3 DEF Return, Running
<1> QED BY <1>1, <1>2, <1>3 DEF Runner

\* A command leaves the echo on, or off by "@echo", or asks for a password.
LEMMA CommandKeepsEcho == EchoInv /\ Command => EchoInv'
<1> SUFFICES ASSUME EchoInv, Command PROVE EchoInv'
    OBVIOUS
<1> USE DEF EchoInv, Secret, settings, Executes
<1>1. CASE Plain
  BY <1>1 DEF Plain
<1>2. CASE Exit
  BY <1>2 DEF Exit
<1>3. CASE SetEcho
  BY <1>3 DEF SetEcho
<1>4. CASE SetMode
  BY <1>4 DEF SetMode
<1>5. CASE ChangeDrive
  BY <1>5 DEF ChangeDrive
<1>6. CASE Source
  BY <1>6 DEF Source
<1>7. CASE Login
  BY <1>7 DEF Login
<1>8. CASE Passwd
  BY <1>8 DEF Passwd, HideInput
<1>9. CASE Nano
  BY <1>9 DEF Nano
<1> QED BY <1>1, <1>2, <1>3, <1>4, <1>5, <1>6, <1>7, <1>8, <1>9 DEF Command

\* After an answer the echo is back on, unless it is asked for again.
LEMMA UserKeepsEcho == EchoInv /\ User => EchoInv'
<1> SUFFICES ASSUME EchoInv, User PROVE EchoInv'
    OBVIOUS
<1> USE DEF EchoInv, Secret, GoOn
<1>1. CASE TypeLine
  BY <1>1 DEF TypeLine, settings
<1>2. CASE TypeName
  BY <1>2 DEF TypeName, HideInput
<1>3. CASE TypePassword
  BY <1>3 DEF TypePassword, ShowInput, Rejected
<1>4. CASE TypeOldPassword
  BY <1>4 DEF TypeOldPassword, HideInput
<1>5. CASE TypeNewPassword
  BY <1>5 DEF TypeNewPassword, ShowInput
<1>6. CASE TypeText
  BY <1>6 DEF TypeText
<1>7. CASE LeaveNano
  BY <1>7 DEF LeaveNano
<1> QED BY <1>1, <1>2, <1>3, <1>4, <1>5, <1>6, <1>7 DEF User

LEMMA EchoNext == EchoInv /\ [Next]_vars => EchoInv'
<1>1. EchoInv /\ UNCHANGED vars => EchoInv'
  BY DEF EchoInv, vars, settings, history
<1> QED BY <1>1, RunnerKeepsEcho, CommandKeepsEcho, UserKeepsEcho DEF Next

LEMMA EchoAlways == Spec => []EchoInv
BY EchoInit, EchoNext, PTL DEF Spec

(***************************************************************************)
(* PasswordHidden: whatever scripts and lines led to the prompt, and       *)
(* whatever they did to the echo, no password is shown as it is typed.     *)
(***************************************************************************)
THEOREM PasswordsAreHidden == Spec => []PasswordHidden
<1>1. EchoInv => PasswordHidden
  BY DEF EchoInv, Secret, PasswordHidden
<1> QED BY <1>1, EchoAlways, PTL

(***************************************************************************)
(* NotLeftBlind: no login or passwd, at whatever depth, leaves the echo    *)
(* off; only "@echo off" does.                                             *)
(***************************************************************************)
THEOREM EchoIsRestored == Spec => []NotLeftBlind
<1>1. EchoInv => NotLeftBlind
  BY DEF EchoInv, Secret, NotLeftBlind
<1> QED BY <1>1, EchoAlways, PTL

-----------------------------------------------------------------------------
(***************************************************************************)
(* The call stack: frames that hold commands or lines of commands.         *)
(***************************************************************************)
Frame ==
  [kind : {"batch", "script"}, rest : Seq(Seq(CommandSet))]
    \cup [kind : {"line"}, rest : Seq(CommandSet)]

\* Putting a frame on the stack, taking it off, and exchanging it.
LEMMA StackOps ==
  ASSUME NEW s \in Seq(Frame), NEW f \in Frame
  PROVE  /\ <<f>> \o s \in Seq(Frame) /\ Len(<<f>> \o s) = Len(s) + 1
         /\ <<f>> \o s # <<>> /\ (<<f>> \o s)[1] = f /\ Head(<<f>> \o s) = f
         /\ \A i \in 1 .. Len(s) : (<<f>> \o s)[i + 1] = s[i]
         /\ s # <<>> => /\ Head(s) \in Frame /\ Head(s) = s[1]
                        /\ Tail(s) \in Seq(Frame) /\ Len(Tail(s)) = Len(s) - 1
                        /\ \A i \in 1 .. Len(s) - 1 : Tail(s)[i] = s[i + 1]
<1>1. <<f>> \in Seq(Frame) /\ Len(<<f>>) = 1 /\ <<f>>[1] = f
  OBVIOUS
<1>2. /\ <<f>> \o s \in Seq(Frame) /\ Len(<<f>> \o s) = 1 + Len(s)
      /\ \A i \in 1 .. 1 + Len(s) : (<<f>> \o s)[i] = IF i <= 1 THEN <<f>>[i] ELSE s[i - 1]
  BY <1>1, ConcatProperties
<1>3. s # <<>> => /\ Head(s) \in Frame /\ Head(s) = s[1]
                  /\ Tail(s) \in Seq(Frame) /\ Len(Tail(s)) = Len(s) - 1
                  /\ \A i \in 1 .. Len(s) - 1 : Tail(s)[i] = s[i + 1]
  BY HeadTailProperties
<1>4. (<<f>> \o s)[1] = f /\ <<f>> \o s # <<>> /\ Head(<<f>> \o s) = f
  BY <1>1, <1>2
<1>5. \A i \in 1 .. Len(s) : (<<f>> \o s)[i + 1] = s[i]
  BY <1>2
<1> QED
  BY <1>2, <1>3, <1>4, <1>5

\* Two frames at once are one after the other.
LEMMA PushTwo ==
  ASSUME NEW s \in Seq(Frame), NEW f \in Frame, NEW g \in Frame
  PROVE  <<f, g>> \o s = <<f>> \o (<<g>> \o s)
<1>1. <<f>> \in Seq(Frame) /\ <<g>> \in Seq(Frame) /\ <<f, g>> \in Seq(Frame)
  OBVIOUS
<1>2. Len(<<f>> \o <<g>>) = 2 /\ (<<f>> \o <<g>>)[1] = f /\ (<<f>> \o <<g>>)[2] = g
        /\ <<f>> \o <<g>> \in Seq(Frame)
  BY <1>1, ConcatProperties
<1>3. <<f, g>> = <<f>> \o <<g>>
  <2> DEFINE s1 == <<f, g>>
             s2 == <<f>> \o <<g>>
  <2>1. s1 \in Seq(Frame) /\ Len(s1) = 2 /\ s1[1] = f /\ s1[2] = g
    BY <1>1
  <2>2. s2 \in Seq(Frame) /\ Len(s2) = 2 /\ s2[1] = f /\ s2[2] = g
    BY <1>2
  <2> HIDE DEF s1, s2
  <2>3. \A i \in 1 .. Len(s1) : s1[i] = s2[i]
    BY <2>1, <2>2
  <2>4. s1 = s2
    BY <2>1, <2>2, <2>3, SeqEqual
  <2> QED
    BY <2>4 DEF s1, s2
<1> QED
  BY <1>1, <1>3, ConcatAssociative

\* What a frame that has something left gives up, and what stays.
LEMMA FrameOps ==
  ASSUME NEW f \in Frame, f.rest # <<>>
  PROVE  /\ [f EXCEPT !.rest = Tail(@)] \in Frame
         /\ f.kind = "line" => Head(f.rest) \in CommandSet
         /\ f.kind # "line" => Line(Head(f.rest)) \in Frame
<1>1. CASE f.kind = "line"
  <2>1. f \in [kind : {"line"}, rest : Seq(CommandSet)]
    BY <1>1 DEF Frame
  <2>2. Tail(f.rest) \in Seq(CommandSet) /\ Head(f.rest) \in CommandSet
    BY <2>1, HeadTailProperties
  <2> QED
    BY <1>1, <2>1, <2>2 DEF Frame
<1>2. CASE f.kind # "line"
  <2>1. f \in [kind : {"batch", "script"}, rest : Seq(Seq(CommandSet))]
    BY <1>2 DEF Frame
  <2>2. Tail(f.rest) \in Seq(Seq(CommandSet)) /\ Head(f.rest) \in Seq(CommandSet)
    BY <2>1, HeadTailProperties
  <2> QED
    BY <1>2, <2>1, <2>2 DEF Frame, Line
<1> QED
  BY <1>1, <1>2

(***************************************************************************)
(* TypeOK is inductive together with the shape of the stack: a frame that  *)
(* is not a line has room for one more above it, because "source" looks at *)
(* the depth before it pushes and a line is pushed without a look.         *)
(***************************************************************************)
StackInv ==
  /\ stack \in Seq(Frame)
  /\ stack # <<>> /\ Head(stack).kind # "line" => Len(stack) <= MaxDepth
  /\ pc = "exec" => buffer \in CommandSet

\* A stack of frames has kinds of frames.
LEMMA StackKinds ==
  ASSUME NEW s \in Seq(Frame)
  PROVE  \A i \in DOMAIN s : s[i].kind \in {"batch", "script", "line"}
<1>1. \A i \in DOMAIN s : s[i] \in Frame
  OBVIOUS
<1> QED
  BY <1>1 DEF Frame

LEMMA StackInit == Init => TypeOK /\ StackInv
<1> SUFFICES ASSUME Init PROVE TypeOK /\ StackInv
  OBVIOUS
<1>1. Batch(Autoexec) \in Frame
  BY TerminalAssumption DEF Batch, Frame
<1>2. stack \in Seq(Frame) /\ Len(stack) = 1 /\ stack[1] = Batch(Autoexec)
  BY <1>1 DEF Init
<1>3. \A i \in DOMAIN stack : stack[i].kind \in {"batch", "script", "line"}
  BY <1>2, StackKinds
<1>4. typed \in [name : Users \cup {"nobody"}, count : 0 .. MaxEditorLines]
  BY TerminalAssumption DEF Init, NoInput
<1>5. Len(stack) <= MaxDepth + 1 /\ Len(stack) <= MaxDepth
  BY <1>2, TerminalAssumption
<1>6. TypeOK
  BY <1>3, <1>4, <1>5, TerminalAssumption DEF Init, TypeOK, Served
<1> QED
  BY <1>2, <1>5, <1>6 DEF Init, StackInv

LEMMA RunnerKeepsStack == TypeOK /\ StackInv /\ Runner => TypeOK' /\ StackInv'
<1> SUFFICES ASSUME TypeOK, StackInv, Runner PROVE TypeOK' /\ StackInv'
  OBVIOUS
<1>1. stack # <<>> /\ Top \in Frame /\ Below \in Seq(Frame) /\ Len(Below) = Len(stack) - 1
        /\ (Top.kind # "line" => Len(stack) <= MaxDepth) /\ Len(stack) <= MaxDepth + 1
        /\ Len(stack) \in Nat /\ MaxDepth \in Nat
  BY StackOps, TerminalAssumption
     DEF Runner, NextLine, NextCommand, Return, Running, StackInv, TypeOK, Top, Below
<1> DEFINE rest == [Top EXCEPT !.rest = Tail(@)]
<1>2. CASE NextLine
  <2>1. rest \in Frame /\ Line(Head(Top.rest)) \in Frame
    BY <1>1, <1>2, FrameOps DEF NextLine
  <2>2. stack' = <<Line(Head(Top.rest))>> \o (<<rest>> \o Below)
    <3>1. stack' = <<Line(Head(Top.rest)), rest>> \o Below
      BY <1>2 DEF NextLine, Advance
    <3> HIDE DEF rest
    <3> QED
      BY <1>1, <2>1, <3>1, PushTwo
  <2>3. stack' \in Seq(Frame) /\ Len(stack') = Len(stack) + 1 /\ Head(stack').kind = "line"
    <3> HIDE DEF rest
    <3>1. <<rest>> \o Below \in Seq(Frame) /\ Len(<<rest>> \o Below) = Len(stack)
      BY <1>1, <2>1, StackOps
    <3>2. Line(Head(Top.rest)).kind = "line"
      BY DEF Line
    <3> QED
      BY <1>1, <2>1, <2>2, <3>1, <3>2, StackOps
  <2>4. Len(stack') <= MaxDepth + 1
    BY <1>1, <1>2, <2>3 DEF NextLine
  <2> QED
    BY <1>2, <2>3, <2>4, StackKinds DEF NextLine, Running, TypeOK, StackInv, settings, history
<1>3. CASE NextCommand
  <2>1. rest \in Frame /\ Head(Top.rest) \in CommandSet /\ rest.kind = "line"
    BY <1>1, <1>3, FrameOps DEF NextCommand, Frame
  <2>2. stack' = <<rest>> \o Below
    BY <1>3 DEF NextCommand
  <2>3. stack' \in Seq(Frame) /\ Len(stack') = Len(stack) /\ Head(stack').kind = "line"
    <3> HIDE DEF rest
    <3> QED
      BY <1>1, <2>1, <2>2, StackOps
  <2> QED
    BY <1>1, <1>3, <2>1, <2>3, StackKinds
       DEF NextCommand, Parsed, TypeOK, StackInv, settings, history
<1>4. CASE Return
  <2>1. Below # <<>> => Len(Below) <= MaxDepth
    BY <1>1
  <2>2. stack' = Below /\ \A i \in DOMAIN Below : Below[i].kind \in {"batch", "script", "line"}
    BY <1>1, <1>4, StackKinds DEF Return
  <2>3. Returned \in BOOLEAN
    BY DEF Returned, TypeOK
  <2>4. pc' \in {"run", "login_name", "done", "prompt"} /\ result' \in BOOLEAN
          /\ UNCHANGED <<mode, echo, drive, path, session, typed, muted>>
    BY <1>4, <2>3 DEF Return, settings, history
  <2>5. Len(Below) <= MaxDepth + 1
    BY <1>1
  <2> QED
    BY <1>1, <2>1, <2>2, <2>4, <2>5 DEF TypeOK, StackInv, Waiting
<1> QED
  BY <1>2, <1>3, <1>4 DEF Runner

LEMMA CommandKeepsStack == TypeOK /\ StackInv /\ Command => TypeOK' /\ StackInv'
<1> SUFFICES ASSUME TypeOK, StackInv, Command PROVE TypeOK' /\ StackInv'
  OBVIOUS
<1> USE TerminalAssumption
<1>1. buffer \in CommandSet
  BY DEF StackInv, Command, Plain, Exit, SetEcho, SetMode, ChangeDrive, Source, Login, Passwd,
         Nano, Executes
<1>2. CASE Plain \/ Exit \/ SetEcho
  BY <1>2 DEF Plain, Exit, SetEcho, Executes, TypeOK, StackInv, settings
<1>3. CASE SetMode
  <2>1. buffer.arg \in {"batch", "bash"}
    BY <1>1, <1>3 DEF SetMode, Executes, CommandSet
  <2> QED
    BY <1>3, <2>1 DEF SetMode, Executes, TypeOK, StackInv, settings
<1>4. CASE ChangeDrive
  <2>1. buffer.arg \in Drives
    BY <1>1, <1>4 DEF ChangeDrive, Executes, CommandSet
  <2> QED
    BY <1>4, <2>1 DEF ChangeDrive, SetDrive, Executes, TypeOK, StackInv, settings
<1>5. CASE Source
  <2>1. CASE UNCHANGED stack
    BY <1>5, <2>1 DEF Source, Executes, TypeOK, StackInv, settings
  <2>2. CASE buffer.arg \in DOMAIN Scripts /\ Len(stack) < MaxDepth
               /\ stack' = <<Script(Scripts[buffer.arg])>> \o stack /\ pc' = "run"
    <3>1. Script(Scripts[buffer.arg]) \in Frame
      BY <2>2 DEF Script, Frame
    <3>2. stack' \in Seq(Frame) /\ Len(stack') = Len(stack) + 1
      BY <2>2, <3>1, StackOps DEF StackInv
    <3>3. Len(stack') <= MaxDepth
      BY <2>2, <3>2 DEF StackInv
    <3> QED
      <4>1. \A i \in DOMAIN stack' : stack'[i].kind \in {"batch", "script", "line"}
        BY <3>2, StackKinds
      <4>2. Len(stack') <= MaxDepth + 1
        BY <3>2, <3>3
      <4>3. result' \in BOOLEAN /\ pc' = "run"
              /\ UNCHANGED <<mode, echo, drive, path, session, typed, muted>>
        BY <1>5, <2>2 DEF Source, Executes, settings
      <4> QED
        BY <3>2, <3>3, <4>1, <4>2, <4>3 DEF TypeOK, StackInv
  <2> QED
    BY <1>5, <2>1, <2>2 DEF Source
<1>6. CASE Login
  BY <1>6 DEF Login, Executes, TypeOK, StackInv, settings, Waiting
<1>7. CASE Passwd
  BY <1>7 DEF Passwd, HideInput, Executes, TypeOK, StackInv, settings, Waiting
<1>8. CASE Nano
  <2>1. typed' \in [name : Users \cup {"nobody"}, count : 0 .. MaxEditorLines]
    BY <1>8 DEF Nano, NoInput
  <2> QED
    BY <1>8, <2>1 DEF Nano, Executes, TypeOK, StackInv, settings, Waiting
<1> QED
  BY <1>2, <1>3, <1>4, <1>5, <1>6, <1>7, <1>8 DEF Command

LEMMA UserKeepsStack == TypeOK /\ StackInv /\ User => TypeOK' /\ StackInv'
<1> SUFFICES ASSUME TypeOK, StackInv, User PROVE TypeOK' /\ StackInv'
  OBVIOUS
<1> USE DEF Prompts, Waiting
<1>0. NoInput \in [name : Users \cup {"nobody"}, count : 0 .. MaxEditorLines]
  BY TerminalAssumption DEF NoInput
<1>1. CASE TypeLine
  <2>1. PICK l \in Lines : stack' = <<Line(l)>>
    BY <1>1 DEF TypeLine
  <2>2. Line(l) \in Frame /\ Line(l).kind = "line"
    BY TerminalAssumption DEF Line, Frame
  <2>3. stack' \in Seq(Frame) /\ Len(stack') = 1 /\ Head(stack').kind = "line"
    BY <2>1, <2>2
  <2>4. \A i \in DOMAIN stack' : stack'[i].kind \in {"batch", "script", "line"}
    BY <2>3, StackKinds
  <2>5. Len(stack') <= MaxDepth + 1
    BY <2>3, TerminalAssumption
  <2> QED
    BY <1>1, <2>3, <2>4, <2>5 DEF TypeLine, TypeOK, StackInv, settings
<1>2. CASE TypeName
  BY <1>2 DEF TypeName, HideInput, TypeOK, StackInv
<1>3. CASE TypePassword
  <2>1. session' \in Users \cup {"nobody"} /\ pc' \in {"run", "prompt", "login_name"}
    BY <1>3 DEF TypePassword, GoOn, Rejected, TypeOK
  <2> QED
    BY <1>0, <1>3, <2>1 DEF TypePassword, ShowInput, TypeOK, StackInv
<1>4. CASE TypeOldPassword \/ TypeNewPassword
  BY <1>4 DEF TypeOldPassword, TypeNewPassword, HideInput, ShowInput, GoOn, TypeOK, StackInv
<1>5. CASE TypeText
  <2>1. typed' \in [name : Users \cup {"nobody"}, count : 0 .. MaxEditorLines]
    BY <1>5, TerminalAssumption DEF TypeText, RoomLeft, TypeOK
  <2> QED
    BY <1>5, <2>1 DEF TypeText, TypeOK, StackInv
<1>6. CASE LeaveNano
  BY <1>0, <1>6 DEF LeaveNano, GoOn, TypeOK, StackInv
<1> QED
  BY <1>1, <1>2, <1>3, <1>4, <1>5, <1>6 DEF User

LEMMA StackAlways == Spec => [](TypeOK /\ StackInv)
<1>1. TypeOK /\ StackInv /\ [Next]_vars => TypeOK' /\ StackInv'
  <2>1. TypeOK /\ StackInv /\ UNCHANGED vars => TypeOK' /\ StackInv'
    BY DEF TypeOK, StackInv, vars, settings, history
  <2> QED
    BY <2>1, RunnerKeepsStack, CommandKeepsStack, UserKeepsStack DEF Next
<1> QED
  BY <1>1, StackInit, PTL DEF Spec

(***************************************************************************)
(* TypeOK: whatever scripts source each other, the call stack stays within *)
(* what the guard of "source" allows, the editor within its lines, and the *)
(* path on a drive that is served.                                         *)
(***************************************************************************)
THEOREM TerminalTypeCorrect == Spec => []TypeOK
BY StackAlways, PTL

-----------------------------------------------------------------------------
(***************************************************************************)
(* ShellEndsByTypedExit needs to know what lies at the bottom of the stack *)
(* while lines and scripts are run on top of it: the boot batch before     *)
(* anything was typed, and the rest of the typed line from then on.  A     *)
(* line never lies directly on a line, so what is left when only the typed *)
(* line remains is the result of a script, which is dropped, or of a       *)
(* command of that line.                                                   *)
(***************************************************************************)
Bottom == stack[Len(stack)]

FramesInv ==
  /\ pc \in {"run", "exec", "old_password", "new_password", "nano"} => stack # <<>>
  /\ pc \in {"login_name", "login_password"} /\ stack = <<>> => line = <<>>
  /\ \A i \in 1 .. Len(stack) - 1 : stack[i].kind = "line" => stack[i + 1].kind # "line"
  /\ stack # <<>> => Bottom.kind # "script" /\ (Bottom.kind = "batch" => line = <<>>)

LineInv ==
  stack # <<>> /\ Bottom.kind = "line" =>
    /\ line # <<>>
    /\ Bottom.rest # <<>> => Bottom.rest[Len(Bottom.rest)] = LastTyped
    /\ Bottom.rest = <<>> =>
         IF Len(stack) > 1 THEN LastTyped.op # "exit"
         ELSE IF pc = "exec" THEN buffer = LastTyped
         ELSE result <=> LastTyped.op = "exit"

EndInv == FramesInv /\ LineInv /\ ShellEndsByTypedExit

LEMMA EndInit == Init => EndInv
<1> SUFFICES ASSUME Init PROVE EndInv
  OBVIOUS
<1>1. Len(stack) = 1 /\ stack # <<>> /\ stack[1].kind = "batch"
  BY DEF Init, Batch
<1> QED
  BY <1>1 DEF Init, EndInv, FramesInv, LineInv, Bottom, ShellEndsByTypedExit

\* A step that leaves the stack alone, and does not execute a command.
LEMMA StackStays ==
  ASSUME EndInv, UNCHANGED <<stack, line, result>>, pc \notin {"run", "exec", "done"},
         pc' \notin {"exec", "done"},
         pc' \in {"run", "old_password", "new_password", "nano"} => stack # <<>>,
         pc' \in {"login_name", "login_password"} => pc \in {"login_name", "login_password"},
         pc' = "prompt" => line = <<>>
  PROVE  EndInv'
BY DEF EndInv, FramesInv, LineInv, Bottom, ShellEndsByTypedExit, LastTyped

LEMMA UserKeepsEnd == TypeOK /\ StackInv /\ EndInv /\ User => EndInv'
<1> SUFFICES ASSUME TypeOK, StackInv, EndInv, User PROVE EndInv'
  OBVIOUS
<1> USE DEF Prompts, GoOn
<1>1. CASE TypeLine
  <2>1. PICK l \in Lines : stack' = <<Line(l)>> /\ line' = l
    BY <1>1 DEF TypeLine
  <2>2. l # <<>> /\ l \in Seq(CommandSet)
    BY TerminalAssumption
  <2>3. Len(stack') = 1 /\ stack' # <<>> /\ stack'[1] = Line(l)
    BY <2>1
  <2>4. Bottom'.kind = "line" /\ Bottom'.rest = line'
    BY <2>1, <2>3 DEF Bottom, Line
  <2>5. pc' = "run"
    BY <1>1 DEF TypeLine
  <2> QED
    BY <2>1, <2>2, <2>3, <2>4, <2>5
       DEF EndInv, FramesInv, LineInv, ShellEndsByTypedExit, LastTyped
<1>2. CASE TypeName
  BY <1>2, StackStays DEF TypeName
<1>3. CASE TypePassword
  BY <1>3, StackStays DEF TypePassword, Rejected, EndInv, FramesInv
<1>4. CASE TypeOldPassword
  BY <1>4, StackStays DEF TypeOldPassword, EndInv, FramesInv
<1>5. CASE TypeNewPassword
  BY <1>5, StackStays DEF TypeNewPassword, EndInv, FramesInv
<1>6. CASE TypeText
  BY <1>6, StackStays DEF TypeText, EndInv, FramesInv
<1>7. CASE LeaveNano
  BY <1>7, StackStays DEF LeaveNano, EndInv, FramesInv
<1> QED
  BY <1>1, <1>2, <1>3, <1>4, <1>5, <1>6, <1>7 DEF User

\* Executing a command: it was the last of the typed line, or that line has more.
LEMMA CommandKeepsEnd == TypeOK /\ StackInv /\ EndInv /\ Command => EndInv'
<1> SUFFICES ASSUME TypeOK, StackInv, EndInv, Command PROVE EndInv'
  OBVIOUS
<1>1. /\ pc = "exec" /\ stack # <<>> /\ Len(stack) \in Nat \ {0}
      /\ (result' <=> buffer.op = "exit") /\ UNCHANGED <<line, buffer>>
  <2>1. pc = "exec" /\ UNCHANGED <<line, buffer>> /\ result' = (buffer.op = "exit")
    BY DEF Command, Plain, Exit, SetEcho, SetMode, ChangeDrive, Source, Login, Passwd, Nano,
           Executes
  <2>2. stack # <<>> /\ Len(stack) \in Nat \ {0}
    BY <2>1 DEF EndInv, FramesInv, StackInv
  <2> QED
    BY <2>1, <2>2
<1>2. CASE UNCHANGED stack
  <2>1. pc' \notin {"exec", "done", "prompt"}
    BY <1>2 DEF Command, Plain, Exit, SetEcho, SetMode, ChangeDrive, Source, Login, Passwd, Nano,
                Executes
  <2> QED
    BY <1>1, <1>2, <2>1 DEF EndInv, FramesInv, LineInv, Bottom, ShellEndsByTypedExit, LastTyped
<1>3. CASE Source /\ stack' = <<Script(Scripts[buffer.arg])>> \o stack
             /\ buffer.arg \in DOMAIN Scripts /\ pc' = "run"
  <2> DEFINE f == Script(Scripts[buffer.arg])
  <2>1. f \in Frame /\ f.kind = "script"
    BY <1>3, TerminalAssumption DEF Script, Frame
  <2> HIDE DEF f
  <2>2. stack' = <<f>> \o stack /\ buffer.op = "source"
    BY <1>3 DEF Source, Executes, f
  <2>3. /\ Len(stack') = Len(stack) + 1 /\ stack' # <<>> /\ stack'[1] = f
        /\ \A i \in 1 .. Len(stack) : stack'[i + 1] = stack[i]
    BY <2>1, <2>2, StackOps DEF StackInv
  <2>4. Bottom' = Bottom
    BY <1>1, <2>3 DEF Bottom
  <2>5. \A i \in 1 .. Len(stack') - 1 : stack'[i].kind = "line" => stack'[i + 1].kind # "line"
    <3> SUFFICES ASSUME NEW i \in 1 .. Len(stack), stack'[i].kind = "line"
                 PROVE  stack'[i + 1].kind # "line"
      BY <1>1, <2>3
    <3>1. i # 1
      BY <2>1, <2>3
    <3>2. i - 1 \in 1 .. Len(stack) - 1 /\ stack'[i] = stack[i - 1] /\ stack'[i + 1] = stack[i]
      BY <1>1, <2>3, <3>1
    <3> QED
      BY <3>2 DEF EndInv, FramesInv
  <2> QED
    BY <1>1, <1>3, <2>2, <2>3, <2>4, <2>5
       DEF EndInv, FramesInv, LineInv, ShellEndsByTypedExit, LastTyped
<1>4. UNCHANGED stack \/ (Source /\ stack' = <<Script(Scripts[buffer.arg])>> \o stack
             /\ buffer.arg \in DOMAIN Scripts /\ pc' = "run")
  BY DEF Command, Plain, Exit, SetEcho, SetMode, ChangeDrive, Source, Login, Passwd, Nano
<1> QED
  BY <1>2, <1>3, <1>4

\* The runners: a frame is entered, gives up its next part, or is left.
LEMMA RunnerKeepsEnd == TypeOK /\ StackInv /\ EndInv /\ Runner => EndInv'
<1> SUFFICES ASSUME TypeOK, StackInv, EndInv, Runner PROVE EndInv'
  OBVIOUS
<1>1. pc = "run" /\ stack # <<>> /\ UNCHANGED line
  BY DEF Runner, NextLine, NextCommand, Return, Running, history
<1>2. /\ Top \in Frame /\ Top = stack[1] /\ Below \in Seq(Frame) /\ Len(Below) = Len(stack) - 1
      /\ Len(stack) \in Nat \ {0} /\ Len(Below) \in Nat
      /\ \A i \in 1 .. Len(stack) - 1 : Below[i] = stack[i + 1]
  <2>1. stack \in Seq(Frame) /\ stack # <<>>
    BY <1>1 DEF StackInv
  <2> QED
    BY <2>1, StackOps DEF Top, Below
<1>3. ASSUME NEW f \in Frame, f.kind = Top.kind, stack' = <<f>> \o Below
      PROVE  /\ Len(stack') = Len(stack) /\ stack' # <<>> /\ stack'[1] = f
             /\ \A i \in 2 .. Len(stack) : stack'[i] = stack[i]
             /\ Bottom' = IF Len(stack) = 1 THEN f ELSE Bottom
             /\ \A i \in 1 .. Len(stack) : stack'[i].kind = stack[i].kind
  <2>1. /\ Len(stack') = Len(stack) /\ stack' # <<>> /\ stack'[1] = f
        /\ \A i \in 1 .. Len(Below) : stack'[i + 1] = Below[i]
    BY <1>2, <1>3, StackOps
  <2>2. \A i \in 2 .. Len(stack) : stack'[i] = stack[i]
    <3> SUFFICES ASSUME NEW i \in 2 .. Len(stack) PROVE stack'[i] = stack[i]
      OBVIOUS
    <3>1. i - 1 \in 1 .. Len(Below) /\ stack'[(i - 1) + 1] = Below[i - 1]
      BY <1>2, <2>1
    <3>2. Below[i - 1] = stack[(i - 1) + 1]
      BY <1>2
    <3> QED
      BY <3>1, <3>2
  <2>3. Bottom' = IF Len(stack) = 1 THEN f ELSE Bottom
    <3>1. Len(stack) = 1 \/ Len(stack) \in 2 .. Len(stack)
      BY <1>2
    <3> QED
      BY <2>1, <2>2, <3>1 DEF Bottom
  <2>4. \A i \in 1 .. Len(stack) : stack'[i].kind = stack[i].kind
    <3>1. \A i \in 1 .. Len(stack) : i = 1 \/ i \in 2 .. Len(stack)
      BY <1>2
    <3> QED
      BY <1>2, <1>3, <2>1, <2>2, <3>1
  <2> QED
    BY <2>1, <2>2, <2>3, <2>4
<1> DEFINE rest == [Top EXCEPT !.rest = Tail(@)]
<1>4. CASE NextLine
  <2> DEFINE f == Line(Head(Top.rest))
  <2>1. rest \in Frame /\ rest.kind = Top.kind /\ f \in Frame /\ f.kind = "line"
    BY <1>2, <1>4, FrameOps DEF NextLine, Frame, Line
  <2>2. stack' = <<f, rest>> \o Below /\ Top.kind # "line" /\ pc' = "run"
    BY <1>1, <1>4 DEF NextLine, Advance
  <2> HIDE DEF f, rest
  <2>3. stack' = <<f>> \o (<<rest>> \o Below)
    BY <1>2, <2>1, <2>2, PushTwo
  <2> DEFINE under == <<rest>> \o Below
  <2>4. /\ under \in Seq(Frame) /\ Len(under) = Len(stack) /\ under[1] = rest
        /\ \A i \in 1 .. Len(Below) : under[i + 1] = Below[i]
    BY <1>2, <2>1, StackOps
  <2>5. \A i \in 2 .. Len(stack) : under[i] = stack[i]
    <3> SUFFICES ASSUME NEW i \in 2 .. Len(stack) PROVE under[i] = stack[i]
      OBVIOUS
    <3>1. i - 1 \in 1 .. Len(Below) /\ under[(i - 1) + 1] = Below[i - 1]
      BY <1>2, <2>4
    <3>2. Below[i - 1] = stack[(i - 1) + 1]
      BY <1>2
    <3> QED
      BY <3>1, <3>2
  <2> HIDE DEF under
  <2>6. /\ Len(stack') = Len(stack) + 1 /\ stack' # <<>> /\ stack'[1] = f
        /\ \A i \in 1 .. Len(stack) : stack'[i + 1] = under[i]
    BY <2>1, <2>3, <2>4, StackOps DEF under
  <2>7. \A i \in 1 .. Len(stack') - 1 : stack'[i].kind = "line" => stack'[i + 1].kind # "line"
    <3> SUFFICES ASSUME NEW i \in 1 .. Len(stack), stack'[i].kind = "line"
                 PROVE  stack'[i + 1].kind # "line"
      BY <1>2, <2>6
    <3>1. CASE i = 1
      BY <1>2, <2>1, <2>2, <2>4, <2>6, <3>1
    <3>2. CASE i # 1
      <4>1. i - 1 \in 1 .. Len(stack) - 1 /\ stack'[i] = under[i - 1] /\ stack'[i + 1] = under[i]
        <5>1. i - 1 \in 1 .. Len(stack) - 1
          BY <1>2, <3>2
        <5>2. stack'[(i - 1) + 1] = under[i - 1] /\ (i - 1) + 1 = i /\ stack'[i + 1] = under[i]
          BY <1>2, <2>6, <5>1
        <5> QED
          BY <5>1, <5>2
      <4>2. under[i - 1].kind = stack[i - 1].kind /\ under[i] = stack[i]
        BY <1>2, <2>1, <2>4, <2>5, <4>1
      <4> QED
        BY <4>1, <4>2 DEF EndInv, FramesInv
    <3> QED
      BY <3>1, <3>2
  <2>8. Bottom' = IF Len(stack) = 1 THEN rest ELSE Bottom
    BY <1>2, <2>4, <2>5, <2>6 DEF Bottom
  <2>9. Len(stack) = 1 => Bottom.kind = rest.kind
    BY <1>2, <2>1 DEF Bottom
  <2> QED
    BY <1>1, <1>2, <2>1, <2>2, <2>6, <2>7, <2>8, <2>9
       DEF EndInv, FramesInv, LineInv, ShellEndsByTypedExit, LastTyped
<1>5. CASE NextCommand
  <2>1. rest \in Frame /\ rest.kind = "line" /\ Top.kind = "line" /\ rest.rest = Tail(Top.rest)
    BY <1>2, <1>5, FrameOps DEF NextCommand, Frame
  <2>2. stack' = <<rest>> \o Below /\ pc' = "exec" /\ buffer' = Head(Top.rest)
    BY <1>5 DEF NextCommand, Parsed
  <2>3. Top.rest \in Seq(CommandSet) /\ Top.rest # <<>>
    BY <1>2, <1>5, <2>1 DEF NextCommand, Frame
  <2>4. /\ Len(Tail(Top.rest)) = Len(Top.rest) - 1 /\ Len(Top.rest) \in Nat \ {0}
        /\ \A i \in 1 .. Len(Top.rest) - 1 : Tail(Top.rest)[i] = Top.rest[i + 1]
        /\ Head(Top.rest) = Top.rest[1]
        /\ Tail(Top.rest) \in Seq(CommandSet)
    BY <2>3, HeadTailProperties
  <2>5. rest.rest # <<>> => rest.rest[Len(rest.rest)] = Top.rest[Len(Top.rest)]
    BY <2>1, <2>4
  <2>6. rest.rest = <<>> => buffer' = Top.rest[Len(Top.rest)]
    <3> SUFFICES ASSUME Tail(Top.rest) = <<>> PROVE buffer' = Top.rest[Len(Top.rest)]
      BY <2>1
    <3>1. Len(Tail(Top.rest)) = 0
      <4> DEFINE t == Tail(Top.rest)
      <4>1. t = <<>>
        OBVIOUS
      <4> HIDE DEF t
      <4>2. Len(t) = 0
        BY <4>1
      <4> QED
        BY <4>2 DEF t
    <3>2. Len(Top.rest) = 1
      BY <2>4, <3>1
    <3> QED
      BY <2>2, <2>4, <3>2
  <2> HIDE DEF rest
  <2>7. /\ Len(stack') = Len(stack) /\ stack' # <<>>
        /\ Bottom' = IF Len(stack) = 1 THEN rest ELSE Bottom
        /\ \A i \in 1 .. Len(stack) : stack'[i].kind = stack[i].kind
    BY <1>3, <2>1, <2>2
  <2>8. Len(stack) = 1 => Bottom = Top
    BY <1>2 DEF Bottom
  <2>9. FramesInv'
    <3>1. \A i \in 1 .. Len(stack') - 1 : stack'[i].kind = "line" => stack'[i + 1].kind # "line"
      <4>1. \A i \in 1 .. Len(stack) - 1 : i \in 1 .. Len(stack) /\ i + 1 \in 1 .. Len(stack)
        BY <1>2
      <4>2. \A i \in 1 .. Len(stack) - 1 : stack[i].kind = "line" => stack[i + 1].kind # "line"
        BY DEF EndInv, FramesInv
      <4> QED
        BY <2>7, <4>1, <4>2
    <3>2. Bottom'.kind = Bottom.kind
      BY <2>1, <2>7, <2>8
    <3> QED
      BY <1>1, <2>2, <2>7, <3>1, <3>2 DEF EndInv, FramesInv
  <2>10. LineInv'
    <3>1. CASE Len(stack) = 1
      <4>1. Bottom = Top /\ Bottom' = rest /\ Len(stack') = 1
        BY <2>7, <2>8, <3>1
      <4>2. line # <<>> /\ Top.rest[Len(Top.rest)] = LastTyped
        BY <1>1, <2>1, <2>3, <4>1 DEF EndInv, LineInv
      <4>3. LastTyped' = LastTyped
        BY <1>1 DEF LastTyped
      <4> QED
        BY <1>1, <2>2, <2>5, <2>6, <4>1, <4>2, <4>3 DEF LineInv
    <3>2. CASE Len(stack) # 1
      <4>1. Bottom' = Bottom /\ Len(stack') > 1 /\ Len(stack) > 1
        BY <1>2, <2>7, <3>2
      <4> QED
        BY <1>1, <4>1 DEF EndInv, LineInv, LastTyped
    <3> QED
      BY <3>1, <3>2
  <2> QED
    BY <2>2, <2>9, <2>10 DEF EndInv, ShellEndsByTypedExit
<1>6. CASE Return
  <2>1. stack' = Below /\ Top.rest = <<>> /\ result' = Returned
    BY <1>6 DEF Return
  <2>2. CASE Below = <<>>
    <3>1. Len(Below) = 0
      BY <2>2
    <3>2. Len(stack) = 1 /\ Bottom = Top
      <4>1. Len(stack) = 1
        BY <1>2, <3>1
      <4>2. Bottom = stack[1]
        BY <4>1 DEF Bottom
      <4> QED
        BY <1>2, <4>1, <4>2
    <3>3. CASE Top.kind = "batch"
      <4>1. line' = <<>> /\ pc' = "login_name" /\ stack' = <<>>
        BY <1>1, <1>6, <2>1, <2>2, <3>2, <3>3 DEF Return, EndInv, FramesInv
      <4> QED
        BY <4>1 DEF EndInv, FramesInv, LineInv, ShellEndsByTypedExit
    <3>4. CASE Top.kind = "line"
      <4>1. result' = result /\ (result <=> LastTyped.op = "exit")
        BY <1>1, <2>1, <3>2, <3>4 DEF Returned, EndInv, LineInv
      <4>2. pc' = (IF result' THEN "done" ELSE "prompt") /\ stack' = <<>>
        BY <1>6, <2>1, <2>2, <3>4 DEF Return
      <4>3. LastTyped' = LastTyped
        BY <1>1 DEF LastTyped
      <4>4. Len(stack') = 0
        BY <4>2
      <4> QED
        BY <4>1, <4>2, <4>3, <4>4 DEF EndInv, FramesInv, LineInv, ShellEndsByTypedExit
    <3> QED
      BY <1>1, <1>2, <3>2, <3>3, <3>4 DEF Frame, EndInv, FramesInv
  <2>3. CASE Below # <<>>
    <3>0. Len(Below) # 0
      BY <1>2, <2>3
    <3>1. Len(stack) > 1 /\ Bottom' = Bottom /\ pc' = "run"
      <4> DEFINE n == Len(stack)
      <4>1. n \in Nat \ {0} /\ Len(Below) = n - 1 /\ n - 1 # 0
            /\ \A i \in 1 .. n - 1 : Below[i] = stack[i + 1]
        BY <1>2, <3>0
      <4> HIDE DEF n
      <4>2. n > 1 /\ n - 1 \in 1 .. n - 1 /\ (n - 1) + 1 = n
        BY <4>1
      <4>3. Below[Len(Below)] = stack[n]
        BY <4>1, <4>2
      <4>4. pc' = "run"
        BY <1>6, <2>1, <2>3 DEF Return
      <4> QED
        BY <2>1, <4>2, <4>3, <4>4 DEF Bottom, n
    <3>2. \A i \in 1 .. Len(stack') - 1 : stack'[i].kind = "line" => stack'[i + 1].kind # "line"
      <4> DEFINE n == Len(stack)
      <4>1. n \in Nat /\ Len(Below) = n - 1 /\ \A i \in 1 .. n - 1 : Below[i] = stack[i + 1]
        BY <1>2
      <4>2. \A i \in 1 .. n - 1 : stack[i].kind = "line" => stack[i + 1].kind # "line"
        BY DEF EndInv, FramesInv
      <4> HIDE DEF n
      <4>3. \A i \in 1 .. Len(Below) - 1 :
              i \in 1 .. n - 1 /\ i + 1 \in 1 .. n - 1
        BY <4>1
      <4> QED
        BY <2>1, <4>1, <4>2, <4>3
    <3>3. Len(stack') = 1 /\ Bottom.kind = "line" => Returned = FALSE
      <4> SUFFICES ASSUME Len(stack') = 1, Bottom.kind = "line" PROVE Top.kind # "line"
        BY DEF Returned
      <4>1. Len(stack) = 2 /\ Bottom = stack[2]
        <5>1. Len(Below) = 1
          BY <2>1
        <5>2. Len(stack) = 2
          <6> DEFINE n == Len(stack)
          <6>1. n - 1 = 1 /\ n \in Nat
            BY <1>2, <5>1
          <6> HIDE DEF n
          <6>2. n = 2
            BY <6>1
          <6> QED
            BY <6>2 DEF n
        <5>3. Bottom = stack[2]
          BY <5>2 DEF Bottom
        <5> QED
          BY <5>2, <5>3
      <4> QED
        BY <1>2, <4>1 DEF EndInv, FramesInv
    <3>4. LastTyped' = LastTyped
      BY <1>1 DEF LastTyped
    <3>5. LineInv'
      <4> SUFFICES ASSUME Bottom.kind = "line"
                   PROVE  /\ line' # <<>>
                          /\ Bottom.rest # <<>> => Bottom.rest[Len(Bottom.rest)] = LastTyped
                          /\ Bottom.rest = <<>> =>
                               /\ LastTyped.op # "exit"
                               /\ Len(stack') = 1 => (result' <=> LastTyped.op = "exit")
        <5>1. Bottom'.kind = Bottom.kind /\ Bottom'.rest = Bottom.rest /\ pc' # "exec"
          BY <3>1
        <5> QED
          BY <1>1, <3>4, <5>1 DEF LineInv
      <4> QED
        BY <1>1, <2>1, <3>1, <3>3 DEF EndInv, LineInv
    <3> QED
      BY <1>1, <2>1, <2>3, <3>1, <3>2, <3>5 DEF EndInv, FramesInv, ShellEndsByTypedExit
  <2> QED
    BY <2>2, <2>3
<1> QED
  BY <1>4, <1>5, <1>6 DEF Runner

(***************************************************************************)
(* ShellEndsByTypedExit: whatever scripts the line sources, and however    *)
(* they end, the shell is left by an exit typed last and by nothing else.  *)
(***************************************************************************)
THEOREM OnlyTypedExitEnds == Spec => []ShellEndsByTypedExit
<1>1. TypeOK /\ StackInv /\ EndInv /\ [Next]_vars => EndInv'
  <2>1. EndInv /\ UNCHANGED vars => EndInv'
    BY DEF EndInv, FramesInv, LineInv, Bottom, ShellEndsByTypedExit, LastTyped, vars, settings,
           history
  <2> QED
    BY <2>1, RunnerKeepsEnd, CommandKeepsEnd, UserKeepsEnd DEF Next
<1>2. EndInv => ShellEndsByTypedExit
  BY DEF EndInv
<1> QED
  BY <1>1, <1>2, EndInit, StackAlways, PTL DEF Spec

-----------------------------------------------------------------------------
(***************************************************************************)
(* The queue a terminal shows: what the frames of the stack have left, the *)
(* innermost first, behind the command in the parse buffer.                *)
(***************************************************************************)
InFrames(s) == FlattenSeq([i \in DOMAIN s |-> LeftIn(s[i])])

\* What a frame has left, and what one with something left gives up first.
LEMMA LeftParts ==
  ASSUME NEW f \in Frame
  PROVE  /\ LeftIn(f) \in Seq(CommandSet)
         /\ f.rest = <<>> => LeftIn(f) = <<>>
         /\ f.rest # <<>> =>
              LET r == [f EXCEPT !.rest = Tail(@)] IN
              IF f.kind = "line"
              THEN Head(f.rest) \in CommandSet /\ LeftIn(f) = <<Head(f.rest)>> \o LeftIn(r)
              ELSE Head(f.rest) \in Seq(CommandSet) /\ LeftIn(f) = Head(f.rest) \o LeftIn(r)
<1>1. CASE f.kind = "line"
  <2>1. f.rest \in Seq(CommandSet) /\ LeftIn(f) = f.rest
    BY <1>1 DEF Frame, LeftIn
  <2>2. f.rest # <<>> =>
          Head(f.rest) \in CommandSet /\ f.rest = <<Head(f.rest)>> \o Tail(f.rest)
    BY <2>1, HeadBeforeTail
  <2>3. LeftIn([f EXCEPT !.rest = Tail(@)]) = Tail(f.rest)
    BY <1>1 DEF Frame, LeftIn
  <2> QED
    BY <1>1, <2>1, <2>2, <2>3
<1>2. CASE f.kind # "line"
  <2> DEFINE h == Head(f.rest)
             t == Tail(f.rest)
  <2>1. f.rest \in Seq(Seq(CommandSet)) /\ LeftIn(f) = FlattenSeq(f.rest)
    BY <1>2 DEF Frame, LeftIn
  <2>2. <<>> \in Seq(CommandSet)
    OBVIOUS
  <2>3. FlattenSeq(<<>>) = <<>> /\ FlattenSeq(f.rest) \in Seq(CommandSet)
    BY <2>1, <2>2, FlattenCons
  <2>4. f.rest # <<>> =>
          h \in Seq(CommandSet) /\ t \in Seq(Seq(CommandSet)) /\ f.rest = <<h>> \o t
    BY <2>1, HeadBeforeTail
  <2>5. LeftIn([f EXCEPT !.rest = Tail(@)]) = FlattenSeq(t)
    BY <1>2 DEF Frame, LeftIn
  <2>6. f.rest # <<>> => LeftIn(f) = h \o FlattenSeq(t)
    <3> HIDE DEF h, t
    <3> QED
      BY <2>1, <2>4, FlattenCons
  <2> QED
    BY <1>2, <2>1, <2>3, <2>4, <2>5, <2>6
<1> QED
  BY <1>1, <1>2

\* Commands in a frame come before those in the frames it lies on.
LEMMA FramesCons ==
  ASSUME NEW f \in Frame, NEW s \in Seq(Frame)
  PROVE  /\ InFrames(<<>>) = <<>> /\ InFrames(s) \in Seq(CommandSet)
         /\ InFrames(<<f>> \o s) = LeftIn(f) \o InFrames(s)
<1> DEFINE t == <<f>> \o s
           a == LeftIn(f)
           ss == [i \in DOMAIN s |-> LeftIn(s[i])]
           tt == [i \in DOMAIN t |-> LeftIn(t[i])]
<1>1. a \in Seq(CommandSet)
  BY LeftParts
<1>2. ss \in Seq(Seq(CommandSet)) /\ Len(ss) = Len(s) /\ Len(s) \in Nat
      /\ \A i \in 1 .. Len(s) : ss[i] = LeftIn(s[i])
  <2>1. \A i \in 1 .. Len(s) : s[i] \in Frame
    OBVIOUS
  <2>2. DOMAIN s = 1 .. Len(s) /\ Len(s) \in Nat
    OBVIOUS
  <2>3. \A i \in 1 .. Len(s) : LeftIn(s[i]) \in Seq(CommandSet)
    BY <2>1, LeftParts
  <2>4. ss \in [1 .. Len(s) -> Seq(CommandSet)]
    BY <2>2, <2>3
  <2> HIDE DEF ss
  <2>5. ss \in Seq(Seq(CommandSet)) /\ Len(ss) = Len(s)
    BY <2>2, <2>4, IsASeq, LenProperties
  <2> QED
    BY <2>2, <2>5 DEF ss
<1>3. /\ t \in Seq(Frame) /\ Len(t) = Len(s) + 1 /\ t[1] = f
      /\ \A i \in 1 .. Len(s) : t[i + 1] = s[i]
  BY StackOps
<1>4. tt = <<a>> \o ss
  <2>1. /\ <<a>> \o ss \in Seq(Seq(CommandSet)) /\ Len(<<a>> \o ss) = 1 + Len(ss)
        /\ \A i \in 1 .. 1 + Len(ss) : (<<a>> \o ss)[i] = IF i <= 1 THEN a ELSE ss[i - 1]
    <3> DEFINE u == <<a>>
    <3>1. u \in Seq(Seq(CommandSet)) /\ Len(u) = 1 /\ u[1] = a
      BY <1>1
    <3> HIDE DEF a, ss, u
    <3>2. /\ u \o ss \in Seq(Seq(CommandSet)) /\ Len(u \o ss) = Len(u) + Len(ss)
          /\ \A i \in 1 .. Len(u) + Len(ss) :
               (u \o ss)[i] = IF i <= Len(u) THEN u[i] ELSE ss[i - Len(u)]
      BY <1>2, <3>1, ConcatProperties
    <3>3. \A i \in 1 .. 1 + Len(ss) : i <= 1 => i = 1
      BY <1>2
    <3>4. /\ u \o ss \in Seq(Seq(CommandSet)) /\ Len(u \o ss) = 1 + Len(ss)
          /\ \A i \in 1 .. 1 + Len(ss) : (u \o ss)[i] = IF i <= 1 THEN a ELSE ss[i - 1]
      BY <3>1, <3>2, <3>3
    <3> QED
      BY <3>4 DEF u
  <2>2. DOMAIN tt = 1 .. Len(s) + 1
    BY <1>3
  <2>3. ASSUME NEW i \in 1 .. Len(s) + 1 PROVE tt[i] = (<<a>> \o ss)[i]
    <3>1. tt[i] = LeftIn(t[i])
      BY <1>3
    <3>2. CASE i = 1
      BY <1>2, <1>3, <2>1, <3>1, <3>2
    <3>3. CASE i # 1
      <4>1. i - 1 \in 1 .. Len(s) /\ t[(i - 1) + 1] = s[i - 1] /\ (i - 1) + 1 = i
        BY <1>2, <1>3, <3>3
      <4> HIDE DEF t, ss, a
      <4>2. (<<a>> \o ss)[i] = ss[i - 1]
        BY <1>2, <2>1, <3>3
      <4> QED
        BY <1>2, <3>1, <4>1, <4>2
    <3> QED
      BY <3>2, <3>3
  <2> DEFINE u == <<a>> \o ss
  <2>4. u = [i \in 1 .. Len(s) + 1 |-> u[i]]
    <3> HIDE DEF u, ss, a
    <3>1. u \in Seq(Seq(CommandSet)) /\ Len(u) = Len(s) + 1
      BY <1>2, <2>1 DEF u
    <3>2. u \in [1 .. Len(u) -> Seq(CommandSet)]
      BY <3>1, LenProperties
    <3> QED
      BY <3>1, <3>2
  <2>5. tt = [i \in 1 .. Len(s) + 1 |-> tt[i]]
    BY <2>2
  <2> HIDE DEF tt, u
  <2> QED
    BY <2>3, <2>4, <2>5 DEF u
<1>5. InFrames(s) = FlattenSeq(ss) /\ InFrames(t) = FlattenSeq(tt)
  BY DEF InFrames
<1>6. InFrames(<<>>) = <<>>
  <2>1. InFrames(<<>>) = FlattenSeq(<<>>)
    BY DEF InFrames
  <2> HIDE DEF a, ss
  <2> QED
    BY <1>1, <1>2, <2>1, FlattenCons
<1>7. FlattenSeq(ss) \in Seq(CommandSet) /\ FlattenSeq(<<a>> \o ss) = a \o FlattenSeq(ss)
  <2> HIDE DEF a, ss
  <2> QED
    BY <1>1, <1>2, FlattenCons
<1> QED
  BY <1>4, <1>5, <1>6, <1>7

-----------------------------------------------------------------------------
(***************************************************************************)
(* The steps of the terminal on its queue.                                 *)
(***************************************************************************)

\* Nobody types a command while a line or a script is being executed.
PromptInv == pc \in {"prompt", "done"} => stack = <<>>

LEMMA PromptAlways == Spec => []PromptInv
<1>1. Init => PromptInv
  BY DEF Init, PromptInv
<1>2. PromptInv /\ [Next]_vars => PromptInv'
  <2> SUFFICES ASSUME PromptInv, [Next]_vars PROVE PromptInv'
    OBVIOUS
  <2> USE DEF PromptInv
  <2>1. CASE Runner
    BY <2>1 DEF Runner, NextLine, NextCommand, Return, Running
  <2>2. CASE Command
    BY <2>2 DEF Command, Plain, Exit, SetEcho, SetMode, ChangeDrive, Source, Login, Passwd, Nano,
                Executes
  <2>3. CASE User
    BY <2>3 DEF User, TypeLine, TypeName, TypePassword, TypeOldPassword, TypeNewPassword, TypeText,
                LeaveNano, GoOn, Prompts, Rejected
  <2>4. CASE UNCHANGED vars
    BY <2>4 DEF vars
  <2> QED
    BY <2>1, <2>2, <2>3, <2>4 DEF Next
<1> QED
  BY <1>1, <1>2, PTL DEF Spec

\* Three sequences make the same whichever two are joined first.
LEMMA Regroup ==
  ASSUME NEW a \in Seq(CommandSet), NEW b \in Seq(CommandSet), NEW c \in Seq(CommandSet)
  PROVE  (a \o b) \o c = a \o (b \o c) /\ a \o b \in Seq(CommandSet)
         /\ <<>> \o a = a /\ a \o <<>> = a
<1>1. (a \o b) \o c = a \o (b \o c)
  BY ConcatAssociative
<1>2. a \o b \in Seq(CommandSet)
  BY ConcatProperties
<1>3. <<>> \o a = a /\ a \o <<>> = a
  BY ConcatEmptySeq
<1> QED
  BY <1>1, <1>2, <1>3

\* What a stack that is not empty has left begins with what its top has left.
LEMMA FramesTop ==
  ASSUME stack \in Seq(Frame), stack # <<>>
  PROVE  /\ Top \in Frame /\ Below \in Seq(Frame) /\ InFrames(Below) \in Seq(CommandSet)
         /\ InFrames(stack) = LeftIn(Top) \o InFrames(Below)
<1>1. Top \in Frame /\ Below \in Seq(Frame) /\ stack = <<Top>> \o Below
  BY HeadBeforeTail DEF Top, Below
<1> QED
  BY <1>1, FramesCons

\* The runners only move commands: from a script to a line, and to the buffer.
LEMMA RunnerMovesCommands == StackInv /\ Runner => UNCHANGED Pending
<1> SUFFICES ASSUME StackInv, Runner PROVE Pending' = Pending
  OBVIOUS
<1> DEFINE rest == [Top EXCEPT !.rest = Tail(@)]
           low == InFrames(Below)
<1>1. /\ pc = "run" /\ stack # <<>> /\ stack \in Seq(Frame)
      /\ Top \in Frame /\ Below \in Seq(Frame) /\ low \in Seq(CommandSet)
      /\ InFrames(stack) = LeftIn(Top) \o low
  <2>1. pc = "run" /\ stack # <<>> /\ stack \in Seq(Frame)
    BY DEF StackInv, Runner, NextLine, NextCommand, Return, Running
  <2> QED
    BY <2>1, FramesTop
<1>2. Pending = InFrames(stack)
  <2>1. Pending = <<>> \o InFrames(stack)
    BY <1>1 DEF Pending, InFrames
  <2>2. InFrames(stack) \in Seq(CommandSet)
    BY <1>1, FramesCons
  <2> QED
    BY <2>1, <2>2, Regroup
<1>3. /\ InFrames(stack') \in Seq(CommandSet) => (pc' # "exec" => Pending' = InFrames(stack'))
      /\ pc' = "exec" => Pending' = <<buffer'>> \o InFrames(stack')
  <2>1. pc' \notin {"crashed"}
    BY <1>1 DEF Runner, NextLine, NextCommand, Return
  <2>2. Pending' = (IF pc' = "exec" THEN <<buffer'>> ELSE <<>>) \o InFrames(stack')
    BY <2>1 DEF Pending, InFrames
  <2> QED
    BY <2>2, Regroup
<1>4. CASE NextLine
  <2> DEFINE h == Head(Top.rest)
             f == Line(h)
             m == LeftIn(rest)
  <2>1. /\ rest \in Frame /\ f \in Frame /\ h \in Seq(CommandSet)
        /\ LeftIn(f) = h /\ LeftIn(Top) = h \o m /\ m \in Seq(CommandSet)
    <3>1. Top.rest # <<>> /\ Top.kind # "line"
      BY <1>4 DEF NextLine
    <3>2. rest \in Frame /\ f \in Frame
      BY <1>1, <3>1, FrameOps
    <3>3. LeftIn(f) = h
      BY DEF LeftIn, Line
    <3>4. h \in Seq(CommandSet) /\ LeftIn(Top) = h \o m
      BY <1>1, <3>1, LeftParts
    <3> QED
      BY <3>2, <3>3, <3>4, LeftParts
  <2>2. stack' = <<f, rest>> \o Below /\ pc' = "run"
    BY <1>1, <1>4 DEF NextLine, Advance
  <2> HIDE DEF f, rest, h, low, m
  <2>3. stack' = <<f>> \o (<<rest>> \o Below) /\ <<rest>> \o Below \in Seq(Frame)
    <3>1. stack' = <<f>> \o (<<rest>> \o Below)
      BY <1>1, <2>1, <2>2, PushTwo
    <3>2. <<rest>> \o Below \in Seq(Frame)
      BY <1>1, <2>1, StackOps
    <3> QED
      BY <3>1, <3>2
  <2>4. InFrames(<<rest>> \o Below) = m \o low
    BY <1>1, <2>1, FramesCons DEF low, m
  <2>5. InFrames(stack') = h \o (m \o low)
    <3> DEFINE under == <<rest>> \o Below
    <3>1. under \in Seq(Frame) /\ stack' = <<f>> \o under /\ InFrames(under) = m \o low
      BY <2>3, <2>4
    <3> HIDE DEF under
    <3> QED
      BY <2>1, <3>1, FramesCons
  <2>6. InFrames(stack') = InFrames(stack)
    <3>0. h \in Seq(CommandSet) /\ m \in Seq(CommandSet) /\ low \in Seq(CommandSet)
      BY <1>1, <2>1
    <3>1. (h \o m) \o low = h \o (m \o low)
      BY <3>0, Regroup
    <3>2. InFrames(stack) = (h \o m) \o low
      BY <1>1, <2>1
    <3> QED
      BY <2>5, <3>1, <3>2
  <2>7. InFrames(stack') \in Seq(CommandSet)
    BY <1>1, <2>6, FramesCons
  <2> QED
    BY <1>2, <1>3, <2>2, <2>6, <2>7
<1>5. CASE NextCommand
  <2> DEFINE h == Head(Top.rest)
             m == LeftIn(rest)
  <2>1. /\ rest \in Frame /\ h \in CommandSet /\ LeftIn(Top) = <<h>> \o m /\ m \in Seq(CommandSet)
    <3>1. Top.rest # <<>> /\ Top.kind = "line"
      BY <1>5 DEF NextCommand
    <3>2. rest \in Frame
      BY <1>1, <3>1, FrameOps
    <3>3. h \in CommandSet /\ LeftIn(Top) = <<h>> \o m
      BY <1>1, <3>1, LeftParts
    <3> QED
      BY <3>2, <3>3, LeftParts
  <2>2. stack' = <<rest>> \o Below /\ pc' = "exec" /\ buffer' = h
    BY <1>5 DEF NextCommand, Parsed
  <2> HIDE DEF rest, h, low, m
  <2>3. InFrames(stack') = m \o low
    BY <1>1, <2>1, <2>2, FramesCons DEF low, m
  <2>4. <<h>> \in Seq(CommandSet)
    BY <2>1
  <2>5. Pending' = <<h>> \o (m \o low)
    BY <1>3, <2>2, <2>3
  <2>6. (<<h>> \o m) \o low = <<h>> \o (m \o low)
    <3> DEFINE a == <<h>>
    <3>1. a \in Seq(CommandSet)
      BY <2>4
    <3> HIDE DEF a
    <3>2. (a \o m) \o low = a \o (m \o low)
      BY <1>1, <2>1, <3>1, Regroup
    <3> QED
      BY <3>2 DEF a
  <2> QED
    BY <1>1, <1>2, <2>1, <2>5, <2>6
<1>6. CASE Return
  <2>1. stack' = Below /\ Top.rest = <<>> /\ pc' # "exec"
    BY <1>6 DEF Return
  <2>2. LeftIn(Top) = <<>>
    BY <1>1, <2>1, LeftParts
  <2> HIDE DEF low
  <2>3. InFrames(stack') = low /\ InFrames(stack) = low
    BY <1>1, <2>1, <2>2, Regroup DEF low
  <2> QED
    BY <1>1, <1>2, <1>3, <2>1, <2>3
<1> QED
  BY <1>4, <1>5, <1>6 DEF Runner

\* A command is taken from the front of the queue; "source" puts its script there.
LEMMA CommandTakesFront == StackInv /\ Command => Queue!Execute \/ UNCHANGED Pending
<1> SUFFICES ASSUME StackInv, Command PROVE Queue!Execute \/ UNCHANGED Pending
  OBVIOUS
<1> DEFINE low == InFrames(stack)
<1>1. pc = "exec" /\ buffer' = buffer /\ buffer \in CommandSet /\ stack \in Seq(Frame)
  <2>1. pc = "exec" /\ buffer' = buffer
    BY DEF Command, Plain, Exit, SetEcho, SetMode, ChangeDrive, Source, Login, Passwd, Nano,
           Executes
  <2> QED
    BY <2>1 DEF StackInv
<1>2. low \in Seq(CommandSet)
  <2>1. Batch(Autoexec) \in Frame
    BY TerminalAssumption DEF Batch, Frame
  <2> QED
    BY <1>1, <2>1, FramesCons
<1>3. Pending = <<buffer>> \o low
  BY <1>1 DEF Pending, InFrames
<1> HIDE DEF low
<1>4. Pending # <<>> /\ Head(Pending) = buffer /\ Tail(Pending) = low
  BY <1>1, <1>2, <1>3, ConsOps
<1>5. ASSUME pc' \notin {"exec", "crashed"}, InFrames(stack') \in Seq(CommandSet)
      PROVE  Pending' = InFrames(stack')
  <2>1. Pending' = <<>> \o InFrames(stack')
    BY <1>5 DEF Pending, InFrames
  <2> QED
    BY <1>5, <2>1, Regroup
<1>6. Queue!IsScript(buffer) <=> buffer.op = "source" /\ buffer.arg \in DOMAIN Scripts
  BY DEF Queue!IsScript
<1>7. ASSUME UNCHANGED stack, pc' \notin {"exec", "crashed"}, ~ Queue!IsScript(buffer)
      PROVE  Queue!Execute
  <2>1. Pending' = low
    BY <1>2, <1>5, <1>7 DEF low
  <2>2. Pending' = <<>> \o Tail(Pending)
    BY <1>2, <1>4, <2>1, Regroup
  <2> QED
    BY <1>4, <1>7, <2>2 DEF Queue!Execute
<1>8. CASE Source
  <2>1. CASE buffer.arg \notin DOMAIN Scripts
    BY <1>6, <1>7, <1>8, <2>1 DEF Source
  <2>2. CASE buffer.arg \in DOMAIN Scripts /\ stack' = <<Script(Scripts[buffer.arg])>> \o stack
               /\ pc' = "run"
    <3> DEFINE f == Script(Scripts[buffer.arg])
               q == FlattenSeq(Scripts[buffer.arg])
    <3>1. f \in Frame /\ LeftIn(f) = q
      BY <2>2, TerminalAssumption DEF Script, Frame, LeftIn
    <3>2. q \in Seq(CommandSet)
      BY <3>1, LeftParts
    <3>3. stack' = <<f>> \o stack
      BY <2>2
    <3>4. Queue!FlattenSeq(Scripts[buffer.arg]) = q
      BY DEF Queue!FlattenSeq, FlattenSeq
    <3> HIDE DEF f, q
    <3>5. InFrames(stack') = q \o low /\ q \o low \in Seq(CommandSet)
      BY <1>1, <1>2, <3>1, <3>2, <3>3, FramesCons, Regroup DEF low
    <3>6. Pending' = q \o Tail(Pending)
      BY <1>4, <1>5, <2>2, <3>5
    <3>7. Queue!IsScript(buffer)
      BY <1>6, <1>8, <2>2 DEF Source, Executes
    <3> QED
      BY <1>4, <3>4, <3>6, <3>7 DEF Queue!Execute
  <2>3. CASE pc' = "crashed" /\ UNCHANGED stack
    BY <1>1, <2>3 DEF Pending
  <2> QED
    BY <1>8, <2>1, <2>2, <2>3 DEF Source
<1>9. CASE ~ Source
  <2>1. UNCHANGED stack /\ pc' \notin {"exec", "crashed"} /\ buffer.op # "source"
    BY <1>9 DEF Command, Plain, Exit, SetEcho, SetMode, ChangeDrive, Login, Passwd, Nano, Executes
  <2> QED
    BY <1>6, <1>7, <2>1
<1> QED
  BY <1>8, <1>9

\* A line is typed when nothing is left; the other keys leave the queue alone.
LEMMA UserFillsQueue == StackInv /\ PromptInv /\ User => Queue!Accept \/ UNCHANGED Pending
<1> SUFFICES ASSUME StackInv, PromptInv, User PROVE Queue!Accept \/ UNCHANGED Pending
  OBVIOUS
<1>1. CASE TypeLine
  <2>1. PICK l \in Lines : stack' = <<Line(l)>>
    BY <1>1 DEF TypeLine
  <2> DEFINE f == Line(l)
  <2>2. l \in Seq(CommandSet) /\ f \in Frame /\ LeftIn(f) = l
    BY TerminalAssumption DEF Line, Frame, LeftIn
  <2> HIDE DEF f
  <2>3. <<>> \in Seq(Frame) /\ <<f>> \o <<>> = <<f>>
    <3> DEFINE s == <<f>>
    <3>1. s \in Seq(Frame)
      BY <2>2
    <3> HIDE DEF s
    <3>2. s \o <<>> = s
      BY <3>1, ConcatEmptySeq
    <3> QED
      BY <3>2 DEF s
  <2>4. InFrames(<<f>> \o <<>>) = l \o <<>> /\ InFrames(<<>>) = <<>>
    BY <2>2, <2>3, FramesCons
  <2>5. InFrames(stack') = l
    BY <2>1, <2>2, <2>3, <2>4, Regroup DEF f
  <2>6. Pending = <<>> \o InFrames(stack) /\ Pending' = <<>> \o InFrames(stack')
    BY <1>1 DEF TypeLine, Pending, InFrames
  <2>7. stack = <<>>
    BY <1>1 DEF TypeLine, PromptInv
  <2>8. Pending = <<>> /\ Pending' = l
    <3>1. <<>> \in Seq(CommandSet)
      OBVIOUS
    <3>2. <<>> \o <<>> = <<>> /\ <<>> \o l = l
      BY <2>2, <3>1, Regroup
    <3> QED
      BY <2>4, <2>5, <2>6, <2>7, <3>2
  <2> QED
    BY <2>8 DEF Queue!Accept
<1>2. CASE ~ TypeLine
  <2>1. UNCHANGED <<stack, buffer>> /\ pc \notin {"exec", "crashed"}
          /\ pc' \notin {"exec", "crashed"}
    BY <1>2 DEF User, TypeName, TypePassword, TypeOldPassword, TypeNewPassword, TypeText,
                LeaveNano, GoOn, Prompts, Rejected
  <2> QED
    BY <2>1 DEF Pending
<1> QED
  BY <1>1, <1>2

\* At the start the queue holds the commands of the boot batch.
LEMMA QueueInit == Init => Queue!Init
<1> SUFFICES ASSUME Init PROVE Queue!Init
  OBVIOUS
<1> DEFINE f == Batch(Autoexec)
           q == FlattenSeq(Autoexec)
<1>1. f \in Frame /\ LeftIn(f) = q
  BY TerminalAssumption DEF Batch, Frame, LeftIn
<1>2. q \in Seq(CommandSet)
  BY <1>1, LeftParts
<1>3. stack = <<f>> /\ pc = "run"
  BY DEF Init
<1> HIDE DEF f, q
<1>4. <<>> \in Seq(Frame) /\ <<f>> \o <<>> = <<f>>
  <2> DEFINE s == <<f>>
  <2>1. s \in Seq(Frame)
    BY <1>1
  <2> HIDE DEF s
  <2>2. s \o <<>> = s
    BY <2>1, ConcatEmptySeq
  <2> QED
    BY <2>2 DEF s
<1>5. InFrames(stack) = q
  <2>1. InFrames(<<f>> \o <<>>) = q \o <<>>
    BY <1>1, <1>4, FramesCons
  <2> QED
    BY <1>2, <1>3, <1>4, <2>1, Regroup
<1>6. Pending = <<>> \o InFrames(stack)
  BY <1>3 DEF Pending, InFrames
<1>7. Pending = q
  BY <1>2, <1>5, <1>6, Regroup
<1> QED
  BY <1>7 DEF Queue!Init, q

(***************************************************************************)
(* ImplementsQueue: through scripts nested to any depth, '&' lists and the *)
(* one parse buffer, every command written is executed once and in order.  *)
(***************************************************************************)
THEOREM TerminalImplementsQueue == Spec => ImplementsQueue
<1>1. StackInv /\ PromptInv /\ [Next]_vars => [Queue!Execute \/ Queue!Accept]_Pending
  <2> SUFFICES ASSUME StackInv, PromptInv, [Next]_vars
               PROVE  Queue!Execute \/ Queue!Accept \/ UNCHANGED Pending
    OBVIOUS
  <2>1. CASE Runner
    BY <2>1, RunnerMovesCommands
  <2>2. CASE Command
    BY <2>2, CommandTakesFront
  <2>3. CASE User
    BY <2>3, UserFillsQueue
  <2>4. CASE UNCHANGED vars
    BY <2>4 DEF vars, Pending
  <2> QED
    BY <2>1, <2>2, <2>3, <2>4 DEF Next
<1> QED
  BY <1>1, QueueInit, StackAlways, PromptAlways, PTL DEF Spec, ImplementsQueue, Queue!Spec
=============================================================================
