------------------------------ MODULE Terminal ------------------------------
(***************************************************************************)
(* The terminal of boot/efi_main.c: the boot batch, the login prompt and   *)
(* the shell, with the commands that change its state or run others.       *)
(*                                                                         *)
(* A command is a record [op, arg]; "plain" stands for every command that  *)
(* only prints or works on files.  A line is a sequence of commands, the   *)
(* ones typed between '&'; a script, or the boot batch, is a sequence of   *)
(* lines.  The C call stack of terminal_execute_command() is `stack`, its  *)
(* top first.  Definitions marked "faulty" are slips the checked           *)
(* properties must notice.                                                 *)
(***************************************************************************)
EXTENDS Integers, Sequences

CONSTANTS
  Autoexec,        \* the lines of autoexec_batch
  Scripts,         \* the lines of each script file
  Lines,           \* what a user may type at the shell's prompt
  Users,           \* who may log in
  Drives,          \* letters typed as a drive
  MaxEditorLines,  \* TERMINAL_MAX_EDITOR_LINES
  MaxDepth         \* bound: frames the firmware's stack has room for

Served == {"B", "C"}  \* the drives terminal_set_drive() accepts

\* The commands that do something here, "plain" for the others, an argument each.
CommandSet ==
  [op : {"plain", "exit", "login", "passwd", "nano"}, arg : {"none"}]
    \cup [op : {"@echo"}, arg : {"on", "off"}] \cup [op : {"mode"}, arg : {"batch", "bash"}]
    \cup [op : {"cd"}, arg : Drives] \cup [op : {"source"}, arg : STRING]

ASSUME TerminalAssumption ==
  /\ Autoexec \in Seq(Seq(CommandSet))
  /\ \A s \in DOMAIN Scripts : Scripts[s] \in Seq(Seq(CommandSet))
  /\ Lines \subseteq Seq(CommandSet) \ {<<>>}
  /\ Served \subseteq Drives
  /\ MaxEditorLines \in Nat \ {0} /\ MaxDepth \in Nat \ {0}
  /\ Users # {} /\ "nobody" \notin Users

VARIABLES
  pc,       \* "run", "exec", what the terminal waits for, "done" or "crashed"
  stack,    \* frames [kind, rest]: lines being executed, scripts being run
  buffer,   \* the command in the static buffer of terminal_parse_command()
  result,   \* what the last command returned
  mode,     \* terminal_mode
  echo,     \* terminal_echo_enabled
  drive,    \* terminal_current_drive
  path,     \* the drive terminal_current_path is on
  session,  \* accounts_current_user()
  typed,    \* locals of login and nano: the name typed, line_count
  line,     \* history: the line typed at that prompt
  muted     \* history: the last command about echo was "@echo off"

settings == <<mode, echo, drive, path, session>>
history == <<line, muted>>
vars == <<pc, stack, buffer, result, settings, typed, history>>

Batch(lines) == [kind |-> "batch", rest |-> lines]
Script(lines) == [kind |-> "script", rest |-> lines]
Line(commands) == [kind |-> "line", rest |-> commands]

NoInput == [name |-> "nobody", count |-> 0]

Init ==
  /\ pc = "run" /\ stack = <<Batch(Autoexec)>>
  /\ buffer = [op |-> "none", arg |-> "none"] /\ result = FALSE
  /\ mode = "batch" /\ echo = TRUE /\ drive = "B" /\ path = "B" /\ session = "nobody"
  /\ typed = NoInput
  /\ line = <<>> /\ muted = FALSE

-----------------------------------------------------------------------------
(***************************************************************************)
(* The runners.  terminal_run_batch_file() and terminal_source_file() take *)
(* one line after the other and drop what it returns; a line runs the part *)
(* before '&' and then the rest, and returns what its last command did.    *)
(***************************************************************************)
Top == Head(stack)
Below == Tail(stack)
Running == pc = "run" /\ stack # <<>>

SameAgain(rest) == rest \* faulty
Advance(rest) == Tail(rest)

NextLine ==
  /\ Running /\ Top.kind # "line" /\ Top.rest # <<>>
  /\ stack' = <<Line(Head(Top.rest)), [Top EXCEPT !.rest = Advance(@)]>> \o Below
  /\ UNCHANGED <<pc, buffer, result, settings, typed, history>>

ParseOnce == IF Len(Top.rest) = 1 /\ buffer.op # "none" THEN buffer ELSE Head(Top.rest) \* faulty
Parsed == Head(Top.rest)

NextCommand ==
  /\ Running /\ Top.kind = "line" /\ Top.rest # <<>>
  /\ buffer' = Parsed
  /\ stack' = <<[Top EXCEPT !.rest = Tail(@)]>> \o Below
  /\ pc' = "exec"
  /\ UNCHANGED <<result, settings, typed, history>>

\* What a frame hands to its caller: a script 0, a line its last result.
AnyResult == result \* faulty
Returned == IF Top.kind = "line" THEN result ELSE FALSE

Return ==
  /\ Running /\ Top.rest = <<>>
  /\ stack' = Below
  /\ result' = Returned
  /\ pc' = IF Below # <<>> THEN "run"
           ELSE IF Top.kind = "batch" THEN "login_name"
           ELSE IF result' THEN "done"
           ELSE "prompt"
  /\ UNCHANGED <<buffer, settings, typed, history>>

(***************************************************************************)
(* terminal_run_shell(): an empty line only repeats the prompt.            *)
(***************************************************************************)
TypeLine ==
  /\ pc = "prompt"
  /\ \E l \in Lines : stack' = <<Line(l)>> /\ line' = l
  /\ pc' = "run"
  /\ UNCHANGED <<buffer, result, settings, typed, muted>>

-----------------------------------------------------------------------------
(***************************************************************************)
(* terminal_execute_command(), which works on the parsed buffer.           *)
(***************************************************************************)
Executes(op) ==
  /\ pc = "exec" /\ buffer.op = op
  /\ result' = (op = "exit")
  /\ UNCHANGED <<buffer, line>>

Plain ==
  /\ Executes("plain")
  /\ pc' = "run"
  /\ UNCHANGED <<stack, settings, typed, muted>>

Exit ==
  /\ Executes("exit")
  /\ pc' = "run"
  /\ UNCHANGED <<stack, settings, typed, muted>>

\* "@echo off" and "@echo on"; any other argument makes it a plain command.
SetEcho ==
  /\ Executes("@echo")
  /\ echo' = (buffer.arg = "on") /\ muted' = (buffer.arg # "on")
  /\ pc' = "run"
  /\ UNCHANGED <<stack, mode, drive, path, session, typed>>

\* "switchlang", "bash" and "batch"
SetMode ==
  /\ Executes("mode")
  /\ mode' = buffer.arg /\ echo' = TRUE /\ muted' = FALSE
  /\ pc' = "run"
  /\ UNCHANGED <<stack, drive, path, session, typed>>

(***************************************************************************)
(* "cd" and "dir" write the letter they found into the current drive and   *)
(* pass it to terminal_set_drive(), which accepts B and C only.            *)
(***************************************************************************)
SetDrive == path' = IF buffer.arg \in Served THEN buffer.arg ELSE path

ChangeDrive ==
  /\ Executes("cd")
  /\ drive' = buffer.arg
  /\ SetDrive
  /\ pc' = "run"
  /\ UNCHANGED <<stack, mode, echo, session, typed, muted>>

(***************************************************************************)
(* "source" reads the whole file and then executes its lines, one call     *)
(* deeper; a file that cannot be read only prints the usage.  Nothing      *)
(* stops a script that sources itself but the end of the stack.            *)
(***************************************************************************)
Source ==
  /\ Executes("source")
  /\ \/ /\ buffer.arg \notin DOMAIN Scripts
        /\ pc' = "run" /\ UNCHANGED stack
     \/ /\ buffer.arg \in DOMAIN Scripts /\ Len(stack) < MaxDepth
        /\ stack' = <<Script(Scripts[buffer.arg])>> \o stack
        /\ pc' = "run"
     \/ /\ buffer.arg \in DOMAIN Scripts /\ Len(stack) >= MaxDepth
        /\ pc' = "crashed" /\ UNCHANGED stack
  /\ UNCHANGED <<settings, typed, muted>>

-----------------------------------------------------------------------------
(***************************************************************************)
(* The commands that read the keyboard.  When they are done the interrupted *)
(* line goes on; the login after the boot batch leads to the shell.        *)
(***************************************************************************)
GoOn == pc' = IF stack = <<>> THEN "prompt" ELSE "run"
Prompts == UNCHANGED <<stack, buffer, result, mode, drive, path, line>>

NotHidden == UNCHANGED echo \* faulty
HideInput == echo' = FALSE
StaysHidden == echo' = FALSE \* faulty
ShowInput == echo' = TRUE

Login ==
  /\ Executes("login")
  /\ pc' = "login_name"
  /\ UNCHANGED <<stack, settings, typed, muted>>

TypeName ==
  /\ pc = "login_name"
  /\ \E u \in Users : typed' = [typed EXCEPT !.name = u]
  /\ HideInput
  /\ pc' = "login_password"
  /\ Prompts /\ UNCHANGED <<session, muted>>

Rejected == pc' = "login_name"

\* accounts_login() accepts the password, or the terminal asks again.
TypePassword ==
  /\ pc = "login_password"
  /\ ShowInput /\ muted' = FALSE
  /\ \/ session' = typed.name /\ GoOn
     \/ Rejected /\ UNCHANGED session
  /\ typed' = NoInput
  /\ Prompts

Passwd ==
  /\ Executes("passwd")
  /\ pc' = "old_password"
  /\ HideInput
  /\ UNCHANGED <<stack, mode, drive, path, session, typed, muted>>

\* Echo is switched on for the second prompt and off again for its answer.
TypeOldPassword ==
  /\ pc = "old_password"
  /\ HideInput
  /\ pc' = "new_password"
  /\ Prompts /\ UNCHANGED <<session, typed, muted>>

TypeNewPassword ==
  /\ pc = "new_password"
  /\ ShowInput /\ muted' = FALSE
  /\ GoOn
  /\ Prompts /\ UNCHANGED <<session, typed>>

Nano ==
  /\ Executes("nano")
  /\ pc' = "nano"
  /\ typed' = NoInput
  /\ UNCHANGED <<stack, settings, muted>>

EndlessBuffer == TRUE \* faulty
RoomLeft == typed.count < MaxEditorLines

\* A full editor buffer takes no more lines but goes on reading.
TypeText ==
  /\ pc = "nano"
  /\ RoomLeft
  /\ typed' = [typed EXCEPT !.count = @ + 1]
  /\ Prompts /\ UNCHANGED <<pc, echo, session, muted>>

LeaveNano ==
  /\ pc = "nano"
  /\ GoOn
  /\ typed' = NoInput
  /\ Prompts /\ UNCHANGED <<echo, session, muted>>

-----------------------------------------------------------------------------
Runner == NextLine \/ NextCommand \/ Return
Command ==
  \/ Plain \/ Exit \/ SetEcho \/ SetMode \/ ChangeDrive \/ Source
  \/ Login \/ Passwd \/ Nano
User ==
  \/ TypeLine \/ TypeName \/ TypePassword \/ TypeOldPassword \/ TypeNewPassword
  \/ TypeText \/ LeaveNano

Next == Runner \/ Command \/ User

\* The terminal runs; whether and what a user types is up to the user.
Spec == Init /\ [][Next]_vars /\ WF_vars(Runner \/ Command)

-----------------------------------------------------------------------------
Waiting == {"prompt", "login_name", "login_password", "old_password", "new_password", "nano"}

(***************************************************************************)
(* Every variable stays in its range.                                      *)
(***************************************************************************)
TypeOK ==
  /\ pc \in {"run", "exec", "done", "crashed"} \cup Waiting
  /\ \A i \in DOMAIN stack : stack[i].kind \in {"batch", "script", "line"}
  /\ Len(stack) <= MaxDepth + 1
  /\ result \in BOOLEAN /\ echo \in BOOLEAN /\ muted \in BOOLEAN
  /\ mode \in {"batch", "bash"} /\ drive \in Drives /\ path \in Served
  /\ session \in Users \cup {"nobody"}
  /\ typed \in [name : Users \cup {"nobody"}, count : 0 .. MaxEditorLines]

(***************************************************************************)
(* No password is shown: echo is off whenever one is read, from whatever   *)
(* script or line the prompt was reached and whatever it did to the echo.  *)
(***************************************************************************)
PasswordHidden ==
  pc \in {"login_password", "old_password", "new_password"} => ~ echo

(***************************************************************************)
(* A user typing a line, a name or text sees it unless "@echo off" was the *)
(* last command about it: no login or passwd leaves the terminal blind.    *)
(***************************************************************************)
NotLeftBlind ==
  pc \in {"prompt", "login_name", "nano"} => echo \/ muted

(***************************************************************************)
(* The shell ends exactly by an "exit" that is the last command of a line  *)
(* typed at its prompt.  In a script, in the boot batch or before '&' it   *)
(* ends nothing.                                                           *)
(***************************************************************************)
LastTyped == line[Len(line)]

ShellEndsByTypedExit ==
  /\ pc = "done" => LastTyped.op = "exit"
  /\ pc = "prompt" /\ line # <<>> => LastTyped.op # "exit"

(***************************************************************************)
(* "drive set to", printed with the path (efi_main.c:554-555): after a cd  *)
(* with a letter, the path lies on the drive the prompt names.             *)
(***************************************************************************)
DriveSet == pc = "prompt" => path = drive

(***************************************************************************)
(* Every line typed comes to an end, however its scripts are nested: the   *)
(* terminal waits for a key again, leaves for the kernel, or, with a       *)
(* script that sources itself, has run out of stack.                       *)
(***************************************************************************)
ComesBack == pc = "run" ~> pc \in Waiting \cup {"done", "crashed"}
=============================================================================
