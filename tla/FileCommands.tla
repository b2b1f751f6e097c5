---------------------------- MODULE FileCommands ----------------------------
(***************************************************************************)
(* The terminal's commands on files, cat, touch, rm, write, append and     *)
(* source, in boot/efi_main.c, and the firmware's file protocol below      *)
(* them.  One action is one firmware call and the code up to the next; any *)
(* call may fail, and EFI_ERROR() counts warnings as failures.             *)
(*                                                                         *)
(* The volume is a function from the names of its files to their bytes.    *)
(* Flush() and Close() have no effect on it and their results are not      *)
(* looked at.  Executing the lines of a script is Terminal.tla's matter.   *)
(* Definitions marked "faulty" are slips the checked properties must       *)
(* notice.                                                                 *)
(***************************************************************************)
EXTENDS Integers, SequencesExt

CONSTANTS
  Names,        \* names of files
  Volumes,      \* the volumes a run may begin with
  Texts,        \* what write and append put into each file, the end of line included
  Chunk,        \* bytes cat reads at a time
  ScriptBytes,  \* bytes source reads of a file
  LineRoom,     \* TERMINAL_MAX_LINE
  Faults,       \* the firmware calls that may fail
  MaxSize       \* bound: bytes in a file

Creating == {"touch", "write", "append"}  \* the commands that open with EFI_FILE_MODE_CREATE

Commands ==
  [op : {"cat", "touch", "rm", "source"}, name : Names, text : {<<>>}]
    \cup UNION {[op : {"write", "append"}, name : {n}, text : Texts[n]] : n \in Names}

\* What a file may hold, a byte being the name of a character.
Contents == {bytes \in Seq(STRING) : Len(bytes) <= MaxSize}

ASSUME FileAssumption ==
  /\ Chunk \in Nat \ {0} /\ ScriptBytes \in Nat \ {0} /\ LineRoom \in Nat \ {0, 1}
  /\ Faults \subseteq {"locate", "volume", "open", "read", "delete", "seek", "write"}
  /\ MaxSize \in Nat
  /\ \A v \in Volumes : DOMAIN v \subseteq Names /\ v \in [DOMAIN v -> Contents]
  /\ \A n \in Names : Texts[n] \subseteq Contents

VARIABLES
  volume,     \* the files and their bytes
  handles,    \* handles open at the firmware: "root", "file"
  pc,         \* "shell", or the firmware call a command makes next
  cmd,        \* the command
  pos,        \* the position of the open file
  shown,      \* the bytes cat has printed
  ran,        \* the lines source has executed
  reply,      \* what the function of the command returned: "done" or "failed"
  before,     \* history: the volume when the command began
  misplaced   \* history: SetPosition() failed in this append

report == <<shown, ran, reply>>
vars == <<volume, handles, pc, cmd, pos, report, before, misplaced>>

Init ==
  /\ volume \in Volumes /\ before = volume
  /\ handles = {} /\ pc = "shell" /\ cmd = [op |-> "none", name |-> "none", text |-> <<>>]
  /\ pos = 0 /\ shown = <<>> /\ ran = <<>> /\ reply = "none" /\ misplaced = FALSE

Exists == cmd.name \in DOMAIN volume
Bytes == volume[cmd.name]

Returns(r) == pc' = "shell" /\ reply' = r

Start(c) ==
  /\ pc = "shell"
  /\ c.op = "append" /\ c.name \in DOMAIN volume => Len(volume[c.name]) + Len(c.text) <= MaxSize
  /\ pc' = "locate" /\ cmd' = c
  /\ pos' = 0 /\ shown' = <<>> /\ ran' = <<>> /\ reply' = "none"
  /\ before' = volume /\ misplaced' = FALSE
  /\ UNCHANGED <<volume, handles>>

-----------------------------------------------------------------------------
(***************************************************************************)
(* terminal_open_file(): the root is closed again whether or not the file  *)
(* could be opened in it.                                                  *)
(***************************************************************************)
Locate ==
  /\ pc = "locate"
  /\ pc' = "volume"
  /\ UNCHANGED <<volume, handles, cmd, pos, report, before, misplaced>>

OpenVolume ==
  /\ pc = "volume"
  /\ pc' = "open" /\ handles' = handles \cup {"root"}
  /\ UNCHANGED <<volume, cmd, pos, report, before, misplaced>>

FirstCall ==
  [cat |-> "read", source |-> "read", rm |-> "delete", touch |-> "close",
   write |-> "seek", append |-> "seek"]

WithFile(files, name, bytes) ==
  [n \in DOMAIN files \cup {name} |-> IF n = name THEN bytes ELSE files[n]]
WithNewFile == WithFile(volume, cmd.name, <<>>)

AlwaysCreates == TRUE \* faulty
Creates == cmd.op \in Creating

OpenFile ==
  /\ pc = "open"
  /\ \/ /\ Exists \/ Creates
        /\ volume' = IF Exists THEN volume ELSE WithNewFile
        /\ handles' = (handles \ {"root"}) \cup {"file"}
        /\ pc' = FirstCall[cmd.op]
        /\ UNCHANGED reply
     \/ /\ ~ Exists /\ ~ Creates
        /\ handles' = handles \ {"root"}
        /\ Returns("failed")
        /\ UNCHANGED volume
  /\ UNCHANGED <<cmd, pos, shown, ran, before, misplaced>>

-----------------------------------------------------------------------------
CloseFile == handles' = handles \ {"file"}

OnlyOnce(count) == FALSE \* faulty
UpToChunk(count) == count <= Chunk \* faulty
WholeChunk(count) == count = Chunk

\* cat reads and prints a chunk, until one is not full.
ReadChunk ==
  /\ pc = "read" /\ cmd.op = "cat"
  /\ LET count == IF Len(Bytes) - pos < Chunk THEN Len(Bytes) - pos ELSE Chunk
     IN  /\ shown' = shown \o SubSeq(Bytes, pos + 1, pos + count)
         /\ pos' = pos + count
         /\ IF WholeChunk(count) THEN UNCHANGED <<pc, reply, handles>>
                                 ELSE Returns("done") /\ CloseFile
  /\ UNCHANGED <<volume, cmd, ran, before, misplaced>>

(***************************************************************************)
(* source reads once, and executes every line that is not empty.  Carriage *)
(* returns are skipped, as is what of a line there is no room for; what    *)
(* follows the last end of line is a line as well.                         *)
(***************************************************************************)
EndLine(s) == [line |-> <<>>, lines |-> IF s.line = <<>> THEN s.lines ELSE Append(s.lines, s.line)]

FitsTight(line) == Len(line) < LineRoom \* faulty
Fits(line) == Len(line) + 1 < LineRoom

TakeByte(s, b) ==
  CASE b = "cr" -> s
    [] b = "nl" -> EndLine(s)
    [] OTHER    -> IF Fits(s.line) THEN [s EXCEPT !.line = Append(@, b)] ELSE s

ScriptLines(bytes) ==
  LET State[n \in 0 .. Len(bytes)] ==
        IF n = 0 THEN [line |-> <<>>, lines |-> <<>>] ELSE TakeByte(State[n - 1], bytes[n])
  IN  EndLine(State[Len(bytes)]).lines

AtMost(bytes, n) == IF Len(bytes) <= n THEN bytes ELSE SubSeq(bytes, 1, n)

ReadScript ==
  /\ pc = "read" /\ cmd.op = "source"
  /\ ran' = ScriptLines(AtMost(Bytes, ScriptBytes))
  /\ Returns("done") /\ CloseFile
  /\ UNCHANGED <<volume, cmd, pos, shown, before, misplaced>>

CloseTouched ==
  /\ pc = "close"
  /\ Returns("done") /\ CloseFile
  /\ UNCHANGED <<volume, cmd, pos, shown, ran, before, misplaced>>

\* Delete() closes the handle.
DeleteFile ==
  /\ pc = "delete"
  /\ volume' = Restrict(volume, DOMAIN volume \ {cmd.name})
  /\ Returns("done") /\ CloseFile
  /\ UNCHANGED <<cmd, pos, shown, ran, before, misplaced>>

-----------------------------------------------------------------------------
(***************************************************************************)
(* terminal_write_file().  Nothing shortens the file, and an append does   *)
(* not look at what SetPosition() returns.                                 *)
(***************************************************************************)
StartOfFile == 0 \* faulty
EndOfFile == Len(Bytes)

Seek ==
  /\ pc = "seek"
  /\ pos' = IF cmd.op = "append" THEN EndOfFile ELSE 0
  /\ pc' = "write"
  /\ UNCHANGED <<volume, handles, cmd, report, before, misplaced>>

SeekIgnored ==
  /\ pc = "seek" /\ cmd.op = "append" /\ "seek" \in Faults
  /\ pc' = "write" /\ misplaced' = TRUE
  /\ UNCHANGED <<volume, handles, cmd, pos, report, before>>

Inserted(bytes, at, text) == SubSeq(bytes, 1, at) \o text \o SubSeq(bytes, at + 1, Len(bytes)) \* faulty
Overlaid(bytes, at, text) ==
  SubSeq(bytes, 1, at) \o text \o SubSeq(bytes, at + Len(text) + 1, Len(bytes))

Puts(text) == volume' = [volume EXCEPT ![cmd.name] = Overlaid(@, pos, text)]

WriteText ==
  /\ pc = "write"
  /\ Puts(cmd.text)
  /\ Returns("done") /\ CloseFile
  /\ UNCHANGED <<cmd, pos, shown, ran, before, misplaced>>

-----------------------------------------------------------------------------
(***************************************************************************)
(* A firmware call fails and the command gives up, having closed what it   *)
(* has opened; Delete() closes its handle even then.  A write that fails   *)
(* may have put down a beginning of the text.                              *)
(***************************************************************************)
LeaveFileOpen == handles' = handles \ {"root"} \* faulty
CloseFailed == handles' = handles \ {"root", "file"}

CallFails ==
  /\ pc \in Faults /\ ~ (pc = "seek" /\ cmd.op = "append")
  /\ IF pc = "write" THEN \E k \in 0 .. Len(cmd.text) - 1 : Puts(SubSeq(cmd.text, 1, k))
                     ELSE UNCHANGED volume
  /\ Returns("failed") /\ CloseFailed
  /\ UNCHANGED <<cmd, pos, shown, ran, before, misplaced>>

-----------------------------------------------------------------------------
Run ==
  \/ Locate \/ OpenVolume \/ OpenFile
  \/ ReadChunk \/ ReadScript \/ CloseTouched \/ DeleteFile
  \/ Seek \/ WriteText
Fault == SeekIgnored \/ CallFails

Starts == \E c \in Commands : Start(c)

-----------------------------------------------------------------------------
(***************************************************************************)
(* Every handle is closed when a command returns, whichever call failed.   *)
(***************************************************************************)
HandlesClosed == pc = "shell" => handles = {}

Ended(ops) == pc = "shell" /\ cmd.op \in ops

(***************************************************************************)
(* A cat that succeeds has printed the whole file, one that fails nothing  *)
(* but a beginning of it, also where the file fills its last chunk.        *)
(***************************************************************************)
CatPrintsFile ==
  Ended({"cat"}) =>
    /\ reply = "done" => Exists /\ shown = Bytes
    /\ shown # <<>> => Exists /\ IsPrefix(shown, Bytes)

(***************************************************************************)
(* A source that succeeds has executed the lines of the file that hold     *)
(* more than carriage returns, in order and once, each as far as there is  *)
(* room for it, and none after the bytes it reads.                         *)
(***************************************************************************)
WithByte(lines, b) ==
  CASE b = "nl" -> Append(lines, <<>>)
    [] b = "cr" -> lines
    [] OTHER    -> [lines EXCEPT ![Len(lines)] = Append(@, b)]

LinesOf(bytes) ==
  LET Lines[n \in 0 .. Len(bytes)] ==
        IF n = 0 THEN <<<<>>>> ELSE WithByte(Lines[n - 1], bytes[n])
  IN  Lines[Len(bytes)]

\* Those of the first m lines that hold something have been executed.
Executed(done, lines, m) ==
  LET inked == {k \in 1 .. m : lines[k] # <<>>}
  IN  /\ Len(done) = Cardinality(inked)
      /\ \A k \in inked :
           done[Cardinality({j \in inked : j <= k})] = AtMost(lines[k], LineRoom - 1)

SourceRunsLines ==
  Ended({"source"}) =>
    IF reply = "done"
      THEN LET lines == LinesOf(AtMost(Bytes, ScriptBytes)) IN Executed(ran, lines, Len(lines))
      ELSE ran = <<>>

(***************************************************************************)
(* What a command that reports success has done to the volume: to its own  *)
(* file what its name says, and nothing else.  A write leaves what lies    *)
(* behind its text, so a shorter text does not replace a longer one; an    *)
(* append whose SetPosition() failed has written at the beginning.         *)
(***************************************************************************)
Old == IF cmd.name \in DOMAIN before THEN before[cmd.name] ELSE <<>>

Effect ==
  CASE cmd.op = "touch" -> WithFile(before, cmd.name, Old)
    [] cmd.op = "rm"    -> Restrict(before, DOMAIN before \ {cmd.name})
    [] cmd.op = "append" /\ ~ misplaced -> WithFile(before, cmd.name, Old \o cmd.text)
    [] cmd.op = "write" \/ (cmd.op = "append" /\ misplaced) ->
         WithFile(before, cmd.name, cmd.text \o SubSeq(Old, Len(cmd.text) + 1, Len(Old)))
    [] OTHER -> before

DoneMeansDone == pc = "shell" /\ reply = "done" => volume = Effect

(***************************************************************************)
(* A command that reports failure has changed nothing; only a write or an  *)
(* append may have touched its own file, and may have created it.          *)
(***************************************************************************)
FailureIsContained ==
  pc = "shell" /\ reply = "failed" =>
    IF cmd.op \in {"write", "append"}
      THEN /\ DOMAIN before \subseteq DOMAIN volume
           /\ \A n \in DOMAIN volume \ {cmd.name} : n \in DOMAIN before /\ volume[n] = before[n]
      ELSE volume = before
=============================================================================
