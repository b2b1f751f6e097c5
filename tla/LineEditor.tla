----------------------------- MODULE LineEditor -----------------------------
(***************************************************************************)
(* terminal_read_line() of boot/efi_main.c, which every prompt uses, and   *)
(* the firmware's keyboard beside it.  Keys may be pressed at any time,    *)
(* before a prompt as well; the firmware keeps them until they are read.   *)
(*                                                                         *)
(* The loop calls ReadKeyStroke() without looking at its status and works  *)
(* on the local `key`.  When no key is waiting the firmware clears it, or  *)
(* leaves what was there: the key before, or at first whatever lay on the  *)
(* stack.  Definitions marked "faulty" are slips the checked properties    *)
(* must notice.                                                            *)
(***************************************************************************)
EXTENDS Integers, SequencesExt

CONSTANTS
  Chars,     \* the characters a line is made of
  Requests,  \* how the callers call it: [max, echo], buffer size and echo setting
  Prompt,    \* what a caller has put on the screen's line before
  MayKeep,   \* whether the firmware may leave the key when none is waiting
  Waiting,   \* how many keys the firmware keeps
  MaxKeys,   \* bound: keys pressed in all
  MaxLines   \* bound: lines read in all

\* "none" is a key without a character: an arrow, a function key.
Keys == Chars \cup {"enter", "back", "none"}

ASSUME EditorAssumption ==
  /\ Chars \cap {"enter", "back", "none"} = {}
  /\ Requests # {} /\ Requests \subseteq [max : Nat \ {0}, echo : BOOLEAN]
  /\ Prompt \in Seq(STRING) /\ MayKeep \in BOOLEAN
  /\ Waiting \in Nat /\ MaxKeys \in Nat /\ MaxLines \in Nat

VARIABLES
  pc,        \* "caller" or "reading"
  request,   \* the arguments of the current call
  key,       \* the local variable the firmware writes to
  line,      \* the first length characters of the caller's buffer
  screen,    \* what the screen shows on the cursor's line
  keyboard,  \* keys pressed and not yet read
  pressed,   \* history: all keys pressed
  got,       \* history: the lines returned, with the size of their buffers
  repeated   \* history: a key that was left in `key` has been taken again

editor == <<pc, request, key, line, screen>>
vars == <<editor, keyboard, pressed, got, repeated>>

Init ==
  /\ pc = "caller" /\ request \in Requests /\ key = "none"
  /\ line = <<>> /\ screen = <<>>
  /\ keyboard = <<>> /\ pressed = <<>> /\ got = <<>> /\ repeated = FALSE

Press(k) ==
  /\ Len(pressed) < MaxKeys /\ Len(keyboard) < Waiting
  /\ keyboard' = Append(keyboard, k)
  /\ pressed' = Append(pressed, k)
  /\ UNCHANGED <<editor, got, repeated>>

\* The key before the first ReadKeyStroke() is whatever the stack held.
Call(r) ==
  /\ pc = "caller" /\ Len(got) < MaxLines
  /\ pc' = "reading" /\ request' = r
  /\ key' \in IF MayKeep THEN Keys ELSE {"none"}
  /\ line' = <<>> /\ screen' = Prompt
  /\ UNCHANGED <<keyboard, pressed, got, repeated>>

-----------------------------------------------------------------------------
(***************************************************************************)
(* One round of the loop: ReadKeyStroke() leaves k in `key`, and k is      *)
(* dealt with.                                                             *)
(***************************************************************************)
NextKey(k) ==
  keyboard # <<>> /\ k = Head(keyboard) /\ keyboard' = Tail(keyboard) /\ UNCHANGED repeated

NoKey(k) ==
  /\ keyboard = <<>> /\ UNCHANGED keyboard
  /\ \/ k = "none" /\ UNCHANGED repeated
     \/ MayKeep /\ k = key /\ repeated' = (repeated \/ k # "none")

Reads(k) ==
  /\ pc = "reading"
  /\ NextKey(k) \/ NoKey(k)
  /\ key' = k
  /\ UNCHANGED <<request, pressed>>

NoChar ==
  /\ Reads("none")
  /\ UNCHANGED <<pc, line, screen, got>>

FullAtMax == Len(line) >= request.max \* faulty
Full == Len(line) + 1 >= request.max

HeardIfRoom == ~ Full \* faulty
EnterHeard == TRUE

Enter ==
  /\ Reads("enter") /\ EnterHeard
  /\ got' = Append(got, [text |-> line, max |-> request.max])
  /\ pc' = "caller" /\ screen' = <<>>
  /\ UNCHANGED line

\* Writing "\b \b" moves the cursor back over a character that is blanked.
Erased(text) == IF text = <<>> THEN <<>> ELSE Front(text)

ErasableIfRoom == line # <<>> /\ ~ Full \* faulty
Erasable == line # <<>>

Back ==
  /\ Reads("back")
  /\ IF Erasable THEN line' = Front(line) /\ screen' = Erased(screen)
                 ELSE UNCHANGED <<line, screen>>
  /\ UNCHANGED <<pc, got>>

ShowDropped(c) == screen' = IF request.echo THEN Append(screen, c) ELSE screen \* faulty
HideDropped(c) == UNCHANGED screen

Drop(c) ==
  /\ Reads(c) /\ Full
  /\ HideDropped(c)
  /\ UNCHANGED <<pc, line, got>>

Type(c) ==
  /\ Reads(c) /\ ~ Full
  /\ line' = Append(line, c)
  /\ screen' = IF request.echo THEN Append(screen, c) ELSE screen
  /\ UNCHANGED <<pc, got>>

-----------------------------------------------------------------------------
Read == NoChar \/ Enter \/ Back \/ \E c \in Chars : Drop(c) \/ Type(c)
Calls == \E r \in Requests : Call(r)

Next == Read \/ Calls \/ \E k \in Keys : Press(k)

\* The terminal polls the keyboard and its callers ask again.
Spec == Init /\ [][Next]_vars /\ WF_vars(Read) /\ WF_vars(Calls)

-----------------------------------------------------------------------------
(***************************************************************************)
(* Every variable stays in its range; the line and its terminating zero    *)
(* fit into the caller's buffer, even with firmware that repeats keys.     *)
(***************************************************************************)
TypeOK ==
  /\ pc \in {"caller", "reading"} /\ request \in Requests /\ key \in Keys
  /\ line \in Seq(Chars) /\ Len(line) < request.max
  /\ screen \in Seq(Chars \cup ToSet(Prompt))
  /\ keyboard \in Seq(Keys) /\ pressed \in Seq(Keys)
  /\ repeated \in BOOLEAN

(***************************************************************************)
(* While echo is on the screen shows the prompt and exactly the line that  *)
(* would be returned, through backspaces, keys without a character and     *)
(* keys for which there is no room.  While it is off nothing typed is ever *)
(* shown.  (Backspace then still blanks the character before the cursor,   *)
(* which belongs to the prompt: the screen shows a beginning of it.)       *)
(***************************************************************************)
ScreenShowsLine ==
  pc = "reading" =>
    IF request.echo THEN screen = Prompt \o line ELSE IsPrefix(screen, Prompt)

(***************************************************************************)
(* Every key pressed goes into one line, in order, and none twice: the     *)
(* lines returned and the one being read are those typed, where Enter ends *)
(* a line, Backspace takes the last character back and characters beyond   *)
(* the buffer are left out.  This needs firmware that clears the key.      *)
(***************************************************************************)
Edit(text, k, max) ==
  CASE k \in Chars -> IF Len(text) < max - 1 THEN Append(text, k) ELSE text
    [] k = "back"  -> Erased(text)
    [] OTHER       -> text

Edited(keys, max) ==
  LET Text[n \in 0 .. Len(keys)] ==
        IF n = 0 THEN <<>> ELSE Edit(Text[n - 1], keys[n], max)
  IN  Text[Len(keys)]

Typed(lines, k) ==
  IF k = "enter" THEN Append(lines, <<>>)
                 ELSE [lines EXCEPT ![Len(lines)] = Append(@, k)]

\* The keys of each line, those of the line that no Enter has ended last.
LinesOf(keys) ==
  LET Lines[n \in 0 .. Len(keys)] ==
        IF n = 0 THEN <<<<>>>> ELSE Typed(Lines[n - 1], keys[n])
  IN  Lines[Len(keys)]

Taken == SubSeq(pressed, 1, Len(pressed) - Len(keyboard))

LinesAreTyped ==
  ~ repeated =>
    LET lines == LinesOf(Taken) IN
      /\ Len(lines) = Len(got) + 1
      /\ \A n \in DOMAIN got : got[n].text = Edited(lines[n], got[n].max)
      /\ pc = "reading" => line = Edited(lines[Len(lines)], request.max)

(***************************************************************************)
(* Enter ends the line it was pressed in, even when the line is full.      *)
(***************************************************************************)
Enters == Len(SelectSeq(pressed, LAMBDA k : k = "enter"))

EnterEndsLine == \A n \in 1 .. MaxLines : Enters >= n ~> Len(got) >= n
=============================================================================
