---------------------------- MODULE CommandQueue ----------------------------
(***************************************************************************)
(* What the terminal promises about the order of commands, without its     *)
(* call stack, its shared parse buffer and its keyboard: there is one      *)
(* queue.  A command is taken from its front; "source" puts the commands   *)
(* of a script there; a new line is accepted when the queue is empty.      *)
(***************************************************************************)
EXTENDS Sequences, SequencesExt

CONSTANTS Boot,   \* the commands run before anybody can type
          Files,  \* the lines of each script
          Input   \* the lines a user may type

VARIABLE todo     \* the commands that are still to be executed, in order

Init == todo = Boot

IsScript(c) == c.op = "source" /\ c.arg \in DOMAIN Files

Execute ==
  /\ todo # <<>>
  /\ todo' = (IF IsScript(Head(todo)) THEN FlattenSeq(Files[Head(todo).arg]) ELSE <<>>)
             \o Tail(todo)

Accept ==
  /\ todo = <<>>
  /\ todo' \in Input

Spec == Init /\ [][Execute \/ Accept]_todo
=============================================================================
