------------------------- MODULE TerminalRefinement -------------------------
(***************************************************************************)
(* The terminal implements CommandQueue.                                   *)
(***************************************************************************)
EXTENDS Terminal, SequencesExt

(***************************************************************************)
(* The commands a terminal has still to execute: the one in the buffer and *)
(* what the frames of the call stack have left, innermost first.           *)
(***************************************************************************)
LeftIn(frame) == IF frame.kind = "line" THEN frame.rest ELSE FlattenSeq(frame.rest)

Pending ==
  (IF pc \in {"exec", "crashed"} THEN <<buffer>> ELSE <<>>)
    \o FlattenSeq([i \in DOMAIN stack |-> LeftIn(stack[i])])

Queue ==
  INSTANCE CommandQueue
    WITH Boot <- FlattenSeq(Autoexec), Files <- Scripts, Input <- Lines, todo <- Pending

(***************************************************************************)
(* Commands are executed once each and in the order they were written in,  *)
(* through nested scripts, '&' lists and the one parse buffer they share.  *)
(***************************************************************************)
ImplementsQueue == Queue!Spec
=============================================================================
