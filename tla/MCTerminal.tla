----------------------------- MODULE MCTerminal -----------------------------
(***************************************************************************)
(* Small scripts and lines for the terminal.  "outer" sources "inner" in   *)
(* the middle of a line, "inner" ends in exit, "loop" sources itself.      *)
(***************************************************************************)
EXTENDS TerminalRefinement

Cmd(op, arg) == [op |-> op, arg |-> arg]
Do(op) == Cmd(op, "none")

BootLines == << <<Cmd("@echo", "off")>>, <<Do("plain")>> >>

SmallScripts ==
  [inner |-> << <<Cmd("@echo", "on"), Do("passwd")>>, <<Do("exit")>> >>,
   outer |-> << <<Cmd("source", "inner"), Cmd("cd", "C")>>, <<Do("login"), Do("plain")>> >>,
   loop  |-> << <<Do("plain")>>, <<Cmd("source", "loop"), Do("plain")>> >>]

SmallLines ==
  { <<Do("exit")>>, <<Do("exit"), Do("plain")>>, <<Do("plain"), Do("exit")>>,
    <<Cmd("source", "inner")>>, <<Cmd("source", "outer"), Do("passwd")>>,
    <<Cmd("source", "loop")>>, <<Cmd("source", "missing"), Do("nano")>>,
    <<Cmd("@echo", "off")>>, <<Cmd("@echo", "off"), Do("login")>>,
    <<Cmd("mode", "bash")>>, <<Cmd("mode", "batch")>>,
    <<Cmd("cd", "B")>>, <<Cmd("cd", "Z"), Cmd("cd", "C")>>, <<Cmd("cd", "Z")>>,
    <<Do("nano"), Do("passwd")>> }
=============================================================================
