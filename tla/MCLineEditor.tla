---------------------------- MODULE MCLineEditor ----------------------------
(* The prompts of a model: a name, shown, and a password, hidden. *)
EXTENDS LineEditor

NameAndPassword == {[max |-> 3, echo |-> TRUE], [max |-> 3, echo |-> FALSE]}
Colon == <<":">>
=============================================================================
