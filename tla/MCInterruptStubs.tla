-------------------------- MODULE MCInterruptStubs --------------------------
(***************************************************************************)
(* Addresses of eight bits for the stubs, with something in every part.    *)
(***************************************************************************)
EXTENDS InterruptStubs

SmallAddresses == [v \in 0 .. 15 |-> 15 * v + 27]
=============================================================================
