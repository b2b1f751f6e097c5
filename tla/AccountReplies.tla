-------------------------- MODULE AccountReplies ---------------------------
(***************************************************************************)
(* The account store with what its caller saw before the call: the table   *)
(* as it was when the machine last waited for a command.                   *)
(***************************************************************************)
EXTENDS MCAccountStore

VARIABLE before  \* <<accounts, account_count>> when the last call began

InitReplies == Init /\ before = <<accounts, account_count>>

NextReplies ==
  /\ Next
  /\ before' = IF pc = "idle" THEN <<accounts, account_count>> ELSE before

SpecReplies == InitReplies /\ [][NextReplies]_<<vars, before>>

-----------------------------------------------------------------------------
(***************************************************************************)
(* The passwd command prints "password not changed" (boot/efi_main.c:631)  *)
(* when accounts_change_password() fails: no password has changed then.    *)
(***************************************************************************)
NotChangedMeansNotChanged ==
  pc = "idle" /\ reply = "failure" /\ account_count = before[2] =>
    \A i \in Used : accounts[i].password = before[1][i].password
=============================================================================
