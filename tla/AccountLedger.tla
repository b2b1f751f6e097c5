--------------------------- MODULE AccountLedger ---------------------------
(***************************************************************************)
(* What the account database promises its users, without its files: one    *)
(* table that changes one account at a time, and the set of tables a       *)
(* restart may bring back.  Every table of that set is the current one or  *)
(* one that was current since the last update that reached the disk, so a  *)
(* restart can undo recent updates but never mix two of them.              *)
(***************************************************************************)
EXTENDS Integers, Sequences

CONSTANTS UserNames,  \* the names an account may be given
          Secrets,    \* the passwords an account may be given
          First,      \* the account of a new installation
          Limit       \* how many accounts the table can hold

VARIABLES table,    \* the accounts, in the order of their creation
          possible  \* the tables a restart may bring back

ledger == <<table, possible>>

NamesIn(t) == {t[i].name : i \in DOMAIN t}

Init ==
  /\ table = <<First>>
  /\ possible = {<<First>>}

(***************************************************************************)
(* One update: a new account, which is no administrator and has a name of  *)
(* its own, or a new password for an existing account.                     *)
(***************************************************************************)
Grown(t) ==
  {Append(t, [name |-> n, password |-> p, admin |-> FALSE]) :
     n \in UserNames \ NamesIn(t), p \in Secrets}

Changed(t) ==
  {[t EXCEPT ![i].password = p] : i \in DOMAIN t, p \in Secrets}

Change ==
  /\ table' \in Changed(table) \cup (IF Len(table) < Limit THEN Grown(table) ELSE {})
  /\ table' \in possible'
  /\ possible' \subseteq possible \cup {table'}

\* Something reached the disk, so some older tables are gone for good.
Settle ==
  /\ possible' \subseteq possible
  /\ table \in possible'
  /\ UNCHANGED table

Restart ==
  /\ table' \in possible
  /\ possible' = {table'}

Next == Change \/ Settle \/ Restart

Spec == Init /\ [][Next]_ledger
=============================================================================
