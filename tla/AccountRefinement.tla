------------------------- MODULE AccountRefinement -------------------------
(***************************************************************************)
(* accounts.c implements AccountLedger when its file is one disk block,    *)
(* which a crash writes wholly or not at all.                              *)
(***************************************************************************)
EXTENDS MCAccountStore

\* What the ledger knows of an entry: the password, without the bytes behind it.
Secret(buffer) == CHOOSE p \in Passwords : Holds(buffer, p)
View(a) == [name |-> a.name, password |-> Secret(a.password), admin |-> a.admin]

Installed == [name |-> AdminName, password |-> AdminPassword, admin |-> TRUE]

TableOf(count, entries) == [k \in 1 .. count |-> View(entries[k - 1])]

\* The table accounts_init() would find in a store: its own, or the default.
Readable(store) ==
  IF store.count = 0 THEN <<Installed>> ELSE TableOf(store.count, store.table)

Current == IF pc = "off" THEN Readable(disk[0]) ELSE TableOf(account_count, accounts)

Ledger ==
  INSTANCE AccountLedger
    WITH UserNames <- Names, Secrets <- Passwords, First <- Installed, Limit <- MaxUsers,
         table <- Current,
         possible <- {Current, Readable(cache[0]), Readable(disk[0])}

(***************************************************************************)
(* Whatever calls fail and whenever the machine stops, users of            *)
(* accounts_add(), accounts_change_password() and accounts_init() see the  *)
(* ledger: each update is kept whole or lost whole, and a restart brings   *)
(* back a table the users have seen since the last completed save.         *)
(***************************************************************************)
ImplementsLedger == Ledger!Spec
=============================================================================
