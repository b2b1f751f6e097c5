------------------------- MODULE AccountStoreProofs -------------------------
(***************************************************************************)
(* What accounts.c guarantees for every table size, every set of names and *)
(* passwords, every layout of the file over disk blocks and every set of   *)
(* failing calls.                                                          *)
(***************************************************************************)
EXTENDS AccountRefinement, SequenceTheorems, TLAPS

(***************************************************************************)
(* copy() of a password into a buffer gives a buffer, and equal() finds    *)
(* that password in it and no other.                                       *)
(***************************************************************************)
LEMMA CopiedTyped ==
  ASSUME NEW buffer \in Buffers, NEW p \in Passwords
  PROVE  Copied(buffer, p) \in Buffers
<1>1. p \in Seq(Chars) /\ Len(p) \in Nat
  BY ConstantsAssumption
<1>2. \A k \in Places : k <= Len(p) => p[k] \in Chars
  BY <1>1 DEF Places
<1> QED
  BY <1>1, <1>2 DEF Copied, Buffers

LEMMA CopiedHolds ==
  ASSUME NEW buffer, NEW p \in Passwords
  PROVE  Holds(Copied(buffer, p), p)
<1>1. Len(p) \in 1 .. TextMax /\ TextMax \in Nat
  BY ConstantsAssumption
<1>2. Len(p) + 1 \in Places /\ 1 .. Len(p) \subseteq Places
  BY <1>1 DEF Places
<1> QED
  BY <1>1, <1>2 DEF Holds, Copied

LEMMA HoldsOne ==
  ASSUME NEW buffer, NEW p \in Passwords, NEW q \in Passwords,
         Holds(buffer, p), Holds(buffer, q)
  PROVE  p = q
<1>1. /\ p \in Seq(Chars) /\ q \in Seq(Chars) /\ NUL \notin Chars
      /\ Len(p) \in Nat /\ Len(q) \in Nat
  BY ConstantsAssumption
<1>2. /\ \A k \in 1 .. Len(p) : buffer[k] \in Chars
      /\ \A k \in 1 .. Len(q) : buffer[k] \in Chars
  BY <1>1 DEF Holds
<1>3. Len(p) = Len(q)
  <2>1. ~ Len(p) < Len(q)
    BY <1>1, <1>2 DEF Holds
  <2>2. ~ Len(q) < Len(p)
    BY <1>1, <1>2 DEF Holds
  <2> QED
    BY <1>1, <2>1, <2>2
<1>4. \A k \in 1 .. Len(p) : p[k] = q[k]
  BY <1>3 DEF Holds
<1> QED
  BY <1>1, <1>3, <1>4, SeqEqual

\* So the ledger's view of a buffer is the password that was copied into it.
LEMMA SecretCopied ==
  ASSUME NEW buffer, NEW p \in Passwords
  PROVE  Secret(Copied(buffer, p)) = p
<1>1. Holds(Copied(buffer, p), Secret(Copied(buffer, p))) /\ Secret(Copied(buffer, p)) \in Passwords
  BY CopiedHolds DEF Secret
<1> QED
  BY <1>1, CopiedHolds, HoldsOne

(***************************************************************************)
(* The default table and the contents of a new disk are tables of          *)
(* accounts.                                                               *)
(***************************************************************************)
LEMMA Defaults ==
  /\ Blank \in Account /\ Garbage \in Account /\ Admin \in Account
  /\ MaxUsers \in Nat /\ MaxUsers > 0 /\ 0 \in Slots /\ 0 \in Blocks
<1>1. Zeroed \in Buffers /\ [k \in Places |-> CHOOSE c \in Chars : TRUE] \in Buffers
  BY ConstantsAssumption DEF Zeroed, Buffers
<1>2. Copied(Zeroed, AdminPassword) \in Buffers
  BY <1>1, CopiedTyped, ConstantsAssumption
<1> QED
  BY <1>1, <1>2, ConstantsAssumption DEF Blank, Garbage, Admin, Account, Slots

(***************************************************************************)
(* What accounts_load() assembles from the blocks is a table of accounts.  *)
(***************************************************************************)
LEMMA EntryTyped ==
  ASSUME disk \in [Blocks -> Store], NEW i \in Slots
  PROVE  Entry(i) \in Account
<1>1. /\ BlockOf[i].name \in Blocks /\ BlockOf[i].admin \in Blocks
      /\ \A k \in Places : BlockOf[i].password[k] \in Blocks
  BY ConstantsAssumption DEF Layout
<1>2. \A b \in Blocks : disk[b].table[i] \in Account
  BY DEF Store
<1>3. \A b \in Blocks, k \in Places : disk[b].table[i].password[k] \in Chars \cup {NUL}
  BY <1>2 DEF Account, Buffers
<1>4. [k \in Places |-> disk[BlockOf[i].password[k]].table[i].password[k]] \in Buffers
  BY <1>1, <1>3 DEF Buffers
<1>5. disk[BlockOf[i].name].table[i].name \in Names \cup {Empty, Junk}
        /\ disk[BlockOf[i].admin].table[i].admin \in BOOLEAN
  BY <1>1, <1>2 DEF Account
<1> QED
  BY <1>4, <1>5 DEF Entry, Account

(***************************************************************************)
(* Every variable stays in its range: the session index lies in the used   *)
(* part of the table whenever the machine runs, so accounts_is_admin() and *)
(* accounts_current_user() read an entry that exists.                      *)
(***************************************************************************)
THEOREM TypeCorrect == Spec => []TypeOK
<1>1. Init => TypeOK
  <2> SUFFICES ASSUME Init PROVE TypeOK
    OBVIOUS
  <2>1. disk \in [Blocks -> Store]
    <3>1. PICK old \in {Blank, Garbage} :
            disk = [b \in Blocks |-> [count |-> 0, table |-> [i \in Slots |-> old]]]
      BY DEF Init
    <3>2. [count |-> 0, table |-> [i \in Slots |-> old]] \in Store
      BY Defaults DEF Store
    <3> QED
      BY <3>1, <3>2
  <2>2. accounts \in [Slots -> Account] /\ promise \in [Slots -> SUBSET Account]
    BY Defaults DEF Init
  <2>3. account_count \in 0 .. MaxUsers /\ current_account \in -1 .. account_count - 1
    BY Defaults DEF Init
  <2> QED
    BY <2>1, <2>2, <2>3 DEF Init, TypeOK
<1>2. TypeOK /\ [Next]_vars => TypeOK'
  <2> SUFFICES ASSUME TypeOK, [Next]_vars PROVE TypeOK'
    OBVIOUS
  <2> USE Defaults
  <2>1. CASE BootLoaded
    <3>1. disk[0] \in Store
      BY DEF TypeOK
    <3>2. \A i \in Slots : Entry(i) \in Account
      BY EntryTyped DEF TypeOK
    <3>3. accounts' \in [Slots -> Account]
      BY <2>1, <3>2 DEF BootLoaded
    <3>4. account_count' \in 0 .. MaxUsers /\ account_count' >= 1
            /\ current_account' \in -1 .. account_count' - 1
      BY <2>1, <3>1 DEF BootLoaded, Store
    <3> HIDE Defaults
    <3> QED
      BY <2>1, <3>3, <3>4 DEF BootLoaded, TypeOK, file
  <2>2. CASE BootDefault
    BY <2>2 DEF BootDefault, TypeOK, file, history
  <2>3. ASSUME NEW n \in NameTexts, NEW p \in PasswordTexts, Login(n, p)
        PROVE  TypeOK'
    BY <2>3 DEF Login, Matching, Used, TypeOK, file, history
  <2>4. ASSUME NEW n \in NameTexts, NEW p \in PasswordTexts, LoginRefused(n, p)
        PROVE  TypeOK'
    BY <2>4 DEF LoginRefused, TypeOK, memory, file, history
  <2>5. ASSUME NEW n \in NameTexts, NEW p \in PasswordTexts, Add(n, p)
        PROVE  TypeOK'
    <3>1. account_count \in Slots
      BY <2>5 DEF Add, MayAdd, Full, IsNew, FreeSlot, TypeOK, Slots
    <3>2. NewAccount(n, p) \in Account
      <4>1. Copied(accounts[account_count].password, p) \in Buffers
        BY <2>5, <3>1, CopiedTyped DEF Add, MayAdd, TypeOK, Account
      <4> QED
        BY <2>5, <4>1 DEF Add, MayAdd, NewAccount, FreeSlot, Account
    <3>3. accounts' \in [Slots -> Account]
      BY <2>5, <3>1, <3>2 DEF Add, FreeSlot, TypeOK
    <3> QED
      BY <2>5, <3>1, <3>3 DEF Add, TypeOK, file, history, Slots
  <2>6. ASSUME NEW n \in NameTexts, NEW p \in PasswordTexts, AddRefused(n, p)
        PROVE  TypeOK'
    BY <2>6 DEF AddRefused, TypeOK, memory, file, history
  <2>7. ASSUME NEW old \in PasswordTexts, NEW new \in PasswordTexts, ChangePassword(old, new)
        PROVE  TypeOK'
    <3>1. \A i \in Slots : ChangedAccount(i, new) \in Account
      <4>1. new \in Passwords
        BY <2>7 DEF ChangePassword, MayChange
      <4>2. \A i \in Slots : Copied(accounts[i].password, new) \in Buffers
        BY <4>1, CopiedTyped DEF TypeOK, Account
      <4> QED
        BY <4>2 DEF ChangedAccount, TypeOK, Account
    <3>2. current_account \in Slots
      BY <2>7 DEF ChangePassword, MayChange, TypeOK, Slots
    <3>3. accounts' \in [Slots -> Account]
      BY <2>7, <3>1, <3>2 DEF ChangePassword, TypeOK
    <3>4. promise' \in [Slots -> SUBSET Account]
      BY <2>7, <3>1 DEF ChangePassword, TypeOK
    <3> QED
      BY <2>7, <3>3, <3>4 DEF ChangePassword, TypeOK, file, history
  <2>8. ASSUME NEW old \in PasswordTexts, NEW new \in PasswordTexts, ChangeRefused(old, new)
        PROVE  TypeOK'
    BY <2>8 DEF ChangeRefused, TypeOK, memory, file, history
  <2>9. CASE SaveOpen
    BY <2>9 DEF SaveOpen, TypeOK, memory, file, history
  <2>10. CASE SaveOpenFails
    BY <2>10 DEF SaveOpenFails, TypeOK, memory, file, history
  <2>11. ASSUME NEW blocks \in SUBSET Blocks
         PROVE  Written(blocks) => cache' \in [Blocks -> Store]
                                 /\ promise' \in [Slots -> SUBSET Account]
    BY DEF Written, Image, TypeOK, Store
  <2>12. CASE SaveWrite
    BY <2>11, <2>12 DEF SaveWrite, TypeOK, memory
  <2>13. CASE SaveWriteFails
    BY <2>11, <2>13 DEF SaveWriteFails, TypeOK, memory
  <2>14. CASE SaveFlush
    BY <2>14 DEF SaveFlush, TypeOK, memory
  <2>15. CASE SaveFlushFails
    BY <2>15 DEF SaveFlushFails, TypeOK, memory, file, history
  <2>16. CASE WriteBack
    BY <2>16 DEF WriteBack, TypeOK, memory, history
  <2>17. CASE Crash
    <3>1. accounts' \in [Slots -> Account]
      BY <2>17 DEF Crash
    <3>2. account_count' \in 0 .. MaxUsers /\ current_account' \in -1 .. account_count' - 1
      BY <2>17 DEF Crash
    <3> HIDE Defaults
    <3> QED
      BY <2>17, <3>1, <3>2 DEF Crash, TypeOK
  <2>18. CASE UNCHANGED vars
    BY <2>18 DEF vars, memory, file, history, TypeOK
  <2> QED
    BY <2>1, <2>2, <2>3, <2>4, <2>5, <2>6, <2>7, <2>8, <2>9, <2>10, <2>12, <2>13,
       <2>14, <2>15, <2>16, <2>17, <2>18 DEF Next, Boot, Call, Save
<1> QED
  BY <1>1, <1>2, PTL DEF Spec

(***************************************************************************)
(* Entry 0 is the administrator in every state and for every history of    *)
(* the file, failed boots included.                                        *)
(***************************************************************************)
THEOREM AdminStays == Spec => []AdminSlot
<1>1. Init => AdminInv
  BY Defaults DEF Init, AdminInv
<1>2. TypeOK /\ AdminInv /\ [Next]_vars => AdminInv'
  <2> SUFFICES ASSUME TypeOK, AdminInv, [Next]_vars PROVE AdminInv'
    OBVIOUS
  <2> USE Defaults DEF IsAdminEntry
  <2>1. CASE BootLoaded
    <3>1. /\ Entry(0).name = disk[0].table[0].name
          /\ Entry(0).admin = disk[0].table[0].admin
      BY ConstantsAssumption DEF Entry
    <3> QED
      BY <2>1, <3>1 DEF BootLoaded, AdminInv, file
  <2>2. CASE BootDefault
    BY <2>2 DEF BootDefault, AdminInv, file, Admin
  <2>3. ASSUME NEW n \in NameTexts, NEW p \in PasswordTexts,
               Login(n, p) \/ LoginRefused(n, p) \/ AddRefused(n, p)
        PROVE  AdminInv'
    BY <2>3 DEF Login, LoginRefused, AddRefused, AdminInv, memory, file
  <2>4. ASSUME NEW n \in NameTexts, NEW p \in PasswordTexts, Add(n, p)
        PROVE  AdminInv'
    <3>1. account_count # 0 /\ account_count \in Int
      BY <2>4 DEF Add, FreeSlot, NewAccount, TypeOK
    <3>2. accounts'[0] = accounts[0]
      BY <2>4, <3>1 DEF Add, FreeSlot, NewAccount, TypeOK
    <3> QED
      BY <2>4, <3>2 DEF Add, AdminInv, file
  <2>5. ASSUME NEW old \in PasswordTexts, NEW new \in PasswordTexts, ChangePassword(old, new)
        PROVE  AdminInv'
    <3>1. accounts'[0].name = accounts[0].name /\ accounts'[0].admin = accounts[0].admin
      BY <2>5 DEF ChangePassword, ChangedAccount, TypeOK, Account
    <3> QED
      BY <2>5, <3>1 DEF ChangePassword, AdminInv, file
  <2>6. ASSUME NEW old \in PasswordTexts, NEW new \in PasswordTexts, ChangeRefused(old, new)
        PROVE  AdminInv'
    BY <2>6 DEF ChangeRefused, AdminInv, memory, file
  <2>7. CASE SaveOpen \/ SaveOpenFails \/ SaveFlushFails
    BY <2>7 DEF SaveOpen, SaveOpenFails, SaveFlushFails, AdminInv, memory, file
  <2>8. ASSUME NEW blocks \in SUBSET Blocks, Written(blocks),
               pc = "write", UNCHANGED <<memory, disk>>
        PROVE  AdminInv'
    BY <2>8 DEF Written, Image, AdminInv, memory
  <2>9. CASE SaveWrite
    BY <2>8, <2>9 DEF SaveWrite
  <2>10. CASE SaveWriteFails
    BY <2>8, <2>10 DEF SaveWriteFails
  <2>11. CASE SaveFlush
    BY <2>11 DEF SaveFlush, AdminInv, memory
  <2>12. CASE WriteBack
    BY <2>12 DEF WriteBack, AdminInv, TypeOK, memory
  <2>13. CASE Crash
    BY <2>13 DEF Crash, AdminInv
  <2>14. CASE UNCHANGED vars
    BY <2>14 DEF vars, memory, file, AdminInv
  <2> QED
    BY <2>1, <2>2, <2>3, <2>4, <2>5, <2>6, <2>7, <2>9, <2>10, <2>11, <2>12, <2>13, <2>14
       DEF Next, Boot, Call, Save
<1>3. AdminInv => AdminSlot
  BY DEF AdminInv, AdminSlot, IsAdminEntry
<1> QED
  BY <1>1, <1>2, <1>3, TypeCorrect, PTL DEF Spec

(***************************************************************************)
(* For every layout of the file, what a user was told is durable stays in  *)
(* each block of it, whatever crashes, torn writes, failing saves and      *)
(* failing boots follow, and so in the table that is loaded from it.       *)
(***************************************************************************)
THEOREM PromisesAreKept == Spec => []PromiseKept
<1>1. Init => PromiseInv
  BY DEF Init, PromiseInv, PromiseKept
<1>2. TypeOK /\ PromiseInv /\ [Next]_vars => PromiseInv'
  <2> SUFFICES ASSUME TypeOK, PromiseInv, [Next]_vars PROVE PromiseInv'
    OBVIOUS
  <2> USE Defaults DEF PartKept
  <2>1. CASE BootLoaded
    <3>1. ASSUME NEW i \in Slots, promise[i] # {}, NEW b \in Blocks
          PROVE  \E c \in promise[i] : SameIn(b, i, Entry(i), c)
      <4>1. PICK c \in promise[i] : SameIn(b, i, disk[b].table[i], c)
        BY <3>1 DEF PromiseInv, Keeps
      <4>2. /\ BlockOf[i].name \in Blocks /\ BlockOf[i].admin \in Blocks
            /\ \A k \in Places : BlockOf[i].password[k] \in Blocks
        BY ConstantsAssumption DEF Layout
      <4>3. Entry(i).name = c.name
        <5>1. PICK d \in promise[i] : SameIn(BlockOf[i].name, i, disk[BlockOf[i].name].table[i], d)
          BY <3>1, <4>2 DEF PromiseInv, Keeps
        <5> QED
          BY <4>1, <5>1 DEF SameIn, Entry, PromiseInv
      <4>4. Entry(i).admin = c.admin
        <5>1. PICK d \in promise[i] : SameIn(BlockOf[i].admin, i, disk[BlockOf[i].admin].table[i], d)
          BY <3>1, <4>2 DEF PromiseInv, Keeps
        <5> QED
          BY <4>1, <5>1 DEF SameIn, Entry, PromiseInv
      <4>5. \A k \in Places : BlockOf[i].password[k] = b => Entry(i).password[k] = c.password[k]
        BY <4>1 DEF SameIn, Entry
      <4> QED
        BY <4>3, <4>4, <4>5 DEF SameIn
    <3>2. ASSUME NEW i \in Slots, promise[i] # {}
          PROVE  i \in 0 .. disk[0].count - 1
      <4>1. disk[0].count > i
        BY <3>2 DEF PromiseInv, Keeps
      <4>2. disk[0].count \in Int
        BY DEF TypeOK, Store
      <4> QED
        BY <4>1, <4>2 DEF Slots
    <3>3. PromiseKept'
      <4>1. accounts' = [i \in Slots |-> Entry(i)] /\ account_count' = disk[0].count /\ promise' = promise
        BY <2>1 DEF BootLoaded
      <4> QED
        BY <3>1, <3>2, <4>1 DEF PromiseKept, SameIn, Used
    <3> QED
      BY <2>1, <3>3 DEF BootLoaded, PromiseInv, Keeps, SameIn, file
  <2>2. CASE BootDefault
    <3>1. FileIsShort => \A i \in Slots : promise[i] = {}
      BY DEF FileIsShort, PromiseInv, Keeps, Slots
    <3>2. PromiseKept'
      BY <2>2, <3>1 DEF BootDefault, PromiseKept
    <3> QED
      BY <2>2, <3>2 DEF BootDefault, PromiseInv, Keeps, SameIn, file
  <2>3. ASSUME NEW n \in NameTexts, NEW p \in PasswordTexts,
               Login(n, p) \/ LoginRefused(n, p) \/ AddRefused(n, p)
        PROVE  PromiseInv'
    BY <2>3 DEF Login, LoginRefused, AddRefused, PromiseInv, PromiseKept, Keeps, SameIn, Used,
                memory, file, history
  <2>4. ASSUME NEW n \in NameTexts, NEW p \in PasswordTexts, Add(n, p)
        PROVE  PromiseInv'
    <3>1. \A i \in Used : accounts'[i] = accounts[i] /\ i \in Used'
      BY <2>4 DEF Add, FreeSlot, NewAccount, TypeOK, Used, Slots
    <3>2. PromiseKept'
      BY <2>4, <3>1 DEF Add, PromiseInv, PromiseKept, SameIn, history
    <3> QED
      BY <2>4, <3>2 DEF Add, PromiseInv, Keeps, SameIn, file, history
  <2>5. ASSUME NEW old \in PasswordTexts, NEW new \in PasswordTexts, ChangePassword(old, new)
        PROVE  PromiseInv'
    <3>1. current_account \in Slots
      BY <2>5 DEF ChangePassword, MayChange, TypeOK, Slots
    <3> DEFINE changed == ChangedAccount(current_account, new)
    <3>2. accounts' = [accounts EXCEPT ![current_account] = changed]
      BY <2>5, <3>1 DEF ChangePassword
    <3>3. /\ changed.name = accounts[current_account].name
          /\ changed.admin = accounts[current_account].admin
      BY <3>1 DEF ChangedAccount, TypeOK, Account
    <3>4. /\ UNCHANGED <<account_count, cache, disk, blind>>
          /\ pc # "off" /\ pc' = "open"
      BY <2>5 DEF ChangePassword, file
    <3>5. ASSUME NEW i \in Slots, promise'[i] # {}
          PROVE  /\ promise[i] # {}
                 /\ promise[i] \subseteq promise'[i]
                 /\ ~ blind => i \in Used /\ \A b \in Blocks : PartKept(b, i, accounts[i])'
                 /\ \A a, c \in promise'[i] : a.name = c.name /\ a.admin = c.admin
      <4>1. CASE i = current_account /\ ~ blind
        <5>1. promise[i] # {} /\ promise'[i] = promise[i] \cup {changed}
          BY <2>5, <3>5, <4>1 DEF ChangePassword
        <5>2. i \in Used
          BY <5>1, <3>4, <4>1 DEF PromiseInv, PromiseKept
        <5>3. accounts'[i] = changed
          BY <3>1, <3>2, <4>1 DEF TypeOK
        <5>4. \A a \in promise[i] : a.name = changed.name /\ a.admin = changed.admin
          <6>1. PICK c \in promise[i] : SameIn(0, i, accounts[i], c)
            BY <5>1, <3>4, <4>1 DEF PromiseInv, PromiseKept
          <6> QED
            BY <6>1, <3>3, <4>1 DEF PromiseInv, SameIn
        <5>5. \A a, c \in promise'[i] : a.name = c.name /\ a.admin = c.admin
          BY <5>1, <5>4 DEF PromiseInv
        <5>6. \A b \in Blocks : SameIn(b, i, changed, changed)
          BY DEF SameIn
        <5>7. \A b \in Blocks : PartKept(b, i, accounts[i])'
          BY <5>1, <5>3, <5>6 DEF SameIn
        <5> HIDE DEF changed
        <5> QED
          BY <5>1, <5>2, <5>5, <5>7
      <4>2. CASE i # current_account \/ blind
        <5>1. promise'[i] = promise[i]
          BY <2>5, <4>2 DEF ChangePassword
        <5>2. ~ blind => accounts'[i] = accounts[i]
          BY <3>1, <3>2, <4>2 DEF TypeOK
        <5>3. ~ blind => i \in Used /\ \A b \in Blocks : PartKept(b, i, accounts[i])
          BY <5>1, <3>4, <3>5 DEF PromiseInv, PromiseKept
        <5> QED
          BY <5>1, <5>2, <5>3, <3>5 DEF PromiseInv, SameIn
      <4> QED
        BY <4>1, <4>2
    <3>6. PromiseKept'
      BY <3>4, <3>5 DEF PromiseKept, Used
    <3>7. \A i \in Slots : promise'[i] # {} =>
            \A b \in Blocks : Keeps(cache[b], b, i)' /\ Keeps(disk[b], b, i)'
      BY <3>4, <3>5 DEF PromiseInv, Keeps, SameIn
    <3> QED
      BY <3>4, <3>5, <3>6, <3>7 DEF PromiseInv
  <2>6. ASSUME NEW old \in PasswordTexts, NEW new \in PasswordTexts, ChangeRefused(old, new)
        PROVE  PromiseInv'
    BY <2>6 DEF ChangeRefused, PromiseInv, PromiseKept, Keeps, SameIn, Used, memory, file, history
  <2>7. CASE SaveOpen \/ SaveOpenFails \/ SaveFlushFails
    BY <2>7 DEF SaveOpen, SaveOpenFails, SaveFlushFails, PromiseInv, PromiseKept, Keeps, SameIn,
                Used, memory, file, history
  <2>8. ASSUME NEW blocks \in SUBSET Blocks, Written(blocks), pc = "write",
               pc' = "flush" => blocks = Blocks, UNCHANGED <<memory, disk, blind>>
        PROVE  PromiseInv'
    <3>1. \A i \in Slots : promise'[i] # {} =>
            promise'[i] = promise[i] /\ (blind => blocks = {})
      BY <2>8 DEF Written
    <3>2. ASSUME NEW i \in Slots, promise'[i] # {}, NEW b \in Blocks
          PROVE  Keeps(cache[b], b, i)' /\ Keeps(disk[b], b, i)'
      <4>1. Keeps(cache[b], b, i) /\ Keeps(disk[b], b, i)
        BY <3>1, <3>2 DEF PromiseInv
      <4>2. CASE b \in blocks
        <5>1. i \in Used /\ PartKept(b, i, accounts[i])
          BY <2>8, <3>1, <3>2, <4>2 DEF PromiseInv, PromiseKept
        <5>2. account_count > i
          BY <5>1 DEF Used, TypeOK
        <5>3. cache'[b] = Image
          BY <2>8, <4>2 DEF Written
        <5> QED
          BY <2>8, <3>1, <3>2, <4>1, <5>1, <5>2, <5>3 DEF Image, Keeps, SameIn
      <4>3. CASE b \notin blocks
        <5>1. cache'[b] = cache[b]
          BY <2>8, <4>3 DEF Written
        <5> QED
          BY <2>8, <3>1, <3>2, <4>1, <5>1 DEF Keeps, SameIn
      <4> QED
        BY <4>2, <4>3
    <3>3. PromiseKept'
      BY <2>8, <3>1 DEF PromiseInv, PromiseKept, SameIn, Used, memory
    <3>4. pc' = "flush" => \A b \in Blocks : cache'[b] = Image'
      BY <2>8 DEF Written, Image, memory
    <3>5. \A i \in Slots : \A a, c \in promise'[i] : a.name = c.name /\ a.admin = c.admin
      BY <3>1 DEF PromiseInv
    <3> QED
      BY <3>2, <3>3, <3>4, <3>5 DEF PromiseInv
  <2>9. CASE SaveWrite
    BY <2>8, <2>9 DEF SaveWrite
  <2>10. CASE SaveWriteFails
    BY <2>8, <2>10 DEF SaveWriteFails
  <2>11. CASE SaveFlush
    <3>1. ASSUME NEW i \in Slots, promise'[i] # {}
          PROVE  i \in Used /\ promise'[i] = {accounts[i]} /\ account_count > i
      BY <2>11, <3>1 DEF SaveFlush, Used, TypeOK
    <3>2. \A b \in Blocks : cache[b] = Image
      BY <2>11 DEF SaveFlush, PromiseInv
    <3>3. PromiseKept'
      BY <2>11, <3>1 DEF SaveFlush, PromiseKept, SameIn, Used, memory
    <3>4. \A i \in Slots : promise'[i] # {} =>
            \A b \in Blocks : Keeps(cache[b], b, i)' /\ Keeps(disk[b], b, i)'
      BY <2>11, <3>1, <3>2 DEF SaveFlush, Keeps, SameIn, Image
    <3> QED
      BY <2>11, <3>1, <3>3, <3>4 DEF SaveFlush, PromiseInv
  <2>12. CASE WriteBack
    <3>1. \A b \in Blocks : disk'[b] \in {cache[b], disk[b]}
      BY <2>12 DEF WriteBack, TypeOK
    <3>2. PromiseKept'
      BY <2>12 DEF WriteBack, PromiseInv, PromiseKept, SameIn, Used, memory, history
    <3> QED
      BY <2>12, <3>1, <3>2 DEF WriteBack, PromiseInv, Keeps, SameIn, Image, memory, history
  <2>13. CASE Crash
    BY <2>13 DEF Crash, PromiseInv, PromiseKept, Keeps, SameIn
  <2>14. CASE UNCHANGED vars
    BY <2>14 DEF vars, PromiseInv, PromiseKept, Keeps, SameIn, Used, Image, memory, file, history
  <2> QED
    BY <2>1, <2>2, <2>3, <2>4, <2>5, <2>6, <2>7, <2>9, <2>10, <2>11, <2>12, <2>13, <2>14
       DEF Next, Boot, Call, Save
<1>3. PromiseInv => PromiseKept
  BY DEF PromiseInv
<1> QED
  BY <1>1, <1>2, <1>3, TypeCorrect, PTL DEF Spec

(***************************************************************************)
(* With a file of one block the table is consistent in every state: one    *)
(* administrator, unique names.  Boots may fail and saves may be lost.     *)
(***************************************************************************)
THEOREM TableStaysConsistent ==
  ASSUME Blocks = {0}
  PROVE  Spec => []TableConsistent
<1>1. Init => TableConsistent
  <2> SUFFICES ASSUME Init PROVE TableConsistent
    OBVIOUS
  <2>1. account_count = 0 /\ cache[0].count = 0 /\ disk[0].count = 0
    BY Defaults DEF Init
  <2> QED
    BY <2>1 DEF TableConsistent, Consistent
<1>2. TypeOK /\ TableConsistent /\ [Next]_vars => TableConsistent'
  <2> SUFFICES ASSUME TypeOK, TableConsistent, [Next]_vars PROVE TableConsistent'
    OBVIOUS
  <2> USE Defaults DEF TableConsistent
  <2>1. CASE BootLoaded
    <3>1. \A i \in Slots : Entry(i).name = disk[0].table[i].name
                         /\ Entry(i).admin = disk[0].table[i].admin
      BY ConstantsAssumption DEF Entry, Layout
    <3>2. disk[0].count \in 0 .. MaxUsers
      BY DEF TypeOK, Store
    <3>3. Consistent(disk[0].count, [i \in Slots |-> Entry(i)])
      BY <3>1, <3>2 DEF Consistent, Slots
    <3> QED
      BY <2>1, <3>3 DEF BootLoaded, file
  <2>2. CASE BootDefault
    BY <2>2 DEF BootDefault, file, Consistent, Slots, Admin
  <2>3. ASSUME NEW n \in NameTexts, NEW p \in PasswordTexts,
               Login(n, p) \/ LoginRefused(n, p) \/ AddRefused(n, p)
        PROVE  TableConsistent'
    BY <2>3 DEF Login, LoginRefused, AddRefused, memory, file
  <2>4. ASSUME NEW n \in NameTexts, NEW p \in PasswordTexts, Add(n, p)
        PROVE  TableConsistent'
    <3>1. account_count \in Slots /\ account_count # 0 /\ account_count' = account_count + 1
      BY <2>4 DEF Add, MayAdd, Full, IsNew, FreeSlot, TypeOK, Slots
    <3>2. \A i \in Used : accounts'[i] = accounts[i] /\ accounts[i].name # n
      BY <2>4, <3>1 DEF Add, MayAdd, Full, IsNew, FreeSlot, TypeOK, Used, Slots
    <3>3. accounts'[account_count].name = n /\ accounts'[account_count].admin = FALSE
      BY <2>4, <3>1 DEF Add, FreeSlot, NewAccount, TypeOK
    <3>4. \A i \in 0 .. account_count' - 1 : i \in Used \/ i = account_count
      BY <3>1 DEF Used, Slots
    <3>5. Consistent(account_count', accounts')
      BY <3>1, <3>2, <3>3, <3>4 DEF Consistent, Used
    <3> QED
      BY <2>4, <3>5 DEF Add, file
  <2>5. ASSUME NEW old \in PasswordTexts, NEW new \in PasswordTexts, ChangePassword(old, new)
        PROVE  TableConsistent'
    <3>1. \A i \in Slots : accounts'[i].name = accounts[i].name
                         /\ accounts'[i].admin = accounts[i].admin
      BY <2>5 DEF ChangePassword, ChangedAccount, TypeOK, Account
    <3>2. account_count' = account_count /\ 0 .. account_count - 1 \subseteq Slots
      BY <2>5 DEF ChangePassword, TypeOK, Slots
    <3>3. Consistent(account_count', accounts')
      BY <3>1, <3>2 DEF Consistent
    <3> QED
      BY <2>5, <3>3 DEF ChangePassword, file
  <2>6. ASSUME NEW old \in PasswordTexts, NEW new \in PasswordTexts, ChangeRefused(old, new)
        PROVE  TableConsistent'
    BY <2>6 DEF ChangeRefused, memory, file
  <2>7. CASE SaveOpen \/ SaveOpenFails \/ SaveFlushFails
    BY <2>7 DEF SaveOpen, SaveOpenFails, SaveFlushFails, memory, file
  <2>8. ASSUME NEW blocks \in SUBSET Blocks, Written(blocks),
               UNCHANGED <<memory, disk>>
        PROVE  TableConsistent'
    BY <2>8 DEF Written, Image, memory
  <2>9. CASE SaveWrite
    BY <2>8, <2>9 DEF SaveWrite
  <2>10. CASE SaveWriteFails
    BY <2>8, <2>10 DEF SaveWriteFails
  <2>11. CASE SaveFlush
    BY <2>11 DEF SaveFlush, memory
  <2>12. CASE WriteBack
    BY <2>12 DEF WriteBack, TypeOK, memory
  <2>13. CASE Crash
    BY <2>13 DEF Crash, Consistent
  <2>14. CASE UNCHANGED vars
    BY <2>14 DEF vars, memory, file
  <2> QED
    BY <2>1, <2>2, <2>3, <2>4, <2>5, <2>6, <2>7, <2>9, <2>10, <2>11, <2>12, <2>13, <2>14
       DEF Next, Boot, Call, Save
<1> QED
  BY <1>1, <1>2, TypeCorrect, PTL DEF Spec
-----------------------------------------------------------------------------
(***************************************************************************)
(* accounts.c implements AccountLedger, whichever calls of accounts_save() *)
(* fail and whenever the machine stops.  The file lies in one disk block,  *)
(* and the disk can be read at boot.                                       *)
(***************************************************************************)

(***************************************************************************)
(* The used entries of a table are a sequence of views, that many long.    *)
(***************************************************************************)
Views == {View(a) : a \in Account}

LEMMA TableOfIsSeq ==
  ASSUME NEW count \in 0 .. MaxUsers, NEW entries \in [Slots -> Account]
  PROVE  /\ TableOf(count, entries) \in Seq(Views)
         /\ Len(TableOf(count, entries)) = count
         /\ DOMAIN TableOf(count, entries) = 1 .. count
         /\ \A k \in 1 .. count : TableOf(count, entries)[k] = View(entries[k - 1])
<1>1. \A k \in 1 .. count : k - 1 \in Slots
  BY Defaults DEF Slots
<1>2. \A k \in 1 .. count : View(entries[k - 1]) \in Views
  BY <1>1 DEF Views
<1>3. TableOf(count, entries) \in [1 .. count -> Views]
  BY <1>2 DEF TableOf
<1>4. TableOf(count, entries) \in Seq(Views) /\ Len(TableOf(count, entries)) = count
  BY <1>3
<1> QED
  BY <1>3, <1>4 DEF TableOf

(***************************************************************************)
(* What the ledger sees depends on the file and on the used entries only.  *)
(***************************************************************************)
LEMMA SameView ==
  ASSUME Current' = Current, cache'[0] = cache[0], disk'[0] = disk[0]
  PROVE  UNCHANGED Ledger!ledger
BY DEF Ledger!ledger, Readable

\* A new disk shows the ledger of a new installation.
LEMMA InitRefines == Init => Ledger!Init
<1> SUFFICES ASSUME Init PROVE Ledger!Init
  OBVIOUS
<1>1. pc = "off" /\ disk[0].count = 0 /\ cache[0].count = 0
  BY Defaults DEF Init
<1> QED
  BY <1>1 DEF Ledger!Init, Current, Readable

\* Booting shows the table the ledger has already taken at the crash.
LEMMA BootRefines ==
  ASSUME Blocks = {0}, "boot" \notin Faults, TypeOK, Boot
  PROVE  UNCHANGED Ledger!ledger
<1> USE Defaults
<1>1. CASE BootLoaded
  <2>1. disk[0] \in Store /\ disk[0].count # 0
    BY <1>1 DEF BootLoaded, TypeOK
  <2>2. \A i \in Slots : Entry(i) = disk[0].table[i]
    <3> SUFFICES ASSUME NEW i \in Slots PROVE Entry(i) = disk[0].table[i]
      OBVIOUS
    <3>1. /\ BlockOf[i].name = 0 /\ BlockOf[i].admin = 0
          /\ \A k \in Places : BlockOf[i].password[k] = 0
      BY ConstantsAssumption DEF Layout
    <3>2. disk[0].table[i] \in Account
      BY <2>1 DEF Store
    <3>3. disk[0].table[i].password = [k \in Places |-> disk[0].table[i].password[k]]
      BY <3>2 DEF Account, Buffers
    <3>4. Entry(i).password = disk[0].table[i].password
      BY <3>1, <3>3 DEF Entry
    <3> QED
      BY <3>1, <3>2, <3>4 DEF Entry, Account
  <2>3. accounts' = disk[0].table
    BY <1>1, <2>1, <2>2 DEF BootLoaded, Store
  <2> QED
    BY <1>1, <2>1, <2>3, SameView DEF BootLoaded, Current, Readable, file
<1>2. CASE BootDefault
  <2>1. disk[0].count = 0
    BY <1>2 DEF BootDefault, FileIsShort
  <2>2. View(Admin) = Installed
    BY SecretCopied, ConstantsAssumption DEF View, Admin, Installed
  <2>3. TableOf(account_count', accounts') = <<Installed>>
    <3>1. account_count' = 1 /\ accounts'[0] = Admin
      BY <1>2 DEF BootDefault
    <3>2. TableOf(account_count', accounts') = [k \in 1 .. 1 |-> Installed]
      BY <3>1, <2>2 DEF TableOf
    <3> QED
      BY <3>2
  <2> QED
    BY <1>2, <2>1, <2>3, SameView DEF BootDefault, Current, Readable, file
<1> QED
  BY <1>1, <1>2 DEF Boot

\* A new account extends the ledger's table by one with a name of its own.
LEMMA AddRefines ==
  ASSUME TypeOK, NEW n \in NameTexts, NEW p \in PasswordTexts, Add(n, p)
  PROVE  Ledger!Change
<1> USE Defaults
<1>1. account_count \in Slots /\ account_count < MaxUsers
  BY DEF Add, MayAdd, Full, TypeOK, Slots
<1>2. accounts' \in [Slots -> Account] /\ account_count' = account_count + 1
        /\ accounts'[account_count] = NewAccount(n, p)
        /\ \A i \in Slots : i # account_count => accounts'[i] = accounts[i]
  <2>1. Copied(accounts[account_count].password, p) \in Buffers
    BY <1>1, CopiedTyped DEF Add, MayAdd, TypeOK, Account
  <2>2. NewAccount(n, p) \in Account
    BY <2>1 DEF Add, MayAdd, NewAccount, FreeSlot, Account
  <2> QED
    BY <1>1, <2>2 DEF Add, FreeSlot, TypeOK
<1>3. Current = TableOf(account_count, accounts) /\ Current' = TableOf(account_count', accounts')
  BY DEF Add, Current
<1>4. /\ Current \in Seq(Views) /\ Len(Current) = account_count
      /\ \A k \in 1 .. account_count : Current[k] = View(accounts[k - 1])
  BY <1>3, TableOfIsSeq DEF TypeOK
<1>5. /\ Current' \in Seq(Views) /\ Len(Current') = account_count + 1
      /\ \A k \in 1 .. account_count + 1 : Current'[k] = View(accounts'[k - 1])
  <2>1. account_count' \in 0 .. MaxUsers
    BY <1>1, <1>2 DEF Slots
  <2> QED
    <3>1. /\ TableOf(account_count', accounts') \in Seq(Views)
          /\ Len(TableOf(account_count', accounts')) = account_count'
          /\ \A k \in 1 .. account_count' :
               TableOf(account_count', accounts')[k] = View(accounts'[k - 1])
      BY <1>2, <2>1, TableOfIsSeq
    <3> QED
      BY <1>2, <1>3, <3>1
<1>6. Current' = Append(Current, View(NewAccount(n, p)))
  <2>1. View(NewAccount(n, p)) \in Views
    <3>1. accounts'[account_count] \in Account
      BY <1>1, <1>2
    <3> QED
      BY <1>2, <3>1 DEF Views
  <2>2. \A k \in 1 .. account_count : Current'[k] = Current[k]
    BY <1>1, <1>2, <1>4, <1>5 DEF Slots
  <2>3. Current'[account_count + 1] = View(NewAccount(n, p))
    BY <1>1, <1>2, <1>5 DEF Slots
  <2> DEFINE grown == Append(Current, View(NewAccount(n, p)))
  <2>4. /\ grown \in Seq(Views) /\ Len(grown) = account_count + 1
        /\ \A k \in 1 .. account_count : grown[k] = Current[k]
        /\ grown[account_count + 1] = View(NewAccount(n, p))
    <3>1. Append(Current, View(NewAccount(n, p))) \in Seq(Views)
            /\ Len(Append(Current, View(NewAccount(n, p)))) = Len(Current) + 1
      BY <1>4, <2>1, AppendProperties
    <3>2. \A k \in 1 .. Len(Current) : Append(Current, View(NewAccount(n, p)))[k] = Current[k]
      BY <1>4, <2>1, AppendProperties
    <3>3. Append(Current, View(NewAccount(n, p)))[Len(Current) + 1] = View(NewAccount(n, p))
      BY <1>4, <2>1, AppendProperties
    <3> QED
      BY <1>4, <3>1, <3>2, <3>3
  <2>5. account_count \in Nat
    BY <1>1 DEF Slots
  <2>6. \A k \in 1 .. account_count + 1 : Current'[k] = grown[k]
    BY <2>2, <2>3, <2>4, <2>5
  <2> HIDE DEF grown
  <2>7. Current' = grown
    BY <1>5, <2>4, <2>6, SeqEqual
  <2> QED
    BY <2>7 DEF grown
<1>7. n \in Names \ Ledger!NamesIn(Current) /\ p \in Passwords
  <2>1. DOMAIN Current = 1 .. account_count
    BY <1>1, <1>4 DEF Slots
  <2>2. \A k \in 1 .. account_count : Current[k].name = accounts[k - 1].name
    BY <1>4 DEF View
  <2> QED
    BY <1>1, <2>1, <2>2 DEF Add, MayAdd, IsNew, Used, Ledger!NamesIn, Slots
<1>8. Current' \in Ledger!Grown(Current)
  <2> DEFINE Grow(m, q) == Append(Current, [name |-> m, password |-> q, admin |-> FALSE])
  <2>1. Ledger!Grown(Current) = {Grow(m, q) : m \in Names \ Ledger!NamesIn(Current), q \in Passwords}
    BY DEF Ledger!Grown
  <2>2. Current' = Grow(n, p)
    BY <1>6, <1>7, SecretCopied DEF NewAccount, View
  <2> HIDE DEF Grow
  <2> QED
    BY <1>7, <2>1, <2>2
<1>9. Readable(cache[0])' = Readable(cache[0]) /\ Readable(disk[0])' = Readable(disk[0])
  BY DEF Add, file, Readable
<1> QED
  BY <1>1, <1>4, <1>8, <1>9 DEF Ledger!Change

\* A new password changes one account of the ledger's table.
LEMMA ChangeRefines ==
  ASSUME TypeOK, NEW old \in PasswordTexts, NEW new \in PasswordTexts, ChangePassword(old, new)
  PROVE  Ledger!Change
<1> USE Defaults
<1> DEFINE k == current_account + 1
<1>1. k \in 1 .. account_count /\ current_account \in Slots /\ new \in Passwords
  BY DEF ChangePassword, MayChange, TypeOK, Slots
<1>2. accounts' \in [Slots -> Account] /\ account_count' = account_count
  <2>1. Copied(accounts[current_account].password, new) \in Buffers
    BY <1>1, CopiedTyped DEF TypeOK, Account
  <2>2. ChangedAccount(current_account, new) \in Account
    BY <1>1, <2>1 DEF ChangedAccount, TypeOK, Account
  <2> QED
    BY <1>1, <2>2 DEF ChangePassword, TypeOK
<1>3. Current = TableOf(account_count, accounts) /\ Current' = TableOf(account_count, accounts')
  BY <1>2 DEF ChangePassword, Current
<1>4. DOMAIN Current = 1 .. account_count
  BY <1>3, TableOfIsSeq DEF TypeOK
<1>5. Current' = [Current EXCEPT ![k].password = new]
  <2>1. View(ChangedAccount(current_account, new)) = [View(accounts[current_account]) EXCEPT !.password = new]
    <3>1. /\ ChangedAccount(current_account, new).name = accounts[current_account].name
          /\ ChangedAccount(current_account, new).admin = accounts[current_account].admin
          /\ ChangedAccount(current_account, new).password = Copied(accounts[current_account].password, new)
      BY <1>1 DEF ChangedAccount, TypeOK, Account
    <3>2. Secret(ChangedAccount(current_account, new).password) = new
      BY <1>1, <3>1, SecretCopied
    <3> QED
      BY <3>1, <3>2 DEF View
  <2> DEFINE Put(j) == IF j = k THEN [View(accounts[j - 1]) EXCEPT !.password = new]
                       ELSE View(accounts[j - 1])
  <2>2. \A j \in 1 .. account_count : View(accounts'[j - 1]) = Put(j)
    <3>1. \A i \in Slots :
            accounts'[i] = IF i = current_account THEN ChangedAccount(current_account, new)
                           ELSE accounts[i]
      BY <1>1 DEF ChangePassword, TypeOK
    <3>2. \A j \in 1 .. account_count :
            j - 1 \in Slots /\ (j - 1 = current_account <=> j = k)
      BY <1>1 DEF TypeOK, Slots
    <3> HIDE DEF k
    <3> QED
      BY <2>1, <3>1, <3>2
  <2>3. Current' = [j \in 1 .. account_count |-> View(accounts'[j - 1])]
    BY <1>3 DEF TableOf
  <2>4. Current = [j \in 1 .. account_count |-> View(accounts[j - 1])]
    BY <1>3 DEF TableOf
  <2>5. [Current EXCEPT ![k].password = new] = [j \in 1 .. account_count |-> Put(j)]
    BY <1>1, <2>4
  <2>6. Current' = [j \in 1 .. account_count |-> Put(j)]
    BY <2>2, <2>3
  <2> QED
    BY <2>5, <2>6
<1>6. Current' \in Ledger!Changed(Current)
  <2> DEFINE Put(j, q) == [Current EXCEPT ![j].password = q]
  <2>1. Ledger!Changed(Current) = {Put(j, q) : j \in DOMAIN Current, q \in Passwords}
    BY DEF Ledger!Changed
  <2>2. Current' = Put(k, new) /\ k \in DOMAIN Current
    BY <1>1, <1>4, <1>5
  <2> HIDE DEF Put, k
  <2> QED
    BY <1>1, <2>1, <2>2
<1>7. Readable(cache[0])' = Readable(cache[0]) /\ Readable(disk[0])' = Readable(disk[0])
  BY DEF ChangePassword, file, Readable
<1> QED
  BY <1>6, <1>7 DEF Ledger!Change

\* What a save has put into the file is the table in memory.
LEMMA ImageShowsTable ==
  ASSUME TypeOK, pc # "off"
  PROVE  Readable(Image) = Current
BY DEF TypeOK, Readable, Image, Current

\* A call of accounts_save() leaves the table and takes old ones away.
LEMMA SaveRefines ==
  ASSUME TypeOK, Save
  PROVE  Ledger!Settle \/ UNCHANGED Ledger!ledger
<1> USE Defaults
<1>1. pc # "off" /\ Current' = Current
  BY DEF Save, SaveOpen, SaveOpenFails, SaveWrite, SaveWriteFails, SaveFlush, SaveFlushFails,
         memory, Current
<1>2. CASE SaveOpen \/ SaveOpenFails \/ SaveFlushFails
  BY <1>1, <1>2, SameView DEF SaveOpen, SaveOpenFails, SaveFlushFails, file
<1>3. CASE SaveWrite \/ SaveWriteFails
  <2>1. disk' = disk /\ cache'[0] \in {Image, cache[0]}
    BY <1>3 DEF SaveWrite, SaveWriteFails, Written
  <2>2. Readable(cache[0])' \in {Current, Readable(cache[0])} /\ Readable(disk[0])' = Readable(disk[0])
    BY <1>1, <2>1, ImageShowsTable DEF Readable
  <2> QED
    BY <1>1, <2>2 DEF Ledger!Settle
<1>4. CASE SaveFlush
  <2>1. Readable(cache[0])' = Readable(cache[0]) /\ Readable(disk[0])' = Readable(cache[0])
    BY <1>4 DEF SaveFlush, Readable
  <2> QED
    BY <1>1, <2>1 DEF Ledger!Settle
<1> QED
  BY <1>2, <1>3, <1>4 DEF Save

\* A block written back takes the older table of the disk away.
LEMMA WriteBackRefines ==
  ASSUME Blocks = {0}, TypeOK, WriteBack
  PROVE  Ledger!Settle \/ UNCHANGED Ledger!ledger
<1>1. pc # "off" /\ Current' = Current
  BY DEF WriteBack, memory, Current
<1>2. disk'[0] \in {cache[0], disk[0]} /\ cache' = cache
  BY Defaults DEF WriteBack, TypeOK
<1>3. Readable(cache[0])' = Readable(cache[0])
        /\ Readable(disk[0])' \in {Readable(cache[0]), Readable(disk[0])}
  BY <1>2 DEF Readable
<1> QED
  BY <1>1, <1>3 DEF Ledger!Settle

\* A crash brings back the table of the disk.
LEMMA CrashRefines == Crash => Ledger!Restart
<1> SUFFICES ASSUME Crash PROVE Ledger!Restart
  OBVIOUS
<1>1. pc' = "off" /\ disk' = disk /\ cache' = disk
  BY DEF Crash
<1>2. Current' = Readable(disk[0])
  BY <1>1 DEF Current, Readable
<1>3. Readable(cache[0])' = Current' /\ Readable(disk[0])' = Current'
  BY <1>1 DEF Current, Readable
<1> QED
  BY <1>2, <1>3 DEF Ledger!Restart

(***************************************************************************)
(* ImplementsLedger: no sequence of calls, failures and crashes shows a    *)
(* table that the ledger would not allow.                                  *)
(***************************************************************************)
THEOREM StoreImplementsLedger ==
  ASSUME Blocks = {0}, "boot" \notin Faults
  PROVE  Spec => ImplementsLedger
<1>1. TypeOK /\ [Next]_vars => [Ledger!Next]_Ledger!ledger
  <2> SUFFICES ASSUME TypeOK, [Next]_vars PROVE Ledger!Next \/ UNCHANGED Ledger!ledger
    OBVIOUS
  <2>1. CASE Boot
    BY <2>1, BootRefines
  <2>2. ASSUME NEW n \in NameTexts, NEW p \in PasswordTexts, Add(n, p)
        PROVE  Ledger!Next
    BY <2>2, AddRefines DEF Ledger!Next
  <2>3. ASSUME NEW old \in PasswordTexts, NEW new \in PasswordTexts, ChangePassword(old, new)
        PROVE  Ledger!Next
    BY <2>3, ChangeRefines DEF Ledger!Next
  <2>4. ASSUME NEW n \in NameTexts, NEW p \in PasswordTexts,
               Login(n, p) \/ LoginRefused(n, p) \/ AddRefused(n, p)
        PROVE  UNCHANGED Ledger!ledger
    BY <2>4, SameView DEF Login, LoginRefused, AddRefused, memory, file, Current
  <2>5. ASSUME NEW old \in PasswordTexts, NEW new \in PasswordTexts, ChangeRefused(old, new)
        PROVE  UNCHANGED Ledger!ledger
    BY <2>5, SameView DEF ChangeRefused, memory, file, Current
  <2>6. CASE Save
    BY <2>6, SaveRefines DEF Ledger!Next
  <2>7. CASE WriteBack \/ Crash
    BY <2>7, WriteBackRefines, CrashRefines DEF Ledger!Next
  <2>8. CASE UNCHANGED vars
    BY <2>8, SameView DEF vars, memory, file, Current
  <2> QED
    BY <2>1, <2>2, <2>3, <2>4, <2>5, <2>6, <2>7, <2>8 DEF Next, Call
<1> QED
  BY <1>1, InitRefines, TypeCorrect, PTL DEF Spec, ImplementsLedger, Ledger!Spec
=============================================================================
