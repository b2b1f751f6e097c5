---------------------------- MODULE AccountStore ----------------------------
(***************************************************************************)
(* The account table of kernel/drivers/accounts.c and its copy in the file *)
(* fisix_users.db.  The table is a C array of FISIX_MAX_USERS entries; the *)
(* file is a memory image of it, rewritten in place by accounts_save() and *)
(* read back by accounts_load() at the next boot.                          *)
(*                                                                         *)
(* An update first changes the table in memory and then runs the firmware  *)
(* calls of accounts_save() one after the other, so the machine can stop,  *)
(* or a call can fail, between any two of them.                            *)
(*                                                                         *)
(* A name is one model value, as every name lies in one disk block.  A     *)
(* password is a sequence of characters in a buffer that ends with a NUL:  *)
(* in the file the buffers of entries 3 and 7 are cut by the ends of       *)
(* 512-byte blocks.  valid() accepts the Names and Passwords.              *)
(* Definitions marked "faulty" are slips the checked properties must       *)
(* notice; nothing uses them.                                              *)
(***************************************************************************)
EXTENDS Integers, Sequences

CONSTANTS
  MaxUsers,      \* FISIX_MAX_USERS
  Names,         \* user names: texts of 1..31 characters without a space
  Chars, NUL,    \* the characters of passwords, and the one that ends a text
  TextMax,       \* ACCOUNT_TEXT_MAX
  Passwords,     \* passwords: texts of 1..TextMax characters without a space
  AdminName,     \* "admin", the name accounts_init() installs
  AdminPassword, \* "fisix"
  Empty,         \* the empty name, which a zeroed entry holds
  Junk,          \* what a name is in a block that was never written
  Blocks,        \* the disk blocks the file occupies; 0 holds magic and count
  BlockOf,       \* the block that holds each field of each entry of the file,
                 \* and each place of its password
  Faults         \* which firmware calls may fail: "open", "write", "flush", "boot"

Slots == 0 .. MaxUsers - 1
Places == 1 .. TextMax + 1
Buffers == [Places -> Chars \cup {NUL}]

Account == [name : Names \cup {Empty, Junk}, password : Buffers, admin : BOOLEAN]
Layout == [name : Blocks, password : [Places -> Blocks], admin : Blocks]

ASSUME ConstantsAssumption ==
  /\ MaxUsers \in Nat \ {0} /\ TextMax \in Nat \ {0}
  /\ Chars # {} /\ NUL \notin Chars
  /\ Passwords \subseteq Seq(Chars) /\ \A p \in Passwords : Len(p) \in 1 .. TextMax
  /\ AdminName \in Names /\ AdminPassword \in Passwords
  /\ {Empty, Junk} \cap Names = {} /\ Empty # Junk
  /\ 0 \in Blocks
  /\ BlockOf \in [Slots -> Layout]
  /\ BlockOf[0] = [name |-> 0, password |-> [k \in Places |-> 0], admin |-> 0]

(***************************************************************************)
(* copy() leaves what lies in the buffer behind the NUL; equal() compares  *)
(* up to it.                                                               *)
(***************************************************************************)
Copied(buffer, text) ==
  [k \in Places |->
     IF k <= Len(text) THEN text[k] ELSE IF k = Len(text) + 1 THEN NUL ELSE buffer[k]]

Holds(buffer, text) ==
  /\ Len(text) <= TextMax /\ buffer[Len(text) + 1] = NUL
  /\ \A k \in 1 .. Len(text) : buffer[k] = text[k]

Zeroed == [k \in Places |-> NUL]

Blank == [name |-> Empty, password |-> Zeroed, admin |-> FALSE]
Garbage == [name |-> Junk, password |-> [k \in Places |-> CHOOSE c \in Chars : TRUE], admin |-> TRUE]

Admin == [name |-> AdminName, password |-> Copied(Zeroed, AdminPassword), admin |-> TRUE]

(***************************************************************************)
(* A block of the file is known by the store that was last written to it:  *)
(* a count and a table, of which the block holds the fields BlockOf puts   *)
(* there.  Count 0 marks a block that was never written, and its table is  *)
(* then what the disk held before.  The magic number is a constant of the  *)
(* program: a written block 0 has it, any other does not.                  *)
(***************************************************************************)
Store == [count : 0 .. MaxUsers, table : [Slots -> Account]]

VARIABLES
  pc,              \* "off", "idle", or the next firmware call of accounts_save()
  accounts,        \* accounts[]
  account_count,   \* account_count
  current_account, \* current_account, -1 when nobody is logged in
  reply,           \* what the last call returned: "success", "failure", "none" so far
  cache,           \* the file as the firmware sees it, block by block
  disk,            \* the blocks of the file that a power failure cannot undo
  promise,         \* history: what a user was told slot i holds ({}: nothing)
  blind            \* history: the boot could not read the file that is there

memory == <<accounts, account_count, current_account>>
file == <<cache, disk>>
history == <<promise, blind>>
vars == <<pc, memory, reply, file, history>>

Used == 0 .. account_count - 1
IsAdmin == current_account >= 0 /\ accounts[current_account].admin

(***************************************************************************)
(* The machine starts powered off, with no user file on its disk.          *)
(***************************************************************************)
Init ==
  /\ pc = "off"
  /\ accounts = [i \in Slots |-> Blank]
  /\ account_count = 0
  /\ current_account = -1
  /\ reply = "none"
  /\ \E old \in {Blank, Garbage} :
       disk = [b \in Blocks |-> [count |-> 0, table |-> [i \in Slots |-> old]]]
  /\ cache = disk
  /\ promise = [i \in Slots |-> {}] /\ blind = FALSE

(***************************************************************************)
(* accounts_init(): the built-in administrator, then accounts_load().      *)
(* Loading takes the whole file or nothing.  It is refused when the file   *)
(* cannot be opened or read, is shorter than the table or lacks the magic  *)
(* number.  A file with a block that was never written is either too short *)
(* or shows what the disk held there before.  After a boot that could not  *)
(* read the disk the accounts are still in the file, but the table starts  *)
(* anew, and the next save writes it over them.                            *)
(***************************************************************************)
FileIsShort == \E b \in Blocks : disk[b].count = 0

Entry(i) ==
  [name     |-> disk[BlockOf[i].name].table[i].name,
   password |-> [k \in Places |-> disk[BlockOf[i].password[k]].table[i].password[k]],
   admin    |-> disk[BlockOf[i].admin].table[i].admin]

BootLoaded ==
  /\ pc = "off"
  /\ disk[0].count > 0 /\ disk[0].count <= MaxUsers
  /\ account_count' = disk[0].count
  /\ accounts' = [i \in Slots |-> Entry(i)]
  /\ pc' = "idle" /\ current_account' = -1 /\ reply' = "none" /\ blind' = FALSE
  /\ UNCHANGED <<file, promise>>

BootDefault ==
  /\ pc = "off"
  /\ FileIsShort \/ "boot" \in Faults
  /\ account_count' = 1
  /\ accounts' = [i \in Slots |-> IF i = 0 THEN Admin ELSE Blank]
  /\ pc' = "idle" /\ current_account' = -1 /\ reply' = "none"
  /\ blind' = ~ FileIsShort
  /\ UNCHANGED <<file, promise>>

(***************************************************************************)
(* accounts_login(): the first used entry with this name and password.     *)
(* terminal_login() never passes an empty name.                            *)
(***************************************************************************)
Matching(n, p) == {i \in Used : accounts[i].name = n /\ Holds(accounts[i].password, p)}

Login(n, p) ==
  /\ pc = "idle" /\ n # Empty
  /\ \E i \in Matching(n, p) :
       /\ \A j \in Matching(n, p) : i <= j
       /\ current_account' = i
  /\ reply' = "success"
  /\ UNCHANGED <<pc, accounts, account_count, file, history>>

LoginRefused(n, p) ==
  /\ pc = "idle" /\ n # Empty
  /\ Matching(n, p) = {}
  /\ reply' = "failure"
  /\ UNCHANGED <<pc, memory, file, history>>

(***************************************************************************)
(* accounts_add() and accounts_change_password() up to their call of       *)
(* accounts_save(): the table has already changed when saving begins.      *)
(***************************************************************************)
NeverFull == FALSE \* faulty
Full == account_count = MaxUsers

AnyNameIsNew(n) == TRUE \* faulty
IsNew(n) == \A i \in Used : accounts[i].name # n

MayAdd(n, p) == IsAdmin /\ n \in Names /\ p \in Passwords /\ ~ Full /\ IsNew(n)

LastSlot == account_count - 1 \* faulty
FreeSlot == account_count

NewAccount(n, p) ==
  [name |-> n, password |-> Copied(accounts[FreeSlot].password, p), admin |-> FALSE]

Add(n, p) ==
  /\ pc = "idle" /\ MayAdd(n, p)
  /\ accounts' = [accounts EXCEPT ![FreeSlot] = NewAccount(n, p)]
  /\ account_count' = account_count + 1
  /\ pc' = "open" /\ reply' = "none"
  /\ UNCHANGED <<current_account, file, history>>

AddRefused(n, p) ==
  /\ pc = "idle" /\ ~ MayAdd(n, p)
  /\ reply' = "failure"
  /\ UNCHANGED <<pc, memory, file, history>>

MayChange(old, new) ==
  /\ current_account >= 0
  /\ Holds(accounts[current_account].password, old)
  /\ new \in Passwords

(***************************************************************************)
(* The history variable follows: a slot a user was told about may hold the *)
(* new password from now on, whatever becomes of the save.  A blind table  *)
(* is not the one a user was told about.                                   *)
(***************************************************************************)
ChangedAccount(i, new) ==
  [accounts[i] EXCEPT !.password = Copied(accounts[i].password, new)]

ChangePassword(old, new) ==
  /\ pc = "idle" /\ MayChange(old, new)
  /\ accounts' = [accounts EXCEPT ![current_account] = ChangedAccount(current_account, new)]
  /\ promise' = [i \in Slots |->
                   IF i = current_account /\ promise[i] # {} /\ ~ blind
                     THEN promise[i] \cup {ChangedAccount(i, new)}
                     ELSE promise[i]]
  /\ pc' = "open" /\ reply' = "none"
  /\ UNCHANGED <<account_count, current_account, file, blind>>

ChangeRefused(old, new) ==
  /\ pc = "idle" /\ ~ MayChange(old, new)
  /\ reply' = "failure"
  /\ UNCHANGED <<pc, memory, file, history>>

(***************************************************************************)
(* accounts_save(), call by call.  A refused call ends it with 0.          *)
(***************************************************************************)
SaveOpen ==
  /\ pc = "open"
  /\ pc' = "write"
  /\ UNCHANGED <<memory, reply, file, history>>

SaveOpenFails ==
  /\ pc = "open" /\ "open" \in Faults
  /\ pc' = "idle" /\ reply' = "failure"
  /\ UNCHANGED <<memory, file, history>>

ShortImage == [count |-> account_count - 1, table |-> accounts] \* faulty
Image == [count |-> account_count, table |-> accounts]

\* A blind table that gets into the file takes the place of what was promised.
Written(blocks) ==
  /\ cache' = [b \in Blocks |-> IF b \in blocks THEN Image ELSE cache[b]]
  /\ promise' = IF blind /\ blocks # {} THEN [i \in Slots |-> {}] ELSE promise

SaveWrite ==
  /\ pc = "write"
  /\ Written(Blocks)
  /\ pc' = "flush"
  /\ UNCHANGED <<memory, reply, disk, blind>>

\* SetPosition() or Write() reports an error, or fewer bytes were written.
SaveWriteFails ==
  /\ pc = "write" /\ "write" \in Faults
  /\ \E blocks \in SUBSET Blocks : Written(blocks)
  /\ pc' = "idle" /\ reply' = "failure"
  /\ UNCHANGED <<memory, disk, blind>>

\* The user learns of the success of the call, and the data has reached the disk.
SaveFlush ==
  /\ pc = "flush"
  /\ disk' = cache
  /\ promise' = [i \in Slots |-> IF i \in Used THEN {accounts[i]} ELSE {}]
  /\ blind' = FALSE
  /\ pc' = "idle" /\ reply' = "success"
  /\ UNCHANGED <<memory, cache>>

\* The firmware has no Flush(), or its error, which the code ignores.
SaveFlushFails ==
  /\ pc = "flush" /\ "flush" \in Faults
  /\ pc' = "idle" /\ reply' = "success"
  /\ UNCHANGED <<memory, file, history>>

(***************************************************************************)
(* The firmware may write a cached block to the disk whenever it likes.    *)
(* The machine may stop or restart at any moment, and the cache is lost.   *)
(***************************************************************************)
WriteBack ==
  /\ pc # "off"
  /\ \E b \in Blocks : disk' = [disk EXCEPT ![b] = cache[b]]
  /\ UNCHANGED <<pc, memory, reply, cache, history>>

Crash ==
  /\ pc # "off"
  /\ pc' = "off"
  /\ accounts' = [i \in Slots |-> Blank]
  /\ account_count' = 0 /\ current_account' = -1 /\ reply' = "none"
  /\ cache' = disk /\ blind' = FALSE
  /\ UNCHANGED <<disk, promise>>

\* What a user may type: the empty texts stand for all that valid() rejects.
NameTexts == Names \cup {Empty}
PasswordTexts == Passwords \cup {<<>>}

Boot == BootLoaded \/ BootDefault
Call ==
  \/ \E n \in NameTexts, p \in PasswordTexts :
       Login(n, p) \/ LoginRefused(n, p) \/ Add(n, p) \/ AddRefused(n, p)
  \/ \E old, new \in PasswordTexts :
       ChangePassword(old, new) \/ ChangeRefused(old, new)
Save ==
  \/ SaveOpen \/ SaveOpenFails
  \/ SaveWrite \/ SaveWriteFails
  \/ SaveFlush \/ SaveFlushFails

Next == Boot \/ Call \/ Save \/ WriteBack \/ Crash

Spec == Init /\ [][Next]_vars

-----------------------------------------------------------------------------
(***************************************************************************)
(* Every variable stays in its range; in particular the session index      *)
(* stays inside the used part of the table, which accounts_is_admin() and  *)
(* accounts_current_user() read without a check.                           *)
(***************************************************************************)
TypeOK ==
  /\ pc \in {"off", "idle", "open", "write", "flush"}
  /\ accounts \in [Slots -> Account]
  /\ account_count \in 0 .. MaxUsers
  /\ pc # "off" => account_count >= 1
  /\ current_account \in -1 .. account_count - 1
  /\ reply \in {"none", "success", "failure"}
  /\ cache \in [Blocks -> Store]
  /\ disk \in [Blocks -> Store]
  /\ promise \in [Slots -> SUBSET Account] /\ blind \in BOOLEAN

(***************************************************************************)
(* A success reply that reached the disk is kept through any sequence of   *)
(* failing saves, torn writes, crashes and boots: the slot holds the       *)
(* account that was acknowledged, with the acknowledged password or one    *)
(* whose change was attempted since.  accounts_save() rewrites the file in *)
(* place, so this is said of each block: where the buffer of a password is *)
(* cut by the end of a block, its parts may come from different passwords, *)
(* and then none of them opens the account; a password in one block is     *)
(* kept whole.  A boot that cannot read the file does not take a promise   *)
(* back, the next save of its table does.                                  *)
(***************************************************************************)
SameIn(b, i, a, c) ==
  /\ a.name = c.name /\ a.admin = c.admin
  /\ \A k \in Places : BlockOf[i].password[k] = b => a.password[k] = c.password[k]

PartKept(b, i, a) == \E c \in promise[i] : SameIn(b, i, a, c)

PromiseKept ==
  pc # "off" /\ ~ blind =>
    \A i \in Slots : promise[i] # {} =>
      i \in Used /\ \A b \in Blocks : PartKept(b, i, accounts[i])

(***************************************************************************)
(* The system can always be administered: entry 0 is the administrator, in *)
(* every state of the table, whatever the file held at boot.               *)
(***************************************************************************)
AdminSlot ==
  pc # "off" => accounts[0].name = AdminName /\ accounts[0].admin

(***************************************************************************)
(* No account but the first is an administrator, and no two used entries   *)
(* have the same name, so that accounts_login() cannot find another user;  *)
(* the same holds of the file, which a later boot loads without a test.    *)
(* This needs saves that are atomic: a file of one block.                  *)
(***************************************************************************)
Consistent(count, table) ==
  \A i, j \in 0 .. count - 1 :
    /\ table[i].admin <=> i = 0
    /\ table[i].name = table[j].name => i = j

TableConsistent ==
  /\ Consistent(account_count, accounts)
  /\ Consistent(cache[0].count, cache[0].table)
  /\ Consistent(disk[0].count, disk[0].table)

(***************************************************************************)
(* AdminSlot is inductive together with the same fact about the block that *)
(* holds entry 0, from which the next boot takes it.                       *)
(***************************************************************************)
IsAdminEntry(a) == a.name = AdminName /\ a.admin

AdminInv ==
  /\ pc # "off" => IsAdminEntry(accounts[0])
  /\ cache[0].count > 0 => IsAdminEntry(cache[0].table[0])
  /\ disk[0].count > 0 => IsAdminEntry(disk[0].table[0])

(***************************************************************************)
(* PromiseKept is inductive together with three facts: every block keeps   *)
(* its part of the promised entries, so a boot may combine any of them;    *)
(* the accounts a slot may hold differ in the password only; and before    *)
(* the flush all blocks are equal.                                         *)
(***************************************************************************)
Keeps(store, b, i) == store.count > i /\ PartKept(b, i, store.table[i])

PromiseInv ==
  /\ PromiseKept
  /\ \A i \in Slots : promise[i] # {} =>
       \A b \in Blocks : Keeps(cache[b], b, i) /\ Keeps(disk[b], b, i)
  /\ \A i \in Slots : \A a, c \in promise[i] : a.name = c.name /\ a.admin = c.admin
  /\ pc = "flush" => \A b \in Blocks : cache[b] = Image
=============================================================================
