# Existent-OS ("Fisix OS"): a TLA+ verification project

The program is a small UEFI operating system: an EFI application
(`OSC/boot/efi_main.c`) that logs a user in and runs a command shell on the
firmware's services, and a 64-bit kernel (`OSC/kernel/`) that it loads and
jumps to when the shell ends. This directory holds models of it, the TLC runs
that check them and proofs checked by TLAPS.

## 1. The system

| part | source | state | operations | hard behaviour |
|---|---|---|---|---|
| User accounts | `kernel/drivers/accounts.c` | `accounts[8]`, `account_count`, `current_account`; the file `fisix_users.db` | init and load, login, add, change password, save | memory changes before the file; the file is rewritten in place; each firmware call of a save can fail and the machine can stop between two; the flush result is ignored |
| Kernel handoff | `boot/efi_main.c:814-934` | open files, the image at 2 MiB, map key, memory sum, `boot_info`, `gBS` | load the kernel, read the map, leave boot services, jump | the firmware changes the memory map at any time, which makes the key stale; retries; firmware that reports success without a result |
| Kernel start | `kernel/kernel.c`, `drivers/memory.c`, `acpi.c`, `system/pic.c` | memory size, RSDP, interrupt flag, IDT, PIC mask | `kernel_startup()` | order: interrupts off before the table that cannot take them |
| Interrupt stubs | `drivers/system/idt.c`, `interrupts.S`, `irq_handlers.c` | stack, registers | 16 stubs, common path, `iretq` | error codes present on some vectors only; alignment; nesting |
| Terminal and shell | `boot/efi_main.c:20-47, 358-812` | mode, echo, current drive, static parse buffer, session | commands, batch and script runners, login, `passwd`, `nano` | nesting through `source` and batch; one static buffer shared by every level; return values dropped; echo restored on every path |
| Line editor | `boot/efi_main.c:691-730` | buffer, length, the last key | `terminal_read_line()` | keys typed ahead; status of `ReadKeyStroke` ignored; full buffer; hidden input |
| Command parsing | `boot/efi_main.c:48-70, 177-266, 358-379` | none | splitting into words, pipelines, `&` | recursion over `&`; limit of 8 words; texts copied by offset |
| File commands | `boot/efi_main.c:268-356` | open handles, position | `cat`, `touch`, `rm`, `write`, `append`, `source` | each firmware call can fail; a write does not truncate; the result of an append's `SetPosition` is ignored; reading in chunks |
| EOSFS listing | `drivers/eosfs.c` | built-in table | list the root, fall back on the table | errors half-way through a directory; 32 entries; names cut to 15 characters or too long for the buffer |
| PCI scan | `drivers/pci.c` | none | find a device of a class | none: no caller, fixed loops |
| Mouse | `drivers/mouse.c` | protocol, last packet | set protocol, store a packet | none: no caller, nothing reads the packet |
| CPU identification, USB, battery, storage, driver calls | `kernel/cpu.c`, `drivers/*.c` | constants | stubs | none |

How they interact. `efi_main()` runs `eosfs_init()`, `accounts_init()`, the
built-in batch file, the login prompt and the shell, one after the other, in
one thread. Everything up to the shell's end uses the firmware through the
pointers `gBS` and `gST`: files, console, keyboard.
The shell's line comes from the line editor; `terminal_execute_command()` splits
it and dispatches its commands, which set the terminal, or go to the file
commands, the listing or the accounts; a script's lines come back to it. `efi_load_kernel()` and
`efi_leave_boot_services()` then hand the machine to `kernel_startup()`
through a `kernel_boot_info_t`. The kernel never calls back. Concurrency
therefore comes from the firmware (timer events, devices), from power failures
and, once the kernel has its own table, from interrupts.

The repository has no tests and no documents; what it says about itself are
the comments and messages that the violation runs quote.

## 2. Modules

| module | models | kind |
|---|---|---|
| `AccountStore` | `accounts.c` and its file | component |
| `MCAccountStore` | constants for TLC | model |
| `AccountLedger` | what the account database promises | abstract specification |
| `AccountRefinement` | the mapping from `AccountStore` to `AccountLedger` | refinement |
| `AccountReplies` | `AccountStore` with the table its caller saw | history |
| `AccountStoreProofs` | theorems about `AccountStore` and its refinement | proofs |
| `BootHandoff` | loading the kernel, leaving boot services, kernel start | component, composed of loader, kernel and firmware |
| `MCBootHandoff` | constants for TLC | model |
| `BootHandoffProofs` | theorems about `BootHandoff` | proofs |
| `Terminal` | boot batch, login, shell, scripts and their commands | component |
| `CommandQueue` | the order in which commands run | abstract specification |
| `TerminalRefinement` | the mapping from `Terminal` to `CommandQueue` | refinement |
| `MCTerminal` | constants for TLC | model |
| `TerminalProofs` | theorems about `Terminal` and its refinement | proofs |
| `InterruptStubs` | interrupt table, entry code and handlers | component |
| `MCInterruptStubs` | constants for TLC | model |
| `InterruptStubsProofs` | theorems about `InterruptStubs` | proofs |
| `LineEditor` | reading a line from the keyboard | component, composed of editor, keyboard and firmware |
| `MCLineEditor` | constants for TLC | model |
| `LineEditorProofs` | theorems about `LineEditor` | proofs |
| `CommandLine` | splitting a line into commands and words; pipelines | component, algorithms with their reference |
| `MCCommandLine` | the lines tried | model |
| `CommandLineProofs` | theorems about `CommandLine` | proofs |
| `FileCommands` | the commands on files, over the firmware's file protocol | component |
| `EosfsListing` | `dir` and `ls` beside them, over the same volume | component, composition |
| `MCFiles` | volumes and texts for TLC | model |
| `EosfsListingProofs` | theorems about the file commands and the listing | proofs |
| `SequenceFacts` | lemmas on induction and sequences that the proofs share | lemmas |

Definitions marked `faulty` in a component module are plausible slips of the
code next to the definition they would replace. Nothing uses them; with one of
them in place the property named in `PROJECT.json` fails.

### AccountStore

`pc` is "off" while the machine is down, "idle" while the table waits for a
call, and otherwise the next firmware call of `accounts_save()`. A name is a
model value; a password is a buffer of characters that ends with a NUL, with
what `copy()` left behind it from an older, longer password (`Copied`, `Holds`). The
empty texts stand for all that `valid()` rejects. A restart loses `accounts`,
`account_count`, `current_account` and the firmware's `cache` of the file;
`disk` survives. The firmware may bring a cached block to the disk whenever it
likes (`WriteBack`), so a crash finds there any mix of what was written.

The file is a memory image of 1064 bytes, so it spans three blocks of 512
bytes or lies in one of 4096. `BlockOf` says which block holds each field of
each entry, and for a password each of its characters; a block is known by the
store last written to it, and count 0 marks one never written.
`accounts_load()` assembles the table from the blocks. Blocks of 512 bytes cut
the passwords of two entries: that of entry 3 (bytes 468 to 531) behind its
22nd character, that of entry 7 (bytes 996 to 1059) behind its 14th. When such
a password is changed and the save is torn, the file may hold the beginning of
one password and the end of the other, and then the account opens with
neither, although the old one was acknowledged and durable. The code does not
prevent that; it needs an old or new password that reaches over the border, of
more than 21 characters in entry 3 or 13 in entry 7. `PromiseKept`
is therefore stated block by block: the part of an entry that a block holds is
that of an account the user may expect. For a password in one block this says that it
is kept whole.

`promise` is a history variable: for each slot, the accounts a user may expect
there. It becomes the current account when a save has returned success and
reached the disk, and grows by the new password when a change is attempted.
`blind` is history too: the table in memory is the built-in one although a
file is on the disk, because the boot could not read it. The promises outlive
such a boot and hold again after the next good one, unless a save has put a
block of the blind table into the file, which ends them.

| code | action |
|---|---|
| `accounts_init()`, `accounts_load()` | `BootLoaded`, `BootDefault` |
| `accounts_login()` | `Login`, `LoginRefused` |
| `accounts_add()` up to its save | `Add`, `AddRefused` |
| `accounts_change_password()` up to its save | `ChangePassword`, `ChangeRefused` |
| `accounts_save()`, one firmware call each | `SaveOpen`, `SaveWrite`, `SaveFlush` and their failures |
| power failure, reset | `Crash` |
| the firmware's cache | `WriteBack` |

### BootHandoff

`pc` names the next firmware call of the loader or step of the kernel.
`version` stands for the map key: every change of the map, the loader's own
`AllocatePages()` included, makes a new one, and `ExitBootServices()` succeeds
exactly for the current one. `UsableBytes` is the summing loop with its
wrap-around; maps are small and the word is 16 wide so that it does wrap.
`Quirks` are firmware calls that report success and deliver nothing, for which
the code has tests that return that success. `stale_status` is what the firmware
at hand answers to a stale key. `efi.h:12` defines `EFI_INVALID_PARAMETER` as
2, but the UEFI specification sets the highest bit of a 64-bit error code and so
makes it 0x8000000000000002. The loop compares with 2: on conforming firmware
one stale key ends the handoff with the failure message
(`efi_main.c:906-908`). Both kinds of firmware are in the run, and
`KernelReached` is stated only for the kind that answers 2. `trouble` is history: the
first thing that went wrong, a stale key never being one, which `JumpIsSafe`
and `KernelReached` except by name.

| code | action |
|---|---|
| `efi_load_kernel()` | `LocateVolume`, `OpenVolume`, `OpenKernel`, `Allocate`, `ReadKernel` |
| loop of `efi_leave_boot_services()` | `GetMap`, `GetMapFails`, `ExitSucceeds`, `ExitStale`, `ExitFails` |
| `efi_main()` on failure | `Report` |
| `kernel_startup()` | `KernelEnter`, `KernelIdt` (with `cpu_init()`), `KernelPic` |
| firmware events | `MapChange` |

### Terminal

`stack` is the C call stack of `terminal_execute_command()`, top first: a
frame is a line with the commands it has left, or a script or the boot batch
with its lines. `buffer` is the static buffer of `terminal_parse_command()`,
one for all levels. `pc` says what the keyboard is read for, if it is. A
command is a record of a name and an argument; "plain" stands for the commands
that print or use files and return 0, and for a command with an argument it
does not know. A drive in `cd` or `dir` is a letter; of the path only its
drive is kept. A login or `passwd` may succeed or fail, whatever `accounts.c`
says. Lines longer than the buffers, and scripts above 4095 bytes, which the
code cuts, are left out. `MaxDepth` stands for the end of the firmware's
stack, which a script that sources itself reaches.

| code | action |
|---|---|
| `terminal_run_batch_file()`, loop of `terminal_source_file()` | `NextLine`, `Return` |
| '&' and parsing in `terminal_execute_command()` | `NextCommand`, `Return` |
| dispatch in `terminal_execute_command()` | `Plain`, `Exit`, `SetEcho`, `SetMode`, `ChangeDrive`, `Source`, `Login`, `Passwd`, `Nano` |
| `terminal_run_shell()` | `TypeLine` |
| `terminal_login()`, the prompts of `passwd` | `TypeName`, `TypePassword`, `TypeOldPassword`, `TypeNewPassword` |
| `terminal_run_nano()` | `TypeText`, `LeaveNano` |

`line` and `muted` are history: the line typed last, and whether "@echo off"
was the last thing that touched the echo.

### InterruptStubs

A step is an instruction of `interrupts.S`, or the comparisons and the call
together. Stack positions count 64-bit words from a 16-byte boundary, so
`120(%rsp)` is the word 15 below the top. A word knows what it holds: a
number, a register's former contents, a return address. The halted kernel is
interrupted with a stack of either parity, and the entry code with one of any
length. The processor is external: alignment, frame, error codes, the blocking
of non-maskable interrupts until the next `iretq`. Maskable interrupts are off
all the time (`kernel.c:11`, `kernel.c:33`, and gate type 0x8E), so lines of
the old controller, for which vector 8 would have no error code and `irq8`
would be wrong, do not occur. Vectors without a gate are left out. The gates name code
segment 0x08 (`idt.c:45`), but the kernel never executes `lgdt`, so the processor
looks it up in the segment table the firmware left, where it need not be a 64-bit
code segment. Delivery has that as its guard (`Delivers`, `CodeSelectors`): all
that is checked and proved of interrupts is about those that are delivered, and where 0x08
is something else the first exception resets the machine. The handlers
keep no SSE state; they are empty.

| code | action |
|---|---|
| `idt_init()`, `idt_set_gate()` | `Init` |
| `irq0` to `irq15` | `Stub` |
| `irq_common` | `Save`, `Load`, `Dispatch` |
| `irq0_handler()` to `irq15_handler()` | `Handler` |
| `.done` | `Restore`, `Drop`, `Iretq` |
| the processor | `Interrupt` |

`entries` is a history variable: for each interrupt being served, what was
interrupted.

### LineEditor

A round of the loop is one action per kind of key. `keyboard` is the firmware's
queue, `key` the local variable that `ReadKeyStroke()` writes to. The code
does not look at the status of that call: when no key waits, firmware that
clears the key makes the loop go round, and firmware that leaves it makes the
editor take the key before, or at first what the stack held, again (`MayKeep`).
`screen` is the cursor's line, without wrapping. Keys are characters, Enter,
Backspace and keys without a character.

| code | action |
|---|---|
| call of `terminal_read_line()` | `Call` |
| `UnicodeChar == 0` | `NoChar` |
| Enter, Backspace | `Enter`, `Back` |
| buffer full, room left | `Drop`, `Type` |
| the user | `Press` |

`pressed`, `got` and `repeated` are history.

### CommandLine

A text is a sequence of characters, and "echo" and "grep" have one letter in
the runs. `todo` is what the nested calls have still to execute, so that a
step is one call of `terminal_execute_command()` up to its dispatch. The bounds
of the buffers are left out: no text comes from anything but buffers of that
size or smaller.

| code | action or operator |
|---|---|
| `terminal_parse_command()` | `Parse` |
| `terminal_copy_segment()`, `terminal_contains()`, `terminal_command_args()` | `Segment`, `Occurs`, `CommandArgs` |
| the `&` branch | `Split` |
| `terminal_try_pipeline()` | `Pipe` |
| the rest up to the dispatch | `Dispatch` |

### FileCommands and EosfsListing

One action is one firmware call with the code up to the next; `pc` names the
call. The volume is a function from names to bytes, and `pos` and `handles`
belong to the firmware. `CallFails` is the error path of every call, which
closes what is open; `SeekIgnored` is the one failure the code does not see.
Listing the root is a second component over the same volume: entries come in
any order. `listed` are the files the firmware has returned, `entries` the lines
shown for them: of an entry only its name is kept, cut to 15 characters
(`ShortName`), so two files may be shown alike. When no entry was read, `entries` becomes
the built-in table (`Defaults`), all five entries of which are in the run. The type of an
entry and the headline are layout. Files hold text: a zero byte would hide the
rest of its chunk from `cat`. Names are files in the root; opening a directory
is left out, and so is an `OpenVolume()` that succeeds with a null root, which
`terminal_open_file()` would use.

| code | action |
|---|---|
| a file command's dispatch | `Start` |
| `terminal_open_file()` | `Locate`, `OpenVolume`, `OpenFile` |
| `terminal_cat_file()` | `ReadChunk` |
| `terminal_source_file()` up to executing its lines | `ReadScript` |
| `terminal_touch_file()`, `terminal_remove_file()` | `CloseTouched`, `DeleteFile` |
| `terminal_write_file()` | `Seek`, `SeekIgnored`, `WriteText` |
| error paths | `CallFails` |
| `dir` and `ls`, `eosfs_list_path()` | `StartListing`, `LastEntry`, `NameTooLong`, `ListingFails` |
| `eosfs_read_disk_entries()` | `ListLocate`, `ListVolume`, `ReadEntry` |

`before` and `misplaced` are history: the volume a command found, and an
append whose position was not set. `cut` says that an error ended a listing.

## 3. Runs

| run | bounds | shows |
|---|---|---|
| `accounts_torn` | 2 slots, 2 names, 2 passwords of up to 2 characters, 2 blocks with their border in the password of slot 1; saves and boots may fail | each block keeps its part of what was acknowledged and durable, through torn or failing saves and blind boots; entry 0 stays the administrator |
| `accounts_atomic` | 2 slots, 3 names, 2 passwords of 1 and 3 characters, 1 block | refinement of `AccountLedger`; tables in memory, cache and disk stay consistent |
| `accounts_replies` | 2 slots, only opening fails | **violation**: "password not changed" is printed and the password has changed |
| `handoff_changes` | 4 changes of the map, every call may fail or deliver nothing, any size of `kernel.bin`, both statuses for a stale key | kernel memory size, no call after exit, retries owed to changes, closed files, safe jump, masked interrupts; the handoff ends, at the kernel unless something was in its way |
| `handoff_exited` | one quirk | **violation** of `kernel.c:18` |
| `terminal_nested` | 15 lines, 3 scripts (one nested, one sourcing itself), 2 users, 3 drives, depth 6 | order of commands, hidden passwords, echo, end of the shell |
| `terminal_drive` | the same | **violation** of the message at `efi_main.c:554` |
| `interrupts_nested` | vectors 0, 2, 8, 14, 15, nesting 2, addresses of 8 bits | transparency, context, alignment |
| `line_editor` | 5 keys, 2 lines, buffers of 3, 2 keys waiting, shown and hidden | no overflow, screen, order of keys, Enter ends a line |
| `command_split` | all lines of up to 5 pieces out of 8, 3 words a command | words, parts and pipelines against their reference |
| `command_pipeline` | up to 3 pieces | **violation** of the usage text at `efi_main.c:260` |
| `files` | 4 names, two of them alike in 15 characters and one that does not fit the buffer, contents of up to 4 bytes, chunks of 2, scripts of 3, lines of 2, 2 entries a listing, the built-in table; every call may fail | effect of every command, containment of failures, closed handles, a line of a listing for each file, termination |

Why the bounds are enough. Account slots are independent except through the
uniqueness of names and slot 0: two slots show one ordinary account, the full
table and the administrator. Two names decide equality; a third leaves one free when the table is
full. Two passwords of different length leave characters behind the NUL of the
shorter one and, with the border behind the first character, can be mixed.
Two blocks are the least in which a save can be torn. Torn saves, blind boots and
characters together make 1.5 million states, which is why the other run has
the third name. The proofs then cover every size. In the handoff the
loop's behaviour depends on a key being current or not; three or four changes
allow several rounds in a row, and changes between any two calls.

In the terminal, nothing depends on a script's length or on the nesting beyond
one call within another with commands left on both levels, which `outer` and `inner` give; the lines put `exit`, a
prompt and each setting first, last and inside a script.

The entry code has no loop and no memory but the stack, so an interrupt in an
interrupt, at every instruction and with and without error code, shows all
there is; deeper ones repeat it. The vectors are the first, the last, the non-maskable one and two
with error codes.

A line of the editor depends on its keys one by one: five keys fill a buffer,
overflow it, take characters back and end it, with others typed ahead for the
next line. The pieces of a command line hold every separator with and without
blanks around it, empty parts, and more words than there is room for. A file
of four bytes has none, one and two full chunks, a script of more bytes than
are read and a line of more than fit; the names give an empty, a partly
shown and a full listing, and one with two lines alike.

Runs of `BootHandoff`, `Terminal` and `CommandLine` switch the deadlock check
off: a halted kernel, a failed start, a shell left for the kernel, an exhausted
stack and an executed line are ends.

Fairness. `WF_vars(Program)`: the program is one thread that always has a next
instruction until it halts, and a firmware call returns. Nothing is assumed of
the firmware's events but their number (`MaxChanges`); with unboundedly many
the loop of `efi_leave_boot_services()` need not end. `AccountStore` has no
liveness property and no fairness. `Terminal` assumes `WF_vars(Runner \/
Command)`, for the same reason, and nothing of the user, who may never press a
key again. `LineEditor` assumes that the editor polls and that its callers ask
again, and nothing of the user. `EosfsListing` assumes that the terminal goes
on and that the firmware answers; that a call fails is never assumed, so a
command may not owe its end to a failure. `CommandLine` needs no fairness: its
end is shown by a measure that every step lowers.

What does not hold, and is not claimed. `memory.h:7` says that the loader calls
`memory_set_total_bytes()` before it leaves boot services; the kernel does,
afterwards, which is what `KernelMemoryMatches` is about. With a file of several blocks a torn
save can leave two entries of one name, or an entry whose administrator flag
is what the disk held before; `TableConsistent` is therefore checked and
proved for one block. There too a password cut by the border of two blocks can be
lost, both the old and the new one. After a boot that could not read the disk the default
table replaces the file at the next save, which ends the promises
of `PromiseKept`. On firmware with 64-bit error codes a stale key ends the handoff, see `BootHandoff`. `JumpIsSafe` and `KernelReached` except starts in which
firmware reported success and delivered nothing, and `kernel.bin` above 1 MiB,
of which the code starts the first part. `acpi.c:12` says that the loader supplies
the RSDP; nothing in the loader does.

Of the shell: with firmware that leaves the last key in place a line repeats
keys; Backspace while the echo is off blanks the prompt. Words beyond the
eighth are dropped, from the text of `write` too. `write` does not shorten a
file, so a shorter text leaves the end of a longer one; an `append` that could
not set its position writes at the beginning and reports success, which
`DoneMeansDone` accepts as its effect. After the first 4095 bytes a script ends,
with its last line cut. A script that sources itself recurses until the
firmware's stack ends, which `ComesBack` accepts as an end. `ls` shows the same
volume for every drive, shows files whose names are alike in their first 15
characters (`eosfs.c:48`) under one name, shows a listing that an error cut short as complete,
and shows its built-in table for an empty or unreadable disk; its message
"file system unavailable" cannot appear.

## 4. Proofs

TLAPS checks, for all values of the constants that satisfy the named
assumptions:

| theorem | property | extra assumption |
|---|---|---|
| `AccountStoreProofs!TypeCorrect` | `TypeOK` | |
| `AccountStoreProofs!AdminStays` | `AdminSlot` | |
| `AccountStoreProofs!PromisesAreKept` | `PromiseKept` | |
| `AccountStoreProofs!TableStaysConsistent` | `TableConsistent` | one block |
| `AccountStoreProofs!StoreImplementsLedger` | `ImplementsLedger` | one block, and the disk can be read at boot |
| `BootHandoffProofs!HandoffTypeCorrect` | `TypeOK` | |
| `BootHandoffProofs!KernelKnowsItsMemory` | `KernelMemoryMatches` | |
| `BootHandoffProofs!FirmwareLeftAlone` | `NoCallAfterExit` | |
| `BootHandoffProofs!AttemptsBounded` | `RetriesOwedToChanges` | |
| `BootHandoffProofs!LoaderClosesFiles` | `FilesClosed` | |
| `BootHandoffProofs!JumpLandsInKernel` | `JumpIsSafe` | |
| `BootHandoffProofs!KernelStaysMasked` | `InterruptsStayMasked` | |
| `TerminalProofs!TerminalTypeCorrect` | `TypeOK` | |
| `TerminalProofs!PasswordsAreHidden` | `PasswordHidden` | |
| `TerminalProofs!EchoIsRestored` | `NotLeftBlind` | |
| `TerminalProofs!OnlyTypedExitEnds` | `ShellEndsByTypedExit` | |
| `TerminalProofs!TerminalImplementsQueue` | `ImplementsQueue` | |
| `InterruptStubsProofs!InterruptsTypeCorrect` | `TypeOK` | |
| `InterruptStubsProofs!InterruptsAreTransparent` | `Transparent` | |
| `InterruptStubsProofs!CallsAreAligned` | `CallAligned` | |
| `InterruptStubsProofs!ContextIsTrue` | `ContextIsRight` | |
| `InterruptStubsProofs!EveryInterruptIsServed` | `ServedBeforeReturn` | |
| `LineEditorProofs!LineFitsBuffer` | `TypeOK` | |
| `LineEditorProofs!ScreenIsHonest` | `ScreenShowsLine` | |
| `LineEditorProofs!EveryLineIsTyped` | `LinesAreTyped` | |
| `CommandLineProofs!CallsEnd` | `CallsGetFewer` | |
| `CommandLineProofs!EveryPartIsRun` | `EveryPartRuns` | |
| `CommandLineProofs!PipelinesAreFilters` | `PipelinesFilter` | |
| `EosfsListingProofs!FilesTypeCorrect` | `TypeOK` | |
| `EosfsListingProofs!CommandsCloseHandles` | `HandlesClosed` | |
| `EosfsListingProofs!FailuresAreContained` | `FailureIsContained` | |
| `EosfsListingProofs!SuccessIsWhole` | `DoneMeansDone` | |
| `EosfsListingProofs!CatIsComplete` | `CatPrintsFile` | |
| `EosfsListingProofs!SourceIsFaithful` | `SourceRunsLines` | |
| `EosfsListingProofs!ListingIsTrue` | `ListingShowsVolume` | |

The named assumptions say of the constants what the code or the kind of thing
they stand for says: sizes are positive, `argv[]` holds more than two words (it holds 8, and the
pipeline counts up to two),
scripts and lines are sequences of commands, texts sequences of characters,
the special keys are not characters, two stubs do not lie at one address.

### The arguments

**Accounts.** `AdminSlot` speaks of memory only; it is inductive together
with the same fact about the block of entry 0 in cache and disk (`AdminInv`),
because a boot takes the entry from there. `PromiseKept` needs
`PromiseInv`: every block, cached or not, holds its part of the promised
entry (`Keeps`), so it does not matter which version of each block reaches the
disk, and the entry a boot assembles agrees with an expected account in every block
of its own; the accounts a slot may hold differ in their password only, so its
name and flag are right whichever of them the blocks show; and before the flush
all blocks equal memory, so that a new promise starts from one version. That
`copy()` leaves a buffer with a text in it, and that a buffer holds one text at
most, are `CopiedTyped`, `CopiedHolds` and `HoldsOne`.
`TableConsistent` needs the same fact of the one block in cache and on disk.
The refinement needs no more than `TypeOK`: the ledger's table and the tables
a restart may bring back are functions of memory, cache and disk, in which a
buffer counts as the password it holds (`Secret`, `SecretCopied`), so each
action is followed through that mapping. `Add` and `ChangePassword` make the
ledger's updates, a write of the image adds a table to the possible ones, a
flush and a failure leave some of them, and a boot is a stutter, because the
crash has already taken the table that the boot will load. A write-back and a
crash only choose among the possible ones (`WriteBackRefines`, `CrashRefines`).

**Handoff.** The properties follow from `HandoffInv`: a key that is still current
comes with the sum of the current map, a key that is not is owed to a change
of the firmware since the map was read, and once boot services are over the
sum in `boot_info` is that of the frozen map. `OpenInv`, `ImageInv` and
`MaskInv` carry the other three: which handles are held before each call, that
a start without trouble has the image when it leaves the loader, and which
kernel step comes before which.

**Terminal.** The echo properties follow from `EchoInv`, which says of every state,
not only of prompts, that the echo is as the user left it unless a password is
being read. The type invariant's bound on the depth needs `StackInv`: a stack whose top is
not a line has room for one more, because `source` looks at the depth and a
script pushing its next line does not. The end of the shell needs
`EndInv`, about the bottom frame: no line lies directly on a line, so what the
shell sees when only the typed line is left is the result of that line's last
command, or one that a runner has dropped. The queue of `CommandQueue` is what the
frames still hold, top first, behind the command in the buffer. Taking a line
or returning leaves that concatenation as it is (`FlattenCons`), executing a
command takes its first element, sourcing puts a script's commands in front,
and a line is typed only when the stack is empty (`PromptInv`).

**Interrupts.** `Ranges` types the machine; `StackInv` describes the
stack frame by frame: every interrupt, whether it is being served or waits
below another one, is `Sound`: its words, at the places its progress gives
them, hold what was interrupted. An interrupt only pushes above the stack pointer
and an instruction only touches the innermost frame, so the waiting ones stay
sound, and become the innermost again with the stack pointer they were left with. The
gate's four pieces put together are the stub's address by `DivMod`, `DivDiv`
and `DivLess`. The stack an instruction finds is of either parity; that the
call is aligned is a count of the words pushed since.

**Line editor.** `EditorInv` is the type invariant, which bounds the line by the
buffer, with `ScreenShowsLine`. For the order of keys, `LinesInv` says that what
waits in the keyboard is the end of what was pressed (`KeysInOrder`), that the lines
returned, with the one being edited, are what `LinesOf` makes of the keys
before, and that between two calls the last of these was Enter. A key more extends `Edited` and `LinesOf` by
one step (`SameSteps`).

**Files.** `HandleInv` says which handle is open before each firmware call,
`ChangeInv` how far the volume may differ by then from the one the command
found; the proofs have one step per action, the failure of every call among
them. `CommandInv`, `VolumeInv` and `RangesInv` say the same of the command's
own state, so that what is reported can be related to what happened
(`DoneMeansDone`). `PrintInv`: what `cat` has printed is the file up to its
position. `ListInv`: while the directory is read, `listed` holds different
files of the volume and `entries` their cut names in the same order, no more than there is room for, and no error
has ended the reading. `listed` then serves as the assignment of files to lines that the property asks for. For scripts the program's
loop over the bytes, with its line buffer, and the reference that cuts the
text at its line ends go through the bytes side by side; `Together` relates
them after each byte, and `ScriptInv` carries the result to the commands
executed.

**Command line.** The separators of what is still to be executed are a set of
places. Splitting maps the places of the two new texts one to one to those of
the old one, the place of the `&` itself left out (`Moved`), since `Segment` copies a
piece of the text without changing it (`SegmentCovers`); so their number falls.

What is executed follows from `PartsInv`. Cut the line at the start of each of
its parts and behind its end. The invariant says that there is a cut such that
the texts still to be executed stand, one after another, for what lies between
the following cuts (`StandFrom`), and that the parts before it that hold a word
have been executed, each with the right outcome in its place (`RanBefore`). A text *stands for* what lies
between two cuts if it is that piece without blanks at its ends (`StandsFor`, `PieceAt`). `Split`
puts one more cut behind the `&` it finds (`DividedStands`); `Pipe` and
`Dispatch` move on by one cut, and a text without `&` stands for exactly one
part (`WholePart`). A third conjunct says that on a line that does not begin
with a blank no text does (`Unindented`): a pipeline copies what it searches
from a fixed offset in its text, which is behind `echo` only then. The rest is
about pure operators: `Parse` moves its cursor from one start of a word to the
next and so returns the `FirstWords` (`ParseIs`, by induction on the words),
cutting blanks off keeps the words (`TrimmedWords`), the two sides
of a bar are what the reference says (`SidesAre`), and so are the text
printed (`EchoedIs`) and with it the outcome of a pipeline (`PipeIsRight`).

**Recursion.** The provers cannot apply theorems that take an operator, the
library's induction among them. `SequenceFacts` therefore derives induction for
a set that holds 0 and the successors of its members (`SetInduction`) from the
well-foundedness of the numbers, and from that: two functions of `0 .. n` that follow the
same steps are equal (`SameSteps`), such a function exists (`StepsExist`), and
what `FlattenSeq` computes. With these, recursive functions can be reasoned
about: `Parse` and the references of `LinesAreTyped` and `SourceRunsLines` are
written as such. The module also says what `Min`, `Max` and the size of a set
are that positions are found and counted with.

### Only model-checked

- Liveness: `HandoffEnds`, `KernelReached`, `ComesBack`, `EnterEndsLine` and `EveryCommandEnds`.
  Fairness and `ENABLED` are out of the prover's reach.
- The four violations, which are counterexamples.

Every other property of the passing runs is stated by a theorem above.

## 5. Plan

1. Done: all components with behaviour of their own, their runs, both
   refinements, and proofs of the safety properties listed above.
2. Done: no invariant and no action property of a run is left without a proof.
3. Next: `TableConsistent` and the refinement of `AccountLedger` are proved for
   stores of one block, as both fail when a save can be torn; what still holds
   of the table then is worth stating and proving.
4. Later: a whole session as one specification, in which the terminal's
   commands are those `CommandLine` makes of the lines that `LineEditor` returns.

## 6. Not modelled

- `pci.c`: nothing calls it. Its three loops over buses, devices and functions
  have counters wide enough for their limits and read the hardware only.
- `mouse.c`: nothing calls it, and nothing reads the packet it stores.
- `cpu.c`: bit fields of one CPUID call, once.
- The stubs of USB, battery, storage and `calldrivers.c`, which return
  constants or are not called.
- `eosfs_list_partitions()`, `eosfs_get_gpt_header()` and the table they copy:
  written once, read by nothing.
- The formatting of messages, colours and the console. The layouts declared in
  `efi.h` are taken as they are declared; that they are those of the firmware
  is not checked.
- Checked-in binaries and editor state; the build. Of the build one thing
  matters to a reader: `Makefile` lists the C objects before `entry.o`, so the
  first bytes of `kernel.bin`, where the loader jumps, are those of
  `kernel_startup()` and not of `_start`; the kernel then runs on the loader's
  stack, and `BootHandoff` enters `kernel_startup()` directly.
