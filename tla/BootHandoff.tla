---------------------------- MODULE BootHandoff ----------------------------
(***************************************************************************)
(* From the end of the shell to the halted kernel: efi_load_kernel() and   *)
(* efi_leave_boot_services() of boot/efi_main.c, the jump, and             *)
(* kernel_startup() of kernel/kernel.c.                                    *)
(*                                                                         *)
(* The firmware runs beside the loader until ExitBootServices(): its timer *)
(* events may change the memory map between any two loader steps, and each *)
(* change makes the map keys handed out before it stale.  Definitions      *)
(* marked "faulty" are slips the checked properties must notice.           *)
(***************************************************************************)
EXTENDS Integers, Folds

CONSTANTS
  Layouts,      \* memory maps: functions from 1..n to [type, pages] descriptors
  PageBytes,    \* 4096
  WordSize,     \* 2^64: sizes are uint64_t and wrap around
  MaxChanges,   \* bound: how often the firmware changes the map on its own
  Faults,       \* firmware calls that may report an error
  Quirks,       \* firmware that reports success and delivers nothing
  StaleStatuses, \* the status a firmware may have for a stale key
  ImageSizes    \* sizes kernel.bin may have: "empty", "fits", "too_big"

EFI_INVALID_PARAMETER == 2 \* as efi.h has it: without the error bit of a status

Calls == {"locate", "volume", "open", "alloc", "read", "map", "exit"}
UsableTypes ==
  {"Conventional", "LoaderCode", "LoaderData", "BootServicesCode", "BootServicesData"}

ASSUME HandoffAssumption ==
  /\ Layouts # {}
  /\ PageBytes \in Nat \ {0} /\ WordSize \in Nat \ {0} /\ MaxChanges \in Nat
  /\ Faults \subseteq Calls
  /\ Quirks \subseteq {"locate", "volume", "open", "map"}
  /\ StaleStatuses \subseteq Nat \ {0} /\ StaleStatuses # {}
  /\ ImageSizes \subseteq {"empty", "fits", "too_big"}

(***************************************************************************)
(* total_memory: the loop over the descriptors adds their sizes modulo the *)
(* word size.                                                              *)
(***************************************************************************)
UsableBytes(layout) ==
  LET usable == {i \in DOMAIN layout : layout[i].type \in UsableTypes}
      Add(x, y) == (x + y) % WordSize
      Bytes(i) == (layout[i].pages * PageBytes) % WordSize
  IN  MapThenFoldSet(Add, 0, Bytes, LAMBDA S : CHOOSE i \in S : TRUE, usable)

VARIABLES
  pc,        \* the next firmware call of the loader, or step of the kernel
  services,  \* "active" until ExitBootServices() succeeds, then "exited"
  layout,    \* the firmware's memory map
  version,   \* its version, which is the map key handed out with it
  changes,   \* how often the firmware changed it on its own
  stale_status, \* what this firmware's ExitBootServices() returns for a stale key
  open,      \* file handles the loader holds
  image,     \* what lies at KERNEL_LOAD_ADDRESS
  map_key, total_memory,  \* locals of efi_leave_boot_services()
  attempts,  \* history: calls of ExitBootServices()
  trouble,   \* history: what the firmware or kernel.bin did to end a smooth start
  boot_info, \* what the kernel is handed
  total_memory_bytes,     \* kernel/drivers/memory.c
  rsdp_address,           \* kernel/drivers/acpi.c
  interrupts,             \* the processor's interrupt flag
  idt,                    \* whose interrupt table is loaded
  pic_masked              \* the legacy interrupt controller is silenced

firmware == <<services, layout, version, changes, stale_status>>
loader == <<open, image, map_key, total_memory, attempts, trouble, boot_info>>
kernel == <<total_memory_bytes, rsdp_address, interrupts, idt, pic_masked>>
vars == <<pc, firmware, loader, kernel>>

Init ==
  /\ pc = "locate"
  /\ services = "active" /\ layout \in Layouts /\ version = 0 /\ changes = 0
  /\ stale_status \in StaleStatuses
  /\ open = {} /\ image = "unknown"
  /\ map_key = 0 /\ total_memory = 0 /\ attempts = 0 /\ trouble = "none"
  /\ boot_info = [memory_bytes |-> 0, rsdp |-> "NULL"]
  /\ total_memory_bytes = 0 /\ rsdp_address = "NULL"
  /\ interrupts = TRUE /\ idt = "firmware" /\ pic_masked = FALSE

(***************************************************************************)
(* The firmware's own events.                                              *)
(***************************************************************************)
NewMap == layout' \in Layouts /\ version' = version + 1

MapChange ==
  /\ services = "active" /\ changes < MaxChanges
  /\ NewMap
  /\ changes' = changes + 1
  /\ UNCHANGED <<pc, services, stale_status, loader, kernel>>

(***************************************************************************)
(* efi_load_kernel().  A call fails, delivers nothing although it reports  *)
(* success (the function then returns that success), or succeeds.          *)
(***************************************************************************)
Works(step) == pc' = step /\ UNCHANGED trouble
Fails(call) == call \in Faults /\ pc' = "report" /\ trouble' = "error"
Nothing(call) == call \in Quirks /\ pc' = "map" /\ trouble' = "nothing"

LocateVolume ==
  /\ pc = "locate"
  /\ Works("volume") \/ Fails("locate") \/ Nothing("locate")
  /\ UNCHANGED <<firmware, open, image, map_key, total_memory, attempts, boot_info, kernel>>

OpenVolume ==
  /\ pc = "volume"
  /\ \/ Works("open") /\ open' = {"root"}
     \/ (Fails("volume") \/ Nothing("volume")) /\ UNCHANGED open
  /\ UNCHANGED <<firmware, image, map_key, total_memory, attempts, boot_info, kernel>>

RootLeaks == UNCHANGED open \* faulty
CloseRoot == open' = open \ {"root"}

OpenKernel ==
  /\ pc = "open"
  /\ \/ Works("alloc") /\ open' = open \cup {"kernel"}
     \/ (Fails("open") \/ Nothing("open")) /\ CloseRoot
  /\ UNCHANGED <<firmware, image, map_key, total_memory, attempts, boot_info, kernel>>

CloseFiles == open' = open \ {"root", "kernel"}

\* AllocatePages() at the load address, then the loop that zeroes the pages.
Allocate ==
  /\ pc = "alloc"
  /\ \/ /\ Works("read") /\ image' = "zeroed"
        /\ NewMap
        /\ UNCHANGED open
     \/ /\ Fails("alloc") /\ CloseFiles
        /\ UNCHANGED <<image, layout, version>>
  /\ UNCHANGED <<services, changes, stale_status, map_key, total_memory, attempts, boot_info,
                 kernel>>

AnySize(size) == TRUE \* faulty
Accepted(size) == size # "empty"

ImageOf(size) ==
  CASE size = "empty" -> "zeroed" [] size = "fits" -> "kernel" [] size = "too_big" -> "truncated"

ReadKernel ==
  /\ pc = "read"
  /\ \/ \E size \in ImageSizes :
          /\ image' = ImageOf(size)
          /\ pc' = IF Accepted(size) THEN "map" ELSE "report"
          /\ trouble' = IF size = "fits" THEN trouble ELSE size
     \/ Fails("read") /\ image' = "truncated"
  /\ CloseFiles
  /\ UNCHANGED <<firmware, map_key, total_memory, attempts, boot_info, kernel>>

(***************************************************************************)
(* efi_leave_boot_services(): one round of its loop is GetMap and one of   *)
(* the ExitBootServices() outcomes.                                        *)
(***************************************************************************)
SumGrows == (total_memory + UsableBytes(layout)) % WordSize \* faulty
SumOnce == IF attempts = 0 THEN UsableBytes(layout) ELSE total_memory \* faulty
Sum == UsableBytes(layout)

\* "do not print or allocate between those calls"
AllocateAgain == NewMap \* faulty
LeaveMapAlone == UNCHANGED <<layout, version>>

GetMap ==
  /\ pc = "map"
  /\ map_key' = version
  /\ total_memory' = Sum
  /\ LeaveMapAlone
  /\ Works("exit")
  /\ UNCHANGED <<services, changes, stale_status, open, image, attempts, boot_info, kernel>>

GetMapFails ==
  /\ pc = "map"
  /\ \/ Fails("map")
     \/ "map" \in Quirks /\ pc' = "cli" /\ trouble' = "nothing"
  /\ map_key' = 0
  /\ UNCHANGED <<firmware, open, image, total_memory, attempts, boot_info, kernel>>

LoopAgain == pc' = "map" \* faulty
LeaveLoop == pc' = "cli"

ExitSucceeds ==
  /\ pc = "exit" /\ map_key = version
  /\ services' = "exited"
  /\ boot_info' = [boot_info EXCEPT !.memory_bytes = total_memory]
  /\ attempts' = attempts + 1
  /\ LeaveLoop
  /\ UNCHANGED <<layout, version, changes, stale_status, open, image, map_key, total_memory, trouble,
                 kernel>>

GiveUp == pc' = "report" \* faulty
Retry == pc' = IF stale_status = EFI_INVALID_PARAMETER THEN "map" ELSE "report"

ExitStale ==
  /\ pc = "exit" /\ map_key # version
  /\ attempts' = attempts + 1
  /\ Retry
  /\ UNCHANGED <<firmware, open, image, map_key, total_memory, trouble, boot_info, kernel>>

ExitFails ==
  /\ pc = "exit" /\ Fails("exit")
  /\ attempts' = attempts + 1
  /\ UNCHANGED <<firmware, open, image, map_key, total_memory, boot_info, kernel>>

\* faulty: the failure is reported, and the loader waits for ever
ReportHangs == pc = "report" /\ UNCHANGED vars

\* efi_main() prints "failed to start kernel" and returns to the firmware.
Report ==
  /\ pc = "report"
  /\ pc' = "failed"
  /\ UNCHANGED <<firmware, loader, kernel>>

(***************************************************************************)
(* kernel_startup().  memory_init() and acpi_init() are empty.             *)
(***************************************************************************)
KernelEnter ==
  /\ pc = "cli"
  /\ interrupts' = FALSE
  /\ total_memory_bytes' = boot_info.memory_bytes
  /\ rsdp_address' = boot_info.rsdp
  /\ pc' = "idt"
  /\ UNCHANGED <<firmware, loader, idt, pic_masked>>

IdtLoadSti == idt' = "kernel" /\ interrupts' = TRUE \* faulty
IdtLoad == idt' = "kernel" /\ UNCHANGED interrupts

KernelIdt ==
  /\ pc = "idt"
  /\ IdtLoad
  /\ pc' = "pic"
  /\ UNCHANGED <<firmware, loader, total_memory_bytes, rsdp_address, pic_masked>>

KernelPic ==
  /\ pc = "pic"
  /\ pic_masked' = TRUE
  /\ pc' = "hlt"
  /\ UNCHANGED <<firmware, loader, total_memory_bytes, rsdp_address, interrupts, idt>>

Load == LocateVolume \/ OpenVolume \/ OpenKernel \/ Allocate \/ ReadKernel
Leave == GetMap \/ GetMapFails \/ ExitSucceeds \/ ExitStale \/ ExitFails
Startup == KernelEnter \/ KernelIdt \/ KernelPic
Program == Load \/ Leave \/ Report \/ Startup

Next == MapChange \/ Program

\* The program runs until it halts, and every firmware call returns.
Spec == Init /\ [][Next]_vars /\ WF_vars(Program)

-----------------------------------------------------------------------------
KernelSteps == {"cli", "idt", "pic", "hlt"}
KernelHasMemory == pc \in KernelSteps \ {"cli"}

(***************************************************************************)
(* Every variable stays in its range.                                      *)
(***************************************************************************)
Totals == {0} \cup {UsableBytes(l) : l \in Layouts}

TypeOK ==
  /\ pc \in Calls \cup {"report", "failed"} \cup KernelSteps
  /\ services \in {"active", "exited"}
  /\ layout \in Layouts /\ version \in Nat /\ changes \in 0 .. MaxChanges
  /\ stale_status \in StaleStatuses
  /\ open \in SUBSET {"root", "kernel"}
  /\ image \in {"unknown", "zeroed", "kernel", "truncated"}
  /\ trouble \in {"none", "error", "nothing", "empty", "too_big"}
  /\ map_key \in Nat /\ total_memory \in Totals /\ attempts \in Nat
  /\ boot_info \in [memory_bytes : Totals, rsdp : {"NULL", "table"}]
  /\ total_memory_bytes \in Totals /\ rsdp_address \in {"NULL", "table"}
  /\ interrupts \in BOOLEAN /\ idt \in {"firmware", "kernel"} /\ pic_masked \in BOOLEAN

(***************************************************************************)
(* "The final UEFI memory map was captured by the loader": the size the    *)
(* kernel works with is that of the map in force when the firmware left,   *)
(* however often the map changed and the loop of efi_leave_boot_services() *)
(* went round.                                                             *)
(***************************************************************************)
KernelMemoryMatches ==
  KernelHasMemory /\ services = "exited" => total_memory_bytes = UsableBytes(layout)

(***************************************************************************)
(* No step that calls the firmware (the loader's calls and the message of  *)
(* efi_main() that the kernel did not start) is reached once boot services *)
(* are gone: gBS and the console are dead then.                            *)
(***************************************************************************)
NoCallAfterExit == services = "exited" => pc \in KernelSteps

(***************************************************************************)
(* The loop goes round only for changes the firmware made on its own: no   *)
(* call the loader makes between GetMemoryMap() and ExitBootServices()     *)
(* spoils the key, so interference bounds the number of attempts.          *)
(***************************************************************************)
RetriesOwedToChanges == attempts <= changes + 1

(***************************************************************************)
(* The loader leaves nothing open behind it, on whichever path it left     *)
(* efi_load_kernel().                                                      *)
(***************************************************************************)
FilesClosed == pc \in {"map", "exit", "report", "failed"} \cup KernelSteps => open = {}

(***************************************************************************)
(* The jump lands in a kernel: the whole image is at the load address and  *)
(* boot services are over, unless the firmware delivered nothing without   *)
(* saying so or kernel.bin is larger than KERNEL_MAX_BYTES, which the      *)
(* loader does not notice.                                                 *)
(***************************************************************************)
JumpIsSafe ==
  pc \in KernelSteps /\ trouble \notin {"nothing", "too_big"} =>
    image = "kernel" /\ services = "exited"

(***************************************************************************)
(* The gates of idt_init() send interrupt lines into exception stubs, so   *)
(* no interrupt may be let in once they are loaded, and the halted kernel  *)
(* has the old controller silenced as well.                                *)
(***************************************************************************)
InterruptsStayMasked ==
  /\ idt = "kernel" => ~ interrupts
  /\ pc = "hlt" => idt = "kernel" /\ pic_masked

(***************************************************************************)
(* Once the firmware stops changing the map, the handoff ends: the kernel  *)
(* halts or the failure has been reported.                                 *)
(***************************************************************************)
HandoffEnds == <>(pc \in {"hlt", "failed"})

(***************************************************************************)
(* Where the firmware's answer to a stale key is the number efi.h gives    *)
(* EFI_INVALID_PARAMETER, stale keys alone never keep the kernel from      *)
(* being reached: a start ends in the halted kernel unless something else  *)
(* went wrong.  It does not hold of other firmware: efi_main.c:906 takes   *)
(* every other status for a failure, so that one stale key ends the        *)
(* handoff, also with firmware that sets the error bit of 64-bit statuses, *)
(* 0x8000000000000002.                                                     *)
(***************************************************************************)
KernelReached ==
  stale_status = EFI_INVALID_PARAMETER => <>(pc = "hlt" \/ trouble # "none")

(***************************************************************************)
(* kernel.c:18, "At this point, ExitBootServices() MUST already be         *)
(* called", of the point after the kernel took over boot_info.             *)
(***************************************************************************)
ExitedBeforeKernel == KernelHasMemory => services = "exited"

(***************************************************************************)
(* What the loop of efi_leave_boot_services() maintains.  A key that is    *)
(* still current comes with the size of the current map, and a key that is *)
(* not is owed to a change the firmware made since the map was read.       *)
(***************************************************************************)
LoopInv ==
  pc = "exit" =>
    /\ map_key <= version
    /\ map_key = version => total_memory = UsableBytes(layout)
    /\ map_key < version => attempts < changes

AttemptsInv ==
  /\ attempts <= changes + 1
  /\ pc \in Calls => attempts <= changes

ExitedInv ==
  /\ services = "exited" =>
       pc \in KernelSteps /\ boot_info.memory_bytes = UsableBytes(layout)
  /\ KernelHasMemory => total_memory_bytes = boot_info.memory_bytes

HandoffInv == LoopInv /\ AttemptsInv /\ ExitedInv

(***************************************************************************)
(* What the three properties of the loader's files, of the jump and of the *)
(* interrupts rest on: the handles held before each call, a smooth start   *)
(* until the kernel is loaded, and the order of the kernel's steps.        *)
(***************************************************************************)
OpenInv ==
  /\ pc \in {"locate", "volume"} => open = {}
  /\ pc = "open" => open = {"root"}
  /\ FilesClosed

ImageInv ==
  /\ pc \in {"locate", "volume", "open", "alloc", "read"} => trouble = "none"
  /\ pc \in {"map", "exit"} /\ trouble \notin {"nothing", "too_big"} => image = "kernel"
  /\ JumpIsSafe

MaskInv ==
  /\ pc \in {"idt", "pic", "hlt"} => ~ interrupts
  /\ (idt = "kernel") = (pc \in {"pic", "hlt"})
  /\ pc = "hlt" => pic_masked
=============================================================================
