-------------------------- MODULE BootHandoffProofs -------------------------
(***************************************************************************)
(* The handoff for every set of memory maps, word size, number of map      *)
(* changes and combination of failing calls.                               *)
(***************************************************************************)
EXTENDS BootHandoff, TLAPS

USE DEF firmware, loader, kernel

(***************************************************************************)
(* Every variable stays in its range.                                      *)
(***************************************************************************)
THEOREM HandoffTypeCorrect == Spec => []TypeOK
<1>1. Init => TypeOK
  <2> SUFFICES ASSUME Init PROVE TypeOK
    OBVIOUS
  <2>1. 0 \in Totals
    BY DEF Totals
  <2>2. boot_info \in [memory_bytes : Totals, rsdp : {"NULL", "table"}]
    BY <2>1 DEF Init
  <2>3. changes \in 0 .. MaxChanges /\ version \in Nat /\ map_key \in Nat /\ attempts \in Nat
    BY HandoffAssumption DEF Init
  <2>4. open \in SUBSET {"root", "kernel"}
    BY DEF Init
  <2> QED
    BY <2>1, <2>2, <2>3, <2>4 DEF Init, TypeOK, Calls
<1>2. TypeOK /\ [Next]_vars => TypeOK'
  <2> SUFFICES ASSUME TypeOK, [Next]_vars PROVE TypeOK'
    OBVIOUS
  <2> USE HandoffAssumption DEF TypeOK, Calls, KernelSteps, Fails, Nothing, Works
  <2>1. CASE MapChange
    BY <2>1 DEF MapChange, NewMap
  <2>2. CASE LocateVolume
    BY <2>2 DEF LocateVolume
  <2>3. CASE OpenVolume
    BY <2>3 DEF OpenVolume
  <2>4. CASE OpenKernel
    <3>1. open' \in SUBSET {"root", "kernel"}
      BY <2>4 DEF OpenKernel, CloseRoot
    <3> QED
      BY <2>4, <3>1 DEF OpenKernel
  <2>5. CASE Allocate
    <3>1. open' \in SUBSET {"root", "kernel"}
      BY <2>5 DEF Allocate, CloseFiles
    <3>2. layout' \in Layouts /\ version' \in Nat
      BY <2>5 DEF Allocate, NewMap
    <3> QED
      BY <2>5, <3>1, <3>2 DEF Allocate
  <2>6. CASE ReadKernel
    <3>1. \A size \in ImageSizes : ImageOf(size) \in {"zeroed", "kernel", "truncated"}
      BY DEF ImageOf
    <3>2. image' \in {"unknown", "zeroed", "kernel", "truncated"}
      BY <2>6, <3>1 DEF ReadKernel
    <3>3. open' \in SUBSET {"root", "kernel"}
      BY <2>6 DEF ReadKernel, CloseFiles
    <3>4. pc' \in {"map", "report"}
      BY <2>6 DEF ReadKernel
    <3> QED
      BY <2>6, <3>2, <3>3, <3>4 DEF ReadKernel
  <2>7. CASE GetMap
    BY <2>7 DEF GetMap, Sum, LeaveMapAlone, Totals
  <2>8. CASE GetMapFails
    BY <2>8 DEF GetMapFails
  <2>9. CASE ExitSucceeds
    BY <2>9 DEF ExitSucceeds, LeaveLoop
  <2>10. CASE ExitStale
    BY <2>10 DEF ExitStale, Retry
  <2>11. CASE ExitFails
    BY <2>11 DEF ExitFails
  <2>12. CASE Report
    BY <2>12 DEF Report
  <2>13. CASE KernelEnter
    BY <2>13 DEF KernelEnter
  <2>14. CASE KernelIdt
    BY <2>14 DEF KernelIdt, IdtLoad
  <2>15. CASE KernelPic
    BY <2>15 DEF KernelPic
  <2>16. CASE UNCHANGED vars
    BY <2>16 DEF vars
  <2> QED
    BY <2>1, <2>2, <2>3, <2>4, <2>5, <2>6, <2>7, <2>8, <2>9, <2>10, <2>11, <2>12,
       <2>13, <2>14, <2>15, <2>16 DEF Next, Program, Load, Leave, Startup
<1> QED
  BY <1>1, <1>2, PTL DEF Spec

(***************************************************************************)
(* What the loop around ExitBootServices() and the kernel's first steps    *)
(* maintain, whatever the firmware does in between.                        *)
(***************************************************************************)
LEMMA HandoffInductive == Spec => []HandoffInv
<1>1. Init => HandoffInv
  BY HandoffAssumption
     DEF Init, HandoffInv, LoopInv, AttemptsInv, ExitedInv, KernelHasMemory, KernelSteps
<1>2. TypeOK /\ HandoffInv /\ [Next]_vars => HandoffInv'
  <2> SUFFICES ASSUME TypeOK, HandoffInv, [Next]_vars PROVE HandoffInv'
    OBVIOUS
  <2> USE DEF HandoffInv, LoopInv, AttemptsInv, ExitedInv, KernelHasMemory, KernelSteps,
              Calls, Fails, Nothing, Works
  <2>0. version \in Nat /\ map_key \in Nat /\ attempts \in Nat /\ changes \in Nat
    BY HandoffAssumption DEF TypeOK
  <2>1. CASE MapChange
    BY <2>0, <2>1 DEF MapChange, NewMap
  <2>2. CASE LocateVolume
    BY <2>0, <2>2 DEF LocateVolume
  <2>3. CASE OpenVolume
    BY <2>0, <2>3 DEF OpenVolume
  <2>4. CASE OpenKernel
    BY <2>0, <2>4 DEF OpenKernel
  <2>5. CASE Allocate
    BY <2>0, <2>5 DEF Allocate, NewMap
  <2>6. CASE ReadKernel
    BY <2>0, <2>6, HandoffAssumption DEF ReadKernel
  <2>7. CASE GetMap
    BY <2>0, <2>7 DEF GetMap, Sum, LeaveMapAlone
  <2>8. CASE GetMapFails
    BY <2>0, <2>8 DEF GetMapFails
  <2>9. CASE ExitSucceeds
    BY <2>0, <2>9 DEF ExitSucceeds, LeaveLoop, TypeOK
  <2>10. CASE ExitStale
    BY <2>0, <2>10 DEF ExitStale, Retry
  <2>11. CASE ExitFails
    BY <2>0, <2>11 DEF ExitFails
  <2>12. CASE Report
    BY <2>0, <2>12 DEF Report
  <2>13. CASE KernelEnter
    BY <2>0, <2>13 DEF KernelEnter
  <2>14. CASE KernelIdt
    BY <2>0, <2>14 DEF KernelIdt, IdtLoad
  <2>15. CASE KernelPic
    BY <2>0, <2>15 DEF KernelPic
  <2>16. CASE UNCHANGED vars
    BY <2>0, <2>16 DEF vars
  <2> QED
    BY <2>1, <2>2, <2>3, <2>4, <2>5, <2>6, <2>7, <2>8, <2>9, <2>10, <2>11, <2>12,
       <2>13, <2>14, <2>15, <2>16 DEF Next, Program, Load, Leave, Startup
<1> QED
  BY <1>1, <1>2, HandoffTypeCorrect, PTL DEF Spec

(***************************************************************************)
(* The kernel's memory size is that of the map in force at the exit.       *)
(***************************************************************************)
THEOREM KernelKnowsItsMemory == Spec => []KernelMemoryMatches
<1>1. HandoffInv => KernelMemoryMatches
  BY DEF HandoffInv, ExitedInv, KernelMemoryMatches
<1> QED
  BY <1>1, HandoffInductive, PTL

(***************************************************************************)
(* Nothing calls the firmware once boot services are over.                 *)
(***************************************************************************)
THEOREM FirmwareLeftAlone == Spec => []NoCallAfterExit
<1>1. HandoffInv => NoCallAfterExit
  BY DEF HandoffInv, ExitedInv, NoCallAfterExit
<1> QED
  BY <1>1, HandoffInductive, PTL

(***************************************************************************)
(* The number of attempts to exit is bounded by the firmware's changes.    *)
(***************************************************************************)
THEOREM AttemptsBounded == Spec => []RetriesOwedToChanges
<1>1. HandoffInv => RetriesOwedToChanges
  BY DEF HandoffInv, AttemptsInv, RetriesOwedToChanges
<1> QED
  BY <1>1, HandoffInductive, PTL

(***************************************************************************)
(* No path out of efi_load_kernel() leaves a file or the volume open.      *)
(***************************************************************************)
THEOREM LoaderClosesFiles == Spec => []FilesClosed
<1>1. Init => OpenInv
  BY DEF Init, OpenInv, FilesClosed, KernelSteps, Calls
<1>2. TypeOK /\ OpenInv /\ [Next]_vars => OpenInv'
  <2> SUFFICES ASSUME TypeOK, OpenInv, [Next]_vars PROVE OpenInv'
    OBVIOUS
  <2> USE DEF OpenInv, FilesClosed, KernelSteps, Calls, Fails, Nothing, Works
  <2>1. CASE MapChange
    BY <2>1 DEF MapChange
  <2>2. CASE LocateVolume
    BY <2>2 DEF LocateVolume
  <2>3. CASE OpenVolume
    BY <2>3 DEF OpenVolume
  <2>4. CASE OpenKernel
    BY <2>4 DEF OpenKernel, CloseRoot
  <2>5. CASE Allocate
    BY <2>5 DEF Allocate, NewMap, CloseFiles, TypeOK
  <2>6. CASE ReadKernel
    BY <2>6, HandoffAssumption DEF ReadKernel, ImageOf, Accepted, CloseFiles, TypeOK
  <2>7. CASE GetMap
    BY <2>7 DEF GetMap
  <2>8. CASE GetMapFails
    BY <2>8 DEF GetMapFails
  <2>9. CASE ExitSucceeds
    BY <2>9 DEF ExitSucceeds, LeaveLoop
  <2>10. CASE ExitStale
    BY <2>10 DEF ExitStale, Retry
  <2>11. CASE ExitFails
    BY <2>11 DEF ExitFails
  <2>12. CASE Report
    BY <2>12 DEF Report
  <2>13. CASE KernelEnter
    BY <2>13 DEF KernelEnter
  <2>14. CASE KernelIdt
    BY <2>14 DEF KernelIdt, IdtLoad
  <2>15. CASE KernelPic
    BY <2>15 DEF KernelPic
  <2>16. CASE UNCHANGED vars
    BY <2>16 DEF vars
  <2> QED
    BY <2>1, <2>2, <2>3, <2>4, <2>5, <2>6, <2>7, <2>8, <2>9, <2>10, <2>11, <2>12,
       <2>13, <2>14, <2>15, <2>16 DEF Next, Program, Load, Leave, Startup
<1>3. OpenInv => FilesClosed
  BY DEF OpenInv
<1> QED
  BY <1>1, <1>2, <1>3, HandoffTypeCorrect, PTL DEF Spec

(***************************************************************************)
(* The jump lands in a whole kernel after boot services have ended, unless *)
(* the firmware delivered nothing or the file is too big.                  *)
(***************************************************************************)
THEOREM JumpLandsInKernel == Spec => []JumpIsSafe
<1>1. Init => ImageInv
  BY DEF Init, ImageInv, JumpIsSafe, KernelSteps, Calls
<1>2. TypeOK /\ ImageInv /\ [Next]_vars => ImageInv'
  <2> SUFFICES ASSUME TypeOK, ImageInv, [Next]_vars PROVE ImageInv'
    OBVIOUS
  <2> USE DEF ImageInv, JumpIsSafe, KernelSteps, Calls, Fails, Nothing, Works
  <2>1. CASE MapChange
    BY <2>1 DEF MapChange
  <2>2. CASE LocateVolume
    BY <2>2 DEF LocateVolume
  <2>3. CASE OpenVolume
    BY <2>3 DEF OpenVolume
  <2>4. CASE OpenKernel
    BY <2>4 DEF OpenKernel, CloseRoot
  <2>5. CASE Allocate
    BY <2>5 DEF Allocate, NewMap, CloseFiles, TypeOK
  <2>6. CASE ReadKernel
    BY <2>6, HandoffAssumption DEF ReadKernel, ImageOf, Accepted, CloseFiles, TypeOK
  <2>7. CASE GetMap
    BY <2>7 DEF GetMap
  <2>8. CASE GetMapFails
    BY <2>8 DEF GetMapFails
  <2>9. CASE ExitSucceeds
    BY <2>9 DEF ExitSucceeds, LeaveLoop
  <2>10. CASE ExitStale
    BY <2>10 DEF ExitStale, Retry
  <2>11. CASE ExitFails
    BY <2>11 DEF ExitFails
  <2>12. CASE Report
    BY <2>12 DEF Report
  <2>13. CASE KernelEnter
    BY <2>13 DEF KernelEnter
  <2>14. CASE KernelIdt
    BY <2>14 DEF KernelIdt, IdtLoad
  <2>15. CASE KernelPic
    BY <2>15 DEF KernelPic
  <2>16. CASE UNCHANGED vars
    BY <2>16 DEF vars
  <2> QED
    BY <2>1, <2>2, <2>3, <2>4, <2>5, <2>6, <2>7, <2>8, <2>9, <2>10, <2>11, <2>12,
       <2>13, <2>14, <2>15, <2>16 DEF Next, Program, Load, Leave, Startup
<1>3. ImageInv => JumpIsSafe
  BY DEF ImageInv
<1> QED
  BY <1>1, <1>2, <1>3, HandoffTypeCorrect, PTL DEF Spec

(***************************************************************************)
(* Interrupts are off from before the kernel's table is loaded, and the    *)
(* kernel halts with the old controller silenced.                          *)
(***************************************************************************)
THEOREM KernelStaysMasked == Spec => []InterruptsStayMasked
<1>1. Init => MaskInv
  BY DEF Init, MaskInv, KernelSteps, Calls
<1>2. TypeOK /\ MaskInv /\ [Next]_vars => MaskInv'
  <2> SUFFICES ASSUME TypeOK, MaskInv, [Next]_vars PROVE MaskInv'
    OBVIOUS
  <2> USE DEF MaskInv, KernelSteps, Calls, Fails, Nothing, Works
  <2>1. CASE MapChange
    BY <2>1 DEF MapChange
  <2>2. CASE LocateVolume
    BY <2>2 DEF LocateVolume
  <2>3. CASE OpenVolume
    BY <2>3 DEF OpenVolume
  <2>4. CASE OpenKernel
    BY <2>4 DEF OpenKernel, CloseRoot
  <2>5. CASE Allocate
    BY <2>5 DEF Allocate, NewMap, CloseFiles, TypeOK
  <2>6. CASE ReadKernel
    BY <2>6, HandoffAssumption DEF ReadKernel, ImageOf, Accepted, CloseFiles, TypeOK
  <2>7. CASE GetMap
    BY <2>7 DEF GetMap
  <2>8. CASE GetMapFails
    BY <2>8 DEF GetMapFails
  <2>9. CASE ExitSucceeds
    BY <2>9 DEF ExitSucceeds, LeaveLoop
  <2>10. CASE ExitStale
    BY <2>10 DEF ExitStale, Retry
  <2>11. CASE ExitFails
    BY <2>11 DEF ExitFails
  <2>12. CASE Report
    BY <2>12 DEF Report
  <2>13. CASE KernelEnter
    BY <2>13 DEF KernelEnter
  <2>14. CASE KernelIdt
    BY <2>14 DEF KernelIdt, IdtLoad
  <2>15. CASE KernelPic
    BY <2>15 DEF KernelPic
  <2>16. CASE UNCHANGED vars
    BY <2>16 DEF vars
  <2> QED
    BY <2>1, <2>2, <2>3, <2>4, <2>5, <2>6, <2>7, <2>8, <2>9, <2>10, <2>11, <2>12,
       <2>13, <2>14, <2>15, <2>16 DEF Next, Program, Load, Leave, Startup
<1>3. MaskInv => InterruptsStayMasked
  BY DEF MaskInv, InterruptsStayMasked
<1> QED
  BY <1>1, <1>2, <1>3, HandoffTypeCorrect, PTL DEF Spec
=============================================================================
