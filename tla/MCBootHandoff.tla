--------------------------- MODULE MCBootHandoff ---------------------------
(***************************************************************************)
(* Small memory maps for the handoff: one usable region, a reserved region *)
(* before it, and a map whose usable sizes wrap around the word; and the   *)
(* two answers firmware may have for a stale key.                          *)
(***************************************************************************)
EXTENDS BootHandoff, Sequences

Region(type, pages) == [type |-> type, pages |-> pages]

SmallLayouts ==
  { << Region("Conventional", 1) >>,
    << Region("Reserved", 2), Region("LoaderData", 2), Region("BootServicesCode", 1) >>,
    << Region("BootServicesData", 3), Region("LoaderCode", 2) >> }

\* efi.h's number, and the same error with the highest bit of the word set.
InvalidParameter == {EFI_INVALID_PARAMETER, (WordSize \div 2) + EFI_INVALID_PARAMETER}
=============================================================================
