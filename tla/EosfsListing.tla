---------------------------- MODULE EosfsListing ----------------------------
(***************************************************************************)
(* The commands dir and ls: eosfs_list_path() of kernel/drivers/eosfs.c    *)
(* reads the entries of the volume's root one by one, and shows a built-in *)
(* table when it gets none.  The root is the one of the file commands, and *)
(* is listed between them.  Both drives show this one listing; the path is *)
(* not looked at.                                                          *)
(*                                                                         *)
(* The firmware returns the entries in any order, each once, and then size *)
(* 0.  An entry whose name does not fit into the buffer is an error.  Of a *)
(* name that fits, the listing keeps the first 15 characters, so two files *)
(* may be shown under one name.                                            *)
(***************************************************************************)
EXTENDS FileCommands

CONSTANTS
  MaxEntries,  \* EOSFS_MAX_ENTRIES
  LongNames,   \* names too long for the buffer of 256 bytes
  ShortName,   \* the first 15 characters of each name
  BuiltIn      \* the names of g_entries, as eosfs_init() leaves them

ASSUME ListingAssumption ==
  /\ MaxEntries \in Nat \ {0} /\ LongNames \subseteq Names
  /\ ShortName \in [Names -> STRING] /\ BuiltIn \in Seq(STRING)

VARIABLES
  entries,  \* the names read, and then those shown
  listed,   \* the files the firmware has returned since the root was opened
  cut       \* history: an error ended the reading

listing == <<entries, listed, cut>>
allvars == <<vars, listing>>

Unlisted == DOMAIN volume \ ToSet(listed)

StartListing ==
  /\ pc = "shell"
  /\ pc' = "list_locate" /\ cmd' = [op |-> "ls", name |-> "none", text |-> <<>>]
  /\ pos' = 0 /\ shown' = <<>> /\ ran' = <<>> /\ reply' = "none"
  /\ before' = volume /\ misplaced' = FALSE
  /\ entries' = <<>> /\ cut' = FALSE
  /\ UNCHANGED <<volume, handles, listed>>

\* eosfs_read_disk_entries() found nothing, or could not look.
Defaults == SubSeq(BuiltIn, 1, IF Len(BuiltIn) <= MaxEntries THEN Len(BuiltIn) ELSE MaxEntries)
ShowBuiltIn == entries' = Defaults /\ Returns("done")

Listing == UNCHANGED <<volume, cmd, pos, shown, ran, before, misplaced>>

ListLocate ==
  /\ pc = "list_locate"
  /\ pc' = "list_volume"
  /\ Listing /\ UNCHANGED <<reply, handles, listing>>

ListVolume ==
  /\ pc = "list_volume"
  /\ pc' = "list_read" /\ handles' = handles \cup {"root"}
  /\ Listing /\ UNCHANGED <<reply, listing>>

LastIsFull == Len(entries) >= MaxEntries - 1 \* faulty
TableFull == Len(entries) >= MaxEntries

Shortened(n) == ShortName[n]

ReadEntry ==
  /\ pc = "list_read" /\ ~ TableFull
  /\ \E n \in Unlisted \ LongNames :
       entries' = Append(entries, Shortened(n)) /\ listed' = Append(listed, n)
  /\ Listing /\ UNCHANGED <<pc, reply, handles, cut>>

EndListing ==
  /\ IF entries = <<>> THEN ShowBuiltIn ELSE Returns("done") /\ UNCHANGED entries
  /\ handles' = handles \ {"root"} /\ listed' = <<>>
  /\ Listing

LastEntry ==
  /\ pc = "list_read"
  /\ TableFull \/ Unlisted = {}
  /\ EndListing /\ UNCHANGED cut

NameTooLong ==
  /\ pc = "list_read" /\ ~ TableFull /\ Unlisted \cap LongNames # {}
  /\ EndListing /\ cut' = TRUE

CallOf == [list_locate |-> "locate", list_volume |-> "volume", list_read |-> "read"]

ListingFails ==
  /\ pc \in DOMAIN CallOf /\ CallOf[pc] \in Faults
  /\ pc = "list_read" => ~ TableFull
  /\ EndListing /\ cut' = TRUE

List == ListLocate \/ ListVolume \/ ReadEntry \/ LastEntry \/ NameTooLong

-----------------------------------------------------------------------------
ListingInit == Init /\ entries = <<>> /\ listed = <<>> /\ cut = FALSE

Serve == (Run /\ UNCHANGED listing) \/ List

ListingNext ==
  \/ Serve \/ StartListing \/ ListingFails
  \/ (Starts \/ Fault) /\ UNCHANGED listing

\* The terminal goes on with the command it has begun and the firmware answers
\* each call; nothing makes a call fail.
ListingSpec == ListingInit /\ [][ListingNext]_allvars /\ WF_allvars(Serve)

-----------------------------------------------------------------------------
(***************************************************************************)
(* Every variable stays in its range, a position lies in its file, and the *)
(* file is open exactly while calls are made on it.                        *)
(***************************************************************************)
TypeOK ==
  /\ \A n \in DOMAIN volume : n \in Names /\ Len(volume[n]) <= MaxSize
  /\ handles \subseteq {"root", "file"}
  /\ "file" \in handles => Exists /\ pos \in 0 .. Len(Bytes)
  /\ ("file" \in handles) = (pc \in {"read", "close", "delete", "seek", "write"})
  /\ ("root" \in handles) = (pc \in {"open", "list_read"})
  /\ reply \in {"none", "done", "failed"} /\ misplaced \in BOOLEAN /\ cut \in BOOLEAN
  /\ Len(entries) <= MaxEntries /\ ToSet(listed) \subseteq DOMAIN volume

(***************************************************************************)
(* Each line of a listing stands for a file of the volume, of which it     *)
(* shows the first 15 characters; no file has two lines, and every file    *)
(* has one, unless the listing is full or was cut short.  The built-in     *)
(* table stands for a volume only when that is empty or its first entry    *)
(* could not be read.  Two lines may be alike, and a listing that an error *)
(* cut short looks like a complete one: the code does not keep them apart. *)
(***************************************************************************)
Lists(files) ==
  /\ IsInjective(files)
  /\ \A k \in DOMAIN files : entries[k] = ShortName[files[k]]

ListingShowsVolume ==
  Ended({"ls"}) =>
    \/ entries = Defaults /\ (cut \/ DOMAIN volume = {})
    \/ \E files \in [DOMAIN entries -> DOMAIN volume] :
         /\ Lists(files)
         /\ ~ cut => Len(entries) = MaxEntries
                       \/ \A n \in DOMAIN volume : \E k \in DOMAIN files : files[k] = n

(***************************************************************************)
(* Every command returns to the shell: no file and no directory is read    *)
(* for ever.                                                               *)
(***************************************************************************)
EveryCommandEnds == pc # "shell" ~> pc = "shell"
=============================================================================
