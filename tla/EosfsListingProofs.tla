------------------------- MODULE EosfsListingProofs -------------------------
(***************************************************************************)
(* The file commands and the listing for all names, volumes, texts, chunk  *)
(* sizes and sets of failing firmware calls.                               *)
(***************************************************************************)
EXTENDS EosfsListing, SequenceFacts, FiniteSetTheorems, TLAPS

FileCalls == {"read", "close", "delete", "seek", "write"}

(***************************************************************************)
(* Which handles are open before each firmware call.                       *)
(***************************************************************************)
HandleInv ==
  /\ pc \in {"shell", "locate", "volume", "list_locate", "list_volume"} => handles = {}
  /\ pc \in {"open", "list_read"} => handles = {"root"}
  /\ pc \in FileCalls => handles = {"file"}

(***************************************************************************)
(* What may have changed of the volume before each firmware call.          *)
(***************************************************************************)
OnlyItsFile ==
  /\ DOMAIN before \subseteq DOMAIN volume
  /\ \A n \in DOMAIN volume \ {cmd.name} : n \in DOMAIN before /\ volume[n] = before[n]

ChangeInv ==
  /\ pc \in {"locate", "volume", "open", "read", "delete"} => volume = before
  /\ pc \in {"read", "delete"} => cmd.op \notin Creating
  /\ pc = "close" => cmd.op = "touch"
  /\ pc \in {"seek", "write"} => cmd.op \in {"write", "append"} /\ cmd.name \in DOMAIN volume /\ OnlyItsFile
  /\ FailureIsContained

(***************************************************************************)
(* Which calls there are, and that only the file commands open a file.     *)
(***************************************************************************)
CallsOK ==
  /\ pc \in {"shell", "locate", "volume", "open"} \cup FileCalls \cup {"list_locate", "list_volume", "list_read"}
  /\ pc \in {"locate", "volume", "open"} =>
       cmd.op \in {"cat", "source", "rm", "touch", "write", "append"}

\* The program is always before one of the calls, and holds a file command there.
LEMMA CallsCorrect == ListingSpec => []CallsOK
<1>1. ListingInit => CallsOK
  BY DEF ListingInit, Init, CallsOK
<1>2. CallsOK /\ [ListingNext]_allvars => CallsOK'
  <2> SUFFICES ASSUME CallsOK, [ListingNext]_allvars PROVE CallsOK'
    OBVIOUS
  <2> USE DEF CallsOK, FileCalls, Returns, report, listing
  <2>1. ASSUME NEW c \in Commands, Start(c) PROVE CallsOK'
    <3>1. c.op \in {"cat", "source", "rm", "touch", "write", "append"}
      BY DEF Commands
    <3> QED
      BY <2>1, <3>1 DEF Start
  <2>2. CASE Locate
    BY <2>2 DEF Locate
  <2>3. CASE OpenVolume
    BY <2>3 DEF OpenVolume
  <2>4. CASE OpenFile
    BY <2>4 DEF OpenFile, FirstCall
  <2>5. CASE ReadChunk
    BY <2>5 DEF ReadChunk
  <2>6. CASE ReadScript \/ CloseTouched \/ DeleteFile \/ WriteText
    BY <2>6 DEF ReadScript, CloseTouched, DeleteFile, WriteText
  <2>7. CASE Seek \/ Fault
    BY <2>7 DEF Seek, Fault, SeekIgnored, CallFails
  <2>8. CASE List
    BY <2>8 DEF List, ListLocate, ListVolume, ReadEntry, LastEntry, NameTooLong, EndListing,
                ShowBuiltIn, Listing
  <2>9. CASE StartListing \/ ListingFails
    BY <2>9 DEF StartListing, ListingFails, EndListing, ShowBuiltIn, Listing
  <2>10. CASE UNCHANGED allvars
    BY <2>10 DEF allvars, vars
  <2> QED
    BY <2>1, <2>2, <2>3, <2>4, <2>5, <2>6, <2>7, <2>8, <2>9, <2>10
       DEF ListingNext, Serve, Run, Starts
<1> QED
  BY <1>1, <1>2, PTL DEF ListingSpec

\* Each firmware call is made with its own handles open.
LEMMA HandlesAlways == ListingSpec => []HandleInv
<1>1. ListingInit => HandleInv
  BY DEF ListingInit, Init, HandleInv, FileCalls
<1>2. CallsOK /\ HandleInv /\ [ListingNext]_allvars => HandleInv'
  <2> SUFFICES ASSUME CallsOK, HandleInv, [ListingNext]_allvars PROVE HandleInv'
    OBVIOUS
  <2> USE DEF HandleInv, FileCalls, Returns, CloseFile
  <2>1. ASSUME NEW c \in Commands, Start(c) PROVE HandleInv'
    BY <2>1 DEF Start
  <2>2. CASE Locate
    BY <2>2 DEF Locate
  <2>3. CASE OpenVolume
    BY <2>3 DEF OpenVolume
  <2>4. CASE OpenFile
    BY <2>4 DEF OpenFile, FirstCall, CallsOK
  <2>5. CASE ReadChunk
    BY <2>5 DEF ReadChunk
  <2>6. CASE ReadScript \/ CloseTouched \/ DeleteFile \/ WriteText
    BY <2>6 DEF ReadScript, CloseTouched, DeleteFile, WriteText
  <2>7. CASE Seek \/ SeekIgnored
    BY <2>7 DEF Seek, SeekIgnored
  <2>8. CASE CallFails
    BY <2>8 DEF CallFails, CloseFailed, CallsOK
  <2>9. CASE ListLocate \/ ListVolume \/ ReadEntry
    BY <2>9 DEF ListLocate, ListVolume, ReadEntry
  <2>10. CASE LastEntry \/ NameTooLong
    BY <2>10 DEF LastEntry, NameTooLong, EndListing, ShowBuiltIn
  <2>11. CASE ListingFails
    BY <2>11 DEF ListingFails, CallOf, EndListing, ShowBuiltIn
  <2>12. CASE StartListing
    BY <2>12 DEF StartListing
  <2>13. CASE UNCHANGED allvars
    BY <2>13 DEF allvars, vars
  <2> QED
    BY <2>1, <2>2, <2>3, <2>4, <2>5, <2>6, <2>7, <2>8, <2>9, <2>10, <2>11, <2>12, <2>13
       DEF ListingNext, Serve, Run, Starts, Fault, List
<1> QED
  BY <1>1, <1>2, CallsCorrect, PTL DEF ListingSpec

(***************************************************************************)
(* No command leaves a handle open, whichever of its calls failed.         *)
(***************************************************************************)
THEOREM CommandsCloseHandles == ListingSpec => []HandlesClosed
<1>1. HandleInv => HandlesClosed
  BY DEF HandleInv, HandlesClosed
<1> QED
  BY <1>1, HandlesAlways, PTL

(***************************************************************************)
(* A command that reports failure has changed nothing but, where it is to  *)
(* write there, its own file.                                              *)
(***************************************************************************)
THEOREM FailuresAreContained == ListingSpec => []FailureIsContained
<1>1. ListingInit => ChangeInv
  BY DEF ListingInit, Init, ChangeInv, FailureIsContained
<1>2. CallsOK /\ ChangeInv /\ [ListingNext]_allvars => ChangeInv'
  <2> SUFFICES ASSUME CallsOK, ChangeInv, [ListingNext]_allvars PROVE ChangeInv'
    OBVIOUS
  <2> USE DEF ChangeInv, FailureIsContained, FileCalls, Returns, Creating, OnlyItsFile
  <2>1. ASSUME NEW c \in Commands, Start(c) PROVE ChangeInv'
    BY <2>1 DEF Start
  <2>2. CASE Locate \/ OpenVolume
    BY <2>2 DEF Locate, OpenVolume, report
  <2>3. CASE OpenFile
    <3>1. CASE Exists
      BY <2>3, <3>1 DEF OpenFile, Exists, FirstCall, CallsOK
    <3>2. CASE ~ Exists /\ ~ Creates
      BY <2>3, <3>2 DEF OpenFile, CallsOK
    <3>3. CASE ~ Exists /\ Creates
      <4>1. DOMAIN volume' = DOMAIN volume \cup {cmd.name}
        BY <2>3, <3>3 DEF OpenFile, WithNewFile, WithFile
      <4>2. \A n \in DOMAIN volume' \ {cmd.name} : n \in DOMAIN volume /\ volume'[n] = volume[n]
        BY <2>3, <3>3 DEF OpenFile, WithNewFile, WithFile
      <4>3. pc' \in {"close", "seek"} /\ (pc' = "close" => cmd.op = "touch")
              /\ cmd' = cmd /\ before' = before
        BY <2>3, <3>3 DEF OpenFile, FirstCall, Creates
      <4>4. volume = before
        BY <2>3 DEF OpenFile
      <4>5. pc' = "seek" => cmd.op \in {"write", "append"}
        BY <2>3, <3>3 DEF OpenFile, FirstCall, Creates
      <4> QED
        BY <4>1, <4>2, <4>3, <4>4, <4>5
    <3> QED
      BY <3>1, <3>2, <3>3
  <2>4. CASE ReadChunk
    BY <2>4 DEF ReadChunk
  <2>5. CASE ReadScript \/ CloseTouched \/ DeleteFile
    BY <2>5 DEF ReadScript, CloseTouched, DeleteFile
  <2>6. CASE Seek \/ SeekIgnored
    BY <2>6 DEF Seek, SeekIgnored, report
  <2>7. CASE WriteText
    BY <2>7 DEF WriteText
  <2>8. CASE CallFails
    <3>1. CASE pc = "write"
      <4>1. DOMAIN volume' = DOMAIN volume
              /\ \A n \in DOMAIN volume \ {cmd.name} : volume'[n] = volume[n]
        BY <2>8, <3>1 DEF CallFails, Puts
      <4> QED
        BY <2>8, <3>1, <4>1 DEF CallFails
    <3>2. CASE pc # "write"
      <4>1. pc # "close" /\ pc \notin {"shell", "list_locate", "list_volume", "list_read"}
        BY <2>8, FileAssumption DEF CallFails
      <4> QED
        BY <2>8, <3>2, <4>1 DEF CallFails, CallsOK
    <3> QED
      BY <3>1, <3>2
  <2>9. CASE ListLocate \/ ListVolume \/ ReadEntry
    BY <2>9 DEF ListLocate, ListVolume, ReadEntry, Listing
  <2>10. CASE LastEntry \/ NameTooLong \/ ListingFails
    BY <2>10 DEF LastEntry, NameTooLong, ListingFails, EndListing, ShowBuiltIn, Listing
  <2>11. CASE StartListing
    BY <2>11 DEF StartListing
  <2>12. CASE UNCHANGED allvars
    BY <2>12 DEF allvars, vars, report
  <2> QED
    BY <2>1, <2>2, <2>3, <2>4, <2>5, <2>6, <2>7, <2>8, <2>9, <2>10, <2>11, <2>12
       DEF ListingNext, Serve, Run, Starts, Fault, List
<1>3. ChangeInv => FailureIsContained
  BY DEF ChangeInv
<1> QED
  BY <1>1, <1>2, <1>3, CallsCorrect, PTL DEF ListingSpec

-----------------------------------------------------------------------------
(***************************************************************************)
(* What the helpers do to the bytes of a file and to a volume.             *)
(***************************************************************************)

\* A part of a file.
LEMMA PartOps ==
  ASSUME NEW S, NEW b \in Seq(S), NEW m \in Nat \ {0}, NEW n \in Nat, n <= Len(b)
  PROVE  /\ SubSeq(b, m, n) \in Seq(S)
         /\ Len(SubSeq(b, m, n)) = IF m <= n THEN n - m + 1 ELSE 0
<1>1. \A i \in m .. n : b[i] \in S
  <2> SUFFICES ASSUME NEW i \in m .. n PROVE b[i] \in S
    OBVIOUS
  <2>1. i \in 1 .. Len(b)
    BY LenProperties
  <2> QED
    BY <2>1, ElementOfSeq
<1> QED
  BY <1>1, SubSeqProperties

\* Writing over a file keeps it a file, which only grows beyond its end.
LEMMA OverlaidLength ==
  ASSUME NEW S, NEW b \in Seq(S), NEW t \in Seq(S), NEW at \in 0 .. Len(b)
  PROVE  /\ Overlaid(b, at, t) \in Seq(S)
         /\ Len(Overlaid(b, at, t)) = IF at + Len(t) <= Len(b) THEN Len(b) ELSE at + Len(t)
<1> DEFINE x == SubSeq(b, 1, at)
           z == SubSeq(b, at + Len(t) + 1, Len(b))
<1>1. Len(b) \in Nat /\ Len(t) \in Nat /\ at \in Nat /\ at <= Len(b)
  BY LenProperties
<1>2. x \in Seq(S) /\ Len(x) = at
  BY <1>1, PartOps
<1>3. z \in Seq(S) /\ Len(z) = IF at + Len(t) + 1 <= Len(b) THEN Len(b) - (at + Len(t)) ELSE 0
  <2> DEFINE m == at + Len(t) + 1
  <2>1. m \in Nat \ {0} /\ m = at + Len(t) + 1
    BY <1>1
  <2>2. z = SubSeq(b, m, Len(b))
    OBVIOUS
  <2> HIDE DEF m
  <2>3. SubSeq(b, m, Len(b)) \in Seq(S)
        /\ Len(SubSeq(b, m, Len(b))) = IF m <= Len(b) THEN Len(b) - m + 1 ELSE 0
    BY <1>1, <2>1, PartOps
  <2> HIDE DEF z
  <2> QED
    BY <1>1, <2>1, <2>2, <2>3
<1>4. Overlaid(b, at, t) = (x \o t) \o z
  BY DEF Overlaid
<1> HIDE DEF x, z
<1>5. x \o t \in Seq(S) /\ Len(x \o t) = at + Len(t)
  BY <1>2, ConcatProperties
<1> DEFINE y == x \o t
<1>6. Overlaid(b, at, t) = y \o z /\ y \in Seq(S) /\ Len(y) = at + Len(t)
  BY <1>4, <1>5
<1> HIDE DEF y
<1>7. y \o z \in Seq(S) /\ Len(y \o z) = Len(y) + Len(z)
  BY <1>3, <1>6, ConcatProperties
<1>8. Len(z) = IF at + Len(t) + 1 <= Len(b) THEN Len(b) - (at + Len(t)) ELSE 0
  BY <1>3
<1>9. Len(Overlaid(b, at, t)) = at + Len(t) + Len(z)
  BY <1>6, <1>7
<1>10. Overlaid(b, at, t) \in Seq(S)
  BY <1>6, <1>7
<1>11. Len(Overlaid(b, at, t)) = IF at + Len(t) <= Len(b) THEN Len(b) ELSE at + Len(t)
  <2> DEFINE p == at + Len(t)
             n == Len(b)
  <2>1. p \in Nat /\ n \in Nat
    BY <1>1
  <2>2. /\ Len(Overlaid(b, at, t)) = p + Len(z)
        /\ Len(z) = IF p + 1 <= n THEN n - p ELSE 0
    BY <1>8, <1>9
  <2> HIDE DEF p, n
  <2>3. Len(Overlaid(b, at, t)) = IF p <= n THEN n ELSE p
    BY <2>1, <2>2
  <2> QED
    BY <2>3 DEF p, n
<1> QED
  BY <1>10, <1>11

\* At the beginning the text replaces as much of the file as it is long.
LEMMA OverlaidAtStart ==
  ASSUME NEW S, NEW b \in Seq(S), NEW t \in Seq(S)
  PROVE  Overlaid(b, 0, t) = t \o SubSeq(b, Len(t) + 1, Len(b))
<1>1. Len(t) \in Nat /\ 0 + Len(t) + 1 = Len(t) + 1
  BY LenProperties
<1>2. SubSeq(b, 1, 0) = <<>>
  BY SubSeqEmpty
<1>3. <<>> \o t = t
  BY ConcatEmptySeq
<1> QED
  BY <1>1, <1>2, <1>3 DEF Overlaid

\* At the end the text follows the file.
LEMMA OverlaidAtEnd ==
  ASSUME NEW S, NEW b \in Seq(S), NEW t \in Seq(S)
  PROVE  Overlaid(b, Len(b), t) = b \o t
<1> DEFINE m == Len(b) + Len(t) + 1
           n == Len(b)
<1>1. n \in Int /\ m \in Int /\ n < m
  BY LenProperties
<1> HIDE DEF m, n
<1>2. SubSeq(b, m, n) = <<>>
  BY <1>1, SubSeqEmpty
<1>3. SubSeq(b, 1, Len(b)) = b
  BY SubSeqFull
<1>4. b \o t \in Seq(S)
  BY ConcatProperties
<1>5. (b \o t) \o <<>> = b \o t
  BY <1>4, ConcatEmptySeq
<1> QED
  BY <1>2, <1>3, <1>5 DEF Overlaid, m, n

\* A volume with one file made or replaced.
LEMMA WithFileOps ==
  ASSUME NEW T, NEW v, v \in [DOMAIN v -> T], NEW n, NEW b \in T
  PROVE  LET w == WithFile(v, n, b)
         IN  /\ w \in [DOMAIN w -> T] /\ DOMAIN w = DOMAIN v \cup {n} /\ w[n] = b
             /\ n \in DOMAIN v => WithFile(v, n, v[n]) = v
             /\ \A c : [w EXCEPT ![n] = c] = WithFile(v, n, c)
BY DEF WithFile

\* What is known of every command.
LEMMA CommandParts ==
  ASSUME NEW c \in Commands
  PROVE  /\ c.op \in {"cat", "source", "rm", "touch", "write", "append"}
         /\ c.name \in Names /\ c.text \in Contents
<1>1. <<>> \in Contents
  BY FileAssumption, EmptySeq DEF Contents
<1>2. CASE c \in [op : {"cat", "touch", "rm", "source"}, name : Names, text : {<<>>}]
  BY <1>1, <1>2
<1>3. CASE c \in UNION {[op : {"write", "append"}, name : {n}, text : Texts[n]] : n \in Names}
  <2>1. PICK n \in Names : c \in [op : {"write", "append"}, name : {n}, text : Texts[n]]
    BY <1>3
  <2>2. c.op \in {"write", "append"} /\ c.name = n /\ c.text \in Texts[n]
    BY <2>1
  <2>3. c.text \in Contents
    BY <2>2, FileAssumption
  <2> QED
    BY <2>2, <2>3
<1> QED
  BY <1>2, <1>3 DEF Commands

-----------------------------------------------------------------------------
(***************************************************************************)
(* Which command a firmware call belongs to, where the file's position is, *)
(* and that there will be room for what is appended.                       *)
(***************************************************************************)
FirstCallOf ==
  /\ pc = "read" => cmd.op \in {"cat", "source"}
  /\ pc = "delete" => cmd.op = "rm"
  /\ pc = "close" => cmd.op = "touch"
  /\ pc \in {"seek", "write"} => cmd.op \in {"write", "append"}
  /\ pc \in {"list_locate", "list_volume", "list_read"} => cmd.op = "ls"

CommandInv ==
  /\ pc \in {"locate", "volume", "open"} \cup FileCalls => cmd \in Commands
  /\ FirstCallOf
  /\ pc \in FileCalls => Exists /\ pos \in 0 .. Len(Bytes)
  /\ pc \in {"locate", "volume", "open", "close", "delete", "seek"} => pos = 0
  /\ pc = "write" => pos = IF cmd.op = "append" /\ ~ misplaced THEN Len(Bytes) ELSE 0
  /\ misplaced => pc \in {"write", "shell"} /\ cmd.op = "append"
  /\ cmd.op = "append" /\ pc # "shell" => Len(Old) + Len(cmd.text) <= MaxSize

(***************************************************************************)
(* The volume holds files throughout, and what a command has done so far.  *)
(***************************************************************************)
VolumeInv ==
  /\ volume \in [DOMAIN volume -> Contents] /\ DOMAIN volume \subseteq Names
  /\ before \in [DOMAIN before -> Contents] /\ DOMAIN before \subseteq Names
  /\ pc \in {"locate", "volume", "open", "read", "delete", "list_locate", "list_volume", "list_read"} =>
       volume = before
  /\ pc \in {"close", "seek", "write"} => volume = WithFile(before, cmd.name, Old)
  /\ DoneMeansDone

\* What cat has printed so far, and what was listed so far.
PrintInv ==
  /\ pc \in {"locate", "volume", "open"} => shown = <<>>
  /\ pc = "read" /\ cmd.op = "cat" => shown = SubSeq(Bytes, 1, pos)
  /\ CatPrintsFile

\* The lines of a listing so far, and the files they stand for.
ListInv ==
  /\ cut \in BOOLEAN
  /\ entries \in Seq(STRING) /\ Len(entries) <= MaxEntries
  /\ pc # "list_read" => listed = <<>>
  /\ pc \in {"list_locate", "list_volume"} => entries = <<>> /\ ~ cut
  /\ pc = "list_read" =>
       /\ listed \in Seq(Names) /\ Len(listed) = Len(entries) /\ Lists(listed)
       /\ ToSet(listed) \subseteq DOMAIN volume /\ ~ cut
  /\ ListingShowsVolume

RangesInv == reply \in {"none", "done", "failed"} /\ misplaced \in BOOLEAN

FileInv == CommandInv /\ VolumeInv /\ RangesInv

LEMMA FilesInit == ListingInit => FileInv
<1> SUFFICES ASSUME ListingInit PROVE FileInv
  OBVIOUS
<1>1. /\ pc = "shell" /\ cmd.op = "none" /\ ~ misplaced /\ reply = "none" /\ pos = 0
      /\ volume \in Volumes /\ before = volume /\ misplaced = FALSE
  BY DEF ListingInit, Init
<1>2. volume \in [DOMAIN volume -> Contents] /\ DOMAIN volume \subseteq Names
  BY <1>1, FileAssumption
<1> QED
  BY <1>1, <1>2 DEF FileInv, CommandInv, FirstCallOf, VolumeInv, DoneMeansDone, RangesInv, FileCalls

\* A command begins: the volume is as it was, and there is room to append.
LEMMA StartKeepsFiles == ASSUME FileInv, NEW c \in Commands, Start(c) PROVE FileInv'
<1>1. /\ pc' = "locate" /\ cmd' = c /\ pos' = 0 /\ reply' = "none" /\ misplaced' = FALSE
      /\ before' = volume /\ volume' = volume
      /\ c.op = "append" /\ c.name \in DOMAIN volume => Len(volume[c.name]) + Len(c.text) <= MaxSize
  BY DEF Start
<1>2. c.op = "append" => Len(Old') + Len(c.text) <= MaxSize
  <2> SUFFICES ASSUME c.op = "append" PROVE Len(Old') + Len(c.text) <= MaxSize
    OBVIOUS
  <2>1. CASE c.name \in DOMAIN volume
    BY <1>1, <2>1 DEF Old
  <2>2. CASE c.name \notin DOMAIN volume
    <3>1. Old' = <<>> /\ Len(<<>>) = 0
      BY <1>1, <2>2, EmptySeq DEF Old
    <3>2. c.text \in Contents
      BY CommandParts
    <3>3. Len(c.text) \in Nat /\ Len(c.text) <= MaxSize
      BY <3>2, LenProperties DEF Contents
    <3>4. Len(Old') = 0
      BY <3>1
    <3> QED
      BY <3>3, <3>4
  <2> QED
    BY <2>1, <2>2
<1>3. CommandInv'
  <2>1. FirstCallOf'
    BY <1>1 DEF FirstCallOf
  <2>2. pc' \notin FileCalls /\ pc' # "write" /\ pc' # "shell"
    BY <1>1 DEF FileCalls
  <2> QED
    BY <1>1, <1>2, <2>1, <2>2 DEF CommandInv
<1>4. VolumeInv' /\ RangesInv'
  BY <1>1 DEF FileInv, VolumeInv, RangesInv, DoneMeansDone, FileCalls, Start
<1> QED
  BY <1>3, <1>4 DEF FileInv

\* A step that leaves the volume and the command, and goes on or gives up.
LEMMA QuietKeepsFiles ==
  ASSUME FileInv, UNCHANGED <<volume, cmd, before, pos, misplaced>>,
         reply' \in {"none", "done", "failed"},
         \/ pc' = "shell" /\ reply' # "done"
         \/ pc = "locate" /\ pc' = "volume" /\ reply' = reply
         \/ pc = "volume" /\ pc' = "open" /\ reply' = reply
  PROVE  FileInv'
<1>0. Old' = Old
  BY DEF Old
<1>1. CommandInv'
  <2>1. CASE pc' = "shell"
    BY <2>1 DEF FileInv, CommandInv, FirstCallOf, FileCalls
  <2>2. CASE pc' # "shell"
    <3>1. pc \in {"locate", "volume"} /\ pc' \in {"volume", "open"}
      BY <2>2
    <3> QED
      BY <1>0, <3>1 DEF FileInv, CommandInv, FirstCallOf, FileCalls
  <2> QED
    BY <2>1, <2>2
<1>2. VolumeInv'
  BY DEF FileInv, VolumeInv, DoneMeansDone, FileCalls, Old, WithFile
<1> QED
  BY <1>1, <1>2 DEF FileInv, RangesInv

\* Opening the file, which makes it where the command creates.
LEMMA OpenKeepsFiles == CallsOK /\ FileInv /\ OpenFile => FileInv'
<1> SUFFICES ASSUME CallsOK, FileInv, OpenFile PROVE FileInv'
  OBVIOUS
<1>1. /\ pc = "open" /\ cmd' = cmd /\ before' = before /\ pos' = pos /\ pos = 0 /\ misplaced' = misplaced
      /\ volume = before /\ cmd \in Commands /\ ~ misplaced
      /\ cmd.op = "append" => Len(Old) + Len(cmd.text) <= MaxSize
      /\ volume \in [DOMAIN volume -> Contents] /\ DOMAIN volume \subseteq Names
  BY DEF OpenFile, FileInv, CommandInv, VolumeInv, RangesInv
<1>2. /\ cmd.op \in {"cat", "source", "rm", "touch", "write", "append"}
      /\ cmd.name \in Names /\ cmd.text \in Contents /\ <<>> \in Contents /\ Old' = Old
  BY <1>1, CommandParts, FileAssumption, EmptySeq DEF Contents, Old
<1>3. CASE ~ Exists /\ ~ Creates
  <2>1. pc' = "shell" /\ reply' = "failed" /\ volume' = volume
    BY <1>3 DEF OpenFile, Returns
  <2> QED
    BY <1>1, <2>1, QuietKeepsFiles DEF FileInv, RangesInv
<1>4. CASE Exists \/ Creates
  <2>1. /\ volume' = IF Exists THEN volume ELSE WithNewFile
        /\ pc' = FirstCall[cmd.op] /\ reply' = reply
    BY <1>4 DEF OpenFile
  <2>2. /\ pc' \in FileCalls /\ FirstCallOf'
        /\ pc' \in {"close", "seek"} => cmd.op \in Creating
        /\ pc' \in {"read", "delete"} => cmd.op \notin Creating
        /\ pc' # "write"
    BY <1>1, <1>2, <2>1 DEF FirstCall, FileCalls, FirstCallOf, Creating
  <2>3. volume' = WithFile(before, cmd.name, Old)
    <3>1. CASE Exists
      <4>1. Old = before[cmd.name] /\ cmd.name \in DOMAIN before
        BY <1>1, <3>1 DEF Old, Exists
      <4>2. Old \in Contents
        BY <1>1, <4>1
      <4>3. WithFile(before, cmd.name, before[cmd.name]) = before
        BY <1>1, <4>1, <4>2, WithFileOps
      <4> QED
        BY <1>1, <2>1, <3>1, <4>1, <4>3
    <3>2. CASE ~ Exists
      BY <1>1, <2>1, <3>2 DEF Old, Exists, WithNewFile
    <3> QED
      BY <3>1, <3>2
  <2>4. Old \in Contents
    BY <1>1, <1>2 DEF Old
  <2>5. /\ volume' \in [DOMAIN volume' -> Contents] /\ DOMAIN volume' \subseteq Names
        /\ cmd.name \in DOMAIN volume' /\ volume'[cmd.name] = Old
    <3>1. before \in [DOMAIN before -> Contents] /\ DOMAIN before \subseteq Names
      BY <1>1
    <3> DEFINE w == WithFile(before, cmd.name, Old)
    <3>2. /\ w \in [DOMAIN w -> Contents] /\ DOMAIN w = DOMAIN before \cup {cmd.name}
          /\ w[cmd.name] = Old
      BY <2>4, <3>1 DEF WithFile
    <3> HIDE DEF w
    <3>3. volume' = w
      BY <2>3 DEF w
    <3> QED
      BY <1>2, <3>1, <3>2, <3>3
  <2>6. 0 \in 0 .. Len(Old)
    BY <2>4, LenProperties DEF Contents
  <2>7. pc' \in {"read", "delete"} => volume' = before
    BY <1>1, <1>2, <1>4, <2>1, <2>2 DEF Creates
  <2>8. CommandInv'
    BY <1>1, <1>2, <2>2, <2>5, <2>6 DEF CommandInv, FileCalls, Exists, Bytes
  <2>9. VolumeInv'
    BY <1>1, <1>2, <2>2, <2>3, <2>5, <2>7 DEF FileInv, VolumeInv, DoneMeansDone, FileCalls
  <2> QED
    BY <1>1, <2>1, <2>8, <2>9 DEF FileInv, RangesInv
<1> QED
  BY <1>3, <1>4

\* The calls that only look at the file: reading, and closing a touched one.
LEMMA LookKeepsFiles == CallsOK /\ FileInv /\ (ReadChunk \/ ReadScript \/ CloseTouched) => FileInv'
<1> SUFFICES ASSUME CallsOK, FileInv, ReadChunk \/ ReadScript \/ CloseTouched PROVE FileInv'
  OBVIOUS
<1>1. /\ UNCHANGED <<volume, cmd, before, misplaced>> /\ ~ misplaced /\ RangesInv'
      /\ cmd \in Commands /\ Exists
      /\ volume \in [DOMAIN volume -> Contents] /\ DOMAIN volume \subseteq Names
      /\ before \in [DOMAIN before -> Contents] /\ DOMAIN before \subseteq Names
      /\ \/ pc = "read" /\ cmd.op \in {"cat", "source"} /\ volume = before
         \/ pc = "close" /\ cmd.op = "touch" /\ volume = WithFile(before, cmd.name, Old)
  BY DEF ReadChunk, ReadScript, CloseTouched, Returns, FileInv, CommandInv, FirstCallOf, VolumeInv,
         RangesInv, FileCalls
<1>2. CASE pc' = "shell" /\ reply' = "done"
  <2>1. volume = Effect
    BY <1>1 DEF Effect
  <2>2. Effect' = Effect
    BY <1>1 DEF Effect, Old
  <2>3. VolumeInv'
    BY <1>1, <1>2, <2>1, <2>2 DEF VolumeInv, DoneMeansDone
  <2>4. CommandInv'
    BY <1>1, <1>2 DEF CommandInv, FirstCallOf, FileCalls
  <2> QED
    BY <1>1, <2>3, <2>4 DEF FileInv
<1>3. CASE ReadChunk /\ pc' = pc
  <2> DEFINE count == IF Len(Bytes) - pos < Chunk THEN Len(Bytes) - pos ELSE Chunk
  <2>1. pc = "read" /\ cmd.op = "cat" /\ pos' = pos + count /\ Bytes' = Bytes /\ Exists'
    BY <1>1, <1>3 DEF ReadChunk, Bytes, Exists
  <2>2. pos \in 0 .. Len(Bytes) /\ Len(Bytes) \in Nat
    <3>1. Bytes \in Contents
      BY <1>1 DEF Bytes, Exists
    <3> QED
      BY <2>1, <3>1, LenProperties DEF FileInv, CommandInv, FileCalls, Contents
  <2>3. pos' \in 0 .. Len(Bytes)
    BY <2>1, <2>2, FileAssumption
  <2> HIDE DEF count
  <2>4. CommandInv'
    BY <1>1, <1>3, <2>1, <2>3 DEF CommandInv, FirstCallOf, FileCalls
  <2>5. VolumeInv'
    BY <1>1, <1>3, <2>1 DEF VolumeInv, DoneMeansDone
  <2> QED
    BY <1>1, <2>4, <2>5 DEF FileInv
<1> QED
  BY <1>2, <1>3 DEF ReadChunk, ReadScript, CloseTouched, Returns, WholeChunk

LEMMA DeleteKeepsFiles == CallsOK /\ FileInv /\ DeleteFile => FileInv'
<1> SUFFICES ASSUME CallsOK, FileInv, DeleteFile PROVE FileInv'
  OBVIOUS
<1>1. /\ UNCHANGED <<cmd, before, misplaced>> /\ ~ misplaced /\ RangesInv' /\ pc' = "shell"
      /\ volume' = Restrict(volume, DOMAIN volume \ {cmd.name}) /\ volume = before
      /\ cmd.op = "rm"
      /\ before \in [DOMAIN before -> Contents] /\ DOMAIN before \subseteq Names
  BY DEF DeleteFile, Returns, FileInv, CommandInv, FirstCallOf, VolumeInv, RangesInv, FileCalls
<1>2. volume' \in [DOMAIN volume' -> Contents] /\ DOMAIN volume' \subseteq Names
  BY <1>1 DEF Restrict
<1>3. volume' = Effect'
  BY <1>1 DEF Effect, Restrict
<1>4. VolumeInv'
  BY <1>1, <1>2, <1>3 DEF VolumeInv, DoneMeansDone
<1>5. CommandInv'
  BY <1>1 DEF CommandInv, FirstCallOf, FileCalls
<1> QED
  BY <1>1, <1>4, <1>5 DEF FileInv

\* SetPosition() before a write; where it fails the position stays at 0.
LEMMA SeekKeepsFiles == CallsOK /\ FileInv /\ (Seek \/ SeekIgnored) => FileInv'
<1> SUFFICES ASSUME CallsOK, FileInv, Seek \/ SeekIgnored PROVE FileInv'
  OBVIOUS
<1>1. /\ pc = "seek" /\ pc' = "write" /\ UNCHANGED <<volume, cmd, before, reply>>
      /\ cmd \in Commands /\ cmd.op \in {"write", "append"} /\ Exists /\ ~ misplaced /\ pos = 0
      /\ pos' = IF cmd.op = "append" /\ ~ misplaced' THEN Len(Bytes) ELSE 0
      /\ misplaced' => cmd.op = "append"
      /\ misplaced' \in BOOLEAN
      /\ cmd.op = "append" => Len(Old) + Len(cmd.text) <= MaxSize
  <2>1. pc = "seek" /\ pc' = "write" /\ UNCHANGED <<volume, cmd, before, reply>>
    BY DEF Seek, SeekIgnored, report
  <2>2. /\ cmd \in Commands /\ cmd.op \in {"write", "append"} /\ Exists /\ misplaced = FALSE /\ pos = 0
        /\ cmd.op = "append" => Len(Old) + Len(cmd.text) <= MaxSize
    BY <2>1 DEF FileInv, CommandInv, FirstCallOf, RangesInv, FileCalls
  <2>3. CASE Seek
    BY <2>1, <2>2, <2>3 DEF Seek, EndOfFile
  <2>4. CASE SeekIgnored
    BY <2>1, <2>2, <2>4 DEF SeekIgnored
  <2> QED
    BY <2>1, <2>2, <2>3, <2>4
<1>2. Old' = Old /\ Bytes' = Bytes /\ Exists'
  BY <1>1 DEF Old, Bytes, Exists
<1>3. Len(Bytes) \in Nat
  <2>1. Bytes \in Contents
    BY <1>1 DEF FileInv, VolumeInv, Bytes, Exists
  <2> QED
    BY <2>1, LenProperties DEF Contents
<1>4. pos' \in 0 .. Len(Bytes)
  BY <1>1, <1>3
<1>5. CommandInv'
  BY <1>1, <1>2, <1>4 DEF CommandInv, FirstCallOf, FileCalls
<1>6. VolumeInv'
  BY <1>1, <1>2 DEF FileInv, VolumeInv, DoneMeansDone
<1> QED
  BY <1>1, <1>5, <1>6 DEF FileInv, RangesInv

\* A text, or a beginning of it, is put at the position: what that leaves.
LEMMA PutsText ==
  ASSUME FileInv, pc = "write", NEW t \in Seq(STRING), Len(t) <= Len(cmd.text), Puts(t)
  PROVE  /\ volume' = WithFile(before, cmd.name, Overlaid(Old, pos, t))
         /\ volume' \in [DOMAIN volume' -> Contents] /\ DOMAIN volume' \subseteq Names
         /\ pos = IF cmd.op = "append" /\ ~ misplaced THEN Len(Old) ELSE 0
<1>1. /\ cmd \in Commands /\ Exists /\ volume = WithFile(before, cmd.name, Old)
      /\ pos = IF cmd.op = "append" /\ ~ misplaced THEN Len(Bytes) ELSE 0
      /\ cmd.op = "append" => Len(Old) + Len(cmd.text) <= MaxSize
      /\ volume \in [DOMAIN volume -> Contents] /\ DOMAIN volume \subseteq Names
      /\ before \in [DOMAIN before -> Contents] /\ DOMAIN before \subseteq Names
  BY DEF FileInv, CommandInv, VolumeInv, FileCalls
<1>2. Bytes = Old /\ Old \in Contents /\ cmd.name \in DOMAIN volume
  <2>1. Bytes = Old
    BY <1>1 DEF Bytes, WithFile
  <2>2. cmd.name \in DOMAIN volume
    BY <1>1 DEF Exists
  <2> QED
    BY <1>1, <2>1, <2>2 DEF Bytes
<1>3. /\ Len(Old) \in Nat /\ Len(Old) <= MaxSize /\ Old \in Seq(STRING)
      /\ Len(cmd.text) \in Nat /\ Len(cmd.text) <= MaxSize /\ Len(t) \in Nat
  <2>1. cmd.text \in Contents
    BY <1>1, CommandParts
  <2> QED
    BY <1>2, <2>1, LenProperties DEF Contents
<1>4. pos = IF cmd.op = "append" /\ ~ misplaced THEN Len(Old) ELSE 0
  BY <1>1, <1>2
<1> DEFINE o == Overlaid(Old, pos, t)
<1>5. o \in Contents
  <2>1. pos \in 0 .. Len(Old)
    BY <1>3, <1>4
  <2>2. o \in Seq(STRING) /\ Len(o) = IF pos + Len(t) <= Len(Old) THEN Len(Old) ELSE pos + Len(t)
    BY <1>3, <2>1, OverlaidLength
  <2>3. pos + Len(t) <= MaxSize
    BY <1>1, <1>3, <1>4, FileAssumption
  <2> HIDE DEF o
  <2>4. Len(o) <= MaxSize
    BY <1>3, <2>1, <2>2, <2>3
  <2> QED
    BY <2>2, <2>4 DEF Contents
<1>6. volume' = [volume EXCEPT ![cmd.name] = o]
  BY <1>2 DEF Puts, Bytes
<1> HIDE DEF o
<1>7. volume' = WithFile(before, cmd.name, o)
  BY <1>1, <1>6 DEF WithFile
<1>8. volume' \in [DOMAIN volume' -> Contents] /\ DOMAIN volume' \subseteq Names
  BY <1>1, <1>5, <1>6
<1> QED
  BY <1>4, <1>7, <1>8 DEF o

LEMMA WriteKeepsFiles == CallsOK /\ FileInv /\ WriteText => FileInv'
<1> SUFFICES ASSUME CallsOK, FileInv, WriteText PROVE FileInv'
  OBVIOUS
<1>1. /\ pc = "write" /\ pc' = "shell" /\ reply' = "done" /\ Puts(cmd.text)
      /\ UNCHANGED <<cmd, before, misplaced>>
  BY DEF WriteText, Returns
<1>2. cmd.op \in {"write", "append"} /\ cmd \in Commands /\ misplaced \in BOOLEAN
      /\ (misplaced => cmd.op = "append")
  BY <1>1 DEF FileInv, CommandInv, FirstCallOf, RangesInv, FileCalls
<1>3. cmd.text \in Seq(STRING) /\ Len(cmd.text) \in Nat
  BY <1>2, CommandParts, LenProperties DEF Contents
<1>4. /\ volume' = WithFile(before, cmd.name, Overlaid(Old, pos, cmd.text))
      /\ volume' \in [DOMAIN volume' -> Contents] /\ DOMAIN volume' \subseteq Names
      /\ pos = IF cmd.op = "append" /\ ~ misplaced THEN Len(Old) ELSE 0
  BY <1>1, <1>3, PutsText
<1>5. Old \in Seq(STRING)
  BY <1>2, CommandParts, FileAssumption, EmptySeq DEF FileInv, VolumeInv, Old, Contents
<1>6. volume' = Effect
  <2>1. CASE cmd.op = "append" /\ ~ misplaced
    <3>1. Overlaid(Old, Len(Old), cmd.text) = Old \o cmd.text
      BY <1>3, <1>5, OverlaidAtEnd
    <3> QED
      BY <1>4, <2>1, <3>1 DEF Effect
  <2>2. CASE ~ (cmd.op = "append" /\ ~ misplaced)
    <3>1. Overlaid(Old, 0, cmd.text) = cmd.text \o SubSeq(Old, Len(cmd.text) + 1, Len(Old))
      BY <1>3, <1>5, OverlaidAtStart
    <3>2. \/ cmd.op = "write"
          \/ cmd.op = "append" /\ misplaced
      BY <1>2, <2>2
    <3>3. Effect = WithFile(before, cmd.name, cmd.text \o SubSeq(Old, Len(cmd.text) + 1, Len(Old)))
      BY <3>2 DEF Effect
    <3> QED
      BY <1>4, <2>2, <3>1, <3>3
  <2> QED
    BY <2>1, <2>2
<1>7. Effect' = Effect
  BY <1>1 DEF Effect, Old
<1>8. VolumeInv'
  BY <1>1, <1>4, <1>6, <1>7 DEF FileInv, VolumeInv, DoneMeansDone
<1>9. CommandInv'
  BY <1>1, <1>2 DEF CommandInv, FirstCallOf, FileCalls
<1> QED
  BY <1>1, <1>2, <1>8, <1>9 DEF FileInv, RangesInv

\* A call that fails ends the command; a write may have put down a beginning.
LEMMA FailureKeepsFiles == CallsOK /\ FileInv /\ CallFails => FileInv'
<1> SUFFICES ASSUME CallsOK, FileInv, CallFails PROVE FileInv'
  OBVIOUS
<1>1. pc' = "shell" /\ reply' = "failed" /\ UNCHANGED <<cmd, pos, before, misplaced>>
  BY DEF CallFails, Returns
<1>2. CASE pc # "write"
  <2>1. volume' = volume
    BY <1>2 DEF CallFails
  <2> QED
    BY <1>1, <2>1, QuietKeepsFiles
<1>3. CASE pc = "write"
  <2>1. PICK k \in 0 .. Len(cmd.text) - 1 : Puts(SubSeq(cmd.text, 1, k))
    BY <1>3 DEF CallFails
  <2>2. cmd \in Commands /\ cmd.op \in {"write", "append"} /\ (misplaced => cmd.op = "append")
    BY <1>3 DEF FileInv, CommandInv, FirstCallOf, FileCalls
  <2>3. cmd.text \in Seq(STRING) /\ Len(cmd.text) \in Nat
    BY <2>2, CommandParts, LenProperties DEF Contents
  <2> DEFINE t == SubSeq(cmd.text, 1, k)
  <2>4. t \in Seq(STRING) /\ Len(t) = k
    <3>1. t \in Seq(STRING) /\ Len(t) = IF 1 <= k THEN k - 1 + 1 ELSE 0
      BY <2>3, PartOps
    <3> HIDE DEF t
    <3> QED
      BY <2>3, <3>1
  <2> HIDE DEF t
  <2>5. Puts(t) /\ Len(t) <= Len(cmd.text)
    BY <2>1, <2>3, <2>4 DEF t
  <2>6. volume' \in [DOMAIN volume' -> Contents] /\ DOMAIN volume' \subseteq Names
    BY <1>3, <2>4, <2>5, PutsText
  <2>7. VolumeInv'
    BY <1>1, <2>6 DEF FileInv, VolumeInv, DoneMeansDone
  <2>8. CommandInv'
    BY <1>1, <2>2 DEF CommandInv, FirstCallOf, FileCalls
  <2> QED
    BY <1>1, <2>7, <2>8 DEF FileInv, RangesInv
<1> QED
  BY <1>2, <1>3

\* The listing only looks at the volume.
LEMMA ListingKeepsFiles == CallsOK /\ FileInv /\ (StartListing \/ List \/ ListingFails) => FileInv'
<1> SUFFICES ASSUME CallsOK, FileInv, StartListing \/ List \/ ListingFails PROVE FileInv'
  OBVIOUS
<1> USE DEF EndListing, ShowBuiltIn, Returns, Listing
<1>1. CASE StartListing
  <2>1. /\ pc' = "list_locate" /\ cmd'.op = "ls" /\ pos' = 0 /\ reply' = "none" /\ misplaced' = FALSE
        /\ before' = volume /\ volume' = volume
    BY <1>1 DEF StartListing
  <2> QED
    BY <2>1 DEF FileInv, CommandInv, FirstCallOf, VolumeInv, DoneMeansDone, RangesInv, FileCalls
<1>2. CASE List \/ ListingFails
  <2>1. /\ UNCHANGED <<volume, cmd, pos, before, misplaced>>
        /\ pc \in {"list_locate", "list_volume", "list_read"}
        /\ \/ pc' = "shell" /\ reply' = "done"
           \/ pc' \in {"list_volume", "list_read"} /\ reply' = reply
    BY <1>2 DEF List, ListLocate, ListVolume, ReadEntry, LastEntry, NameTooLong, ListingFails, CallOf
  <2>2. cmd.op = "ls" /\ volume = before
    BY <2>1 DEF FileInv, CommandInv, FirstCallOf, VolumeInv
  <2>3. Effect' = volume
    BY <2>1, <2>2 DEF Effect
  <2>4. VolumeInv'
    BY <2>1, <2>2, <2>3 DEF FileInv, VolumeInv, DoneMeansDone
  <2>5. CommandInv'
    BY <2>1, <2>2 DEF FileInv, CommandInv, FirstCallOf, FileCalls
  <2> QED
    BY <2>1, <2>4, <2>5 DEF FileInv, RangesInv
<1> QED
  BY <1>1, <1>2

LEMMA FilesNext == CallsOK /\ FileInv /\ [ListingNext]_allvars => FileInv'
<1> SUFFICES ASSUME CallsOK, FileInv, [ListingNext]_allvars PROVE FileInv'
  OBVIOUS
<1>1. CASE Locate \/ OpenVolume
  <2>1. /\ UNCHANGED <<volume, cmd, before, pos, misplaced, reply>>
        /\ (pc = "locate" /\ pc' = "volume") \/ (pc = "volume" /\ pc' = "open")
    BY <1>1 DEF Locate, OpenVolume, report
  <2> QED
    BY <2>1, QuietKeepsFiles DEF FileInv, RangesInv
<1>2. CASE UNCHANGED allvars
  <2>1. UNCHANGED <<volume, cmd, before, pos, misplaced, reply, pc>>
    BY <1>2 DEF allvars, vars, report
  <2>2. Effect' = Effect
    BY <2>1 DEF Effect, Old
  <2>3. Old' = Old /\ Bytes' = Bytes /\ Exists' = Exists
    BY <2>1 DEF Old, Bytes, Exists
  <2> QED
    BY <2>1, <2>2, <2>3 DEF FileInv, CommandInv, FirstCallOf, VolumeInv, DoneMeansDone, RangesInv
<1> QED
  BY <1>1, <1>2, StartKeepsFiles, OpenKeepsFiles, LookKeepsFiles, DeleteKeepsFiles, SeekKeepsFiles,
     WriteKeepsFiles, FailureKeepsFiles, ListingKeepsFiles
     DEF ListingNext, Serve, Run, Starts, Fault

LEMMA FilesAlways == ListingSpec => []FileInv
BY FilesInit, FilesNext, CallsCorrect, PTL DEF ListingSpec

(***************************************************************************)
(* DoneMeansDone: a command that reports success has done what its name    *)
(* says to its own file, and nothing else, for all texts and volumes; what *)
(* a failed SetPosition() does to an append is part of the statement.      *)
(***************************************************************************)
THEOREM SuccessIsWhole == ListingSpec => []DoneMeansDone
BY FilesAlways, PTL DEF FileInv, VolumeInv

-----------------------------------------------------------------------------
(***************************************************************************)
(* What cat prints.                                                        *)
(***************************************************************************)
LEMMA PrintInit == ListingInit => PrintInv
BY DEF ListingInit, Init, PrintInv, CatPrintsFile, Ended

\* A chunk is what follows the part printed already.
LEMMA ChunkFollows ==
  ASSUME NEW S, NEW b \in Seq(S), NEW m \in 0 .. Len(b), NEW n \in m .. Len(b)
  PROVE  SubSeq(b, 1, m) \o SubSeq(b, m + 1, n) = SubSeq(b, 1, n)
<1>1. Len(b) \in Nat /\ 1 \in 1 .. Len(b) + 1 /\ m \in 1 - 1 .. Len(b) /\ n \in m .. Len(b)
  BY LenProperties
<1> QED
  BY <1>1, ConcatAdjacentSubSeq

\* What is printed is a beginning of the file.
LEMMA PartIsPrefix ==
  ASSUME NEW S, NEW b \in Seq(S), NEW n \in 0 .. Len(b)
  PROVE  IsPrefix(SubSeq(b, 1, n), b)
<1>1. Len(b) \in Nat /\ n \in Nat /\ n <= Len(b)
  BY LenProperties
<1>2. SubSeq(b, 1, n) \in Seq(S) /\ Len(SubSeq(b, 1, n)) = n
  <2>1. SubSeq(b, 1, n) \in Seq(S) /\ Len(SubSeq(b, 1, n)) = IF 1 <= n THEN n - 1 + 1 ELSE 0
    BY <1>1, PartOps
  <2> QED
    BY <1>1, <2>1
<1>3. SubSeq(SubSeq(b, 1, n), 1, Len(SubSeq(b, 1, n))) = SubSeq(b, 1, n)
  BY <1>2, SubSeqFull
<1> QED
  BY <1>1, <1>2, <1>3 DEF IsPrefix

LEMMA ReadKeepsPrint == CallsOK /\ FileInv /\ PrintInv /\ ReadChunk => PrintInv'
<1> SUFFICES ASSUME CallsOK, FileInv, PrintInv, ReadChunk PROVE PrintInv'
  OBVIOUS
<1> DEFINE count == IF Len(Bytes) - pos < Chunk THEN Len(Bytes) - pos ELSE Chunk
<1>1. /\ pc = "read" /\ cmd.op = "cat" /\ pos' = pos + count /\ UNCHANGED <<volume, cmd>>
      /\ shown' = shown \o SubSeq(Bytes, pos + 1, pos + count) /\ Exists
      /\ \/ pc' = "read" /\ count = Chunk
         \/ pc' = "shell" /\ reply' = "done" /\ count # Chunk
  BY DEF ReadChunk, Returns, WholeChunk, FileInv, CommandInv, FileCalls
<1>2. Bytes \in Seq(STRING) /\ Len(Bytes) \in Nat
  <2>1. Bytes \in Contents
    BY <1>1 DEF FileInv, VolumeInv, Bytes, Exists
  <2> QED
    BY <2>1, LenProperties DEF Contents
<1>3. pos \in 0 .. Len(Bytes) /\ shown = SubSeq(Bytes, 1, pos)
  BY <1>1 DEF FileInv, CommandInv, FileCalls, PrintInv
<1>4. pos + count \in pos .. Len(Bytes) /\ (count # Chunk => pos + count = Len(Bytes))
  BY <1>2, <1>3, FileAssumption
<1> DEFINE next == pos + count
<1>5. /\ pos' = next /\ next \in pos .. Len(Bytes) /\ shown' = shown \o SubSeq(Bytes, pos + 1, next)
      /\ pc' # "read" => pc' = "shell" /\ reply' = "done" /\ next = Len(Bytes)
      /\ pc' = "read" \/ pc' = "shell"
  BY <1>1, <1>4
<1> HIDE DEF count, next
<1>6. shown' = SubSeq(Bytes, 1, next)
  <2>1. SubSeq(Bytes, 1, pos) \o SubSeq(Bytes, pos + 1, next) = SubSeq(Bytes, 1, next)
    BY <1>2, <1>3, <1>5, ChunkFollows
  <2> QED
    BY <1>3, <1>5, <2>1
<1>7. Bytes' = Bytes /\ Exists'
  BY <1>1 DEF Bytes, Exists
<1>8. CASE pc' = "read"
  BY <1>1, <1>5, <1>6, <1>7, <1>8 DEF PrintInv, CatPrintsFile, Ended
<1>9. CASE pc' = "shell"
  <2>1. shown' = Bytes
    <3>1. next = Len(Bytes)
      BY <1>5, <1>9
    <3>2. SubSeq(Bytes, 1, Len(Bytes)) = Bytes
      BY <1>2, SubSeqFull
    <3> QED
      BY <1>6, <3>1, <3>2
  <2>2. IsPrefix(Bytes, Bytes)
    BY <1>2 DEF IsPrefix
  <2> QED
    BY <1>7, <1>9, <2>1, <2>2 DEF PrintInv, CatPrintsFile, Ended
<1> QED
  BY <1>5, <1>8, <1>9

LEMMA PrintNext == CallsOK /\ FileInv /\ PrintInv /\ [ListingNext]_allvars => PrintInv'
<1> SUFFICES ASSUME CallsOK, FileInv, PrintInv, [ListingNext]_allvars PROVE PrintInv'
  OBVIOUS
<1> USE DEF PrintInv, CatPrintsFile, Ended, Returns
<1>1. ASSUME NEW c \in Commands, Start(c) PROVE PrintInv'
  BY <1>1 DEF Start
<1>2. CASE StartListing
  BY <1>2 DEF StartListing
<1>3. CASE Locate \/ OpenVolume
  BY <1>3 DEF Locate, OpenVolume, report
<1>4. CASE OpenFile
  <2>1. /\ pc = "open" /\ shown' = <<>> /\ pos' = 0 /\ pos = 0
        /\ pc' \in FileCalls \cup {"shell"} /\ (pc' = "shell" => reply' = "failed")
    <3>1. pc = "open" /\ shown' = shown /\ pos' = pos
      BY <1>4 DEF OpenFile
    <3>2. shown = <<>> /\ pos = 0
      BY <3>1 DEF FileInv, CommandInv
    <3>3. pc' \in FileCalls \cup {"shell"} /\ (pc' = "shell" => reply' = "failed")
      BY <1>4 DEF OpenFile, FirstCall, CallsOK, FileCalls
    <3> QED
      BY <3>1, <3>2, <3>3
  <2>2. SubSeq(Bytes', 1, 0) = <<>>
    BY SubSeqEmpty
  <2> QED
    BY <2>1, <2>2 DEF FileCalls
<1>5. CASE ReadScript \/ CloseTouched \/ DeleteFile \/ Seek \/ SeekIgnored \/ WriteText
  <2>1. /\ cmd' = cmd /\ cmd.op # "cat" /\ pc' \in {"shell", "write"}
    BY <1>5 DEF ReadScript, CloseTouched, DeleteFile, Seek, SeekIgnored, WriteText, FileInv,
                CommandInv, FirstCallOf
  <2> QED
    BY <2>1
<1>6. CASE CallFails
  <2>1. pc' = "shell" /\ reply' = "failed" /\ UNCHANGED <<cmd, shown, pos>>
    BY <1>6 DEF CallFails
  <2>2. CASE cmd.op = "cat"
    <3>1. pc \in {"locate", "volume", "open", "read"} /\ volume' = volume
      BY <1>6, <2>2, FileAssumption DEF CallFails, FileInv, CommandInv, FirstCallOf
    <3>2. CASE pc # "read"
      BY <2>1, <3>1, <3>2
    <3>3. CASE pc = "read"
      <4>1. Exists /\ pos \in 0 .. Len(Bytes) /\ shown = SubSeq(Bytes, 1, pos)
        BY <2>2, <3>3 DEF FileInv, CommandInv, FileCalls
      <4>2. Bytes \in Seq(STRING)
        BY <4>1 DEF FileInv, VolumeInv, Bytes, Exists, Contents
      <4>3. IsPrefix(shown, Bytes)
        BY <4>1, <4>2, PartIsPrefix
      <4>4. Bytes' = Bytes /\ Exists'
        BY <2>1, <3>1, <4>1 DEF Bytes, Exists
      <4> QED
        BY <2>1, <4>3, <4>4
    <3> QED
      BY <3>2, <3>3
  <2>3. CASE cmd.op # "cat"
    BY <2>1, <2>3
  <2> QED
    BY <2>2, <2>3
<1>7. CASE List \/ ListingFails
  <2>1. cmd' = cmd /\ cmd.op = "ls" /\ pc' \in {"list_volume", "list_read", "shell"}
    BY <1>7 DEF List, ListLocate, ListVolume, ReadEntry, LastEntry, NameTooLong, ListingFails, CallOf,
                EndListing, ShowBuiltIn, Listing, FileInv, CommandInv, FirstCallOf
  <2> QED
    BY <2>1
<1>8. CASE UNCHANGED allvars
  <2>1. UNCHANGED <<pc, shown, cmd, reply, volume, pos>>
    BY <1>8 DEF allvars, vars, report
  <2> QED
    BY <2>1 DEF Bytes, Exists
<1> QED
  BY <1>1, <1>2, <1>3, <1>4, <1>5, <1>6, <1>7, <1>8, ReadKeepsPrint
     DEF ListingNext, Serve, Run, Starts, Fault

(***************************************************************************)
(* CatPrintsFile: for every file and every size of a chunk, one that       *)
(* divides the file's length included, cat prints the file and no more.    *)
(***************************************************************************)
THEOREM CatIsComplete == ListingSpec => []CatPrintsFile
<1>1. PrintInv => CatPrintsFile
  BY DEF PrintInv
<1> QED
  BY <1>1, PrintInit, PrintNext, FilesAlways, CallsCorrect, PTL DEF ListingSpec

-----------------------------------------------------------------------------
(***************************************************************************)
(* What source executes of a file: ScriptLines and LinesOf go through the  *)
(* bytes side by side.                                                     *)
(***************************************************************************)
Byte == STRING
Line == Seq(Byte)
States == [line : Line, lines : Seq(Line)]

\* The lines that bytes make: at least one, the last without an end of line.
Cuts == {s \in Seq(Line) : Len(s) # 0}

\* The numbers up to m of the lines that hold something.
Inked(lines, m) == {k \in 1 .. m : lines[k] # <<>>}

\* How many they are, and their places among them.
LEMMA InkedCount ==
  ASSUME NEW lines, NEW m \in Nat
  PROVE  /\ IsFiniteSet(Inked(lines, m)) /\ Cardinality(Inked(lines, m)) \in Nat
         /\ \A k \in Inked(lines, m) :
              /\ Inked(lines, k) = {j \in Inked(lines, m) : j <= k}
              /\ Cardinality(Inked(lines, k)) \in 1 .. Cardinality(Inked(lines, m))
<1>1. ASSUME NEW k \in Nat PROVE IsFiniteSet(Inked(lines, k)) /\ Cardinality(Inked(lines, k)) \in Nat
  <2>1. IsFiniteSet(1 .. k)
    BY FS_Interval
  <2>2. Inked(lines, k) \subseteq 1 .. k
    BY DEF Inked
  <2> QED
    BY <2>1, <2>2, FS_Subset, FS_CardinalityType
<1>2. ASSUME NEW k \in Inked(lines, m)
      PROVE  /\ Inked(lines, k) = {j \in Inked(lines, m) : j <= k}
             /\ Cardinality(Inked(lines, k)) \in 1 .. Cardinality(Inked(lines, m))
  <2>1. k \in 1 .. m /\ k \in Nat /\ k \in Inked(lines, k)
    BY DEF Inked
  <2>2. Inked(lines, k) = {j \in Inked(lines, m) : j <= k}
    BY <2>1 DEF Inked
  <2>3. Cardinality(Inked(lines, k)) <= Cardinality(Inked(lines, m))
    <3>1. Inked(lines, k) \subseteq Inked(lines, m)
      BY <2>2
    <3> QED
      BY <1>1, <3>1, FS_Subset
  <2>4. Cardinality(Inked(lines, k)) # 0
    BY <1>1, <2>1, FS_EmptySet
  <2> QED
    BY <1>1, <2>1, <2>2, <2>3, <2>4
<1> QED
  BY <1>1, <1>2

\* Executed, in terms of Inked.
LEMMA ExecutedIs ==
  ASSUME NEW done, NEW lines, NEW m \in Nat
  PROVE  Executed(done, lines, m) <=>
           /\ Len(done) = Cardinality(Inked(lines, m))
           /\ \A k \in Inked(lines, m) :
                done[Cardinality(Inked(lines, k))] = AtMost(lines[k], LineRoom - 1)
<1>1. \A k \in Inked(lines, m) : Inked(lines, k) = {j \in Inked(lines, m) : j <= k}
  BY InkedCount
<1> DEFINE I == Inked(lines, m)
<1>2. I = {k \in 1 .. m : lines[k] # <<>>}
  BY DEF Inked
<1>3. Executed(done, lines, m) <=>
        /\ Len(done) = Cardinality(I)
        /\ \A k \in I : done[Cardinality({j \in I : j <= k})] = AtMost(lines[k], LineRoom - 1)
  BY <1>2 DEF Executed
<1> HIDE DEF I
<1>4. \A k \in I : {j \in I : j <= k} = Inked(lines, k)
  BY <1>1 DEF I
<1>5. Executed(done, lines, m) <=>
        /\ Len(done) = Cardinality(I)
        /\ \A k \in I : done[Cardinality(Inked(lines, k))] = AtMost(lines[k], LineRoom - 1)
  BY <1>3, <1>4
<1> QED
  BY <1>5 DEF I

\* It is about the first m lines only.
LEMMA ExecutedSame ==
  ASSUME NEW done, NEW lines, NEW more, NEW m \in Nat, \A k \in 1 .. m : more[k] = lines[k],
         Executed(done, lines, m)
  PROVE  Executed(done, more, m)
<1>1. ASSUME NEW k \in 0 .. m PROVE Inked(more, k) = Inked(lines, k)
  <2>1. \A i \in 1 .. k : more[i] = lines[i]
    OBVIOUS
  <2> QED
    BY <2>1 DEF Inked
<1>2. Inked(more, m) = Inked(lines, m) /\ \A k \in Inked(lines, m) : k \in 0 .. m /\ k \in 1 .. m
  BY <1>1 DEF Inked
<1>3. \A k \in Inked(lines, m) : Inked(more, k) = Inked(lines, k) /\ more[k] = lines[k]
  BY <1>1, <1>2
<1> QED
  BY <1>2, <1>3, ExecutedIs

\* One line more: nothing is executed if it is empty, and else what has room of it.
LEMMA ExecutedNext ==
  ASSUME NEW done \in Seq(Line), NEW lines, NEW m \in Nat, Executed(done, lines, m),
         AtMost(lines[m + 1], LineRoom - 1) \in Line
  PROVE  /\ lines[m + 1] = <<>> => Executed(done, lines, m + 1)
         /\ lines[m + 1] # <<>> =>
              Executed(Append(done, AtMost(lines[m + 1], LineRoom - 1)), lines, m + 1)
<1>1. /\ Len(done) = Cardinality(Inked(lines, m))
      /\ \A k \in Inked(lines, m) : done[Cardinality(Inked(lines, k))] = AtMost(lines[k], LineRoom - 1)
  BY ExecutedIs
<1>2. CASE lines[m + 1] = <<>>
  <2>1. Inked(lines, m + 1) = Inked(lines, m)
    <3>1. \A k \in 1 .. m + 1 : k \in 1 .. m \/ k = m + 1
      OBVIOUS
    <3>2. \A k \in 1 .. m : k \in 1 .. m + 1
      OBVIOUS
    <3> QED
      BY <1>2, <3>1, <3>2 DEF Inked
  <2> QED
    BY <1>1, <1>2, <2>1, ExecutedIs
<1>3. CASE lines[m + 1] # <<>>
  <2> DEFINE x == AtMost(lines[m + 1], LineRoom - 1)
             more == Append(done, x)
  <2>1. /\ Inked(lines, m + 1) = Inked(lines, m) \cup {m + 1} /\ m + 1 \notin Inked(lines, m)
    <3>1. \A k \in 1 .. m + 1 : k \in 1 .. m \/ k = m + 1
      OBVIOUS
    <3>2. m + 1 \in 1 .. m + 1 /\ m + 1 \notin 1 .. m /\ \A k \in 1 .. m : k \in 1 .. m + 1
      OBVIOUS
    <3> QED
      BY <1>3, <3>1, <3>2 DEF Inked
  <2>2. Cardinality(Inked(lines, m + 1)) = Cardinality(Inked(lines, m)) + 1
    <3>1. IsFiniteSet(Inked(lines, m))
      BY InkedCount
    <3> QED
      BY <2>1, <3>1, FS_AddElement
  <2>3. /\ Len(more) = Len(done) + 1 /\ more[Len(done) + 1] = x
        /\ \A i \in 1 .. Len(done) : more[i] = done[i]
    <3>1. x \in Line
      OBVIOUS
    <3> HIDE DEF x
    <3> QED
      BY <3>1, AppendProperties
  <2> HIDE DEF more, x
  <2>4. \A k \in Inked(lines, m) : Cardinality(Inked(lines, k)) \in 1 .. Len(done)
    BY <1>1, InkedCount
  <2>5. ASSUME NEW k \in Inked(lines, m + 1)
        PROVE  more[Cardinality(Inked(lines, k))] = AtMost(lines[k], LineRoom - 1)
    <3>1. CASE k \in Inked(lines, m)
      BY <1>1, <2>3, <2>4, <3>1
    <3>2. CASE k = m + 1
      BY <1>1, <2>2, <2>3, <3>2 DEF x
    <3> QED
      BY <2>1, <3>1, <3>2
  <2>6. Executed(more, lines, m + 1)
    <3>1. m + 1 \in Nat /\ Len(more) = Cardinality(Inked(lines, m + 1))
      BY <1>1, <2>2, <2>3
    <3> QED
      BY <2>5, <3>1, ExecutedIs
  <2> QED
    BY <1>3, <2>6 DEF more, x
<1> QED
  BY <1>2, <1>3

\* The beginning of a line that there is room for is not empty unless the line is.
LEMMA AtMostEmpty ==
  ASSUME NEW l \in Line, NEW n \in Nat \ {0}
  PROVE  AtMost(l, n) = <<>> <=> l = <<>>
<1> DEFINE h == SubSeq(l, 1, n)
<1>1. l \in Seq(Byte) /\ Len(l) \in Nat /\ (l = <<>> => Len(l) = 0)
  BY LenProperties, EmptySeq DEF Line
<1>2. CASE Len(l) <= n
  BY <1>2 DEF AtMost
<1>3. CASE ~ (Len(l) <= n)
  <2>1. \A i \in 1 .. n : l[i] \in Byte
    BY <1>1, <1>3, ElementOfSeq
  <2>2. Len(SubSeq(l, 1, n)) = IF 1 <= n THEN n - 1 + 1 ELSE 0
    BY <2>1, SubSeqProperties
  <2>3. AtMost(l, n) = h
    BY <1>3 DEF AtMost
  <2>4. Len(h) = n
    <3>1. h = SubSeq(l, 1, n)
      OBVIOUS
    <3> HIDE DEF h
    <3> QED
      BY <2>2, <3>1
  <2> HIDE DEF h
  <2>5. h # <<>>
    BY <2>4, EmptySeq
  <2> QED
    BY <1>1, <1>3, <2>3, <2>5
<1> QED
  BY <1>2, <1>3

\* A line that gets a character more gets it as far as there is room.
LEMMA AtMostGrows ==
  ASSUME NEW l \in Line, NEW b \in Byte, NEW n \in Nat
  PROVE  AtMost(Append(l, b), n) =
           IF Len(AtMost(l, n)) < n THEN Append(AtMost(l, n), b) ELSE AtMost(l, n)
<1> DEFINE a == Append(l, b)
           h == SubSeq(l, 1, n)
<1>1. a \in Line /\ Len(a) = Len(l) + 1 /\ Len(l) \in Nat /\ l \in Seq(Byte)
  BY AppendProperties, LenProperties DEF Line
<1>2. Len(l) > n => h \in Line /\ Len(h) = n /\ SubSeq(a, 1, n) = h
  <2> SUFFICES ASSUME Len(l) > n PROVE h \in Line /\ Len(h) = n /\ SubSeq(a, 1, n) = h
    OBVIOUS
  <2>1. n \in 0 .. Len(l)
    BY <1>1
  <2>2. h \in Seq(Byte) /\ SubSeq(a, 1, n) = h
    BY <1>1, <2>1, Beginnings
  <2>3. \A i \in 1 .. n : l[i] \in Byte
    BY <1>1, <2>1, ElementOfSeq
  <2>4. Len(SubSeq(l, 1, n)) = IF 1 <= n THEN n - 1 + 1 ELSE 0
    BY <2>3, SubSeqProperties
  <2>5. Len(h) = n
    <3>1. h = SubSeq(l, 1, n)
      OBVIOUS
    <3> HIDE DEF h
    <3> QED
      BY <2>4, <3>1
  <2> QED
    BY <2>2, <2>5 DEF Line
<1>3. Len(l) = n => SubSeq(a, 1, n) = l
  <2> SUFFICES ASSUME Len(l) = n PROVE SubSeq(a, 1, n) = l
    OBVIOUS
  <2>1. n \in 0 .. Len(l)
    BY <1>1
  <2>2. SubSeq(a, 1, n) = SubSeq(l, 1, n)
    BY <1>1, <2>1, Beginnings
  <2>3. SubSeq(l, 1, Len(l)) = l
    BY <1>1, SubSeqFull
  <2> QED
    BY <2>2, <2>3
<1>4. AtMost(l, n) = IF Len(l) <= n THEN l ELSE h
  BY DEF AtMost
<1>5. AtMost(a, n) = IF Len(a) <= n THEN a ELSE SubSeq(a, 1, n)
  BY DEF AtMost
<1> HIDE DEF h
<1>6. AtMost(a, n) = IF Len(AtMost(l, n)) < n THEN Append(AtMost(l, n), b) ELSE AtMost(l, n)
  <2>1. CASE Len(l) < n
    <3>1. AtMost(l, n) = l /\ AtMost(a, n) = a
      BY <1>1, <1>4, <1>5, <2>1
    <3> QED
      BY <2>1, <3>1
  <2>2. CASE Len(l) = n
    <3>1. AtMost(l, n) = l /\ AtMost(a, n) = l
      BY <1>1, <1>3, <1>4, <1>5, <2>2
    <3> QED
      BY <2>2, <3>1
  <2>3. CASE Len(l) > n
    <3> HIDE DEF a
    <3>1. AtMost(l, n) = h /\ AtMost(a, n) = h /\ ~ (Len(h) < n)
      BY <1>1, <1>2, <1>4, <1>5, <2>3
    <3> QED
      BY <3>1
  <2> QED
    BY <1>1, <2>1, <2>2, <2>3
<1> QED
  BY <1>6

\* Ending the line executes it, if it holds something.
LEMMA EndLineExecutes ==
  ASSUME NEW s \in States, NEW lines \in Cuts, NEW m \in Nat, Len(lines) = m + 1,
         Executed(s.lines, lines, m), s.line = AtMost(lines[m + 1], LineRoom - 1)
  PROVE  /\ EndLine(s) \in States /\ EndLine(s).line = <<>>
         /\ Executed(EndLine(s).lines, lines, m + 1)
<1> DEFINE x == AtMost(lines[m + 1], LineRoom - 1)
           e == IF s.line = <<>> THEN s.lines ELSE Append(s.lines, s.line)
           none == <<>>
<1>1. s.line \in Line /\ s.lines \in Seq(Line) /\ none \in Line
  BY EmptySeq DEF States, Line
<1>2. lines[m + 1] \in Line
  <2>1. m + 1 \in 1 .. Len(lines)
    OBVIOUS
  <2> QED
    BY <2>1, ElementOfSeq DEF Cuts
<1>3. e \in Seq(Line)
  BY <1>1, AppendProperties
<1>4. EndLine(s) = [line |-> none, lines |-> e]
  BY DEF EndLine
<1>5. s.line = <<>> <=> lines[m + 1] = <<>>
  <2>1. LineRoom - 1 \in Nat /\ LineRoom - 1 # 0
    BY FileAssumption
  <2> HIDE DEF x
  <2>2. AtMost(lines[m + 1], LineRoom - 1) = <<>> <=> lines[m + 1] = <<>>
    <3> DEFINE l == lines[m + 1]
               n == LineRoom - 1
    <3>1. l \in Line /\ n \in Nat \ {0}
      BY <1>2, <2>1
    <3> HIDE DEF l, n
    <3>2. AtMost(l, n) = <<>> <=> l = <<>>
      BY <3>1, AtMostEmpty
    <3> QED
      BY <3>2 DEF l, n
  <2> QED
    BY <2>2
<1> HIDE DEF none
<1>6. Executed(e, lines, m + 1)
  <2>1. x \in Line /\ x = s.line
    BY <1>1
  <2>2. /\ lines[m + 1] = <<>> => Executed(s.lines, lines, m + 1)
        /\ lines[m + 1] # <<>> => Executed(Append(s.lines, x), lines, m + 1)
    BY <1>1, <2>1, ExecutedNext
  <2> HIDE DEF x
  <2> QED
    BY <1>5, <2>1, <2>2
<1> HIDE DEF e
<1>7. /\ [line |-> none, lines |-> e] \in States
      /\ [line |-> none, lines |-> e].line = none /\ [line |-> none, lines |-> e].lines = e
  BY <1>1, <1>3 DEF States
<1> QED
  BY <1>4, <1>6, <1>7 DEF none

\* What one byte makes of the lines.
LEMMA WithByteFacts ==
  ASSUME NEW lines \in Cuts, NEW b \in Byte
  PROVE  /\ WithByte(lines, b) \in Cuts /\ Len(lines) \in Nat /\ lines[Len(lines)] \in Line
         /\ b = "nl" => /\ Len(WithByte(lines, b)) = Len(lines) + 1
                        /\ WithByte(lines, b)[Len(lines) + 1] = <<>>
                        /\ \A i \in 1 .. Len(lines) : WithByte(lines, b)[i] = lines[i]
         /\ b = "cr" => WithByte(lines, b) = lines
         /\ b \notin {"nl", "cr"} =>
              /\ Len(WithByte(lines, b)) = Len(lines)
              /\ WithByte(lines, b)[Len(lines)] = Append(lines[Len(lines)], b)
              /\ \A i \in 1 .. Len(lines) - 1 : WithByte(lines, b)[i] = lines[i]
<1> DEFINE n == Len(lines)
<1>1. /\ n \in Nat \ {0} /\ n \in 1 .. n /\ lines \in Seq(Line) /\ lines \in [1 .. n -> Line]
  BY LenProperties DEF Cuts
<1>2. lines[n] \in Line
  BY <1>1
<1>3. CASE b = "nl"
  <2> DEFINE e == <<>>
  <2>1. e \in Line
    BY EmptySeq DEF Line
  <2> HIDE DEF e
  <2>2. /\ Append(lines, e) \in Seq(Line) /\ Len(Append(lines, e)) = Len(lines) + 1
        /\ Append(lines, e)[Len(lines) + 1] = e
        /\ \A i \in 1 .. Len(lines) : Append(lines, e)[i] = lines[i]
    BY <1>1, <2>1, AppendProperties
  <2>3. WithByte(lines, b) = Append(lines, e)
    BY <1>3 DEF WithByte, e
  <2> HIDE DEF n
  <2>4. WithByte(lines, b) \in Cuts
    <3>1. Len(lines) + 1 # 0
      BY <1>1 DEF n
    <3> QED
      BY <2>2, <2>3, <3>1 DEF Cuts
  <2> QED
    BY <1>1, <1>2, <1>3, <2>2, <2>3, <2>4 DEF e, n
<1>4. CASE b = "cr"
  <2>1. WithByte(lines, b) = lines
    BY <1>4 DEF WithByte
  <2> QED
    BY <1>1, <1>2, <1>4, <2>1
<1>5. CASE b \notin {"nl", "cr"}
  <2> DEFINE x == Append(lines[n], b)
             t == [lines EXCEPT ![n] = x]
  <2>1. x \in Line
    BY <1>2, AppendProperties DEF Line
  <2>2. WithByte(lines, b) = t
    BY <1>5 DEF WithByte
  <2> HIDE DEF x, n
  <2>3. /\ t \in [1 .. n -> Line] /\ t[n] = x /\ DOMAIN t = 1 .. n
        /\ \A i \in 1 .. n : i # n => t[i] = lines[i]
    BY <1>1, <2>1
  <2>4. \A i \in 1 .. n - 1 : i \in 1 .. n /\ i # n
    BY <1>1
  <2> HIDE DEF t
  <2>5. t \in Seq(Line) /\ Len(t) = n
    BY <1>1, <2>3, SeqDef, LenProperties
  <2>6. t \in Cuts
    BY <1>1, <2>5 DEF Cuts
  <2> QED
    BY <1>1, <1>2, <1>5, <2>2, <2>3, <2>4, <2>5, <2>6 DEF n, x
<1> QED
  BY <1>3, <1>4, <1>5

\* What one byte makes of the line being put together and of those executed.
LEMMA TakeByteFacts ==
  ASSUME NEW s \in States, NEW b \in Byte
  PROVE  /\ TakeByte(s, b) \in States
         /\ b = "nl" => TakeByte(s, b) = EndLine(s)
         /\ b = "cr" => TakeByte(s, b) = s
         /\ b \notin {"nl", "cr"} =>
              /\ TakeByte(s, b).lines = s.lines
              /\ TakeByte(s, b).line = IF Fits(s.line) THEN Append(s.line, b) ELSE s.line
<1>1. s.line \in Line /\ s.lines \in Seq(Line) /\ <<>> \in Line
  BY EmptySeq DEF States, Line
<1>2. Append(s.line, b) \in Line
  BY <1>1, AppendProperties DEF Line
<1>3. CASE b = "nl"
  <2>1. TakeByte(s, b) = EndLine(s)
    BY <1>3 DEF TakeByte
  <2> DEFINE e == IF s.line = <<>> THEN s.lines ELSE Append(s.lines, s.line)
             none == <<>>
  <2>2. e \in Seq(Line) /\ none \in Line
    BY <1>1, AppendProperties
  <2>3. EndLine(s) = [line |-> none, lines |-> e]
    BY DEF EndLine
  <2> HIDE DEF e, none
  <2>4. EndLine(s) \in States
    BY <2>2, <2>3 DEF States
  <2> QED
    BY <1>3, <2>1, <2>4
<1>4. CASE b = "cr"
  <2>1. TakeByte(s, b) = s
    BY <1>4 DEF TakeByte
  <2> QED
    BY <1>4, <2>1
<1>5. CASE b \notin {"nl", "cr"}
  <2> DEFINE x == Append(s.line, b)
             t == [s EXCEPT !.line = x]
  <2>1. TakeByte(s, b) = IF Fits(s.line) THEN t ELSE s
    BY <1>5 DEF TakeByte
  <2>2. x \in Line
    BY <1>2
  <2> HIDE DEF x
  <2>3. t \in States /\ t.line = x /\ t.lines = s.lines
    BY <2>2 DEF States
  <2> HIDE DEF t
  <2> QED
    BY <1>5, <2>1, <2>3 DEF x
<1> QED
  BY <1>3, <1>4, <1>5

\* Where the program and the reference are after the same bytes.
Together(s, lines) ==
  /\ s \in States /\ lines \in Cuts
  /\ s.line = AtMost(lines[Len(lines)], LineRoom - 1)
  /\ Executed(s.lines, lines, Len(lines) - 1)

LEMMA TogetherFirst == Together([line |-> <<>>, lines |-> <<>>], <<<<>>>>)
<1> DEFINE none == <<>>
           no == <<>>
           s == [line |-> none, lines |-> no]
           c == <<none>>
<1>1. none \in Line /\ no \in Seq(Line) /\ Len(no) = 0
  BY EmptySeq DEF Line
<1>2. AtMost(none, LineRoom - 1) = none
  <2>1. Len(none) = 0 /\ 0 <= LineRoom - 1
    BY FileAssumption, EmptySeq
  <2> QED
    BY <2>1 DEF AtMost
<1> HIDE DEF none, no
<1>3. s \in States /\ s.line = none /\ s.lines = no
  BY <1>1 DEF States
<1>4. c \in Seq(Line) /\ Len(c) = 1 /\ c[1] = none
  BY <1>1
<1> HIDE DEF s, c
<1>5. c \in Cuts
  BY <1>4 DEF Cuts
<1>6. Executed(no, c, 0)
  <2>1. Inked(c, 0) = {}
    BY DEF Inked
  <2> QED
    BY <1>1, <2>1, ExecutedIs, FS_EmptySet
<1>7. Together(s, c)
  <2>1. Len(c) - 1 = 0
    BY <1>4
  <2> QED
    BY <1>2, <1>3, <1>4, <1>5, <1>6, <2>1 DEF Together
<1> QED
  BY <1>7 DEF s, c, none, no

LEMMA TogetherNext ==
  ASSUME NEW s, NEW lines, NEW b \in Byte, Together(s, lines)
  PROVE  Together(TakeByte(s, b), WithByte(lines, b))
<1> DEFINE m == Len(lines) - 1
           t == TakeByte(s, b)
           c == WithByte(lines, b)
           n == LineRoom - 1
<1>1. /\ s \in States /\ lines \in Cuts /\ s.line = AtMost(lines[Len(lines)], n)
      /\ Executed(s.lines, lines, m) /\ n \in Nat /\ n # 0
  BY FileAssumption DEF Together
<1>2. m \in Nat /\ Len(lines) = m + 1 /\ lines[m + 1] \in Line
  <2>1. Len(lines) \in Nat /\ Len(lines) # 0 /\ lines[Len(lines)] \in Line
    BY <1>1, LenProperties, WithByteFacts DEF Cuts
  <2> QED
    BY <2>1
<1>3. t \in States /\ c \in Cuts
  BY <1>1, TakeByteFacts, WithByteFacts
<1> HIDE DEF m
<1>4. CASE b = "nl"
  <2>1. t = EndLine(s)
    BY <1>1, <1>4, TakeByteFacts
  <2>2. t.line = <<>> /\ Executed(t.lines, lines, m + 1)
    BY <1>1, <1>2, <2>1, EndLineExecutes
  <2>3. Len(c) = m + 2 /\ c[m + 2] = <<>> /\ \A i \in 1 .. m + 1 : c[i] = lines[i]
    <3>1. /\ Len(c) = Len(lines) + 1 /\ c[Len(lines) + 1] = <<>>
          /\ \A i \in 1 .. Len(lines) : c[i] = lines[i]
      BY <1>1, <1>4, WithByteFacts
    <3> HIDE DEF c
    <3>2. Len(lines) + 1 = m + 2
      BY <1>2
    <3> QED
      BY <1>2, <3>1, <3>2
  <2> HIDE DEF t, c
  <2>4. Executed(t.lines, c, m + 1)
    BY <1>2, <2>2, <2>3, ExecutedSame
  <2>5. AtMost(<<>>, n) = <<>>
    <3>1. Len(<<>>) <= n
      BY <1>1, EmptySeq
    <3> QED
      BY <3>1 DEF AtMost
  <2>6. Len(c) - 1 = m + 1
    BY <1>2, <2>3
  <2> QED
    BY <1>3, <2>2, <2>3, <2>4, <2>5, <2>6 DEF Together, t, c
<1>5. CASE b = "cr"
  BY <1>1, <1>5, TakeByteFacts, WithByteFacts
<1>6. CASE b \notin {"nl", "cr"}
  <2> DEFINE l == lines[m + 1]
  <2>1. Len(c) = m + 1 /\ c[m + 1] = Append(l, b) /\ \A i \in 1 .. m : c[i] = lines[i]
    <3>1. /\ Len(c) = Len(lines) /\ c[Len(lines)] = Append(lines[Len(lines)], b)
          /\ \A i \in 1 .. Len(lines) - 1 : c[i] = lines[i]
      BY <1>1, <1>6, WithByteFacts
    <3> QED
      BY <1>2, <3>1
  <2>2. t.lines = s.lines /\ t.line = IF Fits(s.line) THEN Append(s.line, b) ELSE s.line
    BY <1>1, <1>6, TakeByteFacts
  <2> HIDE DEF t, c
  <2>3. Executed(t.lines, c, m)
    BY <1>1, <1>2, <2>1, <2>2, ExecutedSame
  <2>4. l \in Line /\ s.line = AtMost(l, n)
    BY <1>1, <1>2
  <2> HIDE DEF l
  <2>5. Len(s.line) \in Nat /\ (Fits(s.line) <=> Len(s.line) < n)
    <3>1. Len(s.line) \in Nat
      BY <1>1, LenProperties DEF States, Line
    <3> QED
      BY <3>1, FileAssumption DEF Fits
  <2> HIDE DEF n
  <2>6. AtMost(Append(l, b), n) = IF Len(AtMost(l, n)) < n THEN Append(AtMost(l, n), b) ELSE AtMost(l, n)
    BY <1>1, <2>4, AtMostGrows
  <2>7. t.line = AtMost(c[m + 1], n)
    BY <2>1, <2>2, <2>4, <2>5, <2>6
  <2>8. Len(c) - 1 = m
    BY <1>2, <2>1
  <2> QED
    BY <1>3, <2>1, <2>3, <2>7, <2>8 DEF Together, t, c, n
<1> QED
  BY <1>4, <1>5, <1>6

Begun == [line |-> <<>>, lines |-> <<>>]

\* The lines of a script after each of its bytes, as source puts them together.
LEMMA ScriptSteps ==
  ASSUME NEW bytes \in Seq(Byte)
  PROVE  \E f \in [0 .. Len(bytes) -> States] :
           /\ f[0] = Begun /\ \A i \in 1 .. Len(bytes) : f[i] = TakeByte(f[i - 1], bytes[i])
           /\ ScriptLines(bytes) = EndLine(f[Len(bytes)]).lines
<1> DEFINE n == Len(bytes)
           G == [p \in (1 .. n) \X States |-> TakeByte(p[2], bytes[p[1]])]
           Is(h) == h = [i \in 0 .. n |-> IF i = 0 THEN Begun ELSE TakeByte(h[i - 1], bytes[i])]
           h == CHOOSE h : Is(h)
<1>1. n \in Nat /\ \A i \in 1 .. n : bytes[i] \in Byte
  BY LenProperties, ElementOfSeq
<1>2. ScriptLines(bytes) = EndLine(h[n]).lines
  BY DEF ScriptLines, Begun
<1> HIDE DEF n
<1>3. G \in [(1 .. n) \X States -> States]
  <2>1. \A p \in (1 .. n) \X States : TakeByte(p[2], bytes[p[1]]) \in States
    BY <1>1, TakeByteFacts
  <2> QED
    BY <2>1
<1>4. Begun \in States
  BY TogetherFirst DEF Together, Begun
<1>5. PICK f \in [0 .. n -> States] : f[0] = Begun /\ \A i \in 1 .. n : f[i] = G[<<i, f[i - 1]>>]
  <2> DEFINE T == States
             a == Begun
  <2>1. G \in [(1 .. n) \X T -> T] /\ a \in T
    BY <1>3, <1>4
  <2> HIDE DEF G, T, a
  <2>2. \E f \in [0 .. n -> T] : Follows(n, a, G, f)
    BY <1>1, <2>1, StepsExist
  <2> QED
    BY <2>2 DEF Follows, T, a
<1>6. \A i \in 1 .. n : f[i] = TakeByte(f[i - 1], bytes[i])
  <2>1. \A i \in 1 .. n : <<i, f[i - 1]>> \in (1 .. n) \X States
    <3>1. \A i \in 1 .. n : i - 1 \in 0 .. n
      BY <1>1
    <3> QED
      BY <3>1
  <2> QED
    BY <1>5, <2>1
<1> HIDE DEF G
<1>7. Is(f)
  <2>1. \A i \in 0 .. n : f[i] = IF i = 0 THEN Begun ELSE TakeByte(f[i - 1], bytes[i])
    <3>1. \A i \in 0 .. n : i # 0 => i \in 1 .. n
      BY <1>1
    <3> QED
      BY <1>5, <1>6, <3>1
  <2>2. f = [i \in 0 .. n |-> f[i]]
    OBVIOUS
  <2> QED
    BY <2>1, <2>2
<1>8. Is(h)
  <2> HIDE DEF Is
  <2> QED
    BY <1>7
<1>9. h[n] = f[n]
  <2> HIDE DEF h
  <2>1. h[0] = Begun /\ \A i \in 1 .. n : h[i] = TakeByte(h[i - 1], bytes[i])
    <3>1. 0 \in 0 .. n /\ \A i \in 1 .. n : i \in 0 .. n /\ i # 0
      BY <1>1
    <3> QED
      BY <1>8, <3>1
  <2>2. Agree(n, h, f)
    BY <1>5, <1>6, <2>1 DEF Agree
  <2> HIDE DEF Is
  <2>3. \A i \in 0 .. n : h[i] = f[i]
    BY <1>1, <2>2, SameSteps
  <2> QED
    BY <1>1, <2>3
<1> HIDE DEF h, Is
<1> QED
  BY <1>2, <1>5, <1>6, <1>9 DEF n

\* And as they are in the file.
LEMMA LinesSteps ==
  ASSUME NEW bytes \in Seq(Byte)
  PROVE  \E f \in [0 .. Len(bytes) -> Cuts] :
           /\ f[0] = <<<<>>>> /\ \A i \in 1 .. Len(bytes) : f[i] = WithByte(f[i - 1], bytes[i])
           /\ LinesOf(bytes) = f[Len(bytes)]
<1> DEFINE n == Len(bytes)
           G == [p \in (1 .. n) \X Cuts |-> WithByte(p[2], bytes[p[1]])]
           Is(h) == h = [i \in 0 .. n |-> IF i = 0 THEN <<<<>>>> ELSE WithByte(h[i - 1], bytes[i])]
           h == CHOOSE h : Is(h)
<1>1. n \in Nat /\ \A i \in 1 .. n : bytes[i] \in Byte
  BY LenProperties, ElementOfSeq
<1>2. LinesOf(bytes) = h[n]
  BY DEF LinesOf
<1> HIDE DEF n
<1>3. G \in [(1 .. n) \X Cuts -> Cuts]
  <2>1. \A p \in (1 .. n) \X Cuts : WithByte(p[2], bytes[p[1]]) \in Cuts
    BY <1>1, WithByteFacts
  <2> QED
    BY <2>1
<1>4. <<<<>>>> \in Cuts
  BY TogetherFirst DEF Together
<1>5. PICK f \in [0 .. n -> Cuts] : f[0] = <<<<>>>> /\ \A i \in 1 .. n : f[i] = G[<<i, f[i - 1]>>]
  <2> DEFINE T == Cuts
             a == <<<<>>>>
  <2>1. G \in [(1 .. n) \X T -> T] /\ a \in T
    BY <1>3, <1>4
  <2> HIDE DEF G, T, a
  <2>2. \E f \in [0 .. n -> T] : Follows(n, a, G, f)
    BY <1>1, <2>1, StepsExist
  <2> QED
    BY <2>2 DEF Follows, T, a
<1>6. \A i \in 1 .. n : f[i] = WithByte(f[i - 1], bytes[i])
  <2>1. \A i \in 1 .. n : <<i, f[i - 1]>> \in (1 .. n) \X Cuts
    <3>1. \A i \in 1 .. n : i - 1 \in 0 .. n
      BY <1>1
    <3> QED
      BY <3>1
  <2> QED
    BY <1>5, <2>1
<1> HIDE DEF G
<1>7. Is(f)
  <2>1. \A i \in 0 .. n : f[i] = IF i = 0 THEN <<<<>>>> ELSE WithByte(f[i - 1], bytes[i])
    <3>1. \A i \in 0 .. n : i # 0 => i \in 1 .. n
      BY <1>1
    <3> QED
      BY <1>5, <1>6, <3>1
  <2>2. f = [i \in 0 .. n |-> f[i]]
    OBVIOUS
  <2> QED
    BY <2>1, <2>2
<1>8. Is(h)
  <2> HIDE DEF Is
  <2> QED
    BY <1>7
<1>9. h[n] = f[n]
  <2> HIDE DEF h
  <2>1. h[0] = <<<<>>>> /\ \A i \in 1 .. n : h[i] = WithByte(h[i - 1], bytes[i])
    <3>1. 0 \in 0 .. n /\ \A i \in 1 .. n : i \in 0 .. n /\ i # 0
      BY <1>1
    <3> QED
      BY <1>8, <3>1
  <2>2. Agree(n, h, f)
    BY <1>5, <1>6, <2>1 DEF Agree
  <2> HIDE DEF Is
  <2>3. \A i \in 0 .. n : h[i] = f[i]
    BY <1>1, <2>2, SameSteps
  <2> QED
    BY <1>1, <2>3
<1> HIDE DEF h, Is
<1> QED
  BY <1>2, <1>5, <1>6, <1>9 DEF n


\* What source executes of some bytes are the lines that they are.
LEMMA ScriptExecutes ==
  ASSUME NEW bytes \in Seq(Byte)
  PROVE  Executed(ScriptLines(bytes), LinesOf(bytes), Len(LinesOf(bytes)))
<1> DEFINE n == Len(bytes)
<1>1. n \in Nat /\ \A i \in 1 .. n : bytes[i] \in Byte
  BY LenProperties, ElementOfSeq
<1>2. PICK f \in [0 .. n -> States] :
        /\ f[0] = Begun /\ \A i \in 1 .. n : f[i] = TakeByte(f[i - 1], bytes[i])
        /\ ScriptLines(bytes) = EndLine(f[n]).lines
  BY ScriptSteps
<1>3. PICK g \in [0 .. n -> Cuts] :
        /\ g[0] = <<<<>>>> /\ \A i \in 1 .. n : g[i] = WithByte(g[i - 1], bytes[i])
        /\ LinesOf(bytes) = g[n]
  BY LinesSteps
<1> HIDE DEF n
<1> DEFINE T == {i \in Nat : i <= n => Together(f[i], g[i])}
<1>4. 0 \in T
  BY <1>1, <1>2, <1>3, TogetherFirst DEF Begun
<1>5. ASSUME NEW i \in Nat, i \in T PROVE i + 1 \in T
  <2> SUFFICES ASSUME i + 1 <= n PROVE Together(f[i + 1], g[i + 1])
    OBVIOUS
  <2>1. i + 1 \in 1 .. n /\ (i + 1) - 1 = i /\ Together(f[i], g[i])
    BY <1>1, <1>5
  <2>2. /\ bytes[i + 1] \in Byte /\ f[i + 1] = TakeByte(f[i], bytes[i + 1])
        /\ g[i + 1] = WithByte(g[i], bytes[i + 1])
    BY <1>1, <1>2, <1>3, <2>1
  <2> QED
    BY <2>1, <2>2, TogetherNext
<1>6. Together(f[n], g[n])
  <2> HIDE DEF T
  <2>1. Nat \subseteq T
    BY <1>4, <1>5, SetInduction
  <2> QED
    BY <1>1, <2>1 DEF T
<1> DEFINE s == f[n]
           lines == g[n]
           m == Len(lines) - 1
<1>7. /\ s \in States /\ lines \in Cuts /\ s.line = AtMost(lines[Len(lines)], LineRoom - 1)
      /\ Executed(s.lines, lines, m)
  BY <1>6 DEF Together
<1>8. m \in Nat /\ Len(lines) = m + 1
  <2>1. Len(lines) \in Nat /\ Len(lines) # 0
    BY <1>7, LenProperties DEF Cuts
  <2> HIDE DEF lines
  <2> QED
    BY <2>1
<1> HIDE DEF s, lines, m
<1>9. Executed(EndLine(s).lines, lines, m + 1)
  BY <1>7, <1>8, EndLineExecutes
<1>10. ScriptLines(bytes) = EndLine(s).lines /\ LinesOf(bytes) = lines
  BY <1>2, <1>3 DEF s, lines
<1> QED
  BY <1>8, <1>9, <1>10

(***************************************************************************)
(* Nothing is executed before source has read, nor by another command.     *)
(***************************************************************************)
ScriptInv == (pc # "shell" => ran = <<>>) /\ SourceRunsLines

LEMMA ScriptKept == CallsOK /\ FileInv /\ ReadScript => ScriptInv'
<1> SUFFICES ASSUME CallsOK, FileInv, ReadScript PROVE ScriptInv'
  OBVIOUS
<1> DEFINE bytes == AtMost(Bytes, ScriptBytes)
<1>1. /\ pc' = "shell" /\ reply' = "done" /\ cmd' = cmd /\ volume' = volume /\ pc = "read"
      /\ ran' = ScriptLines(bytes)
  BY DEF ReadScript, Returns
<1>2. Bytes \in Seq(Byte) /\ Bytes' = Bytes
  <2>1. Exists
    BY <1>1 DEF FileInv, CommandInv, FileCalls
  <2> QED
    BY <1>1, <2>1 DEF FileInv, VolumeInv, Bytes, Exists, Contents, Byte
<1>3. bytes \in Seq(Byte)
  <2>1. CASE Len(Bytes) <= ScriptBytes
    BY <1>2, <2>1 DEF AtMost
  <2>2. CASE ~ (Len(Bytes) <= ScriptBytes)
    <3>1. ScriptBytes \in 0 .. Len(Bytes)
      BY <1>2, <2>2, FileAssumption, LenProperties
    <3>2. SubSeq(Bytes, 1, ScriptBytes) \in Seq(Byte)
      BY <1>2, <3>1, Beginnings
    <3> QED
      BY <2>2, <3>2 DEF AtMost
  <2> QED
    BY <2>1, <2>2
<1>4. AtMost(Bytes', ScriptBytes) = bytes
  BY <1>2
<1> HIDE DEF bytes
<1>5. Executed(ScriptLines(bytes), LinesOf(bytes), Len(LinesOf(bytes)))
  BY <1>3, ScriptExecutes
<1>6. Executed(ran', LinesOf(AtMost(Bytes', ScriptBytes)), Len(LinesOf(AtMost(Bytes', ScriptBytes))))
  BY <1>1, <1>4, <1>5
<1> QED
  BY <1>1, <1>6 DEF ScriptInv, SourceRunsLines

LEMMA ScriptNext == CallsOK /\ FileInv /\ ScriptInv /\ [ListingNext]_allvars => ScriptInv'
<1> SUFFICES ASSUME CallsOK, FileInv, ScriptInv, [ListingNext]_allvars PROVE ScriptInv'
  OBVIOUS
<1> USE DEF ScriptInv, SourceRunsLines, Ended, Returns
<1>1. ASSUME NEW c \in Commands, Start(c) PROVE ScriptInv'
  BY <1>1 DEF Start
<1>2. CASE StartListing
  BY <1>2 DEF StartListing
<1>3. CASE Locate \/ OpenVolume
  BY <1>3 DEF Locate, OpenVolume, report
<1>4. CASE OpenFile
  <2>1. pc = "open" /\ ran' = ran /\ (pc' = "shell" => reply' = "failed")
    BY <1>4 DEF OpenFile, FirstCall, CallsOK
  <2> QED
    BY <2>1
<1>5. CASE ReadChunk \/ CloseTouched \/ DeleteFile \/ Seek \/ SeekIgnored \/ WriteText
  <2>1. pc # "shell" /\ ran' = ran /\ cmd' = cmd /\ cmd.op # "source"
    BY <1>5 DEF ReadChunk, CloseTouched, DeleteFile, Seek, SeekIgnored, WriteText, report, FileInv,
                CommandInv, FirstCallOf
  <2> QED
    BY <2>1
<1>6. CASE CallFails
  <2>1. pc # "shell" /\ ran' = ran /\ reply' = "failed"
    BY <1>6, FileAssumption DEF CallFails
  <2> QED
    BY <2>1
<1>7. CASE List \/ ListingFails
  <2>1. pc # "shell" /\ ran' = ran /\ cmd' = cmd /\ cmd.op = "ls"
    BY <1>7 DEF List, ListLocate, ListVolume, ReadEntry, LastEntry, NameTooLong, ListingFails, CallOf,
                EndListing, ShowBuiltIn, Listing, FileInv, CommandInv, FirstCallOf
  <2> QED
    BY <2>1
<1>8. CASE UNCHANGED allvars
  <2>1. UNCHANGED <<pc, ran, cmd, reply, volume>>
    BY <1>8 DEF allvars, vars, report
  <2> QED
    BY <2>1 DEF Bytes
<1> QED
  BY <1>1, <1>2, <1>3, <1>4, <1>5, <1>6, <1>7, <1>8, ScriptKept
     DEF ListingNext, Serve, Run, Starts, Fault

(***************************************************************************)
(* SourceRunsLines: for every file, every size of the buffer it is read    *)
(* into and every room for a line, source executes the lines of what it    *)
(* has read that hold something, in order, once, as far as there is room.  *)
(***************************************************************************)
THEOREM SourceIsFaithful == ListingSpec => []SourceRunsLines
<1>1. ScriptInv => SourceRunsLines
  BY DEF ScriptInv
<1>2. ListingInit => ScriptInv
  BY DEF ListingInit, Init, ScriptInv, SourceRunsLines, Ended
<1> QED
  BY <1>1, <1>2, ScriptNext, FilesAlways, CallsCorrect, PTL DEF ListingSpec

-----------------------------------------------------------------------------
(***************************************************************************)
(* What a listing shows.                                                   *)
(***************************************************************************)
LEMMA DefaultsFit == Defaults \in Seq(STRING) /\ Len(Defaults) <= MaxEntries
<1> DEFINE n == IF Len(BuiltIn) <= MaxEntries THEN Len(BuiltIn) ELSE MaxEntries
<1>1. Len(BuiltIn) \in Nat /\ BuiltIn \in Seq(STRING) /\ MaxEntries \in Nat
  BY ListingAssumption, LenProperties
<1>2. n \in Nat /\ n <= Len(BuiltIn) /\ n <= MaxEntries
  BY <1>1
<1> HIDE DEF n
<1>3. SubSeq(BuiltIn, 1, n) \in Seq(STRING) /\ Len(SubSeq(BuiltIn, 1, n)) = IF 1 <= n THEN n - 1 + 1 ELSE 0
  BY <1>1, <1>2, PartOps
<1>4. Defaults = SubSeq(BuiltIn, 1, n)
  BY DEF Defaults, n
<1> QED
  BY <1>1, <1>2, <1>3, <1>4

LEMMA ListInit == ListingInit => ListInv
<1> SUFFICES ASSUME ListingInit PROVE ListInv
  OBVIOUS
<1>1. entries = <<>> /\ listed = <<>> /\ cut = FALSE /\ pc = "shell" /\ cmd.op = "none"
  BY DEF ListingInit, Init
<1>2. entries \in Seq(STRING) /\ Len(entries) = 0
  BY <1>1, EmptySeq
<1>3. Len(entries) <= MaxEntries
  BY <1>2, ListingAssumption
<1> QED
  BY <1>1, <1>2, <1>3 DEF ListInv, ListingShowsVolume, Ended

\* One more line, of a file that was not listed before.
LEMMA EntryKeepsList == CallsOK /\ FileInv /\ ListInv /\ ReadEntry => ListInv'
<1> SUFFICES ASSUME CallsOK, FileInv, ListInv, ReadEntry PROVE ListInv'
  OBVIOUS
<1>1. PICK n \in Unlisted \ LongNames :
        entries' = Append(entries, ShortName[n]) /\ listed' = Append(listed, n)
  BY DEF ReadEntry, Shortened
<1>2. /\ pc = "list_read" /\ pc' = pc /\ volume' = volume /\ cut' = cut /\ ~ (Len(entries) >= MaxEntries)
      /\ entries \in Seq(STRING) /\ listed \in Seq(Names) /\ Len(listed) = Len(entries)
      /\ Lists(listed) /\ ToSet(listed) \subseteq DOMAIN volume
      /\ cut \in BOOLEAN /\ ~ cut
      /\ DOMAIN volume \subseteq Names
  BY DEF ReadEntry, TableFull, Listing, ListInv, FileInv, VolumeInv
<1>3. n \in Names /\ n \in DOMAIN volume /\ n \notin ToSet(listed) /\ ShortName[n] \in STRING
  BY <1>1, <1>2, ListingAssumption DEF Unlisted
<1>4. /\ listed' \in Seq(Names) /\ Len(listed') = Len(listed) + 1 /\ Len(listed) \in Nat
      /\ \A i \in 1 .. Len(listed) : listed'[i] = listed[i]
      /\ listed'[Len(listed) + 1] = n
      /\ DOMAIN listed' = 1 .. Len(listed) + 1 /\ DOMAIN listed = 1 .. Len(listed)
  BY <1>1, <1>2, <1>3, AppendProperties, LenProperties
<1>5. /\ entries' \in Seq(STRING) /\ Len(entries') = Len(listed) + 1
      /\ \A i \in 1 .. Len(listed) : entries'[i] = entries[i]
      /\ entries'[Len(listed) + 1] = ShortName[n]
  BY <1>1, <1>2, <1>3, AppendProperties, LenProperties
<1>6. \A i \in 1 .. Len(listed) : listed[i] # n
  BY <1>3, <1>4 DEF ToSet
<1>7. IsInjective(listed')
  <2> SUFFICES ASSUME NEW i \in DOMAIN listed', NEW j \in DOMAIN listed', listed'[i] = listed'[j]
               PROVE  i = j
    BY DEF IsInjective
  <2>1. (i \in 1 .. Len(listed) \/ i = Len(listed) + 1) /\ (j \in 1 .. Len(listed) \/ j = Len(listed) + 1)
    BY <1>4
  <2> QED
    BY <1>2, <1>4, <1>6, <2>1 DEF IsInjective, Lists
<1>8. \A k \in DOMAIN listed' : entries'[k] = ShortName[listed'[k]]
  <2> SUFFICES ASSUME NEW k \in DOMAIN listed' PROVE entries'[k] = ShortName[listed'[k]]
    OBVIOUS
  <2>1. k \in 1 .. Len(listed) \/ k = Len(listed) + 1
    BY <1>4
  <2> QED
    BY <1>2, <1>4, <1>5, <2>1 DEF Lists
<1>9. ToSet(listed') \subseteq DOMAIN volume
  <2> SUFFICES ASSUME NEW i \in DOMAIN listed' PROVE listed'[i] \in DOMAIN volume
    BY DEF ToSet
  <2>1. i \in 1 .. Len(listed) \/ i = Len(listed) + 1
    BY <1>4
  <2> QED
    BY <1>2, <1>3, <1>4, <2>1 DEF ToSet
<1>10. Len(entries') <= MaxEntries
  BY <1>2, <1>4, <1>5, ListingAssumption
<1>11. Lists(listed)'
  BY <1>7, <1>8 DEF Lists
<1> QED
  BY <1>2, <1>4, <1>5, <1>9, <1>10, <1>11 DEF ListInv, ListingShowsVolume, Ended

\* The end of a listing, whether it is complete or an error ended it.
LEMMA EndKeepsList ==
  ASSUME CallsOK, FileInv, ListInv, EndListing, cut' \in BOOLEAN,
         pc \in {"list_locate", "list_volume", "list_read"},
         cut' \/ (pc = "list_read" /\ (TableFull \/ Unlisted = {}))
  PROVE  ListInv'
<1>1. /\ pc' = "shell" /\ UNCHANGED <<volume, cmd>> /\ listed' = <<>>
      /\ IF entries = <<>> THEN entries' = Defaults ELSE entries' = entries
  BY DEF EndListing, ShowBuiltIn, Returns, Listing
<1>2. /\ entries \in Seq(STRING) /\ Len(entries) <= MaxEntries /\ Len(entries) \in Nat
      /\ entries # <<>> => pc = "list_read"
  BY LenProperties DEF ListInv
<1>3. CASE entries = <<>>
  <2>1. Len(entries) = 0 /\ ~ TableFull
    <3>1. Len(entries) = 0
      BY <1>3, EmptySeq
    <3> QED
      BY <3>1, ListingAssumption DEF TableFull
  <2>2. ToSet(listed) = {}
    <3>1. CASE pc = "list_read"
      <4>1. listed \in Seq(Names) /\ Len(listed) = 0
        BY <2>1, <3>1 DEF ListInv
      <4>2. DOMAIN listed = {}
        BY <4>1, LenProperties
      <4> QED
        BY <4>2 DEF ToSet
    <3>2. CASE pc # "list_read"
      <4>1. DOMAIN listed = {}
        BY <3>2, EmptySeq, LenProperties DEF ListInv
      <4> QED
        BY <4>1 DEF ToSet
    <3> QED
      BY <3>1, <3>2
  <2>3. cut' \/ DOMAIN volume = {}
    BY <2>1, <2>2 DEF Unlisted
  <2> QED
    BY <1>1, <1>3, <2>3, DefaultsFit DEF ListInv, ListingShowsVolume
<1>4. CASE entries # <<>>
  <2>1. /\ entries' = entries /\ listed \in Seq(Names) /\ Len(listed) = Len(entries)
        /\ Lists(listed) /\ ToSet(listed) \subseteq DOMAIN volume
    BY <1>1, <1>2, <1>4 DEF ListInv
  <2>2. DOMAIN entries = DOMAIN listed /\ listed \in [DOMAIN entries -> DOMAIN volume]
    <3>1. DOMAIN entries = 1 .. Len(entries) /\ DOMAIN listed = 1 .. Len(entries)
      BY <1>2, <2>1, LenProperties
    <3>2. \A k \in DOMAIN listed : listed[k] \in DOMAIN volume
      BY <2>1 DEF ToSet
    <3>3. listed \in [1 .. Len(entries) -> Names]
      BY <2>1, LenProperties
    <3> QED
      BY <3>1, <3>2, <3>3
  <2>3. TableFull => Len(entries) = MaxEntries
    BY <1>2, ListingAssumption DEF TableFull
  <2>4. Unlisted = {} => \A n \in DOMAIN volume : \E k \in DOMAIN listed : listed[k] = n
    BY DEF Unlisted, ToSet
  <2>5. \E files \in [DOMAIN entries' -> DOMAIN volume'] :
          /\ Lists(files)'
          /\ ~ cut' => Len(entries') = MaxEntries
                        \/ \A n \in DOMAIN volume' : \E k \in DOMAIN files : files[k] = n
    <3> DEFINE files == listed
    <3>1. files \in [DOMAIN entries' -> DOMAIN volume']
      BY <1>1, <2>1, <2>2
    <3>2. /\ IsInjective(files)
          /\ \A k \in DOMAIN files : entries'[k] = ShortName[files[k]]
      BY <2>1 DEF Lists
    <3>3. ~ cut' => Len(entries') = MaxEntries
                     \/ \A n \in DOMAIN volume' : \E k \in DOMAIN files : files[k] = n
      BY <1>1, <2>1, <2>3, <2>4
    <3> HIDE DEF files
    <3> QED
      BY <3>1, <3>2, <3>3 DEF Lists
  <2> QED
    BY <1>1, <1>2, <2>1, <2>5 DEF ListInv, ListingShowsVolume
<1> QED
  BY <1>3, <1>4

LEMMA ListNext == CallsOK /\ FileInv /\ ListInv /\ [ListingNext]_allvars => ListInv'
<1> SUFFICES ASSUME CallsOK, FileInv, ListInv, [ListingNext]_allvars PROVE ListInv'
  OBVIOUS
<1>1. CASE (Run \/ Fault) /\ UNCHANGED listing
  <2>1. /\ UNCHANGED <<entries, listed, cut, cmd>> /\ cmd.op # "ls"
        /\ pc \notin {"list_locate", "list_volume", "list_read"}
        /\ pc' \notin {"list_locate", "list_volume", "list_read"}
    <3>1. /\ pc \in {"locate", "volume", "open"} \cup FileCalls /\ UNCHANGED cmd
          /\ pc' \notin {"list_locate", "list_volume", "list_read"}
      BY <1>1, FileAssumption
         DEF Run, Fault, Locate, OpenVolume, OpenFile, FirstCall, ReadChunk, ReadScript, CloseTouched,
             DeleteFile, Seek, SeekIgnored, WriteText, CallFails, Returns, FileCalls, CallsOK
    <3>2. cmd \in Commands
      BY <3>1 DEF FileInv, CommandInv
    <3> QED
      BY <1>1, <3>1, <3>2, CommandParts DEF listing, FileCalls
  <2> QED
    BY <2>1 DEF ListInv, ListingShowsVolume, Ended
<1>2. CASE Starts /\ UNCHANGED listing
  BY <1>2 DEF Starts, Start, listing, ListInv, ListingShowsVolume, Ended
<1>3. CASE StartListing
  <2>1. entries' = <<>> /\ listed' = listed /\ cut' = FALSE /\ pc = "shell" /\ pc' = "list_locate"
    BY <1>3 DEF StartListing
  <2>2. entries' \in Seq(STRING) /\ Len(entries') = 0
    BY <2>1, EmptySeq
  <2>3. Len(entries') <= MaxEntries
    BY <2>2, ListingAssumption
  <2> QED
    BY <2>1, <2>2, <2>3 DEF ListInv, ListingShowsVolume, Ended
<1>4. CASE ListLocate
  BY <1>4 DEF ListLocate, ListInv, listing, ListingShowsVolume, Ended
<1>5. CASE ListVolume
  <2>1. entries' = <<>> /\ listed' = <<>> /\ ~ cut' /\ cut' \in BOOLEAN /\ pc' = "list_read"
    BY <1>5 DEF ListVolume, ListInv, listing
  <2>2. /\ entries' \in Seq(STRING) /\ Len(entries') = 0
        /\ listed' \in Seq(Names) /\ Len(listed') = 0 /\ DOMAIN listed' = {}
    <3>1. /\ entries' \in Seq(STRING) /\ Len(entries') = 0
          /\ listed' \in Seq(Names) /\ Len(listed') = 0
      BY <2>1, EmptySeq
    <3> QED
      BY <3>1, LenProperties
  <2>3. Lists(listed)'
    BY <2>2 DEF Lists, IsInjective
  <2> QED
    BY <2>1, <2>2, <2>3, ListingAssumption DEF ListInv, ListingShowsVolume, Ended, ToSet
<1>6. CASE LastEntry
  <2>1. cut' \in BOOLEAN
    BY <1>6 DEF LastEntry, ListInv
  <2> QED
    BY <1>6, <2>1, EndKeepsList DEF LastEntry
<1>7. CASE NameTooLong \/ ListingFails
  BY <1>7, EndKeepsList DEF NameTooLong, ListingFails, CallOf
<1>8. CASE UNCHANGED allvars
  BY <1>8 DEF allvars, vars, report, listing, ListInv, ListingShowsVolume, Ended, Lists
<1> QED
  BY <1>1, <1>2, <1>3, <1>4, <1>5, <1>6, <1>7, <1>8, EntryKeepsList DEF ListingNext, Serve, List

LEMMA ListAlways == ListingSpec => []ListInv
BY ListInit, ListNext, FilesAlways, CallsCorrect, PTL DEF ListingSpec

(***************************************************************************)
(* ListingShowsVolume: for every volume, whatever its names have in common *)
(* with each other or with the built-in table, each line of a listing      *)
(* stands for a file of its own and shows its shortened name, and every    *)
(* file has a line unless the listing was cut or is full; the built-in     *)
(* table stands for an empty or an unreadable volume only.                 *)
(***************************************************************************)
THEOREM ListingIsTrue == ListingSpec => []ListingShowsVolume
<1>1. ListInv => ListingShowsVolume
  BY DEF ListInv
<1> QED
  BY <1>1, ListAlways, PTL

(***************************************************************************)
(* TypeOK: files stay within their bound, a position within its file, and  *)
(* a file is open exactly while calls are made on it.                      *)
(***************************************************************************)
THEOREM FilesTypeCorrect == ListingSpec => []TypeOK
<1>1. CallsOK /\ HandleInv /\ FileInv /\ ListInv => TypeOK
  <2> SUFFICES ASSUME CallsOK, HandleInv, FileInv, ListInv PROVE TypeOK
    OBVIOUS
  <2>1. \A n \in DOMAIN volume : n \in Names /\ Len(volume[n]) <= MaxSize
    BY DEF FileInv, VolumeInv, Contents
  <2>2. /\ handles \subseteq {"root", "file"}
        /\ ("file" \in handles) = (pc \in FileCalls)
        /\ ("root" \in handles) = (pc \in {"open", "list_read"})
    BY DEF HandleInv, CallsOK, FileCalls
  <2>3. "file" \in handles => Exists /\ pos \in 0 .. Len(Bytes)
    BY <2>2 DEF FileInv, CommandInv
  <2>4. Len(entries) <= MaxEntries /\ ToSet(listed) \subseteq DOMAIN volume
    <3>1. CASE pc = "list_read"
      BY <3>1 DEF ListInv
    <3>2. CASE pc # "list_read"
      <4>1. DOMAIN listed = {}
        BY <3>2, EmptySeq, LenProperties DEF ListInv
      <4> QED
        BY <4>1 DEF ListInv, ToSet
    <3> QED
      BY <3>1, <3>2
  <2> QED
    BY <2>1, <2>2, <2>3, <2>4 DEF TypeOK, FileInv, RangesInv, ListInv, FileCalls
<1> QED
  BY <1>1, CallsCorrect, HandlesAlways, FilesAlways, ListAlways, PTL
=============================================================================
