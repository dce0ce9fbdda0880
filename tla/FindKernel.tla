----------------------------- MODULE FindKernel -----------------------------
(***************************************************************************)
(* The search for kernel.elf: the loop over the volumes of                 *)
(* bootloader/source/main.c and the recursive search of file.c.  A volume  *)
(* is a directory, a directory a sequence of entries; a handle is the path *)
(* and the kind of what it was opened on.  One step per entry read.        *)
(*                                                                         *)
(* stage belongs to the whole bootloader: "halted" is the endless loop of  *)
(* errexit, "wild" a read or a call through a null pointer or a closed     *)
(* handle.                                                                 *)
(***************************************************************************)
EXTENDS Integers, FiniteSets, Sequences, SequencesExt

CONSTANTS Disks,        \* the disks the machine may have: sequences of volumes
          Directories   \* the volumes and the directories in them, at every depth

ASSUME DisksAssumption ==
    /\ Disks \subseteq Seq(Directories)
    /\ \A d \in Directories : Len(d) \in Nat /\ DOMAIN d = 1 .. Len(d)
    /\ \A d \in Directories : \A i \in DOMAIN d :
          d[i].kind # "file" => d[i].entries \in Directories

Name == "kernel.elf"
Dots == {".", ".."}

\* There is a file with the name in the directory or, however deep, below it.
HoldsKernel[d \in Directories] ==
    \E i \in 1 .. Len(d) :
        IF d[i].kind = "file" THEN d[i].name = Name
        ELSE d[i].name \notin Dots /\ HoldsKernel[d[i].entries]

\* The entry is such a file, or a directory with such a file below it.
Leads(e) ==
    IF e.kind = "file" THEN e.name = Name
    ELSE e.name \notin Dots /\ HoldsKernel[e.entries]

\* Directories are trees: none is below itself, so the recursion comes to an end.
ASSUME TreeAssumption ==
    \A d \in Directories : HoldsKernel[d] <=> \E i \in 1 .. Len(d) : Leads(d[i])

VARIABLES stage,        \* how far the bootloader has come
          disk,         \* the volumes, in the order of the handle buffer
          vol,          \* how many of them have been opened
          frames,       \* the activations of searchDirectoryRecursive
          out,          \* what the search of this volume has found
          kernelhandle, \* what the search of all volumes has found
          handles,      \* the open handles
          infos         \* the EFI_FILE_INFO buffers not freed

findVars == <<disk, vol, frames, out, kernelhandle, handles, infos>>

NoFile == [path |-> <<>>, image |-> "none"]

\* EFI_ERROR: a status is an error when it is negative.  A condition that holds is 1.
EFI_ERROR(status) == status < 0
AsStatus(condition) == IF condition THEN 1 ELSE 0

DirHandle(path) == [path |-> path, kind |-> "dir"]
FileHandle(path) == [path |-> path, kind |-> "file"]

Frame(path, entries) == [path |-> path, entries |-> entries, pos |-> 0]
Current == Last(frames)
AtEnd == Current.pos = Len(Current.entries)
Entry == Current.entries[Current.pos + 1]
EntryPath == Append(Current.path, Current.pos + 1)

\* Slip: the second Read, which moves on to the next entry, is left out.
SlipAdvanced == frames

Advanced == [frames EXCEPT ![Len(frames)].pos = @ + 1]

Searching == stage = "search" /\ frames # <<>>
IsFile == Entry.kind = "file"
BetweenVolumes == stage = "search" /\ frames = <<>> /\ vol < Len(disk)
Opens == Entry.name \notin Dots /\ (~IsFile \/ Entry.name = Name)

-----------------------------------------------------------------------------
FindInit ==
    /\ stage = "search"
    /\ disk \in Disks
    /\ vol = 0 /\ frames = <<>>
    /\ out = NoFile /\ kernelhandle = NoFile
    /\ handles = {} /\ infos = 0

OpenVolume ==
    /\ BetweenVolumes
    /\ vol' = vol + 1
    /\ out' = NoFile
    /\ frames' = <<Frame(<<vol'>>, disk[vol'])>>
    /\ handles' = handles \cup {DirHandle(<<vol'>>)}
    /\ UNCHANGED <<stage, disk, kernelhandle, infos>>

\* The buffer of the entry is not freed.
SkipDots ==
    /\ Searching /\ ~AtEnd /\ Entry.name \in Dots
    /\ frames' = Advanced
    /\ infos' = infos + 1
    /\ UNCHANGED <<stage, disk, vol, out, kernelhandle, handles>>

SkipFile ==
    /\ Searching /\ ~AtEnd /\ IsFile /\ Entry.name # Name
    /\ frames' = Advanced
    /\ UNCHANGED <<stage, disk, vol, out, kernelhandle, handles, infos>>

EnterDirectory ==
    /\ Searching /\ ~AtEnd /\ ~IsFile /\ Entry.name \notin Dots
    /\ frames' = Append(Advanced, Frame(EntryPath, Entry.entries))
    /\ handles' = handles \cup {DirHandle(EntryPath)}
    /\ infos' = infos + 1
    /\ UNCHANGED <<stage, disk, vol, out, kernelhandle>>

\* Slip: the handle of a nested directory is not closed.
SlipClosed(opened) == IF Len(frames) = 1 THEN opened \ {DirHandle(Current.path)} ELSE opened

\* The caller closes the directory: main the volume, the search one level up a
\* nested one.
Closed(opened) == opened \ {DirHandle(Current.path)}

\* Slip: a buffer is freed for the volume too, which has none.
SlipFreed == infos - 1

Freed == IF Len(frames) = 1 THEN infos ELSE infos - 1

\* Slip: a volume without the file undoes what an earlier one had.
SlipAfterVolume(found) == found

AfterVolume(found) == IF found = NoFile THEN kernelhandle ELSE found

\* The search of a directory ends.
Return(found, opened) ==
    /\ frames' = Front(frames)
    /\ out' = found
    /\ handles' = Closed(opened)
    /\ infos' = Freed
    /\ kernelhandle' = IF Len(frames) = 1 THEN AfterVolume(found) ELSE kernelhandle

FoundFile ==
    /\ Searching /\ ~AtEnd /\ IsFile /\ Entry.name = Name
    /\ Return([path |-> EntryPath, image |-> Entry.image],
              handles \cup {FileHandle(EntryPath)})
    /\ UNCHANGED <<stage, disk, vol>>

EndOfDirectory ==
    /\ Searching /\ AtEnd
    /\ Return(out, handles)
    /\ UNCHANGED <<stage, disk, vol>>

\* The firmware refuses to open a directory or the file.
OpenRefused ==
    /\ Searching /\ ~AtEnd /\ Opens
    /\ stage' = "halted"
    /\ UNCHANGED findVars

\* The firmware refuses the file system protocol of the next volume.
ProtocolRefused ==
    /\ BetweenVolumes /\ stage' = "halted"
    /\ UNCHANGED findVars

\* The firmware refuses to open the next volume, which is not checked.  rootdirhandle
\* is still the closed handle of the volume before, and is searched; or it is null,
\* for which findFile opens some volume, or halts when that is refused as well, and
\* main closes the null handle.
VolumeRefused ==
    /\ BetweenVolumes
    /\ \/ stage' = "wild"
       \/ vol = 0 /\ stage' = "halted"
    /\ UNCHANGED findVars

\* The status that is checked is 1 when there is no kernel.
SearchOver ==
    /\ stage = "search" /\ frames = <<>> /\ vol = Len(disk)
    /\ stage' = IF EFI_ERROR(AsStatus(kernelhandle = NoFile)) THEN "halted" ELSE "screen"
    /\ UNCHANGED findVars

FindNext ==
    \/ OpenVolume \/ SkipDots \/ SkipFile \/ EnterDirectory
    \/ FoundFile \/ EndOfDirectory \/ SearchOver
    \/ OpenRefused \/ ProtocolRefused \/ VolumeRefused

-----------------------------------------------------------------------------
(* Properties.                                                             *)

\* The search is over, nothing was refused and no null pointer was followed.
Searched == stage \notin {"search", "halted", "wild"}

\* Of these volumes, the last that holds a file with the name has given the kernel.
FoundIn(volumes) ==
    LET holding == {v \in volumes : HoldsKernel[disk[v]]}
    IN  IF holding = {} THEN kernelhandle = NoFile
        ELSE /\ kernelhandle.path # <<>> /\ kernelhandle.path[1] \in holding
             /\ \A v \in holding : v <= kernelhandle.path[1]

\* However deep the file lies and whatever is read before and after it, a search
\* that comes to its end has a kernel exactly when some volume holds one, and it is
\* the one of the last such volume.
FindsTheKernel == Searched => FoundIn(1 .. Len(disk))

\* Every directory that the search opened, on the way down and on the way back
\* from a find, is closed when it is over: only files stay open.
DirectoriesClosed == Searched => \A h \in handles : h.kind = "file"

\* A search that comes to the end of all volumes ends with the kernel's file, if there
\* is one, and with no directory open.
SearchFinds == FindsTheKernel /\ DirectoriesClosed

\* "if we found our file, return a handle to it" (file.c): a single handle is
\* left open.
OneHandleLeft == Searched => Cardinality(handles) <= 1

\* Every buffer that an entry was read into is freed.
BuffersFreed == Searched => infos = 0

\* "Couldn't find the kernel to be loaded" (main.c): without a kernel the
\* bootloader stops there.
MissingKernelStops == Searched => kernelhandle # NoFile
=============================================================================
