-------------------------------- MODULE Vfs ---------------------------------
(***************************************************************************)
(* The virtual file system of vfs.c over the RAM file system and the       *)
(* drives: the list of mounted file systems, the list of open files, open, *)
(* read and seek.  A descriptor is a position in the list of files,        *)
(* rootFile being position 0.  The only caller of registerFS is atapiInit, *)
(* and every drive is mounted at "/BOOT".                                  *)
(*                                                                         *)
(* The calls of initramfs come before atapiInit in the kernel.  They touch *)
(* nothing that atapiInit does, and the module lets them come after it, so *)
(* that directories also change while files are open.                      *)
(***************************************************************************)
EXTENDS Ramfs, Drives

CONSTANTS
    Filenames,          \* paths given to open
    Positions,          \* arguments of seek
    MaxFiles            \* bound: open files

Boot == <<"BOOT">>

ASSUME VfsAssumption ==
    /\ Filenames \subseteq Seq(STRING)
    /\ 0 \in Positions
    /\ MaxFiles \in Nat

VARIABLES
    mounts,             \* the file systems behind rootFS: mountpoint and drive
    files,              \* the open files: file system (0: rootFS), fileNum, pos
                        \* and, as history, the path and findFile's file at its start
    sought              \* history: the latest seek through each descriptor

vars == <<ramfsVars, driveVars, mounts, files, sought>>

Bytes == "bytes"        \* bytes that are no file's contents

Init ==
    /\ RamfsInit /\ DrivesInit
    /\ mounts = <<>> /\ files = <<>>
    /\ sought = <<>>

-----------------------------------------------------------------------------
registerFS(fs) == Append(mounts, fs)

atapiInit ==
    /\ \/ identify /\ UNCHANGED mounts
       \/ /\ identifyPacket
          /\ mounts' = IF Registers THEN registerFS([mountpoint |-> Boot, drive |-> step - 4]) ELSE mounts
    /\ UNCHANGED <<ramfsVars, files, sought>>

(* The search of open: cut the name at its last slash, compare with each   *)
(* mountpoint in turn, and again at the slash before.  rootFS is 0.        *)
Mut_mountOf(path, longest) ==
    LET InMounts(n) == {m \in DOMAIN mounts : mounts[m].mountpoint = SubSeq(path, 1, n)}
        at[n \in 0 .. Len(path)] ==
          IF n = 0 THEN 0
          ELSE IF InMounts(n) = {} THEN at[n - 1]
          ELSE CHOOSE m \in InMounts(n) : \A o \in InMounts(n) : o <= m
    IN  at[longest]
mountOf(path, longest) ==
    LET InMounts(n) == {m \in DOMAIN mounts : mounts[m].mountpoint = SubSeq(path, 1, n)}
        at[n \in 0 .. Len(path)] ==
          IF n = 0 THEN 0
          ELSE IF InMounts(n) = {} THEN at[n - 1]
          ELSE CHOOSE m \in InMounts(n) : \A o \in InMounts(n) : m <= o
    IN  at[longest]

Opened(path, fs, num, stray) ==
    /\ files' = Append(files, [fs |-> fs, fileNum |-> num, pos |-> 0, path |-> path, stray |-> stray])
    /\ sought' = Append(sought, 0)

(* The copy of the name is not terminated: if a slash happens to follow it *)
(* on the stack, the whole name is compared as well.  The first file       *)
(* system compared is the one behind rootFS, whether there is one or not;  *)
(* findDir reads the name of the entry at -1 before it gives up.  The      *)
(* drive does not transfer a sector that the disc does not have, and       *)
(* atapiRead waits for it for ever.                                        *)
open(path) ==
    /\ failed = "none" /\ atapiInitDone /\ Len(files) < MaxFiles
    /\ UNCHANGED <<entries, driveVars, mounts>>
    /\ \E longest \in {Len(path) - 1, Len(path)} \cap Nat :
        \/ /\ longest > 0 /\ mounts = <<>>
           /\ failed' = "open" /\ UNCHANGED <<files, sought>>
        \/ /\ mountOf(path, longest) # 0 /\ rootOf(Discs[ReadDrive]) >= Discs[ReadDrive].size
           /\ failed' = "atapiRead" /\ UNCHANGED <<files, sought>>
        \/ /\ mountOf(path, longest) # 0 /\ rootOf(Discs[ReadDrive]) < Discs[ReadDrive].size
           /\ \E file \in BOOLEAN :
                Opened(path, mountOf(path, longest), findFile(Discs[ReadDrive], path, file), file)
           /\ UNCHANGED failed
        \/ /\ mountOf(path, longest) = 0
           /\ Opened(path, 0, findDir(path), FALSE) /\ UNCHANGED failed
        \/ /\ mountOf(path, longest) = 0 /\ findDir(path) = None
           /\ failed' = "findDir" /\ UNCHANGED <<files, sought>>

(* fsRead of the file's file system: atapiRead or readFS, which copies     *)
(* from the entry's extent.  The extent of a directory is an entry, that   *)
(* of the entry at -1 whatever lies at address 3.                          *)
fsRead(f) ==
    CASE f.fs # 0 -> [drive |-> ReadDrive, lba |-> f.fileNum]
      [] f.fs = 0 /\ IsFile(f.fileNum) -> entries[f.fileNum].data
      [] OTHER -> Bytes

(* The file read comes to: it finds file 1 for descriptor 0 too. *)
Mut_fileOf(fd) == IF fd = 0 THEN 1 ELSE fd + 1
fileOf(fd) == IF fd = 0 THEN 1 ELSE fd

readResult(fd) == [data |-> fsRead(files[fileOf(fd)]), pos |-> files[fileOf(fd)].pos]

(* read changes nothing, the position included.  It walks past the end of  *)
(* the list for a descriptor that was never opened, readFS reads the       *)
(* extent of the entry at -1, and a drive has no sector -1.                *)
read(fd) ==
    /\ failed = "none" /\ files # <<>>
    /\ fileOf(fd) <= Len(files) => files[fileOf(fd)].fileNum \in {None, NotFound}
    /\ failed' = "read"
    /\ UNCHANGED <<entries, driveVars, mounts, files, sought>>

(* seek through descriptor 0 is lost in rootFile; one that was never       *)
(* opened is a write through a bad pointer.                                *)
seek(fd, pos) ==
    /\ failed = "none"
    /\ UNCHANGED <<entries, driveVars, mounts>>
    /\ \/ /\ fd \in DOMAIN files
          /\ files' = [files EXCEPT ![fd].pos = pos]
          /\ sought' = [sought EXCEPT ![fd] = pos]
          /\ UNCHANGED failed
       \/ /\ fd > Len(files)
          /\ failed' = "seek" /\ UNCHANGED <<files, sought>>

Next ==
    \/ atapiInit
    \/ atapiInitDone /\ RamfsNext /\ UNCHANGED <<driveVars, mounts, files, sought>>
    \/ \E path \in Filenames : open(path)
    \/ \E fd \in 0 .. MaxFiles : read(fd) \/ \E pos \in Positions : seek(fd, pos)

Spec == Init /\ [][Next]_vars

-----------------------------------------------------------------------------
(* Every ATAPI device is registered once, at its own bus and position, in  *)
(* the order of the positions, whatever is found at the others.            *)
DrivesMounted ==
    atapiInitDone =>
        /\ {mounts[m].drive : m \in DOMAIN mounts} = {p \in Position : devices[p] = "atapi"}
        /\ \A m, o \in DOMAIN mounts : m < o => mounts[m].drive < mounts[o].drive

(* A name below "/BOOT" is opened on the first drive registered and any    *)
(* other in the root file system, if there is a drive; only "/BOOT" itself *)
(* may go either way.                                                      *)
BootIsFirstDrive ==
    \A fd \in DOMAIN files :
        /\ files[fd].fs # 0 =>
             files[fd].path[1] = "BOOT" /\ \A p \in Position : devices[p] = "atapi" =>
                                            mounts[files[fd].fs].drive <= p
        /\ files[fd].fs = 0 /\ Len(files[fd].path) > 1 /\ mounts # <<>> => files[fd].path[1] # "BOOT"

(* The file that findFile returns is the one the path leads to on the disc *)
(* that atapiRead will read, if there is one, its local started with       *)
(* anything but 1, the root is below sector 256 and the records on the way *)
(* are in the first sectors of their directories; and never one of another *)
(* name than the path holds.                                               *)
FindsNamedFile ==
    \A fd \in DOMAIN files : files[fd].fs # 0 =>
        LET f == files[fd]
            disc == Discs[ReadDrive]
        IN  /\ \A at \in [DOMAIN f.path -> disc.entries] :
                 Leads(disc, f.path, at) /\ Simple(disc, f.path, at) /\ ~f.stray =>
                   f.fileNum = at[Len(f.path)].lba
            /\ f.fileNum # NotFound =>
                 \E e \in disc.entries, n \in DOMAIN f.path :
                   e.file /\ e.lba = f.fileNum /\ e.name = f.path[n]

(* A read through a descriptor returns what was last written to the file   *)
(* its path names, starting where the latest seek through that descriptor  *)
(* went, whatever is opened, created and sought through the others.        *)
ReadsOwnFile ==
    \A fd \in DOMAIN files :
        /\ fileOf(fd) \in DOMAIN files
        /\ readResult(fd).pos = sought[fd]
        /\ files[fd].fs = 0 /\ IsFile(files[fd].fileNum) =>
             readResult(fd).data = entries[findDir(files[fd].path)].data

=============================================================================
