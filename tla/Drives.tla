------------------------------- MODULE Drives -------------------------------
(***************************************************************************)
(* The parts of atapi.c around atapiRead: atapiInit, which identifies the  *)
(* devices at the four positions of the two buses and registers the ATAPI  *)
(* ones as file systems, and findFile, which looks a path up on the disc.  *)
(*                                                                         *)
(* A disc is an ISO 9660 volume: its size, the extent of its root          *)
(* directory as the volume descriptor has it, and what its sectors read    *)
(* as, taken for parts of directories: records with the sector they lie    *)
(* in, a name, the extent they point to and whether they are files.  A     *)
(* sector has one record of a name.  The names of files, and only they,    *)
(* have a dot, and end in ";1", which findFile adds and the module leaves  *)
(* out.  Extents are a first sector (root, lba) and a number of sectors.   *)
(***************************************************************************)
EXTENDS Naturals, Sequences

CONSTANTS
    Machines,           \* the devices: functions from position to kind
    Discs,              \* the disc at each position: size, root, sectors, entries
    Dotted              \* the names with a dot

Position == 0 .. 3      \* 0x1F0 and 0x170, master and slave
Kinds == {"none", "atapi", "pata", "sata", "other", "floating"}
NotFound == 0           \* findFile's -1

ASSUME DrivesAssumption ==
    /\ Machines \subseteq [Position -> Kinds]
    /\ \A p \in Position : Discs[p].size \in Nat /\ Discs[p].root \in 0 .. Discs[p].size - 1
    /\ \A p \in Position : \A e \in Discs[p].entries :
         /\ e.file = (e.name \in Dotted) /\ e.lba \in 1 .. Discs[p].size - 1
         /\ \A f \in Discs[p].entries : e.dir = f.dir /\ e.name = f.name => e = f

VARIABLES
    devices,            \* the machine, fixed
    drives,             \* what atapiInit found (the array has three elements, and its
                        \* fourth lies in the padding behind it)
    step,               \* probes, then registrations, done so far
    k                   \* the index of the next element of drives

driveVars == <<devices, drives, step, k>>

DrivesInit ==
    /\ devices \in Machines
    /\ drives = [p \in Position |-> "none"]
    /\ step = 0 /\ k = 0

-----------------------------------------------------------------------------
(* One round of the probing loop.  The status of a position without a      *)
(* controller never shows BSY clear, and a device whose signature is not   *)
(* known leaves its element alone.                                         *)
Mut_identify ==
    /\ step < 4 /\ devices[step] # "floating"
    /\ drives' = IF devices[step] = "other" THEN drives ELSE [drives EXCEPT ![k] = devices[step]]
    /\ k' = IF devices[step] = "none" THEN k ELSE k + 1
    /\ step' = step + 1
    /\ UNCHANGED devices
identify ==
    /\ step < 4 /\ devices[step] # "floating"
    /\ drives' = IF devices[step] = "other" THEN drives ELSE [drives EXCEPT ![k] = devices[step]]
    /\ k' = k + 1
    /\ step' = step + 1
    /\ UNCHANGED devices

(* The second loop's round for position step - 4, which registers or skips *)
(* it.  The answer to IDENTIFY PACKET DEVICE is only printed.              *)
Registers == drives[step - 4] = "atapi"
identifyPacket ==
    /\ step \in 4 .. 7
    /\ step' = step + 1
    /\ UNCHANGED <<devices, drives, k>>

atapiInitDone == step = 8

(* The drive that atapiRead uses, whatever file system it is called for.   *)
ReadDrive == CHOOSE p \in Position : drives[p] = "atapi" /\ \A q \in Position : drives[q] = "atapi" => q <= p

(* The root directory as findFile takes it from the volume descriptor,     *)
(* where its sector stands at byte 158 with the low byte first and at byte *)
(* 162 with the high byte first: bytes 158, 160, 162 and 164 are the       *)
(* first, third, fourth and second byte of it.                             *)
Byte(lba, unit) == (lba \div unit) % 256
rootOf(disc) ==
    Byte(disc.root, 1) + 256 * Byte(disc.root, 65536)
        + 65536 * Byte(disc.root, 16777216) + 16777216 * Byte(disc.root, 256)

(* The records of a directory's first sector, the only one read, that      *)
(* match a name; comparing a name stops at the first character that        *)
(* differs.                                                                *)
Mut_Matches(disc, dir, name, file) == {e \in disc.entries : e.dir = dir /\ e.file = file}
Matches(disc, dir, name, file) == {e \in disc.entries : e.dir = dir /\ e.name = name /\ e.file = file}

(* findFile (path), on a disc that has the sector taken for the root: a    *)
(* name that is not in the directory is passed over.  The local file       *)
(* starts with what the stack holds and is never reset; it says whether a  *)
(* file is looked for.                                                     *)
findFile(disc, path, file) ==
    LET walk[n \in 0 .. Len(path)] ==
          IF n = 0 THEN [dir |-> rootOf(disc), file |-> file, lba |-> NotFound]
          ELSE LET w == walk[n - 1]
                   f == w.file \/ path[n] \in Dotted
                   hits == Matches(disc, w.dir, path[n], f)
                   hit == CHOOSE e \in hits : TRUE
               IN  IF w.lba # NotFound \/ hits = {} THEN [w EXCEPT !.file = f]
                   ELSE IF f THEN [w EXCEPT !.lba = hit.lba]
                   ELSE [w EXCEPT !.dir = hit.lba]
    IN  walk[Len(path)].lba

-----------------------------------------------------------------------------
(* Records that lead from the root of the disc along a path to a file, in  *)
(* any sector of the directories between.                                  *)
Within(lba, sectors) == lba .. lba + sectors - 1
Leads(disc, path, at) ==
    /\ path # <<>> /\ at[1].dir \in Within(disc.root, disc.sectors) /\ at[Len(path)].file
    /\ \A n \in DOMAIN path : at[n].name = path[n]
    /\ \A n \in 1 .. Len(path) - 1 :
         ~at[n].file /\ at[n + 1].dir \in Within(at[n].lba, at[n].sectors)

(* The root's low byte is all of its sector, and every record lies in the  *)
(* first sector of its directory.                                          *)
Simple(disc, path, at) ==
    /\ disc.root < 256 /\ at[1].dir = disc.root
    /\ \A n \in 1 .. Len(path) - 1 : at[n + 1].dir = at[n].lba

=============================================================================
