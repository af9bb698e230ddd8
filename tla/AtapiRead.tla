----------------------------- MODULE AtapiRead ------------------------------
(***************************************************************************)
(* atapiRead of atapi.c against the drive and the interrupt handlers that  *)
(* run while it waits: irq15, whose drive() sets driveIRQ, and irq1, which *)
(* returns with al = 0x20 in the interrupted code (its pusha / popa pair   *)
(* ends before the mov that feeds the interrupt controller).  A port read  *)
(* and the use of the value it left in eax are therefore two steps.        *)
(*                                                                         *)
(* The drive is the environment: after a PACKET command it is busy, asks   *)
(* for the packet, is busy again, and then offers the sector, or a part of *)
(* it, and raises an interrupt; it raises another when the sector has been *)
(* taken.  While it is busy it shows BSY without DRQ.  A byte on the disc  *)
(* is named by its address.                                                *)
(***************************************************************************)
EXTENDS Integers

CONSTANTS
    Sector,             \* bytes in a sector (2048)
    MaxLba,             \* bound: sectors a request may start in
    Counts,             \* the counts requested
    Positions,          \* the file positions requested
    Bursts,             \* the amounts of a sector a drive may offer at once
    MayFail,            \* the drive may answer a command with an error
    Keyboard            \* irq1 may come

ASSUME AtapiAssumption ==
    /\ Sector \in Nat \ {0} /\ Sector % 2 = 0 /\ MaxLba \in Nat
    /\ Counts \subseteq Nat \ {0} /\ Positions \subseteq Nat
    /\ Bursts \subseteq {n \in 2 .. Sector : n % 2 = 0}
    /\ MayFail \in BOOLEAN /\ Keyboard \in BOOLEAN

VARIABLES
    \* atapiRead: its place, its request, its locals and its buffer
    pc, lba0, count, pos0, pos, lba, i, size, buf,
    ax,                 \* what the last port read left in eax
    driveIRQ,           \* the flag drive() sets
    \* the drive: phase, sector asked for, bytes of it left, interrupt request
    phase, sector, left, intrq,
    clobbered,          \* history: irq1 struck between a read and its use
    short               \* history: the drive offered less than a sector

vars == <<pc, lba0, count, pos0, pos, lba, i, size, buf, ax, driveIRQ,
          phase, sector, left, intrq, clobbered, short>>
request == <<lba0, count, pos0>>
history == <<clobbered, short>>
locals == <<pos, lba, i, size, buf>>
device == <<phase, sector, left, intrq>>

Clobber == -1           \* eax with 0x20 in its low byte
Ready == {"packet", "data", "idle", "error"}
DRQ == phase \in {"packet", "data"}
BSY == phase \notin Ready

Init ==
    /\ pc = "out" /\ lba0 = 0 /\ count = 0 /\ pos0 = 0
    /\ pos = 0 /\ lba = 0 /\ i = 0 /\ size = 0 /\ buf = <<>>
    /\ ax = 0 /\ driveIRQ = 0
    /\ phase = "idle" /\ sector = 0 /\ left = 0 /\ intrq = FALSE
    /\ clobbered = FALSE /\ short = FALSE

-----------------------------------------------------------------------------
(* The drive. *)
StartCommand == phase' = "busyPacket" /\ left' = 0 /\ UNCHANGED <<sector, intrq>>

DriveAsksPacket ==
    /\ phase = "busyPacket"
    /\ phase' = "packet"
    /\ UNCHANGED <<pc, request, locals, ax, driveIRQ, sector, left, intrq, history>>

DriveOffersData ==
    /\ phase = "busyRead"
    /\ left' \in Bursts
    /\ phase' = "data" /\ intrq' = TRUE
    /\ short' = (short \/ left' # Sector)
    /\ UNCHANGED <<pc, request, locals, ax, driveIRQ, sector, clobbered>>

DriveFails ==
    /\ MayFail /\ phase = "busyRead"
    /\ phase' = "error" /\ intrq' = TRUE
    /\ UNCHANGED <<pc, request, locals, ax, driveIRQ, sector, left, history>>

(* The word at the data port, and its removal. *)
DataWord == IF phase = "data" THEN sector * Sector + (Sector - left) ELSE Clobber
TakeWord ==
    IF phase = "data"
      THEN /\ left' = left - 2
           /\ phase' = IF left = 2 THEN "idle" ELSE "data"
           /\ intrq' = (intrq \/ left = 2)
           /\ UNCHANGED sector
      ELSE UNCHANGED device

-----------------------------------------------------------------------------
(* The interrupt handlers; the code under test runs with interrupts on. *)
drive ==
    /\ intrq
    /\ intrq' = FALSE
    /\ driveIRQ' = 1
    /\ UNCHANGED <<pc, request, locals, ax, phase, sector, left, history>>

(* Only a value that has not been used yet matters. *)
Uses == {"testBsy1", "testDrq1", "testBsy2", "testDrq2", "addSize", "store"}
irq1 ==
    /\ Keyboard /\ pc \in Uses
    /\ ax' = Clobber /\ clobbered' = TRUE
    /\ UNCHANGED <<pc, request, locals, driveIRQ, device, short>>

-----------------------------------------------------------------------------
(* atapiRead (lba, count, buf, pos), up to the PACKET command. *)
atapiRead(l, n, p) ==
    /\ pc = "out"
    /\ pc' = "readBsy1"
    /\ lba0' = l /\ count' = n /\ pos0' = p
    /\ pos' = p /\ lba' = l + p \div Sector
    /\ i' = 0 /\ size' = 0 /\ buf' = <<>>
    /\ driveIRQ' = 0
    /\ StartCommand
    /\ clobbered' = FALSE /\ short' = FALSE
    /\ UNCHANGED ax

(* while ((inb (currentBus+7) & 0x80) != 0) and the same for DRQ: read the *)
(* status, then test what is in al.  0x20 has neither bit.                 *)
StatusRead(at, next, bit) ==
    /\ pc = at
    /\ ax' = IF bit THEN 1 ELSE 0
    /\ pc' = next
    /\ UNCHANGED <<request, locals, driveIRQ, device, history>>

Mut_StatusTest(at, again, next, wanted) ==
    /\ pc = at
    /\ pc' = IF wanted THEN next ELSE again
    /\ driveIRQ' = IF wanted /\ next = "waitIrq" THEN 0 ELSE driveIRQ
    /\ UNCHANGED <<request, locals, ax, device, history>>
StatusTest(at, again, next, wanted) ==
    /\ pc = at
    /\ pc' = IF wanted THEN next ELSE again
    /\ UNCHANGED <<request, locals, ax, driveIRQ, device, history>>

waitBsy ==
    \/ StatusRead("readBsy1", "testBsy1", BSY)
    \/ StatusTest("testBsy1", "readBsy1", "readDrq1", ax # 1)
    \/ StatusRead("readBsy2", "testBsy2", BSY)
    \/ StatusTest("testBsy2", "readBsy2", "readDrq2", ax # 1)

Mut_waitDrq ==
    \/ StatusRead("readDrq1", "testDrq1", DRQ)
    \/ StatusTest("testDrq1", "readDrq1", "sendPacket", ax = 1)
    \/ StatusRead("readDrq2", "testDrq2", DRQ)
    \/ StatusTest("testDrq2", "readDrq2", IF i = 0 THEN "waitIrq" ELSE "readSize", TRUE)
waitDrq ==
    \/ StatusRead("readDrq1", "testDrq1", DRQ)
    \/ StatusTest("testDrq1", "readDrq1", "sendPacket", ax = 1)
    \/ StatusRead("readDrq2", "testDrq2", DRQ)
    \/ StatusTest("testDrq2", "readDrq2", IF i = 0 THEN "waitIrq" ELSE "readSize", ax = 1)

(* The six words of the READ (12) packet. *)
sendPacket ==
    /\ pc = "sendPacket"
    /\ pc' = "readBsy2"
    /\ IF phase = "packet"
         THEN phase' = "busyRead" /\ sector' = lba /\ UNCHANGED <<left, intrq>>
         ELSE UNCHANGED device
    /\ UNCHANGED <<request, locals, ax, driveIRQ, history>>

(* while (driveIRQ == 0) {}, for the first sector of a request only. *)
waitIrq ==
    /\ pc = "waitIrq"
    /\ pc' = IF driveIRQ = 0 THEN "waitIrq" ELSE "readSize"
    /\ UNCHANGED <<request, locals, ax, driveIRQ, device, history>>

readSize ==
    /\ pc = "readSize"
    /\ ax' = left
    /\ pc' = "addSize"
    /\ UNCHANGED <<request, locals, driveIRQ, device, history>>

(* A byte of the size replaced by 0x20 makes it larger. *)
addSize ==
    /\ pc = "addSize"
    /\ size' = size + (IF ax = Clobber THEN Sector + 2 ELSE ax)
    /\ pc' = "copy"
    /\ UNCHANGED <<request, pos, lba, i, buf, ax, driveIRQ, device, history>>

(* in = inw (currentBus), while i < count and i is not past the size. *)
readWord ==
    /\ pc = "copy" /\ i < count /\ i <= size
    /\ ax' = DataWord
    /\ TakeWord
    /\ pc' = "store"
    /\ UNCHANGED <<request, locals, driveIRQ, history>>

ShortReturn ==
    /\ pc = "copy" /\ i < count /\ i > size
    /\ pc' = "out"
    /\ UNCHANGED <<request, locals, ax, driveIRQ, device, history>>

Store(at, byte) == [k \in 0 .. at |-> IF k = at THEN byte ELSE buf[k]]
HighByte == IF ax = Clobber THEN Clobber ELSE ax + 1

(* The last byte of an odd count: the rest is read bytewise, which takes   *)
(* the data from the drive or not, depending on the drive.                 *)
StoreLastOdd ==
    /\ pc = "store" /\ i + 1 = count
    /\ buf' = Store(i, ax)
    /\ i' = IF i < size THEN size ELSE i
    /\ pc' = "out"
    /\ \/ UNCHANGED device
       \/ phase = "data" /\ phase' = "idle" /\ left' = 0 /\ intrq' = TRUE /\ UNCHANGED sector
    /\ UNCHANGED <<request, pos, lba, size, ax, driveIRQ, history>>

(* C's remainder: it has the sign of the dividend. *)
Rem(a, b) == IF a >= 0 THEN a % b ELSE -((-a) % b)
SectorDone(n) == Rem(n + Rem(pos, Sector), Sector) = 0 /\ n < count

Mut_StoreWord ==
    /\ pc = "store" /\ i + 1 # count
    /\ buf' = [k \in 0 .. i + 1 |->
                 IF k = i THEN ax ELSE IF k = i + 1 THEN HighByte ELSE buf[k]]
    /\ i' = i + 2
    /\ IF SectorDone(i + 2)
         THEN /\ pos' = -(i + 2) /\ lba' = lba
              /\ StartCommand
              /\ pc' = "readBsy1"
         ELSE /\ pc' = "copy"
              /\ UNCHANGED <<pos, lba, device>>
    /\ UNCHANGED <<request, size, ax, driveIRQ, history>>
StoreWord ==
    /\ pc = "store" /\ i + 1 # count
    /\ buf' = [k \in 0 .. i + 1 |->
                 IF k = i THEN ax ELSE IF k = i + 1 THEN HighByte ELSE buf[k]]
    /\ i' = i + 2
    /\ IF SectorDone(i + 2)
         THEN /\ pos' = -(i + 2) /\ lba' = lba + 1
              /\ StartCommand
              /\ pc' = "readBsy1"
         ELSE /\ pc' = "copy"
              /\ UNCHANGED <<pos, lba, device>>
    /\ UNCHANGED <<request, size, ax, driveIRQ, history>>

(* while (i < size) inw (currentBus): take what was not asked for. *)
Mut_drain ==
    /\ pc = "copy" /\ ~(i < count) /\ i < size
    /\ i' = size
    /\ UNCHANGED <<pc, request, pos, lba, size, buf, ax, driveIRQ, history, device>>
drain ==
    /\ pc = "copy" /\ ~(i < count) /\ i < size
    /\ TakeWord
    /\ i' = i + 2
    /\ UNCHANGED <<pc, request, pos, lba, size, buf, ax, driveIRQ, history>>

FullReturn ==
    /\ pc = "copy" /\ ~(i < count) /\ ~(i < size)
    /\ pc' = "out"
    /\ UNCHANGED <<request, locals, ax, driveIRQ, device, history>>

-----------------------------------------------------------------------------
readStep ==
    \/ waitBsy \/ waitDrq \/ sendPacket \/ waitIrq \/ readSize \/ addSize
    \/ readWord \/ ShortReturn \/ StoreLastOdd \/ StoreWord \/ drain \/ FullReturn

driveStep == DriveAsksPacket \/ DriveOffersData \/ DriveFails

Next ==
    \/ \E l \in 0 .. MaxLba, n \in Counts, p \in Positions : atapiRead(l, n, p)
    \/ readStep
    \/ driveStep
    \/ drive
    \/ irq1

(* The kernel thread runs, the drive answers every command and interrupts  *)
(* are delivered.  Nothing makes a key interrupt come; one that strikes a  *)
(* status loop makes it poll again, but it cannot strike every poll.       *)
DrqSeen == pc \in {"testDrq1", "testDrq2"} /\ ax = 1 /\ waitDrq
Spec ==
    /\ Init /\ [][Next]_vars
    /\ WF_vars(readStep) /\ WF_vars(driveStep) /\ WF_vars(drive)
    /\ SF_vars(DrqSeen)

-----------------------------------------------------------------------------
Aligned == pos0 % Sector = 0
Undisturbed == ~clobbered /\ ~short

(* A request that starts on a sector boundary returns the bytes of the     *)
(* disc in order, across as many sectors as it spans, wherever the drive's *)
(* interrupts fall.                                                        *)
ReturnsDiscBytes ==
    pc = "out" /\ Aligned /\ Undisturbed =>
        \A k \in 0 .. count - 1 : buf[k] = lba0 * Sector + pos0 + k

(* Such a request takes every byte it stores while the drive offers data,  *)
(* also when a key interrupt has cut a wait for BSY short: the wait for    *)
(* DRQ that follows is enough.                                             *)
WordsInDataPhase ==
    pc = "copy" /\ i < count /\ i <= size /\ Aligned /\ ~short => phase = "data" /\ left > 0

(* An even request on a sector boundary leaves the drive idle, with no     *)
(* data of this sector in the way of the next command.                     *)
LeavesDriveIdle ==
    pc = "out" /\ Aligned /\ count % 2 = 0 /\ ~short => phase = "idle"

(* A request returns unless the drive reports an error: driveIRQ is reset  *)
(* before the command is sent, so the interrupt it waits for is not lost.  *)
ReadReturns == pc # "out" ~> pc = "out" \/ phase = "error"

(* What atapi.c says of its first loops: they wait until BSY clears. *)
BsyClearAfterWait == pc \in {"readDrq1", "readDrq2"} => ~BSY

=============================================================================
