------------------------------- MODULE Paging -------------------------------
(***************************************************************************)
(* The address spaces of paging.c: the boot code that builds the kernel's  *)
(* page directory (generatePageTable, startPaging, moveStack), mapPage and *)
(* clonePageDirectory.  Loader adds exec and sbrk, which map a program.    *)
(*                                                                         *)
(* The kernel edits directories, tables and pages at their physical        *)
(* address, through the identity mapping of the first IdLimit frames,      *)
(* which mapPage takes away from a frame it maps elsewhere.  An access     *)
(* without a mapping is a page fault, and the fault handler never returns. *)
(* A virtual page is a directory index and a slot in the table found       *)
(* there.                                                                  *)
(***************************************************************************)
EXTENDS BootMap, FiniteSetsExt

CONSTANTS
    IdLimit,            \* frames identity mapped at boot (512)
    UnmapLimit          \* mapPage unmaps frames below it (0x1F4: 500)

None == NumFrames       \* a table entry that is not present

ASSUME PagingAssumption ==
    /\ IdLimit \in Frames /\ UnmapLimit \in 0 .. IdLimit
    /\ UnmapLimit .. IdLimit - 1 \subseteq ReservedFrames

(* Nothing in the boot code checks that it finds the first directory and   *)
(* the first table below IdLimit.  Every PC has free memory there: the     *)
(* first 64 KB are left alone.                                             *)
ASSUME BootRoomAssumption ==
    \A m \in Machines :
        Survives(m) => Cardinality((0 .. IdLimit - 1) \ BootMarks(m)) >= 2

(* Directory indices: the identity mapped area, programs (0x00400000), the *)
(* input buffer (0xD0000000) and the stack (0xE0000000).                   *)
Identity == 0
Program == 1
InputBuf == 2
Stack == 3
DirIndex == 0 .. 3

VARIABLES
    machine,            \* the memory and the memory map of the machine, fixed
    used,               \* frames marked in pageBitmap
    dirs,               \* the directories: frame -> index -> table or 0
    tables,             \* the tables: frame -> slot -> frame or None
    pageDirectory,      \* the kernel's directory, 0 before it exists
    cr3,                \* the current directory, 0 while paging is off
    pc,                 \* what runs next
    phys,               \* the frame allocPage returned to the code at pc
    fault               \* the operation that faulted, or "none"

pagingVars == <<machine, used, dirs, tables, pageDirectory, cr3, pc, phys, fault>>

(* startPaging up to generatePageTable's first allocPage.  Memory that is  *)
(* overwritten, behind pageBitmap or all of it, is the end of the model.   *)
PagingInit ==
    /\ machine \in Machines
    /\ used = IF Survives(machine) THEN BootMarks(machine) ELSE {}
    /\ pc = IF Survives(machine) THEN "boot" ELSE "destroyed"
    /\ dirs = <<>> /\ tables = <<>>
    /\ pageDirectory = 0 /\ cr3 = 0
    /\ phys = 0 /\ fault = "none"

-----------------------------------------------------------------------------
Mut_LowestFree(U) == Max(Frames \ U)
LowestFree(U) == Min(Frames \ U)

(* A frame can be reached at its physical address. *)
Reachable(f) ==
    cr3 = 0 \/ (dirs[cr3][Identity] # 0 /\ tables[dirs[cr3][Identity]][f] = f)

Fault(op) ==
    /\ pc' = "fault" /\ fault' = op
    /\ UNCHANGED <<machine, dirs, tables, pageDirectory, cr3, phys>>

(* The code at one place calls allocPage, which clears the new frame, and  *)
(* goes on at the next.                                                    *)
allocPage(at, next) ==
    LET f == LowestFree(used)
    IN  /\ pc = at
        /\ used # Frames
        /\ used' = used \union {f}
        /\ IF Reachable(f)
             THEN /\ phys' = f /\ pc' = next
                  /\ UNCHANGED <<machine, dirs, tables, pageDirectory, cr3, fault>>
             ELSE Fault("allocPage")

-----------------------------------------------------------------------------
EmptyTable == [s \in Frames |-> None]
EmptyDir == [d \in DirIndex |-> 0]

(* Write a table entry, then take away the frame's identity mapping.       *)
Mut_Entered(tabs, dir, t, slot, f) == [tabs EXCEPT ![t][slot] = f]
Entered(tabs, dir, t, slot, f) ==
    LET new == [tabs EXCEPT ![t][slot] = f]
        id == dir[Identity]
    IN  IF f < UnmapLimit /\ new[id][f] = f
          THEN [new EXCEPT ![id][f] = None]
          ELSE new

(* mapPage (pageDir, phys, virtual page), with a new table when the        *)
(* directory has none there.                                               *)
mapPage(at, next, d, index, slot) ==
    LET fresh == dirs[d][index] = 0
        t == IF fresh THEN LowestFree(used) ELSE dirs[d][index]
        tabs == IF fresh THEN [x \in DOMAIN tables \union {t} |->
                                 IF x = t THEN EmptyTable ELSE tables[x]]
                ELSE tables
        dir == [dirs[d] EXCEPT ![index] = t]
    IN  /\ pc = at
        /\ fresh => used # Frames
        /\ used' = IF fresh THEN used \union {t} ELSE used
        /\ IF Reachable(d) /\ Reachable(t)
             THEN /\ dirs' = [dirs EXCEPT ![d] = dir]
                  /\ tables' = Entered(tabs, dir, t, slot, phys)
                  /\ pc' = next
                  /\ UNCHANGED <<machine, pageDirectory, cr3, phys, fault>>
             ELSE Fault(IF fresh /\ Reachable(d) THEN "allocPage" ELSE "mapPage")

-----------------------------------------------------------------------------
(* generatePageTable with initHeap, and enablePaging: the first frames are *)
(* the directory, the identity table and the first heap page.              *)
generatePageTable ==
    LET d == LowestFree(used)
        t == LowestFree(used \union {d})
        h == LowestFree(used \union {d, t})
    IN  /\ pc = "boot"
        /\ Cardinality(Frames \ used) >= 3
        /\ used' = used \union {d, t, h}
        /\ dirs' = [x \in {d} |-> [EmptyDir EXCEPT ![Identity] = t]]
        /\ tables' = [x \in {t} |-> [s \in Frames |-> IF s < IdLimit THEN s ELSE None]]
        /\ pageDirectory' = d /\ cr3' = d
        /\ pc' = "inputBuf"
        /\ UNCHANGED <<machine, phys, fault>>

(* startPaging gives the input buffer a page, then moveStack the stack. *)
startPaging ==
    \/ allocPage("inputBuf", "mapInputBuf")
    \/ mapPage("mapInputBuf", "stack", pageDirectory, InputBuf, 0)

moveStack ==
    \/ allocPage("stack", "mapStack")
    \/ mapPage("mapStack", "run", pageDirectory, Stack, 0)

(* clonePageDirectory (currentTask->pageDir), called by fork. *)
Mut_cloneLink ==
    /\ pc = "clone"
    /\ dirs' = [x \in DOMAIN dirs \union {phys} |->
                  IF x # phys THEN dirs[x]
                  ELSE [i \in DirIndex |->
                          IF i \in {Identity, Stack} \/ dirs[pageDirectory][i] # dirs[cr3][i] THEN 0
                          ELSE dirs[cr3][i]]]
    /\ pc' = "cloneStack"
    /\ UNCHANGED <<machine, used, tables, pageDirectory, cr3, phys, fault>>
cloneLink ==
    /\ pc = "clone"
    /\ dirs' = [x \in DOMAIN dirs \union {phys} |->
                  IF x # phys THEN dirs[x]
                  ELSE [i \in DirIndex |->
                          IF i = Stack \/ dirs[pageDirectory][i] # dirs[cr3][i] THEN 0
                          ELSE dirs[cr3][i]]]
    /\ pc' = "cloneStack"
    /\ UNCHANGED <<machine, used, tables, pageDirectory, cr3, phys, fault>>

(* kmemcpy of the stack from its physical address.  The mapPage that       *)
(* follows in the code is reached only if that address is mapped, which    *)
(* OneMapping rules out: the frame is mapped at the stack's own page.      *)
StackFrame == tables[dirs[cr3][Stack]][0]
cloneCopyStack ==
    /\ pc = "cloneCopy"
    /\ IF Reachable(dirs[cr3][Stack]) /\ Reachable(StackFrame)
         THEN pc' = "cloneMap" /\ UNCHANGED <<machine, used, dirs, tables, pageDirectory, cr3, phys, fault>>
         ELSE Fault("clone") /\ UNCHANGED used

clonePageDirectory ==
    \/ allocPage("run", "clone")
    \/ cloneLink
    \/ allocPage("cloneStack", "cloneCopy")
    \/ cloneCopyStack

-----------------------------------------------------------------------------
(* Whichever directory is current, the kernel reaches every directory and  *)
(* every table at its physical address.                                    *)
TablesReachable ==
    \A d \in DOMAIN dirs :
        /\ dirs[d][Identity] # 0
        /\ \A f \in DOMAIN dirs \union DOMAIN tables :
             tables[dirs[d][Identity]][f] = f

=============================================================================
