------------------------------- MODULE Loader -------------------------------
(***************************************************************************)
(* exec of elf.c over the address spaces of Paging: loadELF reads the      *)
(* headers, maps a page for every page up to the end of the highest        *)
(* segment, reads the file twice to the address of the first segment and   *)
(* fills the padding between the first two; what is not ELF is mapped as   *)
(* one page and copied by loadBin.  Afterwards the program runs, and its   *)
(* system calls take heap pages (open) and call sbrk.                      *)
(*                                                                         *)
(* Addresses are relative to 0x00400000.  A byte of the program area is    *)
(* the position in the file that it was read from, or Zero.                *)
(***************************************************************************)
EXTENDS Paging

CONSTANTS
    ProgramPages,       \* bound: pages of the program area that are used
    AllocPageFrame,     \* the frame that holds the code of allocPage
    Images              \* the files exec is called with

Area == 0 .. ProgramPages * PageSize - 1
Zero == ProgramPages * PageSize

(* An ELF file has two program headers; the headers loadELF indexes beyond *)
(* them and files with fewer are left out.                                 *)
ASSUME LoaderAssumption ==
    /\ ProgramPages \in 1 .. NumFrames
    /\ AllocPageFrame \in ReservedFrames /\ AllocPageFrame < UnmapLimit
    /\ \A im \in Images : im.elf =>
         \A k \in {1, 2} : /\ im.ph[k].vaddr \in Nat /\ im.ph[k].memsz \in Nat \ {0}
                           /\ im.ph[k].vaddr + im.ph[k].memsz \in Area
                           /\ im.ph[k].filesz \in 0 .. im.ph[k].memsz

VARIABLES
    image,              \* the file exec loads
    slot,               \* loadELF's i: the next page to map
    cells,              \* the bytes of the program area
    end                 \* what system call 19 returns

loaderVars == <<image, slot, cells, end>>
vars == <<pagingVars, loaderVars>>

Init ==
    /\ PagingInit
    /\ image \in Images
    /\ slot = 0
    /\ cells = [v \in Area |-> Zero]
    /\ end = 0

-----------------------------------------------------------------------------
Goto(at, next) ==
    /\ pc = at /\ pc' = next
    /\ UNCHANGED <<machine, used, dirs, tables, pageDirectory, cr3, phys, fault>>

(* kmalloc takes a page for the heap. *)
heapPage(at) == allocPage(at, at) /\ UNCHANGED loaderVars

(* mapTaskPage (getpid (), allocPage (), virtual page i).  The current     *)
(* directory is the kernel's.                                              *)
mapTaskPage(at, mapping, next) ==
    \/ allocPage(at, mapping) /\ UNCHANGED loaderVars
    \/ /\ mapPage(mapping, next, cr3, Program, slot)
       /\ slot' = slot + 1
       /\ UNCHANGED <<image, cells, end>>

Mapped(v) ==
    /\ v \in Area
    /\ dirs[cr3][Program] # 0
    /\ tables[dirs[cr3][Program]][v \div PageSize] # None

-----------------------------------------------------------------------------
(* The header with the highest address, the first of equals, decides how   *)
(* many pages are mapped.                                                  *)
highestHeader == IF image.ph[2].vaddr > image.ph[1].vaddr THEN image.ph[2] ELSE image.ph[1]
Mut_ProgramLen == (highestHeader.vaddr + highestHeader.memsz) \div PageSize
ProgramLen == (highestHeader.vaddr + highestHeader.memsz + PageSize - 1) \div PageSize

(* open, read and the kmallocs of the headers; then the magic decides. *)
loadHeaders ==
    \/ Goto("run", "headers") /\ UNCHANGED loaderVars
    \/ heapPage("headers")
    \/ Goto("headers", IF image.elf THEN "pages" ELSE "bin") /\ UNCHANGED loaderVars

loadPages ==
    /\ pc \in {"pages", "mapPages"}
    /\ \/ slot < ProgramLen /\ mapTaskPage("pages", "mapPages", "pages")
       \/ slot = ProgramLen /\ Goto("pages", "text") /\ UNCHANGED loaderVars

(* Both reads of the first segment: they are the same, because the calls   *)
(* of seek between them are commented out.                                 *)
readText ==
    LET text == image.ph[1]
        range == text.vaddr .. text.vaddr + text.filesz - 1
    IN  /\ pc = "text"
        /\ IF \A v \in range : Mapped(v)
             THEN /\ Goto("text", "padding")
                  /\ cells' = [v \in Area |-> IF v \in range THEN v - text.vaddr ELSE cells[v]]
             ELSE Fault("load") /\ UNCHANGED <<used, cells>>
        /\ UNCHANGED <<image, slot, end>>

(* kmemcpy (to, from, n) where both ranges are mapped and do not overlap;  *)
(* a count of 0 or below stands for one of about 2^32, which faults.       *)
CanCopy(to, from, n) == n > 0 /\ \A k \in 0 .. n - 1 : Mapped(to + k) /\ Mapped(from + k)
Copied(c, to, from, n) == [v \in Area |-> IF v \in to .. to + n - 1 THEN c[v - to + from] ELSE c[v]]

fillPadding ==
    LET text == image.ph[1]
        data == image.ph[2]
        pageLine == data.vaddr - (data.vaddr % PageSize)
        dataPadLen == pageLine - (text.vaddr + text.memsz)
        textPadLen == data.vaddr - pageLine
        first == Copied(cells, pageLine - dataPadLen, pageLine + textPadLen, dataPadLen)
        from == pageLine - dataPadLen - textPadLen
    IN  /\ pc = "padding"
        /\ IF /\ CanCopy(pageLine - dataPadLen, pageLine + textPadLen, dataPadLen)
              /\ textPadLen > 0 => CanCopy(pageLine, from, textPadLen)
             THEN /\ Goto("padding", "program")
                  /\ cells' = IF textPadLen > 0 THEN Copied(first, pageLine, from, textPadLen) ELSE first
                  /\ end' = data.vaddr + data.memsz
             ELSE Fault("load") /\ UNCHANGED <<used, cells, end>>
        /\ UNCHANGED <<image, slot>>

(* exec's other branch: one page, then loadBin, which opens the file,      *)
(* takes a buffer of half a page and copies it.                            *)
loadBin ==
    \/ slot = 0 /\ mapTaskPage("bin", "mapBin", "readBin")
    \/ heapPage("readBin")
    \/ /\ Goto("readBin", "program")
       /\ cells' = [v \in Area |-> IF v < PageSize \div 2 THEN v ELSE cells[v]]
       /\ UNCHANGED <<image, slot, end>>

(* System call 6 maps the frame of the function allocPage instead of one   *)
(* that it returns.  The address is not a page's, so the test for an       *)
(* identity mapping fails.  The program asks for a page behind its own.    *)
sbrk ==
    /\ pc = "program"
    /\ slot < ProgramPages
    /\ tables' = [tables EXCEPT ![dirs[cr3][Program]][slot] = AllocPageFrame]
    /\ slot' = slot + 1
    /\ UNCHANGED <<machine, used, dirs, pageDirectory, cr3, pc, phys, fault, image, cells, end>>

(* fork's clonePageDirectory, before exec. *)
clone == clonePageDirectory /\ UNCHANGED loaderVars

boot == (generatePageTable \/ startPaging \/ moveStack) /\ UNCHANGED loaderVars

Next ==
    \/ boot \/ heapPage("run") \/ clone
    \/ loadHeaders \/ loadPages \/ readText \/ fillPadding \/ loadBin
    \/ heapPage("program") \/ sbrk

Spec == Init /\ [][Next]_vars

-----------------------------------------------------------------------------
GivenOut == used \ BootMarks(machine)
Mappings(f) == {m \in (DOMAIN tables) \X Frames : tables[m[1]][m[2]] = f}

(* No frame that allocPage gave out is mapped at two virtual pages: the    *)
(* stack, the input buffer and the pages of programs cannot be reached     *)
(* through the identity map or through another page.                       *)
OneMapping == \A f \in GivenOut : Cardinality(Mappings(f)) <= 1

(* Frames that the memory map calls unusable are not given out, but for    *)
(* the ones that displayMmap's count passes over.                          *)
GivenOutUsable ==
    \A f \in GivenOut : f < IdLimit /\ Unusable(machine, f) => Shifted(machine, f)

(* The memory map of a PC: memory from 0 on, the BIOS data area directly   *)
(* behind it and behind the bits that generatePageTable zeroes, and what   *)
(* else is not usable in the reserved area or above the identity map.      *)
PCLayout ==
    \A m \in Machines : Survives(m) =>
        \A k \in DOMAIN m.mmap : LET e == m.mmap[k] IN
            \/ e.usable
            \/ /\ k = 2 /\ m.mmap[1].usable
               /\ m.mmap[1].base = 0 /\ e.base = m.mmap[1].len
               /\ Frame(e.base) >= ZeroedBytes(m) * ByteBits
            \/ \A f \in Frame(e.base) .. Frame(e.base + e.len - 1) :
                   f \in ReservedFrames \/ f >= IdLimit

(* When the program starts, every page of its segments has a frame and the *)
(* first segment is the beginning of the file, whatever was copied into    *)
(* the padding around it.                                                  *)
ProgramLoaded ==
    pc = "program" /\ image.elf =>
        /\ \A k \in {1, 2}, n \in Area :
             n < image.ph[k].memsz => Mapped(image.ph[k].vaddr + n)
        /\ \A n \in Area : n < image.ph[1].filesz => cells[image.ph[1].vaddr + n] = n

(* Where the linker puts the second segment of the files: on the page      *)
(* after the end of the first one, at the same offset, or directly behind  *)
(* it when it ends on a page.                                              *)
TextEnd(im) == im.ph[1].vaddr + im.ph[1].memsz
LinkerLayout ==
    \A im \in Images : im.elf =>
        im.ph[2].vaddr = TextEnd(im) + (IF TextEnd(im) % PageSize = 0 THEN 0 ELSE PageSize)

(* With the linker's layout a page fault outside fork means that the       *)
(* identity mapped frames have all been given out, so that allocPage       *)
(* returned one it cannot clear, or that the first segment ends exactly on *)
(* a page.                                                                 *)
FaultHasReason ==
    /\ fault # "mapPage"
    /\ fault = "allocPage" => 0 .. IdLimit - 1 \subseteq used
    /\ fault = "load" => (image.ph[1].vaddr + image.ph[1].memsz) % PageSize = 0

=============================================================================
