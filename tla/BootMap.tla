------------------------------ MODULE BootMap -------------------------------
(***************************************************************************)
(* How the boot code fills pageBitmap before the first allocPage:          *)
(* startPaging derives the number of page tables from the memory size,     *)
(* displayMmap walks the multiboot memory map and marks bits, and          *)
(* generatePageTable clears the beginning of the bitmap again and reserves *)
(* the area between video memory and 2 MB.                                 *)
(*                                                                         *)
(* A machine is its memory (ram, in bytes) and its memory map: entries     *)
(* with their address, their length and whether the memory may be used, in *)
(* ascending order, with gaps.  pageDirectory is still 0 when displayMmap  *)
(* compares with it.                                                       *)
(***************************************************************************)
EXTENDS Integers, Sequences

CONSTANTS
    PageSize,           \* bytes of a page (4096)
    NumFrames,          \* bits of pageBitmap (1024 words of 32)
    WordBits,           \* bits of a word (32)
    ByteBits,           \* bits of a byte (8)
    ReservedWords,      \* words that are set as a whole (5 .. 15)
    FramesPerTable,     \* frames a page table maps (1024)
    TableAlign,         \* numTables is brought up towards a multiple (32)
    KernelLow,          \* displayMmap leaves memory up to it alone (0xFFFF)
    Machines            \* the machines that are booted

Frames == 0 .. NumFrames - 1
ReservedFrames == {f \in Frames : f \div WordBits \in ReservedWords}

ASSUME BootMapAssumption ==
    /\ {PageSize, NumFrames, WordBits, ByteBits, FramesPerTable, TableAlign} \subseteq Nat \ {0}
    /\ KernelLow \in Nat
    /\ \A m \in Machines :
         /\ m.ram \in Nat
         /\ \A k \in DOMAIN m.mmap : m.mmap[k].base \in Nat /\ m.mmap[k].len \in Nat \ {0}

(* A memory map is a sequence. *)
ASSUME MapAssumption ==
    \A m \in Machines : Len(m.mmap) \in Nat /\ DOMAIN m.mmap = 1 .. Len(m.mmap)

-----------------------------------------------------------------------------
numTables(m) == m.ram \div (FramesPerTable * PageSize) + 1

(* The whole pages of an entry. *)
Pages(e) == e.len \div PageSize

(* The value of bit when displayMmap comes to the k-th entry: it counts    *)
(* the entries' lengths, one more for an entry that is not usable and two  *)
(* more for one that is, and knows nothing of the gaps.                    *)
FirstBit(m) ==
    LET bit[k \in 1 .. Len(m.mmap)] ==
          IF k = 1 THEN 0
          ELSE bit[k - 1] + Pages(m.mmap[k - 1]) + (IF m.mmap[k - 1].usable THEN 2 ELSE 1)
    IN  bit

(* The bits that displayMmap sets for an entry, from bit on, and for all.  *)
Mut_EntryBits(m, e, bit) ==
    IF e.usable THEN {bit + 1 + n : n \in {i \in 0 .. Pages(e) :
                        e.base + i * PageSize \in KernelLow + 1 .. PageSize * numTables(m) - 1}}
    ELSE bit + 1 .. bit + Pages(e)
EntryBits(m, e, bit) ==
    IF e.usable THEN {bit + 1 + n : n \in {i \in 0 .. Pages(e) :
                        e.base + i * PageSize \in KernelLow + 1 .. PageSize * numTables(m) - 1}}
    ELSE bit .. bit + Pages(e)
displayMmap(m) == UNION {EntryBits(m, m.mmap[k], FirstBit(m)[k]) : k \in DOMAIN m.mmap}

(* generatePageTable: the bytes of the bitmap it zeroes.  kmemset takes a  *)
(* count of 0 for 2^32.                                                    *)
ZeroedBytes(m) == (numTables(m) + (numTables(m) % TableAlign)) \div TableAlign

(* No mark falls behind pageBitmap and kmemset stops. *)
Survives(m) == displayMmap(m) \subseteq Frames /\ ZeroedBytes(m) # 0

(* The bits set when generatePageTable calls allocPage. *)
BootMarks(m) ==
    {f \in displayMmap(m) : f >= ZeroedBytes(m) * ByteBits} \union ReservedFrames \union {0}

-----------------------------------------------------------------------------
Frame(address) == address \div PageSize

(* A frame with memory that the map calls unusable. *)
Unusable(m, f) ==
    \E k \in DOMAIN m.mmap :
        LET e == m.mmap[k] IN ~e.usable /\ f \in Frame(e.base) .. Frame(e.base + e.len - 1)

(* The first two frames that a usable entry does not fill, for which       *)
(* displayMmap's two extra steps of bit mark the two after them.           *)
Shifted(m, f) ==
    \E k \in DOMAIN m.mmap :
        LET e == m.mmap[k] IN e.usable /\ f - Frame(e.base + e.len) \in {0, 1}

=============================================================================
