----------------------------- MODULE PageBitmap -----------------------------
(***************************************************************************)
(* The physical page bitmap of paging.c: bitSet, bitClear and bitTest, the *)
(* search loop of allocPage, one step per iteration, and freePage.  Word w *)
(* of the bitmap is the set of its one bits; bit b of word w stands for    *)
(* page w * WordBits + b.  Nothing in the repository calls freePage, so    *)
(* KernelSpec, the allocator as the kernel uses it, leaves it out; Spec    *)
(* adds every call of it that memory.h allows.                             *)
(***************************************************************************)
EXTENDS Naturals

CONSTANTS
    Words,              \* length of pageBitmap (1024)
    WordBits,           \* bits in a word of it (32)
    PageSize,           \* bytes in a page (4096)
    MaxFree             \* bound: pages in one call of freePage

ASSUME WordsAssumption == Words \in Nat \ {0}
ASSUME WordBitsAssumption == WordBits \in {2, 4, 8, 16, 32}
ASSUME SizesAssumption == PageSize \in Nat \ {0} /\ MaxFree \in Nat

VARIABLES
    pageBitmap,         \* the bitmap
    bit,                \* allocPage's local: the bit under test
    pc,                 \* "idle", "scan" (inside allocPage), "overrun"
    reserved,           \* history: what the boot code withheld
    live                \* history: pages returned and not given to freePage

vars == <<pageBitmap, bit, pc, reserved, live>>

WordIndex == 0 .. Words - 1
BitIndex == 0 .. WordBits - 1
NumPages == Words * WordBits
Pages == 0 .. NumPages - 1

(* A bit number is passed as a uint8, and the x86 shift takes it modulo    *)
(* the width of the word.                                                  *)
ShiftCount(n) == (n % 256) % WordBits

bitTest(target, n) == ShiftCount(n) \in target
bitSet(target, n) == target \union {ShiftCount(n)}
bitClear(target, ns) == target \ {ShiftCount(n) : n \in ns}  \* a loop of calls

(* The page's own bit, and the pages whose bit is one. *)
Marked(p) == (p % WordBits) \in pageBitmap[p \div WordBits]
Used == {p \in Pages : Marked(p)}

-----------------------------------------------------------------------------
(* The boot code leaves a bitmap that depends on the machine's memory map; *)
(* page 0 is always withheld (generatePageTable).                          *)
Init ==
    /\ pageBitmap \in [WordIndex -> SUBSET BitIndex]
    /\ 0 \in pageBitmap[0]
    /\ bit = 0
    /\ pc = "idle"
    /\ reserved = Used
    /\ live = {}

AllocCall ==
    /\ pc = "idle"
    /\ bit' = 0
    /\ pc' = "scan"
    /\ UNCHANGED <<pageBitmap, reserved, live>>

Mut_AtFullWord == bit < NumPages /\ pageBitmap[bit \div WordBits] # {}
AtFullWord ==
    /\ bit < NumPages
    /\ bit % WordBits = 0
    /\ pageBitmap[bit \div WordBits] = BitIndex

(* A full word is skipped whole. *)
Mut_ScanSkipWord ==
    /\ pc = "scan"
    /\ AtFullWord
    /\ bit' = (bit + WordBits) % NumPages
    /\ UNCHANGED <<pageBitmap, pc, reserved, live>>
ScanSkipWord ==
    /\ pc = "scan"
    /\ AtFullWord
    /\ bit' = bit + WordBits
    /\ UNCHANGED <<pageBitmap, pc, reserved, live>>

ScanNextBit ==
    /\ pc = "scan" /\ bit < NumPages /\ ~AtFullWord
    /\ bitTest(pageBitmap[bit \div WordBits], bit)
    /\ bit' = bit + 1
    /\ UNCHANGED <<pageBitmap, pc, reserved, live>>

(* A clear bit: set it and return its page. *)
Mut_ScanTake ==
    /\ pc = "scan" /\ bit < NumPages /\ ~AtFullWord
    /\ ~bitTest(pageBitmap[bit \div WordBits], bit)
    /\ pageBitmap' = [pageBitmap EXCEPT ![bit \div WordBits] = {ShiftCount(bit)}]
    /\ live' = live \union {bit}
    /\ pc' = "idle"
    /\ UNCHANGED <<bit, reserved>>
ScanTake ==
    /\ pc = "scan" /\ bit < NumPages /\ ~AtFullWord
    /\ ~bitTest(pageBitmap[bit \div WordBits], bit)
    /\ pageBitmap' = [pageBitmap EXCEPT ![bit \div WordBits] = bitSet(@, bit % WordBits)]
    /\ live' = live \union {bit}
    /\ pc' = "idle"
    /\ UNCHANGED <<bit, reserved>>

(* The loop has no bound: past the last word it reads what the linker put  *)
(* behind the array.                                                       *)
ScanOverrun ==
    /\ pc = "scan" /\ bit >= NumPages
    /\ pc' = "overrun"
    /\ UNCHANGED <<pageBitmap, bit, reserved, live>>

allocPage == AllocCall \/ ScanSkipWord \/ ScanNextBit \/ ScanTake \/ ScanOverrun

(* freePage(start, pages) for a page a caller holds.  The loop adds i to   *)
(* the byte address, not to the page number.                               *)
freePage(start, pages) ==
    LET first == start * PageSize
        Steps(w) == {i \in 0 .. pages - 1 :
                       ((first + i) \div PageSize) \div WordBits = w}
    IN  /\ pc = "idle"
        /\ start .. start + pages - 1 \subseteq live
        /\ pageBitmap' = [w \in WordIndex |->
                            bitClear(pageBitmap[w],
                              {(first + i) % (PageSize * WordBits) : i \in Steps(w)})]
        /\ live' = live \ (start .. start + pages - 1)
        /\ UNCHANGED <<bit, pc, reserved>>

KernelNext == allocPage

Next ==
    \/ allocPage
    \/ \E start \in live, pages \in 1 .. MaxFree : freePage(start, pages)

(* allocPage runs with no other code of the kernel: it always goes on. *)
KernelSpec == Init /\ [][KernelNext]_vars /\ WF_vars(allocPage)
Spec == Init /\ [][Next]_vars /\ WF_vars(allocPage)

-----------------------------------------------------------------------------
(* The variables keep their types; the bit under test never passes the end *)
(* of the array by more than the last full word.                           *)
TypeOK ==
    /\ pageBitmap \in [WordIndex -> SUBSET BitIndex]
    /\ bit \in 0 .. NumPages
    /\ pc \in {"idle", "scan", "overrun"}
    /\ reserved \in SUBSET Pages
    /\ live \in SUBSET Pages

(* The loop of allocPage never steps over a clear bit: every page below    *)
(* the one under test is in use.  In particular the search runs off the    *)
(* array only when no page is free.                                        *)
NothingSkipped == pc \in {"scan", "overrun"} => \A p \in 0 .. bit - 1 : Marked(p)

(* Without freePage the bitmap is exactly what boot withheld plus what     *)
(* allocPage has returned, and the two never meet: no page is given out    *)
(* twice and none that boot withheld.                                      *)
BitmapIsExact == Used = reserved \union live /\ reserved \intersect live = {}

(* The search loop implements the one-step allocator. *)
Abstract == INSTANCE PageAllocator
Promise == Abstract!Spec

(* A call of allocPage does not search forever: it returns a page or runs  *)
(* off the array.                                                          *)
AllocReturns == pc = "scan" ~> pc # "scan"

(* What paging.c says of freePage: it frees the given number of pages,     *)
(* starting at the given one, so that the pages marked used are still      *)
(* those withheld at boot and those that callers hold.                     *)
FreePageFrees == Used = reserved \union live

=============================================================================
