----------------------------- MODULE KernelHeap -----------------------------
(***************************************************************************)
(* The kernel heap of paging.c: initHeap and kmalloc, which cuts blocks    *)
(* off one page at a time and never takes one back, among the other        *)
(* callers of allocPage (page tables, page directories, stacks, program    *)
(* pages).  allocPage is the one-step allocator of PageAllocator; when no  *)
(* page is left it does not return (PageBitmap!ScanOverrun), so the        *)
(* actions that need a page are then not enabled.                          *)
(***************************************************************************)
EXTENDS Naturals, Sequences

CONSTANTS
    PageSize,           \* bytes in a page (0x1000)
    NumPages,           \* pages the bitmap describes
    Sizes,              \* the sizes asked of kmalloc
    MaxBlocks           \* bound: number of calls of kmalloc

ASSUME HeapAssumption ==
    /\ PageSize \in Nat \ {0}
    /\ NumPages \in Nat \ {0}
    /\ Sizes \subseteq Nat
    /\ MaxBlocks \in Nat

VARIABLES
    used,               \* pages marked in pageBitmap
    nextAddress,        \* first byte not handed out in the current heap page
    endOfPage,          \* end of the current heap page
    numHeapPages,
    heapPages,          \* history: pages kmalloc obtained
    blocks              \* history: the blocks returned, [at, len], in order

vars == <<used, nextAddress, endOfPage, numHeapPages, heapPages, blocks>>

Pages == 0 .. NumPages - 1

(* The page allocPage returns: the lowest one that is not marked. *)
allocPage(p) ==
    /\ p \in Pages \ used
    /\ \A q \in Pages \ used : p <= q
    /\ used' = used \union {p}

Init ==
    /\ used \in {U \in SUBSET Pages : 0 \in U}
    /\ nextAddress = 0 /\ endOfPage = 0
    /\ numHeapPages = 0
    /\ heapPages = {}
    /\ blocks = <<>>

(* generatePageTable calls initHeap once, before any kmalloc. *)
initHeap ==
    /\ numHeapPages = 0
    /\ \E newPage \in Pages :
        /\ allocPage(newPage)
        /\ nextAddress' = newPage * PageSize
        /\ endOfPage' = newPage * PageSize + PageSize
        /\ heapPages' = heapPages \union {newPage}
    /\ numHeapPages' = 1
    /\ UNCHANGED blocks

Block(at, len) == [at |-> at, len |-> len]

Mut_Fits(bytes) == nextAddress < endOfPage
Fits(bytes) == ~(nextAddress + bytes > endOfPage)

(* The block fits in what is left of the current page. *)
Mut_kmallocInPage(bytes) ==
    /\ Fits(bytes)
    /\ nextAddress' = nextAddress + bytes - 1
    /\ blocks' = Append(blocks, Block(nextAddress, bytes))
    /\ UNCHANGED <<used, endOfPage, numHeapPages, heapPages>>
kmallocInPage(bytes) ==
    /\ Fits(bytes)
    /\ nextAddress' = nextAddress + bytes
    /\ blocks' = Append(blocks, Block(nextAddress, bytes))
    /\ UNCHANGED <<used, endOfPage, numHeapPages, heapPages>>

(* It does not: a new page becomes the current one, even when the block is *)
(* longer than a page.                                                     *)
kmallocNewPage(bytes) ==
    /\ ~Fits(bytes)
    /\ \E newPage \in Pages :
        /\ allocPage(newPage)
        /\ nextAddress' = newPage * PageSize + bytes
        /\ endOfPage' = newPage * PageSize + PageSize
        /\ heapPages' = heapPages \union {newPage}
        /\ blocks' = Append(blocks, Block(newPage * PageSize, bytes))
    /\ numHeapPages' = numHeapPages + 1

kmalloc(bytes) ==
    /\ numHeapPages > 0
    /\ Len(blocks) < MaxBlocks
    /\ kmallocInPage(bytes) \/ kmallocNewPage(bytes)

(* Any other caller of allocPage. *)
allocOther ==
    /\ numHeapPages > 0
    /\ \E p \in Pages : allocPage(p)
    /\ UNCHANGED <<nextAddress, endOfPage, numHeapPages, heapPages, blocks>>

Next ==
    \/ initHeap
    \/ \E bytes \in Sizes : kmalloc(bytes)
    \/ allocOther

Spec == Init /\ [][Next]_vars

-----------------------------------------------------------------------------
(* The variables keep their types. *)
TypeOK ==
    /\ used \in SUBSET Pages
    /\ nextAddress \in Nat /\ endOfPage \in Nat
    /\ numHeapPages \in Nat
    /\ heapPages \in SUBSET Pages
    /\ blocks \in Seq([at : Nat, len : Nat])

Oversized(b) == b.len > PageSize
Overlap(b, c) ==
    b.len > 0 /\ c.len > 0 /\ b.at < c.at + c.len /\ c.at < b.at + b.len

InPage(b, h) == h * PageSize <= b.at /\ b.at + b.len <= h * PageSize + PageSize

(* Two blocks returned by different calls of kmalloc share a byte only if  *)
(* one of them is longer than a page: kmalloc has no test for that.        *)
BlocksDisjoint ==
    \A i, j \in 1 .. Len(blocks) :
        i # j /\ Overlap(blocks[i], blocks[j])
          => Oversized(blocks[i]) \/ Oversized(blocks[j])

(* A block of at most a page lies inside one page that the heap owns, so   *)
(* writing it never reaches a page table, a stack or a program's page, no  *)
(* matter how the other callers of allocPage interleave and whether longer *)
(* blocks were asked for before.                                           *)
BlocksInHeapPages ==
    \A i \in 1 .. Len(blocks) :
        ~Oversized(blocks[i]) => \E h \in heapPages : InPage(blocks[i], h)

(* A block with bytes in page h ends at or below address a. *)
Below(b, h, a) == b.len > 0 /\ InPage(b, h) => b.at + b.len <= a

(* The current page is the one that ends at endOfPage, and every block in  *)
(* it lies below nextAddress.                                              *)
CurrentPage ==
    /\ heapPages \subseteq used
    /\ numHeapPages = 0 => heapPages = {} /\ blocks = <<>>
    /\ numHeapPages > 0 =>
        \E h \in heapPages :
            /\ endOfPage = h * PageSize + PageSize
            /\ h * PageSize <= nextAddress
            /\ \A i \in 1 .. Len(blocks) :
                 Below(blocks[i], h, nextAddress)

(* The inductive invariant of kmalloc: what it returned so far, and that   *)
(* the current page has nothing at or above nextAddress.                   *)
HeapInv == TypeOK /\ CurrentPage /\ BlocksInHeapPages /\ BlocksDisjoint

=============================================================================
