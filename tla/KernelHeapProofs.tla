-------------------------- MODULE KernelHeapProofs --------------------------
(***************************************************************************)
(* Proofs about kmalloc for every page size, number of pages and set of    *)
(* request sizes, requests longer than a page included.  HeapInv is the    *)
(* inductive invariant: that the blocks in the current page lie below      *)
(* nextAddress is what makes disjointness survive the next call.           *)
(***************************************************************************)
EXTENDS KernelHeap, SequenceTheorems, TLAPS

USE HeapAssumption

BlockRecord == [at : Nat, len : Nat]

(* Pages do not overlap. *)
LEMMA PageGap ==
  ASSUME NEW p \in Nat, NEW q \in Nat, p < q
  PROVE  p * PageSize + PageSize <= q * PageSize
<1>1. PICK d \in Nat : q = p + 1 + d
  <2>1. q - p - 1 \in Nat /\ q = p + 1 + (q - p - 1)
    OBVIOUS
  <2>2. QED
    BY <2>1
<1>2. q * PageSize = p * PageSize + PageSize + d * PageSize
  BY <1>1
<1>3. d * PageSize >= 0 /\ p * PageSize \in Nat /\ d * PageSize \in Nat
  OBVIOUS
<1>4. QED
  BY <1>2, <1>3

LEMMA PageAddress ==
  ASSUME NEW p \in Pages
  PROVE  p \in Nat /\ p * PageSize \in Nat
  BY DEF Pages

(* Two blocks that lie in different pages share no byte. *)
LEMMA DifferentPages ==
  ASSUME NEW g \in Pages, NEW h \in Pages, g # h,
         NEW b \in BlockRecord, NEW c \in BlockRecord,
         InPage(b, g), InPage(c, h)
  PROVE  ~Overlap(b, c)
<1>1. g \in Nat /\ h \in Nat /\ g * PageSize \in Nat /\ h * PageSize \in Nat
  BY PageAddress
<1>2. b.at \in Nat /\ b.len \in Nat /\ c.at \in Nat /\ c.len \in Nat
  BY DEF BlockRecord
<1>3. CASE g < h
  BY <1>1, <1>2, <1>3, PageGap DEF InPage, Overlap
<1>4. CASE h < g
  BY <1>1, <1>2, <1>4, PageGap DEF InPage, Overlap
<1>5. g < h \/ h < g
  BY <1>1
<1>6. QED
  BY <1>3, <1>4, <1>5

(* Appending a block at address a of heap page h, above every block that   *)
(* has bytes in h, keeps the blocks disjoint and in the heap's pages.      *)
LEMMA AppendBlock ==
  ASSUME HeapInv, NEW h \in Pages, NEW a \in Nat, NEW bytes \in Nat,
         blocks' = Append(blocks, Block(a, bytes)),
         heapPages \subseteq heapPages', h \in heapPages', h * PageSize <= a,
         bytes <= PageSize => a + bytes <= h * PageSize + PageSize,
         \A i \in 1 .. Len(blocks) : Below(blocks[i], h, a)
  PROVE  /\ blocks' \in Seq(BlockRecord)
         /\ BlocksInHeapPages' /\ BlocksDisjoint'
         /\ \A i \in 1 .. Len(blocks') : Below(blocks'[i], h, a + bytes)
<1> DEFINE new == Block(a, bytes)
           n == Len(blocks)
<1>1. n \in Nat /\ blocks \in Seq(BlockRecord)
  BY DEF HeapInv, TypeOK, BlockRecord
<1>2. new \in BlockRecord /\ new.at = a /\ new.len = bytes
  BY DEF Block, BlockRecord
<1> HIDE DEF new
<1>3. blocks' = Append(blocks, new)
  BY DEF new
<1>4. /\ blocks' \in Seq(BlockRecord) /\ Len(blocks') = n + 1
      /\ blocks'[n + 1] = new
      /\ \A i \in 1 .. n : blocks'[i] = blocks[i]
  BY <1>1, <1>2, <1>3
<1>5. \A i \in 1 .. n : blocks[i] \in BlockRecord
  BY <1>1, ElementOfSeq
<1>6. \A i \in 1 .. n + 1 : i \in 1 .. n \/ i = n + 1
  BY <1>1
<1>7. ~Oversized(new) => InPage(new, h)
  BY <1>2, PageAddress DEF Oversized, InPage
<1>8. BlocksInHeapPages'
  <2>1. ASSUME NEW i \in 1 .. n + 1, ~Oversized(blocks'[i])
        PROVE  \E g \in heapPages' : InPage(blocks'[i], g)
    <3>1. CASE i = n + 1
      BY <1>4, <1>7, <2>1, <3>1
    <3>2. CASE i \in 1 .. n
      BY <1>4, <2>1, <3>2 DEF HeapInv, BlocksInHeapPages
    <3>3. QED
      BY <1>6, <3>1, <3>2
  <2>2. QED
    BY <1>4, <2>1 DEF BlocksInHeapPages, Oversized, InPage
<1>9. BlocksDisjoint'
  <2>1. ASSUME NEW i \in 1 .. n, ~Oversized(blocks[i]), ~Oversized(new)
        PROVE  ~Overlap(blocks[i], new) /\ ~Overlap(new, blocks[i])
    <3>1. PICK g \in heapPages : InPage(blocks[i], g)
      BY <2>1 DEF HeapInv, BlocksInHeapPages
    <3>2. g \in Pages
      BY DEF HeapInv, TypeOK
    <3>3. CASE g = h
      BY <1>2, <1>5, <3>1, <3>3 DEF Overlap, Below, BlockRecord
    <3>4. CASE g # h
      BY <1>2, <1>5, <1>7, <2>1, <3>1, <3>2, <3>4, DifferentPages
    <3>5. QED
      BY <3>3, <3>4
  <2>2. ASSUME NEW i \in 1 .. n + 1, NEW j \in 1 .. n + 1, i # j,
               Overlap(blocks'[i], blocks'[j])
        PROVE  Oversized(blocks'[i]) \/ Oversized(blocks'[j])
    <3>1. CASE i \in 1 .. n /\ j \in 1 .. n
      BY <1>4, <2>2, <3>1 DEF HeapInv, BlocksDisjoint
    <3>2. CASE i \in 1 .. n /\ j = n + 1
      BY <1>4, <2>1, <2>2, <3>2
    <3>3. CASE i = n + 1 /\ j \in 1 .. n
      BY <1>4, <2>1, <2>2, <3>3
    <3>4. QED
      BY <1>6, <2>2, <3>1, <3>2, <3>3
  <2>3. QED
    BY <1>4, <2>2 DEF BlocksDisjoint, Overlap, Oversized
<1>10. \A i \in 1 .. n + 1 : Below(blocks'[i], h, a + bytes)
  <2>1. Below(new, h, a + bytes)
    BY <1>2 DEF Below
  <2>2. \A i \in 1 .. n : Below(blocks[i], h, a + bytes)
    BY <1>5 DEF Below, BlockRecord
  <2>3. QED
    BY <1>4, <1>6, <2>1, <2>2
<1>11. QED
  BY <1>4, <1>8, <1>9, <1>10

(* A page that allocPage has just returned holds no byte of a block that   *)
(* fits a page.                                                            *)
LEMMA FreshPage ==
  ASSUME HeapInv, NEW h \in Pages, h \notin used, NEW a \in Nat
  PROVE  \A i \in 1 .. Len(blocks) : Below(blocks[i], h, a)
<1>1. SUFFICES ASSUME NEW i \in 1 .. Len(blocks),
                      blocks[i].len > 0, InPage(blocks[i], h)
               PROVE  FALSE
  BY DEF Below
<1>2. blocks[i] \in BlockRecord
  BY ElementOfSeq DEF HeapInv, TypeOK, BlockRecord
<1>3. blocks[i].at \in Nat /\ blocks[i].len \in Nat
  BY <1>2 DEF BlockRecord
<1>4. ~Oversized(blocks[i])
  BY <1>1, <1>3, PageAddress DEF Oversized, InPage
<1>5. PICK g \in heapPages : InPage(blocks[i], g)
  BY <1>4 DEF HeapInv, BlocksInHeapPages
<1>6. g \in Pages /\ g # h
  BY DEF HeapInv, TypeOK, CurrentPage
<1>7. ~Overlap(blocks[i], blocks[i])
  BY <1>1, <1>2, <1>5, <1>6, DifferentPages
<1>8. QED
  BY <1>1, <1>3, <1>7 DEF Overlap

-----------------------------------------------------------------------------
(* kmalloc within the current page. *)
LEMMA InPageStep ==
  ASSUME HeapInv, numHeapPages > 0, NEW bytes \in Sizes, kmallocInPage(bytes)
  PROVE  HeapInv'
<1>1. bytes \in Nat /\ nextAddress \in Nat /\ endOfPage \in Nat
  BY DEF HeapInv, TypeOK
<1>2. PICK h \in heapPages :
        /\ endOfPage = h * PageSize + PageSize
        /\ h * PageSize <= nextAddress
        /\ \A i \in 1 .. Len(blocks) : Below(blocks[i], h, nextAddress)
  BY DEF HeapInv, CurrentPage
<1>3. h \in Pages
  BY DEF HeapInv, TypeOK
<1>4. nextAddress + bytes <= h * PageSize + PageSize
  BY <1>1, <1>2 DEF kmallocInPage, Fits
<1>5. /\ blocks' = Append(blocks, Block(nextAddress, bytes))
      /\ nextAddress' = nextAddress + bytes
      /\ UNCHANGED <<used, endOfPage, numHeapPages, heapPages>>
  BY DEF kmallocInPage
<1>6. /\ blocks' \in Seq(BlockRecord)
      /\ BlocksInHeapPages' /\ BlocksDisjoint'
      /\ \A i \in 1 .. Len(blocks') : Below(blocks'[i], h, nextAddress + bytes)
  BY <1>1, <1>2, <1>3, <1>4, <1>5, AppendBlock
<1>7. TypeOK'
  BY <1>1, <1>5, <1>6 DEF HeapInv, TypeOK, BlockRecord
<1>8. CurrentPage'
  <2>1. h * PageSize <= nextAddress'
    BY <1>1, <1>2, <1>3, <1>5, PageAddress
  <2>2. numHeapPages' # 0 /\ heapPages' \subseteq used'
    BY <1>5 DEF HeapInv, TypeOK, CurrentPage
  <2>3. QED
    BY <1>2, <1>5, <1>6, <2>1, <2>2 DEF CurrentPage, Below, InPage
<1>9. QED
  BY <1>6, <1>7, <1>8 DEF HeapInv

(* kmalloc with a new page. *)
LEMMA NewPageStep ==
  ASSUME HeapInv, numHeapPages > 0, NEW bytes \in Sizes, kmallocNewPage(bytes)
  PROVE  HeapInv'
<1>1. bytes \in Nat /\ numHeapPages \in Nat
  BY DEF HeapInv, TypeOK
<1>2. PICK h \in Pages :
        /\ allocPage(h)
        /\ nextAddress' = h * PageSize + bytes
        /\ endOfPage' = h * PageSize + PageSize
        /\ heapPages' = heapPages \union {h}
        /\ blocks' = Append(blocks, Block(h * PageSize, bytes))
  BY DEF kmallocNewPage
<1>3. h \notin used /\ used' = used \union {h} /\ h * PageSize \in Nat
  BY <1>2, PageAddress DEF allocPage
<1>4. \A i \in 1 .. Len(blocks) : Below(blocks[i], h, h * PageSize)
  BY <1>3, FreshPage
<1>5. /\ blocks' \in Seq(BlockRecord)
      /\ BlocksInHeapPages' /\ BlocksDisjoint'
      /\ \A i \in 1 .. Len(blocks') : Below(blocks'[i], h, h * PageSize + bytes)
  <2>1. h \in heapPages' /\ heapPages \subseteq heapPages'
    BY <1>2
  <2>2. /\ h * PageSize <= h * PageSize
        /\ bytes <= PageSize => h * PageSize + bytes <= h * PageSize + PageSize
    BY <1>1, <1>3, HeapAssumption
  <2>3. blocks' = Append(blocks, Block(h * PageSize, bytes))
    BY <1>2
  <2>4. QED
    BY <1>1, <1>3, <1>4, <2>1, <2>2, <2>3, AppendBlock
<1>6. TypeOK'
  BY <1>1, <1>2, <1>3, <1>5 DEF HeapInv, TypeOK, BlockRecord, kmallocNewPage
<1>7. CurrentPage'
  <2>1. numHeapPages' # 0 /\ heapPages' \subseteq used'
    BY <1>1, <1>2, <1>3 DEF HeapInv, CurrentPage, kmallocNewPage
  <2>2. h * PageSize <= nextAddress'
    BY <1>1, <1>2, <1>3
  <2>3. QED
    BY <1>2, <1>5, <2>1, <2>2 DEF CurrentPage, Below, InPage
<1>8. QED
  BY <1>5, <1>6, <1>7 DEF HeapInv

(* initHeap: no block has been handed out yet. *)
LEMMA InitHeapStep ==
  ASSUME HeapInv, initHeap
  PROVE  HeapInv'
<1>1. PICK h \in Pages :
        /\ allocPage(h)
        /\ nextAddress' = h * PageSize
        /\ endOfPage' = h * PageSize + PageSize
        /\ heapPages' = heapPages \union {h}
  BY DEF initHeap
<1>2. used' = used \union {h} /\ h * PageSize \in Nat
  BY <1>1, PageAddress DEF allocPage
<1>3. blocks' = <<>> /\ numHeapPages' = 1 /\ Len(blocks') = 0
  BY DEF initHeap, HeapInv, CurrentPage
<1>4. TypeOK'
  BY <1>1, <1>2, <1>3 DEF HeapInv, TypeOK
<1>5. CurrentPage'
  BY <1>1, <1>2, <1>3 DEF HeapInv, CurrentPage
<1>6. BlocksInHeapPages' /\ BlocksDisjoint'
  BY <1>3 DEF BlocksInHeapPages, BlocksDisjoint
<1>7. QED
  BY <1>4, <1>5, <1>6 DEF HeapInv

(* kmalloc's inductive invariant: the current page belongs to the heap and *)
(* is free from nextAddress on, whoever else called allocPage.             *)
THEOREM HeapInvariant == Spec => []HeapInv
<1>1. Init => HeapInv
  <2> SUFFICES ASSUME Init PROVE HeapInv
    OBVIOUS
  <2>1. TypeOK /\ CurrentPage
    BY DEF Init, TypeOK, CurrentPage
  <2>2. Len(blocks) = 0
    BY DEF Init
  <2>3. QED
    BY <2>1, <2>2 DEF HeapInv, BlocksInHeapPages, BlocksDisjoint
<1>2. HeapInv /\ [Next]_vars => HeapInv'
  <2> SUFFICES ASSUME HeapInv, [Next]_vars
               PROVE  HeapInv'
    OBVIOUS
  <2>1. CASE initHeap
    BY <2>1, InitHeapStep
  <2>2. ASSUME NEW bytes \in Sizes, kmalloc(bytes)
        PROVE  HeapInv'
    BY <2>2, InPageStep, NewPageStep DEF kmalloc
  <2>3. CASE allocOther
    <3>1. used \subseteq used' /\ used' \in SUBSET Pages
      BY <2>3 DEF allocOther, allocPage, HeapInv, TypeOK
    <3>2. UNCHANGED <<nextAddress, endOfPage, numHeapPages, heapPages, blocks>>
      BY <2>3 DEF allocOther
    <3>3. TypeOK' /\ CurrentPage'
      BY <3>1, <3>2 DEF HeapInv, TypeOK, CurrentPage, Below, InPage
    <3>4. BlocksInHeapPages' /\ BlocksDisjoint'
      BY <3>2 DEF HeapInv, BlocksInHeapPages, BlocksDisjoint, InPage, Oversized, Overlap
    <3>5. QED
      BY <3>3, <3>4 DEF HeapInv
  <2>4. CASE UNCHANGED vars
    BY <2>4 DEF vars, HeapInv, TypeOK, CurrentPage, BlocksInHeapPages, BlocksDisjoint,
                InPage, Below, Oversized, Overlap
  <2>5. QED
    BY <2>1, <2>2, <2>3, <2>4 DEF Next
<1>3. QED
  BY <1>1, <1>2, PTL DEF Spec

(* Two calls of kmalloc never return blocks that share a byte unless one   *)
(* of the requests was longer than a page.                                 *)
THEOREM KmallocDisjoint == Spec => []BlocksDisjoint
<1>1. HeapInv => BlocksDisjoint
  BY DEF HeapInv
<1>2. QED
  BY <1>1, HeapInvariant, PTL

(* A block of at most a page lies in one page owned by the heap. *)
THEOREM KmallocStaysInHeap == Spec => []BlocksInHeapPages
<1>1. HeapInv => BlocksInHeapPages
  BY DEF HeapInv
<1>2. QED
  BY <1>1, HeapInvariant, PTL

=============================================================================
