-------------------------- MODULE PageBitmapProofs --------------------------
(***************************************************************************)
(* Proofs about the page bitmap for every length of the bitmap and every   *)
(* word width: typing, the invariant of allocPage's loop, that the bitmap  *)
(* is exactly what was withheld and handed out, and that the loop          *)
(* implements the one-step allocator of PageAllocator.                     *)
(***************************************************************************)
EXTENDS PageBitmap, TLAPS

USE WordsAssumption, WordBitsAssumption

(* The uint8 conversion and the shift's masking lose nothing: 32 divides   *)
(* 256, so bitTest and bitSet reach the bit the caller meant.              *)
LEMMA ShiftCountExact == \A n \in Nat : ShiftCount(n) = n % WordBits
  BY DEF ShiftCount

LEMMA NumPagesNat == NumPages \in Nat /\ NumPages > 0
  BY DEF NumPages

(* Where a page's bit lives. *)
LEMMA Position ==
  ASSUME NEW p \in Nat, p < NumPages
  PROVE  p \div WordBits \in WordIndex /\ p % WordBits \in BitIndex
  BY DEF NumPages, WordIndex, BitIndex

LEMMA PositionInjective ==
  ASSUME NEW p \in Nat, NEW q \in Nat,
         p \div WordBits = q \div WordBits, p % WordBits = q % WordBits
  PROVE  p = q
  OBVIOUS

(* The pages of the word that starts at b. *)
LEMMA WordOf ==
  ASSUME NEW b \in Nat, b < NumPages, b % WordBits = 0
  PROVE  /\ b + WordBits <= NumPages
         /\ \A p \in b .. b + WordBits - 1 : p \div WordBits = b \div WordBits
  BY DEF NumPages

-----------------------------------------------------------------------------
(* allocPage marks the page it returns and no other. *)
LEMMA TakeMarks ==
  ASSUME TypeOK, ScanTake
  PROVE  /\ bit \in Pages /\ ~Marked(bit)
         /\ \A p \in Pages : Marked(p)' <=> (Marked(p) \/ p = bit)
<1>1. bit \in Nat /\ bit < NumPages /\ bit \in Pages
  BY NumPagesNat DEF TypeOK, ScanTake, Pages
<1>2. ShiftCount(bit) = bit % WordBits /\ ShiftCount(bit % WordBits) = bit % WordBits
  BY <1>1, ShiftCountExact
<1>3. bit \div WordBits \in WordIndex
  BY <1>1, Position
<1>4. ~Marked(bit)
  BY <1>2 DEF ScanTake, bitTest, Marked
<1>5. pageBitmap' = [pageBitmap EXCEPT ![bit \div WordBits] =
                        pageBitmap[bit \div WordBits] \union {bit % WordBits}]
  BY <1>2 DEF ScanTake, bitSet
<1>6. ASSUME NEW p \in Pages
      PROVE  Marked(p)' <=> (Marked(p) \/ p = bit)
  <2>1. p \in Nat /\ p < NumPages
    BY NumPagesNat DEF Pages
  <2>2. p \div WordBits \in WordIndex
    BY <2>1, Position
  <2>3. CASE p \div WordBits = bit \div WordBits
    <3>1. pageBitmap'[p \div WordBits] = pageBitmap[p \div WordBits] \union {bit % WordBits}
      BY <1>3, <1>5, <2>3 DEF TypeOK
    <3>2. p % WordBits = bit % WordBits <=> p = bit
      BY <1>1, <2>1, <2>3, PositionInjective
    <3>3. QED
      BY <3>1, <3>2 DEF Marked
  <2>4. CASE p \div WordBits # bit \div WordBits
    <3>1. pageBitmap'[p \div WordBits] = pageBitmap[p \div WordBits]
      BY <1>5, <2>2, <2>4 DEF TypeOK
    <3>2. p # bit
      BY <2>4
    <3>3. QED
      BY <3>1, <3>2 DEF Marked
  <2>5. QED
    BY <2>3, <2>4
<1>7. QED
  BY <1>1, <1>4, <1>6

-----------------------------------------------------------------------------
(* Typing: the bitmap, the scan position and the history variables keep    *)
(* their types under allocPage and under every call of freePage.           *)
THEOREM TypeCorrect == Spec => []TypeOK
<1>1. Init => TypeOK
  BY NumPagesNat DEF Init, TypeOK, Used
<1>2. TypeOK /\ [Next]_vars => TypeOK'
  <2> SUFFICES ASSUME TypeOK, [Next]_vars
               PROVE  TypeOK'
    OBVIOUS
  <2> USE NumPagesNat
  <2>1. CASE AllocCall
    BY <2>1 DEF AllocCall, TypeOK
  <2>2. CASE ScanSkipWord
    <3>1. bit \in Nat /\ bit < NumPages /\ bit % WordBits = 0
      BY <2>2 DEF ScanSkipWord, AtFullWord, TypeOK
    <3>2. bit + WordBits <= NumPages
      BY <3>1, WordOf
    <3>3. bit + WordBits \in 0 .. NumPages
      BY <3>1, <3>2
    <3>4. QED
      BY <2>2, <3>3 DEF ScanSkipWord, TypeOK
  <2>3. CASE ScanNextBit
    BY <2>3 DEF ScanNextBit, TypeOK
  <2>4. CASE ScanTake
    <3>1. bit \in Pages /\ bit \div WordBits \in WordIndex
      BY <2>4, TakeMarks, Position DEF ScanTake, TypeOK
    <3>2. ShiftCount(bit % WordBits) \in BitIndex
      BY ShiftCountExact DEF TypeOK, BitIndex
    <3>3. bitSet(pageBitmap[bit \div WordBits], bit % WordBits) \in SUBSET BitIndex
      BY <3>1, <3>2 DEF TypeOK, bitSet
    <3>4. QED
      BY <2>4, <3>1, <3>3 DEF ScanTake, TypeOK
  <2>5. CASE ScanOverrun
    BY <2>5 DEF ScanOverrun, TypeOK
  <2>6. ASSUME NEW start \in live, NEW pages \in 1 .. MaxFree, freePage(start, pages)
        PROVE  TypeOK'
    BY <2>6 DEF freePage, TypeOK, bitClear
  <2>7. CASE UNCHANGED vars
    BY <2>7 DEF vars, TypeOK
  <2>8. QED
    BY <2>1, <2>2, <2>3, <2>4, <2>5, <2>6, <2>7 DEF Next, allocPage
<1>3. QED
  BY <1>1, <1>2, PTL DEF Spec

(* The loop invariant of allocPage: no clear bit is ever stepped over,     *)
(* whatever bitmap the boot code left and whatever freePage did to it      *)
(* between the calls.                                                      *)
THEOREM LoopInvariant == Spec => []NothingSkipped
<1>1. Init => NothingSkipped
  BY DEF Init, NothingSkipped
<1>2. TypeOK /\ NothingSkipped /\ [Next]_vars => NothingSkipped'
  <2> SUFFICES ASSUME TypeOK, NothingSkipped, [Next]_vars
               PROVE  NothingSkipped'
    OBVIOUS
  <2> USE NumPagesNat
  <2>1. CASE AllocCall
    BY <2>1 DEF AllocCall, NothingSkipped
  <2>2. CASE ScanSkipWord
    <3>1. bit \in Nat /\ bit' = bit + WordBits /\ pageBitmap' = pageBitmap
      BY <2>2 DEF ScanSkipWord, TypeOK
    <3>2. \A p \in 0 .. bit - 1 : Marked(p)
      BY <2>2 DEF ScanSkipWord, NothingSkipped
    <3>3. \A p \in bit .. bit + WordBits - 1 : Marked(p)
      BY <2>2, <3>1, WordOf DEF ScanSkipWord, AtFullWord, Marked, BitIndex
    <3>4. \A p \in 0 .. bit' - 1 : Marked(p)
      BY <3>1, <3>2, <3>3
    <3>5. QED
      BY <3>1, <3>4 DEF NothingSkipped, Marked
  <2>3. CASE ScanNextBit
    <3>1. bit \in Nat /\ bit' = bit + 1 /\ pageBitmap' = pageBitmap
      BY <2>3 DEF ScanNextBit, TypeOK
    <3>2. \A p \in 0 .. bit - 1 : Marked(p)
      BY <2>3 DEF ScanNextBit, NothingSkipped
    <3>3. Marked(bit)
      BY <2>3, <3>1, ShiftCountExact DEF ScanNextBit, bitTest, Marked
    <3>4. \A p \in 0 .. bit' - 1 : Marked(p)
      BY <3>1, <3>2, <3>3
    <3>5. QED
      BY <3>1, <3>4 DEF NothingSkipped, Marked
  <2>4. CASE ScanTake
    BY <2>4 DEF ScanTake, NothingSkipped
  <2>5. CASE ScanOverrun
    BY <2>5 DEF ScanOverrun, NothingSkipped, Marked
  <2>6. ASSUME NEW start \in live, NEW pages \in 1 .. MaxFree, freePage(start, pages)
        PROVE  NothingSkipped'
    BY <2>6 DEF freePage, NothingSkipped
  <2>7. CASE UNCHANGED vars
    BY <2>7 DEF vars, NothingSkipped, Marked
  <2>8. QED
    BY <2>1, <2>2, <2>3, <2>4, <2>5, <2>6, <2>7 DEF Next, allocPage
<1>3. QED
  BY <1>1, <1>2, TypeCorrect, PTL DEF Spec

(* What the kernel does is a behaviour of the full interface. *)
LEMMA KernelIsSpec == KernelSpec => Spec
<1>1. [KernelNext]_vars => [Next]_vars
  BY DEF KernelNext, Next
<1>2. QED
  BY <1>1, PTL DEF KernelSpec, Spec

(* As long as nobody calls freePage, the bitmap is exactly the pages       *)
(* withheld at boot and the pages handed out, and these are disjoint: no   *)
(* page is handed out twice.                                               *)
THEOREM NoPageTwice == KernelSpec => []BitmapIsExact
<1>1. Init => BitmapIsExact
  BY DEF Init, BitmapIsExact
<1>2. TypeOK /\ BitmapIsExact /\ [KernelNext]_vars => BitmapIsExact'
  <2> SUFFICES ASSUME TypeOK, BitmapIsExact, [KernelNext]_vars
               PROVE  BitmapIsExact'
    OBVIOUS
  <2>1. CASE ScanTake
    <3>1. Used' = Used \union {bit} /\ bit \notin Used
      BY <2>1, TakeMarks DEF Used
    <3>2. QED
      BY <2>1, <3>1 DEF BitmapIsExact, ScanTake
  <2>2. CASE UNCHANGED <<pageBitmap, reserved, live>>
    BY <2>2 DEF BitmapIsExact, Used, Marked
  <2>3. QED
    BY <2>1, <2>2 DEF KernelNext, allocPage, AllocCall, ScanSkipWord, ScanNextBit,
                      ScanOverrun, vars
<1>3. QED
  BY <1>1, <1>2, TypeCorrect, KernelIsSpec, PTL DEF KernelSpec

(* The loop implements the abstract allocator: every returning iteration   *)
(* takes the lowest free page in one abstract step, every other iteration  *)
(* changes nothing a caller can see.                                       *)
THEOREM Refinement == KernelSpec => Promise
<1>1. Init => Abstract!Init
  BY DEF Init, Used, Abstract!Init
<1>2. TypeOK /\ NothingSkipped /\ BitmapIsExact /\ [KernelNext]_vars
        => [Abstract!Next]_<<reserved, live>>
  <2> SUFFICES ASSUME TypeOK, NothingSkipped, BitmapIsExact, [KernelNext]_vars
               PROVE  [Abstract!Next]_<<reserved, live>>
    OBVIOUS
  <2>1. CASE ScanTake
    <3>1. Abstract!Free = {p \in Pages : ~Marked(p)}
      BY DEF Abstract!Free, BitmapIsExact, Used
    <3>2. bit \in Abstract!Free
      BY <2>1, <3>1, TakeMarks
    <3>3. \A q \in Abstract!Free : bit <= q
      BY <2>1, <3>1, NumPagesNat DEF NothingSkipped, ScanTake, TypeOK, Pages
    <3>4. QED
      BY <2>1, <3>2, <3>3 DEF Abstract!Next, Abstract!Alloc, ScanTake
  <2>2. CASE UNCHANGED <<reserved, live>>
    BY <2>2
  <2>3. QED
    BY <2>1, <2>2 DEF KernelNext, allocPage, AllocCall, ScanSkipWord, ScanNextBit,
                      ScanOverrun, vars
<1>3. QED
  BY <1>1, <1>2, TypeCorrect, LoopInvariant, NoPageTwice, KernelIsSpec, PTL
     DEF KernelSpec, Promise, Abstract!Spec

=============================================================================
