--------------------------- MODULE PageAllocator ---------------------------
(***************************************************************************)
(* What the physical page allocator of paging.c promises its callers,      *)
(* without the bitmap and without the search loop: allocPage hands out the *)
(* lowest page that is neither reserved nor handed out before, in one      *)
(* step, and nothing is ever handed out twice.  PageBitmap implements it.  *)
(***************************************************************************)
EXTENDS Naturals

CONSTANT Pages          \* the page numbers the bitmap can describe

VARIABLES
    reserved,           \* pages withheld at boot
    live                \* pages allocPage has returned

Init ==
    /\ reserved \in SUBSET Pages
    /\ live = {}

Free == Pages \ (reserved \union live)

(* One successful call of allocPage. *)
Alloc ==
    \E p \in Free :
        /\ \A q \in Free : p <= q
        /\ live' = live \union {p}
        /\ UNCHANGED reserved

Next == Alloc

Spec == Init /\ [][Next]_<<reserved, live>>

=============================================================================
