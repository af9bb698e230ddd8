------------------------------ MODULE MCLoader ------------------------------
(* Machines and files for Loader. *)
EXTENDS Loader

Usable(base, len) == [base |-> base, len |-> len, usable |-> TRUE]
NotUsable(base, len) == [base |-> base, len |-> len, usable |-> FALSE]

(* A PC's map: low memory with the BIOS data area at its end, which need   *)
(* not begin on a page, a gap, the ROM, memory and the tables at its end.  *)
(* The others have no map, too little memory for one byte of the bitmap,   *)
(* and marks behind the bitmap.                                            *)
PC(ebda, frames) ==
    LET low == 16 * PageSize
        high == 20 * PageSize
        ram == frames * PageSize
    IN  [ram |-> ram,
         mmap |-> <<Usable(0, low - ebda), NotUsable(low - ebda, ebda),
                    NotUsable(high - 2 * PageSize, 2 * PageSize),
                    Usable(high, ram - high - 2 * PageSize),
                    NotUsable(ram - 2 * PageSize, 2 * PageSize)>>]
MCMachines ==
    {PC(ebda, 26) : ebda \in {1, 4, 7, 12}}
    \union {PC(4, 60), [ram |-> 26 * PageSize, mmap |-> <<>>],
            [ram |-> 8 * PageSize, mmap |-> <<Usable(0, 8 * PageSize)>>]}

(* The linker puts the second segment on the page after the first one's    *)
(* end, at the same offset in it.                                          *)
Linked(text, data, bss) ==
    [elf |-> TRUE,
     ph |-> <<[vaddr |-> 0, filesz |-> text, memsz |-> text],
              [vaddr |-> text + (IF text % PageSize = 0 THEN 0 ELSE PageSize),
               filesz |-> data, memsz |-> data + bss]>>]
MCImages ==
    {Linked(text, 1, bss) : text \in 1 .. 7, bss \in {0, 2, 3}} \union {[elf |-> FALSE]}

(* The files are laid out as FaultHasReason takes them to be. *)
ASSUME FilesAreLinked == LinkerLayout

(* The machines are PCs in the sense of GivenOutUsable's theorem. *)
ASSUME MachinesArePCs == PCLayout

=============================================================================
