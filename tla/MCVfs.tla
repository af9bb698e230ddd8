-------------------------------- MODULE MCVfs -------------------------------
(* Machines, discs and file names for Vfs. *)
EXTENDS Vfs

Devices(a, b, c, d) == [p \in Position |-> <<a, b, c, d>>[p + 1]]
MCMachines ==
    {Devices("none", "atapi", "pata", "atapi"), Devices("sata", "other", "atapi", "none"),
     Devices("pata", "none", "none", "none"), Devices("atapi", "floating", "none", "none"),
     Devices("atapi", "none", "pata", "none"), Devices("none", "atapi", "none", "none")}

(* Position 3 has the file in a directory and one of that name in the      *)
(* root; position 2 has it in the second sector of a directory.  The root  *)
(* at position 1 is taken for sector 16777260, which the disc does not     *)
(* have, and the one at position 0 for sector 257, the contents of a file  *)
(* that look like a record.                                                *)
Dir(dir, name, lba, sectors) == [dir |-> dir, name |-> name, lba |-> lba, sectors |-> sectors, file |-> FALSE]
File(dir, name, lba) == [dir |-> dir, name |-> name, lba |-> lba, sectors |-> 1, file |-> TRUE]
Disc(root, recs) == [size |-> root + 400, root |-> root, sectors |-> 1, entries |-> recs]
MCDiscs ==
    [p \in Position |->
       CASE p = 3 -> Disc(20, {Dir(20, "BOOT", 21, 1), File(20, "h.c", 26), Dir(21, "a", 22, 2),
                               File(22, "h.c", 25), File(23, "g.c", 27)})
         [] p = 2 -> Disc(20, {Dir(20, "BOOT", 21, 2), File(22, "h.c", 25)})
         [] p = 1 -> Disc(300, {Dir(300, "BOOT", 301, 1), File(301, "h.c", 310)})
         [] p = 0 -> Disc(65537, {Dir(65537, "BOOT", 65538, 1), File(65538, "h.c", 65600),
                                  File(257, "h.c", 300)})]

MCFilenames == {<<"a">>, <<"a", "b">>, <<"BOOT", "h.c">>, <<"BOOT", "a", "h.c">>, <<"BOOT", "a">>}

=============================================================================
