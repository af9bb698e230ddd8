---------------------------- MODULE LoaderProofs ----------------------------
(***************************************************************************)
(* Proofs about the address spaces of Paging and the loader over them, for *)
(* every number of frames, every machine, every place of the identity      *)
(* mapped and reserved areas and every file.  Spaces is the part of the    *)
(* invariant about directories and tables.  It is stated for the values    *)
(* that a step computes, because mapPage adds a table and an entry and     *)
(* takes away an identity mapping in one step, and each of the three is a  *)
(* lemma of its own.                                                       *)
(***************************************************************************)
EXTENDS Loader, FiniteSetTheorems, WellFoundedInduction, TLAPS

-----------------------------------------------------------------------------
LEMMA LeastNumber ==
  ASSUME NEW S, S \subseteq Nat, S # {}
  PROVE  \E m \in S : \A k \in S : m <= k
<1>1. \E m \in S : \A k \in S : ~(<<k, m>> \in OpToRel(<, Nat))
  BY WFMin, NatLessThanWellFounded
<1>2. \A k, m \in S : <<k, m>> \in OpToRel(<, Nat) <=> k < m
  BY DEF OpToRel
<1>3. PICK m \in S : \A k \in S : ~(k < m)
  BY <1>1, <1>2
<1>4. QED
  BY <1>3

(* What allocPage's search returns. *)
(* What holds of 0 and, with every number, of the next one holds of all. *)
LEMMA CountUp ==
  ASSUME NEW N \in Nat, NEW P, 0 \in P, \A n \in 1 .. N : n - 1 \in P => n \in P
  PROVE  \A n \in 0 .. N : n \in P
<1> DEFINE Bad == {n \in 0 .. N : n \notin P}
<1>1. SUFFICES ASSUME Bad # {} PROVE FALSE
  OBVIOUS
<1>2. PICK m \in Bad : \A n \in Bad : m <= n
  <2> HIDE DEF Bad
  <2>1. Bad \subseteq Nat
    BY DEF Bad
  <2>2. QED
    BY <1>1, <2>1, LeastNumber
<1>3. m \in 1 .. N /\ m - 1 \in 0 .. N /\ ~(m <= m - 1)
  BY <1>2
<1>4. m - 1 \in P
  BY <1>2, <1>3
<1>5. QED
  BY <1>2, <1>3, <1>4

(* displayMmap's count, entry by entry. *)
NextBit(m, bit, k) ==
    IF k = 1 THEN 0
    ELSE bit[k - 1] + Pages(m.mmap[k - 1]) + (IF m.mmap[k - 1].usable THEN 2 ELSE 1)

LEMMA CountExists ==
  ASSUME NEW m, NEW L \in Nat
  PROVE  \E bit : bit = [k \in 1 .. L |-> NextBit(m, bit, k)]
<1> DEFINE Counts(bit, n) == /\ bit = [k \in 1 .. L |-> bit[k]]
                             /\ \A k \in 1 .. n : bit[k] = NextBit(m, bit, k)
           P == {n \in 0 .. L : \E bit : Counts(bit, n)}
<1>1. 0 \in P
  <2>1. PICK bit : bit = [k \in 1 .. L |-> 0]
    OBVIOUS
  <2>2. Counts(bit, 0)
    BY <2>1
  <2>3. QED
    BY <2>2
<1>2. ASSUME NEW n \in 1 .. L, n - 1 \in P
      PROVE  n \in P
  <2>1. PICK bit : Counts(bit, n - 1)
    BY <1>2
  <2> DEFINE v == NextBit(m, bit, n)
             new == [k \in 1 .. L |-> IF k = n THEN v ELSE bit[k]]
  <2> HIDE DEF v
  <2>2. new = [k \in 1 .. L |-> new[k]] /\ new[n] = v /\ \A k \in 1 .. L : k # n => new[k] = bit[k]
    OBVIOUS
  <2> HIDE DEF new
  <2>3. ASSUME NEW k \in 1 .. n PROVE new[k] = NextBit(m, new, k)
    <3>1. k # 1 => new[k - 1] = bit[k - 1]
      BY <2>2
    <3>2. NextBit(m, new, k) = NextBit(m, bit, k)
      BY <3>1 DEF NextBit
    <3>3. CASE k = n
      BY <2>2, <3>2, <3>3 DEF v
    <3>4. CASE k # n
      <4>1. k \in 1 .. n - 1 /\ k \in 1 .. L
        BY <3>4
      <4>2. QED
        BY <2>1, <2>2, <3>2, <3>4, <4>1
    <3>5. QED
      BY <3>3, <3>4
  <2>4. Counts(new, n)
    BY <2>2, <2>3
  <2> HIDE DEF Counts
  <2>5. QED
    BY <2>4
<1> HIDE DEF P
<1>3. L \in P
  <2>1. \A n \in 0 .. L : n \in P
    BY <1>1, <1>2, CountUp
  <2>2. QED
    BY <2>1
<1>4. PICK bit : Counts(bit, L)
  BY <1>3 DEF P
<1>5. QED
  BY <1>4

LEMMA FirstBitIs ==
  ASSUME NEW m, Len(m.mmap) \in Nat, NEW k \in 1 .. Len(m.mmap)
  PROVE  FirstBit(m)[k] = NextBit(m, FirstBit(m), k)
<1> DEFINE L == Len(m.mmap)
           Count(bit) == [j \in 1 .. L |-> NextBit(m, bit, j)]
           first == CHOOSE bit : bit = Count(bit)
<1>1. FirstBit(m) = first
  BY DEF FirstBit, NextBit
<1>2. \E bit : bit = Count(bit)
  BY CountExists
<1>3. first = Count(first)
  <2> HIDE DEF Count
  <2>1. QED
    BY <1>2
<1> HIDE DEF first
<1>4. first[k] = NextBit(m, first, k)
  BY <1>3
<1>5. QED
  BY <1>1, <1>4

LEMMA ProductPositive ==
  ASSUME NEW a \in Nat \ {0}, NEW b \in Nat \ {0}
  PROVE  a * b \in Nat \ {0}
<1>1. PICK c \in Nat : a = c + 1
  <2>1. a - 1 \in Nat /\ a = (a - 1) + 1
    OBVIOUS
  <2>2. QED
    BY <2>1
<1>2. a * b = c * b + b /\ c * b \in Nat
  BY <1>1
<1>3. QED
  BY <1>2

LEMMA SumOfPages ==
  ASSUME NEW p \in Nat \ {0}, NEW x \in Nat, NEW y \in Nat \ {0}
  PROVE  (x + y - 1) \div p <= x \div p + y \div p + 1
<1> DEFINE a == x \div p
           b == y \div p
           c == (x + y - 1) \div p
<1>1. a \in Nat /\ x % p \in 0 .. p - 1 /\ x = p * a + (x % p)
  OBVIOUS
<1>2. b \in Nat /\ y % p \in 0 .. p - 1 /\ y = p * b + (y % p)
  OBVIOUS
<1>3. c \in Nat /\ (x + y - 1) % p \in 0 .. p - 1 /\ x + y - 1 = p * c + ((x + y - 1) % p)
  <2>1. x + y - 1 \in Nat
    OBVIOUS
  <2>2. PICK z \in Nat : z = x + y - 1
    BY <2>1
  <2>3. z \div p \in Nat /\ z % p \in 0 .. p - 1 /\ z = p * (z \div p) + (z % p)
    OBVIOUS
  <2>4. QED
    BY <2>2, <2>3
<1> HIDE DEF a, b, c
<1>4. p * c <= x + y - 1
  BY <1>3
<1>5. x + y - 1 < p * a + p * b + 2 * p
  BY <1>1, <1>2
<1>6. p * a + p * b + 2 * p = p * (a + b + 2)
  BY <1>1, <1>2
<1>7. ~(c >= a + b + 2)
  <2>1. SUFFICES ASSUME c >= a + b + 2 PROVE FALSE
    OBVIOUS
  <2>2. p * (a + b + 2) <= p * c
    <3>1. PICK e \in Nat : c = a + b + 2 + e
      <4>1. c - (a + b + 2) \in Nat /\ c = a + b + 2 + (c - (a + b + 2))
        BY <1>1, <1>2, <1>3, <2>1
      <4>2. QED
        BY <4>1
    <3>2. p * c = p * (a + b + 2) + p * e
      BY <1>1, <1>2, <3>1
    <3>3. p * e >= 0 /\ p * e \in Nat /\ p * (a + b + 2) \in Nat
      BY <1>1, <1>2
    <3>4. QED
      BY <3>2, <3>3
  <2>3. p * (a + b + 2) \in Int /\ p * c \in Int /\ x + y - 1 \in Int
    BY <1>1, <1>2, <1>3
  <2>4. QED
    BY <1>4, <1>5, <1>6, <2>2, <2>3
<1>8. c <= a + b + 1
  BY <1>1, <1>2, <1>3, <1>7
<1>9. QED
  BY <1>8 DEF a, b, c

(* The mark of a frame that is not usable, at boot. *)
LEMMA UnusableMarked ==
  ASSUME PCLayout, NEW m \in Machines, Survives(m),
         NEW f \in Frames, f < IdLimit, Unusable(m, f), ~Shifted(m, f)
  PROVE  f \in BootMarks(m)
<1>1. PICK k \in DOMAIN m.mmap :
        ~m.mmap[k].usable
        /\ f \in Frame(m.mmap[k].base) .. Frame(m.mmap[k].base + m.mmap[k].len - 1)
  BY DEF Unusable
<1>2. /\ DOMAIN m.mmap = 1 .. Len(m.mmap) /\ Len(m.mmap) \in Nat /\ m.ram \in Nat
      /\ \A j \in DOMAIN m.mmap : m.mmap[j].base \in Nat /\ m.mmap[j].len \in Nat \ {0}
  BY BootMapAssumption, MapAssumption
<1>3. CASE \A g \in Frame(m.mmap[k].base) .. Frame(m.mmap[k].base + m.mmap[k].len - 1) :
             g \in ReservedFrames \/ g >= IdLimit
  <2>1. f \in ReservedFrames \/ f >= IdLimit
    BY <1>1, <1>3
  <2>2. f \in Int /\ IdLimit \in Int
    BY PagingAssumption, BootMapAssumption DEF Frames
  <2>3. f \in ReservedFrames
    BY <2>1, <2>2
  <2>4. QED
    BY <2>3 DEF BootMarks
<1>4. CASE /\ k = 2 /\ m.mmap[1].usable /\ m.mmap[1].base = 0 /\ m.mmap[k].base = m.mmap[1].len
           /\ Frame(m.mmap[k].base) >= ZeroedBytes(m) * ByteBits
  <2> DEFINE low == m.mmap[1]
             bios == m.mmap[2]
             x == low.len
             y == bios.len
  <2>1. 1 \in 1 .. Len(m.mmap) /\ 2 \in 1 .. Len(m.mmap) /\ 1 \in DOMAIN m.mmap /\ 2 \in DOMAIN m.mmap
    BY <1>1, <1>2, <1>4
  <2>2. x \in Nat \ {0} /\ y \in Nat \ {0} /\ bios.base = x /\ low.base = 0
    BY <1>2, <1>4, <2>1
  <2>3. FirstBit(m)[2] = Pages(low) + 2
    <3>1. FirstBit(m)[1] = 0
      BY <1>2, <2>1, FirstBitIs DEF NextBit
    <3>2. FirstBit(m)[2] = FirstBit(m)[1] + Pages(low) + 2
      <4>1. FirstBit(m)[2] = NextBit(m, FirstBit(m), 2)
        BY <1>2, <2>1, FirstBitIs
      <4>2. QED
        BY <1>4, <4>1 DEF NextBit
    <3>3. Pages(low) \in Nat
      BY <2>2, BootMapAssumption DEF Pages
    <3>4. QED
      BY <3>1, <3>2, <3>3
  <2> DEFINE a == x \div PageSize
             b == y \div PageSize
  <2>4. Pages(low) = a /\ Pages(bios) = b /\ Frame(bios.base) = a /\ a \in Nat /\ b \in Nat
    BY <2>2, BootMapAssumption DEF Pages, Frame
  <2>5. Frame(low.base + low.len) = a
    BY <2>2 DEF Frame
  <2>6. f >= a /\ f \in Nat
    BY <1>1, <1>4, <2>4, BootMapAssumption DEF Frames
  <2>7. f <= a + b + 1
    <3>1. (x + y - 1) \div PageSize <= a + b + 1
      BY <2>2, SumOfPages, BootMapAssumption
    <3>2. Frame(bios.base + bios.len - 1) = (x + y - 1) \div PageSize
      BY <2>2 DEF Frame
    <3>3. (x + y - 1) \div PageSize \in Int
      BY <2>2, BootMapAssumption
    <3>4. f <= (x + y - 1) \div PageSize
      BY <1>1, <1>4, <3>2
    <3>5. QED
      BY <2>4, <2>6, <3>1, <3>3, <3>4
  <2>8. f - a \notin {0, 1}
    BY <1>4, <2>1, <2>5 DEF Shifted
  <2>9. f \in a + 2 .. (a + 2) + b
    BY <2>4, <2>6, <2>7, <2>8
  <2>10. f \in EntryBits(m, bios, FirstBit(m)[2])
    BY <1>1, <1>4, <2>3, <2>4, <2>9 DEF EntryBits
  <2>11. f \in displayMmap(m)
    BY <2>1, <2>10 DEF displayMmap
  <2>12. f >= ZeroedBytes(m) * ByteBits
    <3>1. numTables(m) \in Nat
      <4> DEFINE p == FramesPerTable * PageSize
                 r == m.ram
      <4>1. p \in Nat \ {0}
        <5>1. FramesPerTable \in Nat \ {0} /\ PageSize \in Nat \ {0}
          BY BootMapAssumption
        <5>2. QED
          BY <5>1, ProductPositive
      <4>2. r \in Nat
        BY <1>2
      <4>3. numTables(m) = r \div p + 1
        BY DEF numTables
      <4> HIDE DEF p, r
      <4>4. r \div p \in Nat
        BY <4>1, <4>2
      <4>5. QED
        BY <4>3, <4>4
    <3>2. ZeroedBytes(m) \in Nat
      BY <3>1, BootMapAssumption DEF ZeroedBytes
    <3>3. ZeroedBytes(m) * ByteBits \in Nat
      BY <3>2, BootMapAssumption
    <3>4. a >= ZeroedBytes(m) * ByteBits
      BY <1>4, <2>4
    <3>5. QED
      BY <2>4, <2>6, <3>3, <3>4
  <2>13. QED
    BY <2>11, <2>12 DEF BootMarks
<1>5. QED
  BY <1>1, <1>3, <1>4 DEF PCLayout

-----------------------------------------------------------------------------
USE BootMapAssumption, PagingAssumption, LoaderAssumption

IdTable(D, c) == D[c][Identity]

(* Directories D and tables T lie in frames that are in use and hold       *)
(* entries of the right kind.  All directories share the identity table,   *)
(* and it is found at no other index.                                      *)
Shape(U, D, T, c) ==
    /\ c \in DOMAIN D /\ IdTable(D, c) \in DOMAIN T
    /\ DOMAIN D \union DOMAIN T \subseteq U \ {0}
    /\ D \in [DOMAIN D -> [DirIndex -> DOMAIN T \union {0}]]
    /\ T \in [DOMAIN T -> [Frames -> Frames \union {None}]]
    /\ \A d \in DOMAIN D : /\ D[d][Identity] = IdTable(D, c)
                           /\ \A i \in DirIndex \ {Identity} : D[d][i] # IdTable(D, c)

(* The identity table maps frames below IdLimit to themselves: those that  *)
(* are free and those that hold directories and tables.                    *)
IdMapped(U, D, T, c) ==
    LET id == T[IdTable(D, c)]
    IN  /\ \A s \in Frames : id[s] = None \/ (id[s] = s /\ s < IdLimit)
        /\ \A f \in DOMAIN D \union DOMAIN T : id[f] = f
        /\ \A f \in Frames \ U : f < IdLimit => id[f] = f

(* A frame that was not withheld at boot is mapped at most once, also      *)
(* before it is given out.                                                 *)
Single(B, T) ==
    \A t, u \in DOMAIN T, s, r \in Frames :
        T[t][s] = T[u][r] /\ T[t][s] \in Frames \ B => t = u /\ s = r

Spaces(U, B, D, T, c) ==
    /\ U \subseteq Frames /\ B \subseteq U /\ 0 \in B /\ ReservedFrames \subseteq B
    /\ Shape(U, D, T, c) /\ IdMapped(U, D, T, c) /\ Single(B, T)

(* A frame that has just been given out. *)
Fresh(f, U, B, D, T, c) ==
    f \in U \ B /\ f \notin DOMAIN D \union DOMAIN T /\ T[IdTable(D, c)][f] = f

Booted == pc \notin {"boot", "destroyed"}

(* Where phys holds a frame that is about to be mapped or to become a      *)
(* directory.                                                              *)
MapPlaces == {"mapInputBuf", "mapStack", "clone", "mapPages", "mapBin"}

PagingInv ==
    /\ machine \in Machines
    /\ ~Booted => dirs = <<>> /\ tables = <<>>
    /\ pc = "destroyed" => used = {}
    /\ pc = "boot" => Survives(machine) /\ used = BootMarks(machine)
    /\ Booted => /\ pageDirectory = cr3 /\ cr3 # 0
                 /\ Spaces(used, BootMarks(machine), dirs, tables, cr3)
    /\ pc \in MapPlaces => Fresh(phys, used, BootMarks(machine), dirs, tables, cr3)

(* A page fault in allocPage or mapPage. *)
FaultInv ==
    /\ fault # "mapPage"
    /\ fault = "allocPage" => 0 .. IdLimit - 1 \subseteq used

ElfPlaces == {"pages", "mapPages", "text", "padding"}
LoadPlaces == ElfPlaces \union {"bin", "mapBin", "readBin", "program", "fault"}

(* The pages of the program area below slot. *)
SlotsMapped ==
    /\ dirs[cr3][Program] # 0
    /\ \A s \in 0 .. slot - 1 : tables[dirs[cr3][Program]][s] # None

(* The first segment is the beginning of the file. *)
TextLoaded ==
    \A v \in Area :
        v \in image.ph[1].vaddr .. image.ph[1].vaddr + image.ph[1].filesz - 1
            => cells[v] = v - image.ph[1].vaddr

ProgramInv ==
    /\ image \in Images /\ slot \in 0 .. ProgramPages
    /\ slot > 0 => pc \in LoadPlaces
    /\ slot > 0 /\ pc # "fault" => SlotsMapped
    /\ pc \in ElfPlaces => image.elf
    /\ pc \in {"bin", "mapBin", "readBin"} => ~image.elf
    /\ pc \in {"readBin", "program"} => slot > 0
    /\ pc \in {"text", "padding", "program"} /\ image.elf => slot >= ProgramLen
    /\ pc \in {"padding", "program"} /\ image.elf => TextLoaded
    /\ pc = "program" /\ image.elf =>
         image.ph[1].vaddr + image.ph[1].memsz < image.ph[2].vaddr

LoaderInv == PagingInv /\ FaultInv /\ ProgramInv

-----------------------------------------------------------------------------
LEMMA LowestFreeIs ==
  ASSUME NEW U, Frames \ U # {}
  PROVE  /\ LowestFree(U) \in Frames \ U
         /\ \A g \in Frames \ U : LowestFree(U) <= g
<1>1. Frames \ U \subseteq Nat
  BY DEF Frames
<1>2. \E m \in Frames \ U : \A k \in Frames \ U : m <= k
  BY <1>1, LeastNumber
<1>3. QED
  BY <1>2 DEF LowestFree, Min

(* Nothing is mapped by taking another frame into use. *)
LEMMA GrowUsed ==
  ASSUME NEW U, NEW B, NEW D, NEW T, NEW c, Spaces(U, B, D, T, c), NEW f \in Frames
  PROVE  Spaces(U \union {f}, B, D, T, c)
<1>1. Shape(U \union {f}, D, T, c)
  BY DEF Spaces, Shape
<1>2. IdMapped(U \union {f}, D, T, c)
  BY DEF Spaces, IdMapped
<1>3. QED
  BY <1>1, <1>2 DEF Spaces

(* A free frame that can be reached is fresh once it is in use. *)
LEMMA FreshFrame ==
  ASSUME NEW U, NEW B, NEW D, NEW T, NEW c, Spaces(U, B, D, T, c),
         NEW f \in Frames \ U, T[IdTable(D, c)][f] = f
  PROVE  Fresh(f, U \union {f}, B, D, T, c)
  BY DEF Spaces, Shape, Fresh

(* A fresh table in frame t, found at an index of directory c. *)
Linked(D, c, index, t) == [D EXCEPT ![c] = [D[c] EXCEPT ![index] = t]]
Extended(T, t) == [x \in DOMAIN T \union {t} |-> IF x = t THEN EmptyTable ELSE T[x]]

TableAdded(U, B, D, T, c, index, t) ==
    LET D2 == Linked(D, c, index, t)
        T2 == Extended(T, t)
    IN  /\ Spaces(U \union {t}, B, D2, T2, c)
        /\ DOMAIN D2 = DOMAIN D /\ DOMAIN T2 = DOMAIN T \union {t}
        /\ IdTable(D2, c) = IdTable(D, c) /\ T2[IdTable(D, c)] = T[IdTable(D, c)]
        /\ D2[c][index] = t

LEMMA NewTable ==
  ASSUME NEW U, NEW B, NEW D, NEW T, NEW c, Spaces(U, B, D, T, c),
         NEW t \in Frames \ U, T[IdTable(D, c)][t] = t,
         NEW index \in DirIndex \ {Identity}
  PROVE  TableAdded(U, B, D, T, c, index, t)
<1> DEFINE id == IdTable(D, c)
           D2 == Linked(D, c, index, t)
           T2 == Extended(T, t)
<1>0. D2 = Linked(D, c, index, t) /\ T2 = Extended(T, t)
  OBVIOUS
<1> HIDE DEF D2, T2
<1>1. /\ c \in DOMAIN D /\ id \in DOMAIN T /\ t \notin DOMAIN T /\ t \notin DOMAIN D /\ t # 0
      /\ D \in [DOMAIN D -> [DirIndex -> DOMAIN T \union {0}]]
      /\ T \in [DOMAIN T -> [Frames -> Frames \union {None}]]
  BY DEF Spaces, Shape
<1>2. Identity \in DirIndex /\ index # Identity
  BY DEF Identity, DirIndex
<1>3. DOMAIN D2 = DOMAIN D /\ DOMAIN T2 = DOMAIN T \union {t}
  BY <1>0, <1>1 DEF Linked, Extended
<1>4. /\ D2[c] = [D[c] EXCEPT ![index] = t] /\ D2[c][index] = t
      /\ \A i \in DirIndex \ {index} : D2[c][i] = D[c][i]
      /\ \A d \in DOMAIN D \ {c} : D2[d] = D[d]
  BY <1>0, <1>1 DEF Linked
<1>5. D2 \in [DOMAIN D -> [DirIndex -> (DOMAIN T \union {t}) \union {0}]]
  BY <1>0, <1>1 DEF Linked
<1>6. IdTable(D2, c) = id
  BY <1>2, <1>4 DEF IdTable
<1>7. /\ T2[t] = EmptyTable /\ T2[id] = T[id]
      /\ \A x \in DOMAIN T : T2[x] = T[x]
  BY <1>0, <1>1 DEF Extended
<1>8. EmptyTable \in [Frames -> Frames \union {None}] /\ None \notin Frames
  BY DEF EmptyTable, None, Frames
<1>9. T2 \in [DOMAIN T \union {t} -> [Frames -> Frames \union {None}]]
  BY <1>0, <1>1, <1>8 DEF Extended
<1>10. Shape(U \union {t}, D2, T2, c)
  <2>1. DOMAIN D2 \union DOMAIN T2 \subseteq (U \union {t}) \ {0}
    BY <1>1, <1>3 DEF Spaces, Shape
  <2>2. ASSUME NEW d \in DOMAIN D
        PROVE  /\ D2[d][Identity] = id
               /\ \A i \in DirIndex \ {Identity} : D2[d][i] # id
    <3>1. D[d][Identity] = id /\ \A i \in DirIndex \ {Identity} : D[d][i] # id
      BY DEF Spaces, Shape
    <3>2. CASE d = c
      BY <1>1, <1>2, <1>4, <3>1, <3>2
    <3>3. CASE d # c
      BY <1>4, <3>1, <3>3
    <3>4. QED
      BY <3>2, <3>3
  <2> HIDE DEF id
  <2>3. QED
    BY <1>1, <1>3, <1>5, <1>6, <1>9, <2>1, <2>2 DEF Shape
<1>11. IdMapped(U \union {t}, D2, T2, c)
  <2> HIDE DEF id
  <2>1. /\ \A s \in Frames : T[id][s] = None \/ (T[id][s] = s /\ s < IdLimit)
        /\ \A f \in DOMAIN D \union DOMAIN T : T[id][f] = f
        /\ \A f \in Frames \ U : f < IdLimit => T[id][f] = f
    BY DEF Spaces, IdMapped, id
  <2>2. T[id][t] = t
    BY DEF id
  <2>3. T2[IdTable(D2, c)] = T[id]
    BY <1>6, <1>7
  <2>4. \A f \in DOMAIN D2 \union DOMAIN T2 : T[id][f] = f
    BY <1>3, <2>1, <2>2
  <2>5. QED
    BY <2>1, <2>3, <2>4 DEF IdMapped
<1>12. Single(B, T2)
  <2>1. ASSUME NEW x \in DOMAIN T2, NEW s \in Frames, T2[x][s] \in Frames \ B
        PROVE  x \in DOMAIN T /\ T2[x] = T[x]
    BY <1>3, <1>7, <1>8, <2>1 DEF EmptyTable
  <2>2. ASSUME NEW x \in DOMAIN T2, NEW y \in DOMAIN T2, NEW s \in Frames, NEW r \in Frames,
               T2[x][s] = T2[y][r], T2[x][s] \in Frames \ B
        PROVE  x = y /\ s = r
    <3>1. x \in DOMAIN T /\ T2[x] = T[x] /\ y \in DOMAIN T /\ T2[y] = T[y]
      BY <2>1, <2>2
    <3>2. T[x][s] = T[y][r] /\ T[x][s] \in Frames \ B
      BY <2>2, <3>1
    <3>3. QED
      BY <3>1, <3>2 DEF Spaces, Single
  <2>3. QED
    BY ONLY <2>2 DEF Single
<1>13. Spaces(U \union {t}, B, D2, T2, c)
  BY <1>10, <1>11, <1>12 DEF Spaces
<1>14. QED
  BY <1>0, <1>3, <1>4, <1>6, <1>7, <1>13 DEF TableAdded

(* An entry for a fresh frame, which loses its identity mapping. *)
LEMMA EnterFresh ==
  ASSUME NEW U, NEW B, NEW D, NEW T, NEW c, Spaces(U, B, D, T, c),
         NEW f, Fresh(f, U, B, D, T, c),
         NEW t \in DOMAIN T, t # IdTable(D, c), NEW n \in Frames,
         NEW T2, T2 = Entered(T, D[c], t, n, f)
  PROVE  /\ Spaces(U, B, D, T2, c)
         /\ T2[t] = [T[t] EXCEPT ![n] = f] /\ f # None
<1> DEFINE id == IdTable(D, c)
           new == [T EXCEPT ![t][n] = f]
<1>1. /\ c \in DOMAIN D /\ id \in DOMAIN T
      /\ T \in [DOMAIN T -> [Frames -> Frames \union {None}]]
      /\ \A s \in Frames : T[id][s] = None \/ (T[id][s] = s /\ s < IdLimit)
      /\ \A g \in DOMAIN D \union DOMAIN T : T[id][g] = g
      /\ \A g \in Frames \ U : g < IdLimit => T[id][g] = g
  BY DEF Spaces, Shape, IdMapped
<1>2. /\ f \in Frames /\ f \in U \ B /\ f \notin DOMAIN D \union DOMAIN T /\ T[id][f] = f
      /\ f \notin ReservedFrames /\ f # None
  BY DEF Fresh, Spaces, None, Frames
<1>3. f < IdLimit
  BY <1>1, <1>2 DEF None, Frames
<1>4. f < UnmapLimit
  BY <1>2, <1>3 DEF Frames
<1>5. t # id
  OBVIOUS
<1> HIDE DEF id
<1>6. /\ new \in [DOMAIN T -> [Frames -> Frames \union {None}]]
      /\ new[id] = T[id] /\ new[t] = [T[t] EXCEPT ![n] = f]
      /\ \A x \in DOMAIN T \ {t} : new[x] = T[x]
  BY <1>1, <1>2, <1>5
<1>7. T2 = [new EXCEPT ![id][f] = None]
  <2>1. D[c][Identity] = id
    BY DEF id, IdTable
  <2>2. new[id][f] = f
    BY <1>2, <1>6
  <2> HIDE DEF new
  <2>3. T2 = IF f < UnmapLimit /\ new[id][f] = f THEN [new EXCEPT ![id][f] = None] ELSE new
    BY <2>1 DEF Entered, new
  <2>4. QED
    BY <1>4, <2>2, <2>3
<1> HIDE DEF new
<1>8. /\ T2 \in [DOMAIN T -> [Frames -> Frames \union {None}]] /\ DOMAIN T2 = DOMAIN T
      /\ T2[id] = [T[id] EXCEPT ![f] = None] /\ T2[t] = [T[t] EXCEPT ![n] = f]
      /\ \A x \in DOMAIN T \ {t, id} : T2[x] = T[x]
  BY <1>1, <1>2, <1>5, <1>6, <1>7
<1>9. /\ \A s \in Frames \ {f} : T2[id][s] = T[id][s]
      /\ T2[id][f] = None /\ T2[t][n] = f
      /\ \A s \in Frames \ {n} : T2[t][s] = T[t][s]
  BY <1>1, <1>2, <1>8
<1>10. Shape(U, D, T2, c)
  BY <1>8 DEF Spaces, Shape
<1>11. IdMapped(U, D, T2, c)
  <2>1. DOMAIN D \union DOMAIN T \subseteq Frames
    BY DEF Spaces, Shape
  <2>2. /\ \A s \in Frames : T2[id][s] = None \/ (T2[id][s] = s /\ s < IdLimit)
        /\ \A g \in DOMAIN D \union DOMAIN T2 : T2[id][g] = g
        /\ \A g \in Frames \ U : g < IdLimit => T2[id][g] = g
    BY <1>1, <1>2, <1>8, <1>9, <2>1
  <2>3. QED
    BY <2>2 DEF IdMapped, id
<1>12. Single(B, T2)
  <2>1. \A u \in DOMAIN T, s \in Frames : T[u][s] = f => u = id /\ s = f
    BY <1>1, <1>2 DEF Spaces, Single
  <2>2. ASSUME NEW u \in DOMAIN T, NEW s \in Frames, T2[u][s] \in Frames
        PROVE  (u = t /\ s = n /\ T2[u][s] = f) \/ (T2[u][s] = T[u][s] /\ T2[u][s] # f)
    <3>1. CASE u = t
      <4>1. CASE s = n
        BY ONLY <1>9, <3>1, <4>1
      <4>2. CASE s # n
        <5>1. T2[u][s] = T[u][s]
          BY ONLY <1>9, <2>2, <3>1, <4>2
        <5>2. T[u][s] # f
          BY ONLY <1>5, <2>1, <2>2, <3>1
        <5>3. QED
          BY ONLY <5>1, <5>2
      <4>3. QED
        BY ONLY <4>1, <4>2
    <3>2. CASE u = id
      <4>1. None \notin Frames
        BY DEF None, Frames
      <4>2. s # f
        BY ONLY <1>9, <2>2, <3>2, <4>1
      <4>3. T2[u][s] = T[u][s]
        BY ONLY <1>9, <2>2, <3>2, <4>2
      <4>4. T[u][s] # f
        BY ONLY <2>1, <2>2, <4>2
      <4>5. QED
        BY ONLY <4>3, <4>4
    <3>3. CASE u # t /\ u # id
      <4>1. T2[u] = T[u]
        BY ONLY <1>8, <2>2, <3>3
      <4>2. T[u][s] # f
        BY ONLY <2>1, <2>2, <3>3
      <4>3. QED
        BY ONLY <4>1, <4>2
    <3>4. QED
      BY ONLY <3>1, <3>2, <3>3
  <2>3. ASSUME NEW u \in DOMAIN T, NEW w \in DOMAIN T, NEW s \in Frames, NEW r \in Frames,
               T2[u][s] = T2[w][r], T2[u][s] \in Frames \ B
        PROVE  u = w /\ s = r
    <3>0. /\ (u = t /\ s = n /\ T2[u][s] = f) \/ (T2[u][s] = T[u][s] /\ T2[u][s] # f)
          /\ (w = t /\ r = n /\ T2[w][r] = f) \/ (T2[w][r] = T[w][r] /\ T2[w][r] # f)
      BY <2>2, <2>3
    <3>1. CASE T2[u][s] = f
      BY ONLY <2>3, <3>0, <3>1
    <3>2. CASE T2[u][s] # f
      <4>1. T[u][s] = T[w][r] /\ T[u][s] \in Frames \ B
        BY ONLY <2>3, <3>0, <3>2
      <4>2. Single(B, T)
        BY DEF Spaces
      <4>3. QED
        BY ONLY <4>1, <4>2, <2>3 DEF Single
    <3>3. QED
      BY <3>1, <3>2
  <2>4. QED
    BY <1>8, <2>3 DEF Single
<1>13. QED
  BY <1>2, <1>8, <1>10, <1>11, <1>12 DEF Spaces

(* An entry for a frame that boot withheld: what sbrk does. *)
LEMMA EnterWithheld ==
  ASSUME NEW U, NEW B, NEW D, NEW T, NEW c, Spaces(U, B, D, T, c),
         NEW f \in B, NEW t \in DOMAIN T, t # IdTable(D, c), NEW n \in Frames,
         NEW T2, T2 = [T EXCEPT ![t][n] = f]
  PROVE  Spaces(U, B, D, T2, c) /\ T2[t] = [T[t] EXCEPT ![n] = f]
<1> DEFINE id == IdTable(D, c)
<1>1. /\ id \in DOMAIN T /\ f \in Frames /\ t # id
      /\ T \in [DOMAIN T -> [Frames -> Frames \union {None}]]
  BY DEF Spaces, Shape
<1> HIDE DEF id
<1>2. /\ T2 \in [DOMAIN T -> [Frames -> Frames \union {None}]] /\ DOMAIN T2 = DOMAIN T
      /\ T2[id] = T[id] /\ T2[t] = [T[t] EXCEPT ![n] = f]
      /\ T2[t][n] = f /\ \A s \in Frames \ {n} : T2[t][s] = T[t][s]
      /\ \A x \in DOMAIN T \ {t} : T2[x] = T[x]
  BY <1>1
<1>3. Shape(U, D, T2, c)
  BY <1>2 DEF Spaces, Shape
<1>4. IdMapped(U, D, T2, c)
  BY <1>2 DEF Spaces, IdMapped, id
<1>5. Single(B, T2)
  <2>1. ASSUME NEW u \in DOMAIN T, NEW s \in Frames, T2[u][s] \in Frames \ B
        PROVE  T2[u][s] = T[u][s]
    BY <1>2, <2>1
  <2>2. ASSUME NEW u \in DOMAIN T, NEW w \in DOMAIN T, NEW s \in Frames, NEW r \in Frames,
               T2[u][s] = T2[w][r], T2[u][s] \in Frames \ B
        PROVE  u = w /\ s = r
    <3>1. T2[u][s] = T[u][s] /\ T2[w][r] = T[w][r]
      BY <2>1, <2>2
    <3>2. QED
      BY <2>2, <3>1 DEF Spaces, Single
  <2>3. QED
    BY <1>2, <2>2 DEF Single
<1>6. QED
  BY <1>2, <1>3, <1>4, <1>5 DEF Spaces

(* A directory in a fresh frame that shares tables with directory c. *)
Cloned(D, c, f) ==
    [x \in DOMAIN D \union {f} |->
       IF x # f THEN D[x] ELSE [i \in DirIndex |-> IF i = Stack THEN 0 ELSE D[c][i]]]

LEMMA NewDirectory ==
  ASSUME NEW U, NEW B, NEW D, NEW T, NEW c, Spaces(U, B, D, T, c),
         NEW f, Fresh(f, U, B, D, T, c), NEW D2, D2 = Cloned(D, c, f)
  PROVE  Spaces(U, B, D2, T, c) /\ D2[c] = D[c]
<1> DEFINE id == IdTable(D, c)
           e == [i \in DirIndex |-> IF i = Stack THEN 0 ELSE D[c][i]]
<1>0. D2 = [x \in DOMAIN D \union {f} |-> IF x # f THEN D[x] ELSE e]
  BY DEF Cloned
<1>1. /\ c \in DOMAIN D /\ id \in DOMAIN T /\ f \notin DOMAIN D /\ f \in U /\ f # 0
      /\ D \in [DOMAIN D -> [DirIndex -> DOMAIN T \union {0}]]
      /\ T[id][f] = f /\ id # 0
  BY DEF Spaces, Shape, Fresh
<1>2. /\ DOMAIN D2 = DOMAIN D \union {f} /\ D2[f] = e /\ D2[c] = D[c]
      /\ \A x \in DOMAIN D : D2[x] = D[x]
      /\ IdTable(D2, c) = id
  BY <1>0, <1>1 DEF IdTable
<1>3. e \in [DirIndex -> DOMAIN T \union {0}]
  BY <1>1
<1>4. e[Identity] = id /\ \A i \in DirIndex \ {Identity} : e[i] # id
  <2>1. Identity \in DirIndex /\ Identity # Stack
    BY DEF Identity, DirIndex, Stack
  <2>2. \A i \in DirIndex \ {Identity} : D[c][i] # id
    BY <1>1 DEF Spaces, Shape
  <2>3. D[c][Identity] = id
    BY DEF IdTable
  <2> HIDE DEF id
  <2>4. QED
    BY <1>1, <2>1, <2>2, <2>3
<1> HIDE DEF e
<1>5. D2 \in [DOMAIN D \union {f} -> [DirIndex -> DOMAIN T \union {0}]]
  BY <1>0, <1>1, <1>3
<1>6. Shape(U, D2, T, c)
  <2>1. /\ DOMAIN D \union DOMAIN T \subseteq U \ {0}
        /\ T \in [DOMAIN T -> [Frames -> Frames \union {None}]]
        /\ \A d \in DOMAIN D : /\ D[d][Identity] = id
                               /\ \A i \in DirIndex \ {Identity} : D[d][i] # id
    BY DEF Spaces, Shape
  <2>2. \A d \in DOMAIN D2 : /\ D2[d][Identity] = id
                             /\ \A i \in DirIndex \ {Identity} : D2[d][i] # id
    <3> HIDE DEF id
    <3>1. QED
      BY <1>2, <1>4, <2>1
  <2> HIDE DEF id
  <2>3. D2 \in [DOMAIN D2 -> [DirIndex -> DOMAIN T \union {0}]]
    BY <1>2, <1>5
  <2>4. c \in DOMAIN D2 /\ DOMAIN D2 \union DOMAIN T \subseteq U \ {0}
    BY <1>1, <1>2, <2>1
  <2>5. QED
    BY ONLY <1>1, <1>2, <2>1, <2>2, <2>3, <2>4 DEF Shape
<1>7. IdMapped(U, D2, T, c)
  <2>1. /\ \A s \in Frames : T[id][s] = None \/ (T[id][s] = s /\ s < IdLimit)
        /\ \A g \in DOMAIN D \union DOMAIN T : T[id][g] = g
        /\ \A g \in Frames \ U : g < IdLimit => T[id][g] = g
    BY DEF Spaces, IdMapped
  <2> HIDE DEF id
  <2>2. \A g \in DOMAIN D2 \union DOMAIN T : T[id][g] = g
    BY <1>1, <1>2, <2>1
  <2>3. QED
    BY <1>2, <2>1, <2>2 DEF IdMapped
<1>8. QED
  BY <1>2, <1>6, <1>7 DEF Spaces

-----------------------------------------------------------------------------
(* Reaching a frame at its physical address means that the identity table  *)
(* maps it.                                                                *)
LEMMA ReachableIs ==
  ASSUME cr3 # 0, NEW U, NEW B, Spaces(U, B, dirs, tables, cr3), NEW f
  PROVE  Reachable(f) <=> tables[IdTable(dirs, cr3)][f] = f
  BY DEF Reachable, Spaces, Shape, IdTable

(* The frames below IdLimit are in use when the lowest free one cannot be  *)
(* reached.                                                                *)
LEMMA AllBelowUsed ==
  ASSUME NEW U, NEW B, NEW D, NEW T, NEW c, Spaces(U, B, D, T, c), U # Frames,
         T[IdTable(D, c)][LowestFree(U)] # LowestFree(U)
  PROVE  0 .. IdLimit - 1 \subseteq U
<1> DEFINE f == LowestFree(U)
<1>1. f \in Frames \ U /\ \A g \in Frames \ U : f <= g
  BY LowestFreeIs DEF Spaces
<1>2. T[IdTable(D, c)][f] # f
  OBVIOUS
<1> HIDE DEF f
<1>3. ~(f < IdLimit)
  BY <1>1, <1>2 DEF Spaces, IdMapped
<1>4. ASSUME NEW g \in 0 .. IdLimit - 1, g \notin U
      PROVE  FALSE
  BY <1>1, <1>3, <1>4 DEF Frames
<1>5. QED
  BY <1>4

LEMMA AllocStep ==
  ASSUME PagingInv, FaultInv, NEW at, NEW next, allocPage(at, next),
         at \notin {"boot", "destroyed"}, next \notin {"boot", "destroyed", "fault"}
  PROVE  /\ PagingInv' /\ FaultInv'
         /\ UNCHANGED <<machine, dirs, tables, pageDirectory, cr3>>
         /\ pc = at /\ pc' \in {next, "fault"}
<1> DEFINE f == LowestFree(used)
           B == BootMarks(machine)
<1>1. /\ pc = at /\ machine \in Machines /\ pageDirectory = cr3 /\ cr3 # 0
      /\ Spaces(used, B, dirs, tables, cr3)
  BY DEF PagingInv, Booted, allocPage
<1>2. used # Frames /\ used' = used \union {f}
  BY DEF allocPage
<1>3. f \in Frames \ used
  BY <1>1, <1>2, LowestFreeIs DEF Spaces
<1>4. UNCHANGED <<machine, dirs, tables, pageDirectory, cr3>> /\ B' = B
  BY DEF allocPage, Fault
<1>5. Spaces(used', B', dirs', tables', cr3')
  <2>1. Spaces(used \union {f}, B, dirs, tables, cr3)
    BY <1>1, <1>3, GrowUsed
  <2> HIDE DEF B, f
  <2>2. QED
    BY <1>2, <1>4, <2>1
<1>6. CASE Reachable(f)
  <2>1. phys' = f /\ pc' = next /\ fault' = fault
    BY <1>6 DEF allocPage
  <2>2. Fresh(phys', used', B', dirs', tables', cr3')
    <3>1. tables[IdTable(dirs, cr3)][f] = f
      BY <1>1, <1>6, ReachableIs
    <3>2. Fresh(f, used \union {f}, B, dirs, tables, cr3)
      BY <1>1, <1>3, <3>1, FreshFrame
    <3> HIDE DEF B, f
    <3>3. QED
      BY <1>2, <1>4, <2>1, <3>2
  <2>3. PagingInv'
    BY <1>1, <1>4, <1>5, <2>1, <2>2 DEF PagingInv, Booted
  <2>4. FaultInv'
    BY <1>2, <2>1 DEF FaultInv
  <2>5. QED
    BY <1>1, <1>4, <2>1, <2>3, <2>4
<1>7. CASE ~Reachable(f)
  <2>1. pc' = "fault" /\ fault' = "allocPage"
    BY <1>7 DEF allocPage, Fault
  <2>2. 0 .. IdLimit - 1 \subseteq used
    <3>1. tables[IdTable(dirs, cr3)][f] # f
      BY <1>1, <1>7, ReachableIs
    <3>2. QED
      BY <1>1, <1>2, <3>1, AllBelowUsed
  <2>3. PagingInv'
    BY <1>1, <1>4, <1>5, <2>1 DEF PagingInv, Booted, MapPlaces
  <2>4. FaultInv'
    BY <1>2, <2>1, <2>2 DEF FaultInv
  <2>5. QED
    BY <1>1, <1>4, <2>1, <2>3, <2>4
<1>8. QED
  BY <1>6, <1>7

(* mapPage for a fresh frame: the page is mapped, and the table that was   *)
(* there keeps its other entries.                                          *)
LEMMA MapStep ==
  ASSUME PagingInv, FaultInv, NEW at \in MapPlaces, NEW next,
         next \notin MapPlaces \union {"boot", "destroyed", "fault"},
         NEW index \in DirIndex \ {Identity}, NEW n \in Frames,
         mapPage(at, next, cr3, index, n)
  PROVE  /\ PagingInv' /\ FaultInv' /\ pc = at /\ UNCHANGED cr3
         /\ \/ pc' = "fault"
            \/ /\ pc' = next /\ phys # None /\ dirs'[cr3][index] # 0
               /\ dirs[cr3][index] # 0 =>
                    /\ dirs'[cr3][index] = dirs[cr3][index]
                    /\ \A s \in Frames \ {n} :
                         tables'[dirs'[cr3][index]][s] = tables[dirs[cr3][index]][s]
               /\ tables'[dirs'[cr3][index]][n] = phys
<1> DEFINE B == BootMarks(machine)
           c == cr3
           id == IdTable(dirs, c)
           f == LowestFree(used)
           old == dirs[c][index]
<1>1. /\ pc = at /\ machine \in Machines /\ pageDirectory = c /\ c # 0
      /\ Spaces(used, B, dirs, tables, c) /\ Fresh(phys, used, B, dirs, tables, c)
  BY DEF PagingInv, Booted, mapPage, MapPlaces
<1>2. /\ c \in DOMAIN dirs /\ tables[id][c] = c
      /\ dirs \in [DOMAIN dirs -> [DirIndex -> DOMAIN tables \union {0}]]
      /\ tables \in [DOMAIN tables -> [Frames -> Frames \union {None}]]
  BY <1>1 DEF Spaces, Shape, IdMapped
<1>3. Reachable(c)
  BY <1>1, <1>2, ReachableIs
<1>4. CASE old # 0
  <2>1. old \in DOMAIN tables /\ old # id /\ tables[id][old] = old
    BY <1>1, <1>2, <1>4 DEF Spaces, Shape, IdMapped
  <2>2. Reachable(old)
    BY <1>1, <2>1, ReachableIs
  <2>3. [dirs[c] EXCEPT ![index] = old] = dirs[c] /\ [dirs EXCEPT ![c] = dirs[c]] = dirs
    BY <1>2
  <2>4. /\ used' = used /\ dirs' = dirs /\ tables' = Entered(tables, dirs[c], old, n, phys)
        /\ pc' = next /\ UNCHANGED <<machine, pageDirectory, cr3, phys, fault>>
    BY <1>3, <1>4, <2>2, <2>3 DEF mapPage
  <2>5. /\ Spaces(used, B, dirs, tables', c)
        /\ tables'[old] = [tables[old] EXCEPT ![n] = phys] /\ phys # None
    BY <1>1, <2>1, <2>4, EnterFresh
  <2>6. Spaces(used', B', dirs', tables', cr3')
    BY <2>4, <2>5
  <2>7. PagingInv'
    BY <1>1, <2>4, <2>6 DEF PagingInv, Booted, MapPlaces
  <2>8. FaultInv'
    BY <2>4 DEF FaultInv
  <2>9. tables'[old][n] = phys /\ \A s \in Frames \ {n} : tables'[old][s] = tables[old][s]
    BY <1>2, <2>1, <2>5
  <2>10. QED
    BY <1>1, <1>4, <2>4, <2>5, <2>7, <2>8, <2>9
<1>5. CASE old = 0
  <2>1. used # Frames /\ used' = used \union {f}
    BY <1>5 DEF mapPage
  <2>2. f \in Frames \ used
    BY <1>1, <2>1, LowestFreeIs DEF Spaces
  <2>3. CASE ~Reachable(f)
    <3>1. /\ pc' = "fault" /\ fault' = "allocPage"
          /\ UNCHANGED <<machine, dirs, tables, pageDirectory, cr3>>
      BY <1>3, <1>5, <2>3 DEF mapPage, Fault
    <3>2. 0 .. IdLimit - 1 \subseteq used
      <4>1. tables[id][f] # f
        BY <1>1, <2>3, ReachableIs
      <4>2. QED
        BY <1>1, <2>1, <4>1, AllBelowUsed
    <3>3. Spaces(used', B', dirs', tables', cr3')
      <4>1. Spaces(used \union {f}, B, dirs, tables, c)
        BY <1>1, <2>2, GrowUsed
      <4>2. B' = B
        BY <3>1
      <4> HIDE DEF B, f
      <4>3. QED
        BY <2>1, <3>1, <4>1, <4>2
    <3>4. PagingInv'
      BY <1>1, <3>1, <3>3 DEF PagingInv, Booted, MapPlaces
    <3>5. FaultInv'
      BY <2>1, <3>1, <3>2 DEF FaultInv
    <3>6. QED
      BY <1>1, <3>1, <3>4, <3>5
  <2>4. CASE Reachable(f)
    <3> DEFINE D2 == Linked(dirs, c, index, f)
               T2 == Extended(tables, f)
    <3>1. /\ dirs' = D2 /\ tables' = Entered(T2, [dirs[c] EXCEPT ![index] = f], f, n, phys)
          /\ pc' = next /\ UNCHANGED <<machine, pageDirectory, cr3, phys, fault>>
      BY <1>3, <1>5, <2>4 DEF mapPage, Linked, Extended
    <3>2. tables[id][f] = f
      BY <1>1, <2>4, ReachableIs
    <3>3. D2[c] = [dirs[c] EXCEPT ![index] = f]
      BY <1>2 DEF Linked
    <3>4. /\ D2 = Linked(dirs, c, index, f) /\ T2 = Extended(tables, f)
          /\ tables[IdTable(dirs, c)][f] = f
      BY <3>2
    <3> HIDE DEF D2, T2, f, B
    <3>5. /\ Spaces(used \union {f}, B, D2, T2, c)
          /\ DOMAIN D2 = DOMAIN dirs /\ DOMAIN T2 = DOMAIN tables \union {f}
          /\ IdTable(D2, c) = id /\ T2[id] = tables[id]
          /\ D2[c][index] = f
      <4>1. Spaces(used, B, dirs, tables, c)
        BY <1>1
      <4>2. TableAdded(used, B, dirs, tables, c, index, f)
        BY <2>2, <3>2, <4>1, NewTable
      <4>3. QED
        BY <3>4, <4>2 DEF TableAdded
    <3>6. Fresh(phys, used \union {f}, B, D2, T2, c)
      BY <1>1, <2>2, <3>5 DEF Fresh
    <3>7. f \in DOMAIN T2 /\ f # IdTable(D2, c) /\ f # 0
      BY <1>1, <2>2, <3>5 DEF Spaces, Shape
    <3>8. tables' = Entered(T2, D2[c], f, n, phys)
      BY <3>3, <3>1
    <3>9. /\ Spaces(used \union {f}, B, D2, tables', c)
          /\ tables'[f] = [T2[f] EXCEPT ![n] = phys] /\ phys # None
      BY <3>5, <3>6, <3>7, <3>8, EnterFresh
    <3>10. tables'[f][n] = phys
      <4>1. T2[f] \in [Frames -> Frames \union {None}]
        BY <3>5, <3>7 DEF Spaces, Shape
      <4>2. QED
        BY <3>9, <4>1
    <3>11. Spaces(used', B', dirs', tables', cr3')
      <4>1. B' = B
        BY <3>1 DEF B
      <4>2. QED
        BY <2>1, <3>1, <3>9, <4>1
    <3>12. PagingInv'
      BY <1>1, <3>1, <3>11 DEF PagingInv, Booted, MapPlaces, B
    <3>13. FaultInv'
      BY <2>1, <3>1 DEF FaultInv
    <3>14. dirs'[c][index] = f
      BY <3>1, <3>5
    <3>15. QED
      BY <1>1, <1>5, <3>1, <3>7, <3>9, <3>10, <3>12, <3>13, <3>14
  <2>5. QED
    BY <2>3, <2>4
<1>6. QED
  BY <1>4, <1>5

-----------------------------------------------------------------------------
(* A set with more members than were taken out of it is not empty. *)
LEMMA Remains ==
  ASSUME NEW S, IsFiniteSet(S), NEW x, NEW y
  PROVE  /\ Cardinality(S) >= 2 => S \ {x} # {}
         /\ Cardinality(S) >= 3 => S \ {x, y} # {}
<1>1. /\ IsFiniteSet(S \ {x}) /\ Cardinality(S) \in Nat
      /\ Cardinality(S \ {x}) = IF x \in S THEN Cardinality(S) - 1 ELSE Cardinality(S)
  BY FS_RemoveElement, FS_CardinalityType
<1>2. Cardinality((S \ {x}) \ {y}) =
        IF y \in S \ {x} THEN Cardinality(S \ {x}) - 1 ELSE Cardinality(S \ {x})
  BY <1>1, FS_RemoveElement
<1>3. (S \ {x}) \ {y} = S \ {x, y}
  OBVIOUS
<1>4. Cardinality({}) = 0
  BY FS_EmptySet
<1> DEFINE s == Cardinality(S)
           s1 == Cardinality(S \ {x})
           s2 == Cardinality(S \ {x, y})
<1>5. s \in Nat /\ (s1 = s - 1 \/ s1 = s) /\ (s2 = s1 - 1 \/ s2 = s1)
  BY <1>1, <1>2, <1>3
<1>6. (S \ {x} = {} => s1 = 0) /\ (S \ {x, y} = {} => s2 = 0)
  BY <1>4
<1> HIDE DEF s, s1, s2
<1>7. (s >= 2 => S \ {x} # {}) /\ (s >= 3 => S \ {x, y} # {})
  BY <1>5, <1>6
<1>8. QED
  BY <1>7 DEF s

(* The first directory and the identity table. *)
FirstDir(d, t) == [x \in {d} |-> [EmptyDir EXCEPT ![Identity] = t]]
IdentityTable(t) == [x \in {t} |-> [s \in Frames |-> IF s < IdLimit THEN s ELSE None]]

LEMMA FirstSpaces ==
  ASSUME NEW U, NEW B, B \subseteq U, U \subseteq Frames, 0 \in B, ReservedFrames \subseteq B,
         NEW d \in U \ B, NEW t \in U \ B, d < IdLimit, t < IdLimit
  PROVE  Spaces(U, B, FirstDir(d, t), IdentityTable(t), d)
<1> DEFINE D == FirstDir(d, t)
           T == IdentityTable(t)
           ids == [s \in Frames |-> IF s < IdLimit THEN s ELSE None]
<1>1. /\ Identity \in DirIndex /\ d \in Frames /\ t \in Frames /\ t # 0 /\ d # 0
      /\ \A s \in Frames : s \in Nat
  BY DEF Identity, DirIndex, Frames
<1>2. DOMAIN D = {d} /\ DOMAIN T = {t} /\ T[t] = ids
  BY DEF FirstDir, IdentityTable
<1>3. D[d] = [EmptyDir EXCEPT ![Identity] = t]
  BY DEF FirstDir
<1>4. /\ D[d] \in [DirIndex -> {t, 0}] /\ D[d][Identity] = t
      /\ \A i \in DirIndex \ {Identity} : D[d][i] = 0
  BY <1>1, <1>3 DEF EmptyDir
<1>5. ids \in [Frames -> Frames \union {None}]
  BY DEF None
<1>6. D \in [{d} -> [DirIndex -> {t, 0}]] /\ T \in [{t} -> [Frames -> Frames \union {None}]]
  <2>1. D = [x \in {d} |-> D[d]] /\ T = [x \in {t} |-> ids]
    BY DEF FirstDir, IdentityTable
  <2> HIDE DEF D, T, ids
  <2>2. QED
    BY <1>4, <1>5, <2>1
<1>7. IdTable(D, d) = t
  BY <1>4 DEF IdTable
<1>8. /\ \A s \in Frames : ids[s] = None \/ (ids[s] = s /\ s < IdLimit)
      /\ ids[d] = d /\ ids[t] = t
      /\ \A s \in Frames : s < IdLimit => ids[s] = s
  BY <1>1
<1> HIDE DEF D, T, ids
<1>9. Shape(U, D, T, d)
  <2>1. {t} \union {0} = {t, 0}
    OBVIOUS
  <2>2. \A x \in {d} : /\ D[x][Identity] = t
                       /\ \A i \in DirIndex \ {Identity} : D[x][i] # t
    BY <1>1, <1>4
  <2>3. QED
    BY <1>1, <1>2, <1>6, <1>7, <2>1, <2>2 DEF Shape
<1>10. IdMapped(U, D, T, d)
  BY <1>2, <1>7, <1>8 DEF IdMapped
<1>11. Single(B, T)
  <2>1. \A s \in Frames : ids[s] \in Frames => ids[s] = s
    BY <1>8 DEF None, Frames
  <2>2. QED
    BY <1>2, <2>1 DEF Single
<1>12. Spaces(U, B, D, T, d)
  BY <1>9, <1>10, <1>11 DEF Spaces
<1>13. QED
  BY <1>12 DEF D, T

(* The boot code finds frames for the directory, the identity table and    *)
(* the heap.                                                               *)
LEMMA BootStep ==
  ASSUME PagingInv, FaultInv, generatePageTable
  PROVE  PagingInv' /\ FaultInv' /\ pc = "boot" /\ pc' = "inputBuf"
<1> DEFINE B == BootMarks(machine)
           d == LowestFree(used)
           t == LowestFree(used \union {d})
           h == LowestFree(used \union {d, t})
           U == used \union {d, t, h}
           low == (0 .. IdLimit - 1) \ B
<1>1. pc = "boot" /\ Survives(machine) /\ used = B /\ machine \in Machines
  BY DEF PagingInv, generatePageTable
<1>2. 0 \in B /\ ReservedFrames \subseteq B /\ B \subseteq Frames
  BY <1>1 DEF BootMarks, Survives, ReservedFrames, Frames
<1>3. /\ used' = U /\ dirs' = FirstDir(d, t) /\ tables' = IdentityTable(t)
      /\ pageDirectory' = d /\ cr3' = d /\ pc' = "inputBuf"
      /\ UNCHANGED <<machine, phys, fault>> /\ Cardinality(Frames \ B) >= 3
  BY <1>1 DEF generatePageTable, FirstDir, IdentityTable
<1>4. IsFiniteSet(low) /\ Cardinality(low) >= 2
  <2>1. IsFiniteSet(0 .. IdLimit - 1)
    BY FS_Interval DEF Frames
  <2>2. QED
    BY <1>1, <2>1, FS_Subset, BootRoomAssumption
<1>5. IsFiniteSet(Frames \ B)
  <2>1. IsFiniteSet(Frames)
    BY FS_Interval DEF Frames
  <2>2. QED
    BY <2>1, FS_Subset
<1>6. low \subseteq Frames \ B /\ (\A g \in low : g < IdLimit) /\ IdLimit \in Nat /\ Frames \subseteq Nat
  BY DEF Frames
<1>7. low # {} /\ low \ {d} # {} /\ (Frames \ B) \ {d, t} # {}
  BY <1>3, <1>4, <1>5, Remains
<1> HIDE DEF B
<1>8. d \in Frames \ B /\ d < IdLimit
  <2>1. Frames \ used # {}
    BY <1>1, <1>6, <1>7
  <2>2. d \in Frames \ used /\ \A g \in Frames \ used : d <= g
    BY <2>1, LowestFreeIs
  <2>3. PICK g \in low : TRUE
    BY <1>7
  <2> HIDE DEF d, low
  <2>4. g \in Frames \ used /\ g < IdLimit
    BY <1>1, <1>6
  <2>5. d <= g /\ d \in Nat /\ g \in Nat
    BY <1>6, <2>2, <2>4
  <2>6. QED
    BY <1>1, <1>6, <2>2, <2>4, <2>5
<1>9. t \in Frames \ (B \union {d}) /\ t < IdLimit
  <2>1. low \ {d} \subseteq Frames \ (used \union {d})
    BY <1>1, <1>6
  <2>2. Frames \ (used \union {d}) # {}
    BY <1>7, <2>1
  <2>3. t \in Frames \ (used \union {d}) /\ \A g \in Frames \ (used \union {d}) : t <= g
    BY <2>2, LowestFreeIs
  <2>4. PICK g \in low \ {d} : TRUE
    BY <1>7
  <2> HIDE DEF d, t, low
  <2>5. g \in Frames \ (used \union {d}) /\ g < IdLimit
    BY <1>6, <2>1
  <2>6. t <= g /\ t \in Frames /\ t \in Nat /\ g \in Nat
    BY <1>6, <2>3, <2>5
  <2>7. QED
    BY <1>1, <1>6, <2>3, <2>5, <2>6
<1>10. h \in Frames
  <2>1. Frames \ (used \union {d, t}) # {}
    BY <1>1, <1>7
  <2>2. QED
    BY <2>1, LowestFreeIs
<1> HIDE DEF d, t, h
<1>11. Spaces(U, B, FirstDir(d, t), IdentityTable(t), d)
  BY <1>1, <1>2, <1>8, <1>9, <1>10, FirstSpaces
<1>12. B' = B
  BY <1>3 DEF B
<1>13. Spaces(used', B', dirs', tables', cr3') /\ cr3' # 0
  BY <1>2, <1>3, <1>8, <1>11, <1>12
<1>14. PagingInv'
  BY <1>1, <1>3, <1>13 DEF PagingInv, Booted, MapPlaces, B
<1>15. FaultInv'
  BY <1>3 DEF FaultInv
<1>16. QED
  BY <1>1, <1>3, <1>14, <1>15

-----------------------------------------------------------------------------
(* The number of pages that x bytes need. *)
LEMMA PagesNeeded ==
  ASSUME NEW p \in Nat \ {0}, NEW x \in Nat \ {0}, NEW N \in Nat, x <= N * p
  PROVE  /\ (x + p - 1) \div p \in 1 .. N
         /\ \A v \in 0 .. x - 1 : v \div p \in 0 .. (x + p - 1) \div p - 1
<1> DEFINE y == x + p - 1
           q == y \div p
           r == y % p
<1>1. y \in Nat /\ y >= p
  OBVIOUS
<1> HIDE DEF y
<1>2. q \in Nat /\ r \in 0 .. p - 1 /\ y = p * q + r
  BY <1>1
<1> HIDE DEF q, r
<1>3. q <= N
  BY <1>2 DEF y
<1>4. q >= 1
  BY <1>1, <1>2
<1>5. ASSUME NEW v \in 0 .. x - 1
      PROVE  v \div p \in 0 .. q - 1
  <2> DEFINE w == v \div p
             s == v % p
  <2>1. w \in Nat /\ s \in 0 .. p - 1 /\ v = p * w + s
    OBVIOUS
  <2> HIDE DEF w, s
  <2>2. w < q
    BY <1>2, <2>1 DEF y
  <2>3. w \in 0 .. q - 1
    BY <1>2, <2>1, <2>2
  <2>4. QED
    BY <2>3 DEF w
<1>6. QED
  BY <1>2, <1>3, <1>4, <1>5 DEF q, y

(* The segments of an ELF file. *)
LEMMA Segments ==
  ASSUME NEW im \in Images, im.elf, NEW k \in {1, 2}
  PROVE  /\ im.ph[k].vaddr \in Nat /\ im.ph[k].memsz \in Nat \ {0}
         /\ im.ph[k].filesz \in Nat /\ im.ph[k].filesz <= im.ph[k].memsz
         /\ im.ph[k].vaddr + im.ph[k].memsz \in Area
<1>1. /\ im.ph[k].vaddr \in Nat /\ im.ph[k].memsz \in Nat \ {0}
      /\ im.ph[k].vaddr + im.ph[k].memsz \in Area
      /\ im.ph[k].filesz \in 0 .. im.ph[k].memsz
  OBVIOUS
<1>2. QED
  BY <1>1

LEMMA AreaBound ==
  /\ ProgramPages \in Nat \ {0} /\ PageSize \in Nat \ {0} /\ ProgramPages <= NumFrames
  /\ \A v : v \in Area <=> v \in Nat /\ v < ProgramPages * PageSize
<1>1. ProgramPages \in Nat \ {0} /\ PageSize \in Nat \ {0} /\ ProgramPages <= NumFrames
  OBVIOUS
<1>2. QED
  BY <1>1 DEF Area

(* The pages of a program fit into the area, and every byte up to the end  *)
(* of the highest segment lies in one of them.                             *)
HighestEnd == highestHeader.vaddr + highestHeader.memsz

LEMMA ProgramLenIs ==
  ASSUME image \in Images, image.elf
  PROVE  /\ ProgramLen \in 1 .. ProgramPages
         /\ \A v \in 0 .. HighestEnd - 1 : v \div PageSize \in 0 .. ProgramLen - 1
<1>1. PICK k \in {1, 2} : highestHeader = image.ph[k]
  BY DEF highestHeader
<1>2. HighestEnd \in Nat \ {0} /\ HighestEnd \in Area
  BY <1>1, Segments DEF HighestEnd
<1>3. ProgramLen = (HighestEnd + PageSize - 1) \div PageSize
  BY DEF ProgramLen, HighestEnd
<1>4. HighestEnd <= ProgramPages * PageSize
  BY <1>2, AreaBound
<1>5. /\ (HighestEnd + PageSize - 1) \div PageSize \in 1 .. ProgramPages
      /\ \A v \in 0 .. HighestEnd - 1 :
           v \div PageSize \in 0 .. (HighestEnd + PageSize - 1) \div PageSize - 1
  BY <1>2, <1>4, AreaBound, PagesNeeded
<1>6. QED
  BY ONLY <1>3, <1>5, Zenon

(* Steps that change nothing but what runs next and, before the program's  *)
(* pages are mapped, the address space.                                    *)
LEMMA ProgramKept ==
  ASSUME ProgramInv, UNCHANGED loaderVars,
         slot > 0 /\ pc' # "fault" => UNCHANGED <<dirs, tables, cr3>>,
         \/ pc' = "fault" /\ (slot > 0 => pc \in LoadPlaces)
         \/ pc' = pc
         \/ pc' \notin LoadPlaces /\ pc \notin LoadPlaces
         \/ pc = "pages" /\ pc' = "mapPages"
         \/ pc = "bin" /\ pc' = "mapBin"
  PROVE  ProgramInv'
<1>1. UNCHANGED <<image, slot, cells, end>>
  BY DEF loaderVars
<1>2. ProgramLen' = ProgramLen /\ TextLoaded' = TextLoaded
  BY <1>1 DEF ProgramLen, highestHeader, TextLoaded
<1>3. slot > 0 /\ pc' # "fault" => SlotsMapped' = SlotsMapped
  BY <1>1 DEF SlotsMapped
<1>4. QED
  BY <1>1, <1>2, <1>3 DEF ProgramInv, LoadPlaces, ElfPlaces

-----------------------------------------------------------------------------
(* The steps that do not touch the address space. *)
LEMMA GotoStep ==
  ASSUME PagingInv, FaultInv, NEW at, NEW next, Goto(at, next),
         at \notin {"boot", "destroyed"},
         next \notin MapPlaces \union {"boot", "destroyed", "fault"}
  PROVE  PagingInv' /\ FaultInv' /\ UNCHANGED <<dirs, tables, cr3>> /\ pc = at /\ pc' = next
<1>1. /\ pc = at /\ pc' = next
      /\ UNCHANGED <<machine, used, dirs, tables, pageDirectory, cr3, phys, fault>>
  BY DEF Goto
<1>2. QED
  BY <1>1 DEF PagingInv, FaultInv, Booted

LEMMA FaultStep ==
  ASSUME PagingInv, NEW op, op \notin {"mapPage", "allocPage"}, Fault(op), Booted,
         UNCHANGED used
  PROVE  PagingInv' /\ FaultInv' /\ pc' = "fault"
<1>1. /\ pc' = "fault" /\ fault' = op
      /\ UNCHANGED <<machine, used, dirs, tables, pageDirectory, cr3, phys>>
  BY DEF Fault
<1>2. QED
  BY <1>1 DEF PagingInv, FaultInv, Booted, MapPlaces

(* The directory of a new task. *)
LEMMA CloneLinkStep ==
  ASSUME PagingInv, FaultInv, cloneLink
  PROVE  PagingInv' /\ FaultInv' /\ pc = "clone" /\ pc' = "cloneStack"
<1> DEFINE B == BootMarks(machine)
<1>1. /\ pc = "clone" /\ pc' = "cloneStack"
      /\ UNCHANGED <<machine, used, tables, pageDirectory, cr3, phys, fault>>
  BY DEF cloneLink
<1>2. /\ machine \in Machines /\ pageDirectory = cr3 /\ cr3 # 0
      /\ Spaces(used, B, dirs, tables, cr3) /\ Fresh(phys, used, B, dirs, tables, cr3)
  BY <1>1 DEF PagingInv, Booted, MapPlaces
<1>3. dirs' = Cloned(dirs, cr3, phys)
  BY <1>2 DEF cloneLink, Cloned
<1>4. Spaces(used, B, dirs', tables, cr3)
  BY <1>2, <1>3, NewDirectory
<1>5. Spaces(used', B', dirs', tables', cr3')
  BY <1>1, <1>4
<1>6. QED
  BY <1>1, <1>2, <1>5 DEF PagingInv, FaultInv, Booted, MapPlaces

(* System call 6 maps a reserved frame. *)
LEMMA SbrkStep ==
  ASSUME PagingInv, FaultInv, sbrk, slot \in 0 .. ProgramPages, dirs[cr3][Program] # 0
  PROVE  /\ PagingInv' /\ FaultInv' /\ pc = "program"
         /\ AllocPageFrame # None
         /\ tables'[dirs[cr3][Program]] =
              [tables[dirs[cr3][Program]] EXCEPT ![slot] = AllocPageFrame]
<1> DEFINE B == BootMarks(machine)
           t == dirs[cr3][Program]
<1>1. /\ pc = "program" /\ slot < ProgramPages
      /\ tables' = [tables EXCEPT ![t][slot] = AllocPageFrame]
      /\ UNCHANGED <<machine, used, dirs, pageDirectory, cr3, pc, phys, fault>>
  BY DEF sbrk
<1>2. /\ machine \in Machines /\ pageDirectory = cr3 /\ cr3 # 0
      /\ Spaces(used, B, dirs, tables, cr3)
  BY <1>1 DEF PagingInv, Booted
<1>3. t \in DOMAIN tables /\ t # IdTable(dirs, cr3)
  BY <1>2 DEF Spaces, Shape, Program, Identity, DirIndex
<1>4. slot \in Frames
  BY <1>1, AreaBound DEF Frames
<1>5. AllocPageFrame \in B /\ AllocPageFrame # None
  BY <1>2 DEF Spaces, ReservedFrames, None, Frames
<1> HIDE DEF t
<1>6. Spaces(used, B, dirs, tables', cr3) /\ tables'[t] = [tables[t] EXCEPT ![slot] = AllocPageFrame]
  BY <1>1, <1>2, <1>3, <1>4, <1>5, EnterWithheld
<1>7. Spaces(used', B', dirs', tables', cr3')
  BY <1>1, <1>6
<1>8. PagingInv' /\ FaultInv'
  BY <1>1, <1>2, <1>7 DEF PagingInv, FaultInv, Booted, MapPlaces
<1>9. QED
  BY <1>1, <1>5, <1>6, <1>8 DEF t

-----------------------------------------------------------------------------
(* The steps that allocate a page. *)
LEMMA AllocInv ==
  ASSUME LoaderInv, UNCHANGED loaderVars, NEW at, NEW next, allocPage(at, next),
         \/ at = next /\ at \in {"run", "headers", "readBin", "program"}
         \/ at \in {"inputBuf", "stack", "run", "cloneStack"}
              /\ next \in {"mapInputBuf", "mapStack", "clone", "cloneCopy"}
         \/ at = "pages" /\ next = "mapPages"
         \/ at = "bin" /\ next = "mapBin"
  PROVE  LoaderInv'
<1>1. /\ PagingInv' /\ FaultInv' /\ UNCHANGED <<dirs, tables, cr3>>
      /\ pc = at /\ pc' \in {next, "fault"}
  BY AllocStep DEF LoaderInv
<1>2. slot > 0 => pc \in LoadPlaces
  BY DEF LoaderInv, ProgramInv
<1>3. ProgramInv'
  BY <1>1, <1>2, ProgramKept DEF LoaderInv, LoadPlaces, ElfPlaces
<1>4. QED
  BY <1>1, <1>3 DEF LoaderInv

(* The pages that the boot code maps. *)
LEMMA BootMapInv ==
  ASSUME LoaderInv, UNCHANGED loaderVars, NEW index \in {InputBuf, Stack},
         NEW at \in {"mapInputBuf", "mapStack"}, NEW next \in {"stack", "run"},
         mapPage(at, next, pageDirectory, index, 0)
  PROVE  LoaderInv'
<1>1. pc = at /\ pageDirectory = cr3
  BY DEF mapPage, LoaderInv, PagingInv, Booted
<1>2. mapPage(at, next, cr3, index, 0)
  BY <1>1
<1>3. at \in MapPlaces /\ index \in DirIndex \ {Identity} /\ 0 \in Frames
  BY DEF MapPlaces, InputBuf, Stack, DirIndex, Identity, Frames
<1>4. PagingInv' /\ FaultInv' /\ pc' \in {"fault", next}
  BY <1>2, <1>3, MapStep DEF LoaderInv, MapPlaces
<1>5. slot > 0 => pc \in LoadPlaces
  BY DEF LoaderInv, ProgramInv
<1>6. pc \notin LoadPlaces
  BY <1>1 DEF LoadPlaces, ElfPlaces
<1>7. ProgramInv'
  BY <1>4, <1>5, <1>6, ProgramKept DEF LoaderInv, LoadPlaces, ElfPlaces
<1>8. QED
  BY <1>4, <1>7 DEF LoaderInv

LEMMA BootInv ==
  ASSUME LoaderInv, boot
  PROVE  LoaderInv'
<1>1. UNCHANGED loaderVars
  BY DEF boot
<1>2. CASE generatePageTable
  <2>1. PagingInv' /\ FaultInv' /\ pc = "boot" /\ pc' = "inputBuf"
    BY <1>2, BootStep DEF LoaderInv
  <2>2. slot > 0 => pc \in LoadPlaces
    BY DEF LoaderInv, ProgramInv
  <2>3. ProgramInv'
    BY <1>1, <2>1, <2>2, ProgramKept DEF LoaderInv, LoadPlaces, ElfPlaces
  <2>4. QED
    BY <2>1, <2>3 DEF LoaderInv
<1>3. CASE startPaging
  <2>1. CASE allocPage("inputBuf", "mapInputBuf")
    BY <1>1, <2>1, AllocInv
  <2>2. CASE mapPage("mapInputBuf", "stack", pageDirectory, InputBuf, 0)
    BY <1>1, <2>2, BootMapInv
  <2>3. QED
    BY <1>3, <2>1, <2>2 DEF startPaging
<1>4. CASE moveStack
  <2>1. CASE allocPage("stack", "mapStack")
    BY <1>1, <2>1, AllocInv
  <2>2. CASE mapPage("mapStack", "run", pageDirectory, Stack, 0)
    BY <1>1, <2>2, BootMapInv
  <2>3. QED
    BY <1>4, <2>1, <2>2 DEF moveStack
<1>5. QED
  BY <1>2, <1>3, <1>4 DEF boot

LEMMA CloneInv ==
  ASSUME LoaderInv, clone
  PROVE  LoaderInv'
<1>1. UNCHANGED loaderVars
  BY DEF clone
<1>2. slot > 0 => pc \in LoadPlaces
  BY DEF LoaderInv, ProgramInv
<1>3. CASE allocPage("run", "clone")
  BY <1>1, <1>3, AllocInv
<1>4. CASE cloneLink
  <2>1. PagingInv' /\ FaultInv' /\ pc = "clone" /\ pc' = "cloneStack"
    BY <1>4, CloneLinkStep DEF LoaderInv
  <2>2. ProgramInv'
    BY <1>1, <1>2, <2>1, ProgramKept DEF LoaderInv, LoadPlaces, ElfPlaces
  <2>3. QED
    BY <2>1, <2>2 DEF LoaderInv
<1>5. CASE allocPage("cloneStack", "cloneCopy")
  BY <1>1, <1>5, AllocInv
<1>6. CASE cloneCopyStack
  <2>1. pc = "cloneCopy"
    BY <1>6 DEF cloneCopyStack
  <2>2. PagingInv' /\ FaultInv' /\ pc' \in {"fault", "cloneMap"}
    <3>1. CASE Fault("clone") /\ UNCHANGED used
      BY <2>1, <3>1, FaultStep DEF LoaderInv, Booted
    <3>2. CASE pc' = "cloneMap" /\ UNCHANGED <<machine, used, dirs, tables, pageDirectory, cr3, phys, fault>>
      BY <2>1, <3>2 DEF LoaderInv, PagingInv, FaultInv, Booted, MapPlaces
    <3>3. QED
      BY <1>6, <3>1, <3>2 DEF cloneCopyStack
  <2>3. ProgramInv'
    BY <1>1, <1>2, <2>1, <2>2, ProgramKept DEF LoaderInv, LoadPlaces, ElfPlaces
  <2>4. QED
    BY <2>2, <2>3 DEF LoaderInv
<1>7. QED
  BY <1>3, <1>4, <1>5, <1>6 DEF clone, clonePageDirectory

(* A page of the program. *)
LEMMA TaskPageMapped ==
  ASSUME LoaderInv, NEW at, NEW next,
         <<at, next>> \in {<<"mapPages", "pages">>, <<"mapBin", "readBin">>},
         slot < ProgramPages, mapPage(at, next, cr3, Program, slot),
         slot' = slot + 1, UNCHANGED <<image, cells, end>>
  PROVE  LoaderInv'
<1> DEFINE old == dirs[cr3][Program]
           new == dirs'[cr3][Program]
<1>1. /\ PagingInv /\ FaultInv /\ ProgramInv /\ slot \in 0 .. ProgramPages /\ pc = at
      /\ image \in Images
  BY DEF LoaderInv, ProgramInv, mapPage
<1>2. /\ at \in MapPlaces /\ next \notin MapPlaces \union {"boot", "destroyed", "fault"}
      /\ Program \in DirIndex \ {Identity}
  BY DEF MapPlaces, Program, DirIndex, Identity
<1>3. slot \in Frames
  BY <1>1, AreaBound DEF Frames
<1>4. /\ PagingInv' /\ FaultInv' /\ UNCHANGED cr3
      /\ \/ pc' = "fault"
         \/ /\ pc' = next /\ phys # None /\ new # 0
            /\ old # 0 => /\ new = old
                          /\ \A s \in Frames \ {slot} : tables'[new][s] = tables[old][s]
            /\ tables'[new][slot] = phys
  BY <1>1, <1>2, <1>3, MapStep
<1>5. slot' \in 0 .. ProgramPages /\ slot' > 0
  BY <1>1
<1>6. CASE pc' = "fault"
  BY <1>1, <1>4, <1>5, <1>6 DEF LoaderInv, ProgramInv, LoadPlaces, ElfPlaces
<1>7. CASE pc' # "fault"
  <2>1. SlotsMapped'
    <3>1. slot > 0 => old # 0 /\ \A s \in 0 .. slot - 1 : tables[old][s] # None
      BY <1>1 DEF ProgramInv, SlotsMapped
    <3>2. ASSUME NEW s \in 0 .. slot
          PROVE  tables'[new][s] # None
      <4>1. CASE s = slot
        BY <1>4, <1>7, <4>1
      <4>2. CASE s # slot
        <5>1. slot > 0 /\ s \in 0 .. slot - 1 /\ s \in Frames /\ s # slot
          BY <1>1, <1>3, <4>2 DEF Frames
        <5>2. old # 0 /\ tables[old][s] # None
          BY <3>1, <5>1
        <5>3. tables'[new][s] = tables[old][s]
          BY <1>4, <1>7, <5>1, <5>2
        <5>4. QED
          BY <5>2, <5>3
      <4>3. QED
        BY <4>1, <4>2
    <3>3. dirs'[cr3'][Program] = new /\ new # 0 /\ 0 .. slot' - 1 = 0 .. slot
      BY <1>1, <1>4, <1>7
    <3> HIDE DEF new
    <3>4. QED
      BY <3>2, <3>3 DEF SlotsMapped
  <2>2. ProgramInv'
    BY <1>1, <1>4, <1>5, <1>7, <2>1 DEF ProgramInv, LoadPlaces, ElfPlaces
  <2>3. QED
    BY <1>4, <2>2 DEF LoaderInv
<1>8. QED
  BY <1>6, <1>7

-----------------------------------------------------------------------------
LEMMA HeadersInv ==
  ASSUME LoaderInv, loadHeaders
  PROVE  LoaderInv'
<1>1. UNCHANGED loaderVars
  BY DEF loadHeaders, heapPage
<1>2. slot > 0 => pc \in LoadPlaces
  BY DEF LoaderInv, ProgramInv
<1>3. CASE Goto("run", "headers")
  <2>1. /\ PagingInv' /\ FaultInv' /\ pc = "run" /\ pc' = "headers"
        /\ UNCHANGED <<dirs, tables, cr3>>
    BY <1>3, GotoStep DEF LoaderInv, MapPlaces
  <2>2. ProgramInv'
    BY <1>1, <1>2, <2>1, ProgramKept DEF LoaderInv, LoadPlaces, ElfPlaces
  <2>3. QED
    BY <2>1, <2>2 DEF LoaderInv
<1>4. CASE heapPage("headers")
  BY <1>1, <1>4, AllocInv DEF heapPage
<1>5. CASE Goto("headers", IF image.elf THEN "pages" ELSE "bin")
  <2> DEFINE next == IF image.elf THEN "pages" ELSE "bin"
  <2>1. (image.elf => next = "pages") /\ (~image.elf => next = "bin") /\ next \in {"pages", "bin"}
    OBVIOUS
  <2>2. Goto("headers", next)
    BY <1>5
  <2> HIDE DEF next
  <2>3. PagingInv' /\ FaultInv' /\ pc = "headers" /\ pc' = next
    BY <2>1, <2>2, GotoStep DEF LoaderInv, MapPlaces
  <2>4. slot = 0
    BY <1>2, <2>3 DEF LoadPlaces, ElfPlaces, LoaderInv, ProgramInv
  <2>5. ProgramInv'
    BY <1>1, <2>1, <2>3, <2>4 DEF LoaderInv, ProgramInv, LoadPlaces, ElfPlaces, loaderVars
  <2>6. QED
    BY <2>3, <2>5 DEF LoaderInv
<1>6. QED
  BY <1>3, <1>4, <1>5 DEF loadHeaders

LEMMA PagesInv ==
  ASSUME LoaderInv, loadPages
  PROVE  LoaderInv'
<1>1. /\ pc \in {"pages", "mapPages"} /\ image \in Images /\ image.elf
      /\ slot \in 0 .. ProgramPages /\ PagingInv /\ FaultInv /\ ProgramInv
  BY DEF loadPages, LoaderInv, ProgramInv, ElfPlaces
<1>2. ProgramLen \in 1 .. ProgramPages
  BY <1>1, ProgramLenIs
<1>3. CASE slot < ProgramLen /\ mapTaskPage("pages", "mapPages", "pages")
  <2>1. CASE allocPage("pages", "mapPages") /\ UNCHANGED loaderVars
    BY <2>1, AllocInv
  <2>2. CASE /\ mapPage("mapPages", "pages", cr3, Program, slot)
             /\ slot' = slot + 1 /\ UNCHANGED <<image, cells, end>>
    <3>1. slot < ProgramPages
      BY <1>1, <1>2, <1>3, AreaBound
    <3>2. QED
      BY <2>2, <3>1, TaskPageMapped
  <2>3. QED
    BY <1>3, <2>1, <2>2 DEF mapTaskPage
<1>4. CASE slot = ProgramLen /\ Goto("pages", "text") /\ UNCHANGED loaderVars
  <2>1. /\ PagingInv' /\ FaultInv' /\ pc = "pages" /\ pc' = "text"
        /\ UNCHANGED <<dirs, tables, cr3>>
    BY <1>1, <1>4, GotoStep DEF MapPlaces
  <2>2. UNCHANGED <<image, slot>> /\ ProgramLen' = ProgramLen
    BY <1>4 DEF loaderVars, ProgramLen, highestHeader
  <2>3. SlotsMapped' = SlotsMapped
    BY <2>1, <2>2 DEF SlotsMapped
  <2>4. slot' >= ProgramLen' /\ slot' > 0
    BY <1>2, <1>4, <2>2
  <2>5. ProgramInv'
    BY <1>1, <2>1, <2>2, <2>3, <2>4 DEF ProgramInv, LoadPlaces, ElfPlaces
  <2>6. QED
    BY <2>1, <2>5 DEF LoaderInv
<1>5. QED
  BY <1>3, <1>4 DEF loadPages

LEMMA BinInv ==
  ASSUME LoaderInv, loadBin
  PROVE  LoaderInv'
<1>1. CASE slot = 0 /\ mapTaskPage("bin", "mapBin", "readBin")
  <2>1. CASE allocPage("bin", "mapBin") /\ UNCHANGED loaderVars
    BY <2>1, AllocInv
  <2>2. CASE /\ mapPage("mapBin", "readBin", cr3, Program, slot)
             /\ slot' = slot + 1 /\ UNCHANGED <<image, cells, end>>
    <3>1. slot < ProgramPages
      BY <1>1, AreaBound
    <3>2. QED
      BY <2>2, <3>1, TaskPageMapped
  <2>3. QED
    BY <1>1, <2>1, <2>2 DEF mapTaskPage
<1>2. CASE heapPage("readBin")
  BY <1>2, AllocInv DEF heapPage
<1>3. CASE /\ Goto("readBin", "program")
           /\ UNCHANGED <<image, slot, end>>
  <2>1. /\ PagingInv' /\ FaultInv' /\ pc = "readBin" /\ pc' = "program"
        /\ UNCHANGED <<dirs, tables, cr3>>
    BY <1>3, GotoStep DEF MapPlaces, LoaderInv
  <2>2. SlotsMapped' = SlotsMapped
    BY <1>3, <2>1 DEF SlotsMapped
  <2>3. ProgramInv'
    BY <1>3, <2>1, <2>2 DEF LoaderInv, ProgramInv, LoadPlaces, ElfPlaces
  <2>4. QED
    BY <2>1, <2>3 DEF LoaderInv
<1>4. QED
  BY <1>1, <1>2, <1>3 DEF loadBin

LEMMA SbrkInv ==
  ASSUME LoaderInv, sbrk
  PROVE  LoaderInv'
<1> DEFINE t == dirs[cr3][Program]
<1>1. /\ PagingInv /\ FaultInv /\ ProgramInv /\ slot \in 0 .. ProgramPages
      /\ pc = "program" /\ slot < ProgramPages /\ slot' = slot + 1
      /\ UNCHANGED <<machine, used, dirs, pageDirectory, cr3, pc, phys, fault, image, cells, end>>
  BY DEF LoaderInv, ProgramInv, sbrk
<1>2. slot > 0 /\ SlotsMapped
  BY <1>1 DEF ProgramInv
<1>3. t # 0 /\ \A s \in 0 .. slot - 1 : tables[t][s] # None
  BY <1>2 DEF SlotsMapped
<1>4. /\ PagingInv' /\ FaultInv' /\ AllocPageFrame # None
      /\ tables'[t] = [tables[t] EXCEPT ![slot] = AllocPageFrame]
  BY <1>1, <1>3, SbrkStep
<1>5. tables[t] \in [Frames -> Frames \union {None}]
  BY <1>1, <1>3 DEF PagingInv, Booted, Spaces, Shape, Program, DirIndex
<1>6. slot \in Frames /\ 0 .. slot' - 1 = 0 .. slot /\ 0 .. slot \subseteq Frames
  BY <1>1, AreaBound DEF Frames
<1>7. SlotsMapped'
  <2>1. dirs'[cr3'][Program] = t
    BY <1>1
  <2> HIDE DEF t
  <2>2. \A s \in 0 .. slot : tables'[t][s] # None
    BY <1>1, <1>3, <1>4, <1>5, <1>6
  <2>3. QED
    BY <1>3, <1>6, <2>1, <2>2 DEF SlotsMapped
<1>8. ProgramLen' = ProgramLen /\ TextLoaded' = TextLoaded /\ slot' > 0 /\ slot' \in 0 .. ProgramPages
  BY <1>1 DEF ProgramLen, highestHeader, TextLoaded
<1>9. image.elf => slot' >= ProgramLen
  <2>1. ASSUME image.elf PROVE ProgramLen \in Int /\ slot >= ProgramLen
    BY <1>1, <2>1, ProgramLenIs DEF ProgramInv
  <2>2. QED
    BY <1>1, <2>1
<1>10. ProgramInv'
  BY <1>1, <1>7, <1>8, <1>9 DEF ProgramInv, LoadPlaces, ElfPlaces
<1>11. QED
  BY <1>4, <1>10 DEF LoaderInv

(* Every byte up to the end of the highest segment has a page once the     *)
(* pages are mapped, and so has every byte of its last page.               *)
LEMMA MappedBelow ==
  ASSUME image \in Images, image.elf, SlotsMapped, slot \in 0 .. ProgramPages, slot >= ProgramLen,
         NEW v \in Nat, NEW w \in 0 .. HighestEnd - 1, v \div PageSize <= w \div PageSize
  PROVE  Mapped(v)
<1> DEFINE p == v \div PageSize
<1>1. ProgramLen \in 1 .. ProgramPages /\ w \div PageSize \in 0 .. ProgramLen - 1
  BY ProgramLenIs
<1>2. p \in Nat /\ v < PageSize * (p + 1)
  BY AreaBound
<1>3. p \in 0 .. slot - 1 /\ p + 1 <= ProgramPages
  BY <1>1, <1>2
<1>4. v \in Area
  <2> HIDE DEF p
  <2>1. PageSize * (p + 1) <= PageSize * ProgramPages
    BY <1>2, <1>3, AreaBound
  <2>2. QED
    BY <1>2, <1>3, <2>1, AreaBound
<1>5. QED
  BY <1>3, <1>4 DEF Mapped, SlotsMapped

LEMMA TextInv ==
  ASSUME LoaderInv, readText
  PROVE  LoaderInv'
<1> DEFINE text == image.ph[1]
           range == text.vaddr .. text.vaddr + text.filesz - 1
<1>1. /\ PagingInv /\ FaultInv /\ ProgramInv /\ pc = "text" /\ UNCHANGED <<image, slot, end>>
  BY DEF LoaderInv, readText
<1>2. /\ image \in Images /\ image.elf /\ slot \in 0 .. ProgramPages /\ slot >= ProgramLen
  BY <1>1 DEF ProgramInv, ElfPlaces
<1>3. CASE Fault("load") /\ UNCHANGED <<used, cells>>
  <2>1. PagingInv' /\ FaultInv' /\ pc' = "fault"
    BY <1>1, <1>3, FaultStep DEF Booted
  <2>2. ProgramInv'
    BY <1>1, <1>3, <2>1 DEF ProgramInv, LoadPlaces, ElfPlaces
  <2>3. QED
    BY <2>1, <2>2 DEF LoaderInv
<1>4. CASE /\ Goto("text", "padding")
           /\ cells' = [v \in Area |-> IF v \in range THEN v - text.vaddr ELSE cells[v]]
  <2>1. /\ PagingInv' /\ FaultInv' /\ pc' = "padding" /\ UNCHANGED <<dirs, tables, cr3>>
    BY <1>1, <1>4, GotoStep DEF MapPlaces
  <2>2. SlotsMapped' = SlotsMapped /\ ProgramLen' = ProgramLen
    BY <1>1, <2>1 DEF SlotsMapped, ProgramLen, highestHeader
  <2>3. TextLoaded'
    BY <1>1, <1>4 DEF TextLoaded
  <2>4. ProgramInv'
    BY <1>1, <1>2, <2>1, <2>2, <2>3 DEF ProgramInv, LoadPlaces, ElfPlaces
  <2>5. QED
    BY <2>1, <2>4 DEF LoaderInv
<1>5. QED
  BY <1>3, <1>4 DEF readText

(* What kmemcpy does not write stays. *)
LEMMA CopiedOutside ==
  ASSUME NEW c, NEW to \in Int, NEW from \in Int, NEW n \in Int, NEW v \in Area, v < to
  PROVE  Copied(c, to, from, n)[v] = c[v]
  BY DEF Copied, Area

LEMMA PaddingInv ==
  ASSUME LoaderInv, fillPadding
  PROVE  LoaderInv'
<1> DEFINE text == image.ph[1]
           data == image.ph[2]
           textEnd == text.vaddr + text.memsz
           pageLine == data.vaddr - (data.vaddr % PageSize)
           dataPadLen == pageLine - textEnd
           textPadLen == data.vaddr - pageLine
           first == Copied(cells, pageLine - dataPadLen, pageLine + textPadLen, dataPadLen)
           from == pageLine - dataPadLen - textPadLen
<1>1. /\ PagingInv /\ FaultInv /\ ProgramInv /\ pc = "padding" /\ UNCHANGED <<image, slot>>
  BY DEF LoaderInv, fillPadding
<1>2. /\ image \in Images /\ image.elf /\ slot \in 0 .. ProgramPages /\ slot >= ProgramLen
      /\ TextLoaded
  BY <1>1 DEF ProgramInv, ElfPlaces
<1>3. CASE Fault("load") /\ UNCHANGED <<used, cells, end>>
  <2>1. PagingInv' /\ FaultInv' /\ pc' = "fault"
    BY <1>1, <1>3, FaultStep DEF Booted
  <2>2. ProgramInv'
    BY <1>1, <1>3, <2>1 DEF ProgramInv, LoadPlaces, ElfPlaces
  <2>3. QED
    BY <2>1, <2>2 DEF LoaderInv
<1>4. CASE /\ CanCopy(pageLine - dataPadLen, pageLine + textPadLen, dataPadLen)
           /\ Goto("padding", "program")
           /\ cells' = IF textPadLen > 0 THEN Copied(first, pageLine, from, textPadLen) ELSE first
  <2>1. /\ PagingInv' /\ FaultInv' /\ pc' = "program" /\ UNCHANGED <<dirs, tables, cr3>>
    BY <1>1, <1>4, GotoStep DEF MapPlaces
  <2>2. SlotsMapped' = SlotsMapped /\ ProgramLen' = ProgramLen
    BY <1>1, <2>1 DEF SlotsMapped, ProgramLen, highestHeader
  <2>3. /\ text.vaddr \in Nat /\ text.memsz \in Nat /\ text.filesz \in Nat
        /\ text.filesz <= text.memsz /\ data.vaddr \in Nat
    BY <1>2, Segments
  <2>4. data.vaddr % PageSize \in Nat
    BY <2>3, AreaBound
  <2>5. pageLine \in Int /\ pageLine <= data.vaddr /\ textEnd \in Int /\ dataPadLen > 0
    BY <1>4, <2>3, <2>4 DEF CanCopy
  <2>6. textEnd < pageLine /\ pageLine - dataPadLen = textEnd
    BY <2>5
  <2>7. ASSUME NEW v \in Area, v < textEnd
        PROVE  cells'[v] = cells[v]
    <3>0. v \in Int
      BY DEF Area
    <3>1. first[v] = cells[v]
      BY <2>3, <2>5, <2>6, <2>7, CopiedOutside
    <3>2. CASE textPadLen > 0
      <4>1. cells' = Copied(first, pageLine, from, textPadLen)
        BY <1>4, <3>2
      <4>2. from \in Int /\ textPadLen \in Int /\ v < pageLine
        BY <2>3, <2>5, <2>6, <2>7, <3>0
      <4> HIDE DEF first, from, textPadLen, pageLine
      <4>3. QED
        BY <2>5, <3>1, <4>1, <4>2, CopiedOutside
    <3>3. CASE ~(textPadLen > 0)
      BY <1>4, <3>1, <3>3
    <3>4. QED
      BY <3>2, <3>3
  <2>8. TextLoaded'
    <3>1. \A v \in Area : v \in text.vaddr .. text.vaddr + text.filesz - 1 => v < textEnd
      BY <2>3 DEF Area
    <3>2. QED
      BY <1>1, <1>2, <2>7, <3>1 DEF TextLoaded
  <2>9. textEnd < data.vaddr
    BY <2>3, <2>5, <2>6
  <2>10. slot > 0
    BY <1>2, ProgramLenIs
  <2>11. SlotsMapped
    BY <1>1, <2>10 DEF ProgramInv
  <2>12. /\ image' \in Images /\ image'.elf /\ slot' \in 0 .. ProgramPages /\ slot' > 0
         /\ slot' >= ProgramLen' /\ SlotsMapped'
         /\ image'.ph[1].vaddr + image'.ph[1].memsz < image'.ph[2].vaddr
    BY <1>1, <1>2, <2>2, <2>9, <2>10, <2>11
  <2>13. ProgramInv'
    BY ONLY <2>1, <2>8, <2>12 DEF ProgramInv, LoadPlaces, ElfPlaces
  <2>14. QED
    BY <2>1, <2>13 DEF LoaderInv
<1>5. QED
  BY <1>3, <1>4 DEF fillPadding

-----------------------------------------------------------------------------
LEMMA InitInv == Init => LoaderInv
<1> SUFFICES ASSUME Init PROVE LoaderInv
  OBVIOUS
<1>1. /\ machine \in Machines /\ pc = (IF Survives(machine) THEN "boot" ELSE "destroyed")
      /\ used = (IF Survives(machine) THEN BootMarks(machine) ELSE {})
      /\ dirs = <<>> /\ tables = <<>> /\ fault = "none" /\ image \in Images /\ slot = 0
  BY DEF Init, PagingInit
<1>2. PagingInv
  BY <1>1 DEF PagingInv, Booted, MapPlaces
<1>3. FaultInv
  BY <1>1 DEF FaultInv
<1>4. slot \in 0 .. ProgramPages
  BY <1>1, AreaBound
<1>5. ProgramInv
  BY <1>1, <1>4 DEF ProgramInv, ElfPlaces
<1>6. QED
  BY <1>2, <1>3, <1>5 DEF LoaderInv

LEMMA NextInv == LoaderInv /\ [Next]_vars => LoaderInv'
<1> SUFFICES ASSUME LoaderInv, [Next]_vars PROVE LoaderInv'
  OBVIOUS
<1>1. CASE boot
  BY <1>1, BootInv
<1>2. CASE heapPage("run") \/ heapPage("program")
  BY <1>2, AllocInv DEF heapPage
<1>3. CASE clone
  BY <1>3, CloneInv
<1>4. CASE loadHeaders
  BY <1>4, HeadersInv
<1>5. CASE loadPages
  BY <1>5, PagesInv
<1>6. CASE readText
  BY <1>6, TextInv
<1>7. CASE fillPadding
  BY <1>7, PaddingInv
<1>8. CASE loadBin
  BY <1>8, BinInv
<1>9. CASE sbrk
  BY <1>9, SbrkInv
<1>10. CASE UNCHANGED vars
  <2>1. UNCHANGED <<machine, used, dirs, tables, pageDirectory, cr3, pc, phys, fault>>
        /\ UNCHANGED loaderVars
    BY <1>10 DEF vars, pagingVars
  <2>2. PagingInv' /\ FaultInv'
    BY <2>1 DEF LoaderInv, PagingInv, FaultInv, Booted
  <2>3. ProgramInv'
    BY <2>1, ProgramKept DEF LoaderInv
  <2>4. QED
    BY <2>2, <2>3 DEF LoaderInv
<1>11. QED
  BY <1>1, <1>2, <1>3, <1>4, <1>5, <1>6, <1>7, <1>8, <1>9, <1>10 DEF Next

(* The inductive invariant: the address spaces, the faults of allocPage    *)
(* and mapPage and the progress of exec.                                   *)
THEOREM LoaderInvariant == Spec => []LoaderInv
<1>1. Init => LoaderInv
  BY InitInv
<1>2. LoaderInv /\ [Next]_vars => LoaderInv'
  BY NextInv
<1>3. QED
  BY <1>1, <1>2, PTL DEF Spec

(* TablesReachable: whichever directory is current, the kernel reaches     *)
(* every directory and every table that mapPage and clonePageDirectory     *)
(* edit at its physical address.                                           *)
THEOREM TablesStayReachable == Spec => []TablesReachable
<1>1. LoaderInv => TablesReachable
  <2> SUFFICES ASSUME LoaderInv, NEW d \in DOMAIN dirs
               PROVE  /\ dirs[d][Identity] # 0
                      /\ \A f \in DOMAIN dirs \union DOMAIN tables :
                           tables[dirs[d][Identity]][f] = f
    BY DEF TablesReachable
  <2>1. Booted
    BY DEF LoaderInv, PagingInv
  <2>2. Spaces(used, BootMarks(machine), dirs, tables, cr3)
    BY <2>1 DEF LoaderInv, PagingInv
  <2>3. QED
    BY <2>2 DEF Spaces, Shape, IdMapped
<1>2. QED
  BY <1>1, LoaderInvariant, PTL

LEMMA AtMostOne ==
  ASSUME NEW S, \A x, y \in S : x = y
  PROVE  Cardinality(S) <= 1
<1>1. CASE S = {}
  <2>1. Cardinality(S) = 0
    BY <1>1, FS_EmptySet, Zenon
  <2>2. QED
    BY <2>1
<1>2. CASE S # {}
  <2>1. PICK x \in S : TRUE
    BY <1>2
  <2>2. S = {x}
    BY <2>1
  <2>3. Cardinality(S) = 1
    BY <2>2, FS_Singleton, Zenon
  <2>4. QED
    BY <2>3
<1>3. QED
  BY <1>1, <1>2

(* OneMapping: no frame that allocPage gave out, to the stack, the input   *)
(* buffer or a program, is mapped at two virtual pages, also not after     *)
(* clonePageDirectory and sbrk.                                            *)
THEOREM FramesMappedOnce == Spec => []OneMapping
<1>1. LoaderInv => OneMapping
  <2> SUFFICES ASSUME LoaderInv, NEW f \in GivenOut
               PROVE  Cardinality(Mappings(f)) <= 1
    BY DEF OneMapping
  <2>1. ASSUME NEW m \in Mappings(f), NEW n \in Mappings(f)
        PROVE  m = n
    <3>1. /\ m \in (DOMAIN tables) \X Frames /\ tables[m[1]][m[2]] = f
          /\ n \in (DOMAIN tables) \X Frames /\ tables[n[1]][n[2]] = f
      BY DEF Mappings
    <3>2. Booted
      BY <3>1 DEF LoaderInv, PagingInv
    <3>3. Spaces(used, BootMarks(machine), dirs, tables, cr3)
      BY <3>2 DEF LoaderInv, PagingInv
    <3>4. f \in Frames \ BootMarks(machine)
      BY <3>3 DEF GivenOut, Spaces
    <3>5. m[1] = n[1] /\ m[2] = n[2]
      BY <3>1, <3>3, <3>4 DEF Spaces, Single
    <3>6. QED
      BY <3>1, <3>5
  <2>2. QED
    BY <2>1, AtMostOne
<1>2. QED
  BY <1>1, LoaderInvariant, PTL

(* ProgramLoaded: when loadELF enters the program, every page of both      *)
(* segments has a frame, although only the header with the highest address *)
(* decides how many pages are mapped, and the first segment is the         *)
(* beginning of the file, although kmemcpy fills the padding around it.    *)
THEOREM ProgramsLoaded == Spec => []ProgramLoaded
<1>1. LoaderInv => ProgramLoaded
  <2> SUFFICES ASSUME LoaderInv, pc = "program", image.elf
               PROVE  /\ \A k \in {1, 2}, n \in Area :
                           n < image.ph[k].memsz => Mapped(image.ph[k].vaddr + n)
                      /\ \A n \in Area : n < image.ph[1].filesz => cells[image.ph[1].vaddr + n] = n
    BY DEF ProgramLoaded
  <2>1. /\ image \in Images /\ slot \in 0 .. ProgramPages /\ slot >= ProgramLen /\ TextLoaded
        /\ slot > 0 /\ SlotsMapped
        /\ image.ph[1].vaddr + image.ph[1].memsz < image.ph[2].vaddr
    BY DEF LoaderInv, ProgramInv
  <2>2. /\ image.ph[1].vaddr \in Nat /\ image.ph[1].memsz \in Nat \ {0}
        /\ image.ph[2].vaddr \in Nat /\ image.ph[2].memsz \in Nat \ {0}
        /\ image.ph[1].filesz \in Nat /\ image.ph[1].filesz <= image.ph[1].memsz
        /\ image.ph[1].vaddr + image.ph[1].memsz \in Area
    BY <2>1, Segments
  <2>3. HighestEnd = image.ph[2].vaddr + image.ph[2].memsz
    BY <2>1, <2>2 DEF HighestEnd, highestHeader
  <2>4. \A n \in Area : n \in Nat
    BY DEF Area
  <2>5. ASSUME NEW k \in {1, 2}, NEW n \in Area, n < image.ph[k].memsz
        PROVE  Mapped(image.ph[k].vaddr + n)
    <3> DEFINE v == image.ph[k].vaddr + n
    <3>1. v \in 0 .. HighestEnd - 1 /\ v \in Nat
      <4>1. CASE k = 1
        BY <2>1, <2>2, <2>3, <2>4, <2>5, <4>1
      <4>2. CASE k = 2
        BY <2>1, <2>2, <2>3, <2>4, <2>5, <4>2
      <4>3. QED
        BY <4>1, <4>2
    <3> HIDE DEF v
    <3>2. v \div PageSize <= v \div PageSize
      BY <3>1, AreaBound
    <3>3. Mapped(v)
      BY <2>1, <3>1, <3>2, MappedBelow
    <3>4. QED
      BY <3>3 DEF v
  <2>6. ASSUME NEW n \in Area, n < image.ph[1].filesz
        PROVE  cells[image.ph[1].vaddr + n] = n
    <3>1. image.ph[1].vaddr + n \in Area
      BY <2>2, <2>4, <2>6, AreaBound
    <3>2. QED
      BY <2>1, <2>2, <2>4, <2>6, <3>1 DEF TextLoaded
  <2>7. QED
    BY <2>5, <2>6
<1>2. QED
  BY <1>1, LoaderInvariant, PTL

-----------------------------------------------------------------------------
LoadFault == fault = "load" => TextEnd(image) % PageSize = 0

LEMMA Quotient ==
  ASSUME NEW p \in Nat \ {0}, NEW q \in Nat, NEW r \in 0 .. p - 1, NEW x \in Nat, x = p * q + r
  PROVE  x \div p = q /\ x % p = r
<1> DEFINE d == x \div p
           m == x % p
<1>1. d \in Nat /\ m \in 0 .. p - 1 /\ x = p * d + m
  OBVIOUS
<1> HIDE DEF d, m
<1>2. ~(d < q)
  <2>1. SUFFICES ASSUME d < q PROVE FALSE
    OBVIOUS
  <2>2. p * (d + 1) <= p * q
    BY <1>1, <2>1
  <2>3. QED
    BY <1>1, <2>2
<1>3. ~(q < d)
  <2>1. SUFFICES ASSUME q < d PROVE FALSE
    OBVIOUS
  <2>2. p * (q + 1) <= p * d
    BY <1>1, <2>1
  <2>3. QED
    BY <1>1, <2>2
<1>4. d = q /\ m = r
  BY <1>1, <1>2, <1>3
<1>5. QED
  BY <1>4 DEF d, m

(* The header with the highest address is the second one. *)
LEMMA SecondIsHighest ==
  ASSUME LinkerLayout, image \in Images, image.elf
  PROVE  /\ HighestEnd = image.ph[2].vaddr + image.ph[2].memsz
         /\ HighestEnd \in Nat /\ TextEnd(image) \in Nat /\ image.ph[2].vaddr \in Nat
         /\ TextEnd(image) <= image.ph[2].vaddr /\ image.ph[2].vaddr < HighestEnd
<1>1. /\ image.ph[1].vaddr \in Nat /\ image.ph[1].memsz \in Nat \ {0}
      /\ image.ph[2].vaddr \in Nat /\ image.ph[2].memsz \in Nat \ {0}
  BY Segments
<1>2. TextEnd(image) \in Nat /\ TextEnd(image) > image.ph[1].vaddr
  BY <1>1 DEF TextEnd
<1>3. image.ph[2].vaddr >= TextEnd(image)
  <2>1. image.ph[2].vaddr = TextEnd(image) + (IF TextEnd(image) % PageSize = 0 THEN 0 ELSE PageSize)
    BY DEF LinkerLayout
  <2>2. QED
    BY <1>2, <2>1, AreaBound
<1>4. HighestEnd = image.ph[2].vaddr + image.ph[2].memsz
  BY <1>1, <1>2, <1>3 DEF HighestEnd, highestHeader
<1>5. QED
  BY <1>1, <1>2, <1>3, <1>4

(* With the linker's layout the first segment can be read. *)
LEMMA TextMapped ==
  ASSUME LinkerLayout, LoaderInv, pc = "text",
         NEW v \in image.ph[1].vaddr .. image.ph[1].vaddr + image.ph[1].filesz - 1
  PROVE  Mapped(v)
<1>1. /\ image \in Images /\ image.elf /\ slot \in 0 .. ProgramPages /\ slot >= ProgramLen
  BY DEF LoaderInv, ProgramInv, ElfPlaces
<1>2. SlotsMapped
  <2>1. slot > 0
    BY <1>1, ProgramLenIs
  <2>2. QED
    BY <2>1 DEF LoaderInv, ProgramInv
<1>3. /\ image.ph[1].vaddr \in Nat /\ image.ph[1].filesz \in Nat /\ image.ph[1].memsz \in Nat
      /\ image.ph[1].filesz <= image.ph[1].memsz
  BY <1>1, Segments
<1>4. v \in Nat /\ v < TextEnd(image)
  BY <1>3 DEF TextEnd
<1>5. v \in 0 .. HighestEnd - 1
  BY <1>1, <1>4, SecondIsHighest
<1>6. v \div PageSize <= v \div PageSize
  BY <1>4, AreaBound
<1>7. QED
  BY <1>1, <1>2, <1>4, <1>5, <1>6, MappedBelow

(* With the linker's layout both kmemcpys of the padding stay within       *)
(* mapped pages, unless the first segment ends on a page.                  *)
LEMMA PaddingMapped ==
  ASSUME LinkerLayout, LoaderInv, pc = "padding", TextEnd(image) % PageSize # 0,
         NEW pageLine, pageLine = image.ph[2].vaddr - (image.ph[2].vaddr % PageSize),
         NEW dataPadLen, dataPadLen = pageLine - TextEnd(image),
         NEW textPadLen, textPadLen = image.ph[2].vaddr - pageLine
  PROVE  /\ CanCopy(pageLine - dataPadLen, pageLine + textPadLen, dataPadLen)
         /\ textPadLen > 0 => CanCopy(pageLine, pageLine - dataPadLen - textPadLen, textPadLen)
<1> DEFINE e == TextEnd(image)
           q == e \div PageSize
           r == e % PageSize
           d == image.ph[2].vaddr
           q1 == q + 1
<1>0. PageSize \in Nat \ {0}
  BY AreaBound
<1>1. /\ image \in Images /\ image.elf /\ slot \in 0 .. ProgramPages /\ slot >= ProgramLen
  BY DEF LoaderInv, ProgramInv, ElfPlaces
<1>2. SlotsMapped
  <2>1. slot > 0
    BY <1>1, ProgramLenIs
  <2>2. QED
    BY <2>1 DEF LoaderInv, ProgramInv
<1>3. d = e + PageSize /\ e \in Nat /\ d \in 0 .. HighestEnd - 1 /\ HighestEnd \in Nat
  BY <1>1, SecondIsHighest DEF LinkerLayout
<1> HIDE DEF e, d
<1>4. q \in Nat /\ r \in 0 .. PageSize - 1 /\ e = PageSize * q + r
  BY <1>3, AreaBound
<1>5. r # 0
  BY DEF e
<1> HIDE DEF q, r
<1>6. d = PageSize * q1 + r /\ d \in Nat /\ q1 \in Nat
  BY <1>0, <1>3, <1>4
<1> HIDE DEF q1
<1>7. d % PageSize = r /\ d \div PageSize = q1
  BY ONLY <1>0, <1>4, <1>6, Quotient
<1>8. pageLine = e + PageSize - r /\ dataPadLen = PageSize - r /\ textPadLen = r
  BY <1>0, <1>3, <1>4, <1>7 DEF d, e
<1>9. ASSUME NEW v \in 0 .. d
      PROVE  Mapped(v)
  <2>1. v \in Nat /\ v \in 0 .. HighestEnd - 1
    BY <1>3
  <2>2. v \div PageSize <= v \div PageSize
    BY <2>1, <1>0
  <2>3. QED
    BY <1>1, <1>2, <2>1, <2>2, MappedBelow
<1>10. ASSUME NEW k \in 0 .. PageSize - r - 1
       PROVE  Mapped(d + k)
  <2>1. d + k \in Nat /\ r + k \in 0 .. PageSize - 1 /\ d + k = PageSize * q1 + (r + k)
    BY <1>4, <1>6, <1>0
  <2>2. (d + k) \div PageSize = q1
    BY <1>6, <2>1, <1>0, Quotient
  <2>3. (d + k) \div PageSize <= d \div PageSize
    BY <1>6, <1>7, <2>2
  <2>4. QED
    BY <1>1, <1>2, <1>3, <2>1, <2>3, MappedBelow
<1>11. CanCopy(pageLine - dataPadLen, pageLine + textPadLen, dataPadLen)
  <2>1. /\ pageLine - dataPadLen = e /\ pageLine + textPadLen = d /\ dataPadLen > 0
    BY ONLY <1>0, <1>3, <1>4, <1>8
  <2>2. ASSUME NEW k \in 0 .. dataPadLen - 1
        PROVE  Mapped(e + k) /\ Mapped(d + k)
    <3>1. k \in 0 .. PageSize - r - 1 /\ e + k \in 0 .. d
      BY <1>3, <1>4, <1>8, <1>0
    <3>2. QED
      BY <1>9, <1>10, <3>1
  <2>3. QED
    BY <2>1, <2>2 DEF CanCopy
<1>12. CanCopy(pageLine, pageLine - dataPadLen - textPadLen, textPadLen)
  <2>1. /\ pageLine - dataPadLen - textPadLen = e - r /\ textPadLen > 0
    BY <1>3, <1>4, <1>5, <1>8, <1>0
  <2>2. ASSUME NEW k \in 0 .. textPadLen - 1
        PROVE  Mapped(pageLine + k) /\ Mapped(e - r + k)
    <3>1. e - r >= 0
      BY <1>4, <1>0
    <3>2. pageLine + k \in 0 .. d /\ e - r + k \in 0 .. d
      BY <1>3, <1>4, <1>8, <3>1, <1>0
    <3>3. QED
      BY <1>9, <3>2
  <2>3. QED
    BY <2>1, <2>2 DEF CanCopy
<1>13. QED
  BY <1>11, <1>12

(* The other steps do not fault with "load". *)
LEMMA OtherFaults ==
  ASSUME [Next]_vars, ~readText, ~fillPadding
  PROVE  UNCHANGED image /\ (fault' = fault \/ fault' # "load")
<1>1. ASSUME NEW at, NEW next, allocPage(at, next)
      PROVE  fault' = fault \/ fault' # "load"
  BY <1>1 DEF allocPage, Fault
<1>2. ASSUME NEW at, NEW next, NEW d, NEW index, NEW n, mapPage(at, next, d, index, n)
      PROVE  fault' = fault \/ fault' # "load"
  BY <1>2 DEF mapPage, Fault
<1>3. ASSUME NEW at, NEW next, Goto(at, next)
      PROVE  fault' = fault
  BY <1>3 DEF Goto
<1>4. CASE boot
  BY <1>1, <1>2, <1>4 DEF boot, generatePageTable, startPaging, moveStack, loaderVars
<1>5. CASE heapPage("run") \/ heapPage("program")
  BY <1>1, <1>5 DEF heapPage, loaderVars
<1>6. CASE clone
  BY <1>1, <1>6 DEF clone, clonePageDirectory, cloneLink, cloneCopyStack, Fault, loaderVars
<1>7. CASE loadHeaders
  BY <1>1, <1>3, <1>7 DEF loadHeaders, heapPage, loaderVars
<1>8. CASE loadPages
  BY <1>1, <1>2, <1>3, <1>8 DEF loadPages, mapTaskPage, loaderVars
<1>9. CASE loadBin
  BY <1>1, <1>2, <1>3, <1>9 DEF loadBin, mapTaskPage, heapPage, loaderVars
<1>10. CASE sbrk
  BY <1>10 DEF sbrk
<1>11. CASE UNCHANGED vars
  BY <1>11 DEF vars, pagingVars, loaderVars
<1>12. QED
  BY <1>4, <1>5, <1>6, <1>7, <1>8, <1>9, <1>10, <1>11 DEF Next

LEMMA LoadFaultStep ==
  ASSUME LinkerLayout, LoaderInv, LoadFault, [Next]_vars
  PROVE  LoadFault'
<1>1. CASE readText
  <2>1. \A v \in image.ph[1].vaddr .. image.ph[1].vaddr + image.ph[1].filesz - 1 : Mapped(v)
    BY <1>1, TextMapped DEF readText
  <2>2. UNCHANGED <<fault, image>>
    BY <1>1, <2>1 DEF readText, Goto
  <2>3. QED
    BY <2>2 DEF LoadFault
<1>2. CASE fillPadding
  <2> DEFINE data == image.ph[2]
             pageLine == data.vaddr - (data.vaddr % PageSize)
             dataPadLen == pageLine - TextEnd(image)
             textPadLen == data.vaddr - pageLine
             Can == /\ CanCopy(pageLine - dataPadLen, pageLine + textPadLen, dataPadLen)
                    /\ textPadLen > 0 =>
                         CanCopy(pageLine, pageLine - dataPadLen - textPadLen, textPadLen)
  <2>1. UNCHANGED image /\ (Can => UNCHANGED fault)
    BY <1>2 DEF fillPadding, Goto, TextEnd
  <2>2. CASE TextEnd(image) % PageSize = 0
    BY <2>1, <2>2 DEF LoadFault
  <2>3. CASE TextEnd(image) % PageSize # 0
    <3>1. pc = "padding"
      BY <1>2 DEF fillPadding
    <3>2. Can
      BY <2>3, <3>1, PaddingMapped
    <3>3. QED
      BY <2>1, <3>2 DEF LoadFault
  <2>4. QED
    BY <2>2, <2>3
<1>3. CASE ~readText /\ ~fillPadding
  BY <1>3, OtherFaults DEF LoadFault
<1>4. QED
  BY <1>1, <1>2, <1>3

(* FaultHasReason, for files that are laid out by the linker: mapPage      *)
(* never faults, allocPage only when every identity mapped frame is in     *)
(* use, and loadELF only when the first segment ends exactly on a page, so *)
(* that kmemcpy is called with a count of 0.                               *)
THEOREM FaultsHaveReasons == ASSUME LinkerLayout PROVE Spec => []FaultHasReason
<1>1. Init => LoadFault
  BY DEF Init, PagingInit, LoadFault
<1>2. LoaderInv /\ LoadFault /\ [Next]_vars => LoadFault'
  BY LoadFaultStep
<1>3. LoaderInv /\ LoadFault => FaultHasReason
  BY DEF LoaderInv, FaultInv, LoadFault, FaultHasReason, TextEnd
<1>4. QED
  BY <1>1, <1>2, <1>3, LoaderInvariant, PTL DEF Spec

-----------------------------------------------------------------------------
(* Where the boot code overwrites memory the model ends. *)
Destroyed == ~Survives(machine) => pc = "destroyed"

LEMMA DestroyedStep ==
  ASSUME Destroyed, [Next]_vars
  PROVE  Destroyed'
<1>1. machine' = machine /\ (pc = "destroyed" => pc' = pc)
  <2>1. CASE boot
    BY <2>1 DEF boot, generatePageTable, startPaging, moveStack, allocPage, mapPage, Fault
  <2>2. CASE heapPage("run") \/ heapPage("program")
    BY <2>2 DEF heapPage, allocPage, Fault
  <2>3. CASE clone
    BY <2>3 DEF clone, clonePageDirectory, cloneLink, cloneCopyStack, allocPage, Fault
  <2>4. CASE loadHeaders
    BY <2>4 DEF loadHeaders, heapPage, allocPage, Goto, Fault
  <2>5. CASE loadPages
    BY <2>5 DEF loadPages, mapTaskPage, allocPage, mapPage, Goto, Fault
  <2>6. CASE readText
    BY <2>6 DEF readText, Goto, Fault
  <2>7. CASE fillPadding
    BY <2>7 DEF fillPadding, Goto, Fault
  <2>8. CASE loadBin
    BY <2>8 DEF loadBin, heapPage, mapTaskPage, allocPage, mapPage, Goto, Fault
  <2>9. CASE sbrk
    BY <2>9 DEF sbrk
  <2>10. CASE UNCHANGED vars
    BY <2>10 DEF vars, pagingVars
  <2>11. QED
    BY <2>1, <2>2, <2>3, <2>4, <2>5, <2>6, <2>7, <2>8, <2>9, <2>10 DEF Next
<1>2. QED
  BY <1>1 DEF Destroyed

(* GivenOutUsable, for PCs: no frame that the memory map calls unusable is *)
(* given out, but for the two behind a usable entry that displayMmap's     *)
(* count passes over.                                                      *)
THEOREM GivenOutIsUsable == ASSUME PCLayout PROVE Spec => []GivenOutUsable
<1>1. Init => Destroyed
  BY DEF Init, PagingInit, Destroyed
<1>2. Destroyed /\ [Next]_vars => Destroyed'
  BY DestroyedStep
<1>3. LoaderInv /\ Destroyed => GivenOutUsable
  <2> SUFFICES ASSUME LoaderInv, Destroyed, NEW f \in GivenOut, f < IdLimit,
                      Unusable(machine, f), ~Shifted(machine, f)
               PROVE  FALSE
    BY DEF GivenOutUsable
  <2>1. f \in used /\ f \notin BootMarks(machine)
    BY DEF GivenOut
  <2>2. machine \in Machines /\ pc # "destroyed" /\ f \in Frames
    <3>1. machine \in Machines /\ (pc = "destroyed" => used = {})
      BY DEF LoaderInv, PagingInv
    <3>2. pc # "destroyed"
      BY <2>1, <3>1
    <3>3. CASE pc = "boot"
      BY <2>1, <3>3 DEF LoaderInv, PagingInv
    <3>4. CASE pc # "boot"
      <4>1. Spaces(used, BootMarks(machine), dirs, tables, cr3)
        BY <3>2, <3>4 DEF LoaderInv, PagingInv, Booted
      <4>2. QED
        BY <2>1, <3>1, <3>2, <4>1 DEF Spaces
    <3>5. QED
      BY <3>3, <3>4
  <2>3. Survives(machine)
    BY <2>2 DEF Destroyed
  <2>4. QED
    BY <2>1, <2>2, <2>3, UnusableMarked
<1>4. QED
  BY <1>1, <1>2, <1>3, LoaderInvariant, PTL DEF Spec

=============================================================================
