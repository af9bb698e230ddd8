----------------------------- MODULE AtapiProofs -----------------------------
(***************************************************************************)
(* Proofs about atapiRead for every size of sector, every request and      *)
(* every order of the drive's steps, its interrupts and key interrupts.    *)
(* ReadInv is the inductive invariant of a request that starts on a sector *)
(* boundary, to a drive that offers whole sectors: how far the request has *)
(* come, which phase of its command the drive can be in at each place of   *)
(* the code, and which bytes have been stored.                             *)
(***************************************************************************)
EXTENDS AtapiRead, TLAPS

USE AtapiAssumption

(* The places before and after the packet is sent, and with the sector     *)
(* offered.                                                                *)
Commanded == {"readBsy1", "testBsy1", "readDrq1", "testDrq1", "sendPacket"}
Asked == {"readBsy2", "testBsy2", "readDrq2", "testDrq2"}
Offered == {"waitIrq", "readSize", "addSize"}

(* The first byte of the request on the disc, and the bytes of the request *)
(* that lie before the current sector.                                     *)
Base == lba0 * Sector + pos0
Begin == lba * Sector - Base

(* The drive has n bytes of the current sector left. *)
HasLeft(n) ==
    IF n > 0 THEN phase = "data" /\ left = n /\ sector = lba ELSE phase = "idle"

RequestType == lba0 \in Nat /\ count \in Nat /\ pos0 \in Nat

Progress ==
    /\ lba \in Nat /\ i \in Nat /\ size \in Nat
    /\ Begin \in Nat /\ Begin % Sector = 0 /\ Begin % 2 = 0 /\ i % 2 = 0
    /\ Rem(pos, Sector) = 0
    /\ pc \in Commanded \union Asked \union Offered => i = Begin /\ size >= Begin
    /\ pc \in Commanded \union Asked \union Offered \union {"store"} => i < count
    /\ pc \in {"copy", "store"} => Begin <= i /\ size >= Begin + Sector
    /\ (pc = "copy" /\ i < count) \/ pc = "store" => i < Begin + Sector

DrivePhase ==
    /\ pc \in Commanded => phase \in {"busyPacket", "packet"}
    /\ pc = "sendPacket" \/ (pc = "testDrq1" /\ ax = 1) => phase = "packet"
    /\ pc \in Asked => /\ phase \in {"busyRead", "data", "error"} /\ sector = lba
                       /\ phase = "data" => left = Sector
    /\ pc = "testDrq2" /\ ax = 1 => phase = "data"
    /\ pc \in Offered => HasLeft(Sector)
    /\ pc = "addSize" => ax \in {Sector, Clobber}
    /\ pc = "copy" => HasLeft(Begin + Sector - i)
    /\ pc = "store" => HasLeft(Begin + Sector - (i + 2))

BytesStored ==
    /\ \A k \in 0 .. i - 1 : k < count => buf[k] = Base + k
    /\ pc = "store" => ax = Base + i

Returned ==
    /\ phase \in {"idle", "data"}
    /\ count % 2 = 0 => phase = "idle"
    /\ ~clobbered => \A k \in 0 .. count - 1 : buf[k] = Base + k

Places == Commanded \union Asked \union Offered \union {"copy", "store", "out"}

ReadInv ==
    /\ RequestType /\ pc \in Places
    /\ Aligned /\ ~short =>
         /\ pc = "out" => Returned
         /\ pc # "out" => Progress /\ DrivePhase /\ (~clobbered => BytesStored)

-----------------------------------------------------------------------------
LEMMA SectorFacts ==
  /\ Sector \in Nat \ {0} /\ Sector % 2 = 0 /\ Sector >= 2
  /\ Counts \subseteq Nat \ {0} /\ Positions \subseteq Nat
<1>1. Sector \in Nat \ {0} /\ Sector % 2 = 0 /\ Counts \subseteq Nat \ {0} /\ Positions \subseteq Nat
  OBVIOUS
<1>2. QED
  BY <1>1

(* Whole sectors, and what lies within one. *)
LEMMA Remainder ==
  ASSUME NEW p \in Nat \ {0}, NEW x \in Nat, x % p = 0, NEW r \in 0 .. p - 1,
         NEW y \in Nat, y = x + r \/ y = x + p + r
  PROVE  y % p = r
<1> DEFINE d == x \div p
           c == IF y = x + r THEN d ELSE d + 1
           e == y \div p
           m == y % p
<1>1. d \in Nat /\ x = p * d + (x % p)
  OBVIOUS
<1>2. e \in Nat /\ m \in 0 .. p - 1 /\ y = p * e + m
  OBVIOUS
<1> HIDE DEF d, e, m
<1>3. x = p * d
  BY <1>1
<1>4. c \in Nat /\ y = p * c + r
  BY <1>1, <1>3
<1> HIDE DEF c
<1>5. ~(e < c)
  <2>1. SUFFICES ASSUME e < c PROVE FALSE
    OBVIOUS
  <2>2. p * (e + 1) <= p * c
    BY <1>2, <1>4, <2>1
  <2>3. QED
    BY <1>2, <1>4, <2>2
<1>6. ~(c < e)
  <2>1. SUFFICES ASSUME c < e PROVE FALSE
    OBVIOUS
  <2>2. p * (c + 1) <= p * e
    BY <1>2, <1>4, <2>1
  <2>3. QED
    BY <1>2, <1>4, <2>2
<1>7. m = r
  BY <1>2, <1>4, <1>5, <1>6
<1>8. QED
  BY <1>7 DEF m

LEMMA NextSector ==
  ASSUME NEW b \in Nat, b % Sector = 0
  PROVE  (b + Sector) % Sector = 0
<1> DEFINE y == b + Sector
<1>1. y \in Nat /\ y = b + Sector + 0 /\ 0 \in 0 .. Sector - 1
  BY SectorFacts
<1> HIDE DEF y
<1>2. y % Sector = 0
  BY <1>1, SectorFacts, Remainder
<1>3. QED
  BY <1>2 DEF y

LEMMA WithinSector ==
  ASSUME NEW b \in Nat, b % Sector = 0, NEW n \in 0 .. Sector
  PROVE  (b + n) % Sector = 0 <=> n = 0 \/ n = Sector
<1>1. (b + Sector) % Sector = 0
  BY NextSector
<1>2. CASE n < Sector
  <2> DEFINE y == b + n
  <2>1. y \in Nat /\ y = b + n /\ n \in 0 .. Sector - 1
    BY <1>2, SectorFacts
  <2> HIDE DEF y
  <2>2. y % Sector = n
    BY <2>1, SectorFacts, Remainder
  <2>3. (b + n) % Sector = n
    BY <2>2 DEF y
  <2>4. QED
    BY <1>2, <2>3
<1>3. CASE n = Sector
  BY <1>1, <1>3
<1>4. QED
  BY <1>2, <1>3, SectorFacts

-----------------------------------------------------------------------------
(* What a step has to show: the request goes on from a state in which the  *)
(* invariant held.                                                         *)
Going == Progress /\ DrivePhase /\ (~clobbered => BytesStored)

LEMMA StepShows ==
  ASSUME ReadInv, UNCHANGED request, short => short', pc' \in Places,
         Aligned /\ ~short /\ ~short' => IF pc' = "out" THEN Returned' ELSE Going'
  PROVE  ReadInv'
<1>1. RequestType' /\ Aligned' = Aligned
  BY DEF ReadInv, RequestType, request, Aligned
<1>2. QED
  BY <1>1 DEF ReadInv, Going

(* The places of the loops on the status register and the wait for the     *)
(* interrupt: the drive is not touched.                                    *)
LEMMA StatusReadStep ==
  ASSUME ReadInv, NEW at, NEW next, NEW bit \in BOOLEAN, StatusRead(at, next, bit),
         \/ <<at, next>> = <<"readBsy1", "testBsy1">>
         \/ <<at, next>> = <<"readBsy2", "testBsy2">>
         \/ (<<at, next>> = <<"readDrq1", "testDrq1">> /\ (bit => DRQ))
         \/ (<<at, next>> = <<"readDrq2", "testDrq2">> /\ (bit => DRQ))
  PROVE  ReadInv'
<1>1. /\ pc = at /\ pc' = next
      /\ UNCHANGED <<lba0, count, pos0, pos, lba, i, size, buf, phase, sector, left, clobbered, short>>
  BY DEF StatusRead, request, locals, device, history
<1>2. Base' = Base /\ Begin' = Begin
  BY <1>1 DEF Base, Begin
<1>3. ax' = 1 => bit
  BY DEF StatusRead
<1>4. pc' \in Places /\ pc' # "out" /\ pc' # "store"
  BY <1>1 DEF Places, Commanded, Asked
<1>5. ASSUME Aligned, ~short
      PROVE  Going'
  <2>1. Progress /\ DrivePhase /\ (~clobbered => BytesStored)
    BY <1>1, <1>5 DEF ReadInv
  <2>2. Progress'
    BY <1>1, <1>2, <2>1 DEF Progress, Commanded, Asked, Offered
  <2>3. DrivePhase'
    BY <1>1, <1>2, <1>3, <2>1 DEF DrivePhase, Commanded, Asked, Offered, DRQ
  <2>4. ~clobbered' => BytesStored'
    BY <1>1, <1>2, <1>4, <2>1 DEF BytesStored
  <2>5. QED
    BY <2>2, <2>3, <2>4 DEF Going
<1>6. QED
  BY <1>1, <1>4, <1>5, StepShows DEF request

LEMMA StatusTestStep ==
  ASSUME ReadInv, NEW at, NEW again, NEW next, NEW wanted \in BOOLEAN,
         StatusTest(at, again, next, wanted),
         \/ <<at, again, next>> = <<"testBsy1", "readBsy1", "readDrq1">>
         \/ <<at, again, next>> = <<"testBsy2", "readBsy2", "readDrq2">>
         \/ (<<at, again, next>> = <<"testDrq1", "readDrq1", "sendPacket">> /\ wanted = (ax = 1))
         \/ (<<at, again, next>> = <<"testDrq2", "readDrq2", "waitIrq">> /\ wanted = (ax = 1))
         \/ (<<at, again, next>> = <<"testDrq2", "readDrq2", "readSize">> /\ wanted = (ax = 1))
  PROVE  ReadInv'
<1>1. /\ pc = at /\ (pc' = again \/ (pc' = next /\ wanted))
      /\ UNCHANGED <<lba0, count, pos0, pos, lba, i, size, buf, ax, phase, sector, left, clobbered, short>>
  BY DEF StatusTest, request, locals, device, history
<1>2. Base' = Base /\ Begin' = Begin
  BY <1>1 DEF Base, Begin
<1>3. pc' \in Places /\ pc' # "out" /\ pc' # "store"
  BY <1>1 DEF Places, Commanded, Asked, Offered
<1>4. ASSUME Aligned, ~short
      PROVE  Going'
  <2>1. Progress /\ DrivePhase /\ (~clobbered => BytesStored)
    BY <1>1, <1>4 DEF ReadInv
  <2>2. Progress'
    BY <1>1, <1>2, <2>1 DEF Progress, Commanded, Asked, Offered
  <2>3. DrivePhase'
    BY <1>1, <1>2, <2>1, SectorFacts DEF DrivePhase, Commanded, Asked, Offered, HasLeft
  <2>4. ~clobbered' => BytesStored'
    BY <1>1, <1>2, <1>3, <2>1 DEF BytesStored
  <2>5. QED
    BY <2>2, <2>3, <2>4 DEF Going
<1>5. QED
  BY <1>1, <1>3, <1>4, StepShows DEF request

LEMMA SendPacketStep ==
  ASSUME ReadInv, sendPacket
  PROVE  ReadInv'
<1>1. /\ pc = "sendPacket" /\ pc' = "readBsy2"
      /\ UNCHANGED <<lba0, count, pos0, pos, lba, i, size, buf, clobbered, short>>
      /\ phase = "packet" => phase' = "busyRead" /\ sector' = lba
  BY DEF sendPacket, request, locals, history
<1>2. Base' = Base /\ Begin' = Begin
  BY <1>1 DEF Base, Begin
<1>3. pc' \in Places
  BY <1>1 DEF Places, Asked
<1>4. ASSUME Aligned, ~short
      PROVE  Going'
  <2>1. Progress /\ DrivePhase /\ (~clobbered => BytesStored)
    BY <1>1, <1>4 DEF ReadInv
  <2>2. Progress'
    BY <1>1, <1>2, <2>1 DEF Progress, Commanded, Asked, Offered
  <2>3. DrivePhase'
    BY <1>1, <2>1 DEF DrivePhase, Commanded, Asked, Offered
  <2>4. ~clobbered' => BytesStored'
    BY <1>1, <1>2, <2>1 DEF BytesStored
  <2>5. QED
    BY <2>2, <2>3, <2>4 DEF Going
<1>5. QED
  BY <1>1, <1>3, <1>4, StepShows DEF request

LEMMA OfferedStep ==
  ASSUME ReadInv, waitIrq \/ readSize
  PROVE  ReadInv'
<1>1. /\ \/ pc = "waitIrq" /\ pc' \in {"waitIrq", "readSize"} /\ UNCHANGED ax
         \/ pc = "readSize" /\ pc' = "addSize" /\ ax' = left
      /\ UNCHANGED <<lba0, count, pos0, pos, lba, i, size, buf, phase, sector, left, clobbered, short>>
  BY DEF waitIrq, readSize, request, locals, device, history
<1>2. Base' = Base /\ Begin' = Begin
  BY <1>1 DEF Base, Begin
<1>3. pc' \in Places /\ pc' # "out" /\ pc' # "store"
  BY <1>1 DEF Places, Offered
<1>4. ASSUME Aligned, ~short
      PROVE  Going'
  <2>1. Progress /\ DrivePhase /\ (~clobbered => BytesStored)
    BY <1>1, <1>4 DEF ReadInv
  <2>2. Progress'
    BY <1>1, <1>2, <2>1 DEF Progress, Commanded, Asked, Offered
  <2>3. DrivePhase'
    BY <1>1, <1>2, <2>1, SectorFacts DEF DrivePhase, Commanded, Asked, Offered, HasLeft
  <2>4. ~clobbered' => BytesStored'
    BY <1>1, <1>2, <1>3, <2>1 DEF BytesStored
  <2>5. QED
    BY <2>2, <2>3, <2>4 DEF Going
<1>5. QED
  BY <1>1, <1>3, <1>4, StepShows DEF request

LEMMA AddSizeStep ==
  ASSUME ReadInv, addSize
  PROVE  ReadInv'
<1>1. /\ pc = "addSize" /\ pc' = "copy"
      /\ size' = size + (IF ax = Clobber THEN Sector + 2 ELSE ax)
      /\ UNCHANGED <<lba0, count, pos0, pos, lba, i, buf, phase, sector, left, clobbered, short>>
  BY DEF addSize, request, device, history
<1>2. Base' = Base /\ Begin' = Begin
  BY <1>1 DEF Base, Begin
<1>3. pc' \in Places
  BY <1>1 DEF Places
<1>4. ASSUME Aligned, ~short
      PROVE  Going'
  <2>1. Progress /\ DrivePhase /\ (~clobbered => BytesStored)
    BY <1>1, <1>4 DEF ReadInv
  <2>2. i = Begin /\ size >= Begin /\ i < count /\ ax \in {Sector, Clobber} /\ HasLeft(Sector)
        /\ size \in Nat /\ i \in Nat /\ Begin \in Nat
    BY <1>1, <2>1 DEF Progress, DrivePhase, Offered
  <2>3. size' \in Nat /\ size' >= Begin + Sector
    BY <1>1, <2>2, SectorFacts
  <2>4. i < Begin + Sector /\ Begin + Sector - i = Sector
    BY <2>2, SectorFacts
  <2>5. Progress'
    BY <1>1, <1>2, <2>1, <2>2, <2>3, <2>4 DEF Progress, Commanded, Asked, Offered
  <2>6. DrivePhase'
    BY <1>1, <1>2, <2>2, <2>4 DEF DrivePhase, Commanded, Asked, Offered, HasLeft
  <2>7. ~clobbered' => BytesStored'
    BY <1>1, <1>2, <2>1 DEF BytesStored
  <2>8. QED
    BY <2>5, <2>6, <2>7 DEF Going
<1>5. QED
  BY <1>1, <1>3, <1>4, StepShows DEF request

(* The sector has a word left, and it is the next one of the request. *)
LEMMA ReadWordStep ==
  ASSUME ReadInv, readWord
  PROVE  ReadInv'
<1>1. /\ pc = "copy" /\ pc' = "store" /\ i < count /\ ax' = DataWord /\ TakeWord
      /\ UNCHANGED <<lba0, count, pos0, pos, lba, i, size, buf, clobbered, short>>
  BY DEF readWord, request, locals, history
<1>2. Base' = Base /\ Begin' = Begin
  BY <1>1 DEF Base, Begin
<1>3. pc' \in Places
  BY <1>1 DEF Places
<1>4. ASSUME Aligned, ~short
      PROVE  Going'
  <2>1. Progress /\ DrivePhase /\ (~clobbered => BytesStored)
    BY <1>1, <1>4 DEF ReadInv
  <2>2. /\ i \in Nat /\ Begin \in Nat /\ i < Begin + Sector /\ Begin <= i /\ i % 2 = 0 /\ Begin % 2 = 0
        /\ HasLeft(Begin + Sector - i)
    BY <1>1, <2>1 DEF Progress, DrivePhase
  <2>3. phase = "data" /\ left = Begin + Sector - i /\ sector = lba
    BY <2>2, SectorFacts DEF HasLeft
  <2>4. left \in Nat /\ left >= 2 /\ left - 2 = Begin + Sector - (i + 2)
    BY <2>2, <2>3, SectorFacts
  <2>5. /\ left' = left - 2 /\ sector' = sector /\ phase' = IF left = 2 THEN "idle" ELSE "data"
        /\ ax' = sector * Sector + (Sector - left)
    BY <1>1, <2>3 DEF TakeWord, DataWord
  <2>6. HasLeft(Begin + Sector - (i + 2))'
    <3>1. (Begin + Sector - (i + 2))' = left'
      BY <1>1, <1>2, <2>4, <2>5
    <3>2. left' > 0 <=> left # 2
      BY <2>4, <2>5
    <3>3. left' > 0 => phase' = "data" /\ sector' = lba'
      BY <1>1, <2>3, <2>5, <3>2
    <3>4. ~(left' > 0) => phase' = "idle"
      BY <2>5, <3>2
    <3>5. QED
      BY <3>1, <3>3, <3>4 DEF HasLeft
  <2>7. Progress'
    BY <1>1, <1>2, <2>1 DEF Progress, Commanded, Asked, Offered
  <2>8. DrivePhase'
    BY <1>1, <2>6 DEF DrivePhase, Commanded, Asked, Offered
  <2>9. ax' = Base + i
    <3>1. lba \in Nat /\ lba * Sector = Begin + Base /\ lba * Sector \in Int /\ Base \in Int
      BY <2>1, SectorFacts DEF Begin, Base, Progress, ReadInv, RequestType
    <3>2. ax' = lba * Sector + (Sector - left)
      BY <2>3, <2>5
    <3> DEFINE x == lba * Sector
    <3> HIDE DEF x
    <3>3. x = Begin + Base /\ x \in Int /\ ax' = x + (Sector - left)
      BY <3>1, <3>2 DEF x
    <3>4. QED
      BY <2>2, <2>3, <3>1, <3>3, SectorFacts
  <2>10. ~clobbered' => BytesStored'
    BY <1>1, <1>2, <2>1, <2>9 DEF BytesStored
  <2>11. QED
    BY <2>7, <2>8, <2>10 DEF Going
<1>5. QED
  BY <1>1, <1>3, <1>4, StepShows DEF request

(* At a word to be stored. *)
LEMMA AtStore ==
  ASSUME ReadInv, pc = "store", Aligned, ~short
  PROVE  /\ Progress /\ DrivePhase /\ (~clobbered => BytesStored)
         /\ i \in Nat /\ Begin \in Nat /\ size \in Nat /\ count \in Nat /\ Base \in Nat /\ i < count
         /\ Begin <= i /\ i + 2 <= Begin + Sector /\ size >= Begin + Sector
         /\ HasLeft(Begin + Sector - (i + 2)) /\ i % 2 = 0
<1>1. Progress /\ DrivePhase /\ (~clobbered => BytesStored) /\ RequestType
  BY DEF ReadInv
<1>2. /\ i \in Nat /\ Begin \in Nat /\ size \in Nat /\ count \in Nat /\ i < count /\ i < Begin + Sector
      /\ Begin <= i /\ size >= Begin + Sector /\ i % 2 = 0 /\ Begin % 2 = 0
      /\ HasLeft(Begin + Sector - (i + 2))
  BY <1>1 DEF Progress, DrivePhase, RequestType
<1>3. Base \in Nat
  BY <1>1, SectorFacts DEF Base, RequestType
<1>4. i + 2 <= Begin + Sector
  BY <1>2, SectorFacts
<1>5. QED
  BY <1>1, <1>2, <1>3, <1>4

LEMMA StoreLastOddStep ==
  ASSUME ReadInv, StoreLastOdd
  PROVE  ReadInv'
<1>1. /\ pc = "store" /\ pc' = "out" /\ i + 1 = count /\ buf' = Store(i, ax)
      /\ UNCHANGED <<lba0, count, pos0, clobbered, short>>
      /\ phase' = phase \/ phase' = "idle"
  BY DEF StoreLastOdd, request, history, device
<1>2. Base' = Base
  BY <1>1 DEF Base
<1>3. pc' \in Places
  BY <1>1 DEF Places
<1>4. ASSUME Aligned, ~short
      PROVE  Returned'
  <2>1. /\ (~clobbered => BytesStored) /\ i \in Nat /\ count \in Nat /\ i % 2 = 0
        /\ HasLeft(Begin + Sector - (i + 2))
    BY <1>1, <1>4, AtStore
  <2>2. phase' \in {"idle", "data"} /\ count % 2 # 0
    BY <1>1, <2>1 DEF HasLeft
  <2>3. ASSUME ~clobbered, NEW k \in 0 .. count - 1
        PROVE  buf'[k] = Base + k
    <3>1. k \in 0 .. i /\ (k # i => k \in 0 .. i - 1 /\ k < count)
      BY <1>1, <2>1
    <3>2. buf'[k] = IF k = i THEN ax ELSE buf[k]
      BY <1>1, <3>1 DEF Store
    <3>3. BytesStored
      BY <2>1, <2>3
    <3>4. QED
      BY <1>1, <3>1, <3>2, <3>3 DEF BytesStored
  <2>4. QED
    BY <1>1, <1>2, <2>2, <2>3 DEF Returned
<1>5. QED
  BY <1>1, <1>3, <1>4, StepShows DEF request

(* The two bytes of a word. *)
LEMMA WordStored ==
  ASSUME ReadInv, StoreWord, Aligned, ~short, ~clobbered
  PROVE  \A k \in 0 .. i' - 1 : buf'[k] = Base + k
<1>1. /\ pc = "store" /\ i' = i + 2
      /\ buf' = [k \in 0 .. i + 1 |-> IF k = i THEN ax ELSE IF k = i + 1 THEN HighByte ELSE buf[k]]
  BY DEF StoreWord
<1>2. i \in Nat /\ Base \in Nat /\ i < count /\ count \in Nat /\ BytesStored
  BY <1>1, AtStore
<1>3. ax = Base + i /\ HighByte = Base + i + 1 /\ \A k \in 0 .. i - 1 : buf[k] = Base + k
  BY <1>1, <1>2 DEF BytesStored, HighByte, Clobber
<1>4. ASSUME NEW k \in 0 .. i' - 1
      PROVE  buf'[k] = Base + k
  <2>1. k \in 0 .. i + 1
    BY <1>1, <1>2
  <2>2. buf'[k] = IF k = i THEN ax ELSE IF k = i + 1 THEN HighByte ELSE buf[k]
    BY <1>1, <2>1
  <2>3. k = i \/ k = i + 1 \/ k \in 0 .. i - 1
    BY <1>2, <2>1
  <2>4. QED
    BY <1>2, <1>3, <2>2, <2>3
<1>5. QED
  BY <1>4

(* A word ends a sector exactly when the drive has none left. *)
LEMMA SectorEnds ==
  ASSUME ReadInv, pc = "store", Aligned, ~short
  PROVE  SectorDone(i + 2) <=> i + 2 = Begin + Sector /\ i + 2 < count
<1>1. /\ Progress /\ i \in Nat /\ Begin \in Nat /\ Begin <= i /\ i + 2 <= Begin + Sector
  BY AtStore
<1>2. Rem(pos, Sector) = 0 /\ Begin % Sector = 0
  BY <1>1 DEF Progress
<1> DEFINE n == i + 2 - Begin
<1>3. n \in 0 .. Sector /\ n # 0 /\ Begin + n = i + 2
  BY <1>1, SectorFacts
<1>4. (Begin + n) % Sector = 0 <=> n = 0 \/ n = Sector
  BY <1>1, <1>2, <1>3, WithinSector
<1> HIDE DEF n
<1>5. (i + 2) % Sector = 0 <=> n = Sector
  BY <1>3, <1>4
<1>6. n = Sector <=> i + 2 = Begin + Sector
  BY <1>1, <1>3, SectorFacts
<1>7. Rem(i + 2 + 0, Sector) = (i + 2) % Sector
  BY <1>1 DEF Rem
<1>8. QED
  BY <1>2, <1>5, <1>6, <1>7 DEF SectorDone

LEMMA StoreWordStep ==
  ASSUME ReadInv, StoreWord
  PROVE  ReadInv'
<1>1. /\ pc = "store" /\ i + 1 # count /\ i' = i + 2 /\ pc' \in {"readBsy1", "copy"}
      /\ UNCHANGED <<lba0, count, pos0, size, ax, clobbered, short>>
  BY DEF StoreWord, request, history
<1>2. pc' \in Places
  BY <1>1 DEF Places, Commanded
<1>3. Base' = Base
  BY <1>1 DEF Base
<1>4. ASSUME Aligned, ~short
      PROVE  Going'
  <2>1. /\ Progress /\ i \in Nat /\ Begin \in Nat /\ size \in Nat /\ count \in Nat /\ Base \in Nat
        /\ i < count /\ Begin <= i /\ i + 2 <= Begin + Sector /\ size >= Begin + Sector
        /\ HasLeft(Begin + Sector - (i + 2)) /\ i % 2 = 0
    BY <1>1, <1>4, AtStore
  <2>2. lba \in Nat /\ Begin % Sector = 0 /\ Begin % 2 = 0 /\ Rem(pos, Sector) = 0
    BY <2>1 DEF Progress
  <2>3. i' \in Nat /\ i' % 2 = 0 /\ i' <= count
    BY <1>1, <2>1
  <2>4. ~clobbered' => BytesStored'
    BY <1>1, <1>3, <1>4, WordStored DEF BytesStored
  <2>5. CASE SectorDone(i + 2)
    <3>1. pos' = -(i + 2) /\ lba' = lba + 1 /\ pc' = "readBsy1" /\ phase' = "busyPacket"
      BY <2>5 DEF StoreWord, StartCommand
    <3>2. i' = Begin + Sector /\ i' < count
      BY <1>1, <1>4, <2>5, SectorEnds
    <3>3. Begin' = Begin + Sector
      <4> DEFINE x == lba * Sector
                 y == (lba + 1) * Sector
      <4>1. x \in Int /\ y = x + Sector
        BY <2>2, SectorFacts
      <4>2. Begin = x - Base /\ Begin' = y - Base
        BY <1>3, <3>1 DEF Begin
      <4> HIDE DEF x, y
      <4>3. QED
        BY <2>1, <4>1, <4>2, SectorFacts
    <3>4. Begin' \in Nat /\ Begin' % Sector = 0 /\ Begin' % 2 = 0
      <4>1. (Begin + Sector) % Sector = 0
        BY <2>1, <2>2, NextSector
      <4>2. (Begin + Sector) % 2 = 0
        BY <2>1, <2>2, SectorFacts
      <4>3. QED
        BY <2>1, <3>3, <4>1, <4>2, SectorFacts
    <3>5. Rem(pos', Sector) = 0
      <4>1. pos' = -i' /\ i' > 0 /\ i' % Sector = 0 /\ ~(pos' >= 0) /\ -pos' = i'
        BY <1>1, <2>1, <3>1, <3>2, <3>3, <3>4
      <4>2. QED
        BY <4>1 DEF Rem
    <3>6. Progress'
      BY <1>1, <2>1, <2>2, <2>3, <3>1, <3>2, <3>3, <3>4, <3>5 DEF Progress, Commanded
    <3>7. DrivePhase'
      BY <3>1 DEF DrivePhase, Commanded, Asked, Offered
    <3>8. QED
      BY <2>4, <3>6, <3>7 DEF Going
  <2>6. CASE ~SectorDone(i + 2)
    <3>1. pc' = "copy" /\ UNCHANGED <<pos, lba, phase, sector, left>>
      BY <2>6 DEF StoreWord, device
    <3>2. Begin' = Begin
      BY <1>3, <3>1 DEF Begin
    <3>3. i' < count => i' < Begin + Sector
      BY <1>1, <1>4, <2>1, <2>6, SectorEnds, SectorFacts
    <3>4. Begin <= i'
      BY <1>1, <2>1
    <3>5. Progress'
      BY <1>1, <2>1, <2>2, <2>3, <3>1, <3>2, <3>3, <3>4 DEF Progress, Commanded, Asked, Offered
    <3>6. DrivePhase'
      BY <1>1, <2>1, <3>1, <3>2 DEF DrivePhase, Commanded, Asked, Offered, HasLeft
    <3>7. QED
      BY <2>4, <3>5, <3>6 DEF Going
  <2>7. QED
    BY <2>5, <2>6
<1>5. QED
  BY <1>1, <1>2, <1>4, StepShows DEF request

(* The rest of the sector is taken from the drive, and a size that a key   *)
(* interrupt has made larger reads an idle drive.                          *)
LEMMA DrainStep ==
  ASSUME ReadInv, drain
  PROVE  ReadInv'
<1>1. /\ pc = "copy" /\ pc' = "copy" /\ ~(i < count) /\ i < size /\ TakeWord /\ i' = i + 2
      /\ UNCHANGED <<lba0, count, pos0, pos, lba, size, buf, clobbered, short>>
  BY DEF drain, request, history
<1>2. Base' = Base /\ Begin' = Begin
  BY <1>1 DEF Base, Begin
<1>3. pc' \in Places
  BY <1>1 DEF Places
<1>4. ASSUME Aligned, ~short
      PROVE  Going'
  <2>1. Progress /\ DrivePhase /\ (~clobbered => BytesStored) /\ count \in Nat
    BY <1>1, <1>4 DEF ReadInv, RequestType
  <2>2. /\ i \in Nat /\ Begin \in Nat /\ Begin <= i /\ i % 2 = 0 /\ Begin % 2 = 0
        /\ HasLeft(Begin + Sector - i)
    BY <1>1, <2>1 DEF Progress, DrivePhase
  <2>3. i' \in Nat /\ i' % 2 = 0 /\ Begin <= i' /\ ~(i' < count)
    BY <1>1, <2>1, <2>2
  <2>4. HasLeft(Begin + Sector - i)'
    <3> DEFINE n == Begin + Sector - i
    <3>1. n \in Int /\ n % 2 = 0 /\ (Begin + Sector - i)' = n - 2
      BY <1>1, <1>2, <2>2, SectorFacts
    <3>2. CASE n > 0
      <4>1. phase = "data" /\ left = n /\ sector = lba
        BY <2>2, <3>2 DEF HasLeft
      <4>2. /\ left' = left - 2 /\ sector' = sector /\ phase' = IF left = 2 THEN "idle" ELSE "data"
        BY <1>1, <4>1 DEF TakeWord
      <4> HIDE DEF n
      <4>3. n >= 2 /\ left' = n - 2 /\ (left' > 0 <=> left # 2)
        BY <3>1, <3>2, <4>1, <4>2
      <4>4. left' > 0 => phase' = "data" /\ sector' = lba'
        BY <1>1, <4>1, <4>2, <4>3
      <4>5. ~(left' > 0) => phase' = "idle"
        BY <4>2, <4>3
      <4>6. QED
        BY <3>1, <4>3, <4>4, <4>5 DEF HasLeft
    <3>3. CASE ~(n > 0)
      <4>1. phase = "idle"
        BY <2>2, <3>3 DEF HasLeft
      <4>2. phase' = "idle"
        BY <1>1, <4>1 DEF TakeWord, device
      <4> HIDE DEF n
      <4>3. ~(n - 2 > 0)
        BY <3>1, <3>3
      <4>4. QED
        BY <3>1, <4>2, <4>3 DEF HasLeft
    <3>4. QED
      BY <3>2, <3>3
  <2>5. Progress'
    BY <1>1, <1>2, <2>1, <2>3 DEF Progress, Commanded, Asked, Offered
  <2>6. DrivePhase'
    BY <1>1, <2>4 DEF DrivePhase, Commanded, Asked, Offered
  <2>7. ~clobbered' => BytesStored'
    <3>1. \A k \in 0 .. i' - 1 : k < count => k \in 0 .. i - 1
      BY <1>1, <2>1, <2>2
    <3>2. QED
      BY <1>1, <1>2, <2>1, <3>1 DEF BytesStored
  <2>8. QED
    BY <2>5, <2>6, <2>7 DEF Going
<1>5. QED
  BY <1>1, <1>3, <1>4, StepShows DEF request

(* atapiRead returns early only when it has overtaken the size, and then   *)
(* the sector is not on a boundary or was cut short.                       *)
LEMMA ReturnStep ==
  ASSUME ReadInv, ShortReturn \/ FullReturn
  PROVE  ReadInv'
<1>1. /\ pc = "copy" /\ pc' = "out"
      /\ (i < count /\ i > size) \/ (~(i < count) /\ ~(i < size))
      /\ UNCHANGED <<lba0, count, pos0, buf, phase, clobbered, short>>
  BY DEF ShortReturn, FullReturn, request, locals, device, history
<1>2. pc' \in Places /\ Base' = Base
  BY <1>1 DEF Places, Base
<1>3. ASSUME Aligned, ~short
      PROVE  Returned'
  <2>1. Progress /\ DrivePhase /\ (~clobbered => BytesStored) /\ count \in Nat
    BY <1>1, <1>3 DEF ReadInv, RequestType
  <2>2. /\ i \in Nat /\ Begin \in Nat /\ size \in Nat /\ size >= Begin + Sector
        /\ HasLeft(Begin + Sector - i) /\ (i < count => i < Begin + Sector)
    BY <1>1, <2>1 DEF Progress, DrivePhase
  <2>3. ~(i < count) /\ ~(i < size) /\ ~(Begin + Sector - i > 0)
    BY <1>1, <2>1, <2>2, SectorFacts
  <2>4. phase = "idle"
    BY <2>2, <2>3 DEF HasLeft
  <2>5. \A k \in 0 .. count - 1 : k \in 0 .. i - 1 /\ k < count
    BY <2>1, <2>2, <2>3
  <2>6. QED
    BY <1>1, <1>2, <2>1, <2>4, <2>5 DEF Returned, BytesStored
<1>4. QED
  BY <1>1, <1>2, <1>3, StepShows DEF request

(* The drive goes on by itself. *)
LEMMA DriveStep ==
  ASSUME ReadInv, driveStep
  PROVE  ReadInv'
<1>1. /\ UNCHANGED <<pc, lba0, count, pos0, pos, lba, i, size, buf, ax, sector, clobbered>>
      /\ short => short'
      /\ \/ phase = "busyPacket" /\ phase' = "packet"
         \/ phase = "busyRead" /\ phase' = "data" /\ (~short' => left' = Sector)
         \/ phase = "busyRead" /\ phase' = "error"
  <2>1. CASE DriveAsksPacket
    BY <2>1 DEF DriveAsksPacket, request, locals, history
  <2>2. CASE DriveOffersData
    <3>1. /\ UNCHANGED <<pc, lba0, count, pos0, pos, lba, i, size, buf, ax, sector, clobbered>>
          /\ phase = "busyRead" /\ phase' = "data"
      BY <2>2 DEF DriveOffersData, request, locals
    <3>2. (short => short') /\ (~short' => left' = Sector)
      BY ONLY <2>2, Zenon DEF DriveOffersData
    <3>3. QED
      BY <3>1, <3>2
  <2>3. CASE DriveFails
    BY <2>3 DEF DriveFails, request, locals, history
  <2>4. QED
    BY <2>1, <2>2, <2>3 DEF driveStep
<1>2. Base' = Base /\ Begin' = Begin
  BY <1>1 DEF Base, Begin
<1>3. pc' \in Places
  BY <1>1 DEF ReadInv
<1>4. ASSUME Aligned, ~short, ~short'
      PROVE  IF pc' = "out" THEN Returned' ELSE Going'
  <2>1. CASE pc = "out"
    BY <1>1, <1>4, <2>1 DEF ReadInv, Returned
  <2>2. CASE pc # "out"
    <3>1. Progress /\ DrivePhase /\ (~clobbered => BytesStored) /\ pc \in Places
      BY <1>4, <2>2 DEF ReadInv
    <3>2. pc \in Commanded \union Asked
      BY <1>1, <2>2, <3>1 DEF DrivePhase, HasLeft, Places
    <3>3. Progress'
      BY <1>1, <1>2, <3>1 DEF Progress
    <3>4. DrivePhase'
      BY <1>1, <1>4, <3>1, <3>2 DEF DrivePhase, Commanded, Asked, Offered
    <3>5. ~clobbered' => BytesStored'
      BY <1>1, <1>2, <3>1 DEF BytesStored
    <3>6. QED
      BY <1>1, <2>2, <3>3, <3>4, <3>5 DEF Going
  <2>3. QED
    BY <2>1, <2>2
<1>5. QED
  BY <1>1, <1>3, <1>4, StepShows DEF request

(* Its interrupt changes a flag that only the wait for it reads. *)
LEMMA IrqStep ==
  ASSUME ReadInv, drive \/ UNCHANGED vars
  PROVE  ReadInv'
<1>1. UNCHANGED <<pc, lba0, count, pos0, pos, lba, i, size, buf, ax, phase, sector, left, clobbered, short>>
  BY DEF drive, vars, request, locals, history
<1>2. Base' = Base /\ Begin' = Begin
  BY <1>1 DEF Base, Begin
<1>3. UNCHANGED <<RequestType, Aligned, Returned, BytesStored>>
  BY <1>1, <1>2 DEF RequestType, Aligned, Returned, BytesStored
<1>4. UNCHANGED <<Progress, DrivePhase>>
  BY <1>1, <1>2 DEF Progress, DrivePhase, HasLeft
<1>5. QED
  BY <1>1, <1>3, <1>4 DEF ReadInv

(* A key interrupt replaces a value that has not been used yet. *)
LEMMA KeyStep ==
  ASSUME ReadInv, irq1
  PROVE  ReadInv'
<1>1. /\ pc \in Uses /\ ax' = Clobber /\ clobbered'
      /\ UNCHANGED <<pc, lba0, count, pos0, pos, lba, i, size, buf, phase, sector, left, short>>
  BY DEF irq1, request, locals, device
<1>2. Base' = Base /\ Begin' = Begin
  BY <1>1 DEF Base, Begin
<1>3. pc' \in Places /\ pc' # "out" /\ pc # "out" /\ ax' # 1
  BY <1>1 DEF ReadInv, Uses, Clobber
<1>4. ASSUME Aligned, ~short
      PROVE  Going'
  <2>1. Progress /\ DrivePhase
    BY <1>3, <1>4 DEF ReadInv
  <2>2. Progress'
    BY <1>1, <1>2, <2>1 DEF Progress
  <2>3. DrivePhase'
    BY <1>1, <1>2, <1>3, <2>1 DEF DrivePhase, HasLeft
  <2>4. QED
    BY <1>1, <2>2, <2>3 DEF Going
<1>5. QED
  BY <1>1, <1>3, <1>4, StepShows DEF request

(* A request begins with a fresh command, whatever the last one left. *)
LEMMA CallStep ==
  ASSUME ReadInv, NEW l \in Nat, NEW n \in Counts, NEW p \in Positions, atapiRead(l, n, p)
  PROVE  ReadInv'
<1>1. /\ pc' = "readBsy1" /\ lba0' = l /\ count' = n /\ pos0' = p /\ pos' = p
      /\ lba' = l + p \div Sector /\ i' = 0 /\ size' = 0 /\ phase' = "busyPacket"
  BY DEF atapiRead, StartCommand
<1>2. n \in Nat \ {0} /\ p \in Nat
  BY SectorFacts
<1>3. RequestType' /\ pc' \in Places
  BY <1>1, <1>2 DEF RequestType, Places, Commanded
<1>4. ASSUME Aligned'
      PROVE  Going'
  <2>1. p % Sector = 0
    BY <1>1, <1>4 DEF Aligned
  <2> DEFINE q == p \div Sector
  <2>2. q \in Nat /\ p = Sector * q
    <3>1. q \in Nat /\ p = Sector * q + (p % Sector)
      BY <1>2, SectorFacts
    <3> HIDE DEF q
    <3>2. QED
      BY <1>2, <2>1, <3>1, SectorFacts
  <2>3. lba' = l + q
    BY <1>1
  <2>4. Begin' = 0
    <3>1. Begin' = (l + q) * Sector - (l * Sector + p)
      BY <1>1, <2>3 DEF Begin, Base
    <3> HIDE DEF q
    <3>2. (l + q) * Sector = l * Sector + Sector * q
      BY <2>2, SectorFacts
    <3> DEFINE x == l * Sector
               y == Sector * q
               z == (l + q) * Sector
    <3>3. x \in Nat /\ y \in Nat
      BY <2>2, SectorFacts
    <3>4. z = x + y /\ Begin' = z - (x + p) /\ p = y
      BY <2>2, <3>1, <3>2
    <3> HIDE DEF x, y, z
    <3>5. QED
      BY <1>2, <3>3, <3>4
  <2> HIDE DEF q
  <2>5. lba' \in Nat /\ 0 % Sector = 0 /\ 0 % 2 = 0
    BY <2>2, <2>3, SectorFacts
  <2>6. Rem(pos', Sector) = 0
    BY <1>1, <1>2, <2>1 DEF Rem
  <2>7. Progress'
    BY <1>1, <1>2, <2>4, <2>5, <2>6 DEF Progress, Commanded
  <2>8. DrivePhase'
    BY <1>1 DEF DrivePhase, Commanded, Asked, Offered
  <2>9. BytesStored'
    BY <1>1 DEF BytesStored
  <2>10. QED
    BY <2>7, <2>8, <2>9 DEF Going
<1>5. QED
  BY <1>1, <1>3, <1>4 DEF ReadInv, Going

LEMMA InitInv == Init => ReadInv
<1> SUFFICES ASSUME Init PROVE ReadInv
  OBVIOUS
<1>1. pc = "out" /\ lba0 = 0 /\ count = 0 /\ pos0 = 0 /\ phase = "idle"
  BY DEF Init
<1>2. RequestType /\ pc \in Places /\ Returned
  BY <1>1 DEF RequestType, Places, Returned
<1>3. QED
  BY <1>1, <1>2 DEF ReadInv

LEMMA NextInv == ReadInv /\ [Next]_vars => ReadInv'
<1> SUFFICES ASSUME ReadInv, [Next]_vars PROVE ReadInv'
  OBVIOUS
<1>1. ASSUME NEW l \in 0 .. MaxLba, NEW n \in Counts, NEW p \in Positions, atapiRead(l, n, p)
      PROVE  ReadInv'
  BY <1>1, CallStep
<1>2. CASE waitBsy
  <2>1. CASE StatusRead("readBsy1", "testBsy1", BSY)
    BY <2>1, StatusReadStep DEF BSY
  <2>2. CASE StatusTest("testBsy1", "readBsy1", "readDrq1", ax # 1)
    BY <2>2, StatusTestStep
  <2>3. CASE StatusRead("readBsy2", "testBsy2", BSY)
    BY <2>3, StatusReadStep DEF BSY
  <2>4. CASE StatusTest("testBsy2", "readBsy2", "readDrq2", ax # 1)
    BY <2>4, StatusTestStep
  <2>5. QED
    BY <1>2, <2>1, <2>2, <2>3, <2>4 DEF waitBsy
<1>3. CASE waitDrq
  <2>1. CASE StatusRead("readDrq1", "testDrq1", DRQ)
    <3>1. DRQ \in BOOLEAN
      BY DEF DRQ
    <3>2. QED
      BY <2>1, <3>1, StatusReadStep
  <2>2. CASE StatusTest("testDrq1", "readDrq1", "sendPacket", ax = 1)
    BY <2>2, StatusTestStep
  <2>3. CASE StatusRead("readDrq2", "testDrq2", DRQ)
    <3>1. DRQ \in BOOLEAN
      BY DEF DRQ
    <3>2. QED
      BY <2>3, <3>1, StatusReadStep
  <2>4. CASE StatusTest("testDrq2", "readDrq2", IF i = 0 THEN "waitIrq" ELSE "readSize", ax = 1)
    <3>1. PICK next \in {"waitIrq", "readSize"} : StatusTest("testDrq2", "readDrq2", next, ax = 1)
      BY <2>4
    <3>2. QED
      BY <3>1, StatusTestStep
  <2>5. QED
    BY <1>3, <2>1, <2>2, <2>3, <2>4 DEF waitDrq
<1>4. CASE sendPacket
  BY <1>4, SendPacketStep
<1>5. CASE waitIrq \/ readSize
  BY <1>5, OfferedStep
<1>6. CASE addSize
  BY <1>6, AddSizeStep
<1>7. CASE readWord
  BY <1>7, ReadWordStep
<1>8. CASE ShortReturn \/ FullReturn
  BY <1>8, ReturnStep
<1>9. CASE StoreLastOdd
  BY <1>9, StoreLastOddStep
<1>10. CASE StoreWord
  BY <1>10, StoreWordStep
<1>11. CASE drain
  BY <1>11, DrainStep
<1>12. CASE driveStep
  BY <1>12, DriveStep
<1>13. CASE drive \/ UNCHANGED vars
  BY <1>13, IrqStep
<1>14. CASE irq1
  BY <1>14, KeyStep
<1>15. QED
  BY <1>1, <1>2, <1>3, <1>4, <1>5, <1>6, <1>7, <1>8, <1>9, <1>10, <1>11, <1>12, <1>13, <1>14
     DEF Next, readStep

-----------------------------------------------------------------------------
(* The inductive invariant: how far an aligned request has come and which  *)
(* phase of its command the drive is in.                                   *)
THEOREM ReadInvariant == Spec => []ReadInv
<1>1. Init => ReadInv
  BY InitInv
<1>2. ReadInv /\ [Next]_vars => ReadInv'
  BY NextInv
<1>3. QED
  BY <1>1, <1>2, PTL DEF Spec

(* ReturnsDiscBytes: atapiRead returns the bytes of the disc in order,     *)
(* across as many sectors as the request spans, for a request that starts  *)
(* on a sector boundary.                                                   *)
THEOREM DiscBytesReturned == Spec => []ReturnsDiscBytes
<1>1. ReadInv => ReturnsDiscBytes
  <2> SUFFICES ASSUME ReadInv, pc = "out", Aligned, Undisturbed
               PROVE  \A k \in 0 .. count - 1 : buf[k] = lba0 * Sector + pos0 + k
    BY DEF ReturnsDiscBytes
  <2>1. Returned /\ ~clobbered
    BY DEF ReadInv, Undisturbed
  <2>2. QED
    BY <2>1 DEF Returned, Base
<1>2. QED
  BY <1>1, ReadInvariant, PTL

(* WordsInDataPhase: atapiRead reads a word only while the drive offers    *)
(* data, also when key interrupts have cut its waits for BSY short.        *)
THEOREM WordsOffered == Spec => []WordsInDataPhase
<1>1. ReadInv => WordsInDataPhase
  <2> SUFFICES ASSUME ReadInv, pc = "copy", i < count, Aligned, ~short
               PROVE  phase = "data" /\ left > 0
    BY DEF WordsInDataPhase
  <2>1. Progress /\ DrivePhase
    BY DEF ReadInv
  <2>2. i \in Nat /\ Begin \in Nat /\ i < Begin + Sector /\ HasLeft(Begin + Sector - i)
    BY <2>1 DEF Progress, DrivePhase
  <2>3. Begin + Sector - i > 0
    BY <2>2, SectorFacts
  <2>4. QED
    BY <2>2, <2>3 DEF HasLeft
<1>2. QED
  BY <1>1, ReadInvariant, PTL

(* LeavesDriveIdle: an even request leaves no data of its last sector in   *)
(* the drive.                                                              *)
THEOREM DriveLeftIdle == Spec => []LeavesDriveIdle
<1>1. ReadInv => LeavesDriveIdle
  BY DEF ReadInv, Returned, LeavesDriveIdle
<1>2. QED
  BY <1>1, ReadInvariant, PTL

=============================================================================
