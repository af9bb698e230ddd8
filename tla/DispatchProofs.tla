--------------------------- MODULE DispatchProofs ---------------------------
(***************************************************************************)
(* Proofs about what interrupts do to the program they come into: the      *)
(* stubs, which take the processor from it and give it back, and sleep,    *)
(* which waits for them.                                                   *)
(*                                                                         *)
(* The stubs are those of Interrupts, for every set of lines without the   *)
(* one that joins the controllers.  IrqInv is the inductive invariant: at  *)
(* most one stub is executed, and at each of its places it is known what   *)
(* it has pushed, which registers it has taken back, and which controller  *)
(* it still owes an end of interrupt.                                      *)
(*                                                                         *)
(* sleep is that of Timer, for any width of the tick counter that is a     *)
(* number of bytes and any arguments.  TimerInv is the inductive           *)
(* invariant: what initialTicks has to do with the tick at which the sleep *)
(* began, whether or not a key has changed its low byte.                   *)
(***************************************************************************)
EXTENDS Timer, Interrupts, TLAPS

(* A stub on the stack: the code it interrupted had its own registers.     *)
Frame(s, n, st) == [stub |-> s, ip |-> n, entry |-> Own, stack |-> st]

(* The instruction at a place of a stub.                                   *)
NameAt(s, n) == Code[s][n][1]
ArgAt(s, n) == Code[s][n][2]
Is(s, n, name, arg) == NameAt(s, n) = name /\ ArgAt(s, n) = arg

LEMMA irqCodeIs ==
  /\ Is("irq", 1, "pusha", "") /\ Is("irq", 2, "push", "segments")
  /\ Is("irq", 3, "mov", "eax") /\ Is("irq", 4, "mov", "segments")
  /\ Is("irq", 5, "pop", "segments") /\ Is("irq", 6, "popa", "")
  /\ Is("irq", 7, "mov", "eax") /\ Is("irq", 8, "eoi", "master") /\ Is("irq", 9, "eoi", "slave")
  /\ Is("irq", 10, "sti", "") /\ Is("irq", 11, "iret", "")
  BY DEF Is, NameAt, ArgAt, Code, irqCode, Op, Push, Pop, Mov

(* What irq0 and a system call save, in the order of the pushes. *)
irq0Saved == <<"eax", "ebx", "ecx", "edx", "edi", "esi", "ebp">>
sysSaved == <<"edi", "esi", "edx", "ecx", "ebx">>

LEMMA irq0CodeIs ==
  /\ \A n \in 1 .. 7 : Is("irq0", n, "push", irq0Saved[n])
  /\ \A n \in 8 .. 10 : \E r \in {"ebx", "ecx", "edx"} : Is("irq0", n, "mov", r)
  /\ \A n \in 11 .. 13 : \E r \in {"ebx", "ecx", "edx"} : Is("irq0", n, "push", r)
  /\ Is("irq0", 14, "mov", "eax") /\ Is("irq0", 15, "eoi", "master") /\ Is("irq0", 16, "mov", "eax")
  /\ Is("irq0", 17, "call", "timerTick")
  /\ \A n \in 18 .. 21 : \E r \in {"eax", "ecx"} : Is("irq0", n, "pop", r)
  /\ \A n \in 22 .. 27 : Is("irq0", n, "pop", irq0Saved[28 - n])
  /\ Is("irq0", 28, "sti", "") /\ Is("irq0", 29, "iret", "")
<1>1. /\ irq0Saved[1] = "eax" /\ irq0Saved[2] = "ebx" /\ irq0Saved[3] = "ecx"
      /\ irq0Saved[4] = "edx" /\ irq0Saved[5] = "edi" /\ irq0Saved[6] = "esi" /\ irq0Saved[7] = "ebp"
  BY DEF irq0Saved
<1>2. /\ Is("irq0", 1, "push", "eax") /\ Is("irq0", 2, "push", "ebx") /\ Is("irq0", 3, "push", "ecx")
      /\ Is("irq0", 4, "push", "edx") /\ Is("irq0", 5, "push", "edi") /\ Is("irq0", 6, "push", "esi")
      /\ Is("irq0", 7, "push", "ebp")
      /\ Is("irq0", 8, "mov", "ecx") /\ Is("irq0", 9, "mov", "edx") /\ Is("irq0", 10, "mov", "ebx")
      /\ Is("irq0", 11, "push", "ecx") /\ Is("irq0", 12, "push", "ebx") /\ Is("irq0", 13, "push", "edx")
      /\ Is("irq0", 14, "mov", "eax") /\ Is("irq0", 15, "eoi", "master") /\ Is("irq0", 16, "mov", "eax")
      /\ Is("irq0", 17, "call", "timerTick")
  BY DEF Is, NameAt, ArgAt, Code, irq0Code, Op, Push, Pop, Mov
<1>3. /\ Is("irq0", 18, "pop", "eax") /\ Is("irq0", 19, "pop", "eax") /\ Is("irq0", 20, "pop", "eax")
      /\ Is("irq0", 21, "pop", "ecx") /\ Is("irq0", 22, "pop", "esi") /\ Is("irq0", 23, "pop", "edi")
      /\ Is("irq0", 24, "pop", "edx") /\ Is("irq0", 25, "pop", "ecx") /\ Is("irq0", 26, "pop", "ebx")
      /\ Is("irq0", 27, "pop", "eax") /\ Is("irq0", 28, "sti", "") /\ Is("irq0", 29, "iret", "")
  BY DEF Is, NameAt, ArgAt, Code, irq0Code, Op, Push, Pop, Mov
<1>4. ASSUME NEW n \in 1 .. 7 PROVE Is("irq0", n, "push", irq0Saved[n])
  <2>1. n \in {1, 2, 3, 4, 5, 6, 7}
    OBVIOUS
  <2>2. QED
    BY <1>1, <1>2, <2>1
<1>5. ASSUME NEW n \in 8 .. 10 PROVE \E r \in {"ebx", "ecx", "edx"} : Is("irq0", n, "mov", r)
  <2>1. n \in {8, 9, 10}
    OBVIOUS
  <2>2. QED
    BY <1>2, <2>1
<1>6. ASSUME NEW n \in 11 .. 13 PROVE \E r \in {"ebx", "ecx", "edx"} : Is("irq0", n, "push", r)
  <2>1. n \in {11, 12, 13}
    OBVIOUS
  <2>2. QED
    BY <1>2, <2>1
<1>7. ASSUME NEW n \in 18 .. 21 PROVE \E r \in {"eax", "ecx"} : Is("irq0", n, "pop", r)
  <2>1. n \in {18, 19, 20, 21}
    OBVIOUS
  <2>2. QED
    BY <1>3, <2>1
<1>8. ASSUME NEW n \in 22 .. 27 PROVE Is("irq0", n, "pop", irq0Saved[28 - n])
  <2>1. \/ (n = 22 /\ 28 - n = 6) \/ (n = 23 /\ 28 - n = 5) \/ (n = 24 /\ 28 - n = 4)
        \/ (n = 25 /\ 28 - n = 3) \/ (n = 26 /\ 28 - n = 2) \/ (n = 27 /\ 28 - n = 1)
    OBVIOUS
  <2>2. QED
    BY ONLY <1>1, <1>3, <2>1
<1>9. QED
  BY <1>2, <1>3, <1>4, <1>5, <1>6, <1>7, <1>8

LEMMA irq1CodeIs ==
  /\ Is("irq1", 1, "pusha", "") /\ Is("irq1", 2, "push", "segments")
  /\ Is("irq1", 3, "mov", "eax") /\ Is("irq1", 4, "mov", "segments")
  /\ Is("irq1", 5, "call", "keyboard")
  /\ Is("irq1", 6, "pop", "segments") /\ Is("irq1", 7, "popa", "")
  /\ Is("irq1", 8, "mov", "eax") /\ Is("irq1", 9, "eoi", "master")
  /\ Is("irq1", 10, "sti", "") /\ Is("irq1", 11, "iret", "")
  BY DEF Is, NameAt, ArgAt, Code, irq1Code, Op, Push, Pop, Mov

LEMMA irq15CodeIs ==
  /\ Is("irq15", 1, "pusha", "") /\ Is("irq15", 2, "push", "segments")
  /\ Is("irq15", 3, "mov", "eax") /\ Is("irq15", 4, "mov", "segments")
  /\ Is("irq15", 5, "call", "drive")
  /\ Is("irq15", 6, "pop", "segments") /\ Is("irq15", 7, "mov", "eax")
  /\ Is("irq15", 8, "eoi", "slave") /\ Is("irq15", 9, "eoi", "master")
  /\ Is("irq15", 10, "popa", "")
  /\ Is("irq15", 11, "sti", "") /\ Is("irq15", 12, "iret", "")
  BY DEF Is, NameAt, ArgAt, Code, irq15Code, Op, Push, Pop, Mov

LEMMA sysCodeIs ==
  /\ Is("sys", 1, "push", "eax") /\ Is("sys", 2, "mov", "eax")
  /\ Is("sys", 3, "eoi", "master") /\ Is("sys", 4, "eoi", "slave") /\ Is("sys", 5, "pop", "eax")
  /\ \A n \in 6 .. 10 : Is("sys", n, "push", sysSaved[n - 5])
  /\ Is("sys", 11, "push", "eax")
  /\ Is("sys", 12, "call", "syscl") /\ Is("sys", 13, "pop", "ebx")
  /\ \A n \in 14 .. 18 : Is("sys", n, "pop", sysSaved[19 - n])
  /\ Is("sys", 19, "sti", "") /\ Is("sys", 20, "iret", "")
<1>1. /\ sysSaved[1] = "edi" /\ sysSaved[2] = "esi" /\ sysSaved[3] = "edx"
      /\ sysSaved[4] = "ecx" /\ sysSaved[5] = "ebx"
  BY DEF sysSaved
<1>2. /\ Is("sys", 1, "push", "eax") /\ Is("sys", 2, "mov", "eax")
      /\ Is("sys", 3, "eoi", "master") /\ Is("sys", 4, "eoi", "slave") /\ Is("sys", 5, "pop", "eax")
      /\ Is("sys", 6, "push", "edi") /\ Is("sys", 7, "push", "esi") /\ Is("sys", 8, "push", "edx")
      /\ Is("sys", 9, "push", "ecx") /\ Is("sys", 10, "push", "ebx") /\ Is("sys", 11, "push", "eax")
  BY DEF Is, NameAt, ArgAt, Code, sysCode, Op, Push, Pop, Mov
<1>3. /\ Is("sys", 12, "call", "syscl") /\ Is("sys", 13, "pop", "ebx")
      /\ Is("sys", 14, "pop", "ebx") /\ Is("sys", 15, "pop", "ecx") /\ Is("sys", 16, "pop", "edx")
      /\ Is("sys", 17, "pop", "esi") /\ Is("sys", 18, "pop", "edi")
      /\ Is("sys", 19, "sti", "") /\ Is("sys", 20, "iret", "")
  BY DEF Is, NameAt, ArgAt, Code, sysCode, Op, Push, Pop, Mov
<1>4. ASSUME NEW n \in 6 .. 10 PROVE Is("sys", n, "push", sysSaved[n - 5])
  <2>1. n \in {6, 7, 8, 9, 10}
    OBVIOUS
  <2>2. QED
    BY <1>1, <1>2, <2>1
<1>5. ASSUME NEW n \in 14 .. 18 PROVE Is("sys", n, "pop", sysSaved[19 - n])
  <2>1. \/ (n = 14 /\ 19 - n = 5) \/ (n = 15 /\ 19 - n = 4) \/ (n = 16 /\ 19 - n = 3)
        \/ (n = 17 /\ 19 - n = 2) \/ (n = 18 /\ 19 - n = 1)
    OBVIOUS
  <2>2. QED
    BY ONLY <1>1, <1>3, <2>1
<1>6. QED
  BY <1>2, <1>3, <1>4, <1>5

LEMMA isrCodeIs ==
  /\ Is("isr", 1, "mov", "eax") /\ Is("isr", 2, "mov", "ebx") /\ Is("isr", 3, "mov", "ecx")
  /\ Is("isr", 4, "mov", "edx") /\ Is("isr", 5, "pusha", "") /\ Is("isr", 6, "push", "segments")
  /\ Is("isr", 7, "call", "interrupt")
  BY DEF Is, NameAt, ArgAt, Code, isrCode, Op, Push, Pop, Mov

(* The values pushed and not yet popped, the last one first: d of them, of *)
(* which the first ones pushed are known.                                  *)
Slots(st, d, saved) ==
    /\ \E S : st \in Seq(S)
    /\ Len(st) = d
    /\ \A i \in 1 .. d : i <= Len(saved) => st[d + 1 - i] = saved[i]

(* A push of v and a pop: st has d values in it, or e = d + 1.             *)
Pushing(st, d, saved, v, new, e) ==
    /\ d \in Nat /\ e = d + 1 /\ Len(saved) \in Nat
    /\ Slots(st, d, saved)
    /\ d < Len(saved) => v = saved[e]
    /\ new = <<v>> \o st
Popping(st, d, saved, e) ==
    /\ d \in Nat /\ e = d + 1 /\ Len(saved) \in Nat
    /\ Slots(st, e, saved)

LEMMA PushedSlot ==
  ASSUME NEW st, NEW d, NEW saved, NEW v, NEW new, NEW e, Pushing(st, d, saved, v, new, e)
  PROVE  Slots(new, e, saved)
<1>0. /\ d \in Nat /\ e = d + 1 /\ Len(saved) \in Nat /\ Slots(st, d, saved)
      /\ d < Len(saved) => v = saved[e]
      /\ new = <<v>> \o st
  BY DEF Pushing
<1> USE <1>0
<1>1. PICK S : st \in Seq(S)
  BY DEF Slots
<1>2. Len(st) = d
  BY DEF Slots
<1>3. st \in Seq(S \union {v}) /\ <<v>> \in Seq(S \union {v})
  BY <1>1
<1>4. /\ new \in Seq(S \union {v}) /\ Len(new) = d + 1
      /\ new[1] = v
      /\ \A k \in 1 .. d : new[k + 1] = st[k]
  BY <1>2, <1>3
<1>5. ASSUME NEW i \in 1 .. d + 1, i <= Len(saved)
      PROVE  new[(d + 1) + 1 - i] = saved[i]
  <2>1. CASE i = d + 1
    BY <1>4, <1>5, <2>1
  <2>2. CASE i \in 1 .. d
    <3>1. PICK j \in 1 .. d : j = d + 1 - i /\ j + 1 = (d + 1) + 1 - i
      BY <2>2
    <3>2. st[j] = saved[i]
      BY <1>5, <2>2, <3>1 DEF Slots
    <3>3. new[j + 1] = st[j]
      BY <1>4
    <3>4. QED
      BY <3>1, <3>2, <3>3
  <2>3. i = d + 1 \/ i \in 1 .. d
    OBVIOUS
  <2>4. QED
    BY <2>1, <2>2, <2>3, Zenon
<1>6. QED
  BY <1>4, <1>5 DEF Slots

LEMMA PoppedSlot ==
  ASSUME NEW st, NEW d, NEW saved, NEW e, Popping(st, d, saved, e)
  PROVE  /\ Slots(Tail(st), d, saved)
         /\ d < Len(saved) => Head(st) = saved[e]
<1>0. d \in Nat /\ e = d + 1 /\ Len(saved) \in Nat /\ Slots(st, e, saved)
  BY DEF Popping
<1> USE <1>0
<1>1. PICK S : st \in Seq(S)
  BY DEF Slots
<1>2. Len(st) = d + 1
  BY DEF Slots
<1>3. /\ Tail(st) \in Seq(S) /\ Len(Tail(st)) = d /\ Head(st) = st[1]
      /\ \A k \in 1 .. d : Tail(st)[k] = st[k + 1]
  BY <1>1, <1>2
<1>4. ASSUME NEW i \in 1 .. d + 1, i <= Len(saved)
      PROVE  st[(d + 1) + 1 - i] = saved[i]
  BY <1>4 DEF Slots
<1>5. ASSUME NEW i \in 1 .. d, i <= Len(saved)
      PROVE  Tail(st)[d + 1 - i] = saved[i]
  <2>1. d + 1 - i \in 1 .. d /\ (d + 1 - i) + 1 = (d + 1) + 1 - i
    OBVIOUS
  <2>2. QED
    BY <1>3, <1>4, <1>5, <2>1
<1>6. ASSUME d < Len(saved) PROVE Head(st) = saved[e]
  <2>1. d + 1 \in 1 .. d + 1 /\ d + 1 <= Len(saved) /\ (d + 1) + 1 - (d + 1) = 1
    BY <1>6
  <2>2. st[(d + 1) + 1 - (d + 1)] = saved[d + 1]
    BY <1>4, <2>1
  <2>3. QED
    BY <1>3, <2>1, <2>2
<1>7. QED
  BY <1>3, <1>5, <1>6 DEF Slots

LEMMA NoSlots == \A st, saved : Slots(st, 0, saved) => st = <<>>
  BY DEF Slots
LEMMA NoSlotsYet == \A saved : Slots(<<>>, 0, saved)
  BY DEF Slots
LEMMA OtherSlots == \A st, saved, new : Slots(st, 0, saved) => Slots(st, 0, new)
  BY DEF Slots

LEMMA irqPlaces ==
  ASSUME NEW n \in 1 .. 11
  PROVE  /\ NameAt("irq", n) = "pusha" <=> n = 1
         /\ NameAt("irq", n) = "push" <=> n = 2
         /\ NameAt("irq", n) = "mov" <=> n \in {3, 4, 7}
         /\ NameAt("irq", n) = "pop" <=> n = 5
         /\ NameAt("irq", n) = "popa" <=> n = 6
         /\ NameAt("irq", n) = "eoi" <=> n \in {8, 9}
         /\ NameAt("irq", n) = "sti" <=> n = 10
         /\ NameAt("irq", n) = "iret" <=> n = 11
         /\ NameAt("irq", n) # "call"
         /\ ArgAt("irq", 2) = "segments" /\ ArgAt("irq", 3) = "eax" /\ ArgAt("irq", 4) = "segments"
         /\ ArgAt("irq", 5) = "segments" /\ ArgAt("irq", 7) = "eax"
         /\ ArgAt("irq", 8) = "master" /\ ArgAt("irq", 9) = "slave"
<1>1. n \in {1, 2, 3, 4, 5, 6, 7, 8, 9, 10, 11}
  OBVIOUS
<1>2. QED
  BY <1>1, irqCodeIs DEF Is
LEMMA irq0SavedAre ==
  /\ Len(irq0Saved) = 7
  /\ irq0Saved[1] = "eax" /\ irq0Saved[2] = "ebx" /\ irq0Saved[3] = "ecx" /\ irq0Saved[4] = "edx"
  /\ irq0Saved[5] = "edi" /\ irq0Saved[6] = "esi" /\ irq0Saved[7] = "ebp"
  BY DEF irq0Saved

LEMMA sysSavedAre ==
  /\ Len(sysSaved) = 5
  /\ sysSaved[1] = "edi" /\ sysSaved[2] = "esi" /\ sysSaved[3] = "edx"
  /\ sysSaved[4] = "ecx" /\ sysSaved[5] = "ebx"
  BY DEF sysSaved

LEMMA irq1Places ==
  ASSUME NEW n \in 1 .. 11
  PROVE  /\ NameAt("irq1", n) = "pusha" <=> n = 1
         /\ NameAt("irq1", n) = "push" <=> n = 2
         /\ NameAt("irq1", n) = "mov" <=> n \in {3, 4, 8}
         /\ NameAt("irq1", n) = "call" <=> n = 5
         /\ NameAt("irq1", n) = "pop" <=> n = 6
         /\ NameAt("irq1", n) = "popa" <=> n = 7
         /\ NameAt("irq1", n) = "eoi" <=> n = 9
         /\ NameAt("irq1", n) = "sti" <=> n = 10
         /\ NameAt("irq1", n) = "iret" <=> n = 11
         /\ ArgAt("irq1", 2) = "segments" /\ ArgAt("irq1", 3) = "eax" /\ ArgAt("irq1", 4) = "segments"
         /\ ArgAt("irq1", 5) = "keyboard" /\ ArgAt("irq1", 6) = "segments"
         /\ ArgAt("irq1", 8) = "eax" /\ ArgAt("irq1", 9) = "master"
<1>1. n \in {1, 2, 3, 4, 5, 6, 7, 8, 9, 10, 11}
  OBVIOUS
<1>2. QED
  BY <1>1, irq1CodeIs DEF Is

LEMMA irq15Places ==
  ASSUME NEW n \in 1 .. 12
  PROVE  /\ NameAt("irq15", n) = "pusha" <=> n = 1
         /\ NameAt("irq15", n) = "push" <=> n = 2
         /\ NameAt("irq15", n) = "mov" <=> n \in {3, 4, 7}
         /\ NameAt("irq15", n) = "call" <=> n = 5
         /\ NameAt("irq15", n) = "pop" <=> n = 6
         /\ NameAt("irq15", n) = "popa" <=> n = 10
         /\ NameAt("irq15", n) = "eoi" <=> n \in {8, 9}
         /\ NameAt("irq15", n) = "sti" <=> n = 11
         /\ NameAt("irq15", n) = "iret" <=> n = 12
         /\ ArgAt("irq15", 2) = "segments" /\ ArgAt("irq15", 3) = "eax" /\ ArgAt("irq15", 4) = "segments"
         /\ ArgAt("irq15", 5) = "drive" /\ ArgAt("irq15", 6) = "segments" /\ ArgAt("irq15", 7) = "eax"
         /\ ArgAt("irq15", 8) = "slave" /\ ArgAt("irq15", 9) = "master"
<1>1. n \in {1, 2, 3, 4, 5, 6, 7, 8, 9, 10, 11, 12}
  OBVIOUS
<1>2. QED
  BY <1>1, irq15CodeIs DEF Is

LEMMA isrPlaces ==
  ASSUME NEW n \in 1 .. 7
  PROVE  /\ NameAt("isr", n) \in {"mov", "pusha", "push", "call"}
         /\ NameAt("isr", n) = "call" <=> n = 7
         /\ ArgAt("isr", 7) = "interrupt"
<1>1. n \in {1, 2, 3, 4, 5, 6, 7}
  OBVIOUS
<1>2. QED
  BY <1>1, isrCodeIs DEF Is

(* What an instruction makes of the registers and the stack. *)
Effect(name, arg, R, st, R2, st2) ==
    \/ name = "push" /\ R2 = R /\ st2 = <<R[arg]>> \o st
    \/ name = "pusha" /\ R2 = R /\ st2 = <<R>> \o st
    \/ name = "pop" /\ R2 = [R EXCEPT ![arg] = Head(st)] /\ st2 = Tail(st)
    \/ /\ name = "popa" /\ st2 = Tail(st)
       /\ R2 = [r \in Registers |-> IF r \in General THEN Head(st)[r] ELSE R[r]]
    \/ name = "mov" /\ R2 = [R EXCEPT ![arg] = Junk] /\ st2 = st
    \/ /\ name = "call" /\ st2 = st
       /\ R2 = [r \in Registers |-> IF r \in General \ {"ebp"} THEN Junk ELSE R[r]]
    \/ name \in {"eoi", "sti"} /\ R2 = R /\ st2 = st

(* A stub that saves the general registers with pusha and then the segment *)
(* registers, and takes them back at the places p and q; back is what it   *)
(* leaves as it was.                                                       *)
Pushed == <<Own, "segments">>
PushedDepth(p, q, n) == IF n = 1 \/ n > q THEN 0 ELSE IF n = 2 \/ n > p THEN 1 ELSE 2
PushaKept(p, q, back, n, R, st) ==
    /\ DOMAIN R = Registers
    /\ Slots(st, PushedDepth(p, q, n), Pushed)
    /\ n <= 3 => R = Own
    /\ n <= 4 \/ n > p => R["segments"] = "segments"
    /\ n > q => \A r \in back : R[r] = r

LEMMA RegistersAre ==
  /\ "segments" \in Registers /\ "segments" \notin General
  /\ Registers = General \union {"segments"}
  /\ DOMAIN Own = Registers /\ \A r \in Registers : Own[r] = r
  BY DEF Registers, General, Own

LEMMA PushedAre == Len(Pushed) = 2 /\ Pushed[1] = Own /\ Pushed[2] = "segments"
  BY DEF Pushed

(* Saving and taking back. *)
LEMMA PushaSaves ==
  ASSUME NEW p \in Nat, NEW q \in Nat, 5 <= p, p < q, NEW back, NEW R, NEW st,
         PushaKept(p, q, back, 1, R, st), NEW st2, st2 = <<R>> \o st
  PROVE  PushaKept(p, q, back, 2, R, st2)
<1>1. PushedDepth(p, q, 1) = 0 /\ PushedDepth(p, q, 2) = 1
  BY DEF PushedDepth
<1>2. Slots(st, 0, Pushed) /\ R = Own
  BY <1>1 DEF PushaKept
<1>3. Slots(st2, 1, Pushed)
  <2>1. Pushing(st, 0, Pushed, R, st2, 1)
    BY <1>2, PushedAre DEF Pushing
  <2>2. QED
    BY <2>1, PushedSlot, Zenon
<1>4. QED
  BY <1>1, <1>2, <1>3 DEF PushaKept

LEMMA SegmentsSaved ==
  ASSUME NEW p \in Nat, NEW q \in Nat, 5 <= p, p < q, NEW back, NEW R, NEW st,
         PushaKept(p, q, back, 2, R, st), NEW st2, st2 = <<R["segments"]>> \o st
  PROVE  PushaKept(p, q, back, 3, R, st2)
<1>1. PushedDepth(p, q, 2) = 1 /\ PushedDepth(p, q, 3) = 2
  BY DEF PushedDepth
<1>2. Slots(st, 1, Pushed) /\ R = Own /\ R["segments"] = "segments"
  BY <1>1 DEF PushaKept
<1>3. Slots(st2, 2, Pushed)
  <2>1. Pushing(st, 1, Pushed, R["segments"], st2, 2)
    BY <1>2, PushedAre DEF Pushing
  <2>2. QED
    BY <2>1, PushedSlot, Zenon
<1>4. QED
  BY <1>1, <1>2, <1>3 DEF PushaKept

LEMMA SegmentsBack ==
  ASSUME NEW p \in Nat, NEW q \in Nat, 5 <= p, p < q, NEW back, NEW R, NEW st,
         PushaKept(p, q, back, p, R, st),
         NEW R2, R2 = [R EXCEPT !["segments"] = Head(st)], NEW st2, st2 = Tail(st)
  PROVE  PushaKept(p, q, back, p + 1, R2, st2)
<1>1. PushedDepth(p, q, p) = 2 /\ PushedDepth(p, q, p + 1) = 1
  BY DEF PushedDepth
<1>2. Slots(st, 2, Pushed) /\ DOMAIN R = Registers
  BY <1>1 DEF PushaKept
<1>3. Slots(st2, 1, Pushed) /\ Head(st) = "segments"
  <2>1. Popping(st, 1, Pushed, 2)
    BY <1>2, PushedAre DEF Popping
  <2>2. Slots(Tail(st), 1, Pushed) /\ (1 < Len(Pushed) => Head(st) = Pushed[2])
    BY <2>1, PoppedSlot, Zenon
  <2>3. QED
    BY <2>2, PushedAre
<1>4. DOMAIN R2 = Registers /\ R2["segments"] = "segments"
  BY <1>2, <1>3, RegistersAre
<1>5. QED
  BY <1>1, <1>3, <1>4 DEF PushaKept

LEMMA GeneralBack ==
  ASSUME NEW p \in Nat, NEW q \in Nat, 5 <= p, p < q,
         NEW back \in SUBSET General, NEW R, NEW st,
         PushaKept(p, q, back, q, R, st), NEW st2, st2 = Tail(st),
         NEW R2, R2 = [r \in Registers |-> IF r \in General THEN Head(st)[r] ELSE R[r]]
  PROVE  PushaKept(p, q, back, q + 1, R2, st2)
<1>1. PushedDepth(p, q, q) = 1 /\ PushedDepth(p, q, q + 1) = 0
  BY DEF PushedDepth
<1>2. Slots(st, 1, Pushed) /\ R["segments"] = "segments"
  BY <1>1 DEF PushaKept
<1>3. Slots(st2, 0, Pushed) /\ Head(st) = Own
  <2>1. Popping(st, 0, Pushed, 1)
    BY <1>2, PushedAre DEF Popping
  <2>2. Slots(Tail(st), 0, Pushed) /\ (0 < Len(Pushed) => Head(st) = Pushed[1])
    BY <2>1, PoppedSlot, Zenon
  <2>3. QED
    BY <2>2, PushedAre
<1>4. DOMAIN R2 = Registers /\ R2["segments"] = "segments" /\ \A r \in back : R2[r] = r
  BY <1>2, <1>3, RegistersAre
<1>5. QED
  BY <1>1, <1>3, <1>4 DEF PushaKept

(* Any other instruction, which leaves the stack alone. *)
LEMMA StackKept ==
  ASSUME NEW p \in Nat, NEW q \in Nat, 5 <= p, p < q, NEW back, NEW R, NEW st,
         NEW n \in Nat, n >= 3, n # p, n # q, PushaKept(p, q, back, n, R, st),
         NEW R2, DOMAIN R2 = Registers,
         n # 4 /\ ~(n > 4 /\ n < p) => R2["segments"] = R["segments"],
         n > q => \A r \in back : R2[r] = R[r]
  PROVE  PushaKept(p, q, back, n + 1, R2, st)
<1>1. PushedDepth(p, q, n) = PushedDepth(p, q, n + 1)
  BY DEF PushedDepth
<1>2. n + 1 <= 4 \/ n + 1 > p => R2["segments"] = "segments"
  BY DEF PushaKept
<1>3. n + 1 > q => \A r \in back : R2[r] = r
  BY DEF PushaKept
<1>4. QED
  BY <1>1, <1>2, <1>3 DEF PushaKept

(* The other instructions of such a stub. *)
Plain(s, p, q, back, n) ==
    \/ \E r \in Registers :
         Is(s, n, "mov", r) /\ (r = "segments" => n = 4) /\ (n > q => r \notin back)
    \/ \E arg : Is(s, n, "eoi", arg) \/ Is(s, n, "sti", arg)
    \/ n < p /\ \E arg : Is(s, n, "call", arg)

PushaStub(s, p, q, back, last) ==
    /\ Is(s, 1, "pusha", "") /\ Is(s, 2, "push", "segments")
    /\ Is(s, p, "pop", "segments") /\ Is(s, q, "popa", "") /\ Is(s, last, "iret", "")
    /\ \A n \in 3 .. last - 1 : n # p /\ n # q => Plain(s, p, q, back, n)

LEMMA PushaSteps ==
  ASSUME NEW p \in Nat, NEW q \in Nat, 5 <= p, p < q, NEW back \in SUBSET General,
         NEW s, NEW last \in Nat, PushaStub(s, p, q, back, last),
         NEW n \in 1 .. last - 1, NEW R, NEW st, NEW R2, NEW st2,
         PushaKept(p, q, back, n, R, st), Effect(NameAt(s, n), ArgAt(s, n), R, st, R2, st2)
  PROVE  PushaKept(p, q, back, n + 1, R2, st2)
<1>1. DOMAIN R = Registers
  BY DEF PushaKept
<1>2. CASE n = 1
  <2>1. Is(s, n, "pusha", "")
    BY <1>2 DEF PushaStub
  <2>2. R2 = R /\ st2 = <<R>> \o st
    BY <2>1 DEF Effect, Is
  <2>3. PushaKept(p, q, back, 1, R, st)
    BY <1>2
  <2>4. PushaKept(p, q, back, 2, R, st2)
    BY <2>2, <2>3, PushaSaves, Zenon
  <2>5. QED
    BY <1>2, <2>2, <2>4
<1>3. CASE n = 2
  <2>1. Is(s, n, "push", "segments")
    BY <1>3 DEF PushaStub
  <2>2. R2 = R /\ st2 = <<R["segments"]>> \o st
    BY <2>1 DEF Effect, Is
  <2>3. PushaKept(p, q, back, 2, R, st)
    BY <1>3
  <2>4. PushaKept(p, q, back, 3, R, st2)
    BY <2>2, <2>3, SegmentsSaved, Zenon
  <2>5. QED
    BY <1>3, <2>2, <2>4
<1>4. CASE n = p
  <2>1. Is(s, n, "pop", "segments")
    BY <1>4 DEF PushaStub
  <2>2. R2 = [R EXCEPT !["segments"] = Head(st)] /\ st2 = Tail(st)
    BY <2>1 DEF Effect, Is
  <2>3. PushaKept(p, q, back, p, R, st)
    BY <1>4
  <2>4. PushaKept(p, q, back, p + 1, R2, st2)
    BY <2>2, <2>3, SegmentsBack, Zenon
  <2>5. QED
    BY <1>4, <2>4
<1>5. CASE n = q
  <2>1. Is(s, n, "popa", "")
    BY <1>5 DEF PushaStub
  <2>2. /\ st2 = Tail(st)
        /\ R2 = [r \in Registers |-> IF r \in General THEN Head(st)[r] ELSE R[r]]
    BY <2>1 DEF Effect, Is
  <2>3. PushaKept(p, q, back, q, R, st)
    BY <1>5
  <2>4. PushaKept(p, q, back, q + 1, R2, st2)
    BY <2>2, <2>3, GeneralBack, Zenon
  <2>5. QED
    BY <1>5, <2>4
<1>6. CASE n >= 3 /\ n # p /\ n # q
  <2>0. n \in 3 .. last - 1
    BY <1>6
  <2>1. Plain(s, p, q, back, n)
    BY <1>6, <2>0 DEF PushaStub
  <2>2. \/ \E r \in Registers : /\ R2 = [R EXCEPT ![r] = Junk] /\ st2 = st
                                /\ r = "segments" => n = 4
                                /\ n > q => r \notin back
        \/ R2 = R /\ st2 = st
        \/ /\ n < p /\ st2 = st
           /\ R2 = [r \in Registers |-> IF r \in General \ {"ebp"} THEN Junk ELSE R[r]]
    BY <2>1 DEF Plain, Effect, Is
  <2>3. st2 = st /\ DOMAIN R2 = Registers
    BY <1>1, <2>2
  <2>4. n # 4 => R2["segments"] = R["segments"]
    BY <1>1, <2>2, RegistersAre
  <2>5. n > q => \A r \in back : R2[r] = R[r]
    BY <1>1, <2>2, RegistersAre
  <2>6. n \in Nat /\ n >= 3 /\ n # p /\ n # q
    BY <1>6
  <2>7. PushaKept(p, q, back, n + 1, R2, st)
    BY <2>3, <2>4, <2>5, <2>6, StackKept, Zenon
  <2>8. QED
    BY <2>3, <2>7
<1>7. QED
  BY <1>2, <1>3, <1>4, <1>5, <1>6

LEMMA irqIsPushaStub == PushaStub("irq", 5, 6, General \ {"eax"}, 11)
<1> DEFINE back == General \ {"eax"}
<1>1. ASSUME NEW n \in 3 .. 11 - 1, n # 5, n # 6 PROVE Plain("irq", 5, 6, back, n)
  <2>1. n \in {3, 4, 7, 8, 9, 10}
    BY <1>1
  <2>2. "eax" \in Registers /\ "segments" \in Registers /\ "eax" \notin back
    BY DEF Registers, General
  <2>3. CASE n \in {3, 4, 7}
    <3>1. Is("irq", n, "mov", IF n = 4 THEN "segments" ELSE "eax")
      BY <2>3, irqCodeIs
    <3>2. QED
      BY <2>2, <2>3, <3>1 DEF Plain
  <2>4. CASE n \in {8, 9, 10}
    <3>1. \E arg : Is("irq", n, "eoi", arg) \/ Is("irq", n, "sti", arg)
      BY <2>4, irqCodeIs
    <3>2. QED
      BY <3>1 DEF Plain
  <2>5. QED
    BY <2>1, <2>3, <2>4
<1>2. QED
  BY <1>1, irqCodeIs DEF PushaStub

LEMMA irq1IsPushaStub == PushaStub("irq1", 6, 7, General \ {"eax"}, 11)
<1> DEFINE back == General \ {"eax"}
<1>1. ASSUME NEW n \in 3 .. 11 - 1, n # 6, n # 7 PROVE Plain("irq1", 6, 7, back, n)
  <2>1. n \in {3, 4, 5, 8, 9, 10}
    BY <1>1
  <2>2. "eax" \in Registers /\ "segments" \in Registers /\ "eax" \notin back
    BY DEF Registers, General
  <2>3. CASE n \in {3, 4, 8}
    <3>1. Is("irq1", n, "mov", IF n = 4 THEN "segments" ELSE "eax")
      BY <2>3, irq1CodeIs
    <3>2. QED
      BY <2>2, <2>3, <3>1 DEF Plain
  <2>4. CASE n \in {9, 10}
    <3>1. \E arg : Is("irq1", n, "eoi", arg) \/ Is("irq1", n, "sti", arg)
      BY <2>4, irq1CodeIs
    <3>2. QED
      BY <3>1 DEF Plain
  <2>5. CASE n = 5
    <3>1. \E arg : Is("irq1", n, "call", arg)
      BY <2>5, irq1CodeIs
    <3>2. QED
      BY <2>5, <3>1 DEF Plain
  <2>6. QED
    BY <2>1, <2>3, <2>4, <2>5
<1>2. QED
  BY <1>1, irq1CodeIs DEF PushaStub

LEMMA irq15IsPushaStub == PushaStub("irq15", 6, 10, General, 12)
<1>1. ASSUME NEW n \in 3 .. 12 - 1, n # 6, n # 10 PROVE Plain("irq15", 6, 10, General, n)
  <2>1. n \in {3, 4, 5, 7, 8, 9, 11}
    BY <1>1
  <2>2. "eax" \in Registers /\ "segments" \in Registers
    BY DEF Registers, General
  <2>3. CASE n \in {3, 4, 7}
    <3>1. Is("irq15", n, "mov", IF n = 4 THEN "segments" ELSE "eax")
      BY <2>3, irq15CodeIs
    <3>2. QED
      BY <2>2, <2>3, <3>1 DEF Plain
  <2>4. CASE n \in {8, 9, 11}
    <3>1. \E arg : Is("irq15", n, "eoi", arg) \/ Is("irq15", n, "sti", arg)
      BY <2>4, irq15CodeIs
    <3>2. QED
      BY <3>1 DEF Plain
  <2>5. CASE n = 5
    <3>1. \E arg : Is("irq15", n, "call", arg)
      BY <2>5, irq15CodeIs
    <3>2. QED
      BY <2>5, <3>1 DEF Plain
  <2>6. QED
    BY <2>1, <2>3, <2>4, <2>5
<1>2. QED
  BY <1>1, irq15CodeIs DEF PushaStub

(* irq0 saves the general registers one by one and takes six of them back. *)
irq0Depth(n) ==
    IF n <= 8 THEN n - 1 ELSE IF n <= 11 THEN 7 ELSE IF n <= 14 THEN n - 4
    ELSE IF n <= 18 THEN 10 ELSE IF n <= 28 THEN 28 - n ELSE 0
irq0Kept(n, R, st) ==
    /\ DOMAIN R = Registers
    /\ Slots(st, irq0Depth(n), irq0Saved)
    /\ R["segments"] = "segments" /\ R["ebp"] = "ebp"
    /\ n <= 8 => \A r \in General : R[r] = r
    /\ \A i \in 1 .. 6 : n > 28 - i => R[irq0Saved[i]] = irq0Saved[i]

LEMMA RegistersDiffer ==
  /\ \A i \in 1 .. 6 : irq0Saved[i] \in General \ {"ebp"}
  /\ \A i \in 1 .. 7 : irq0Saved[i] \in General
  /\ \A i \in 1 .. 5 : sysSaved[i] \in General \ {"ebp"}
  /\ {"eax", "ebx", "ecx", "edx"} \subseteq General \ {"ebp"}
  /\ "ebp" \in General
<1>1. ASSUME NEW i \in 1 .. 6 PROVE irq0Saved[i] \in General \ {"ebp"}
  <2>1. i \in {1, 2, 3, 4, 5, 6}
    OBVIOUS
  <2>2. QED
    BY <2>1, irq0SavedAre DEF General
<1>2. irq0Saved[7] \in General
  BY irq0SavedAre DEF General
<1>3. ASSUME NEW i \in 1 .. 5 PROVE sysSaved[i] \in General \ {"ebp"}
  <2>1. i \in {1, 2, 3, 4, 5}
    OBVIOUS
  <2>2. QED
    BY <2>1, sysSavedAre DEF General
<1>4. {"eax", "ebx", "ecx", "edx"} \subseteq General \ {"ebp"} /\ "ebp" \in General
  BY DEF General
<1>5. \A i \in 1 .. 7 : i = 7 \/ i \in 1 .. 6
  OBVIOUS
<1>6. QED
  BY <1>1, <1>2, <1>3, <1>4, <1>5

LEMMA irq0Steps ==
  ASSUME NEW n \in 1 .. 28, NEW R, NEW st, NEW R2, NEW st2,
         irq0Kept(n, R, st), Effect(NameAt("irq0", n), ArgAt("irq0", n), R, st, R2, st2)
  PROVE  irq0Kept(n + 1, R2, st2)
<1>1. /\ DOMAIN R = Registers /\ R["segments"] = "segments" /\ R["ebp"] = "ebp"
      /\ n <= 8 => \A r \in General : R[r] = r
      /\ \A i \in 1 .. 6 : n > 28 - i => R[irq0Saved[i]] = irq0Saved[i]
      /\ Slots(st, irq0Depth(n), irq0Saved)
  BY DEF irq0Kept
<1>2. Len(irq0Saved) = 7 /\ Len(irq0Saved) \in Nat
  BY irq0SavedAre
<1>3. CASE n \in 1 .. 7
  <2>1. Is("irq0", n, "push", irq0Saved[n])
    BY <1>3, irq0CodeIs
  <2>2. R2 = R /\ st2 = <<R[irq0Saved[n]]>> \o st
    BY <2>1 DEF Effect, Is
  <2>3. R[irq0Saved[n]] = irq0Saved[n]
    BY <1>1, <1>3, RegistersDiffer
  <2>4. n - 1 \in Nat /\ n = (n - 1) + 1 /\ irq0Depth(n) = n - 1 /\ irq0Depth(n + 1) = n
    BY <1>3 DEF irq0Depth
  <2>5. Slots(st2, n, irq0Saved)
    <3>1. Slots(st, n - 1, irq0Saved) /\ st2 = <<R[irq0Saved[n]]>> \o st
      BY <1>1, <2>2, <2>4
    <3>2. Pushing(st, n - 1, irq0Saved, R[irq0Saved[n]], st2, n)
      BY <1>2, <2>3, <2>4, <3>1 DEF Pushing
    <3>3. QED
      BY <3>2, PushedSlot, Zenon
  <2>6. n + 1 <= 8 /\ \A i \in 1 .. 6 : ~(n + 1 > 28 - i)
    BY <1>3
  <2>7. \A r \in General : R2[r] = r
    BY <1>1, <1>3, <2>2
  <2>8. QED
    BY <1>1, <2>2, <2>4, <2>5, <2>6, <2>7 DEF irq0Kept
<1>4. CASE n \in 11 .. 13
  <2>1. PICK v : R2 = R /\ st2 = <<v>> \o st
    BY <1>4, irq0CodeIs DEF Effect, Is
  <2>2. /\ n - 4 \in Nat /\ n - 3 = (n - 4) + 1 /\ irq0Depth(n) = n - 4 /\ irq0Depth(n + 1) = n - 3
        /\ ~(n - 4 < 7)
    BY <1>4 DEF irq0Depth
  <2>3. Slots(st2, n - 3, irq0Saved)
    <3>1. Slots(st, n - 4, irq0Saved) /\ ~(n - 4 < Len(irq0Saved))
      BY <1>1, <1>2, <2>2
    <3>2. Pushing(st, n - 4, irq0Saved, v, st2, n - 3)
      BY <1>2, <2>1, <2>2, <3>1 DEF Pushing
    <3>3. QED
      BY <3>2, PushedSlot, Zenon
  <2>4. ~(n + 1 <= 8) /\ \A i \in 1 .. 6 : ~(n + 1 > 28 - i)
    BY <1>4
  <2>5. QED
    BY <1>1, <2>1, <2>2, <2>3, <2>4 DEF irq0Kept
<1>5. CASE n \in 18 .. 27
  <2>1. PICK d \in Nat : d = 27 - n
    BY <1>5
  <2>2. irq0Depth(n) = d + 1 /\ irq0Depth(n + 1) = d
    BY <1>5, <2>1 DEF irq0Depth
  <2>3. Slots(Tail(st), d, irq0Saved) /\ (d < 7 => Head(st) = irq0Saved[d + 1])
    <3>1. Popping(st, d, irq0Saved, d + 1)
      BY <1>1, <1>2, <2>2 DEF Popping
    <3>2. /\ Slots(Tail(st), d, irq0Saved)
          /\ d < Len(irq0Saved) => Head(st) = irq0Saved[d + 1]
      BY <3>1, PoppedSlot, Zenon
    <3>3. QED
      BY <1>2, <3>2
  <2>4. PICK r \in General \ {"ebp"} :
          /\ R2 = [R EXCEPT ![r] = Head(st)] /\ st2 = Tail(st)
          /\ n > 21 => r = irq0Saved[28 - n]
    <3>1. CASE n \in 18 .. 21
      <4>1. PICK r \in {"eax", "ecx"} : Is("irq0", n, "pop", r)
        BY <3>1, irq0CodeIs
      <4>2. R2 = [R EXCEPT ![r] = Head(st)] /\ st2 = Tail(st)
        BY <4>1 DEF Effect, Is
      <4>3. r \in General \ {"ebp"} /\ ~(n > 21)
        BY <3>1, <4>1, RegistersDiffer
      <4>4. QED
        BY <4>2, <4>3
    <3>2. CASE n \in 22 .. 27
      <4>1. Is("irq0", n, "pop", irq0Saved[28 - n])
        BY <3>2, irq0CodeIs
      <4>2. R2 = [R EXCEPT ![irq0Saved[28 - n]] = Head(st)] /\ st2 = Tail(st)
        BY <4>1 DEF Effect, Is
      <4>3. 28 - n \in 1 .. 6
        BY <3>2
      <4>4. QED
        BY <4>2, <4>3, RegistersDiffer
    <3>3. n \in 18 .. 21 \/ n \in 22 .. 27
      BY <1>5
    <3>4. QED
      BY <3>1, <3>2, <3>3
  <2>5. DOMAIN R2 = Registers /\ R2["segments"] = "segments" /\ R2["ebp"] = "ebp"
    BY <1>1, <2>4, RegistersAre
  <2>6. ASSUME NEW i \in 1 .. 6, n + 1 > 28 - i PROVE R2[irq0Saved[i]] = irq0Saved[i]
    <3>1. irq0Saved[i] \in Registers
      BY RegistersAre, RegistersDiffer
    <3>2. CASE r = irq0Saved[i]
      <4>1. n > 21 /\ d < 7 /\ 28 - n = d + 1
        BY <1>5, <2>1, <2>6
      <4>2. Head(st) = irq0Saved[i]
        BY <2>3, <2>4, <3>2, <4>1
      <4>3. QED
        BY <1>1, <2>4, <3>1, <3>2, <4>2
    <3>3. CASE r # irq0Saved[i]
      <4>1. i # 28 - n
        BY <1>5, <2>4, <2>6, <3>3
      <4>2. n > 28 - i
        BY <2>6, <4>1
      <4>3. R[irq0Saved[i]] = irq0Saved[i]
        BY <1>1, <4>2
      <4>4. QED
        BY <1>1, <2>4, <3>1, <3>3, <4>3
    <3>4. QED
      BY <3>2, <3>3
  <2>7. ~(n + 1 <= 8)
    BY <1>5
  <2>8. QED
    BY <2>2, <2>3, <2>4, <2>5, <2>6, <2>7 DEF irq0Kept
<1>6. CASE n \in 8 .. 10 \/ n = 14 \/ n = 16
  <2>1. PICK r \in {"eax", "ebx", "ecx", "edx"} : Is("irq0", n, "mov", r)
    BY <1>6, irq0CodeIs
  <2>2. R2 = [R EXCEPT ![r] = Junk] /\ st2 = st
    BY <2>1 DEF Effect, Is
  <2>3. irq0Depth(n) = irq0Depth(n + 1)
    BY <1>6 DEF irq0Depth
  <2>4. DOMAIN R2 = Registers /\ R2["segments"] = "segments" /\ R2["ebp"] = "ebp"
    BY <1>1, <2>2, RegistersAre, RegistersDiffer
  <2>5. ~(n + 1 <= 8) /\ \A i \in 1 .. 6 : ~(n + 1 > 28 - i)
    BY <1>6
  <2>6. QED
    BY <1>1, <2>2, <2>3, <2>4, <2>5 DEF irq0Kept
<1>7. CASE n \in {15, 17, 28}
  <2>1. \/ n \in {15, 28} /\ R2 = R /\ st2 = st
        \/ /\ n = 17 /\ st2 = st
           /\ R2 = [r \in Registers |-> IF r \in General \ {"ebp"} THEN Junk ELSE R[r]]
    BY <1>7, irq0CodeIs DEF Effect, Is
  <2>2. irq0Depth(n) = irq0Depth(n + 1)
    BY <1>7 DEF irq0Depth
  <2>3. st2 = st /\ DOMAIN R2 = Registers /\ R2["segments"] = "segments" /\ R2["ebp"] = "ebp"
    BY <1>1, <2>1, RegistersAre, RegistersDiffer
  <2>4. ASSUME NEW i \in 1 .. 6, n + 1 > 28 - i PROVE R2[irq0Saved[i]] = irq0Saved[i]
    BY <1>1, <1>7, <2>1, <2>4
  <2>5. ~(n + 1 <= 8)
    BY <1>7
  <2>6. QED
    BY <1>1, <2>2, <2>3, <2>4, <2>5 DEF irq0Kept
<1>8. QED
  BY <1>3, <1>4, <1>5, <1>6, <1>7

(* A system call saves five registers before its call; eax holds the       *)
(* result.                                                                 *)
sysDepth(n) ==
    IF n = 1 THEN 0 ELSE IF n <= 5 THEN 1 ELSE IF n <= 12 THEN n - 6
    ELSE IF n <= 19 THEN 19 - n ELSE 0
sysKept(n, R, st) ==
    /\ DOMAIN R = Registers
    /\ Slots(st, sysDepth(n), IF n <= 5 THEN <<>> ELSE sysSaved)
    /\ R["segments"] = "segments" /\ R["ebp"] = "ebp"
    /\ n <= 12 => \A r \in General \ {"eax"} : R[r] = r
    /\ \A i \in 1 .. 5 : n > 19 - i => R[sysSaved[i]] = sysSaved[i]

LEMMA sysSavedIsNotEax == \A i \in 1 .. 5 : sysSaved[i] # "eax"
<1>1. ASSUME NEW i \in 1 .. 5 PROVE sysSaved[i] # "eax"
  <2>1. i \in {1, 2, 3, 4, 5}
    OBVIOUS
  <2>2. QED
    BY <2>1, sysSavedAre
<1>2. QED
  BY <1>1

LEMMA sysSteps ==
  ASSUME NEW n \in 1 .. 19, NEW R, NEW st, NEW R2, NEW st2,
         sysKept(n, R, st), Effect(NameAt("sys", n), ArgAt("sys", n), R, st, R2, st2)
  PROVE  sysKept(n + 1, R2, st2)
<1>1. /\ DOMAIN R = Registers /\ R["segments"] = "segments" /\ R["ebp"] = "ebp"
      /\ n <= 12 => \A r \in General \ {"eax"} : R[r] = r
      /\ \A i \in 1 .. 5 : n > 19 - i => R[sysSaved[i]] = sysSaved[i]
      /\ n <= 5 => Slots(st, sysDepth(n), <<>>)
      /\ n > 5 => Slots(st, sysDepth(n), sysSaved)
  BY DEF sysKept
<1>2. /\ Len(sysSaved) = 5 /\ Len(sysSaved) \in Nat
      /\ Len(<<>>) = 0 /\ Len(<<>>) \in Nat
  BY sysSavedAre
<1>3. CASE n = 1
  <2>1. R2 = R /\ st2 = <<R["eax"]>> \o st
    BY <1>3, sysCodeIs DEF Effect, Is
  <2>2. sysDepth(n) = 0 /\ sysDepth(n + 1) = 1 /\ n + 1 = 2 /\ 0 \in Nat /\ 1 = 0 + 1 /\ ~(0 < 0)
    BY <1>3 DEF sysDepth
  <2>3. Slots(st, 0, <<>>)
    BY <1>1, <1>3, <2>2
  <2>4. Slots(st2, 1, <<>>)
    <3>1. PICK v : v = R["eax"] /\ st2 = <<v>> \o st
      BY <2>1
    <3>2. Pushing(st, 0, <<>>, v, st2, 1)
      BY <1>2, <2>3, <3>1 DEF Pushing
    <3>3. QED
      BY <3>2, PushedSlot, Zenon
  <2>5. \A i \in 1 .. 5 : ~(n + 1 > 19 - i)
    BY <1>3
  <2>6. n <= 12 /\ n + 1 <= 5
    BY <1>3
  <2>7. QED
    BY <1>1, <2>1, <2>2, <2>4, <2>5, <2>6 DEF sysKept
<1>4. CASE n \in {2, 3, 4}
  <2>1. \/ n = 2 /\ R2 = [R EXCEPT !["eax"] = Junk] /\ st2 = st
        \/ R2 = R /\ st2 = st
    <3>1. CASE n = 2
      <4>1. NameAt("sys", n) = "mov" /\ ArgAt("sys", n) = "eax"
        BY <3>1, sysCodeIs DEF Is
      <4>2. QED
        BY <3>1, <4>1 DEF Effect
    <3>2. CASE n \in {3, 4}
      <4>1. NameAt("sys", n) = "eoi"
        BY <3>2, sysCodeIs DEF Is
      <4>2. QED
        BY <4>1 DEF Effect
    <3>3. QED
      BY <1>4, <3>1, <3>2
  <2>2. sysDepth(n) = sysDepth(n + 1)
    BY <1>4 DEF sysDepth
  <2>3. DOMAIN R2 = Registers /\ R2["segments"] = "segments" /\ R2["ebp"] = "ebp"
    BY <1>1, <2>1, RegistersAre, RegistersDiffer
  <2>4. \A r \in General \ {"eax"} : R2[r] = r
    BY <1>1, <1>4, <2>1, RegistersAre
  <2>5. n + 1 <= 5 /\ n <= 5 /\ \A i \in 1 .. 5 : ~(n + 1 > 19 - i)
    BY <1>4
  <2>6. QED
    BY <1>1, <2>1, <2>2, <2>3, <2>4, <2>5 DEF sysKept
<1>5. CASE n = 5
  <2>1. R2 = [R EXCEPT !["eax"] = Head(st)] /\ st2 = Tail(st)
    BY <1>5, sysCodeIs DEF Effect, Is
  <2>2. sysDepth(n) = 1 /\ sysDepth(n + 1) = 0 /\ 0 \in Nat /\ 1 = 0 + 1
    BY <1>5 DEF sysDepth
  <2>3. Slots(st, 1, <<>>)
    BY <1>1, <1>5, <2>2
  <2>4. Slots(st2, 0, <<>>)
    <3>1. Popping(st, 0, <<>>, 1)
      BY <1>2, <2>3 DEF Popping
    <3>2. Slots(Tail(st), 0, <<>>)
      BY <3>1, PoppedSlot, Zenon
    <3>3. QED
      BY <2>1, <3>2
  <2>5. Slots(st2, 0, sysSaved)
    BY <2>4, OtherSlots
  <2>6. DOMAIN R2 = Registers /\ R2["segments"] = "segments" /\ R2["ebp"] = "ebp"
    BY <1>1, <2>1, RegistersAre, RegistersDiffer
  <2>7. \A r \in General \ {"eax"} : R2[r] = r
    BY <1>1, <1>5, <2>1, RegistersAre
  <2>8. ~(n + 1 <= 5) /\ \A i \in 1 .. 5 : ~(n + 1 > 19 - i)
    BY <1>5
  <2>9. QED
    BY <2>2, <2>5, <2>6, <2>7, <2>8 DEF sysKept
<1>6. CASE n \in 6 .. 11
  <2>1. PICK v : /\ R2 = R /\ st2 = <<v>> \o st
                 /\ n < 11 => v = sysSaved[n - 5]
    <3>1. CASE n = 11
      <4>1. R2 = R /\ st2 = <<R["eax"]>> \o st
        BY <3>1, sysCodeIs DEF Effect, Is
      <4>2. ~(n < 11)
        BY <3>1
      <4>3. QED
        BY <4>1, <4>2
    <3>2. CASE n \in 6 .. 10
      <4>1. Is("sys", n, "push", sysSaved[n - 5])
        BY <3>2, sysCodeIs
      <4>2. R2 = R /\ st2 = <<R[sysSaved[n - 5]]>> \o st
        BY <4>1 DEF Effect, Is
      <4>3. n - 5 \in 1 .. 5 /\ n <= 12
        BY <3>2
      <4>4. R[sysSaved[n - 5]] = sysSaved[n - 5]
        BY <1>1, <4>3, RegistersDiffer, sysSavedIsNotEax
      <4>5. QED
        BY <4>2, <4>4
    <3>3. n = 11 \/ n \in 6 .. 10
      BY <1>6
    <3>4. QED
      BY <3>1, <3>2, <3>3
  <2>2. PICK d \in Nat, e \in Nat : /\ d = n - 6 /\ e = d + 1 /\ e = n - 5
                                    /\ sysDepth(n) = d /\ sysDepth(n + 1) = e
    <3>1. n - 6 \in Nat /\ n - 5 \in Nat /\ n - 5 = (n - 6) + 1
      BY <1>6
    <3>2. sysDepth(n) = n - 6 /\ sysDepth(n + 1) = n - 5
      BY <1>6 DEF sysDepth
    <3>3. QED
      BY <3>1, <3>2
  <2>3. d < 5 => v = sysSaved[e]
    BY <1>6, <2>1, <2>2
  <2>4. Slots(st, d, sysSaved)
    BY <1>1, <1>6, <2>2
  <2>5. Slots(st2, e, sysSaved)
    <3>1. Pushing(st, d, sysSaved, v, st2, e)
      BY <1>2, <2>1, <2>2, <2>3, <2>4 DEF Pushing
    <3>2. QED
      BY <3>1, PushedSlot, Zenon
  <2>6. ~(n + 1 <= 5) /\ n <= 12 /\ \A i \in 1 .. 5 : ~(n + 1 > 19 - i)
    BY <1>6
  <2>7. QED
    BY <1>1, <2>1, <2>2, <2>5, <2>6 DEF sysKept
<1>7. CASE n = 12
  <2>1. /\ st2 = st
        /\ R2 = [r \in Registers |-> IF r \in General \ {"ebp"} THEN Junk ELSE R[r]]
    BY <1>7, sysCodeIs DEF Effect, Is
  <2>2. sysDepth(n) = sysDepth(n + 1)
    BY <1>7 DEF sysDepth
  <2>3. DOMAIN R2 = Registers /\ R2["segments"] = "segments" /\ R2["ebp"] = "ebp"
    BY <1>1, <2>1, RegistersAre, RegistersDiffer
  <2>4. ~(n + 1 <= 12) /\ ~(n + 1 <= 5) /\ n > 5 /\ \A i \in 1 .. 5 : ~(n + 1 > 19 - i)
    BY <1>7
  <2>5. QED
    BY <1>1, <2>1, <2>2, <2>3, <2>4 DEF sysKept
<1>8. CASE n \in 13 .. 18
  <2>1. PICK d \in Nat, e \in Nat : /\ d = 18 - n /\ e = d + 1 /\ e = 19 - n
                                    /\ sysDepth(n) = e /\ sysDepth(n + 1) = d
    <3>1. 18 - n \in Nat /\ 19 - n \in Nat /\ 19 - n = (18 - n) + 1
      BY <1>8
    <3>2. sysDepth(n) = 19 - n /\ sysDepth(n + 1) = 18 - n
      BY <1>8 DEF sysDepth
    <3>3. QED
      BY <3>1, <3>2
  <2>2. Slots(st, e, sysSaved)
    BY <1>1, <1>8, <2>1
  <2>3. Slots(Tail(st), d, sysSaved) /\ (d < Len(sysSaved) => Head(st) = sysSaved[e])
    <3>1. Popping(st, d, sysSaved, e)
      BY <1>2, <2>1, <2>2 DEF Popping
    <3>2. QED
      BY <3>1, PoppedSlot, Zenon
  <2>4. PICK r \in General \ {"ebp"} :
          /\ R2 = [R EXCEPT ![r] = Head(st)] /\ st2 = Tail(st)
          /\ n > 13 => r = sysSaved[19 - n]
    <3>1. CASE n = 13
      <4>1. R2 = [R EXCEPT !["ebx"] = Head(st)] /\ st2 = Tail(st)
        BY <3>1, sysCodeIs DEF Effect, Is
      <4>2. "ebx" \in General \ {"ebp"} /\ ~(n > 13)
        BY <3>1, RegistersDiffer
      <4>3. QED
        BY <4>1, <4>2
    <3>2. CASE n \in 14 .. 18
      <4>1. Is("sys", n, "pop", sysSaved[19 - n])
        BY <3>2, sysCodeIs
      <4>2. R2 = [R EXCEPT ![sysSaved[19 - n]] = Head(st)] /\ st2 = Tail(st)
        BY <4>1 DEF Effect, Is
      <4>3. 19 - n \in 1 .. 5
        BY <3>2
      <4>4. QED
        BY <4>2, <4>3, RegistersDiffer
    <3>3. n = 13 \/ n \in 14 .. 18
      BY <1>8
    <3>4. QED
      BY <3>1, <3>2, <3>3
  <2>5. DOMAIN R2 = Registers /\ R2["segments"] = "segments" /\ R2["ebp"] = "ebp"
    BY <1>1, <2>4, RegistersAre
  <2>6. ASSUME NEW i \in 1 .. 5, n + 1 > 19 - i PROVE R2[sysSaved[i]] = sysSaved[i]
    <3>1. sysSaved[i] \in Registers
      BY RegistersAre, RegistersDiffer
    <3>2. CASE r = sysSaved[i]
      <4>1. n > 13 /\ d < 5 /\ 19 - n = e
        BY <1>8, <2>1, <2>6
      <4>2. Head(st) = sysSaved[i]
        BY <1>2, <2>3, <2>4, <3>2, <4>1
      <4>3. QED
        BY <1>1, <2>4, <3>1, <3>2, <4>2
    <3>3. CASE r # sysSaved[i]
      <4>1. i # 19 - n
        BY <1>8, <2>4, <2>6, <3>3
      <4>2. n > 19 - i
        BY <2>6, <4>1
      <4>3. R[sysSaved[i]] = sysSaved[i]
        BY <1>1, <4>2
      <4>4. QED
        BY <1>1, <2>4, <3>1, <3>3, <4>3
    <3>4. QED
      BY <3>2, <3>3
  <2>7. ~(n + 1 <= 12) /\ ~(n + 1 <= 5)
    BY <1>8
  <2>8. QED
    BY <2>1, <2>3, <2>4, <2>5, <2>6, <2>7 DEF sysKept
<1>9. CASE n = 19
  <2>1. R2 = R /\ st2 = st
    BY <1>9, sysCodeIs DEF Effect, Is
  <2>2. sysDepth(n) = sysDepth(n + 1) /\ ~(n + 1 <= 12) /\ ~(n + 1 <= 5) /\ n > 5
    BY <1>9 DEF sysDepth
  <2>3. \A i \in 1 .. 5 : n > 19 - i
    BY <1>9
  <2>4. QED
    BY <1>1, <2>1, <2>2, <2>3 DEF sysKept
<1>10. QED
  BY <1>3, <1>4, <1>5, <1>6, <1>7, <1>8, <1>9

Stubs == {"irq", "irq0", "irq1", "irq15", "sys", "isr"}
Length(s) ==
    CASE s \in {"irq", "irq1"} -> 11 [] s = "irq0" -> 29 [] s = "irq15" -> 12
      [] s = "sys" -> 20 [] OTHER -> 7

(* The places of the last end of interrupt a stub owes a controller; 0 when *)
(* the controller has nothing in service.                                   *)
MasterDone(s) ==
    CASE s = "irq" -> 8 [] s = "irq0" -> 15 [] s \in {"irq1", "irq15"} -> 9 [] OTHER -> 0
SlaveDone(s) == CASE s = "irq" -> 9 [] s = "irq15" -> 8 [] OTHER -> 0

AtMostOne(S) == \E l \in Nat : S \subseteq {l}
InService(s, n, M, S) ==
    /\ AtMostOne(M) /\ AtMostOne(S)
    /\ n > MasterDone(s) => M = {}
    /\ n > SlaveDone(s) => S = {}

Kept(s, n, R, st) ==
    /\ s = "irq" => PushaKept(5, 6, General \ {"eax"}, n, R, st)
    /\ s = "irq1" => PushaKept(6, 7, General \ {"eax"}, n, R, st)
    /\ s = "irq15" => PushaKept(6, 10, General, n, R, st)
    /\ s = "irq0" => irq0Kept(n, R, st)
    /\ s = "sys" => sysKept(n, R, st)

(* One stub on the stack. *)
Only(F, s, n, st) == F = <<Frame(s, n, st)>>

Executing(s, n, st) ==
    /\ n \in 1 .. Length(s)
    /\ Only(frames, s, n, st)
    /\ intFlag => shadow /\ n = Length(s) /\ s # "isr"
    /\ InService(s, n, master, slave)
    /\ Kept(s, n, regs, st)

(* No stub, or one. *)
IrqInv ==
    \/ frames = <<>> /\ regs = Own /\ master = {} /\ slave = {}
    \/ \E s \in Stubs : \E n \in Nat : \E st : Executing(s, n, st)

LEMMA StubLengths ==
  /\ Length("irq") = 11 /\ Length("irq1") = 11 /\ Length("irq0") = 29
  /\ Length("irq15") = 12 /\ Length("sys") = 20 /\ Length("isr") = 7
  /\ MasterDone("irq") = 8 /\ MasterDone("irq0") = 15 /\ MasterDone("irq1") = 9
  /\ MasterDone("irq15") = 9 /\ MasterDone("sys") = 0 /\ MasterDone("isr") = 0
  /\ SlaveDone("irq") = 9 /\ SlaveDone("irq15") = 8 /\ SlaveDone("irq0") = 0
  /\ SlaveDone("irq1") = 0 /\ SlaveDone("sys") = 0 /\ SlaveDone("isr") = 0
  BY DEF Length, MasterDone, SlaveDone

LEMMA StubPlaces ==
  ASSUME NEW s \in Stubs
  PROVE  /\ Length(s) \in Nat /\ Length(s) > 1
         /\ MasterDone(s) \in Nat /\ MasterDone(s) < Length(s)
         /\ SlaveDone(s) \in Nat /\ SlaveDone(s) < Length(s)
         /\ s # "isr" => NameAt(s, Length(s)) = "iret"
         /\ MasterDone(s) > 0 => Is(s, MasterDone(s), "eoi", "master")
         /\ SlaveDone(s) > 0 => Is(s, SlaveDone(s), "eoi", "slave")
<1>1. CASE s = "irq"
  <2>1. Length(s) = 11 /\ MasterDone(s) = 8 /\ SlaveDone(s) = 9
    BY <1>1, StubLengths
  <2>2. NameAt("irq", 11) = "iret" /\ Is("irq", 8, "eoi", "master") /\ Is("irq", 9, "eoi", "slave")
    BY irqCodeIs DEF Is
  <2>3. QED
    BY <1>1, <2>1, <2>2
<1>2. CASE s = "irq0"
  <2>1. Length(s) = 29 /\ MasterDone(s) = 15 /\ SlaveDone(s) = 0
    BY <1>2, StubLengths
  <2>2. NameAt("irq0", 29) = "iret" /\ Is("irq0", 15, "eoi", "master")
    BY irq0CodeIs DEF Is
  <2>3. QED
    BY <1>2, <2>1, <2>2
<1>3. CASE s = "irq1"
  <2>1. Length(s) = 11 /\ MasterDone(s) = 9 /\ SlaveDone(s) = 0
    BY <1>3, StubLengths
  <2>2. NameAt("irq1", 11) = "iret" /\ Is("irq1", 9, "eoi", "master")
    BY irq1CodeIs DEF Is
  <2>3. QED
    BY <1>3, <2>1, <2>2
<1>4. CASE s = "irq15"
  <2>1. Length(s) = 12 /\ MasterDone(s) = 9 /\ SlaveDone(s) = 8
    BY <1>4, StubLengths
  <2>2. NameAt("irq15", 12) = "iret" /\ Is("irq15", 9, "eoi", "master") /\ Is("irq15", 8, "eoi", "slave")
    BY irq15CodeIs DEF Is
  <2>3. QED
    BY <1>4, <2>1, <2>2
<1>5. CASE s = "sys"
  <2>1. Length(s) = 20 /\ MasterDone(s) = 0 /\ SlaveDone(s) = 0
    BY <1>5, StubLengths
  <2>2. NameAt("sys", 20) = "iret"
    BY sysCodeIs DEF Is
  <2>3. QED
    BY <1>5, <2>1, <2>2
<1>6. CASE s = "isr"
  <2>1. Length(s) = 7 /\ MasterDone(s) = 0 /\ SlaveDone(s) = 0
    BY <1>6, StubLengths
  <2>2. QED
    BY <1>6, <2>1
<1>7. QED
  BY <1>1, <1>2, <1>3, <1>4, <1>5, <1>6 DEF Stubs

LEMMA irq0Places ==
  ASSUME NEW n \in 1 .. 29
  PROVE  /\ NameAt("irq0", n) = "sti" <=> n = 28
         /\ NameAt("irq0", n) = "iret" <=> n = 29
<1>1. CASE n \in 1 .. 7
  <2>1. NameAt("irq0", n) = "push"
    BY <1>1, irq0CodeIs DEF Is
  <2>2. QED
    BY <1>1, <2>1
<1>2. CASE n \in 8 .. 10
  <2>1. NameAt("irq0", n) = "mov"
    BY <1>2, irq0CodeIs DEF Is
  <2>2. QED
    BY <1>2, <2>1
<1>3. CASE n \in 11 .. 13
  <2>1. NameAt("irq0", n) = "push"
    BY <1>3, irq0CodeIs DEF Is
  <2>2. QED
    BY <1>3, <2>1
<1>4. CASE n \in {14, 15, 16, 17, 28, 29}
  BY <1>4, irq0CodeIs DEF Is
<1>5. CASE n \in 18 .. 21
  <2>1. NameAt("irq0", n) = "pop"
    BY <1>5, irq0CodeIs DEF Is
  <2>2. QED
    BY <1>5, <2>1
<1>6. CASE n \in 22 .. 27
  <2>1. NameAt("irq0", n) = "pop"
    BY <1>6, irq0CodeIs DEF Is
  <2>2. QED
    BY <1>6, <2>1
<1>7. QED
  BY <1>1, <1>2, <1>3, <1>4, <1>5, <1>6

LEMMA sysPlaces ==
  ASSUME NEW n \in 1 .. 20
  PROVE  /\ NameAt("sys", n) = "sti" <=> n = 19
         /\ NameAt("sys", n) = "iret" <=> n = 20
<1>1. CASE n \in 6 .. 10
  <2>1. NameAt("sys", n) = "push"
    BY <1>1, sysCodeIs DEF Is
  <2>2. QED
    BY <1>1, <2>1
<1>2. CASE n \in 14 .. 18
  <2>1. NameAt("sys", n) = "pop"
    BY <1>2, sysCodeIs DEF Is
  <2>2. QED
    BY <1>2, <2>1
<1>3. CASE n \in {1, 2, 3, 4, 5, 11, 12, 13, 19, 20}
  BY <1>3, sysCodeIs DEF Is
<1>4. QED
  BY <1>1, <1>2, <1>3

(* Only the instruction before the last is sti. *)
LEMMA StiPlace ==
  ASSUME NEW s \in Stubs, NEW n \in 1 .. Length(s)
  PROVE  /\ NameAt(s, n) = "sti" => n + 1 = Length(s) /\ s # "isr"
         /\ NameAt(s, n) = "iret" => n = Length(s) /\ s # "isr"
         /\ s = "isr" /\ n = Length(s) => Is(s, n, "call", "interrupt")
<1>1. CASE s = "irq"
  <2>1. n \in 1 .. 11 /\ Length(s) = 11
    BY <1>1, StubLengths
  <2>2. (NameAt("irq", n) = "sti" => n = 10) /\ (NameAt("irq", n) = "iret" => n = 11)
    BY <2>1, irqPlaces
  <2>3. QED
    BY <1>1, <2>1, <2>2
<1>2. CASE s = "irq0"
  <2>1. n \in 1 .. 29 /\ Length(s) = 29
    BY <1>2, StubLengths
  <2>2. (NameAt("irq0", n) = "sti" => n = 28) /\ (NameAt("irq0", n) = "iret" => n = 29)
    BY <2>1, irq0Places
  <2>3. QED
    BY <1>2, <2>1, <2>2
<1>3. CASE s = "irq1"
  <2>1. n \in 1 .. 11 /\ Length(s) = 11
    BY <1>3, StubLengths
  <2>2. (NameAt("irq1", n) = "sti" => n = 10) /\ (NameAt("irq1", n) = "iret" => n = 11)
    BY <2>1, irq1Places
  <2>3. QED
    BY <1>3, <2>1, <2>2
<1>4. CASE s = "irq15"
  <2>1. n \in 1 .. 12 /\ Length(s) = 12
    BY <1>4, StubLengths
  <2>2. (NameAt("irq15", n) = "sti" => n = 11) /\ (NameAt("irq15", n) = "iret" => n = 12)
    BY <2>1, irq15Places
  <2>3. QED
    BY <1>4, <2>1, <2>2
<1>5. CASE s = "sys"
  <2>1. n \in 1 .. 20 /\ Length(s) = 20
    BY <1>5, StubLengths
  <2>2. (NameAt("sys", n) = "sti" => n = 19) /\ (NameAt("sys", n) = "iret" => n = 20)
    BY <2>1, sysPlaces
  <2>3. QED
    BY <1>5, <2>1, <2>2
<1>6. CASE s = "isr"
  <2>1. n \in 1 .. 7 /\ Length(s) = 7
    BY <1>6, StubLengths
  <2>2. NameAt("isr", n) # "sti" /\ NameAt("isr", n) # "iret" /\ Is("isr", 7, "call", "interrupt")
    BY <2>1, isrPlaces, isrCodeIs
  <2>3. QED
    BY <1>6, <2>1, <2>2
<1>7. QED
  BY <1>1, <1>2, <1>3, <1>4, <1>5, <1>6 DEF Stubs

LEMMA KeptSteps ==
  ASSUME NEW s \in Stubs, NEW n \in 1 .. Length(s) - 1, NEW R, NEW st, NEW R2, NEW st2,
         Kept(s, n, R, st), Effect(NameAt(s, n), ArgAt(s, n), R, st, R2, st2)
  PROVE  Kept(s, n + 1, R2, st2)
<1>0. /\ 5 \in Nat /\ 6 \in Nat /\ 7 \in Nat /\ 10 \in Nat /\ 11 \in Nat /\ 12 \in Nat
      /\ 5 <= 5 /\ 5 <= 6 /\ 5 < 6 /\ 6 < 7 /\ 6 < 10
      /\ General \ {"eax"} \in SUBSET General /\ General \in SUBSET General
  OBVIOUS
<1>1. CASE s = "irq"
  <2>1. /\ n \in 1 .. 11 - 1 /\ PushaKept(5, 6, General \ {"eax"}, n, R, st)
        /\ Effect(NameAt("irq", n), ArgAt("irq", n), R, st, R2, st2)
    BY <1>1, StubLengths DEF Kept
  <2>2. PushaKept(5, 6, General \ {"eax"}, n + 1, R2, st2)
    BY <1>0, <2>1, irqIsPushaStub, PushaSteps, Zenon
  <2>3. QED
    BY <1>1, <2>2 DEF Kept
<1>2. CASE s = "irq1"
  <2>1. /\ n \in 1 .. 11 - 1 /\ PushaKept(6, 7, General \ {"eax"}, n, R, st)
        /\ Effect(NameAt("irq1", n), ArgAt("irq1", n), R, st, R2, st2)
    BY <1>2, StubLengths DEF Kept
  <2>2. PushaKept(6, 7, General \ {"eax"}, n + 1, R2, st2)
    BY <1>0, <2>1, irq1IsPushaStub, PushaSteps, Zenon
  <2>3. QED
    BY <1>2, <2>2 DEF Kept
<1>3. CASE s = "irq15"
  <2>1. /\ n \in 1 .. 12 - 1 /\ PushaKept(6, 10, General, n, R, st)
        /\ Effect(NameAt("irq15", n), ArgAt("irq15", n), R, st, R2, st2)
    BY <1>3, StubLengths DEF Kept
  <2>2. PushaKept(6, 10, General, n + 1, R2, st2)
    BY <1>0, <2>1, irq15IsPushaStub, PushaSteps, Zenon
  <2>3. QED
    BY <1>3, <2>2 DEF Kept
<1>4. CASE s = "irq0"
  <2>1. /\ n \in 1 .. 28 /\ irq0Kept(n, R, st)
        /\ Effect(NameAt("irq0", n), ArgAt("irq0", n), R, st, R2, st2)
    BY <1>4, StubLengths DEF Kept
  <2>2. irq0Kept(n + 1, R2, st2)
    BY <2>1, irq0Steps, Zenon
  <2>3. QED
    BY <1>4, <2>2 DEF Kept
<1>5. CASE s = "sys"
  <2>1. /\ n \in 1 .. 19 /\ sysKept(n, R, st)
        /\ Effect(NameAt("sys", n), ArgAt("sys", n), R, st, R2, st2)
    BY <1>5, StubLengths DEF Kept
  <2>2. sysKept(n + 1, R2, st2)
    BY <2>1, sysSteps, Zenon
  <2>3. QED
    BY <1>5, <2>2 DEF Kept
<1>6. CASE s = "isr"
  BY <1>6 DEF Kept
<1>7. QED
  BY <1>1, <1>2, <1>3, <1>4, <1>5, <1>6 DEF Stubs

LEMMA KeptAtStart == \A s \in Stubs : Kept(s, 1, Own, <<>>)
<1>1. \A p, q \in Nat : q > 1 => PushedDepth(p, q, 1) = 0
  BY DEF PushedDepth
<1>2. \A saved : Slots(<<>>, 0, saved)
  BY NoSlotsYet
<1>3. ASSUME NEW p \in Nat, NEW q \in Nat, q > 1, NEW back
      PROVE  PushaKept(p, q, back, 1, Own, <<>>)
  BY <1>1, <1>2, <1>3, RegistersAre DEF PushaKept
<1>4. irq0Kept(1, Own, <<>>)
  <2>1. irq0Depth(1) = 0 /\ \A i \in 1 .. 6 : ~(1 > 28 - i)
    BY DEF irq0Depth
  <2>2. QED
    BY <1>2, <2>1, RegistersAre, RegistersDiffer DEF irq0Kept
<1>5. sysKept(1, Own, <<>>)
  <2>1. sysDepth(1) = 0 /\ \A i \in 1 .. 5 : ~(1 > 19 - i)
    BY DEF sysDepth
  <2>2. QED
    BY <1>2, <2>1, RegistersAre, RegistersDiffer DEF sysKept
<1>6. QED
  BY <1>3, <1>4, <1>5 DEF Kept

(* At the end the stack is empty and the registers are back. *)
LEMMA KeptAtEnd ==
  ASSUME NEW s \in Stubs, s # "isr", NEW R, NEW st, Kept(s, Length(s), R, st)
  PROVE  /\ st = <<>>
         /\ \A r \in Registers : R[r] = r \/ (r = "eax" /\ s \in {"irq", "irq1", "sys"})
<1>1. ASSUME NEW p \in Nat, NEW q \in Nat, NEW n \in Nat, n > q, q > p, NEW back,
             PushaKept(p, q, back, n, R, st)
      PROVE  st = <<>> /\ R["segments"] = "segments" /\ \A r \in back : R[r] = r
  <2>1. PushedDepth(p, q, n) = 0
    BY <1>1 DEF PushedDepth
  <2>2. QED
    BY <1>1, <2>1, NoSlots DEF PushaKept
<1>2. CASE s = "irq"
  <2>1. PushaKept(5, 6, General \ {"eax"}, 11, R, st)
    BY <1>2, StubLengths DEF Kept
  <2>2. QED
    BY <1>1, <1>2, <2>1, RegistersAre
<1>3. CASE s = "irq1"
  <2>1. PushaKept(6, 7, General \ {"eax"}, 11, R, st)
    BY <1>3, StubLengths DEF Kept
  <2>2. QED
    BY <1>1, <1>3, <2>1, RegistersAre
<1>4. CASE s = "irq15"
  <2>1. PushaKept(6, 10, General, 12, R, st)
    BY <1>4, StubLengths DEF Kept
  <2>2. QED
    BY <1>1, <1>4, <2>1, RegistersAre
<1>5. CASE s = "irq0"
  <2>1. irq0Kept(29, R, st)
    BY <1>5, StubLengths DEF Kept
  <2>2. irq0Depth(29) = 0 /\ \A i \in 1 .. 6 : 29 > 28 - i
    BY DEF irq0Depth
  <2>3. st = <<>>
    BY <2>1, <2>2, NoSlots DEF irq0Kept
  <2>4. /\ R["segments"] = "segments" /\ R["ebp"] = "ebp"
        /\ \A i \in 1 .. 6 : R[irq0Saved[i]] = irq0Saved[i]
    BY <2>1, <2>2 DEF irq0Kept
  <2>5. \A r \in Registers : R[r] = r
    BY <2>4, irq0SavedAre DEF Registers, General
  <2>6. QED
    BY <2>3, <2>5
<1>6. CASE s = "sys"
  <2>1. sysKept(20, R, st)
    BY <1>6, StubLengths DEF Kept
  <2>2. sysDepth(20) = 0 /\ \A i \in 1 .. 5 : 20 > 19 - i
    BY DEF sysDepth
  <2>3. st = <<>>
    BY <2>1, <2>2, NoSlots DEF sysKept
  <2>4. /\ R["segments"] = "segments" /\ R["ebp"] = "ebp"
        /\ \A i \in 1 .. 5 : R[sysSaved[i]] = sysSaved[i]
    BY <2>1, <2>2 DEF sysKept
  <2>5. \A r \in Registers : R[r] = r \/ r = "eax"
    BY <2>4, sysSavedAre DEF Registers, General
  <2>6. QED
    BY <1>6, <2>3, <2>5
<1>7. QED
  BY <1>2, <1>3, <1>4, <1>5, <1>6 DEF Stubs

LEMMA EndOfOnly ==
  ASSUME NEW S, AtMostOne(S)
  PROVE  EndOfHighest(S) = {}
<1>1. PICK l \in Nat : S \subseteq {l}
  BY DEF AtMostOne
<1>2. CASE S = {}
  BY <1>2 DEF EndOfHighest
<1>3. CASE S = {l}
  <2>1. Min(S) \in S
    BY <1>3 DEF Min
  <2>2. QED
    BY <1>3, <2>1 DEF EndOfHighest
<1>4. QED
  BY <1>1, <1>2, <1>3

(* A stub's end of interrupt leaves the controller without a line in       *)
(* service; no other instruction stands at those places.                   *)
LEMMA InServiceSteps ==
  ASSUME NEW s \in Stubs, NEW n \in 1 .. Length(s), NEW M, NEW S, InService(s, n, M, S),
         NEW M2, M2 = (IF Is(s, n, "eoi", "master") THEN EndOfHighest(M) ELSE M),
         NEW S2, S2 = (IF Is(s, n, "eoi", "slave") THEN EndOfHighest(S) ELSE S)
  PROVE  InService(s, n + 1, M2, S2)
<1>1. AtMostOne(M) /\ AtMostOne(S) /\ AtMostOne({})
  BY DEF InService, AtMostOne
<1>2. AtMostOne(M2) /\ AtMostOne(S2)
  BY <1>1, EndOfOnly
<1>3. ASSUME n + 1 > MasterDone(s) PROVE M2 = {}
  <2>1. CASE n = MasterDone(s)
    BY <1>1, <2>1, EndOfOnly, StubPlaces
  <2>2. CASE n > MasterDone(s)
    BY <1>1, <2>2, EndOfOnly DEF InService
  <2>3. QED
    BY <1>3, <2>1, <2>2, StubPlaces
<1>4. ASSUME n + 1 > SlaveDone(s) PROVE S2 = {}
  <2>1. CASE n = SlaveDone(s)
    BY <1>1, <2>1, EndOfOnly, StubPlaces
  <2>2. CASE n > SlaveDone(s)
    BY <1>1, <2>2, EndOfOnly DEF InService
  <2>3. QED
    BY <1>4, <2>1, <2>2, StubPlaces
<1>5. QED
  BY <1>2, <1>3, <1>4 DEF InService

(* The instruction of the only stub on the stack. *)
LEMMA Reading ==
  ASSUME NEW s, NEW n, NEW st, Only(frames, s, n, st)
  PROVE  /\ frames # <<>> /\ Len(frames) = 1 /\ Tail(frames) = <<>>
         /\ Top.stack = st /\ Top.stub = s /\ Top.entry = Own
         /\ Arg = ArgAt(s, n)
         /\ \A name : At(name) <=> ~halted /\ NameAt(s, n) = name
<1>1. /\ frames # <<>> /\ frames[1].stub = s /\ frames[1].ip = n /\ frames[1].stack = st
      /\ frames[1].entry = Own /\ Len(frames) = 1 /\ Tail(frames) = <<>>
  BY DEF Frame, Only
<1>2. QED
  BY <1>1 DEF Top, At, Arg, NameAt, ArgAt

LEMMA Stepping ==
  ASSUME NEW s, NEW n, NEW st, Only(frames, s, n, st)
  PROVE  /\ ExecSti => Only(frames', s, n + 1, st)
         /\ \A x : Advance(x) => Only(frames', s, n + 1, x) /\ shadow' = FALSE
<1>1. [frames EXCEPT ![1].ip = @ + 1] = <<Frame(s, n + 1, st)>>
  BY DEF Frame, Only
<1>2. ASSUME ExecSti PROVE Only(frames', s, n + 1, st)
  BY <1>1, <1>2 DEF ExecSti, Only
<1>3. ASSUME NEW x, Advance(x) PROVE Only(frames', s, n + 1, x) /\ shadow' = FALSE
  <2>1. [frames EXCEPT ![1].ip = @ + 1, ![1].stack = x]
          = [[frames EXCEPT ![1].ip = @ + 1] EXCEPT ![1].stack = x]
    BY DEF Only
  <2>2. [<<Frame(s, n + 1, st)>> EXCEPT ![1].stack = x] = <<Frame(s, n + 1, x)>>
    BY DEF Frame
  <2>3. [frames EXCEPT ![1].ip = @ + 1, ![1].stack = x] = <<Frame(s, n + 1, x)>>
    BY <1>1, <2>1, <2>2
  <2>4. frames' = [frames EXCEPT ![1].ip = @ + 1, ![1].stack = x] /\ shadow' = FALSE
    BY <1>3, Zenon DEF Advance
  <2>5. QED
    BY <2>3, <2>4, Zenon DEF Only
<1>4. QED
  BY <1>2, <1>3, Zenon

(* What an instruction that is not the last changes. *)
LEMMA Executed ==
  ASSUME NEW s \in Stubs, NEW n \in 1 .. Length(s), NEW st, Only(frames, s, n, st),
         Exec, ~ExecIret, ~interrupt
  PROVE  /\ \E st2 : /\ Only(frames', s, n + 1, st2)
                     /\ Effect(NameAt(s, n), ArgAt(s, n), regs, st, regs', st2)
         /\ master' = (IF Is(s, n, "eoi", "master") THEN EndOfHighest(master) ELSE master)
         /\ slave' = (IF Is(s, n, "eoi", "slave") THEN EndOfHighest(slave) ELSE slave)
         /\ intFlag' => (intFlag /\ NameAt(s, n) # "sti") \/ (NameAt(s, n) = "sti" /\ shadow')
<1> DEFINE Done(st2) == /\ Only(frames', s, n + 1, st2)
                        /\ Effect(NameAt(s, n), ArgAt(s, n), regs, st, regs', st2)
           Controllers ==
             /\ master' = (IF Is(s, n, "eoi", "master") THEN EndOfHighest(master) ELSE master)
             /\ slave' = (IF Is(s, n, "eoi", "slave") THEN EndOfHighest(slave) ELSE slave)
           Flag == intFlag' => (intFlag /\ NameAt(s, n) # "sti") \/ (NameAt(s, n) = "sti" /\ shadow')
<1>0. /\ Top.stack = st /\ Arg = ArgAt(s, n)
      /\ \A name : At(name) => NameAt(s, n) = name
      /\ \A x : Advance(x) => Only(frames', s, n + 1, x)
      /\ ExecSti => Only(frames', s, n + 1, st)
  <2>1. /\ Top.stack = st /\ Arg = ArgAt(s, n)
        /\ \A name : At(name) => NameAt(s, n) = name
    BY Reading
  <2>2. /\ \A x : Advance(x) => Only(frames', s, n + 1, x)
        /\ ExecSti => Only(frames', s, n + 1, st)
    BY Stepping
  <2>3. QED
    BY <2>1, <2>2
<1>1. CASE ExecPush
  <2>1. /\ NameAt(s, n) = "push" /\ regs' = regs /\ Advance(<<regs[ArgAt(s, n)]>> \o st)
        /\ master' = master /\ slave' = slave /\ intFlag' = intFlag
    BY <1>0, <1>1 DEF ExecPush, Stepped, controllers
  <2>2. Done(<<regs[ArgAt(s, n)]>> \o st)
    BY <1>0, <2>1, Zenon DEF Effect
  <2>3. Controllers /\ Flag
    BY <2>1 DEF Is
  <2>4. QED
    BY <2>2, <2>3
<1>2. CASE ExecPusha
  <2>1. /\ NameAt(s, n) = "pusha" /\ regs' = regs /\ Advance(<<regs>> \o st)
        /\ master' = master /\ slave' = slave /\ intFlag' = intFlag
    BY <1>0, <1>2 DEF ExecPusha, Stepped, controllers
  <2>2. Done(<<regs>> \o st)
    BY <1>0, <2>1, Zenon DEF Effect
  <2>3. Controllers /\ Flag
    BY <2>1 DEF Is
  <2>4. QED
    BY <2>2, <2>3
<1>3. CASE ExecPop
  <2>1. /\ NameAt(s, n) = "pop" /\ regs' = [regs EXCEPT ![ArgAt(s, n)] = Head(st)]
        /\ Advance(Tail(st))
        /\ master' = master /\ slave' = slave /\ intFlag' = intFlag
    BY <1>0, <1>3 DEF ExecPop, Stepped, controllers
  <2>2. Done(Tail(st))
    BY <1>0, <2>1, Zenon DEF Effect
  <2>3. Controllers /\ Flag
    BY <2>1 DEF Is
  <2>4. QED
    BY <2>2, <2>3
<1>4. CASE ExecPopa
  <2>1. /\ NameAt(s, n) = "popa" /\ Advance(Tail(st))
        /\ regs' = [r \in Registers |-> IF r \in General THEN Head(st)[r] ELSE regs[r]]
        /\ master' = master /\ slave' = slave /\ intFlag' = intFlag
    BY <1>0, <1>4 DEF ExecPopa, Stepped, controllers
  <2>2. Done(Tail(st))
    BY <1>0, <2>1, Zenon DEF Effect
  <2>3. Controllers /\ Flag
    BY <2>1 DEF Is
  <2>4. QED
    BY <2>2, <2>3
<1>5. CASE ExecMov
  <2>1. /\ NameAt(s, n) = "mov" /\ Advance(st)
        /\ regs' = [regs EXCEPT ![ArgAt(s, n)] = Junk]
        /\ master' = master /\ slave' = slave /\ intFlag' = intFlag
    BY <1>0, <1>5 DEF ExecMov, Stepped, controllers
  <2>2. Done(st)
    BY <1>0, <2>1, Zenon DEF Effect
  <2>3. Controllers /\ Flag
    BY <2>1 DEF Is
  <2>4. QED
    BY <2>2, <2>3
<1>6. CASE ExecEoi
  <2>1. /\ NameAt(s, n) = "eoi" /\ Advance(st) /\ regs' = regs /\ intFlag' = intFlag
        /\ master' = (IF ArgAt(s, n) = "master" THEN EndOfHighest(master) ELSE master)
        /\ slave' = (IF ArgAt(s, n) = "slave" THEN EndOfHighest(slave) ELSE slave)
    BY <1>0, <1>6 DEF ExecEoi
  <2>2. Done(st)
    BY <1>0, <2>1, Zenon DEF Effect
  <2>3. Controllers /\ Flag
    BY <2>1 DEF Is
  <2>4. QED
    BY <2>2, <2>3
<1>7. CASE ExecCall \/ drive \/ syscl
  <2>1. /\ NameAt(s, n) = "call" /\ Advance(st)
        /\ regs' = [r \in Registers |-> IF r \in General \ {"ebp"} THEN Junk ELSE regs[r]]
        /\ master' = master /\ slave' = slave /\ intFlag' = intFlag
    BY <1>0, <1>7 DEF ExecCall, drive, syscl, Called, controllers
  <2>2. Done(st)
    BY <1>0, <2>1, Zenon DEF Effect
  <2>3. Controllers /\ Flag
    BY <2>1 DEF Is
  <2>4. QED
    BY <2>2, <2>3
<1>8. CASE ExecSti
  <2>1. /\ NameAt(s, n) = "sti" /\ regs' = regs /\ Only(frames', s, n + 1, st)
        /\ master' = master /\ slave' = slave /\ shadow' = TRUE
    BY <1>0, <1>8 DEF ExecSti, controllers
  <2>2. Done(st)
    BY <2>1, Zenon DEF Effect
  <2>3. Controllers /\ Flag
    BY <2>1 DEF Is
  <2>4. QED
    BY <2>2, <2>3
<1>9. QED
  BY <1>1, <1>2, <1>3, <1>4, <1>5, <1>6, <1>7, <1>8 DEF Exec

(* interrupt () is the only call that does not return. *)
LEMMA CallsReturn ==
  ASSUME NEW s \in Stubs, NEW n \in 1 .. Length(s), NEW st, Only(frames, s, n, st),
         Exec, ~ExecIret, ~interrupt
  PROVE  ~Is(s, n, "call", "interrupt")
<1>1. SUFFICES ASSUME NameAt(s, n) = "call", ArgAt(s, n) = "interrupt" PROVE FALSE
  BY DEF Is
<1>2. Arg = "interrupt" /\ \A name : At(name) => name = "call"
  BY <1>1, Reading
<1>3. /\ ~ExecPush /\ ~ExecPusha /\ ~ExecPop /\ ~ExecPopa /\ ~ExecMov
      /\ ~ExecEoi /\ ~ExecSti
  BY <1>2 DEF ExecPush, ExecPusha, ExecPop, ExecPopa, ExecMov,
              ExecEoi, ExecSti
<1>4. ~ExecCall /\ ~drive /\ ~syscl
  BY <1>2 DEF ExecCall, drive, syscl
<1>5. QED
  BY <1>3, <1>4 DEF Exec

LEMMA Gates ==
  ASSUME NEW line \in Lines
  PROVE  /\ Gate(Vector(line)) \in Stubs \ {"sys", "isr"}
         /\ line >= 8 => Gate(Vector(line)) \in {"irq", "irq15"}
         /\ MasterLine(line) \in Nat
<1>1. CASE line = 0
  BY <1>1 DEF Gate, Vector, MasterLine, Stubs
<1>2. CASE line = 1
  BY <1>2 DEF Gate, Vector, MasterLine, Stubs
<1>3. CASE line \in 3 .. 13
  BY <1>3 DEF Gate, Vector, MasterLine, Stubs
<1>4. CASE line \in 14 .. 15
  BY <1>4 DEF Gate, Vector, MasterLine, Stubs
<1>5. line \in (0 .. 15) \ {2}
  BY LinesAssumption
<1>6. line = 0 \/ line = 1 \/ line \in 3 .. 13 \/ line \in 14 .. 15
  BY <1>5
<1>7. QED
  BY <1>1, <1>2, <1>3, <1>4, <1>6

LEMMA OtherGates == Gate(240) = "sys" /\ Gate(14) = "isr"
  BY DEF Gate

LEMMA EnteredFrame ==
  ASSUME NEW vector, frames = <<>>, regs = Own, Entered(vector)
  PROVE  /\ Only(frames', Gate(vector), 1, <<>>)
         /\ regs' = Own /\ intFlag' = FALSE
<1>1. /\ frames' = <<[stub |-> Gate(vector), ip |-> 1, entry |-> regs, stack |-> <<>>]>> \o frames
      /\ intFlag' = FALSE /\ regs' = regs
  BY DEF Entered
<1>2. \A f : <<f>> \o <<>> = <<f>>
  OBVIOUS
<1>3. frames' = <<Frame(Gate(vector), 1, <<>>)>>
  BY <1>1, <1>2 DEF Frame
<1>4. QED
  BY <1>1, <1>3 DEF Only

(* A stub is entered with one line in service at most. *)
LEMMA Enter ==
  ASSUME NEW vector, frames = <<>>, regs = Own, Entered(vector),
         Gate(vector) \in Stubs,
         InService(Gate(vector), 1, master', slave')
  PROVE  Executing(Gate(vector), 1, <<>>)'
<1> DEFINE s == Gate(vector)
<1>1. Only(frames', s, 1, <<>>) /\ regs' = Own /\ intFlag' = FALSE
  BY EnteredFrame
<1>2. 1 \in 1 .. Length(s)
  BY StubPlaces
<1>3. Kept(s, 1, regs', <<>>)
  BY <1>1, KeptAtStart
<1> HIDE DEF s
<1>4. InService(s, 1, master', slave')
  BY DEF s
<1>5. Executing(s, 1, <<>>)'
  BY <1>1, <1>2, <1>3, <1>4 DEF Executing
<1>6. QED
  BY <1>5 DEF s

LEMMA InterruptEnters ==
  ASSUME frames = <<>>, regs = Own, master = {}, slave = {},
         NEW line \in Lines, Interrupt(line)
  PROVE  IrqInv'
<1> DEFINE s == Gate(Vector(line))
<1>0. line \in Nat
  <2>1. line \in (0 .. 15) \ {2}
    BY LinesAssumption
  <2>2. QED
    BY <2>1
<1>1. /\ master' = {MasterLine(line)} /\ Entered(Vector(line))
      /\ slave' = {} \/ (line >= 8 /\ slave' = {line})
  <2>1. master' = {MasterLine(line)} /\ Entered(Vector(line))
    BY DEF Interrupt
  <2>2. slave' = IF line < 8 THEN {} ELSE {line}
    BY DEF Interrupt
  <2>3. QED
    BY <1>0, <2>1, <2>2
<1>2. AtMostOne(master') /\ AtMostOne(slave')
  <2>1. MasterLine(line) \in Nat
    BY Gates
  <2>2. AtMostOne({MasterLine(line)}) /\ AtMostOne({line}) /\ AtMostOne({})
    BY <1>0, <2>1 DEF AtMostOne
  <2>3. QED
    BY <1>1, <2>2
<1>3. /\ s \in {"irq", "irq0", "irq1", "irq15"}
      /\ line >= 8 => s \in {"irq", "irq15"}
  BY Gates DEF Stubs
<1>4. MasterDone(s) > 1 /\ (line >= 8 => SlaveDone(s) > 1)
  BY <1>3, StubLengths
<1>5. SlaveDone(s) \in Nat /\ MasterDone(s) \in Nat /\ s \in Stubs
  BY <1>3, StubPlaces DEF Stubs
<1>6. InService(s, 1, master', slave')
  BY <1>1, <1>2, <1>4, <1>5 DEF InService
<1>7. Executing(s, 1, <<>>)'
  BY <1>1, <1>5, <1>6, Enter
<1> HIDE DEF s
<1>8. QED
  BY <1>5, <1>7 DEF IrqInv

LEMMA ProgramEnters ==
  ASSUME frames = <<>>, regs = Own, master = {}, slave = {},
         SystemCall \/ Exception
  PROVE  IrqInv'
<1>1. master' = {} /\ slave' = {} /\ (Entered(240) \/ Entered(14))
  BY DEF SystemCall, Exception, controllers
<1>2. \A s : InService(s, 1, master', slave')
  BY <1>1 DEF InService, AtMostOne
<1>3. \A vector : Entered(vector) /\ Gate(vector) \in Stubs
                     => Executing(Gate(vector), 1, <<>>)'
  BY <1>2, Enter
<1>4. Gate(240) \in Stubs /\ Gate(14) \in Stubs
  BY OtherGates DEF Stubs
<1>5. QED
  BY <1>1, <1>3, <1>4 DEF IrqInv

(* An instruction before the last. *)
LEMMA InstructionKeeps ==
  ASSUME NEW s \in Stubs, NEW n \in Nat, NEW st, Executing(s, n, st),
         Exec, ~ExecIret, ~interrupt
  PROVE  IrqInv'
<1>1. /\ n \in 1 .. Length(s) /\ Only(frames, s, n, st)
      /\ intFlag => n = Length(s) /\ s # "isr"
      /\ InService(s, n, master, slave) /\ Kept(s, n, regs, st)
  BY DEF Executing
<1>2. PICK st2 : /\ Only(frames', s, n + 1, st2)
                 /\ Effect(NameAt(s, n), ArgAt(s, n), regs, st, regs', st2)
  BY <1>1, Executed
<1>3. /\ master' = (IF Is(s, n, "eoi", "master") THEN EndOfHighest(master) ELSE master)
      /\ slave' = (IF Is(s, n, "eoi", "slave") THEN EndOfHighest(slave) ELSE slave)
      /\ intFlag' => (intFlag /\ NameAt(s, n) # "sti") \/ (NameAt(s, n) = "sti" /\ shadow')
  BY <1>1, Executed
<1>4. Length(s) \in Nat /\ n # Length(s)
  <2>1. Length(s) \in Nat /\ (s # "isr" => NameAt(s, Length(s)) = "iret")
    BY StubPlaces
  <2>2. NameAt(s, n) # "iret"
    BY <1>2 DEF Effect
  <2>3. ~(s = "isr" /\ n = Length(s))
    <3>1. ~Is(s, n, "call", "interrupt")
      BY <1>1, CallsReturn
    <3>2. QED
      BY <1>1, <3>1, StiPlace
  <2>4. QED
    BY <2>1, <2>2, <2>3
<1>5. n \in 1 .. Length(s) - 1 /\ n + 1 \in 1 .. Length(s)
  BY <1>1, <1>4
<1>6. InService(s, n + 1, master', slave')
  BY <1>1, <1>3, InServiceSteps
<1>7. Kept(s, n + 1, regs', st2)
  BY <1>1, <1>2, <1>5, KeptSteps, Zenon
<1>8. intFlag' => shadow' /\ n + 1 = Length(s) /\ s # "isr"
  BY <1>1, <1>3, <1>4, StiPlace
<1>9. Executing(s, n + 1, st2)'
  BY <1>2, <1>5, <1>6, <1>7, <1>8 DEF Executing
<1>10. QED
  BY <1>5, <1>9 DEF IrqInv

LEMMA IretLeaves ==
  ASSUME NEW s \in Stubs, NEW n \in Nat, NEW st, Executing(s, n, st), ExecIret
  PROVE  IrqInv'
<1>1. /\ n \in 1 .. Length(s) /\ Only(frames, s, n, st) /\ InService(s, n, master, slave)
  BY DEF Executing
<1>2. NameAt(s, n) = "iret" /\ Len(frames) = 1 /\ Tail(frames) = <<>>
  BY <1>1, Reading DEF ExecIret
<1>3. frames' = <<>> /\ regs' = Own /\ master' = master /\ slave' = slave
  BY <1>2 DEF ExecIret, controllers
<1>4. n = Length(s)
  BY <1>1, <1>2, StiPlace
<1>5. master = {} /\ slave = {}
  BY <1>1, <1>4, StubPlaces DEF InService
<1>6. QED
  BY <1>3, <1>5 DEF IrqInv

LEMMA IdleSteps ==
  ASSUME frames = <<>>, regs = Own, master = {}, slave = {}, IrqNext
  PROVE  IrqInv'
<1>1. \A name : ~At(name)
  BY DEF At
<1>2. ~Exec /\ ~sysclReadsDrive
  BY <1>1 DEF Exec, ExecPush, ExecPusha, ExecPop, ExecPopa, ExecMov,
              ExecEoi, ExecCall, drive, syscl, interrupt, ExecSti,
              ExecIret, sysclReadsDrive
<1>3. ASSUME NEW line \in Lines, RaiseLine(line) PROVE IrqInv'
  BY <1>3 DEF RaiseLine, IrqInv
<1>4. QED
  BY <1>2, <1>3, InterruptEnters, ProgramEnters DEF IrqNext

LEMMA ExecutingSteps ==
  ASSUME NEW s \in Stubs, NEW n \in Nat, NEW st, Executing(s, n, st), IrqNext
  PROVE  IrqInv'
<1>1. frames # <<>> /\ (intFlag => shadow)
  BY Reading DEF Executing
<1>2. ~SystemCall /\ ~Exception /\ \A line \in Lines : ~Interrupt(line)
  BY <1>1 DEF SystemCall, Exception, Interrupt
<1>3. ASSUME UNCHANGED <<frames, regs, master, slave, intFlag, shadow>> PROVE IrqInv'
  <2>1. Executing(s, n, st)'
    BY <1>3 DEF Executing
  <2>2. QED
    BY <2>1 DEF IrqInv
<1>4. CASE interrupt \/ sysclReadsDrive \/ \E line \in Lines : RaiseLine(line)
  BY <1>3, <1>4 DEF interrupt, sysclReadsDrive, RaiseLine, controllers
<1>5. CASE ExecIret
  BY <1>5, IretLeaves
<1>6. CASE Exec /\ ~ExecIret /\ ~interrupt
  BY <1>6, InstructionKeeps
<1>7. QED
  BY <1>2, <1>4, <1>5, <1>6 DEF IrqNext

(* Only one stub is ever executed; it keeps what it pushed and owes, and   *)
(* interrupts are on in it only between sti and iret.                      *)
THEOREM InterruptsInvariant == IrqSpec => []IrqInv
<1>1. IrqInit => IrqInv
  BY DEF IrqInit, IrqInv
<1>2. IrqInv /\ IrqNext => IrqInv'
  BY IdleSteps, ExecutingSteps DEF IrqInv
<1>3. IrqInv /\ UNCHANGED irqVars => IrqInv'
  BY DEF IrqInv, Executing, irqVars
<1>4. IrqInv /\ [IrqNext]_irqVars => IrqInv'
  BY <1>2, <1>3
<1>5. QED
  BY <1>1, <1>4, PTL DEF IrqSpec

LEMMA AtTheEnd ==
  ASSUME IrqInv, At("iret")
  PROVE  \E s \in Stubs \ {"isr"} : \E st :
           Only(frames, s, Length(s), st) /\ Executing(s, Length(s), st)
<1>1. frames # <<>>
  BY DEF At
<1>2. PICK s \in Stubs, n \in Nat : \E st : Executing(s, n, st)
  BY <1>1 DEF IrqInv
<1>3. PICK st : Executing(s, n, st)
  BY <1>2
<1>4. n \in 1 .. Length(s) /\ Only(frames, s, n, st)
  BY <1>3 DEF Executing
<1>5. NameAt(s, n) = "iret"
  BY <1>4, Reading
<1>6. n = Length(s) /\ s # "isr"
  BY <1>4, <1>5, StiPlace
<1>7. QED
  BY <1>3, <1>4, <1>6

(* NoNesting: a stub of interrupts.asm is never interrupted by another.    *)
THEOREM StubsNeverNest == IrqSpec => []NoNesting
<1>1. ASSUME IrqInv PROVE NoNesting
  <2>1. CASE frames = <<>>
    BY <2>1 DEF NoNesting
  <2>2. ASSUME NEW s \in Stubs, NEW n \in Nat, NEW st, Executing(s, n, st) PROVE NoNesting
    <3>1. Only(frames, s, n, st)
      BY <2>2 DEF Executing
    <3>2. Len(frames) = 1
      BY <3>1, Reading
    <3>3. QED
      BY <3>2 DEF NoNesting
  <2>3. QED
    BY <1>1, <2>1, <2>2 DEF IrqInv
<1>2. QED
  BY <1>1, InterruptsInvariant, PTL

(* NothingLeftInService: the stubs end the service of every line, at both  *)
(* controllers, before the interrupted code goes on.                       *)
THEOREM LinesAlwaysReleased == IrqSpec => []NothingLeftInService
<1>1. ASSUME IrqInv PROVE NothingLeftInService
  <2>1. CASE frames = <<>>
    <3>1. \A s, n, st : ~Executing(s, n, st)
      BY <2>1, Reading DEF Executing
    <3>2. QED
      BY <1>1, <3>1 DEF IrqInv, NothingLeftInService
  <2>2. CASE At("iret")
    <3>1. PICK s \in Stubs : \E st : Executing(s, Length(s), st)
      BY <1>1, <2>2, AtTheEnd
    <3>2. InService(s, Length(s), master, slave)
      BY <3>1 DEF Executing
    <3>3. master = {} /\ slave = {}
      BY <3>2, StubPlaces DEF InService
    <3>4. QED
      BY <3>3 DEF NothingLeftInService
  <2>3. QED
    BY <2>1, <2>2 DEF NothingLeftInService
<1>2. QED
  BY <1>1, InterruptsInvariant, PTL

(* RegistersBack: when a stub returns, the stack is as it found it and the *)
(* registers are those of the interrupted code, but for eax after irq,     *)
(* irq1 and a system call.                                                 *)
THEOREM RegistersAlwaysBack == IrqSpec => []RegistersBack
<1>1. ASSUME IrqInv PROVE RegistersBack
  <2>1. SUFFICES ASSUME At("iret")
        PROVE  /\ Top.stack = <<>>
               /\ \A r \in Registers :
                    regs[r] = Top.entry[r] \/ (r = "eax" /\ Top.stub \in {"irq", "irq1", "sys"})
    BY DEF RegistersBack
  <2>0. PICK s \in Stubs \ {"isr"} :
          \E st : Only(frames, s, Length(s), st) /\ Executing(s, Length(s), st)
    BY <1>1, <2>1, AtTheEnd
  <2>2. PICK st : Only(frames, s, Length(s), st) /\ Executing(s, Length(s), st)
    BY <2>0
  <2>3. Top.stack = st /\ Top.stub = s /\ Top.entry = Own
    BY <2>2, Reading
  <2>4. Kept(s, Length(s), regs, st)
    BY <2>2 DEF Executing
  <2>5. /\ st = <<>>
        /\ \A r \in Registers : regs[r] = r \/ (r = "eax" /\ s \in {"irq", "irq1", "sys"})
    BY <2>4, KeptAtEnd
  <2>6. \A r \in Registers : Own[r] = r
    BY RegistersAre
  <2>7. QED
    BY <2>3, <2>5, <2>6
<1>2. QED
  BY <1>1, InterruptsInvariant, PTL

-----------------------------------------------------------------------------
LEMMA TimerBounds ==
  /\ ByteMod \in Nat \ {0} /\ TickMod \in Nat \ {0}
  /\ Acknowledge \in 0 .. ByteMod - 1 /\ Durations \subseteq 0 .. TickMod - 1
  BY TimerAssumption

USE TimerBounds

Ticks == 0 .. TickMod - 1

TypeOK ==
    /\ tick \in Ticks /\ eax \in Ticks /\ initialTicks \in Ticks
    /\ at \in {"run", "store", "poll", "test"}
    /\ milliseconds \in Ticks /\ passed \in 0 .. TickMod
    /\ less \in BOOLEAN /\ startStruck \in BOOLEAN /\ pollStruck \in BOOLEAN

(* The ticks since the counter stood at start, in unsigned arithmetic. *)
Since(start) == (tick + TickMod - start) % TickMod

(* The tick that the latest sleep takes for its beginning, and the one it  *)
(* began at: the same, but for what a key has made of the low byte.        *)
TakenStart == IF at = "store" THEN eax ELSE initialTicks
StartIs(start) ==
    /\ passed < TickMod => Since(start) = passed
    /\ TakenStart = IF startStruck THEN WithAl(start) ELSE start

(* A poll that was not struck lets the sleep end only when its time is     *)
(* over.                                                                   *)
PollIsRight == at = "test" /\ ~less /\ ~startStruck /\ ~pollStruck => passed >= milliseconds

TimerInv ==
    /\ TypeOK
    /\ \E start \in Ticks : StartIs(start)
    /\ PollIsRight
    /\ NoEarlyWake

-----------------------------------------------------------------------------
(* The remainder of a number below the divisor, and of one below twice it. *)
LEMMA Remainder ==
  ASSUME NEW M \in Nat \ {0}, NEW x \in 0 .. 2 * M - 1
  PROVE  x % M = IF x < M THEN x ELSE x - M
<1>1. CASE x < M
  BY <1>1
<1>2. CASE x >= M
  BY <1>2
<1>3. QED
  BY <1>1, <1>2

(* The difference of two values of tick, whether or not the counter has    *)
(* wrapped in between.                                                     *)
LEMMA ElapsedIs ==
  ASSUME NEW a \in Ticks, NEW i \in Ticks
  PROVE  (a + TickMod - i) % TickMod = IF a >= i THEN a - i ELSE a + TickMod - i
<1>1. TickMod \in Nat \ {0} /\ a + TickMod - i \in 0 .. 2 * TickMod - 1
  BY DEF Ticks
<1> DEFINE x == a + TickMod - i
<1>2. x % TickMod = IF x < TickMod THEN x ELSE x - TickMod
  <2> HIDE DEF x
  <2>1. x \in 0 .. 2 * TickMod - 1
    BY <1>1 DEF x
  <2>2. QED
    BY <1>1, <2>1, Remainder
<1> DEFINE r == x % TickMod
<1>3. r = IF x < TickMod THEN x ELSE x - TickMod
  BY <1>2
<1> HIDE DEF r
<1>4. r = IF a >= i THEN a - i ELSE a + TickMod - i
  BY <1>1, <1>3 DEF Ticks
<1>5. QED
  BY <1>4 DEF r

LEMMA NextTick ==
  ASSUME NEW a \in Ticks, NEW b, b = (a + 1) % TickMod
  PROVE  b \in Ticks /\ b = IF a + 1 < TickMod THEN a + 1 ELSE a + 1 - TickMod
<1> DEFINE x == a + 1
<1>1. TickMod \in Nat \ {0} /\ x \in 0 .. 2 * TickMod - 1
  BY DEF Ticks
<1>2. b = x % TickMod
  OBVIOUS
<1> HIDE DEF x
<1>3. b = IF x < TickMod THEN x ELSE x - TickMod
  BY ONLY <1>1, <1>2, Remainder
<1>4. QED
  BY <1>1, <1>3 DEF Ticks, x

(* One interrupt adds one to the difference, unless it is at its largest. *)
LEMMA TickAddsOne ==
  ASSUME NEW a \in Ticks, NEW i \in Ticks, NEW b, b = (a + 1) % TickMod,
         NEW d, d = (a + TickMod - i) % TickMod, d < TickMod - 1
  PROVE  (b + TickMod - i) % TickMod = d + 1
<1>1. b \in Ticks /\ b = IF a + 1 < TickMod THEN a + 1 ELSE a + 1 - TickMod
  BY NextTick
<1>2. d = IF a >= i THEN a - i ELSE a + TickMod - i
  BY ElapsedIs
<1> DEFINE e == (b + TickMod - i) % TickMod
<1>3. e = IF b >= i THEN b - i ELSE b + TickMod - i
  BY <1>1, ElapsedIs
<1> HIDE DEF e
<1>4. e = d + 1
  BY <1>1, <1>2, <1>3 DEF Ticks
<1>5. QED
  BY <1>4 DEF e

(* Products are ordered as their factors are. *)
LEMMA ProductOrder ==
  ASSUME NEW b \in Nat \ {0}, NEW p \in Nat, NEW q \in Nat, p < q
  PROVE  b * p + b <= b * q
<1>1. PICK n \in Nat : q = p + 1 + n
  <2>1. q - p - 1 \in Nat /\ q = p + 1 + (q - p - 1)
    OBVIOUS
  <2>2. QED
    BY <2>1
<1>2. b * q = b * p + b + b * n
  BY <1>1
<1>3. b * n \in Nat /\ b * p \in Nat
  OBVIOUS
<1>4. QED
  BY <1>2, <1>3

(* A number of bytes and what is left over: the only quotient and          *)
(* remainder.                                                              *)
LEMMA LowByte ==
  ASSUME NEW q \in Nat, NEW r \in 0 .. ByteMod - 1, NEW x, x = ByteMod * q + r
  PROVE  x % ByteMod = r
<1>1. ByteMod \in Nat \ {0} /\ ByteMod * q \in Nat /\ x \in Nat
  OBVIOUS
<1> DEFINE p == x \div ByteMod
           s == x % ByteMod
<1>2. p \in Nat /\ s \in 0 .. ByteMod - 1 /\ x = ByteMod * p + s
  BY <1>1
<1> HIDE DEF p, s
<1>3. ByteMod * p \in Nat
  BY <1>1, <1>2
<1>4. ~(p < q)
  <2>1. SUFFICES ASSUME p < q PROVE FALSE
    OBVIOUS
  <2>2. ByteMod * p + ByteMod <= ByteMod * q
    BY <1>1, <1>2, <2>1, ProductOrder
  <2>3. QED
    BY <1>1, <1>2, <1>3, <2>2
<1>5. ~(q < p)
  <2>1. SUFFICES ASSUME q < p PROVE FALSE
    OBVIOUS
  <2>2. ByteMod * q + ByteMod <= ByteMod * p
    BY <1>1, <1>2, <2>1, ProductOrder
  <2>3. QED
    BY <1>1, <1>2, <1>3, <2>2
<1>6. p = q
  BY <1>2, <1>4, <1>5
<1>7. s = r
  BY <1>1, <1>2, <1>6
<1>8. QED
  BY <1>7 DEF s

(* What irq1 makes of a tick is a tick less than a byte's values away, and *)
(* a second key changes nothing more.                                      *)
LEMMA AlChanged ==
  ASSUME NEW v \in Ticks
  PROVE  /\ WithAl(v) \in Ticks
         /\ WithAl(v) - v < ByteMod /\ v - WithAl(v) < ByteMod
         /\ WithAl(WithAl(v)) = WithAl(v)
<1> DEFINE q == v \div ByteMod
           r == v % ByteMod
           m == TickMod \div ByteMod
           w == ByteMod * q + Acknowledge
<1>1. /\ ByteMod \in Nat \ {0} /\ TickMod \in Nat \ {0} /\ v \in Nat /\ v < TickMod
      /\ Acknowledge \in 0 .. ByteMod - 1
  BY DEF Ticks
<1>2. q \in Nat /\ r \in 0 .. ByteMod - 1 /\ v = ByteMod * q + r
  BY <1>1
<1>3. m \in Nat /\ TickMod = ByteMod * m
  BY <1>1, TimerAssumption
<1> HIDE DEF q, r, m
<1>4. ByteMod * q \in Nat /\ ByteMod * m \in Nat
  BY <1>1, <1>2, <1>3
<1>5. WithAl(v) = w
  <2>1. WithAl(v) = (v - r) + Acknowledge
    BY DEF WithAl, r
  <2>2. QED
    BY <1>1, <1>2, <1>4, <2>1
<1>6. q < m
  <2>1. ~(m < q)
    <3>1. SUFFICES ASSUME m < q PROVE FALSE
      OBVIOUS
    <3>2. ByteMod * m + ByteMod <= ByteMod * q
      BY <1>1, <1>2, <1>3, <3>1, ProductOrder
    <3>3. QED
      BY <1>1, <1>2, <1>3, <1>4, <3>2
  <2>2. q # m
    <3>1. SUFFICES ASSUME q = m PROVE FALSE
      OBVIOUS
    <3>2. ByteMod * q = TickMod
      BY <1>3, <3>1
    <3>3. QED
      BY <1>1, <1>2, <1>4, <3>2
  <2>3. QED
    BY <1>2, <1>3, <2>1, <2>2
<1>7. w \in Ticks
  <2>1. ByteMod * q + ByteMod <= ByteMod * m
    BY <1>1, <1>2, <1>3, <1>6, ProductOrder
  <2>2. QED
    BY <1>1, <1>3, <1>4, <2>1 DEF Ticks
<1>8. w - v < ByteMod /\ v - w < ByteMod
  BY <1>1, <1>2, <1>4
<1>9. w % ByteMod = Acknowledge
  BY <1>1, <1>2, LowByte
<1>10. WithAl(w) = w
  <2>1. WithAl(w) = (w - Acknowledge) + Acknowledge
    BY <1>9 DEF WithAl
  <2>2. w \in Nat
    BY <1>1, <1>4
  <2> HIDE DEF w
  <2>3. QED
    BY <1>1, <2>1, <2>2
<1>11. QED
  BY <1>5, <1>7, <1>8, <1>10

-----------------------------------------------------------------------------
LEMMA TimerInit == Init => TimerInv
<1> SUFFICES ASSUME Init PROVE TimerInv
  OBVIOUS
<1>1. /\ tick = 0 /\ at = "run" /\ eax = 0 /\ initialTicks = 0 /\ milliseconds = 0
      /\ less = TRUE /\ passed = 0 /\ startStruck = FALSE /\ pollStruck = FALSE
  BY DEF Init
<1>2. 0 \in Ticks
  BY DEF Ticks
<1>3. TypeOK
  <2>1. 0 \in 0 .. TickMod
    OBVIOUS
  <2>2. QED
    BY <1>1, <1>2, <2>1 DEF TypeOK
<1>4. StartIs(0)
  <2>1. (0 + TickMod - 0) % TickMod = 0
    BY <1>2, ElapsedIs
  <2>2. QED
    BY <1>1, <2>1 DEF StartIs, Since, TakenStart
<1>5. QED
  BY <1>1, <1>2, <1>3, <1>4 DEF TimerInv, PollIsRight, NoEarlyWake

LEMMA TimerTickInv == TimerInv /\ timerTick => TimerInv'
<1> SUFFICES ASSUME TimerInv, timerTick PROVE TimerInv'
  OBVIOUS
<1>1. TypeOK /\ PollIsRight /\ NoEarlyWake
  BY DEF TimerInv
<1>2. /\ tick' = (tick + 1) % TickMod
      /\ passed' = IF passed < TickMod THEN passed + 1 ELSE passed
      /\ at' = at /\ eax' = eax /\ initialTicks' = initialTicks /\ milliseconds' = milliseconds
      /\ less' = less /\ startStruck' = startStruck /\ pollStruck' = pollStruck
  BY DEF timerTick
<1>3. tick' \in Ticks /\ passed' \in 0 .. TickMod /\ passed' >= passed
  <2>1. tick' \in Ticks
    BY <1>1, <1>2, NextTick DEF TypeOK
  <2>2. passed' \in 0 .. TickMod /\ passed' >= passed
    BY <1>1, <1>2 DEF TypeOK
  <2>3. QED
    BY <2>1, <2>2
<1>4. TypeOK'
  BY <1>1, <1>2, <1>3 DEF TypeOK
<1>5. PICK start \in Ticks : StartIs(start)
  BY DEF TimerInv
<1>6. StartIs(start)'
  <2>1. passed' < TickMod => Since(start)' = passed'
    <3>1. SUFFICES ASSUME passed' < TickMod PROVE Since(start)' = passed'
      OBVIOUS
    <3>2. passed' = passed + 1 /\ passed < TickMod - 1 /\ passed < TickMod
      BY <1>1, <1>2, <3>1 DEF TypeOK
    <3>3. passed = (tick + TickMod - start) % TickMod
      BY <1>5, <3>2 DEF StartIs, Since
    <3>4. (tick' + TickMod - start) % TickMod = passed + 1
      BY <1>1, <1>2, <3>2, <3>3, TickAddsOne DEF TypeOK
    <3>5. QED
      BY <3>2, <3>4 DEF Since
  <2>2. TakenStart' = TakenStart /\ WithAl(start)' = WithAl(start)
    BY <1>2 DEF TakenStart, WithAl
  <2>3. QED
    BY <1>2, <1>5, <2>1, <2>2 DEF StartIs
<1>7. PollIsRight' /\ NoEarlyWake'
  <2>1. passed >= milliseconds => passed' >= milliseconds'
    BY <1>1, <1>2, <1>3 DEF TypeOK, Ticks
  <2>2. QED
    BY <1>1, <1>2, <2>1 DEF PollIsRight, NoEarlyWake
<1>8. QED
  BY <1>4, <1>6, <1>7 DEF TimerInv

LEMMA Irq1Inv == TimerInv /\ irq1 => TimerInv'
<1> SUFFICES ASSUME TimerInv, irq1 PROVE TimerInv'
  OBVIOUS
<1>1. TypeOK /\ PollIsRight /\ NoEarlyWake
  BY DEF TimerInv
<1>2. PICK start \in Ticks : StartIs(start)
  BY DEF TimerInv
<1>3. UNCHANGED <<tick, at, initialTicks, milliseconds, passed>>
  BY DEF irq1
<1>4. Since(start)' = Since(start) /\ WithAl(start)' = WithAl(start)
  BY <1>3 DEF Since, WithAl
<1>5. CASE /\ at = "store" /\ eax' = WithAl(eax) /\ startStruck' = TRUE
           /\ less' = less /\ pollStruck' = pollStruck
  <2>1. eax' \in Ticks
    BY <1>1, <1>5, AlChanged DEF TypeOK
  <2>2. TypeOK'
    BY <1>1, <1>3, <1>5, <2>1 DEF TypeOK
  <2>3. eax' = WithAl(start)
    <3>1. eax = WithAl(start) \/ eax = start
      BY <1>2, <1>5 DEF StartIs, TakenStart
    <3>2. QED
      BY <1>5, <3>1, AlChanged
  <2>4. StartIs(start)'
    BY <1>2, <1>3, <1>4, <1>5, <2>3 DEF StartIs, TakenStart
  <2>5. QED
    BY <1>3, <1>5, <2>2, <2>4 DEF TimerInv, PollIsRight, NoEarlyWake
<1>6. CASE /\ at = "test" /\ less' \in BOOLEAN /\ pollStruck' = TRUE
           /\ eax' = eax /\ startStruck' = startStruck
  <2>1. TypeOK'
    BY <1>1, <1>3, <1>6 DEF TypeOK
  <2>2. StartIs(start)'
    BY <1>2, <1>3, <1>4, <1>6 DEF StartIs, TakenStart
  <2>3. QED
    BY <1>3, <1>6, <2>1, <2>2 DEF TimerInv, PollIsRight, NoEarlyWake
<1>7. QED
  BY <1>5, <1>6 DEF irq1

LEMMA SleepCallInv == ASSUME TimerInv, NEW ms \in Durations, sleep(ms) PROVE TimerInv'
<1>1. TypeOK
  BY DEF TimerInv
<1>2. /\ at = "run" /\ at' = "store" /\ eax' = tick /\ milliseconds' = ms
      /\ passed' = 0 /\ startStruck' = FALSE /\ pollStruck' = FALSE
      /\ tick' = tick /\ initialTicks' = initialTicks /\ less' = less
  BY DEF sleep
<1>3. tick \in Ticks /\ ms \in Ticks /\ 0 \in 0 .. TickMod
  BY <1>1 DEF TypeOK, Ticks
<1>4. TypeOK'
  BY <1>1, <1>2, <1>3 DEF TypeOK
<1>5. StartIs(tick)'
  <2>1. (tick + TickMod - tick) % TickMod = 0
    <3>1. tick >= tick /\ tick - tick = 0
      BY <1>3 DEF Ticks
    <3>2. QED
      BY <1>3, <3>1, ElapsedIs
  <2>2. Since(tick)' = 0
    BY <1>2, <2>1 DEF Since
  <2>3. TakenStart' = tick'
    BY <1>2 DEF TakenStart
  <2>4. QED
    BY <1>2, <2>2, <2>3 DEF StartIs
<1>6. tick' \in Ticks' /\ \E start \in Ticks' : StartIs(start)'
  BY <1>2, <1>3, <1>5 DEF Ticks
<1>7. QED
  BY <1>2, <1>4, <1>6 DEF TimerInv, PollIsRight, NoEarlyWake

LEMMA StoreTicksInv == TimerInv /\ storeTicks => TimerInv'
<1> SUFFICES ASSUME TimerInv, storeTicks PROVE TimerInv'
  OBVIOUS
<1>1. TypeOK
  BY DEF TimerInv
<1>2. PICK start \in Ticks : StartIs(start)
  BY DEF TimerInv
<1>3. /\ at = "store" /\ at' = "poll" /\ initialTicks' = eax
      /\ UNCHANGED <<tick, eax, milliseconds, less, passed, startStruck, pollStruck>>
  BY DEF storeTicks
<1>4. TypeOK'
  BY <1>1, <1>3 DEF TypeOK
<1>5. StartIs(start)'
  BY <1>2, <1>3 DEF StartIs, TakenStart, Since, WithAl
<1>6. QED
  BY <1>3, <1>4, <1>5 DEF TimerInv, PollIsRight, NoEarlyWake

LEMMA SleepPollInv == ASSUME TimerInv, NEW waits \in BOOLEAN, sleepPoll(waits) PROVE TimerInv'
<1>1. TypeOK
  BY DEF TimerInv
<1>2. PICK start \in Ticks : StartIs(start)
  BY DEF TimerInv
<1>3. /\ at = "poll" /\ waits = StillWaiting /\ less' = waits /\ at' = "test"
      /\ pollStruck' = FALSE
      /\ UNCHANGED <<tick, eax, initialTicks, milliseconds, passed, startStruck>>
  BY DEF sleepPoll
<1>4. TypeOK'
  BY <1>1, <1>3 DEF TypeOK
<1>5. StartIs(start)'
  BY <1>2, <1>3 DEF StartIs, TakenStart, Since, WithAl
<1>6. PollIsRight'
  <2>1. SUFFICES ASSUME ~waits, ~startStruck PROVE passed >= milliseconds
    BY <1>3 DEF PollIsRight
  <2>2. CASE passed = TickMod
    BY <1>1, <2>2 DEF TypeOK, Ticks
  <2>3. CASE passed < TickMod
    <3>1. Since(initialTicks) = passed
      BY <1>2, <1>3, <2>1, <2>3 DEF StartIs, TakenStart
    <3>2. ~(passed < milliseconds)
      BY <1>3, <2>1, <3>1 DEF StillWaiting, Since
    <3>3. QED
      BY <1>1, <3>2 DEF TypeOK, Ticks
  <2>4. QED
    BY <1>1, <2>2, <2>3 DEF TypeOK
<1>7. QED
  BY <1>3, <1>4, <1>5, <1>6 DEF TimerInv, NoEarlyWake

LEMMA SleepTestInv == ASSUME TimerInv, NEW waits \in BOOLEAN, sleepTest(waits) PROVE TimerInv'
<1>1. TypeOK /\ PollIsRight
  BY DEF TimerInv
<1>2. PICK start \in Ticks : StartIs(start)
  BY DEF TimerInv
<1>3. /\ at = "test" /\ waits = less /\ at' = IF waits THEN "poll" ELSE "run"
      /\ UNCHANGED <<tick, eax, initialTicks, milliseconds, less, passed, startStruck, pollStruck>>
  BY DEF sleepTest
<1>4. TypeOK'
  BY <1>1, <1>3 DEF TypeOK
<1>5. StartIs(start)'
  BY <1>2, <1>3 DEF StartIs, TakenStart, Since, WithAl
<1>6. NoEarlyWake' /\ PollIsRight'
  BY <1>1, <1>3 DEF NoEarlyWake, PollIsRight
<1>7. QED
  BY <1>4, <1>5, <1>6 DEF TimerInv

-----------------------------------------------------------------------------
LEMMA TimerNext == TimerInv /\ [Next]_vars => TimerInv'
<1> SUFFICES ASSUME TimerInv, [Next]_vars PROVE TimerInv'
  OBVIOUS
<1>1. CASE timerTick
  BY <1>1, TimerTickInv
<1>2. CASE irq1
  BY <1>2, Irq1Inv
<1>3. CASE \E ms \in Durations : sleep(ms)
  BY <1>3, SleepCallInv
<1>4. CASE storeTicks
  BY <1>4, StoreTicksInv
<1>5. CASE \E w \in BOOLEAN : sleepPoll(w)
  BY <1>5, SleepPollInv
<1>6. CASE \E w \in BOOLEAN : sleepTest(w)
  BY <1>6, SleepTestInv
<1>7. CASE UNCHANGED vars
  BY <1>7 DEF vars, TimerInv, TypeOK, StartIs, Since, TakenStart, WithAl, PollIsRight, NoEarlyWake
<1>8. QED
  BY <1>1, <1>2, <1>3, <1>4, <1>5, <1>6, <1>7 DEF Next

(* TimerInv is an invariant of the specification. *)
THEOREM TimerInvariant == Spec => []TimerInv
  BY TimerInit, TimerNext, PTL DEF Spec

(* sleep does not return early, for every width of the counter, every      *)
(* starting value of it and every argument, the counter wrapping during    *)
(* the sleep included, unless a key came between the load and the store of *)
(* initialTicks or into the last poll (sleep of timer.c).                  *)
THEOREM SleepWaits == Spec => []NoEarlyWake
<1>1. TimerInv => NoEarlyWake
  BY DEF TimerInv
<1>2. QED
  BY <1>1, TimerInvariant, PTL

(* The difference that sleep's loop tests is the time since the call; a    *)
(* key that came into the store of initialTicks moves it by less than 256  *)
(* ticks, and the loop's end with it (sleep of timer.c).                   *)
THEOREM PollsAlwaysSeeTheTime == Spec => []PollsSeeTheTime
<1>1. TimerInv => PollsSeeTheTime
  <2> SUFFICES ASSUME TimerInv, at = "poll" PROVE
        /\ passed >= Shift /\ passed + Shift < milliseconds => StillWaiting
        /\ passed >= milliseconds + Shift /\ passed + Shift < TickMod => ~StillWaiting
    BY DEF PollsSeeTheTime
  <2>1. TypeOK
    BY DEF TimerInv
  <2>2. PICK start \in Ticks : StartIs(start)
    BY DEF TimerInv
  <2>3. Shift \in Nat /\ initialTicks - start <= Shift /\ start - initialTicks <= Shift
    <3>1. CASE startStruck
      <4>1. initialTicks = WithAl(start) /\ WithAl(start) \in Ticks
            /\ WithAl(start) - start < ByteMod /\ start - WithAl(start) < ByteMod
        BY <2>2, <3>1, AlChanged DEF StartIs, TakenStart
      <4>2. QED
        BY <3>1, <4>1 DEF Shift, Ticks
    <3>2. CASE ~startStruck
      BY <2>1, <2>2, <3>2 DEF StartIs, TakenStart, Shift, TypeOK, Ticks
    <3>3. QED
      BY <3>1, <3>2
  <2> DEFINE seen == (tick + TickMod - initialTicks) % TickMod
             real == (tick + TickMod - start) % TickMod
             s == Shift
  <2>4. seen = IF tick >= initialTicks THEN tick - initialTicks ELSE tick + TickMod - initialTicks
    BY <2>1, ElapsedIs DEF TypeOK
  <2>5. real = IF tick >= start THEN tick - start ELSE tick + TickMod - start
    BY <2>1, ElapsedIs DEF TypeOK
  <2>6. passed < TickMod => real = passed
    BY <2>2 DEF StartIs, Since
  <2>7. StillWaiting <=> seen < milliseconds
    BY DEF StillWaiting
  <2>8. s \in Nat /\ initialTicks - start <= s /\ start - initialTicks <= s
    BY <2>3
  <2>9. /\ tick \in Ticks /\ initialTicks \in Ticks /\ start \in Ticks /\ milliseconds \in Ticks
        /\ passed \in 0 .. TickMod
    BY <2>1, <2>2 DEF TypeOK
  <2> HIDE DEF seen, real, s
  <2>10. passed >= s /\ passed + s < TickMod => seen - passed <= s /\ passed - seen <= s
    BY <2>4, <2>5, <2>6, <2>8, <2>9 DEF Ticks
  <2>11. seen \in Nat
    BY <2>4, <2>9 DEF Ticks
  <2>12. passed >= s /\ passed + s < milliseconds => seen < milliseconds
    BY <2>8, <2>9, <2>10, <2>11 DEF Ticks
  <2>13. passed >= milliseconds + s /\ passed + s < TickMod => ~(seen < milliseconds)
    BY <2>8, <2>9, <2>10, <2>11 DEF Ticks
  <2>14. QED
    BY <2>7, <2>12, <2>13 DEF s
<1>2. QED
  BY <1>1, TimerInvariant, PTL

=============================================================================
