----------------------------- MODULE Interrupts -----------------------------
(***************************************************************************)
(* Interrupt dispatch: the gates that initIdt and setupIRQs install, the   *)
(* stubs of interrupts.asm, executed one instruction at a time, and the    *)
(* two interrupt controllers remapPIC programs.  Every gate is an          *)
(* interrupt gate (0x8E), so a stub starts with interrupts off.            *)
(*                                                                         *)
(* A register's value is the place it came from: its own name for what the *)
(* interrupted code had in it, Junk for anything computed since.  The      *)
(* controllers are modelled from how the stubs use them: a line that is in *)
(* service holds back the lines below it, and a non-specific end of        *)
(* interrupt ends the highest line in service.                             *)
(***************************************************************************)
EXTENDS Naturals, Sequences, SequencesExt, FiniteSetsExt

CONSTANT Lines          \* the interrupt lines in use; line 2 joins the controllers

ASSUME LinesAssumption == Lines \subseteq (0 .. 15) \ {2}

VARIABLES
    irr,                \* lines that wait for service
    master, slave,      \* lines in service, by controller
    intFlag, shadow,         \* the interrupt flag; sti takes effect an instruction late
    regs,
    frames,             \* the stubs being executed, innermost first
    driveIRQ,           \* interrupts.c: set by drive ()
    waiting,            \* a system call is in atapiRead's wait for driveIRQ
    halted              \* interrupt () is looping for ever

irqVars == <<irr, master, slave, intFlag, shadow, regs, frames, driveIRQ, waiting, halted>>
controllers == <<irr, master, slave>>

General == {"eax", "ebx", "ecx", "edx", "esi", "edi", "ebp"}
Registers == General \union {"segments"}
Junk == "junk"
Own == [r \in Registers |-> r]

-----------------------------------------------------------------------------
(* The stubs.  The four segment registers are saved and loaded together.   *)
Op(name, arg) == <<name, arg>>
Push(r) == Op("push", r)
Pop(r) == Op("pop", r)
Mov(r) == Op("mov", r)

Mut_irqCode ==
    <<Op("pusha", ""), Push("segments"), Mov("eax"), Mov("segments"),
      Pop("segments"), Op("popa", ""), Mov("eax"), Op("eoi", "master"), Op("eoi", "slave"),
      Op("hlt", ""), Op("sti", ""), Op("iret", "")>>
irqCode ==
    <<Op("pusha", ""), Push("segments"), Mov("eax"), Mov("segments"),
      Pop("segments"), Op("popa", ""), Mov("eax"), Op("eoi", "master"), Op("eoi", "slave"),
      Op("sti", ""), Op("iret", "")>>

Mut_irq0Code ==
    <<Push("eax"), Push("ebx"), Push("ecx"), Push("edx"), Push("edi"), Push("esi"), Push("ebp"),
      Mov("ecx"), Mov("edx"), Mov("ebx"), Push("ecx"), Push("ebx"), Push("edx"),
      Mov("eax"), Op("eoi", "master"), Mov("eax"), Op("call", "timerTick"),
      Pop("eax"), Pop("eax"), Pop("eax"),
      Pop("esi"), Pop("edi"), Pop("edx"), Pop("ecx"), Pop("ebx"), Pop("eax"),
      Op("sti", ""), Op("iret", "")>>
irq0Code ==
    <<Push("eax"), Push("ebx"), Push("ecx"), Push("edx"), Push("edi"), Push("esi"), Push("ebp"),
      Mov("ecx"), Mov("edx"), Mov("ebx"), Push("ecx"), Push("ebx"), Push("edx"),
      Mov("eax"), Op("eoi", "master"), Mov("eax"), Op("call", "timerTick"),
      Pop("eax"), Pop("eax"), Pop("eax"), Pop("ecx"),
      Pop("esi"), Pop("edi"), Pop("edx"), Pop("ecx"), Pop("ebx"), Pop("eax"),
      Op("sti", ""), Op("iret", "")>>

Mut_irq1Code ==
    <<Op("pusha", ""), Push("segments"), Mov("eax"), Mov("segments"), Op("call", "keyboard"),
      Op("sti", ""), Pop("segments"), Op("popa", ""), Mov("eax"), Op("eoi", "master"),
      Op("iret", "")>>
irq1Code ==
    <<Op("pusha", ""), Push("segments"), Mov("eax"), Mov("segments"), Op("call", "keyboard"),
      Pop("segments"), Op("popa", ""), Mov("eax"), Op("eoi", "master"),
      Op("sti", ""), Op("iret", "")>>

Mut_irq15Code ==
    <<Op("pusha", ""), Push("segments"), Mov("eax"), Mov("segments"), Op("call", "drive"),
      Pop("segments"), Mov("eax"), Op("eoi", "slave"), Op("popa", ""),
      Op("sti", ""), Op("iret", "")>>
irq15Code ==
    <<Op("pusha", ""), Push("segments"), Mov("eax"), Mov("segments"), Op("call", "drive"),
      Pop("segments"), Mov("eax"), Op("eoi", "slave"), Op("eoi", "master"), Op("popa", ""),
      Op("sti", ""), Op("iret", "")>>

sysCode ==
    <<Push("eax"), Mov("eax"), Op("eoi", "master"), Op("eoi", "slave"), Pop("eax"),
      Push("edi"), Push("esi"), Push("edx"), Push("ecx"), Push("ebx"), Push("eax"),
      Op("call", "syscl"), Pop("ebx"), Pop("ebx"), Pop("ecx"), Pop("edx"), Pop("esi"), Pop("edi"),
      Op("sti", ""), Op("iret", "")>>

(* An exception's stub pushes its number and never comes back from         *)
(* interrupt ().                                                           *)
isrCode == <<Mov("eax"), Mov("ebx"), Mov("ecx"), Mov("edx"), Op("pusha", ""),
             Push("segments"), Op("call", "interrupt")>>

Code == [irq |-> irqCode, irq0 |-> irq0Code, irq1 |-> irq1Code, irq15 |-> irq15Code,
         sys |-> sysCode, isr |-> isrCode]

(* The gates: initIdt, then setupIRQs.  remapPIC puts line l at vector     *)
(* 32 + l.                                                                 *)
Gate(vector) ==
    CASE vector = 32 -> "irq0"
      [] vector = 33 -> "irq1"
      [] vector \in {46, 47} -> "irq15"
      [] vector \in 34 .. 45 -> "irq"
      [] vector = 240 -> "sys"
      [] OTHER -> "isr"
Vector(line) == 32 + line

-----------------------------------------------------------------------------
(* setupIRQs has run and enabled interrupts. *)
IrqInit ==
    /\ irr = {} /\ master = {} /\ slave = {}
    /\ intFlag = TRUE /\ shadow = FALSE
    /\ regs = Own
    /\ frames = <<>>
    /\ driveIRQ = 0 /\ waiting = FALSE /\ halted = FALSE

(* A device raises a line. *)
RaiseLine(line) ==
    /\ line \notin irr
    /\ irr' = irr \union {line}
    /\ UNCHANGED <<master, slave, intFlag, shadow, regs, frames, driveIRQ, waiting, halted>>

(* Line 2 of the first controller stands for the lines of the second. *)
MasterLine(line) == IF line < 8 THEN line ELSE 2
NoneAbove(inService, line) == \A l \in inService : l > line
Unblocked(line) == NoneAbove(master, MasterLine(line)) /\ (line >= 8 => NoneAbove(slave, line))
Precedes(l, line) ==
    MasterLine(l) < MasterLine(line) \/ (MasterLine(l) = MasterLine(line) /\ l < line)

CanDeliver(line) ==
    /\ line \in irr /\ Unblocked(line)
    /\ \A l \in irr : Precedes(l, line) => ~Unblocked(l)

Entered(vector) ==
    /\ frames' = <<[stub |-> Gate(vector), ip |-> 1, entry |-> regs, stack |-> <<>>]>> \o frames
    /\ intFlag' = FALSE /\ shadow' = FALSE
    /\ UNCHANGED <<regs, driveIRQ, waiting, halted>>

Interrupt(line) ==
    /\ intFlag /\ ~shadow /\ ~halted
    /\ CanDeliver(line)
    /\ irr' = irr \ {line}
    /\ master' = master \union {MasterLine(line)}
    /\ slave' = IF line < 8 THEN slave ELSE slave \union {line}
    /\ Entered(Vector(line))

(* The running program makes a system call or causes an exception. *)
SystemCall ==
    /\ frames = <<>> /\ ~halted
    /\ Entered(240)
    /\ UNCHANGED controllers

Exception ==
    /\ frames = <<>> /\ ~halted
    /\ Entered(14)
    /\ UNCHANGED controllers

-----------------------------------------------------------------------------
(* One instruction of the innermost stub. *)
Top == frames[1]
At(name) == frames # <<>> /\ ~halted /\ Code[Top.stub][Top.ip][1] = name
Arg == Code[Top.stub][Top.ip][2]
Advance(stack) ==
    /\ frames' = [frames EXCEPT ![1].ip = @ + 1, ![1].stack = stack]
    /\ shadow' = FALSE

Stepped == UNCHANGED <<controllers, intFlag, driveIRQ, waiting, halted>>

ExecPush == At("push") /\ Advance(<<regs[Arg]>> \o Top.stack) /\ UNCHANGED regs /\ Stepped
ExecPusha == At("pusha") /\ Advance(<<regs>> \o Top.stack) /\ UNCHANGED regs /\ Stepped
ExecPop ==
    /\ At("pop")
    /\ regs' = [regs EXCEPT ![Arg] = Head(Top.stack)]
    /\ Advance(Tail(Top.stack)) /\ Stepped
ExecPopa ==
    /\ At("popa")
    /\ regs' = [r \in Registers |-> IF r \in General THEN Head(Top.stack)[r] ELSE regs[r]]
    /\ Advance(Tail(Top.stack)) /\ Stepped
ExecMov == At("mov") /\ regs' = [regs EXCEPT ![Arg] = Junk] /\ Advance(Top.stack) /\ Stepped

EndOfHighest(S) == IF S = {} THEN S ELSE S \ {Min(S)}
ExecEoi ==
    /\ At("eoi")
    /\ master' = IF Arg = "master" THEN EndOfHighest(master) ELSE master
    /\ slave' = IF Arg = "slave" THEN EndOfHighest(slave) ELSE slave
    /\ Advance(Top.stack)
    /\ UNCHANGED <<irr, intFlag, regs, driveIRQ, waiting, halted>>

(* Of the general registers only ebp is sure to survive a call: the        *)
(* assembly routines under the C functions change ebx, esi and edi.        *)
Called ==
    /\ regs' = [r \in Registers |-> IF r \in General \ {"ebp"} THEN Junk ELSE regs[r]]
    /\ Advance(Top.stack)
    /\ UNCHANGED <<controllers, intFlag, halted>>
ExecCall ==
    /\ At("call") /\ Arg \in {"timerTick", "keyboard"}
    /\ Called
    /\ UNCHANGED <<driveIRQ, waiting>>
drive ==
    /\ At("call") /\ Arg = "drive"
    /\ Called
    /\ driveIRQ' = 1
    /\ UNCHANGED waiting

(* A system call that reads a file of the drive comes to atapiRead, which  *)
(* resets driveIRQ and waits for it; the others just return.               *)
sysclReadsDrive ==
    /\ At("call") /\ Arg = "syscl" /\ ~waiting
    /\ driveIRQ' = 0 /\ waiting' = TRUE
    /\ UNCHANGED <<controllers, intFlag, shadow, regs, frames, halted>>
syscl ==
    /\ At("call") /\ Arg = "syscl"
    /\ waiting => driveIRQ # 0
    /\ Called
    /\ waiting' = FALSE
    /\ UNCHANGED driveIRQ

(* The exception handler prints and loops for ever. *)
interrupt ==
    /\ At("call") /\ Arg = "interrupt"
    /\ halted' = TRUE
    /\ UNCHANGED <<controllers, intFlag, shadow, regs, frames, driveIRQ, waiting>>

ExecSti ==
    /\ At("sti")
    /\ intFlag' = TRUE
    /\ frames' = [frames EXCEPT ![1].ip = @ + 1]
    /\ shadow' = TRUE
    /\ UNCHANGED <<controllers, regs, driveIRQ, waiting, halted>>

(* Back to the interrupted code, whose interrupt flag was set. *)
ExecIret ==
    /\ At("iret")
    /\ frames' = Tail(frames)
    /\ intFlag' = TRUE /\ shadow' = FALSE
    /\ regs' = IF Len(frames) = 1 THEN Own ELSE regs
    /\ UNCHANGED <<controllers, driveIRQ, waiting, halted>>

Exec ==
    \/ ExecPush \/ ExecPusha \/ ExecPop \/ ExecPopa \/ ExecMov \/ ExecEoi
    \/ ExecCall \/ drive \/ syscl \/ interrupt \/ ExecSti \/ ExecIret

IrqNext ==
    \/ \E line \in Lines : RaiseLine(line) \/ Interrupt(line)
    \/ SystemCall
    \/ Exception
    \/ Exec
    \/ sysclReadsDrive

(* The processor executes what it can and takes the interrupts it allows. *)
IrqSpec == IrqInit /\ [][IrqNext]_irqVars /\ WF_irqVars(Exec) /\ WF_irqVars(\E line \in Lines : Interrupt(line))

-----------------------------------------------------------------------------
(* The stubs never nest: sti comes so late that iret is executed before    *)
(* the next interrupt is taken.                                            *)
NoNesting == Len(frames) <= 1

(* When the interrupted code goes on, no line is in service: every stub    *)
(* has told the right controllers, so that no line stays blocked, and a    *)
(* line of the second controller is never held back by line 2.             *)
NothingLeftInService ==
    frames = <<>> \/ At("iret") => master = {} /\ slave = {}

(* At iret the stub has popped all it pushed, and the interrupted code     *)
(* finds its registers as they were: all of them after irq0 and irq15, all *)
(* but eax after irq, irq1 (al is left at 0x20) and a system call.         *)
RegistersBack ==
    At("iret") =>
      /\ Top.stack = <<>>
      /\ \A r \in Registers :
           regs[r] = Top.entry[r] \/ (r = "eax" /\ Top.stub \in {"irq", "irq1", "sys"})

(* A stub comes to its end, unless it handles an exception or is a system  *)
(* call that waits for the drive.                                          *)
StubReturns == frames # <<>> ~> frames = <<>> \/ halted \/ waiting

=============================================================================
