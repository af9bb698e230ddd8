# A verification of the kernel

The repository is a small 32-bit x86 kernel: C and NASM, booted by GRUB, with
paging, a heap, a keyboard and a text screen, a timer, an ATAPI driver, a
virtual file system over a RAM file system, an ELF loader and the beginnings of
multitasking. This directory holds TLA+ models of its parts, TLC runs that check
them on small instances, and TLAPS proofs, for every value of the constants, about
the page allocator, the heap, the address spaces and the loader, the interrupt stubs
and the timer, the line input and the prompt, the screen and `kprintf`, the ATAPI driver
and the file systems.

The build (`test.sh`) fixes two things the models rely on. It links
`loader, initFunctions, screen, string, memory, sysvars, interrupts, misc` (asm)
and `ckernel, interrupts, input, keyboard, prompt, paging, atapi, vfs, ramfs,
timer, task, gdt, elf, syscalls` (C): `kernel.c`, `kernel.asm` and
`syscalls.asm` are not part of the kernel. And it compiles without
optimisation, so that the busy waits on plain variables (`inputBuf [1]`,
`driveIRQ`, `tick`) read memory on every round.

## 1. Inventory

| part | state | operations | used by / shares |
|---|---|---|---|
| page allocator (`paging.c`) | `pageBitmap` | `allocPage`, `freePage` (no caller) | heap, `mapPage`, clones, loader |
| boot memory map (`paging.c`) | `pageBitmap`, `numTables` | `displayMmap` | writes the bitmap once, before `generatePageTable` |
| heap (`paging.c`) | `nextAddress`, `endOfPage`, `numHeapPages` | `initHeap`, `kmalloc` | everything that allocates |
| address spaces (`paging.c`, `task.c`) | page directories and tables, `cr3` | `generatePageTable`, `startPaging`, `moveStack`, `mapPage`, `clonePageDirectory`, `mapTaskPage` | edits tables through the identity map it also edits |
| keyboard and line input (`keyboard.c`, `input.c`) | the input page: counter, flag, characters; `shiftDown` | `keyboard` (irq1), `getch`, `getstr`, `getint` | interrupt against busy wait, no lock |
| screen (`screen.asm`) | video memory, `screen_text_x/y`, `text_color`, CRT cursor | `puts`, `backspace`, `setTextColor`, `updateCursor` | `kprintf`, keyboard echo |
| timer (`timer.c`) | `tick` | `timerTick` (irq0), `sleep` | interrupt against busy wait |
| ATAPI driver (`atapi.c`) | `driveIRQ`, `drives`, the drive itself | `atapiRead`, `findFile`, `atapiInit` | polls, `drive` (irq14, irq15), any other interrupt |
| interrupts (`interrupts.asm`, `interrupts.c`) | IDT, both 8259s, IF, saved registers | the stubs `irq`, `irq0`, `irq1`, `irq15`, `sys`, `isrN` | all handlers |
| ramfs (`ramfs.c`) | lists of directory entries in the heap | `mkDir`, `mkFile`, `writeFS`, `readFS`, `findDir`, `listDir` | `vfs.c` through pointers |
| VFS (`vfs.c`) | list of file systems, list of open files | `registerRootFS`, `registerFS`, `open`, `read`, `seek`, `lsDir` | ramfs, ATAPI driver |
| string routines (`string.asm`) | `printBuf`, `itosBuf`, `hexBuf`, `substrBuf` | `kprintf`, `itos`, `itox`, `stoi`, `stox`, `strcmp`, `strlen`, ... | main program and keyboard interrupt |
| tasks (`task.c`) | `currentTask`, `pid`; the ring, which stays the first task's | `initTasks`, `fork` and `switchTasks` (no caller), `getpid`, `mapTaskPage` | clones of the address space |
| ELF loader (`elf.c`) | the program area, `end` | `loadELF`, `loadBin`, `exec` | `open`, `read`, `mapTaskPage` |
| prompt (`prompt.c`) | `command` | the command loop, `add` ... `memdump` | `getstr`, `getint`, `strcmp` |
| system calls (`syscalls.c`) | | `syscl`: sbrk, read, open, write, end, constants | gate 0xF0; VFS, `mapTaskPage` |
| GDT and TSS, boot sequence, ports | constants written once | | not modelled (section 6) |

What is hard here, and what makes each part correct:

* *Interrupts meet code that knows nothing of them.* A key may arrive between any
  two instructions of `getstr`, of `kprintf` or of a status poll. The line must
  be the one typed, the text the one formatted, the wait must end for the reason
  it waits for; the stubs must give registers back, must not nest and must
  acknowledge the controller that interrupted.
* *Two copies of one fact.* The screen keeps its position as an address and as
  a column and row; `mapPage` maintains a frame's mapping and its identity
  mapping; a descriptor is a position in a list. They must agree after every
  sequence of calls.
* *Boundaries.* Full bitmap words, page-sized blocks, the last row, sector ends,
  the wrap of a byte or of `tick`.
* *Ends of waits.* `getstr`, `sleep`, `allocPage` and `atapiRead` loop without
  a timeout; each must end under the fairness its environment gives.

Every hazard is in PROJECT.json at the line where it bites, with the properties
that cover it or the reason none does. Facts about this commit found while
reading: `_kmain` stops (`cli;hlt`, `ckernel.c:28`) after its first `open`, before
its calls of `exec` and `prompt`; nobody calls `freePage` or `fork`. The modules of
those parts say what the code does once it is called. `fork` would fault in
`clonePageDirectory` (`task.c:32`, `paging.c:158`) and the call of `switchTasks` is
commented out (`timer.c:24`), so there is never a second task.

## 2. Modules

| module | models | notes |
|---|---|---|
| `PageAllocator` | what `allocPage` promises | abstract |
| `PageBitmap` | `bitSet/Clear/Test`, `allocPage` (one step per iteration), `freePage` | implements `PageAllocator` |
| `PageBitmapProofs` | | theorems |
| `KernelHeap` | `initHeap`, `kmalloc`, other callers of `allocPage` | |
| `KernelHeapProofs` | | theorems |
| `BootMap` | `displayMmap`, what `generatePageTable` clears and reserves | operators of a machine |
| `Paging` | directories, tables and the identity map | EXTENDS `BootMap` |
| `Loader` | `exec` with `loadELF` and `loadBin`, `sbrk`, over `Paging` | EXTENDS `Paging`; `MCLoader` gives machines and programs |
| `LoaderProofs` | | theorems about `Paging` and `Loader` |
| `Timer` | `timer.c`: `timerTick` and `sleep`, and the keys that come between | |
| `LineInput` | `keyboard`, `getch`, `getstr` | |
| `Prompt` | `prompt.c`, `getint`, `strcmp` | EXTENDS `LineInput` |
| `PromptProofs` | | theorems about `LineInput` and `Prompt` |
| `Terminal` | a scrolling text screen | abstract |
| `Screen` | `puts` by character, `backspace`, `setTextColor` | implements `Terminal` |
| `AtapiRead` | `atapiRead`, the drive, irq1 and the drive's interrupt | |
| `AtapiProofs` | | theorems |
| `Drives` | `atapiInit`, `findFile` | |
| `Ramfs` | `ramfs.c` | |
| `Vfs` | `vfs.c` over both file systems | EXTENDS `Ramfs`, `Drives`; `MCVfs` gives machines, discs and names |
| `VfsProofs` | | theorems about `Ramfs`, `Drives` and `Vfs` |
| `Interrupts` | the stubs, instruction by instruction, CPU and 8259s | |
| `DispatchProofs` | | theorems about `Interrupts` and `Timer` |
| `Kprintf` | `kprintf`, `itos`, `itox`, keyboard echo | `MCKprintf` gives the calls |
| `OutputProofs` | | theorems about `Screen` and `Kprintf` |

How state and actions correspond to the code:

**PageBitmap.** Word `w` of `pageBitmap` is the set of its one bits. `bit` is the
local of `allocPage`; `ScanSkipWord`, `ScanNextBit` and `ScanTake` are the three
ways through the loop's body and `ScanOverrun` is the loop past the array's end,
for which the code has no test. `live` and `reserved` are history. `KernelSpec`
is the allocator as the kernel uses it; `Spec` adds `freePage`.

**KernelHeap.** Addresses are bytes. A block is recorded as `[at, len]`.
`allocPage` gives a page not given before (what `PageBitmap` establishes);
`allocOther` is every other caller of it.

**BootMap.** A machine is its memory and GRUB's map. The loops of `displayMmap` are
the set of bits they set: `FirstBit` is the local `bit` at each entry, which
counts lengths and not addresses, `EntryBits` the marks of one entry.
`ZeroedBytes` is the argument of `kmemset`, where 0 stands for 2^32. A machine
for which a mark falls behind `pageBitmap`, or the clearing does not stop, does
not survive (`Survives`): memory is overwritten and the model ends there.

**Paging.** A directory maps four indices (identity area, programs, input buffer,
stack) to tables. `allocPage` is the lowest free frame, which it then clears at
its physical address: it faults if that frame is not identity mapped.
`clonePageDirectory` faults at the copy of the stack, because `moveStack`'s
`mapPage` has taken the stack frame's identity mapping away; the model has that
step and its fault.

**Loader.** `exec` as the program counter goes through it: headers (heap pages),
pages, the two reads of the first segment, the padding. A byte of the program
area is the file position it came from. Files are what the linker lays out: two
segments, the second on the page after the first one's end at the same offset.
The program that runs afterwards opens files (heap pages) and calls `sbrk`.

**Timer.** `sleep` as the compiler leaves it: `initialTicks = tick` is a load into `eax`
(`sleep`) and a store (`storeTicks`), a poll is a load with its comparison
(`sleepPoll`) and a jump (`sleepTest`). irq0 gives every register back; irq1 leaves
0x20 in `al`. So a key before the store replaces the low byte of `initialTicks`
(`WithAl`, `startStruck`), and one inside a poll lets it go either way (`pollStruck`).
`tick` counts modulo `TickMod`, time is counted in interrupts. There is one task.

**LineInput, Prompt.** One action per kind of key and one per iteration of `getstr`;
the interrupt is atomic since irq1 runs with IF clear. A key between the load of a
character and its use makes the reader see a space (`struck`), and may send it past
the newline (`lost`). Scan codes past the tables' ends read unknown bytes: any of
them that matters is a choice. `Prompt` calls the readers with the buffers of
`prompt.c`: what `getstr` does not write keeps its old contents, so `strcmp`
(`IsCommand`, `IsNot`) may come out either way on bytes nobody has written.

**Screen.** `puts` disables interrupts and `backspace` runs inside one, so calls do
not interleave; their characters are still steps, to state what holds in
between. A tab moves the address and not the column register, and a backspace
in column 0 wraps the column: the history variable `astray` is true from such
a step to the point where both records are set afresh, and `Terminal`, whose
`lost` it is mapped to, promises nothing in between. So the properties say how
everything else behaves and that the disturbance does not outlive that point.

**AtapiRead.** A port read and the use of its value are two steps, since irq1 leaves
0x20 in `al`. The drive is external: after a PACKET command it is busy,
requests the packet, is busy, then offers a sector or a part of it and
interrupts. A failing drive never sets DRQ. Simplifications: a busy drive does not
show DRQ, a short burst is the last of its sector, and the drive does not interrupt
for the packet. irq1 is modelled between a port read and the use of its value, where
it loses what the hardware said; the tests of the loop and of the sector's end
(`atapi.c:216`, `222`, `234`) compute in `eax` too, and a key in one of these
is left out.

**Interrupts.** Every stub is the sequence of its instructions (`irqCode` and so
on), run on a CPU with IF, the one-instruction shadow of `sti`, a register file
of own and junk values, and two cascaded 8259s in fully nested mode. Handlers
called from stubs clobber every general register but `ebp`: the assembly
routines do not preserve the others.

**Drives.** `atapiInit` is one step per probe and one per registration; a device is its
kind, and a position without a controller never answers. `findFile` is an operator
on a disc, on a path and on the first value of the local `file`, which nothing
initialises. A disc has a size, the extent of its root directory and what its sectors
read as when they are taken for directories. `rootOf` is the decoding of the root in
`atapi.c:70`, which takes bytes 158, 160, 162 and 164 of the volume descriptor and so
the second byte of the sector for its highest: right below 256 only. Above, `findFile`
searches another sector, or waits for one that the disc does not have
(`open`, `failed = "atapiRead"`). Of each directory only the first sector is searched
(`Matches`). `ReadDrive` is the drive `atapiRead` selects: the last
ATAPI one, for every file system. A sector full of records to its last byte, behind which
the search would run into the heap, is left out.

**Ramfs, Vfs.** An entry is a record in a sequence; a path is a sequence of names;
data is one value per file. `initramfs` calls `mkDir`, `mkFile` and `writeFS`
with fixed arguments; the models allow every sequence of such calls with existing
parents, with at most `MaxWritten` files written to. A dereference of the list end
-1 is recorded in `failed`, after which nothing happens. `open` copies the name
without its end: that a slash may follow on the stack is the choice of `longest`.
A successful `read` changes no state, the position included: what it returns is
`readResult`, and the action `read` is the read that fails.

**Kprintf.** Every character is stored as four bytes, as `push dword / pop dword`
does, and the terminator is whatever came along. A key may interrupt between
characters; it runs a complete `kprintf` on the same buffer, and leaves 0x20 in
`al`, which matters while the address of a converted number is in `eax`
(`spoilt`). `itos` and `itox` are operators on digits. The calls are those of the kernel
in kind (`KprintfAssumption`): a format is not empty, a directive and a backslash are
followed by their letter, every directive has an argument of its kind, and no argument
of `%c` is the zero byte. `TextsAssumption` says that the model has room for the longest
text behind `printBuf`.

## 3. Runs

| run | result | states | bounds |
|---|---|---|---|
| `page_bitmap` | pass | 65,536 | 3 words of 4 bits, every initial bitmap |
| `page_bitmap_free` | violation | | the same with `freePage` |
| `kernel_heap` | pass | 65,566 | 6 pages of 4 bytes, requests 0 to 9 bytes, 5 blocks |
| `prompt` | pass | 2,313,473 | counter modulo 3, `command` of 3 bytes |
| `screen` | pass | 2,789,178 | 2 rows of 3 columns, strings of up to 3, tabs of 2, column byte modulo 6 |
| `timer` | pass | 42,076 | tick modulo 16, bytes of 4 values, sleeps of 0 and 8 |
| `atapi_read` | pass | 234,341 | sectors of 4 bytes, reads of 1 to 10 bytes |
| `atapi_bsy` | violation | | the same |
| `loader` | pass | 15,528 | 40 frames, 20 identity mapped, 7 machines, 22 files, 5 program pages |
| `interrupts` | pass | 6,272 | lines 0, 1, 3, 12 and 15 |
| `vfs` | pass | 357,688 | 6 machines, 4 discs, directories a and b, file b, depth 2, 8 entries, two open files |
| `kprintf` | pass | 37,520 | buffer of 8, ten calls, one key |

Why these bounds reach the interesting cases: a bitmap of three words has full,
partly full and empty words in every order and an end to run over. Four-byte
pages with requests of 3, 4, 5 and 9 bytes end before, at and after the page and
run over two. A counter modulo 3 wraps within a line; two rows scroll at once;
a tick modulo 16 wraps within a sleep of eight ticks, which begins at every value of the
counter, and a byte of four values gives a key every way to move the start. Reads of up to ten bytes span
three sectors with odd and even ends. Twenty identity mapped frames run out while
a program is loaded or runs; the machines have a BIOS area of less than, exactly and
more than a page, no map, too little memory for a byte of the bitmap and too much
for the bitmap; the first segments end at every offset of two pages. The six
machines of `vfs` have one and two ATAPI drives behind gaps, none, and a floating
bus; the four discs have a root below 256, with a file behind the first sector of
its directory or not, one that is decoded to a sector beyond the disc and one to a
sector with other contents. The five interrupt lines are
one for each stub on each controller that can deliver it. The constants that
bound behaviours are named in the modules.

What they show is in the comment above each property. In short: no page is given
out twice and the search loses none; blocks of at most a page are disjoint and
in the heap's pages; a line asked for when nothing was counted is returned as
typed, and the copy always finds its newline; the screen's two positions agree,
and it is a terminal; a command is compared as typed from the second one on; `sleep`
is never short unless a key strikes its start or last poll, and returns; reads
that start on a sector boundary return the disc's bytes; no frame is mapped twice,
tables stay reachable and a program that starts has all its pages; stubs do not nest, acknowledge rightly and restore registers but for
`al`; paths and descriptors keep their meaning; every drive is mounted where it is, and
`findFile` finds the file the path leads to where it decodes the root and reads the
directories; `kprintf`
prints its text when undisturbed.

Conditions these properties carry, each because the code does not go further:
`BlocksDisjoint` exempts blocks longer than a page, `LineAsTyped` lines begun
with keys already counted, of more than the counter's range or read while a key
struck (`CommandAsTyped` also the first command and lines longer than `command`),
`NoEarlyWake` sleeps with a key between the load and the store of `initialTicks` or in
the last poll, `PollsSeeTheTime` the ticks of one byte around the end after such a key at
the start, `GivenOutUsable` the two frames behind a usable entry that
`displayMmap`'s count passes over, `ProgramLoaded` the contents of the second
segment (never read), `FaultHasReason` the fault in `fork`,
`StaysInBuffer` calls with an empty string, for which the loop copies what lies behind
it, or with a number whose address a key spoilt, `FindsNamedFile` calls whose uninitialised `file` was 1, roots from
sector 256 on and records behind the first sector of a directory,
`ReturnsDiscBytes` positions inside a sector, short bursts and reads hit by
irq1 between a port read and its use, `LeavesDriveIdle` odd counts (whose rest
is drained by byte reads), `RegistersBack` `eax` after `irq`, `irq1` and a
system call.

### Where the code and its own words differ

Two runs end in a counterexample; PROJECT.json quotes the line they contradict.

| run | what the code does |
|---|---|
| `page_bitmap_free` | `freePage` clears bit 0 of the word, not the page's bit |
| `atapi_bsy` | irq1's `al` ends the wait for BSY |

Other disagreements met while modelling. The models have the code's behaviour, and
the passing properties are stated around it:

* keys typed before a request are counted but not saved, which moves the start of
  the saved line (`keyboard.c:50`); `LineAsTyped` is about requests on an empty line;
* `getstr` writes its terminator into the input page, not into the caller's
  buffer (`input.c:24`);
* a tab does not count in `bl`, which `screen.asm:84` calls the real x value;
* a backspace in column 0 wraps the column (`screen.asm:161`);
* the boot code marks bits by counting through the map: a usable entry that is no whole
  number of pages leaves the page behind it, the BIOS data area, free to be given out
  (`paging.c:188`); with less than 60 MB the clearing of the bitmap has length 0 and
  does not stop (`paging.c:226`); with more than about 128 MB marks run behind the bitmap;
* `loadELF` reads the first segment twice and the second never (`elf.c:165`), and a first
  segment that ends on a page makes `kmemcpy` copy 2^32 bytes (`elf.c:179`);
* `sbrk` maps the code of `allocPage` (`syscalls.c:23`);
* `atapiRead` reads the last ATAPI drive while `open` goes to the first one mounted
  (`atapi.c:161`, `vfs.c:92`), and a bus without a controller hangs the probe;
* `atapi.c:70` says "find LBA of root directory entries" and decodes other bytes than the
  four that hold it; sectors from 256 on come out wrong;
* `sleep` takes a start that a key has changed by up to a byte's values (`timer.c:29`,
  `interrupts.asm:319`), and may return early or late by as much;
* a tick is 10 ms; `timer.c:11` takes it for one, so `sleep` takes ten times as long;
* `clonePageDirectory` links the input buffer, which `paging.c:146` says it does
  not, and copies the stack from an address that is no longer mapped;
* a read of the drive in a system call waits for an interrupt with IF clear
  (`atapi.c:207`); `StubReturns` is stated for every other entry;
* with no mounted file system, `open` of a name below a directory follows -1
  (`vfs.c:91`), and `findDir` uses the list's end before it tests for it
  (`ramfs.c:156`);
* the keyboard's `kprintf` writes into the buffer of the call it interrupts
  (`string.asm:330`), and `%s` copies past the end of an empty string
  (`string.asm:391`); `FormatsString` excepts both, `StaysInBuffer` the latter.

### Fairness

* `PageBitmap`: weak on `allocPage`; a loop without blocking runs on.
* `Prompt`: weak on the reader's steps only; nobody has to type.
* `Timer`: weak on the tick (the PIT is periodic) and on the store, which the program
  executes next; strong on a poll that sees the time over and on the jump that
  follows it: the loop polls many thousand times between two ticks, so not every such
  poll is cut by a key.
* `AtapiRead`: weak on the driver, on the drive's answer and on its interrupt;
  strong on the DRQ test that finds the bit set, since a key cannot strike every
  poll between the read and the test.
* `Interrupts`: weak on executing a stub and on delivering a deliverable line.
* `Kprintf`: weak on the steps of the call; each key takes the main program's
  step away only for the time of the interrupt.

`CHECK_DEADLOCK FALSE` is used where the system stops by design or by a bound:
an allocator that ran over its array or was used up, a bounded heap, a machine
that halted in the exception handler or a page fault or whose memory the boot code
overwrote, a bus that never answers, a full bounded file system.

## 4. Proofs

All for every value of the constants, from the named assumptions only.

`PageBitmapProofs` assumes that there is at least one word and that the width of
a word is 2, 4, 8, 16 or 32 (it divides 256, so that the `uint8` bit number
loses nothing: lemma `ShiftCountExact`).

* `TypeCorrect`: `Spec => []TypeOK`, with `freePage`. `bit` never exceeds the
  number of pages: a skip starts at a word boundary.
* `LoopInvariant`: `Spec => []NothingSkipped`, every page below `bit` is taken.
* `NoPageTwice`: `KernelSpec => []BitmapIsExact`. It rests on `TakeMarks`: the
  word and bit that `allocPage` sets belong to the page it returns and to no other.
  It does not hold of `Spec`: that is the finding about `freePage`.
* `Refinement`: `KernelSpec => Promise`: the step that takes the page is the
  abstract allocation, every other one a stutter.

`KernelHeapProofs` assumes a positive page size and natural request sizes.

* `KmallocDisjoint` and `KmallocStaysInHeap` follow from `HeapInvariant`:
  `Spec => []HeapInv`. Disjointness is not inductive alone: `CurrentPage` adds that
  `nextAddress` and `endOfPage` belong to the same page of the heap and that the
  blocks in that page lie below `nextAddress`. TLC checks `HeapInv` in `kernel_heap`.

`DispatchProofs` is about who has the processor. For the stubs it assumes only that
line 2 is no device's.

* `StubsNeverNest`, `LinesAlwaysReleased` and `RegistersAlwaysBack`: `NoNesting`,
  `NothingLeftInService` and `RegistersBack` of every behaviour of `IrqSpec`, from
  `InterruptsInvariant`. None of them is inductive: that a stub ends with its registers
  back depends on every instruction before. `IrqInv` says that there is no stub, or one,
  and then, for its place, how deep its stack is and what lies there (`Slots`), which
  registers are the program's or have been taken back (`Kept`), and that the controllers
  have at most one line each in service, none behind the place of the end of interrupt
  (`InService`). Interrupts are on only at `iret`, in the shadow of `sti`. `irq`, `irq1`
  and `irq15` are instances of one shape (`PushaStub`), with one lemma; `irq0` and the
  system call, which push registers one by one and pop them in an order of their own,
  have a lemma each (`irq0Steps`, `sysSteps`).

For the timer it assumes that the counter is a number of bytes wide and that durations
are below its range. `TimerInv` is inductive; TLC checks it on the bounds of `timer`.

* `SleepWaits`: `Spec => []NoEarlyWake`, and `PollsAlwaysSeeTheTime`:
  `Spec => []PollsSeeTheTime`. `TimerInv` ties `passed`, which counts interrupts, to the
  difference of `tick` and the tick at which the sleep began, modulo the range of the
  counter, so that a wrap in a sleep is covered; and `initialTicks` is that tick, or,
  if a key came before the store, that tick with another low byte, which is less than
  a byte's values away (`LowByte`, `AlChanged`).

`OutputProofs` assumes a screen with a row and a column, and `Cols + 1 < ByteMod`
(81 < 256): in a byte of `Cols + 1` values a backspace in column 0 would wrap
to the end of the row, and nobody could tell.

* `AddressRight`: `Spec => []AddressIsPosition`, from `ScreenInv`: inside `puts` the
  address is the one of the column and row unless a tab or a backspace in column 0
  led it astray, and between calls the CRT cursor is at the recorded position.
* `ScreenIsTerminal`: `Spec => IsTerminal`, the refinement of `Terminal`: one
  lemma per kind of step, on the cells of the picture (`CellWritten`,
  `ScrollMoves`, `BackspaceErases`), since a cell of the memory is in one row
  and one column (`CellIsUnique`).

About `kprintf` it assumes what `Kprintf` names: a buffer of at least four bytes, and calls
and texts as in section 2. Formats, arguments, numbers and lengths are otherwise any.

* `PrintsFormatted` and `StoresInBuffer`: `FormatsString` and `StaysInBuffer` of every
  behaviour of `KprintfSpec`, from `KprintfInvariant`. `KprintfInv` ties the registers to
  the text: the characters stored so far, the rest of the inserted string and what the
  format stands for from `ebx` on make up the whole text (`Remains`), and the buffer holds
  the first of these with a terminator behind it when the format is used up (`Stored`).
  `Stored` ends with the first key, `Remains` only with one that spoils an address: this
  is why the stores stay in the buffer although keys come.
* `TextStep` and `TextType` say how the text goes on at each position of a format. They
  rest on the recursive functions of `Formatted` and `itos` having a solution
  (`FromEquation`, `DigitsExist`), which is found by counting (`CountUp`).

`LoaderProofs` takes machines and files from any sets. It assumes that the areas lie
as in the code (the frames above the unmapped area are reserved, segments lie inside
the program area) and `BootRoomAssumption`: two frames are free below the identity
map's end when paging starts. The boot code does not check that; TLC evaluates the
assumption for the machines of `loader`. `LoaderInv` is inductive.

* `TablesStayReachable` and `FramesMappedOnce`: `Spec => []TablesReachable` and
  `Spec => []OneMapping`. `Spaces` adds what `mapPage` relies on: all directories
  share one identity table, free frames and the frames of directories and tables
  below the limit are identity mapped, and a frame not withheld at boot is mapped
  at most once, *also before it is given out*. `mapPage` adds a table, adds an
  entry and takes an identity mapping away; each has its lemma (`NewTable`,
  `EnterFresh`, `EnterWithheld`), over the values a step computes.
* `ProgramsLoaded`: `Spec => []ProgramLoaded`, from `ProgramInv`: which pages of the
  program area have frames after how many turns of the loop, and what was copied.
* `FaultsHaveReasons`: `Spec => []FaultHasReason` under `LinkerLayout`, the place where
  the linker puts a file's second segment: with the segments anywhere, the copy of
  the padding could have a negative length or meet a page that has no frame. `MCLoader` assumes it of its files,
  so TLC evaluates it.
* `GivenOutIsUsable`: `Spec => []GivenOutUsable` under `PCLayout`, the memory map of a
  PC: memory starts at 0, the BIOS data area follows it directly and lies behind the
  bits that `generatePageTable` zeroes, and what else is not usable is reserved or above
  the identity map. On other maps the count of `displayMmap`, which adds up lengths,
  leaves the addresses behind, and an unusable frame may stay unmarked. `FirstBit` has a
  solution (`CountExists`, by counting the entries; `MapAssumption`: a memory map is a
  sequence), by which the second entry's marks begin two frames behind its address
  (`FirstBitIs`); `UnusableMarked` compares the marks with
  the map, and `DestroyedStep` says that a machine whose memory is overwritten stays so.
  `MCLoader` assumes `PCLayout` of its machines, so TLC evaluates it.

`AtapiProofs` assumes an even sector size and positive counts; drives may fail,
offer short bursts and be interrupted by keys.

* `DiscBytesReturned`, `WordsOffered`, `DriveLeftIdle`: `ReturnsDiscBytes`,
  `WordsInDataPhase` and `LeavesDriveIdle`, from `ReadInvariant`. `ReadInv` says, for a
  request on a sector boundary to a drive that offers whole sectors, how many
  bytes lie before the current sector (`Progress`: the test for its end works by
  remainders, of a negative `pos` from the second sector on), which phase the drive
  can be in at each place of the code (`DrivePhase`; a key that ends a wait for BSY does
  not matter because DRQ is awaited next), and, if no key struck a value, which
  bytes are stored.

`PromptProofs` assumes a counter of at least one value and a `command` no longer than
its range. `PromptInv` is inductive.

* `LoopStops`: `Spec => []NewlineAhead`. It needs the handshake on the request flag: the
  page does not change between Enter and the reader's return, although keys come.
* `LineReturned`: `Spec => []LineAsTyped`. `PageIsTyped` says that the page holds the
  line edited since the request, `CopyIsTyped` that what has been copied is the line
  up to its first newline.
* `CommandCompared`: `Spec => []CommandAsTyped`, with `RestCleared`: behind what
  `getstr` has copied the buffer is as `kmemset` left it.

`VfsProofs` assumes what `Ramfs`, `Drives` and `Vfs` name: `.` and `..` are nobody's
name; on a disc the root and what a record points to lie inside it, and a sector has
one record of a name, which is a file's when it has a dot. Names, machines, discs and file names are otherwise any.

* `DotDotIsAlwaysParent`, `PathsAlwaysKeepTheirMeaning`, `DrivesAlwaysMounted`,
  `BootIsAlwaysFirstDrive`, `AlwaysFindsNamedFile` and `AlwaysReadsOwnFile`: the six
  safety properties of `vfs`, from `VfsInvariant`.
* `VfsInv` is `Tree` (links lead to later entries; there is an *owner* of every entry, the
  first one of its directory, which links keep and an entry's extent leads to: without it
  a new link could join two directories), `DriveInv` and `MountInv` (what the loops of
  `atapiInit` have found and registered after each of their rounds, `k` included) and
  `FileInv` (an open file has the number its path still leads to, the file system its
  path names and the position last sought).
* What `findDir`, the walks along a list and `findFile` compute is defined recursively. A
  recursive function has a solution when its argument goes along a list of later entries
  (`ChainRecursion`) or along a path (`PathRecursion`), and what the solution is follows
  by taking the least counterexample (`ChainInduction`, `PathInduction`). `Later` says
  what every call preserves of the entries; `WalkKept` draws from it that a path which
  leads somewhere goes on leading there.

TLC checked each of these invariants on the bounds of section 3 before it was proved
(with the stack's type, the owner of an entry and the text from a position on written
so that they can be evaluated).
Where an argument needs induction the proofs take the least counterexample instead
(`LeastNumber`, from the well-foundedness of the numbers).

Only model-checked: all liveness (`AllocReturns`, `ReaderReturns`,
`SleepReturns`, `ReadReturns`, `StubReturns`, `CallReturns`), since proofs about fairness and
ENABLED are out of the prover's reach; and that the digits `itos` writes are those of
the number, which a recursive definition over data computes. Every safety property of
the passing runs is stated by a theorem.

## 5. Plan

Model: `stoi` and `stox` against reference definitions.

## 6. Not modelled, and why

`gdt.c`, the boot order and the port routines write constants once; `readCD` and
`atapiSeek` have no caller; `listDir` and `lsDir` change nothing; most system calls
return a constant and `write` prints. Of `task.c` the ring and the switch are left out:
the rest of `fork` behind `clonePageDirectory` is never reached, and `switchTasks`,
whose call is commented out, returns at once while there is one task. `moveStack`'s search for saved frame pointers
depends on what the compiler put on the stack. `stoi`, `stox`, `substr` and
`appendStrs` compute values no modelled state depends on. What lies behind a caller's
buffer on the stack is left out; the hazards that need it say so. PROJECT.json lists
every part with its status.
