------------------------------ MODULE Kprintf -------------------------------
(***************************************************************************)
(* kprintf of string.asm with itos and itox, one step per character, and   *)
(* the keyboard interrupt, which echoes a key by a kprintf of its own into *)
(* the same printBuf.  Only puts turns interrupts off.                     *)
(*                                                                         *)
(* Every character is stored as four bytes, the three that follow it in    *)
(* memory included; no terminator is ever written, it comes along with the *)
(* last character.  Behind the terminator of a string in memory lies one   *)
(* more byte and another terminator.                                       *)
(***************************************************************************)
EXTENDS Naturals, Sequences

CONSTANTS
    Size,               \* bytes of printBuf (180), and of substrBuf behind it
    Calls,              \* the calls: <<format, arguments>>; an argument is the
                        \* sequence of its characters or <<sign, number>>
    Letters,            \* the characters of formats and strings
    Keys                \* the keys echoed, one byte each

NUL == "nul"
Other == "other"        \* a byte that belongs to something else

VARIABLES
    mem,                \* printBuf and substrBuf
    place,              \* "idle", "loopStr", "addStr" or "convert"
    call,               \* the call being executed, or the latest
    ebx,                \* position in the format, from 1
    ecx,                \* position in printBuf, from 0
    used,               \* arguments used (edi)
    edx, at,            \* the string being inserted and the position in it
    shown,              \* what the call's puts printed
    interrupted,        \* history: a key came during the call
    spoilt,             \* history: and changed the address of a string
    top                 \* history: the highest byte the call has written

kprintfVars == <<mem, place, call, ebx, ecx, used, edx, at, shown, interrupted, spoilt, top>>
inserted == <<edx, at>>

format == call[1]
args == call[2]

(* The byte at a position of a string in memory. *)
ByteAt(s, k) ==
    CASE k <= Len(s) -> s[k]
      [] k = Len(s) + 2 -> Other
      [] OTHER -> NUL
Dword(s, k) == <<ByteAt(s, k), ByteAt(s, k + 1), ByteAt(s, k + 2), ByteAt(s, k + 3)>>

(* The formats of the kernel: a directive and a backslash have their       *)
(* letter, and a directive an argument of its kind.                        *)
Matches(letter, value) ==
    CASE letter = "c" -> value \in Seq(Letters) /\ Len(value) = 1
      [] letter = "s" -> value \in Seq(Letters)
      [] letter = "x" -> value \in {"pos"} \X Nat
      [] letter \in {"d", "i"} -> value \in {"pos", "neg"} \X Nat
      [] OTHER -> FALSE

(* How many arguments the format uses before each position. *)
UsedBefore(f, a) ==
    {n \in [1 .. Len(f) + 1 -> 0 .. Len(a)] :
       /\ n[1] = 0
       /\ \A k \in 1 .. Len(f) : n[k + 1] = IF f[k] = "%" THEN n[k] + 1 ELSE n[k]
       /\ \A k \in 1 .. Len(f) : f[k] = "%" => Matches(f[k + 1], a[n[k] + 1])}

Lettered(f) ==
    \A k \in 1 .. Len(f) : f[k] \in {"%", "\\"} =>
      /\ k + 1 <= Len(f) /\ f[k + 1] \notin {"%", "\\"}
      /\ f[k] = "%" /\ f[k + 1] = "x" => k + 2 <= Len(f) /\ f[k + 2] \notin {"%", "\\"}

ASSUME KprintfAssumption ==
    /\ Size \in Nat \ 0 .. 3
    /\ NUL \notin Letters
    /\ \A c \in Calls :
         /\ c[1] \in Seq(Letters) /\ c[1] # <<>> /\ Lettered(c[1])
         /\ Len(c[2]) \in Nat /\ UsedBefore(c[1], c[2]) # {}

KprintfInit ==
    /\ mem = [b \in 0 .. 2 * Size - 1 |-> NUL]
    /\ place = "idle" /\ call \in Calls
    /\ ebx = 0 /\ ecx = 0 /\ used = 0 /\ edx = <<>> /\ at = 0
    /\ shown = <<>> /\ interrupted = FALSE /\ spoilt = FALSE /\ top = 0

-----------------------------------------------------------------------------
DigitChar == <<"0", "1", "2", "3", "4", "5", "6", "7", "8", "9", "A", "B", "C", "D", "E", "F">>

(* Division by ten gives the digits last first; the stack turns them. *)
itos(n) ==
    LET digits[m \in 0 .. n[2]] ==
          IF m < 10 THEN <<DigitChar[m + 1]>>
          ELSE Append(digits[m \div 10], DigitChar[(m % 10) + 1])
    IN  IF n[1] = "neg" THEN <<"-">> \o digits[n[2]] ELSE digits[n[2]]

(* The last two, four or all eight nibbles, the highest first. *)
Sixteens == <<1, 16, 256, 4096, 65536, 1048576, 16777216, 268435456>>
itox(n, type) ==
    LET width == CASE type = "b" -> 2 [] type = "s" -> 4 [] OTHER -> 8
    IN  [k \in 1 .. width |-> DigitChar[((n[2] \div Sixteens[width + 1 - k]) % 16) + 1]]

(* Four bytes into the buffer. *)
Mut_Store(bytes) ==
    /\ mem' = [mem EXCEPT ![ecx] = bytes[1]]
    /\ top' = IF ecx > top THEN ecx ELSE top
Store(bytes) ==
    /\ mem' = [b \in DOMAIN mem |-> IF b \in ecx .. ecx + 3 THEN bytes[b - ecx + 1] ELSE mem[b]]
    /\ top' = IF ecx + 3 > top THEN ecx + 3 ELSE top

kprintf(c) ==
    /\ place = "idle"
    /\ place' = "loopStr" /\ call' = c
    /\ ebx' = 1 /\ ecx' = 0 /\ used' = 0
    /\ shown' = <<>> /\ interrupted' = FALSE /\ spoilt' = FALSE /\ top' = 0
    /\ UNCHANGED <<mem, inserted>>

Here == ByteAt(format, ebx)
LoopAt(byte) == place = "loopStr" /\ Here = byte

normalChar ==
    /\ place = "loopStr" /\ Here \notin {"%", "\\", NUL}
    /\ Store(Dword(format, ebx))
    /\ ecx' = ecx + 1 /\ ebx' = ebx + 1
    /\ UNCHANGED <<place, call, used, inserted, shown, interrupted, spoilt>>

(* A backslash that the compiler left in the format. *)
Mut_specialStays ==
    /\ LoopAt("\\")
    /\ Store(<<IF ByteAt(format, ebx + 1) = "t" THEN "tab" ELSE "nl", NUL, NUL, NUL>>)
    /\ UNCHANGED <<place, call, ebx, ecx, used, inserted, shown, interrupted, spoilt>>
specialChar ==
    /\ LoopAt("\\")
    /\ Store(<<IF ByteAt(format, ebx + 1) = "t" THEN "tab" ELSE "nl", NUL, NUL, NUL>>)
    /\ ecx' = ecx + 1 /\ ebx' = ebx + 2
    /\ UNCHANGED <<place, call, used, inserted, shown, interrupted, spoilt>>

(* A directive and its argument: the character itself, a string, or a      *)
(* number to convert.  Any other letter stands for a character.            *)
arg ==
    LET letter == ByteAt(format, ebx + 1)
        value == args[used + 1]
    IN  /\ LoopAt("%")
        /\ used' = used + 1
        /\ UNCHANGED <<call, shown, interrupted, spoilt>>
        /\ \/ /\ letter \notin {"s", "x", "d", "i"}
              /\ Store(<<value[1], NUL, NUL, NUL>>)
              /\ ecx' = ecx + 1 /\ ebx' = ebx + 2
              /\ UNCHANGED <<place, inserted>>
           \/ /\ letter = "s"
              /\ place' = "addStr" /\ edx' = value /\ at' = 1
              /\ ebx' = ebx + 2
              /\ UNCHANGED <<mem, ecx, top>>
           \/ /\ letter \in {"x", "d", "i"}
              /\ place' = "convert" /\ at' = 1
              /\ edx' = IF letter = "x" THEN itox(value, ByteAt(format, ebx + 2)) ELSE itos(value)
              /\ ebx' = IF letter = "x" THEN ebx + 3 ELSE ebx + 2
              /\ UNCHANGED <<mem, ecx, top>>

(* mov edx, eax: the converted string's address leaves eax. *)
converted ==
    /\ place = "convert"
    /\ place' = "addStr"
    /\ UNCHANGED <<mem, call, ebx, ecx, used, inserted, shown, interrupted, spoilt, top>>

(* One character of the inserted string: the test comes after it. *)
Mut_addStr ==
    /\ place = "addStr"
    /\ Store(Dword(edx, at))
    /\ at' = at + 1 /\ ecx' = ecx + 1
    /\ place' = IF ByteAt(edx, at) = NUL THEN "loopStr" ELSE "addStr"
    /\ UNCHANGED <<call, ebx, used, edx, shown, interrupted, spoilt>>
addStr ==
    /\ place = "addStr"
    /\ Store(Dword(edx, at))
    /\ at' = at + 1 /\ ecx' = ecx + 1
    /\ place' = IF ByteAt(edx, at + 1) = NUL THEN "loopStr" ELSE "addStr"
    /\ UNCHANGED <<call, ebx, used, edx, shown, interrupted, spoilt>>

(* What puts prints: the bytes up to the first terminator. *)
Text(m) ==
    LET n == CHOOSE k \in DOMAIN m : m[k] = NUL /\ \A j \in 0 .. k - 1 : m[j] # NUL
    IN  [k \in 1 .. n |-> m[k - 1]]

done ==
    /\ LoopAt(NUL)
    /\ shown' = Text(mem)
    /\ place' = "idle"
    /\ UNCHANGED <<mem, call, ebx, ecx, used, inserted, interrupted, spoilt, top>>

(* irq1: keyboard calls kprintf ("%c", key) and puts; the key and three    *)
(* zero bytes stay in the buffer.  The stub leaves 0x20 in al, which       *)
(* matters while the address of a converted number is in eax: some other   *)
(* string is inserted, short or long.                                      *)
keyboard(key) ==
    /\ mem' = [b \in DOMAIN mem |-> IF b = 0 THEN key ELSE IF b \in 1 .. 3 THEN NUL ELSE mem[b]]
    /\ interrupted' = (interrupted \/ place # "idle")
    /\ IF place = "convert"
         THEN \E n \in {1, Size} : edx' = [k \in 1 .. n |-> Other] /\ spoilt' = TRUE
         ELSE UNCHANGED <<edx, spoilt>>
    /\ UNCHANGED <<place, call, ebx, ecx, used, at, shown, top>>

step == normalChar \/ specialChar \/ arg \/ converted \/ addStr \/ done

KprintfNext ==
    \/ \E c \in Calls : kprintf(c)
    \/ step
    \/ \E key \in Keys : keyboard(key)

(* The interrupted code goes on between interrupts. *)
KprintfSpec == KprintfInit /\ [][KprintfNext]_kprintfVars /\ WF_kprintfVars(step)

-----------------------------------------------------------------------------
(* The text that a format and its arguments stand for. *)
Formatted(f, a) ==
    LET from[k \in 1 .. Len(f) + 3] ==     \* ... from position k and argument n on
          [n \in 1 .. Len(a) + 1 |->
             CASE k > Len(f) -> <<>>
               [] k <= Len(f) /\ f[k] = "\\" ->
                    <<IF f[k + 1] = "t" THEN "tab" ELSE "nl">> \o from[k + 2][n]
               [] k <= Len(f) /\ f[k] = "%" ->
                    (CASE f[k + 1] \in {"c", "s"} -> a[n] \o from[k + 2][n + 1]
                       [] f[k + 1] = "x" -> itox(a[n], f[k + 2]) \o from[k + 3][n + 1]
                       [] OTHER -> itos(a[n]) \o from[k + 2][n + 1])
               [] OTHER -> <<f[k]>> \o from[k + 1][n]]
    IN  from[1][1]

(* No text is longer than the two buffers. *)
ASSUME TextsAssumption == \A c \in Calls : Len(Formatted(c[1], c[2])) < 2 * Size

Returned == place = "idle" /\ ebx # 0

(* %s of an empty string, whose terminator is copied before it is tested.  *)
InsertsEmpty == \E n \in 1 .. Len(args) : args[n] = <<>>

(* A call that no key interrupts and that inserts no empty string prints   *)
(* exactly the text its format stands for, whatever earlier calls and keys *)
(* have left in the buffer: the terminator that nobody writes is always    *)
(* there.                                                                  *)
FormatsString == Returned /\ ~interrupted /\ ~InsertsEmpty => shown = Formatted(format, args)

(* A text of at most Size - 3 characters stays inside printBuf, its last   *)
(* store included, also when keys come in between, as long as none of them *)
(* spoils the address of a converted number and no empty string makes the  *)
(* loop copy what lies behind it.                                          *)
StaysInBuffer ==
    ~spoilt /\ ~InsertsEmpty /\ Len(Formatted(format, args)) <= Size - 3 => top < Size

(* A call always comes to its end. *)
CallReturns == place # "idle" ~> place = "idle"

=============================================================================
