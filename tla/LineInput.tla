----------------------------- MODULE LineInput ------------------------------
(***************************************************************************)
(* The keyboard interrupt handler of keyboard.c and the readers getch and  *)
(* getstr of input.c, which share the page at 0xD0000000: byte 0 counts    *)
(* keys, byte 1 is the request flag (1: a reader wants a line, 2: Enter    *)
(* was pressed), the characters follow.  The handler runs with interrupts  *)
(* off, so it is one step; a reader is interrupted between any two of its  *)
(* accesses.  irq1 returns with al = 0x20, so a key that comes between a   *)
(* reader's load of a character and its use makes it see a space.          *)
(***************************************************************************)
EXTENDS Naturals, Sequences, SequencesExt

CONSTANT CounterMod     \* values of the uint8 key counter (256)

ASSUME CounterModAssumption == CounterMod \in Nat \ {0}

NUL == "nul"
NL == "nl"
Space == "space"
Junk == "junk"          \* what the caller's buffer held before the call

(* The keys: a character, Enter, Backspace, and one whose scan code (0x3A  *)
(* to 0x57) lies past the end of the tables, where any byte may follow: a  *)
(* newline, which getstr tells apart, or another.  The two tables differ   *)
(* in the characters only, so the state of the shift keys is left out.     *)
Keys == {"character", "enter", "backspace", "pastTable"}

Cell == 0 .. CounterMod - 1

VARIABLES
    counter,            \* input[0]
    flag,               \* input[1]
    cells,              \* input[2] onward
    reader,             \* where getch / getstr is: "out", "wait", "copy", "struck" with a
                        \* space in al, "lost" when it has run past the characters
    call,               \* the reader's latest call
    i,                  \* getstr's i, less 2
    buf,                \* the caller's buffer (getch: its first byte)
    ahead,              \* history: counter when the request was made
    typed,              \* history: the line edited since the request
    wrapped,            \* history: counter wrapped since the request
    struck              \* history: a key came between a load and its use

driver == <<counter, flag, cells>>
request == <<call, i, buf, ahead, struck>>
inputVars == <<driver, reader, request, typed, wrapped>>

(* allocPage cleared the page. *)
InputInit ==
    /\ counter = 0 /\ flag = 0
    /\ cells = [c \in Cell |-> NUL]
    /\ reader = "out" /\ call = "none" /\ i = 0
    /\ buf = [c \in 0 .. CounterMod |-> Junk]
    /\ ahead = 0 /\ typed = <<>> /\ wrapped = FALSE /\ struck = FALSE

-----------------------------------------------------------------------------
(* The bytes the scan code tables may give for a key.  Backspace is '0'.   *)
scancodes == [character |-> {"a"}, enter |-> {NL}, backspace |-> {"0"}, pastTable |-> {NL, NUL}]

(* Backspace with keys counted: forget one. *)
Mut_keyboardBackspace ==
    /\ counter' = (counter + CounterMod - 1) % CounterMod
    /\ typed' = IF flag = 1 /\ typed # <<>> THEN Front(typed) ELSE typed
    /\ UNCHANGED <<flag, cells, wrapped>>
keyboardBackspace ==
    /\ counter # 0
    /\ counter' = counter - 1
    /\ typed' = IF flag = 1 /\ typed # <<>> THEN Front(typed) ELSE typed
    /\ UNCHANGED <<flag, cells, wrapped>>

(* Any other key press.  The key is counted even when nobody asked for it. *)
Mut_keyboardKey(key) ==
    /\ ~(key = "backspace" /\ counter # 0)
    /\ \E code \in scancodes[key] :
        /\ cells' = [cells EXCEPT ![counter] = code]
        /\ typed' = IF flag = 1 /\ ~wrapped THEN Append(typed, code) ELSE typed
    /\ counter' = IF key = "enter" THEN 0 ELSE (counter + 1) % CounterMod
    /\ flag' = IF key = "enter" THEN 2 ELSE flag
    /\ wrapped' = (wrapped \/ (flag = 1 /\ key # "enter" /\ counter + 1 = CounterMod))
keyboardKey(key) ==
    /\ ~(key = "backspace" /\ counter # 0)
    /\ \E code \in scancodes[key] :
        /\ cells' = IF flag = 1 THEN [cells EXCEPT ![counter] = code] ELSE cells
        /\ typed' = IF flag = 1 /\ ~wrapped THEN Append(typed, code) ELSE typed
    /\ counter' = IF key = "enter" THEN 0 ELSE (counter + 1) % CounterMod
    /\ flag' = IF key = "enter" THEN 2 ELSE flag
    /\ wrapped' = (wrapped \/ (flag = 1 /\ key # "enter" /\ counter + 1 = CounterMod))

(* The interrupt may find a character in al. *)
InAl == reader = "copy" \/ (reader = "wait" /\ flag = 2 /\ call = "getch")
keyboard ==
    /\ keyboardBackspace \/ \E key \in Keys : keyboardKey(key)
    /\ \/ UNCHANGED reader
       \/ InAl /\ reader' = "struck"
    /\ UNCHANGED request

-----------------------------------------------------------------------------
(* getch and getstr begin by asking for a line. *)
Mut_askForLine(function, buffer) ==
    /\ reader = "out"
    /\ reader' = "wait"
    /\ call' = function
    /\ flag' = IF flag = 0 THEN 1 ELSE flag
    /\ i' = 0
    /\ buf' = buffer
    /\ ahead' = counter /\ typed' = <<>> /\ wrapped' = FALSE /\ struck' = FALSE
    /\ UNCHANGED <<counter, cells>>
askForLine(function, buffer) ==
    /\ reader = "out"
    /\ reader' = "wait"
    /\ call' = function
    /\ flag' = 1
    /\ i' = 0
    /\ buf' = buffer
    /\ ahead' = counter /\ typed' = <<>> /\ wrapped' = FALSE /\ struck' = FALSE
    /\ UNCHANGED <<counter, cells>>

(* The busy wait has seen the flag. *)
getchReturn ==
    /\ call = "getch"
    /\ \/ reader = "wait" /\ flag = 2 /\ buf' = [buf EXCEPT ![0] = cells[0]] /\ UNCHANGED struck
       \/ reader = "struck" /\ buf' = [buf EXCEPT ![0] = Space] /\ struck' = TRUE
    /\ reader' = "out"
    /\ UNCHANGED <<driver, call, i, ahead, typed, wrapped>>

getstrWoken ==
    /\ reader = "wait" /\ call = "getstr" /\ flag = 2
    /\ reader' = "copy"
    /\ UNCHANGED <<driver, request, typed, wrapped>>

(* One iteration of the copy loop: the load that is tested and the load    *)
(* that is stored.  The space of a key in between is no newline and may be *)
(* what is stored.                                                         *)
Copy(code) ==
    /\ buf' = [buf EXCEPT ![i] = code]
    /\ i' = i + 1
    /\ reader' = IF i + 1 \in Cell THEN "copy" ELSE "lost"
    /\ UNCHANGED <<driver, call, ahead, typed, wrapped>>
getstrCopy ==
    \/ reader = "copy" /\ cells[i] # NL /\ Copy(cells[i]) /\ UNCHANGED struck
    \/ reader = "struck" /\ call = "getstr" /\ struck' = TRUE
       /\ \E code \in {cells[i], Space} : Copy(code)

(* The newline: the terminator goes to inputBuf, not to the buffer. *)
getstrReturn ==
    /\ reader = "copy" /\ cells[i] = NL
    /\ cells' = [cells EXCEPT ![i] = NUL]
    /\ reader' = "out"
    /\ UNCHANGED <<counter, flag, request, typed, wrapped>>

readerStep == getchReturn \/ getstrWoken \/ getstrCopy \/ getstrReturn

-----------------------------------------------------------------------------
(* getstr's unbounded search for the newline stops inside the characters:  *)
(* while it copies, a newline lies at or after i, however many keys arrive *)
(* in the meantime, and also after the counter has wrapped, unless a key   *)
(* hid one from it.                                                        *)
NewlineAhead ==
    /\ reader \in {"copy", "struck"} /\ call = "getstr" /\ ~struck =>
         \E c \in i .. CounterMod - 1 : cells[c] = NL
    /\ reader = "wait" /\ flag = 2 => \E c \in Cell : cells[c] = NL
    /\ reader = "lost" => struck

(* The part of the edited line before its first newline. *)
FirstLine(s) ==
    LET n == CHOOSE k \in 0 .. Len(s) :
               /\ \A j \in 1 .. k : s[j] # NL
               /\ k < Len(s) => s[k + 1] = NL
    IN  SubSeq(s, 1, n)

Returned(function) == reader = "out" /\ call = function

(* A line asked for when no key was counted, and of fewer than CounterMod  *)
(* keys, is returned as typed: each backspace took out the character       *)
(* before it, and nothing of an earlier line or of keys pressed after      *)
(* Enter is in it, unless one of those came between a load and its use.    *)
LineAsTyped ==
    ahead = 0 /\ ~wrapped /\ ~struck =>
      /\ Returned("getstr") =>
           /\ i = Len(FirstLine(typed))
           /\ \A c \in 1 .. i : buf[c - 1] = typed[c]
      /\ Returned("getch") => buf[0] = typed[1]

(* After Enter a waiting reader returns, whatever else is typed, unless a  *)
(* key between a load and its use has made it run past the newline.        *)
ReaderReturns == reader = "wait" /\ flag = 2 ~> reader = "out" \/ (reader = "lost" /\ struck)

=============================================================================
