------------------------------- MODULE Screen -------------------------------
(***************************************************************************)
(* The text screen of screen.asm: puts, one step per character, backspace, *)
(* setTextColor and updateCursor, from the state initScreen leaves.  puts  *)
(* runs with interrupts off and backspace is called from the keyboard      *)
(* interrupt, so neither meets the other half done.  A cell holds its      *)
(* colour, which stands for the character in it, or Blank; cells are       *)
(* numbered from 0xB8000 in units of two bytes.                            *)
(*                                                                         *)
(* The cell to write next is kept twice: as an address (edi) and as the    *)
(* column bl and row screen_text_y from which the next call recomputes it. *)
(* A tab moves the address only, and a backspace in column 0 wraps the     *)
(* column; astray records that the two records may differ, from there to   *)
(* the point where both are set afresh.  Memory behind the screen is not   *)
(* modelled: nothing reads it, the scroll included.                        *)
(***************************************************************************)
EXTENDS Naturals, Sequences

CONSTANTS
    Rows, Cols,         \* 25 and 80
    TabWidth,           \* 8
    ByteMod,            \* values of a byte register (256)
    Colors,             \* values of text_color
    MaxString,          \* bound: characters in one call of puts
    MaxKeys             \* bound: keys echoed since Enter

ASSUME ScreenAssumption ==
    /\ Rows \in Nat \ {0} /\ Cols \in Nat \ {0} /\ TabWidth \in Nat \ {0}
    /\ ByteMod \in Nat /\ Cols + 1 < ByteMod /\ MaxString \in Nat /\ MaxKeys \in Nat
    /\ 0 \notin Colors

Blank == 0
Chars == {"c", "nl", "tab"}
Strings == UNION {[1 .. n -> Chars] : n \in 1 .. MaxString}

VARIABLES
    vga,                \* video memory: the cells of the screen
    screen_text_x, screen_text_y, text_color,
    pc,                 \* "idle" or "print" (inside puts)
    str,                \* esi: what puts has still to print
    edi,                \* the cell the next character goes to
    bl,                 \* the column register
    cursor,             \* the position in the CRT controller
    isKey,              \* puts was called to echo a key
    keys,               \* the keyboard's input[0]: keys since Enter
    astray              \* history: a tab or a wrap has parted edi from bl

vars == <<vga, screen_text_x, screen_text_y, text_color, pc, str, edi, bl,
          cursor, isKey, keys, astray>>

VgaCells == 0 .. Rows * Cols - 1
Written(cell, value) == [c \in VgaCells |-> IF c = cell THEN value ELSE vga[c]]

(* initScreen and clearScreen.  _kmain then sets a colour. *)
Init ==
    /\ vga = [c \in VgaCells |-> Blank]
    /\ screen_text_x = 0 /\ screen_text_y = 0
    /\ text_color \in Colors
    /\ pc = "idle" /\ str = <<>> /\ edi = 0 /\ bl = 0
    /\ cursor = 0
    /\ isKey = FALSE /\ keys = 0 /\ astray = FALSE

-----------------------------------------------------------------------------
puts(s, key) ==
    /\ pc = "idle"
    /\ str' = s
    /\ edi' = screen_text_y * Cols + screen_text_x
    /\ bl' = screen_text_x
    /\ pc' = "print"
    /\ isKey' = key
    /\ UNCHANGED <<vga, screen_text_x, screen_text_y, text_color, cursor, keys, astray>>

Printing(ch) == pc = "print" /\ str # <<>> /\ Head(str) = ch

(* A character finds its row full. *)
Mut_RowFull == FALSE
RowFull == bl # 0 /\ edi % Cols = 0

(* The keyboard handler counts the key it echoes. *)
KeyCounted == keys' = IF isKey THEN keys + 1 ELSE keys

putsChar ==
    /\ Printing("c") /\ ~RowFull
    /\ vga' = Written(edi, text_color)
    /\ edi' = edi + 1
    /\ bl' = (bl + 1) % ByteMod
    /\ str' = Tail(str)
    /\ KeyCounted
    /\ UNCHANGED <<screen_text_x, screen_text_y, text_color, pc, cursor, isKey, astray>>

(* A newline, or a character in a full row: it is dropped. *)
AtNewLine ==
    /\ \/ Printing("nl") /\ keys' = IF isKey THEN 0 ELSE keys
       \/ Printing("c") /\ RowFull /\ KeyCounted
    /\ str' = Tail(str)
    /\ screen_text_x' = 0 /\ bl' = 0

putsNewLine ==
    /\ AtNewLine
    /\ screen_text_y # Rows - 1
    /\ screen_text_y' = screen_text_y + 1
    /\ edi' = edi + Cols - bl
    /\ UNCHANGED <<vga, text_color, pc, cursor, isKey, astray>>

(* On the last row everything moves up by a row, and the last is cleared.  *)
Mut_scrollScreen ==
    /\ AtNewLine
    /\ screen_text_y = Rows - 1
    /\ vga' = [c \in VgaCells |->
                 IF c < (Rows - 1) * Cols THEN vga[c + Cols] ELSE vga[c]]
    /\ edi' = (Rows - 1) * Cols /\ astray' = FALSE
    /\ UNCHANGED <<screen_text_y, text_color, pc, cursor, isKey>>
scrollScreen ==
    /\ AtNewLine
    /\ screen_text_y = Rows - 1
    /\ vga' = [c \in VgaCells |->
                 IF c < (Rows - 1) * Cols THEN vga[c + Cols] ELSE Blank]
    /\ edi' = (Rows - 1) * Cols /\ astray' = FALSE
    /\ UNCHANGED <<screen_text_y, text_color, pc, cursor, isKey>>

(* A tab moves the address and screen_text_x, not bl. *)
putsTab ==
    /\ Printing("tab")
    /\ screen_text_x' = (screen_text_x + TabWidth) % ByteMod
    /\ edi' = edi + TabWidth
    /\ str' = Tail(str)
    /\ KeyCounted
    /\ astray' = TRUE
    /\ UNCHANGED <<vga, screen_text_y, text_color, pc, bl, cursor, isKey>>

updateCursor == cursor' = screen_text_y * Cols + screen_text_x'

(* popad ends the life of the registers. *)
putsDone ==
    /\ pc = "print" /\ str = <<>>
    /\ screen_text_x' = bl
    /\ updateCursor
    /\ pc' = "idle" /\ isKey' = FALSE
    /\ edi' = 0 /\ bl' = 0
    /\ astray' = (bl > Cols)
    /\ UNCHANGED <<vga, screen_text_y, text_color, str, keys>>

putsStep == putsChar \/ putsNewLine \/ scrollScreen \/ putsTab \/ putsDone

(* The keyboard handler calls it while its key counter is not zero.  The   *)
(* address uses the byte that dec bl leaves.                               *)
backspace ==
    LET x == (screen_text_x + ByteMod - 1) % ByteMod
    IN  /\ pc = "idle" /\ keys # 0
        /\ screen_text_x' = x
        /\ vga' = Written(screen_text_y * Cols + x, Blank)
        /\ updateCursor
        /\ astray' = (x > Cols)
        /\ keys' = keys - 1
        /\ UNCHANGED <<screen_text_y, text_color, pc, str, edi, bl, isKey>>

setTextColor(color) ==
    /\ pc = "idle"
    /\ text_color' = color
    /\ UNCHANGED <<vga, screen_text_x, screen_text_y, pc, str, edi, bl, cursor,
                   isKey, keys, astray>>

Next ==
    \/ \E s \in Strings : puts(s, FALSE) \/ (Len(s) = 1 /\ keys < MaxKeys /\ puts(s, TRUE))
    \/ putsStep
    \/ backspace
    \/ \E color \in Colors : setTextColor(color)

Spec == Init /\ [][Next]_vars

-----------------------------------------------------------------------------
(* The two records of the position agree at every character, through       *)
(* wrapping, scrolling and strings that start on a full row: the address   *)
(* is the cell in column bl of row screen_text_y, and the column never     *)
(* passes the end of the row, so that no character is written behind the   *)
(* last row.  A tab or a backspace in column 0 parts the two, but not for  *)
(* longer than the call, or until the column wraps back.                   *)
AddressIsPosition ==
    /\ pc = "print" /\ ~astray => edi = screen_text_y * Cols + bl /\ bl <= Cols
    /\ Printing("c") /\ ~RowFull /\ ~astray => edi \in VgaCells
    /\ pc = "idle" => cursor = screen_text_y * Cols + screen_text_x
    /\ pc = "idle" /\ ~astray => screen_text_x <= Cols

Shown == INSTANCE Terminal WITH
    display <- [r \in 0 .. Rows - 1 |-> [c \in 0 .. Cols - 1 |-> vga[r * Cols + c]]],
    row <- screen_text_y,
    col <- IF pc = "print" THEN bl ELSE screen_text_x,
    color <- text_color,
    lost <- astray

(* What the memory shows is a terminal: a character changes the cell under *)
(* the cursor and no other, scrolling moves whole rows, and erasing takes  *)
(* the cell before the cursor.                                             *)
IsTerminal == Shown!Spec

=============================================================================
