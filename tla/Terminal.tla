------------------------------ MODULE Terminal ------------------------------
(***************************************************************************)
(* What screen.asm promises its callers: a display of Rows rows of Cols    *)
(* cells and a cursor.  A character goes to the cursor's cell, a new line  *)
(* moves the cursor to the start of the next row or scrolls, and erasing   *)
(* blanks the cell before the cursor.  A tab, or erasing at the start of a *)
(* row, loses the cursor: until it is found again nothing is promised.     *)
(***************************************************************************)
EXTENDS Naturals

CONSTANTS Rows, Cols, Colors, Blank

VARIABLES
    display,            \* the cells, [row][column]
    row, col,           \* the cursor; col = Cols: the row is full
    color,
    lost                \* the cursor is lost

vars == <<display, row, col, color, lost>>

BlankRow == [c \in 0 .. Cols - 1 |-> Blank]

Init ==
    /\ display = [r \in 0 .. Rows - 1 |-> BlankRow]
    /\ row = 0 /\ col = 0
    /\ color \in Colors
    /\ lost = FALSE

Put ==
    /\ col < Cols
    /\ display' = [display EXCEPT ![row][col] = color]
    /\ col' = col + 1
    /\ UNCHANGED <<row, color>>

NewLine ==
    /\ col' = 0
    /\ UNCHANGED color
    /\ \/ row < Rows - 1 /\ row' = row + 1 /\ UNCHANGED display
       \/ /\ row = Rows - 1
          /\ display' = [r \in 0 .. Rows - 1 |->
                            IF r < Rows - 1 THEN display[r + 1] ELSE BlankRow]
          /\ UNCHANGED row

Erase ==
    /\ col \in 1 .. Cols
    /\ display' = [display EXCEPT ![row][col - 1] = Blank]
    /\ col' = col - 1
    /\ UNCHANGED <<row, color>>

SetColor ==
    /\ color' \in Colors
    /\ UNCHANGED <<display, row, col>>

Stray == lost \/ lost'

Next == (~lost' /\ (Put \/ NewLine \/ Erase \/ SetColor)) \/ Stray

Spec == Init /\ [][Next]_vars

=============================================================================
