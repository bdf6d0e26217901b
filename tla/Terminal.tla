------------------------------ MODULE Terminal ------------------------------
(***************************************************************************)
(* What the text console of src/driver/vga.c promises: a page of NROW rows *)
(* of NCOL cells and a cursor.  The cursor is on a cell, or parked below   *)
(* the last row after a newline; the page scrolls by one row when a glyph  *)
(* is printed while the cursor is parked, and when a glyph fills the last  *)
(* cell.  Further newlines while parked change nothing.                    *)
(***************************************************************************)
EXTENDS Integers

CONSTANTS NCOL, NROW, Glyph, Blank

VARIABLES page,  \* [1..NROW -> [1..NCOL -> Glyph \cup {Blank}]]
          row,   \* 1..NROW, or NROW + 1 while parked
          col    \* 1..NCOL

vars == <<page, row, col>>

BlankRow == [k \in 1..NCOL |-> Blank]

ScrollUp(p) == [r \in 1..NROW |-> IF r < NROW THEN p[r + 1] ELSE BlankRow]

Init ==
    /\ page = [r \in 1..NROW |-> BlankRow]
    /\ row = 1
    /\ col = 1

Clear ==
    /\ page' = [r \in 1..NROW |-> BlankRow]
    /\ row' = 1
    /\ col' = 1

NewLine ==
    /\ row' = IF row > NROW THEN row ELSE row + 1
    /\ col' = 1
    /\ UNCHANGED page

Return ==
    /\ col' = 1
    /\ UNCHANGED <<page, row>>

\* Where the next glyph goes, and the page it goes on.
PutRow  == IF row > NROW THEN NROW ELSE row
PutPage == IF row > NROW THEN ScrollUp(page) ELSE page

Written(g) == [PutPage EXCEPT ![PutRow][col] = g]

Put(g) ==
    \/ /\ col < NCOL
       /\ page' = Written(g)
       /\ row' = PutRow
       /\ col' = col + 1
    \/ /\ col = NCOL
       /\ PutRow < NROW
       /\ page' = Written(g)
       /\ row' = PutRow + 1
       /\ col' = 1
    \/ /\ col = NCOL
       /\ PutRow = NROW
       /\ page' = ScrollUp(Written(g))
       /\ row' = NROW
       /\ col' = 1

Next == Clear \/ NewLine \/ Return \/ \E g \in Glyph : Put(g)

Spec == Init /\ [][Next]_vars
=============================================================================
