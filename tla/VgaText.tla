------------------------------ MODULE VgaText -------------------------------
(***************************************************************************)
(* The text console of src/driver/vga.c, one action per character written  *)
(* (write_char) and one for clrscr.  No interrupt arrives inside           *)
(* write_char here.                                                        *)
(*                                                                         *)
(* Video memory is a function on cells (a cell is the character byte and   *)
(* the attribute byte that follows it), so a cell number is half the byte  *)
(* offset of the code.  Its domain is everything two uint8_t coordinates   *)
(* can address, not only the screen.                                       *)
(***************************************************************************)
EXTENDS Integers

CONSTANTS NCOL,    \* columns (80)
          NROW,    \* rows (25)
          U8,      \* number of values of a uint8_t (256)
          Glyph,   \* coloured printable characters
          Blank,   \* the space with attribute 0 that clears a cell
          MaxRow   \* the callers never push the row past this by newlines

\* 2 * NCOL < U8 is what ends the blanking loop of handle_scrolling, whose
\* counter is a uint8_t; NROW < U8 ends its copying loop.
ASSUME VgaAssumption ==
    /\ NCOL \in Nat \ {0}
    /\ NROW \in Nat \ {0}
    /\ U8 \in Nat
    /\ 2 * NCOL < U8
    /\ NROW < U8
    /\ MaxRow \in NROW .. U8 - 1
    /\ Blank \notin Glyph

VARIABLE con   \* the globals x and y, and video memory

vars == con

-----------------------------------------------------------------------------

get_address(cx, cy) == cx + cy * NCOL

Cells   == 0 .. get_address(U8 - 1, U8 - 1)
Screen  == 0 .. NROW * NCOL - 1
Memory  == [Cells -> Glyph \cup {Blank}]
Console == [x : 0 .. NCOL - 1, y : 0 .. U8 - 1, mem : Memory]

\* A copy that runs one row short: the row above the last keeps its text.
ScrolledShort(m) ==
    [c \in Cells |-> IF c < (NROW - 2) * NCOL THEN m[c + NCOL]
                     ELSE IF c \in (NROW - 1) * NCOL .. NROW * NCOL - 1 THEN Blank
                     ELSE m[c]]

\* The loops of handle_scrolling: every row moves up by one, the last is blank.
Scrolled(m) ==
    [c \in Cells |-> IF c < (NROW - 1) * NCOL THEN m[c + NCOL]
                     ELSE IF c < NROW * NCOL  THEN Blank
                     ELSE m[c]]

\* An off-by-one in the test for "past the last row".
handle_scrolling_off_by_one(s) ==
    IF s.y <= NROW THEN s
    ELSE [x |-> 0, y |-> NROW - 1, mem |-> Scrolled(s.mem)]

handle_scrolling(s) ==
    IF s.y < NROW THEN s
    ELSE [x |-> 0, y |-> NROW - 1, mem |-> Scrolled(s.mem)]

\* Advancing the column without carrying into the row.
put_cell_at_edge(s, g) ==
    [x |-> s.x + 1, y |-> s.y, mem |-> [s.mem EXCEPT ![get_address(s.x, s.y)] = g]]

\* The store and the update of the globals x and y: the offset after the
\* stored cell, split into row and column.
put_cell(s, g) ==
    LET offset == get_address(s.x, s.y) + 1
    IN  [x   |-> offset % NCOL,
         y   |-> (offset \div NCOL) % U8,
         mem |-> [s.mem EXCEPT ![get_address(s.x, s.y)] = g]]

-----------------------------------------------------------------------------

Init == con = [x |-> 0, y |-> 0, mem |-> [c \in Cells |-> Blank]]

\* A loop that counts bytes but ends at the number of cells.
clrscr_half ==
    con' = [x |-> 0, y |-> 0,
            mem |-> [c \in Cells |-> IF 2 * c < NROW * NCOL THEN Blank ELSE con.mem[c]]]

clrscr ==
    con' = [x |-> 0, y |-> 0,
            mem |-> [c \in Cells |-> IF c \in Screen THEN Blank ELSE con.mem[c]]]

\* A newline that leaves the column where it is.
newline_keeps_x == con' = [x |-> con.x, y |-> (con.y + 1) % U8, mem |-> con.mem]

newline ==
    /\ con.y < MaxRow
    /\ con' = [x |-> 0, y |-> (con.y + 1) % U8, mem |-> con.mem]

carriage_return == con' = [x |-> 0, y |-> con.y, mem |-> con.mem]

write_glyph(g) == con' = handle_scrolling(put_cell(handle_scrolling(con), g))

Next == clrscr \/ newline \/ carriage_return \/ \E g \in Glyph : write_glyph(g)

Spec == Init /\ [][Next]_vars

-----------------------------------------------------------------------------
(* Properties *)

\* The coordinates stay uint8_t values on a column of the screen, and video
\* memory holds characters.
TypeOK == con \in Console

\* handle_scrolling resets x whenever it scrolls.  That loses no column only
\* because x is already 0 whenever y is past the last row, on every path of
\* write_char that takes it there.
ParkedAtColumnZero == con.y >= NROW => con.x = 0

\* Nothing is ever stored outside the NROW * NCOL cells of the screen, although
\* newlines move y past the last row without scrolling.
OffscreenUntouched ==
    [][\A c \in Cells \ Screen : con'.mem[c] = con.mem[c]]_vars

\* Every row below the cursor's is blank, so a line printed after a newline
\* never mixes with older text.
BelowIsBlank == \A c \in Screen : c >= (con.y + 1) * NCOL => con.mem[c] = Blank

\* The console behaves as the page of module Terminal: linear cells with
\* division and remainder implement rows and columns, the row copies a scroll.
Term == INSTANCE Terminal WITH
            page <- [r \in 1..NROW |-> [k \in 1..NCOL |-> con.mem[get_address(k - 1, r - 1)]]],
            row  <- IF con.y < NROW THEN con.y + 1 ELSE NROW + 1,
            col  <- con.x + 1

ImplementsTerminal == Term!Spec
=============================================================================
