------------------------------ MODULE VgaSteps ------------------------------
(***************************************************************************)
(* write_char of src/driver/vga.c access by access, while interrupts       *)
(* arrive whose handler prints (generic_handler of src/kernel/idt.c always *)
(* does).  The handler runs with interrupts off, so it prints with the     *)
(* atomic operators of VgaText.                                            *)
(*                                                                         *)
(* The build does not optimise: every byte the code copies or increments   *)
(* goes through AL, where the stub of src/kernel/interrupts.asm leaves     *)
(* 0x20 when it returns.  Not followed: the addresses get_address computes *)
(* in EAX.  copy_memory of a row, and the two bytes of a cell, are one     *)
(* access each.                                                            *)
(***************************************************************************)
EXTENDS Integers

CONSTANTS NCOL, NROW, U8, Glyph, Blank, MaxRow,  \* as in VgaText
          NL, CR,         \* the characters \n and \r
          Space,          \* character 0x20 in the colours being printed
          Notice,         \* what an interrupt handler prints
          EOI,            \* 0x20 as a number
          MaxChars,       \* bound on the characters printed
          MaxInterrupts   \* bound on the interrupts taken

\* The conditions VgaText states, and that the registers hold 0x20 where the
\* code has a screen of 25 rows of 80 cells.
ASSUME StepsAssumption ==
    /\ NCOL \in Nat \ {0} /\ NROW \in Nat \ {0, 1} /\ U8 \in Nat
    /\ 2 * NCOL < U8 /\ NROW < U8 /\ MaxRow \in NROW .. U8 - 1
    /\ Blank \notin Glyph
    /\ {Space, Notice} \subseteq Glyph
    /\ NL # CR /\ {NL, CR} \cap (Glyph \cup {Blank}) = {}
    /\ EOI \in Nat /\ NROW < EOI /\ EOI < NCOL /\ EOI <= MaxRow /\ EOI % 2 = 0
    /\ MaxChars \in Nat /\ MaxInterrupts \in Nat

VARIABLES con,      \* the globals x and y, and video memory
          pc,       \* the next access of write_char
          al,       \* the register
          c,        \* the character being written
          yy, xx,   \* the copies handle_scrolling keeps
          i,        \* the uint8_t its two loops count with
          row,      \* the second argument of get_address
          cell,     \* the cell it returns
          ret,      \* where handle_scrolling returns to
          before,   \* the console when write_char was called (history)
          spoiled,  \* an interrupt came since (history)
          chars, taken

locals == <<c, yy, xx, i, row, cell, ret>>
vars   == <<con, pc, al, locals, before, spoiled, chars, taken>>

\* The console as a caller of write_char sees it.
Console == IF pc = "ready" THEN con ELSE before

Vga == INSTANCE VgaText WITH con <- Console

-----------------------------------------------------------------------------

\* A console with text up to the cursor, which is near an end of one of the last
\* rows, or parked below them.
Init ==
    /\ \E px \in {0, NCOL - 2, NCOL - 1}, py \in NROW - 2 .. NROW :
           /\ py = NROW => px = 0
           /\ con = [x |-> px, y |-> py,
                     mem |-> [a \in Vga!Cells |-> IF a < Vga!get_address(px, py)
                                                  THEN Space ELSE Blank]]
    /\ pc = "ready" /\ al = 0 /\ c = Space
    /\ yy = 0 /\ xx = 0 /\ i = 0 /\ row = 0 /\ cell = 0 /\ ret = "ready"
    /\ before = con /\ spoiled = FALSE /\ chars = 0 /\ taken = 0

-----------------------------------------------------------------------------
(* Single accesses. *)

Step(from, to) == pc = from /\ pc' = to /\ UNCHANGED <<before, spoiled, chars, taken>>

Load(byte, from, to)   == Step(from, to) /\ al' = byte /\ UNCHANGED <<con, locals>>
StoreY(byte, from, to) == Step(from, to) /\ con' = [con EXCEPT !.y = byte] /\ UNCHANGED <<al, locals>>
StoreX(byte, from, to) == Step(from, to) /\ con' = [con EXCEPT !.x = byte] /\ UNCHANGED <<al, locals>>
Jump(from, to)         == Step(from, to) /\ UNCHANGED <<con, al, locals>>

-----------------------------------------------------------------------------
(* handle_scrolling *)

\* The test of handle_scrolling left out.
PastEnd_never(y) == FALSE

PastEnd(y) == y >= NROW

\* The test, and the copies of the coordinates.
enter_scrolling ==
    \/ /\ \E from \in {"scroll_1", "scroll_2"} :
              /\ Step(from, "test")
              /\ ret' = IF from = "scroll_1" THEN "load_y" ELSE "ready"
       /\ al' = con.y
       /\ UNCHANGED <<con, c, yy, xx, i, row, cell>>
    \/ Jump("test", ret) /\ ~PastEnd(al)
    \/ Jump("test", "copy_y") /\ PastEnd(al)
    \/ Load(con.y, "copy_y", "save_y")
    \/ Step("save_y", "copy_x") /\ yy' = al /\ UNCHANGED <<con, al, c, xx, i, row, cell, ret>>
    \/ Load(con.x, "copy_x", "save_x")
    \/ Step("save_x", "move") /\ xx' = al /\ i' = 1 /\ UNCHANGED <<con, al, c, yy, row, cell, ret>>

RowMoved(m, r) ==
    [a \in Vga!Cells |-> IF (r - 1) * NCOL <= a /\ a < r * NCOL THEN m[a + NCOL] ELSE m[a]]

\* The loop that moves the rows up, and the coordinates put back after it.
move_rows ==
    \/ /\ i < NROW /\ Step("move", "next_row")
       /\ con' = [con EXCEPT !.mem = RowMoved(@, i)] /\ al' = i + 1
       /\ UNCHANGED locals
    \/ /\ Step("next_row", "move") /\ i' = al
       /\ UNCHANGED <<con, al, c, yy, xx, row, cell, ret>>
    \/ i >= NROW /\ Load(yy, "move", "restore_y")
    \/ StoreY(al, "restore_y", "reload_x")
    \/ Load(xx, "reload_x", "restore_x")
    \/ /\ Step("restore_x", "blank") /\ i' = 0
       /\ con' = [con EXCEPT !.x = al]
       /\ UNCHANGED <<al, c, yy, xx, row, cell, ret>>

\* The bytes of a row, counted as cells.
RowBytes_cells == NCOL

RowBytes == NCOL * 2

\* The byte counter without its increment.
NextByte_stuck(b) == b

NextByte(b) == (b + 2) % U8

\* The loop that blanks the last row, and the new position.
blank_last_row ==
    \/ /\ i < RowBytes /\ Step("blank", "next_cell")
       /\ con' = [con EXCEPT !.mem[Vga!get_address(i \div 2, NROW - 1)] = Blank]
       /\ al' = NextByte(i)
       /\ UNCHANGED locals
    \/ /\ Step("next_cell", "blank") /\ i' = al
       /\ UNCHANGED <<con, al, c, yy, xx, row, cell, ret>>
    \/ i >= RowBytes /\ StoreX(0, "blank", "last_row")
    \/ StoreY(NROW - 1, "last_row", ret)

handle_scrolling == enter_scrolling \/ move_rows \/ blank_last_row

-----------------------------------------------------------------------------
(* write_char *)

\* The argument is on its way to the local variable.
call_write_char ==
    /\ pc = "ready" /\ pc' = "keep"
    /\ chars < MaxChars /\ chars' = chars + 1
    /\ al' \in Glyph \cup {CR} \cup (IF con.y < MaxRow THEN {NL} ELSE {})
    /\ before' = con /\ spoiled' = FALSE
    /\ UNCHANGED <<con, locals, taken>>

keep_char ==
    /\ Step("keep", CASE al = NL -> "inc_y" [] al = CR -> "zero_x" [] OTHER -> "scroll_1")
    /\ c' = al
    /\ UNCHANGED <<con, al, yy, xx, i, row, cell, ret>>

newline ==
    \/ Load((con.y + 1) % U8, "inc_y", "store_y")
    \/ StoreY(al, "store_y", "zero_x")

\* Also the last assignment of a newline.
carriage_return == StoreX(0, "zero_x", "ready")

store_cell ==
    \/ Load(con.y, "load_y", "take_row")
    \/ /\ Step("take_row", "take_column") /\ row' = al /\ al' = con.x
       /\ UNCHANGED <<con, c, yy, xx, i, cell, ret>>
    \/ /\ Step("take_column", "store") /\ cell' = Vga!get_address(al, row)
       /\ UNCHANGED <<con, al, c, yy, xx, i, row, ret>>
    \/ /\ Step("store", "split_y")
       /\ con' = [con EXCEPT !.mem[cell] = c]
       /\ UNCHANGED <<al, locals>>

\* The column left where it was counted, not reduced.
ColumnAfter_unreduced(a) == a % U8

ColumnAfter(a) == a % NCOL

split_offset ==
    \/ Load(((cell + 1) \div NCOL) % U8, "split_y", "set_y")
    \/ StoreY(al, "set_y", "split_x")
    \/ Load(ColumnAfter(cell + 1), "split_x", "set_x")
    \/ StoreX(al, "set_x", "scroll_2")

write_char ==
    call_write_char \/ keep_char \/ newline \/ carriage_return \/ store_cell \/ split_offset

-----------------------------------------------------------------------------
(* Interrupts *)

\* One line of the handler: a message, and the newline of println.
Printed(s) ==
    LET line == Vga!handle_scrolling(Vga!put_cell(Vga!handle_scrolling(s), Notice))
    IN  [x |-> 0, y |-> (line.y + 1) % U8, mem |-> line.mem]

\* generic_handler prints one line or two; the stub leaves 0x20 in AL.
interrupt ==
    /\ taken < MaxInterrupts /\ taken' = taken + 1
    /\ con' \in {Printed(con), Printed(Printed(con))}
    /\ al' = IF pc = "keep" THEN Space ELSE EOI
    /\ spoiled' = TRUE
    /\ UNCHANGED <<pc, locals, before, chars>>

\* main has returned: kernel_entry jumps to itself.
hang == pc = "ready" /\ UNCHANGED vars

Next == write_char \/ handle_scrolling \/ interrupt \/ hang

\* The CPU keeps executing write_char between interrupts.
Spec == Init /\ [][Next]_vars /\ WF_vars(handle_scrolling) /\ WF_vars(write_char /\ pc # "ready")

-----------------------------------------------------------------------------
(* Properties *)

\* Whatever an interrupt does to AL and to the globals, x stays on a column of
\* the screen, y and i stay bytes, and every store falls into the cells two
\* bytes can address.
TypeOK ==
    /\ con \in Vga!Console
    /\ before \in Vga!Console
    /\ c \in Glyph \cup {NL, CR}
    /\ yy \in 0 .. U8 - 1 /\ xx \in 0 .. U8 - 1 /\ i \in 0 .. U8 - 1
    /\ row \in 0 .. U8 - 1 /\ cell \in Vga!Cells
    /\ pc = "keep" => al \in Glyph \cup {NL, CR}
    /\ pc \in {"test", "save_y", "save_x", "next_row", "restore_y", "restore_x", "next_cell",
               "store_y", "take_row", "take_column", "set_y", "set_x"} => al \in 0 .. U8 - 1

\* A call of write_char that no interrupt disturbs is one step of VgaText: the
\* order of its accesses to x, y and video memory, the restored coordinates of
\* handle_scrolling and its two loops add up to the atomic action.
AtomicUnlessInterrupted == [][(~spoiled') => (Vga!Next \/ UNCHANGED Console)]_vars

\* What an interrupt between the scroll check and the store costs: text ends up
\* outside the screen, but only on the row below it, where the handler left the
\* cursor, or on row 0x20, which is AL taken for the row.
StrayRows ==
    [][\A a \in Vga!Cells \ Vga!Screen :
           con'.mem[a] # con.mem[a] => a \div NCOL \in {NROW, EOI}]_vars

\* write_char returns, although an interrupt can set the counters of the two
\* loops of handle_scrolling back or past their end.
CharReturns == pc # "ready" ~> pc = "ready"
=============================================================================
