--------------------------- MODULE VgaStepsProofs ---------------------------
(***************************************************************************)
(* Proofs about VgaSteps, for every screen size, every number of           *)
(* characters and every number of interrupts.                              *)
(***************************************************************************)
EXTENDS VgaSteps, TLAPS

Text == INSTANCE VgaTextProofs WITH con <- Console

Byte == 0 .. U8 - 1

\* The accesses before the character is known to be a printable one.
Early == {"ready", "keep", "inc_y", "store_y", "zero_x"}

Scrolling == {"test", "copy_y", "save_y", "copy_x", "save_x", "move", "next_row", "restore_y",
              "reload_x", "restore_x", "blank", "next_cell", "last_row"}

Accesses == Early \cup Scrolling \cup {"scroll_1", "load_y", "take_row", "take_column", "store",
                                       "split_y", "set_y", "split_x", "set_x", "scroll_2"}

\* The accesses that take a byte from AL.
FromAL == {"test", "save_y", "save_x", "next_row", "restore_y", "restore_x", "next_cell",
           "store_y", "take_row", "take_column", "set_y", "set_x"}

\* The rows a store can fall on.
Rows == 0 .. NROW \cup {EOI}

\* What is kept whatever interrupts come, when.  A printing handler leaves the
\* row at NROW at most, and 0x20 in AL passes for a row past the end.
Types ==
    /\ pc \in Accesses
    /\ con \in Vga!Console /\ before \in Vga!Console
    /\ c \in Glyph \cup {NL, CR}
    /\ pc \notin Early => c \in Glyph
    /\ yy \in Byte /\ xx \in 0 .. NCOL - 1 /\ i \in Byte
    /\ row \in Byte /\ cell \in Vga!Cells
    /\ ret \in {"load_y", "ready"}
    /\ pc = "keep" => al \in Glyph \cup {NL, CR}
    /\ pc \in FromAL => al \in Byte

StoreInv ==
    /\ pc \in {"save_x", "restore_x", "take_column", "set_x"} => al < NCOL
    /\ pc = "test" => (al < NROW => con.y <= NROW)
    /\ pc = "load_y" => con.y <= NROW
    /\ pc = "take_row" => al \in Rows
    /\ pc = "take_column" => row \in Rows
    /\ pc = "store" => cell \div NCOL \in Rows

StepsInv == Types /\ StoreInv

-----------------------------------------------------------------------------
(* Addresses and consoles. *)

LEMMA TextSizes == Text!VgaAssumption
BY StepsAssumption DEF Text!VgaAssumption

LEMMA SameCells ==
    /\ Text!Cells = Vga!Cells /\ Text!Screen = Vga!Screen /\ Text!Memory = Vga!Memory
    /\ Vga!Screen \subseteq Vga!Cells
    /\ \A m : Text!Scrolled(m) = Vga!Scrolled(m)
<1>1. /\ Text!Cells = Vga!Cells /\ Text!Screen = Vga!Screen /\ Text!Memory = Vga!Memory
      /\ \A m : Text!Scrolled(m) = Vga!Scrolled(m)
  BY DEF Text!Cells, Text!Screen, Text!Memory, Text!Scrolled, Text!get_address,
         Vga!Cells, Vga!Screen, Vga!Memory, Vga!Scrolled, Vga!get_address
<1> QED BY <1>1, TextSizes, Text!ScreenInCells

\* Two bytes address a cell.
LEMMA AddressInCells ==
    ASSUME NEW cx \in Byte, NEW cy \in Byte
    PROVE  Vga!get_address(cx, cy) \in Vga!Cells
<1>1. cy \in Nat /\ U8 - 1 \in Nat /\ cy <= U8 - 1
  BY StepsAssumption DEF Byte
<1>2. cy * NCOL \in Nat /\ cy * NCOL <= (U8 - 1) * NCOL /\ (U8 - 1) * NCOL \in Nat
  BY <1>1, TextSizes, Text!RowOrder
<1> QED BY <1>2, StepsAssumption DEF Byte, Vga!get_address, Vga!Cells

LEMMA AddressOnScreen ==
    ASSUME NEW cx \in 0 .. NCOL - 1, NEW cy \in 0 .. NROW - 1
    PROVE  Vga!get_address(cx, cy) \in Vga!Screen
<1>1. Text!get_address(cx, cy) \in Text!Screen
  BY TextSizes, Text!AddressOnScreen
<1> QED BY <1>1, SameCells DEF Vga!get_address, Text!get_address

\* The row of a cell on the screen, or below it.
LEMMA RowOfAddress ==
    ASSUME NEW cx \in 0 .. NCOL - 1, NEW cy \in Nat
    PROVE  Vga!get_address(cx, cy) \div NCOL = cy
BY StepsAssumption, Text!DivMod DEF Vga!get_address

\* A cell on the screen, and the one after it, start a row at most one past it.
LEMMA RowOfCell ==
    ASSUME NEW n \in Nat, n <= NROW * NCOL
    PROVE  n \div NCOL \in 0 .. NROW /\ n % NCOL \in 0 .. NCOL - 1
<1> DEFINE q == n \div NCOL
           r == n % NCOL
<1>1. q \in Int /\ r \in 0 .. NCOL - 1 /\ n = NCOL * q + r
  BY StepsAssumption
<1> HIDE DEF q, r
<1>2. q >= 0
  <2> SUFFICES ASSUME q <= -1 PROVE FALSE
    BY <1>1
  <2>1. NCOL * q <= -NCOL
    BY <1>1, StepsAssumption
  <2> QED BY <1>1, <2>1, StepsAssumption
<1>3. q <= NROW
  <2> SUFFICES ASSUME q >= NROW + 1 PROVE FALSE
    BY <1>1, StepsAssumption
  <2>1. NROW * NCOL + NCOL <= q * NCOL
    BY <1>1, <1>2, StepsAssumption, TextSizes, Text!RowOrder
  <2> QED BY <1>1, <2>1, StepsAssumption
<1> QED BY <1>1, <1>2, <1>3, StepsAssumption DEF q, r

LEMMA SetFields ==
    ASSUME NEW s \in Vga!Console
    PROVE  /\ s.x \in 0 .. NCOL - 1 /\ s.y \in Byte /\ s.mem \in Vga!Memory
           /\ s = [x |-> s.x, y |-> s.y, mem |-> s.mem]
           /\ \A v \in Byte : [s EXCEPT !.y = v] = [x |-> s.x, y |-> v, mem |-> s.mem]
           /\ \A v \in 0 .. NCOL - 1 : [s EXCEPT !.x = v] = [x |-> v, y |-> s.y, mem |-> s.mem]
           /\ \A m : [s EXCEPT !.mem = m] = [x |-> s.x, y |-> s.y, mem |-> m]
BY DEF Vga!Console, Byte

LEMMA MakeConsole ==
    ASSUME NEW vx \in 0 .. NCOL - 1, NEW vy \in Byte, NEW m \in Vga!Memory
    PROVE  [x |-> vx, y |-> vy, mem |-> m] \in Vga!Console
BY DEF Vga!Console, Byte

LEMMA StoreCell ==
    ASSUME NEW m \in Vga!Memory, NEW a \in Vga!Cells, NEW g \in Glyph \cup {Blank}
    PROVE  [m EXCEPT ![a] = g] \in Vga!Memory
BY DEF Vga!Memory

LEMMA ScrolledIsMemory ==
    ASSUME NEW m \in Vga!Memory
    PROVE  Vga!Scrolled(m) \in Vga!Memory
BY SameCells, TextSizes, Text!ScrolledIsMemory

\* Moving one row keeps video memory full of characters, and nothing moves that
\* is off the screen.
LEMMA MoveRow ==
    ASSUME NEW m \in Vga!Memory, NEW r \in 0 .. NROW - 1
    PROVE  /\ RowMoved(m, r) \in Vga!Memory
           /\ \A a \in Vga!Cells \ Vga!Screen : RowMoved(m, r)[a] = m[a]
<1>1. /\ r \in Nat /\ NROW - 1 \in Nat /\ NROW \in Nat /\ r <= NROW - 1
      /\ r * NCOL \in Nat /\ r * NCOL + NCOL <= NROW * NCOL /\ NROW * NCOL \in Nat
  BY StepsAssumption, TextSizes, Text!RowOrder, r < NROW
<1>2. ASSUME NEW a \in Vga!Cells, a < r * NCOL
      PROVE  a \in Vga!Screen /\ a + NCOL \in Vga!Screen
  BY <1>1, <1>2, StepsAssumption DEF Vga!Screen, Vga!Cells
<1>3. \A a \in Vga!Cells : RowMoved(m, r)[a] \in Glyph \cup {Blank}
  BY <1>2, SameCells DEF RowMoved, Vga!Memory
<1>4. RowMoved(m, r) \in Vga!Memory
  BY <1>3 DEF RowMoved, Vga!Memory
<1>5. \A a \in Vga!Cells \ Vga!Screen : RowMoved(m, r)[a] = m[a]
  BY <1>2 DEF RowMoved
<1> QED BY <1>4, <1>5

Unmoved(m, n) == \A a \in Vga!Cells \ Vga!Screen : n[a] = m[a]

\* handle_scrolling leaves the cursor on the screen, and put_cell takes it one
\* row further at most; neither stores off the screen.
LEMMA ScrollTyped ==
    ASSUME NEW s \in Vga!Console
    PROVE  /\ Vga!handle_scrolling(s) \in Vga!Console
           /\ Vga!handle_scrolling(s).y \in 0 .. NROW - 1
           /\ Unmoved(s.mem, Vga!handle_scrolling(s).mem)
<1>1. s.y \in Byte /\ s.mem \in Vga!Memory
  BY SetFields
<1>2. CASE s.y < NROW
  <2>1. Vga!handle_scrolling(s) = s
    BY <1>2 DEF Vga!handle_scrolling
  <2> QED BY <1>1, <1>2, <2>1, StepsAssumption DEF Byte, Unmoved
<1>3. CASE ~(s.y < NROW)
  <2> DEFINE m == Vga!Scrolled(s.mem)
  <2>1. Vga!handle_scrolling(s) = [x |-> 0, y |-> NROW - 1, mem |-> m]
    BY <1>3 DEF Vga!handle_scrolling
  <2>2. m \in Vga!Memory
    BY <1>1, ScrolledIsMemory
  <2>3. Unmoved(s.mem, m)
    <3>1. /\ NROW - 1 \in Nat /\ NROW \in Nat /\ (NROW - 1) * NCOL <= NROW * NCOL
          /\ (NROW - 1) * NCOL \in Nat /\ NROW * NCOL \in Nat
      BY StepsAssumption, TextSizes, Text!RowOrder
    <3>2. \A a \in Vga!Cells \ Vga!Screen : a >= NROW * NCOL /\ a >= (NROW - 1) * NCOL /\ a \in Nat
      BY <3>1, StepsAssumption DEF Vga!Cells, Vga!Screen, Vga!get_address
    <3> QED BY <3>1, <3>2 DEF Unmoved, Vga!Scrolled
  <2>4. 0 \in 0 .. NCOL - 1 /\ NROW - 1 \in Byte
    BY StepsAssumption DEF Byte
  <2> HIDE DEF m
  <2> QED BY <2>1, <2>2, <2>3, <2>4, MakeConsole, StepsAssumption
<1> QED BY <1>2, <1>3

LEMMA PutTyped ==
    ASSUME NEW s \in Vga!Console, s.y \in 0 .. NROW - 1, NEW g \in Glyph
    PROVE  /\ Vga!put_cell(s, g) \in Vga!Console
           /\ Vga!put_cell(s, g).y <= NROW
           /\ Unmoved(s.mem, Vga!put_cell(s, g).mem)
<1> DEFINE a == Vga!get_address(s.x, s.y)
           m == [s.mem EXCEPT ![a] = g]
           vx == (a + 1) % NCOL
           vy == ((a + 1) \div NCOL) % U8
<1>1. s.x \in 0 .. NCOL - 1 /\ s.mem \in Vga!Memory
  BY SetFields
<1>2. a \in Vga!Screen /\ a \in Vga!Cells
  BY <1>1, AddressOnScreen, SameCells
<1>3. m \in Vga!Memory /\ Unmoved(s.mem, m)
  BY <1>1, <1>2, StoreCell DEF Vga!Memory, Unmoved
<1>4. a + 1 \in 0 .. NROW * NCOL /\ NROW * NCOL \in Nat
  BY <1>2, StepsAssumption, TextSizes, Text!RowOrder DEF Vga!Screen
<1>5. vx \in 0 .. NCOL - 1 /\ vy \in Byte /\ vy <= NROW
  <2>1. (a + 1) \div NCOL \in 0 .. NROW /\ vx \in 0 .. NCOL - 1
    BY <1>4, RowOfCell
  <2> QED BY <2>1, StepsAssumption DEF Byte
<1>6. Vga!put_cell(s, g) = [x |-> vx, y |-> vy, mem |-> m]
  BY DEF Vga!put_cell
<1> HIDE DEF vx, vy, m, a
<1> QED BY <1>3, <1>5, <1>6, MakeConsole

\* One line printed by the interrupt handler.
LEMMA PrintedTyped ==
    ASSUME NEW s \in Vga!Console
    PROVE  /\ Printed(s) \in Vga!Console
           /\ Printed(s).y <= NROW
           /\ Unmoved(s.mem, Printed(s).mem)
<1> DEFINE t == Vga!handle_scrolling(s)
           u == Vga!put_cell(t, Notice)
           v == Vga!handle_scrolling(u)
<1>1. t \in Vga!Console /\ t.y \in 0 .. NROW - 1 /\ Unmoved(s.mem, t.mem)
  BY ScrollTyped
<1> HIDE DEF t
<1>2. u \in Vga!Console /\ Unmoved(t.mem, u.mem)
  BY <1>1, PutTyped, StepsAssumption
<1> HIDE DEF u
<1>3. v \in Vga!Console /\ v.y \in 0 .. NROW - 1 /\ Unmoved(u.mem, v.mem)
  BY <1>2, ScrollTyped
<1>4. Printed(s) = [x |-> 0, y |-> (v.y + 1) % U8, mem |-> v.mem]
  BY DEF Printed, v, u, t
<1> HIDE DEF v
<1>5. (v.y + 1) % U8 = v.y + 1 /\ v.y + 1 <= NROW /\ v.y + 1 \in Byte /\ v.mem \in Vga!Memory
  BY <1>3, StepsAssumption, SetFields DEF Byte
<1>6. 0 \in 0 .. NCOL - 1
  BY StepsAssumption
<1>7. Unmoved(s.mem, v.mem)
  BY <1>1, <1>2, <1>3 DEF Unmoved
<1> QED BY <1>4, <1>5, <1>6, <1>7, MakeConsole

-----------------------------------------------------------------------------
(* Every access keeps the types and the row of the store. *)

LEMMA InitTypes == Init => StepsInv
<1> SUFFICES ASSUME Init PROVE StepsInv
  OBVIOUS
<1>1. PICK px \in {0, NCOL - 2, NCOL - 1}, py \in NROW - 2 .. NROW :
          /\ py = NROW => px = 0
          /\ con = [x |-> px, y |-> py,
                    mem |-> [a \in Vga!Cells |-> IF a < Vga!get_address(px, py)
                                                 THEN Space ELSE Blank]]
  BY DEF Init
<1> DEFINE m == [a \in Vga!Cells |-> IF a < Vga!get_address(px, py) THEN Space ELSE Blank]
<1>2. m \in Vga!Memory
  BY StepsAssumption DEF Vga!Memory
<1>3. px \in 0 .. NCOL - 1 /\ py \in Byte
  BY StepsAssumption DEF Byte
<1> HIDE DEF m
<1>4. con \in Vga!Console
  BY <1>1, <1>2, <1>3, MakeConsole DEF m
<1>5. 0 \in Byte /\ 0 \in Vga!Cells /\ 0 \in 0 .. NCOL - 1
  <2>1. 0 \in Byte /\ 0 \in 0 .. NCOL - 1
    BY StepsAssumption DEF Byte
  <2>2. Vga!get_address(0, 0) = 0
    BY StepsAssumption DEF Vga!get_address
  <2> QED BY <2>1, <2>2, AddressInCells
<1> QED BY <1>4, <1>5, StepsAssumption
        DEF Init, StepsInv, Types, StoreInv, Accesses, Early, Scrolling, FromAL

LEMMA EnterTypes ==
    ASSUME StepsInv, enter_scrolling
    PROVE  StepsInv'
<1> USE DEF StepsInv, Types, StoreInv, Accesses, Early, Scrolling, FromAL
<1> USE DEF Step, Load, Jump, locals
<1>0. con.y \in Byte /\ con.x \in 0 .. NCOL - 1 /\ con.y \in Nat
  BY SetFields DEF Byte
<1>1. CASE /\ \E from \in {"scroll_1", "scroll_2"} :
                 /\ Step(from, "test")
                 /\ ret' = IF from = "scroll_1" THEN "load_y" ELSE "ready"
           /\ al' = con.y
           /\ UNCHANGED <<con, c, yy, xx, i, row, cell>>
  BY <1>0, <1>1, StepsAssumption
<1>2. CASE Jump("test", ret) /\ ~PastEnd(al)
  BY <1>0, <1>2, StepsAssumption DEF PastEnd, Byte
<1>3. CASE Jump("test", "copy_y") /\ PastEnd(al)
  BY <1>3
<1>4. CASE Load(con.y, "copy_y", "save_y")
  BY <1>0, <1>4
<1>5. CASE Step("save_y", "copy_x") /\ yy' = al /\ UNCHANGED <<con, al, c, xx, i, row, cell, ret>>
  BY <1>5
<1>6. CASE Load(con.x, "copy_x", "save_x")
  BY <1>0, <1>6, StepsAssumption DEF Byte
<1>7. CASE Step("save_x", "move") /\ xx' = al /\ i' = 1 /\ UNCHANGED <<con, al, c, yy, row, cell, ret>>
  BY <1>7, StepsAssumption DEF Byte
<1> QED BY <1>1, <1>2, <1>3, <1>4, <1>5, <1>6, <1>7 DEF enter_scrolling

LEMMA MoveTypes ==
    ASSUME StepsInv, move_rows
    PROVE  StepsInv'
<1> USE DEF StepsInv, Types, StoreInv, Accesses, Early, Scrolling, FromAL
<1> USE DEF Step, Load, StoreY, locals
<1>1. CASE /\ i < NROW /\ Step("move", "next_row")
           /\ con' = [con EXCEPT !.mem = RowMoved(@, i)] /\ al' = i + 1
           /\ UNCHANGED locals
  <2>1. i \in 0 .. NROW - 1
    BY <1>1, StepsAssumption DEF Byte
  <2>2. RowMoved(con.mem, i) \in Vga!Memory
    BY <2>1, SetFields, MoveRow
  <2>3. con' = [x |-> con.x, y |-> con.y, mem |-> RowMoved(con.mem, i)]
    BY <1>1, SetFields
  <2>4. con' \in Vga!Console
    BY <2>2, <2>3, SetFields, MakeConsole
  <2>5. al' \in Byte
    BY <1>1, StepsAssumption DEF Byte
  <2> QED BY <1>1, <2>4, <2>5
<1>2. CASE /\ Step("next_row", "move") /\ i' = al
           /\ UNCHANGED <<con, al, c, yy, xx, row, cell, ret>>
  BY <1>2
<1>3. CASE i >= NROW /\ Load(yy, "move", "restore_y")
  BY <1>3
<1>4. CASE StoreY(al, "restore_y", "reload_x")
  BY <1>4, SetFields, MakeConsole
<1>5. CASE Load(xx, "reload_x", "restore_x")
  BY <1>5, StepsAssumption DEF Byte
<1>6. CASE /\ Step("restore_x", "blank") /\ i' = 0
           /\ con' = [con EXCEPT !.x = al]
           /\ UNCHANGED <<al, c, yy, xx, row, cell, ret>>
  <2>1. al \in 0 .. NCOL - 1
    BY <1>6, StepsAssumption DEF Byte
  <2>2. con' \in Vga!Console
    BY <1>6, <2>1, SetFields, MakeConsole
  <2> QED BY <1>6, <2>2, StepsAssumption DEF Byte
<1> QED BY <1>1, <1>2, <1>3, <1>4, <1>5, <1>6 DEF move_rows

LEMMA BlankTypes ==
    ASSUME StepsInv, blank_last_row
    PROVE  StepsInv'
<1> USE DEF StepsInv, Types, StoreInv, Accesses, Early, Scrolling, FromAL
<1> USE DEF Step, Load, StoreX, StoreY, locals
<1>1. CASE /\ i < RowBytes /\ Step("blank", "next_cell")
           /\ con' = [con EXCEPT !.mem[Vga!get_address(i \div 2, NROW - 1)] = Blank]
           /\ al' = NextByte(i)
           /\ UNCHANGED locals
  <2> DEFINE a == Vga!get_address(i \div 2, NROW - 1)
             m == [con.mem EXCEPT ![a] = Blank]
  <2>1. i \div 2 \in 0 .. NCOL - 1
    BY <1>1, StepsAssumption DEF Byte, RowBytes
  <2>2. a \in Vga!Cells
    BY <2>1, AddressOnScreen, SameCells, StepsAssumption
  <2>3. con' = [con EXCEPT !.mem[a] = Blank]
    BY <1>1
  <2> HIDE DEF a
  <2>4. m \in Vga!Memory
    BY <2>2, SetFields, StoreCell
  <2>5. con' = [x |-> con.x, y |-> con.y, mem |-> m]
    BY <2>3, SetFields
  <2>6. con' \in Vga!Console
    BY <2>4, <2>5, SetFields, MakeConsole
  <2>7. al' \in Byte
    BY <1>1, StepsAssumption DEF NextByte, Byte
  <2> QED BY <1>1, <2>6, <2>7
<1>2. CASE /\ Step("next_cell", "blank") /\ i' = al
           /\ UNCHANGED <<con, al, c, yy, xx, row, cell, ret>>
  BY <1>2
<1>3. CASE i >= RowBytes /\ StoreX(0, "blank", "last_row")
  <2>1. con' \in Vga!Console
    BY <1>3, SetFields, MakeConsole, StepsAssumption
  <2> QED BY <1>3, <2>1
<1>4. CASE StoreY(NROW - 1, "last_row", ret)
  <2>1. con' = [x |-> con.x, y |-> NROW - 1, mem |-> con.mem] /\ NROW - 1 \in Byte
    BY <1>4, SetFields, StepsAssumption DEF Byte
  <2>2. con' \in Vga!Console
    BY <2>1, SetFields, MakeConsole
  <2> QED BY <1>4, <2>1, <2>2, StepsAssumption
<1> QED BY <1>1, <1>2, <1>3, <1>4 DEF blank_last_row

\* The steps before the character is stored or the console left as it is.
LEMMA EarlyTypes ==
    ASSUME StepsInv, call_write_char \/ keep_char \/ newline \/ carriage_return
    PROVE  StepsInv'
<1> USE DEF StepsInv, Types, StoreInv, Accesses, Early, Scrolling, FromAL
<1> USE DEF Step, Load, StoreX, StoreY, locals
<1>1. CASE call_write_char
  BY <1>1, StepsAssumption DEF call_write_char
<1>2. CASE keep_char
  BY <1>2, StepsAssumption DEF keep_char
<1>3. CASE Load((con.y + 1) % U8, "inc_y", "store_y")
  BY <1>3, SetFields, StepsAssumption DEF Byte
<1>4. CASE StoreY(al, "store_y", "zero_x")
  BY <1>4, SetFields, MakeConsole
<1>5. CASE carriage_return
  <2>1. con' \in Vga!Console
    BY <1>5, SetFields, MakeConsole, StepsAssumption DEF carriage_return
  <2> QED BY <1>5, <2>1 DEF carriage_return
<1> QED BY <1>1, <1>2, <1>3, <1>4, <1>5 DEF newline

LEMMA StoreTypes ==
    ASSUME StepsInv, store_cell
    PROVE  StepsInv'
<1> USE DEF StepsInv, Types, StoreInv, Accesses, Early, Scrolling, FromAL
<1> USE DEF Step, Load, locals
<1>1. CASE Load(con.y, "load_y", "take_row")
  BY <1>1, SetFields DEF Byte, Rows
<1>2. CASE /\ Step("take_row", "take_column") /\ row' = al /\ al' = con.x
           /\ UNCHANGED <<con, c, yy, xx, i, cell, ret>>
  BY <1>2, SetFields, StepsAssumption DEF Byte
<1>3. CASE /\ Step("take_column", "store") /\ cell' = Vga!get_address(al, row)
           /\ UNCHANGED <<con, al, c, yy, xx, i, row, ret>>
  <2>1. cell' \in Vga!Cells
    BY <1>3, AddressInCells
  <2>2. al \in 0 .. NCOL - 1 /\ row \in Nat
    BY <1>3, StepsAssumption DEF Byte
  <2>3. cell' \div NCOL = row
    BY <1>3, <2>2, RowOfAddress
  <2> QED BY <1>3, <2>1, <2>3
<1>4. CASE /\ Step("store", "split_y")
           /\ con' = [con EXCEPT !.mem[cell] = c]
           /\ UNCHANGED <<al, locals>>
  <2> DEFINE m == [con.mem EXCEPT ![cell] = c]
  <2>1. m \in Vga!Memory
    BY <1>4, SetFields, StoreCell
  <2>2. con' = [x |-> con.x, y |-> con.y, mem |-> m]
    BY <1>4, SetFields
  <2>3. con' \in Vga!Console
    BY <2>1, <2>2, SetFields, MakeConsole
  <2> QED BY <1>4, <2>3
<1> QED BY <1>1, <1>2, <1>3, <1>4 DEF store_cell

LEMMA SplitTypes ==
    ASSUME StepsInv, split_offset
    PROVE  StepsInv'
<1> USE DEF StepsInv, Types, StoreInv, Accesses, Early, Scrolling, FromAL
<1> USE DEF Step, Load, StoreX, StoreY, locals
<1>0. cell + 1 \in Nat
  BY StepsAssumption DEF Vga!Cells
<1>1. CASE Load(((cell + 1) \div NCOL) % U8, "split_y", "set_y")
  <2>1. ((cell + 1) \div NCOL) % U8 \in Byte
    BY <1>0, StepsAssumption DEF Byte
  <2> QED BY <1>1, <2>1
<1>2. CASE StoreY(al, "set_y", "split_x")
  BY <1>2, SetFields, MakeConsole
<1>3. CASE Load(ColumnAfter(cell + 1), "split_x", "set_x")
  <2>1. ColumnAfter(cell + 1) \in 0 .. NCOL - 1
    BY <1>0, StepsAssumption DEF ColumnAfter
  <2> QED BY <1>3, <2>1, StepsAssumption DEF Byte
<1>4. CASE StoreX(al, "set_x", "scroll_2")
  <2>1. al \in 0 .. NCOL - 1
    BY <1>4, StepsAssumption DEF Byte
  <2>2. con' \in Vga!Console
    BY <1>4, <2>1, SetFields, MakeConsole
  <2> QED BY <1>4, <2>2
<1> QED BY <1>1, <1>2, <1>3, <1>4 DEF split_offset

LEMMA InterruptTypes ==
    ASSUME StepsInv, interrupt
    PROVE  StepsInv'
<1>1. con' \in Vga!Console /\ con'.y <= NROW
  <2>1. \A s \in Vga!Console : Printed(s) \in Vga!Console /\ Printed(s).y <= NROW
    BY PrintedTyped
  <2> QED BY <2>1 DEF interrupt, StepsInv, Types
<1>2. EOI \in Byte /\ EOI < NCOL /\ ~(EOI < NROW) /\ EOI \in Rows
  BY StepsAssumption DEF Byte, Rows
<1>3. Types'
  BY <1>1, <1>2, StepsAssumption DEF interrupt, StepsInv, Types, locals, FromAL
<1>4. StoreInv'
  BY <1>1, <1>2 DEF interrupt, StepsInv, StoreInv, locals
<1> QED BY <1>3, <1>4 DEF StepsInv

LEMMA StepTypes == StepsInv /\ [Next]_vars => StepsInv'
<1> SUFFICES ASSUME StepsInv, [Next]_vars PROVE StepsInv'
  OBVIOUS
<1>1. CASE write_char
  BY <1>1, EarlyTypes, StoreTypes, SplitTypes DEF write_char
<1>2. CASE handle_scrolling
  BY <1>2, EnterTypes, MoveTypes, BlankTypes DEF handle_scrolling
<1>3. CASE interrupt
  BY <1>3, InterruptTypes
<1>4. CASE hang \/ UNCHANGED vars
  BY <1>4 DEF hang, vars, locals, StepsInv, Types, StoreInv
<1> QED BY <1>1, <1>2, <1>3, <1>4 DEF Next

\* Whatever an interrupt does to AL and to the globals, between any two accesses
\* of write_char: coordinates and loop counter stay what they are declared as,
\* the column stays on the screen, and only characters get to video memory.
THEOREM StepsKeepType == Spec => []TypeOK
<1>1. StepsInv => TypeOK
  BY StepsAssumption DEF StepsInv, Types, TypeOK, FromAL, Byte
<1> QED BY <1>1, InitTypes, StepTypes, PTL DEF Spec

-----------------------------------------------------------------------------
(* Where a store can fall. *)

LEMMA RowOffScreen ==
    ASSUME NEW a \in Vga!Cells, a \notin Vga!Screen, a \div NCOL \in Rows
    PROVE  a \div NCOL \in {NROW, EOI}
<1> DEFINE q == a \div NCOL
           r == a % NCOL
<1>1. a \in Nat
  BY StepsAssumption DEF Vga!Cells
<1>2. q \in Nat /\ r \in 0 .. NCOL - 1 /\ a = NCOL * q + r
  BY <1>1, StepsAssumption DEF Rows
<1> HIDE DEF q, r
<1>3. ~(q < NROW)
  <2> SUFFICES ASSUME q < NROW PROVE FALSE
    OBVIOUS
  <2>1. q * NCOL + NCOL <= NROW * NCOL /\ NROW * NCOL \in Nat
    BY <1>2, StepsAssumption, TextSizes, Text!RowOrder
  <2> QED BY <1>1, <1>2, <2>1, StepsAssumption DEF Vga!Screen
<1> QED BY <1>2, <1>3, StepsAssumption DEF Rows, q

\* The four kinds of steps that write to video memory.
LEMMA MemorySteps ==
    ASSUME StepsInv, [Next]_vars
    PROVE  \/ Unmoved(con.mem, con'.mem)
           \/ /\ pc = "store" /\ cell \div NCOL \in Rows
              /\ \A a \in Vga!Cells : a # cell => con'.mem[a] = con.mem[a]
<1>0. con \in Vga!Console /\ con.mem \in Vga!Memory
  BY SetFields DEF StepsInv, Types
<1>1. CASE move_rows
  <2>1. CASE i < NROW /\ Step("move", "next_row") /\ con' = [con EXCEPT !.mem = RowMoved(@, i)]
    <3>1. i \in 0 .. NROW - 1
      BY <2>1, StepsAssumption DEF StepsInv, Types, Byte
    <3>2. con'.mem = RowMoved(con.mem, i)
      BY <2>1, <1>0, SetFields
    <3> QED BY <3>1, <3>2, <1>0, MoveRow DEF Unmoved
  <2>2. CASE ~(i < NROW /\ Step("move", "next_row") /\ con' = [con EXCEPT !.mem = RowMoved(@, i)])
    <3>1. con' = con \/ con' = [con EXCEPT !.y = al] \/ con' = [con EXCEPT !.x = al]
      BY <1>1, <2>2 DEF move_rows, Load, StoreY
    <3>2. con'.mem = con.mem
      BY <1>0, <3>1, SetFields DEF Vga!Console
    <3> QED BY <3>2 DEF Unmoved
  <2> QED BY <2>1, <2>2
<1>2. CASE blank_last_row
  <2> DEFINE a == Vga!get_address(i \div 2, NROW - 1)
  <2>1. CASE i < RowBytes /\ con' = [con EXCEPT !.mem[a] = Blank]
    <3>1. i \div 2 \in 0 .. NCOL - 1
      BY <2>1, StepsAssumption DEF StepsInv, Types, Byte, RowBytes
    <3>2. a \in Vga!Screen
      BY <3>1, AddressOnScreen, StepsAssumption
    <3> HIDE DEF a
    <3>3. con'.mem = [con.mem EXCEPT ![a] = Blank]
      BY <1>0, <2>1, SetFields
    <3> QED BY <1>0, <3>2, <3>3 DEF Unmoved, Vga!Memory
  <2>2. CASE ~(i < RowBytes /\ con' = [con EXCEPT !.mem[a] = Blank])
    <3>1. con' = con \/ con' = [con EXCEPT !.y = NROW - 1] \/ con' = [con EXCEPT !.x = 0]
      BY <1>2, <2>2 DEF blank_last_row, StoreX, StoreY
    <3>2. con'.mem = con.mem
      BY <1>0, <3>1 DEF Vga!Console
    <3> QED BY <3>2 DEF Unmoved
  <2> QED BY <2>1, <2>2
<1>3. CASE store_cell
  <2>1. CASE Step("store", "split_y") /\ con' = [con EXCEPT !.mem[cell] = c]
    <3>1. con'.mem = [con.mem EXCEPT ![cell] = c]
      BY <1>0, <2>1, SetFields
    <3> QED BY <1>0, <2>1, <3>1 DEF Step, StepsInv, StoreInv, Vga!Memory
  <2>2. CASE UNCHANGED con
    BY <2>2 DEF Unmoved
  <2> QED BY <1>3, <2>1, <2>2 DEF store_cell, Load
<1>4. CASE interrupt
  <2>1. Unmoved(con.mem, Printed(con).mem) /\ Printed(con) \in Vga!Console
    BY <1>0, PrintedTyped
  <2>2. Unmoved(Printed(con).mem, Printed(Printed(con)).mem)
    BY <2>1, PrintedTyped
  <2> QED BY <1>4, <2>1, <2>2 DEF interrupt, Unmoved
<1>5. CASE enter_scrolling \/ call_write_char \/ keep_char \/ newline \/ carriage_return \/ split_offset
           \/ hang \/ UNCHANGED vars
  <2>1. con' = con \/ con' = [con EXCEPT !.y = al] \/ con' = [con EXCEPT !.x = al]
        \/ con' = [con EXCEPT !.x = 0]
    BY <1>5 DEF enter_scrolling, call_write_char, keep_char, newline, carriage_return, split_offset,
                hang, vars, Load, Jump, StoreX, StoreY
  <2>2. con'.mem = con.mem
    BY <1>0, <2>1 DEF Vga!Console
  <2> QED BY <2>2 DEF Unmoved
<1> QED BY <1>1, <1>2, <1>3, <1>4, <1>5 DEF Next, write_char, handle_scrolling

\* However often write_char is interrupted, and wherever: text that ends up off
\* the screen is on the row below it or on row 0x20.
THEOREM StraysAreKnown == Spec => StrayRows
<1>1. ASSUME StepsInv, [Next]_vars, NEW a \in Vga!Cells \ Vga!Screen, con'.mem[a] # con.mem[a]
      PROVE  a \div NCOL \in {NROW, EOI}
  BY <1>1, MemorySteps, RowOffScreen DEF Unmoved
<1>2. StepsInv /\ [Next]_vars =>
          [\A a \in Vga!Cells \ Vga!Screen : con'.mem[a] # con.mem[a] => a \div NCOL \in {NROW, EOI}]_vars
  BY <1>1
<1> QED BY <1>2, InitTypes, StepTypes, PTL DEF Spec, StrayRows

-----------------------------------------------------------------------------
(* A character that nothing disturbs. *)

\* The console after the first scroll check of write_char, and after the store.
Top   == Vga!handle_scrolling(before)
After == Vga!put_cell(Top, c)

\* What handle_scrolling was called on.
Base == IF ret = "load_y" THEN before ELSE After

\* Video memory when the rows before k were moved up, and then k cells blanked.
Moved(m, k)   == [a \in Vga!Cells |-> IF a < (k - 1) * NCOL THEN m[a + NCOL] ELSE m[a]]
Blanked(m, k) == [a \in Vga!Cells |-> IF (NROW - 1) * NCOL <= a /\ a < (NROW - 1) * NCOL + k
                                      THEN Blank ELSE Moved(m, NROW)[a]]

\* How far write_char has got, access by access, if nothing disturbs it.
CharProgress ==
    /\ pc \in {"keep", "inc_y", "store_y", "scroll_1"} => con = before
    /\ pc = "keep" => (al = NL => before.y < MaxRow)
    /\ pc \in {"inc_y", "store_y"} => c = NL /\ before.y < MaxRow
    /\ pc = "store_y" => al = (before.y + 1) % U8
    /\ pc = "zero_x" => \/ c = CR /\ con = before
                        \/ /\ c = NL /\ before.y < MaxRow
                           /\ con = [before EXCEPT !.y = (before.y + 1) % U8]
    /\ pc \in {"load_y", "take_row", "take_column", "store"} => con = Top
    /\ pc = "take_row" => al = con.y
    /\ pc = "take_column" => row = con.y /\ al = con.x
    /\ pc \in {"store", "split_y", "set_y", "split_x"} => cell = Vga!get_address(Top.x, Top.y)
    /\ pc \in {"split_y", "set_y", "split_x", "set_x"} => con.mem = After.mem
    /\ pc = "set_y" => al = After.y
    /\ pc \in {"split_x", "set_x"} => con.y = After.y
    /\ pc = "set_x" => al = After.x
    /\ pc = "scroll_2" => con = After

ScrollProgress ==
    /\ pc = "test" => con = Base /\ al = con.y
    /\ pc \in {"copy_y", "save_y", "copy_x", "save_x"} => con = Base
    /\ pc \in Scrolling \ {"test"} => Base.y >= NROW
    /\ pc = "move" => i \in 1 .. NROW /\ con.mem = Moved(Base.mem, i)
    /\ pc = "next_row" => /\ i \in 1 .. NROW - 1 /\ al = i + 1
                          /\ con.mem = Moved(Base.mem, i + 1)
    /\ pc \in {"restore_y", "reload_x", "restore_x"} => con.mem = Moved(Base.mem, NROW)
    /\ pc = "blank" => \E k \in 0 .. NCOL : i = 2 * k /\ con.mem = Blanked(Base.mem, k)
    /\ pc = "next_cell" => \E k \in 0 .. NCOL - 1 : /\ i = 2 * k /\ al = 2 * (k + 1)
                                                    /\ con.mem = Blanked(Base.mem, k + 1)
    /\ pc = "last_row" => con.x = 0 /\ con.mem = Vga!Scrolled(Base.mem)

Undisturbed == ~spoiled => CharProgress /\ ScrollProgress

LEMMA ShapesTyped ==
    ASSUME StepsInv, c \in Glyph
    PROVE  /\ Top \in Vga!Console /\ Top.y \in 0 .. NROW - 1
           /\ After \in Vga!Console /\ Base \in Vga!Console
<1>1. Top \in Vga!Console /\ Top.y \in 0 .. NROW - 1
  BY ScrollTyped DEF StepsInv, Types, Top
<1>2. After \in Vga!Console
  BY <1>1, PutTyped DEF After
<1> QED BY <1>1, <1>2 DEF Base, StepsInv, Types

LEMMA ShapesFrame ==
    ASSUME UNCHANGED <<before, c, ret>>
    PROVE  UNCHANGED <<Top, After, Base>>
BY DEF Top, After, Base, Vga!handle_scrolling, Vga!put_cell, Vga!get_address, Vga!Scrolled, Vga!Cells

\* The loops of handle_scrolling, round by round.
LEMMA MovedNone ==
    ASSUME NEW m \in Vga!Memory
    PROVE  Moved(m, 1) = m
<1>1. \A a \in Vga!Cells : ~(a < (1 - 1) * NCOL)
  BY StepsAssumption DEF Vga!Cells
<1> QED BY <1>1 DEF Moved, Vga!Memory

LEMMA MovedOne ==
    ASSUME NEW m \in Vga!Memory, NEW k \in 1 .. NROW - 1
    PROVE  RowMoved(Moved(m, k), k) = Moved(m, k + 1)
<1>1. /\ k - 1 \in Nat /\ k \in Nat /\ NROW \in Nat
      /\ (k - 1) * NCOL \in Nat /\ k * NCOL \in Nat /\ (k - 1) * NCOL + NCOL <= k * NCOL
      /\ k * NCOL + NCOL <= NROW * NCOL /\ NROW * NCOL \in Nat
      /\ (k + 1 - 1) * NCOL = k * NCOL
  BY StepsAssumption, TextSizes, Text!RowOrder, k - 1 < k, k < NROW
<1>2. ASSUME NEW a \in Vga!Cells
      PROVE  a \in Nat /\ (a < k * NCOL => a + NCOL \in Vga!Cells)
  BY <1>1, StepsAssumption, SameCells DEF Vga!Cells, Vga!Screen
<1>3. ASSUME NEW a \in Vga!Cells
      PROVE  RowMoved(Moved(m, k), k)[a] = Moved(m, k + 1)[a]
  BY <1>1, <1>2, StepsAssumption DEF RowMoved, Moved
<1> QED BY <1>3 DEF RowMoved, Moved

LEMMA BlankedNone ==
    ASSUME NEW m \in Vga!Memory
    PROVE  Blanked(m, 0) = Moved(m, NROW)
<1>1. \A a \in Vga!Cells : ~((NROW - 1) * NCOL <= a /\ a < (NROW - 1) * NCOL + 0)
  BY StepsAssumption, TextSizes, Text!RowOrder DEF Vga!Cells
<1> QED BY <1>1 DEF Blanked, Moved

LEMMA BlankedOne ==
    ASSUME NEW m \in Vga!Memory, NEW k \in 0 .. NCOL - 1
    PROVE  [Blanked(m, k) EXCEPT ![Vga!get_address(k, NROW - 1)] = Blank] = Blanked(m, k + 1)
<1> DEFINE b == (NROW - 1) * NCOL
<1>1. b \in Nat /\ Vga!get_address(k, NROW - 1) = b + k
  BY StepsAssumption, TextSizes, Text!RowOrder DEF Vga!get_address
<1>2. \A n \in Nat : Blanked(m, n) =
          [a \in Vga!Cells |-> IF b <= a /\ a < b + n THEN Blank ELSE Moved(m, NROW)[a]]
  BY DEF Blanked
<1>3. \A a \in Vga!Cells : a \in Nat
  BY DEF Vga!Cells
<1> HIDE DEF b
<1>4. \A a \in Vga!Cells : (b <= a /\ a < b + (k + 1)) <=> (b <= a /\ a < b + k) \/ a = b + k
  BY <1>1, <1>3
<1> QED BY <1>1, <1>2, <1>4

LEMMA BlankedAll ==
    ASSUME NEW m \in Vga!Memory
    PROVE  Blanked(m, NCOL) = Vga!Scrolled(m)
<1>1. (NROW - 1) * NCOL \in Nat /\ (NROW - 1) * NCOL + NCOL = NROW * NCOL
  BY StepsAssumption, TextSizes, Text!RowOrder
<1>2. \A a \in Vga!Cells : a \in Nat
  BY DEF Vga!Cells
<1> QED BY <1>1, <1>2 DEF Blanked, Moved, Vga!Scrolled

LEMMA ScrollEnds ==
    ASSUME NEW s \in Vga!Console, NEW t \in Vga!Console, s.y >= NROW,
           t.x = 0, t.y = NROW - 1, t.mem = Vga!Scrolled(s.mem)
    PROVE  t = Vga!handle_scrolling(s)
BY SetFields, StepsAssumption DEF Vga!handle_scrolling, Byte

LEMMA EnterProgress ==
    ASSUME StepsInv, CharProgress, ScrollProgress, enter_scrolling
    PROVE  CharProgress' /\ ScrollProgress'
<1> USE DEF CharProgress, ScrollProgress, Scrolling, Step, Load, Jump, locals
<1>0. pc \in Scrolling \cup {"scroll_1", "scroll_2"} /\ c \in Glyph /\ UNCHANGED <<before, c>>
  BY DEF enter_scrolling, StepsInv, Types, Early, Accesses
<1>1. /\ Top \in Vga!Console /\ Top.y \in 0 .. NROW - 1
      /\ After \in Vga!Console /\ Base \in Vga!Console
  BY <1>0, ShapesTyped
<1>2. CASE /\ \E from \in {"scroll_1", "scroll_2"} :
                 /\ Step(from, "test")
                 /\ ret' = IF from = "scroll_1" THEN "load_y" ELSE "ready"
           /\ al' = con.y
           /\ UNCHANGED <<con, c, yy, xx, i, row, cell>>
  <2>1. Base' = IF pc = "scroll_1" THEN before ELSE After
    BY <1>0, <1>2 DEF Base, After, Top
  <2>2. con = Base'
    BY <1>2, <2>1
  <2> QED BY <1>2, <2>2
<1>3. CASE Jump("test", ret) /\ ~PastEnd(al)
  <2>1. con = Base /\ al = Base.y /\ UNCHANGED <<Top, After, Base>>
    BY <1>3, ShapesFrame
  <2>2. Vga!handle_scrolling(Base) = Base
    BY <1>3, <2>1, SetFields, <1>1, StepsAssumption DEF PastEnd, Vga!handle_scrolling, Byte
  <2>3. CASE ret = "load_y"
    BY <1>3, <2>1, <2>2, <2>3 DEF Base, Top
  <2>4. CASE ret = "ready"
    BY <1>3, <2>4
  <2> QED BY <2>3, <2>4 DEF StepsInv, Types
<1>4. CASE Jump("test", "copy_y") /\ PastEnd(al)
  BY <1>4, ShapesFrame DEF PastEnd
<1>5. CASE Load(con.y, "copy_y", "save_y")
  BY <1>5, ShapesFrame
<1>6. CASE Step("save_y", "copy_x") /\ yy' = al /\ UNCHANGED <<con, al, c, xx, i, row, cell, ret>>
  BY <1>6, ShapesFrame
<1>7. CASE Load(con.x, "copy_x", "save_x")
  BY <1>7, ShapesFrame
<1>8. CASE Step("save_x", "move") /\ xx' = al /\ i' = 1 /\ UNCHANGED <<con, al, c, yy, row, cell, ret>>
  <2>1. con = Base /\ UNCHANGED <<Top, After, Base>>
    BY <1>8, ShapesFrame
  <2>2. con.mem = Moved(Base.mem, 1) /\ 1 \in 1 .. NROW
    BY <1>1, <2>1, SetFields, MovedNone, StepsAssumption
  <2>3. Moved(Base.mem, 1)' = Moved(Base.mem, 1)
    BY <2>1 DEF Moved
  <2> QED BY <1>8, <2>1, <2>2, <2>3
<1> QED BY <1>2, <1>3, <1>4, <1>5, <1>6, <1>7, <1>8 DEF enter_scrolling

LEMMA MoveProgress ==
    ASSUME StepsInv, CharProgress, ScrollProgress, move_rows
    PROVE  CharProgress' /\ ScrollProgress'
<1> USE DEF CharProgress, ScrollProgress, Scrolling, Step, Load, StoreY, locals
<1>0. pc \in Scrolling /\ c \in Glyph /\ con \in Vga!Console /\ UNCHANGED <<before, c, ret>>
  BY DEF move_rows, StepsInv, Types, Early, Accesses
<1>1. Base \in Vga!Console /\ Base.mem \in Vga!Memory /\ UNCHANGED <<Top, After, Base>>
  BY <1>0, ShapesTyped, ShapesFrame, SetFields
<1>2. \A k : Moved(Base'.mem, k) = Moved(Base.mem, k)
  BY <1>1
<1>3. CASE /\ i < NROW /\ Step("move", "next_row")
           /\ con' = [con EXCEPT !.mem = RowMoved(@, i)] /\ al' = i + 1
           /\ UNCHANGED locals
  <2>1. i \in 1 .. NROW - 1 /\ con.mem = Moved(Base.mem, i)
    BY <1>3, StepsAssumption
  <2>2. con'.mem = RowMoved(con.mem, i)
    BY <1>0, <1>3, SetFields
  <2>3. con'.mem = Moved(Base.mem, i + 1)
    BY <1>1, <2>1, <2>2, MovedOne
  <2> QED BY <1>1, <1>2, <1>3, <2>1, <2>3
<1>4. CASE /\ Step("next_row", "move") /\ i' = al
           /\ UNCHANGED <<con, al, c, yy, xx, row, cell, ret>>
  BY <1>1, <1>2, <1>4, StepsAssumption
<1>5. CASE i >= NROW /\ Load(yy, "move", "restore_y")
  <2>1. i = NROW
    BY <1>5, StepsAssumption
  <2> QED BY <1>1, <1>2, <1>5, <2>1
<1>6. CASE StoreY(al, "restore_y", "reload_x")
  <2>1. con'.mem = con.mem
    BY <1>0, <1>6 DEF Vga!Console
  <2> QED BY <1>1, <1>2, <1>6, <2>1
<1>7. CASE Load(xx, "reload_x", "restore_x")
  BY <1>1, <1>2, <1>7
<1>8. CASE /\ Step("restore_x", "blank") /\ i' = 0
           /\ con' = [con EXCEPT !.x = al]
           /\ UNCHANGED <<al, c, yy, xx, row, cell, ret>>
  <2>1. con'.mem = con.mem
    BY <1>0, <1>8 DEF Vga!Console
  <2>2. 0 \in 0 .. NCOL /\ i' = 2 * 0 /\ con'.mem = Blanked(Base'.mem, 0)
    BY <1>1, <1>2, <1>8, <2>1, BlankedNone, StepsAssumption
  <2> QED BY <1>1, <1>8, <2>2
<1> QED BY <1>3, <1>4, <1>5, <1>6, <1>7, <1>8 DEF move_rows

LEMMA BlankProgress ==
    ASSUME StepsInv, CharProgress, ScrollProgress, blank_last_row
    PROVE  CharProgress' /\ ScrollProgress'
<1> USE DEF CharProgress, ScrollProgress, Scrolling, Step, Load, StoreX, StoreY, locals
<1>0. pc \in Scrolling /\ c \in Glyph /\ con \in Vga!Console /\ UNCHANGED <<before, c, ret>>
  BY DEF blank_last_row, StepsInv, Types, Early, Accesses
<1>1. Base \in Vga!Console /\ Base.mem \in Vga!Memory /\ UNCHANGED <<Top, After, Base>>
  BY <1>0, ShapesTyped, ShapesFrame, SetFields
<1>2. CASE /\ i < RowBytes /\ Step("blank", "next_cell")
           /\ con' = [con EXCEPT !.mem[Vga!get_address(i \div 2, NROW - 1)] = Blank]
           /\ al' = NextByte(i)
           /\ UNCHANGED locals
  <2>1. PICK k \in 0 .. NCOL : i = 2 * k /\ con.mem = Blanked(Base.mem, k)
    BY <1>2
  <2>2. k \in 0 .. NCOL - 1 /\ i \div 2 = k
    BY <1>2, <2>1, StepsAssumption DEF RowBytes
  <2>3. al' = 2 * (k + 1)
    BY <1>2, <2>1, <2>2, StepsAssumption DEF NextByte
  <2> DEFINE a == Vga!get_address(k, NROW - 1)
  <2>4. con' = [con EXCEPT !.mem[a] = Blank]
    BY <1>2, <2>2
  <2> HIDE DEF a
  <2>5. con'.mem = [con.mem EXCEPT ![a] = Blank]
    BY <1>0, <2>4, SetFields
  <2>6. con'.mem = Blanked(Base'.mem, k + 1)
    BY ZenonT(40), <1>1, <2>1, <2>2, <2>5, BlankedOne DEF a
  <2> QED BY <1>1, <1>2, <2>1, <2>2, <2>3, <2>6
<1>3. CASE /\ Step("next_cell", "blank") /\ i' = al
           /\ UNCHANGED <<con, al, c, yy, xx, row, cell, ret>>
  <2>1. PICK k \in 0 .. NCOL - 1 : al = 2 * (k + 1) /\ con.mem = Blanked(Base.mem, k + 1)
    BY <1>3
  <2>2. k + 1 \in 0 .. NCOL
    BY StepsAssumption
  <2> QED BY <1>1, <1>3, <2>1, <2>2
<1>4. CASE i >= RowBytes /\ StoreX(0, "blank", "last_row")
  <2>1. PICK k \in 0 .. NCOL : i = 2 * k /\ con.mem = Blanked(Base.mem, k)
    BY <1>4
  <2>2. k = NCOL
    BY <1>4, <2>1, StepsAssumption DEF RowBytes
  <2>3. con' = [x |-> 0, y |-> con.y, mem |-> con.mem]
    BY <1>0, <1>4, SetFields, StepsAssumption
  <2>4. con'.x = 0 /\ con'.mem = Vga!Scrolled(Base'.mem)
    BY <1>1, <2>1, <2>2, <2>3, BlankedAll
  <2> QED BY <1>1, <1>4, <2>4
<1>5. CASE StoreY(NROW - 1, "last_row", ret)
  <2>1. con' = [x |-> con.x, y |-> NROW - 1, mem |-> con.mem] /\ con' \in Vga!Console
    <3>1. NROW - 1 \in Byte
      BY StepsAssumption DEF Byte
    <3> QED BY <1>0, <1>5, <3>1, SetFields, MakeConsole
  <2>2. con' = Vga!handle_scrolling(Base)
    BY <1>1, <1>5, <2>1, ScrollEnds
  <2>3. ret = "load_y" => con' = Top'
    BY <1>1, <2>2 DEF Base, Top
  <2> QED BY <1>5, <2>3 DEF StepsInv, Types
<1> QED BY <1>2, <1>3, <1>4, <1>5 DEF blank_last_row

LEMMA CallProgress ==
    ASSUME StepsInv, call_write_char
    PROVE  CharProgress' /\ ScrollProgress'
BY StepsAssumption DEF call_write_char, CharProgress, ScrollProgress, Scrolling

LEMMA EarlyProgress ==
    ASSUME StepsInv, CharProgress, ScrollProgress, keep_char \/ newline \/ carriage_return
    PROVE  CharProgress' /\ ScrollProgress'
<1> USE DEF CharProgress, ScrollProgress, Scrolling, Step, Load, StoreX, StoreY, locals
<1>0. con \in Vga!Console /\ UNCHANGED before
  BY DEF keep_char, newline, carriage_return, StepsInv, Types
<1>1. CASE keep_char
  BY <1>0, <1>1, StepsAssumption DEF keep_char, StepsInv, Types
<1>2. CASE Load((con.y + 1) % U8, "inc_y", "store_y")
  BY <1>0, <1>2
<1>3. CASE StoreY(al, "store_y", "zero_x")
  BY <1>0, <1>3
<1>4. CASE carriage_return
  BY <1>4 DEF carriage_return
<1> QED BY <1>1, <1>2, <1>3, <1>4 DEF newline

LEMMA StoreProgress ==
    ASSUME StepsInv, CharProgress, ScrollProgress, store_cell
    PROVE  CharProgress' /\ ScrollProgress'
<1> USE DEF CharProgress, ScrollProgress, Scrolling, Step, Load, locals
<1>0. c \in Glyph /\ con \in Vga!Console /\ UNCHANGED <<before, c, ret>>
  BY DEF store_cell, StepsInv, Types, Early, Accesses
<1>1. Top \in Vga!Console /\ UNCHANGED <<Top, After, Base>>
  BY <1>0, ShapesTyped, ShapesFrame
<1>3. CASE Load(con.y, "load_y", "take_row")
  BY <1>1, <1>3
<1>4. CASE /\ Step("take_row", "take_column") /\ row' = al /\ al' = con.x
           /\ UNCHANGED <<con, c, yy, xx, i, cell, ret>>
  BY <1>1, <1>4
<1>5. CASE /\ Step("take_column", "store") /\ cell' = Vga!get_address(al, row)
           /\ UNCHANGED <<con, al, c, yy, xx, i, row, ret>>
  <2>1. cell' = Vga!get_address(Top'.x, Top'.y)
    BY <1>1, <1>5
  <2> QED BY <1>1, <1>5, <2>1
<1>6. CASE /\ Step("store", "split_y")
           /\ con' = [con EXCEPT !.mem[cell] = c]
           /\ UNCHANGED <<al, locals>>
  <2>1. con'.mem = [con.mem EXCEPT ![cell] = c]
    BY <1>0, <1>6, SetFields
  <2>2. con = Top /\ cell = Vga!get_address(Top.x, Top.y)
    BY <1>6
  <2>3. con'.mem = After.mem
    BY <2>1, <2>2 DEF After, Vga!put_cell
  <2> QED BY <1>1, <1>6, <2>2, <2>3
<1> QED BY <1>3, <1>4, <1>5, <1>6 DEF store_cell

LEMMA SplitProgress ==
    ASSUME StepsInv, CharProgress, ScrollProgress, split_offset
    PROVE  CharProgress' /\ ScrollProgress'
<1> USE DEF CharProgress, ScrollProgress, Scrolling, Step, Load, StoreX, StoreY, locals
<1>0. c \in Glyph /\ con \in Vga!Console /\ UNCHANGED <<before, c, ret>>
  BY DEF split_offset, StepsInv, Types, Early, Accesses
<1>1. Top \in Vga!Console /\ After \in Vga!Console /\ UNCHANGED <<Top, After, Base>>
  BY <1>0, ShapesTyped, ShapesFrame
<1>2. LET offset == Vga!get_address(Top.x, Top.y) + 1
      IN  After.y = (offset \div NCOL) % U8 /\ After.x = offset % NCOL
  BY DEF After, Vga!put_cell
<1>3. CASE Load(((cell + 1) \div NCOL) % U8, "split_y", "set_y")
  BY <1>1, <1>2, <1>3
<1>4. CASE StoreY(al, "set_y", "split_x")
  <2>1. con' = [x |-> con.x, y |-> After.y, mem |-> After.mem]
    BY <1>0, <1>1, <1>4, SetFields
  <2> QED BY <1>1, <1>4, <2>1
<1>5. CASE Load(ColumnAfter(cell + 1), "split_x", "set_x")
  BY <1>1, <1>2, <1>5 DEF ColumnAfter
<1>6. CASE StoreX(al, "set_x", "scroll_2")
  <2>1. con' = [x |-> After.x, y |-> After.y, mem |-> After.mem]
    BY <1>0, <1>1, <1>6, SetFields
  <2>2. con' = After
    BY <1>1, <2>1, SetFields
  <2> QED BY <1>1, <1>6, <2>2
<1> QED BY <1>3, <1>4, <1>5, <1>6 DEF split_offset

LEMMA StepProgress ==
    ASSUME StepsInv, Undisturbed, [Next]_vars
    PROVE  Undisturbed'
<1> SUFFICES ASSUME ~spoiled' PROVE CharProgress' /\ ScrollProgress'
  BY DEF Undisturbed
<1>1. CASE call_write_char
  BY <1>1, CallProgress
<1>2. CASE ~call_write_char
  <2>1. CASE hang \/ UNCHANGED vars
    <3>1. UNCHANGED vars
      BY <2>1 DEF hang
    <3>2. CharProgress /\ ScrollProgress
      BY <3>1 DEF Undisturbed, vars
    <3>3. UNCHANGED <<Top, After, Base>>
      BY <3>1, ShapesFrame DEF vars, locals
    <3>4. CharProgress'
      BY <3>1, <3>2, <3>3 DEF vars, locals, CharProgress, Vga!get_address
    <3>5. ScrollProgress'
      <4>1. \A m, k : Moved(m, k)' = Moved(m', k') /\ Blanked(m, k)' = Blanked(m', k')
        BY DEF Moved, Blanked
      <4>2. \A m : Vga!Scrolled(m)' = Vga!Scrolled(m')
        BY DEF Vga!Scrolled
      <4> QED BY <3>1, <3>2, <3>3, <4>1, <4>2 DEF vars, locals, ScrollProgress, Scrolling
    <3> QED BY <3>4, <3>5
  <2>2. CASE write_char \/ handle_scrolling
    <3>1. UNCHANGED spoiled
      BY <1>2, <2>2 DEF write_char, keep_char, newline, carriage_return, store_cell, split_offset,
                        handle_scrolling, enter_scrolling, move_rows, blank_last_row,
                        Step, Load, StoreX, StoreY, Jump
    <3>2. CharProgress /\ ScrollProgress
      BY <3>1 DEF Undisturbed
    <3> QED BY <1>2, <2>2, <3>2, EarlyProgress, StoreProgress, SplitProgress, EnterProgress,
               MoveProgress, BlankProgress DEF write_char, handle_scrolling
  <2>3. CASE interrupt
    BY <2>3 DEF interrupt
  <2> QED BY <1>2, <2>1, <2>2, <2>3 DEF Next
<1> QED BY <1>1, <1>2

\* The accesses that end a call do to the console what VgaText does at once.
LEMMA ReturnStep ==
    ASSUME StepsInv, CharProgress, ScrollProgress, write_char \/ handle_scrolling,
           pc # "ready", pc' = "ready"
    PROVE  Vga!Next
<1> USE DEF CharProgress, ScrollProgress, Scrolling, Step, Load, StoreX, StoreY, Jump
<1>0. Console = before /\ Console' = con' /\ con \in Vga!Console /\ before \in Vga!Console
  BY DEF Console, StepsInv, Types
<1>1. CASE carriage_return
  <2>1. con' = [x |-> 0, y |-> con.y, mem |-> con.mem]
    BY <1>0, <1>1, SetFields, StepsAssumption DEF carriage_return
  <2>2. CASE con = before
    BY <1>0, <2>1, <2>2 DEF Vga!Next, Vga!carriage_return
  <2>3. CASE before.y < MaxRow /\ con = [before EXCEPT !.y = (before.y + 1) % U8]
    <3>1. (before.y + 1) % U8 \in Byte
      BY <1>0, SetFields, StepsAssumption DEF Byte
    <3>2. con = [x |-> before.x, y |-> (before.y + 1) % U8, mem |-> before.mem]
      BY <1>0, <2>3, <3>1, SetFields
    <3> QED BY <1>0, <2>1, <2>3, <3>2 DEF Vga!Next, Vga!newline
  <2> QED BY <1>1, <2>2, <2>3 DEF carriage_return
<1>2. CASE handle_scrolling
  <2>1. \/ Jump("test", ret) /\ ~PastEnd(al) /\ ret = "ready"
        \/ StoreY(NROW - 1, "last_row", ret) /\ ret = "ready"
    BY <1>2 DEF handle_scrolling, enter_scrolling, move_rows, blank_last_row
  <2>2. c \in Glyph /\ Base = After
    BY <2>1 DEF StepsInv, Types, Early, Base
  <2>3. After \in Vga!Console
    BY <2>2, ShapesTyped
  <2>4. CASE Jump("test", ret) /\ ~PastEnd(al)
    <3>1. con' = After /\ ~(After.y >= NROW)
      BY <2>2, <2>4 DEF PastEnd
    <3>2. Vga!handle_scrolling(After) = After
      BY <2>3, <3>1, SetFields, StepsAssumption DEF Vga!handle_scrolling, Byte
    <3> QED BY <3>1, <3>2, <1>0, <2>2 DEF Vga!Next, Vga!write_glyph, After, Top
  <2>5. CASE StoreY(NROW - 1, "last_row", ret)
    <3>1. con' = [x |-> con.x, y |-> NROW - 1, mem |-> con.mem] /\ con' \in Vga!Console
      <4>1. NROW - 1 \in Byte
        BY StepsAssumption DEF Byte
      <4> QED BY <1>0, <2>5, <4>1, SetFields, MakeConsole
    <3>2. con' = Vga!handle_scrolling(After)
      BY <2>2, <2>3, <2>5, <3>1, ScrollEnds
    <3> QED BY <3>2, <1>0, <2>2 DEF Vga!Next, Vga!write_glyph, After, Top
  <2> QED BY <2>1, <2>4, <2>5
<1>3. CASE write_char /\ ~carriage_return
  BY <1>3 DEF write_char, call_write_char, keep_char, newline, store_cell, split_offset
<1> QED BY <1>1, <1>2, <1>3

LEMMA AtomicStep ==
    ASSUME StepsInv, Undisturbed, [Next]_vars, ~spoiled'
    PROVE  Vga!Next \/ UNCHANGED Console
<1>1. CASE call_write_char
  BY <1>1 DEF call_write_char, Console
<1>2. CASE (write_char \/ handle_scrolling) /\ ~call_write_char
  <2>1. pc # "ready" /\ UNCHANGED <<before, spoiled>>
    BY <1>2 DEF write_char, keep_char, newline, carriage_return, store_cell, split_offset,
                handle_scrolling, enter_scrolling, move_rows, blank_last_row,
                Step, Load, StoreX, StoreY, Jump
  <2>2. CASE pc' = "ready"
    BY <1>2, <2>1, <2>2, ReturnStep DEF Undisturbed
  <2>3. CASE pc' # "ready"
    BY <2>1, <2>3 DEF Console
  <2> QED BY <2>2, <2>3
<1>3. CASE hang \/ UNCHANGED vars
  BY <1>3 DEF hang, vars, Console
<1>4. CASE interrupt
  BY <1>4 DEF interrupt
<1> QED BY <1>1, <1>2, <1>3, <1>4 DEF Next

\* A character printed access by access, with no interrupt in between, is one
\* step of VgaText: on every size of screen, whether it scrolls before the store,
\* after it, or not at all.
THEOREM CharsAreAtomic == Spec => AtomicUnlessInterrupted
<1>1. Init => StepsInv /\ Undisturbed
  BY InitTypes DEF Init, Undisturbed, CharProgress, ScrollProgress, Scrolling
<1>2. StepsInv /\ Undisturbed /\ [Next]_vars => (StepsInv /\ Undisturbed)'
  BY StepTypes, StepProgress
<1>3. StepsInv /\ Undisturbed /\ [Next]_vars =>
          [(~spoiled') => (Vga!Next \/ UNCHANGED Console)]_vars
  BY AtomicStep
<1> QED BY <1>1, <1>2, <1>3, PTL DEF Spec, AtomicUnlessInterrupted
=============================================================================
