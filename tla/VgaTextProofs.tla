--------------------------- MODULE VgaTextProofs ----------------------------
(***************************************************************************)
(* Proofs about VgaText, for every screen size and byte width.             *)
(***************************************************************************)
EXTENDS VgaText, TLAPS

\* Splitting an offset into row and column gives back what it was made of.
LEMMA DivMod ==
    ASSUME NEW n \in Nat \ {0}, NEW q \in Nat, NEW r \in 0 .. n - 1
    PROVE  /\ (r + q * n) \div n = q
           /\ (r + q * n) % n = r
<1> DEFINE d == (r + q * n) \div n
           m == (r + q * n) % n
<1>0. q * n \in Nat /\ r + q * n \in Nat
  OBVIOUS
<1>1. d \in Int /\ m \in 0 .. n - 1 /\ r + q * n = n * d + m
  BY <1>0
<1> HIDE DEF d, m
<1>2. n * (q - d) = m - r
  BY <1>1
<1>3. q - d < 1
  <2>1. SUFFICES ASSUME q - d >= 1 PROVE FALSE
    BY <1>1
  <2>2. n * (q - d) >= n
    BY <2>1, <1>1
  <2> QED BY <2>2, <1>1, <1>2
<1>4. q - d > -1
  <2>1. SUFFICES ASSUME q - d <= -1 PROVE FALSE
    BY <1>1
  <2>2. n * (q - d) <= -n
    BY <2>1, <1>1
  <2> QED BY <2>2, <1>1, <1>2
<1>5. q = d
  BY <1>1, <1>3, <1>4
<1>6. m = r
  BY <1>1, <1>5
<1> QED BY <1>5, <1>6 DEF d, m

\* Products with NCOL keep the order of the rows.
LEMMA RowOrder ==
    ASSUME NEW p \in Nat, NEW q \in Nat, p <= q
    PROVE  /\ p * NCOL \in Nat
           /\ q * NCOL \in Nat
           /\ p * NCOL <= q * NCOL
           /\ p < q => p * NCOL + NCOL <= q * NCOL
BY VgaAssumption

LEMMA AddressOnScreen ==
    ASSUME NEW cx \in 0 .. NCOL - 1, NEW cy \in 0 .. NROW - 1
    PROVE  get_address(cx, cy) \in Screen
BY VgaAssumption, cy < NROW, RowOrder DEF get_address, Screen

LEMMA ScreenInCells == Screen \subseteq Cells
BY VgaAssumption, RowOrder DEF Screen, Cells, get_address

-----------------------------------------------------------------------------
(* What the helpers of write_char do to a console. *)

\* The two safety invariants, as predicates of a console.
Parked(s)     == s.y >= NROW => s.x = 0
BlankBelow(s) == \A c \in Screen : c >= (s.y + 1) * NCOL => s.mem[c] = Blank

SameOffscreen(s, t) == \A c \in Cells \ Screen : t.mem[c] = s.mem[c]

LEMMA ScrolledIsMemory ==
    ASSUME NEW m \in Memory
    PROVE  Scrolled(m) \in Memory
<1>1. ASSUME NEW c \in Cells, c < (NROW - 1) * NCOL
      PROVE  c + NCOL \in Screen
  BY <1>1, VgaAssumption, RowOrder DEF Cells, Screen
<1> QED BY <1>1, ScreenInCells DEF Scrolled, Memory

\* After handle_scrolling the cursor is on the screen, the rows below it are
\* blank if they were, and nothing off the screen has changed.
LEMMA HandleScrolling ==
    ASSUME NEW s \in Console, BlankBelow(s)
    PROVE  LET t == handle_scrolling(s)
           IN  /\ t \in Console
               /\ t.y < NROW
               /\ BlankBelow(t)
               /\ SameOffscreen(s, t)
<1>1. CASE s.y < NROW
  BY <1>1 DEF handle_scrolling, SameOffscreen
<1>2. CASE ~(s.y < NROW)
  <2> DEFINE t == [x |-> 0, y |-> NROW - 1, mem |-> Scrolled(s.mem)]
  <2>1. handle_scrolling(s) = t
    BY <1>2 DEF handle_scrolling
  <2>2. t \in Console
    BY ScrolledIsMemory, VgaAssumption DEF Console
  <2>3. BlankBelow(t)
    BY VgaAssumption, RowOrder DEF BlankBelow, Screen
  <2>4. SameOffscreen(s, t)
    <3> SUFFICES ASSUME NEW c \in Cells, c \notin Screen
                 PROVE  Scrolled(s.mem)[c] = s.mem[c]
      BY DEF SameOffscreen
    <3>1. c >= NROW * NCOL /\ c >= (NROW - 1) * NCOL
      BY VgaAssumption, RowOrder DEF Cells, Screen
    <3> QED BY <3>1, VgaAssumption, RowOrder DEF Scrolled, Cells
  <2> QED BY <2>1, <2>2, <2>3, <2>4, VgaAssumption
<1> QED BY <1>1, <1>2

\* From a cursor on the screen, put_cell stores on the screen and advances the
\* cursor by one cell, to the start of the next row at the end of a row.
LEMMA PutCell ==
    ASSUME NEW s \in Console, NEW g \in Glyph, s.y < NROW, BlankBelow(s)
    PROVE  LET t == put_cell(s, g)
           IN  /\ t \in Console
               /\ \/ s.x < NCOL - 1 /\ t.x = s.x + 1 /\ t.y = s.y
                  \/ s.x = NCOL - 1 /\ t.x = 0 /\ t.y = s.y + 1
               /\ t.mem = [s.mem EXCEPT ![get_address(s.x, s.y)] = g]
               /\ BlankBelow(t)
               /\ SameOffscreen(s, t)
<1> DEFINE a == get_address(s.x, s.y)
           t == put_cell(s, g)
<1>1. /\ s.x \in 0 .. NCOL - 1
      /\ s.y \in 0 .. NROW - 1
      /\ s.mem \in Memory
  BY VgaAssumption DEF Console
<1>2. a \in Screen /\ a \in Cells
  BY <1>1, AddressOnScreen, ScreenInCells
<1>3. \/ s.x < NCOL - 1 /\ (a + 1) % NCOL = s.x + 1 /\ (a + 1) \div NCOL = s.y
      \/ s.x = NCOL - 1 /\ (a + 1) % NCOL = 0 /\ (a + 1) \div NCOL = s.y + 1
  <2>1. CASE s.x < NCOL - 1
    <3> DEFINE r == s.x + 1
               q == s.y
    <3>1. r \in 0 .. NCOL - 1 /\ q \in Nat /\ a + 1 = r + q * NCOL
      BY <1>1, <2>1, VgaAssumption DEF get_address
    <3>2. NCOL \in Nat \ {0}
      BY VgaAssumption
    <3> HIDE DEF r, q, a
    <3>3. (r + q * NCOL) % NCOL = r /\ (r + q * NCOL) \div NCOL = q
      BY <3>1, <3>2, DivMod
    <3> QED BY <2>1, <3>1, <3>3 DEF r, q
  <2>2. CASE s.x = NCOL - 1
    <3>1. a + 1 = 0 + (s.y + 1) * NCOL
      BY <1>1, <2>2, VgaAssumption DEF get_address
    <3>2. 0 \in 0 .. NCOL - 1 /\ s.y + 1 \in Nat
      BY <1>1, VgaAssumption
    <3> QED BY ZenonT(40), <2>2, <3>1, <3>2, DivMod, VgaAssumption
  <2> QED BY <1>1, <2>1, <2>2, VgaAssumption
<1>4. (a + 1) \div NCOL \in 0 .. NROW
  BY <1>1, <1>3, VgaAssumption
<1>5. ((a + 1) \div NCOL) % U8 = (a + 1) \div NCOL
  <2>1. ASSUME NEW k \in 0 .. NROW PROVE k % U8 = k
    BY VgaAssumption
  <2> QED BY <1>4, <2>1
<1>6. /\ t.x = (a + 1) % NCOL
      /\ t.y = (a + 1) \div NCOL
      /\ t.mem = [s.mem EXCEPT ![a] = g]
      /\ t = [x |-> t.x, y |-> t.y, mem |-> t.mem]
  BY <1>5 DEF put_cell
<1>7. t.mem \in Memory
  BY <1>1, <1>2, <1>6 DEF Memory
<1>8. t \in Console
  <2>1. t.x \in 0 .. NCOL - 1 /\ t.y \in 0 .. U8 - 1
    BY <1>1, <1>3, <1>4, <1>6, VgaAssumption
  <2> QED BY <1>6, <1>7, <2>1 DEF Console
<1>9. BlankBelow(t)
  <2> SUFFICES ASSUME NEW c \in Screen, c >= (t.y + 1) * NCOL
               PROVE  t.mem[c] = Blank
    BY DEF BlankBelow
  <2>1. t.y \in Nat /\ s.y \in Nat /\ s.y <= t.y
    BY <1>1, <1>3, <1>6, VgaAssumption
  <2>2. c >= (s.y + 1) * NCOL
    BY <2>1, RowOrder, VgaAssumption DEF Screen
  <2>3. c # a
    BY <1>1, <2>2, VgaAssumption DEF get_address, Screen
  <2>4. c \in Cells
    BY ScreenInCells
  <2> QED BY <1>1, <1>6, <2>2, <2>3, <2>4 DEF BlankBelow, Memory
<1>10. SameOffscreen(s, t)
  BY <1>1, <1>2, <1>6 DEF SameOffscreen, Memory
<1> HIDE DEF t, a
<1> QED BY <1>3, <1>6, <1>8, <1>9, <1>10 DEF t, a

-----------------------------------------------------------------------------
(* The invariant.  BlankBelow and Parked are inductive together with the    *)
(* type: put_cell needs the cursor on the screen, which handle_scrolling    *)
(* establishes before every store.                                          *)

IInv == TypeOK /\ ParkedAtColumnZero /\ BelowIsBlank

LEMMA InvParts == IInv <=> (con \in Console /\ Parked(con) /\ BlankBelow(con))
BY DEF IInv, TypeOK, ParkedAtColumnZero, BelowIsBlank, Parked, BlankBelow

LEMMA InitInv == Init => IInv
<1> SUFFICES ASSUME Init PROVE IInv
  OBVIOUS
<1>1. con \in Console
  BY VgaAssumption DEF Init, Console, Memory
<1>2. Parked(con)
  BY VgaAssumption DEF Init, Parked
<1>3. BlankBelow(con)
  BY ScreenInCells DEF Init, BlankBelow
<1> QED BY <1>1, <1>2, <1>3, InvParts

\* What one printable character does: the invariant is kept, and nothing off
\* the screen changes.
LEMMA WriteGlyph ==
    ASSUME NEW g \in Glyph, IInv, write_glyph(g)
    PROVE  IInv' /\ SameOffscreen(con, con')
<1> DEFINE s == handle_scrolling(con)
           t == put_cell(s, g)
           u == handle_scrolling(t)
<1>0. con \in Console /\ BlankBelow(con)
  BY InvParts
<1>1. s \in Console /\ s.y < NROW /\ BlankBelow(s) /\ SameOffscreen(con, s)
  BY <1>0, HandleScrolling
<1> HIDE DEF s
<1>2. t \in Console /\ BlankBelow(t) /\ SameOffscreen(s, t)
  BY <1>1, PutCell
<1> HIDE DEF t
<1>3. u \in Console /\ u.y < NROW /\ BlankBelow(u) /\ SameOffscreen(t, u)
  BY <1>2, HandleScrolling
<1> HIDE DEF u
<1>4. con' = u
  BY DEF write_glyph, u, t, s
<1>5. Parked(u)
  BY <1>3, VgaAssumption DEF Parked, Console
<1>6. SameOffscreen(con, u)
  BY <1>1, <1>2, <1>3 DEF SameOffscreen
<1> QED
  BY <1>3, <1>4, <1>5, <1>6
  DEF IInv, TypeOK, ParkedAtColumnZero, BelowIsBlank, Parked, BlankBelow

LEMMA Clrscr ==
    ASSUME IInv, clrscr
    PROVE  IInv' /\ SameOffscreen(con, con')
<1> DEFINE m == [c \in Cells |-> IF c \in Screen THEN Blank ELSE con.mem[c]]
<1>1. con \in Console
  BY InvParts
<1>2. m \in Memory
  BY <1>1 DEF Console, Memory
<1>3. con' = [x |-> 0, y |-> 0, mem |-> m]
  BY DEF clrscr
<1>4. con' \in Console
  BY <1>2, <1>3, VgaAssumption DEF Console
<1>5. con'.y < NROW /\ con'.mem = m
  BY <1>3, VgaAssumption
<1>6. \A c \in Screen : con'.mem[c] = Blank
  BY <1>5, ScreenInCells
<1>7. SameOffscreen(con, con')
  BY <1>5 DEF SameOffscreen
<1> QED
  BY <1>3, <1>4, <1>6, <1>7 DEF IInv, TypeOK, ParkedAtColumnZero, BelowIsBlank

\* A newline leaves memory alone and the guard keeps the row a uint8_t.
LEMMA Newline ==
    ASSUME IInv, newline
    PROVE  /\ con' \in Console
           /\ con'.x = 0 /\ con'.y = con.y + 1 /\ con'.mem = con.mem
<1>1. con \in Console /\ con.y \in 0 .. U8 - 1 /\ con.y < MaxRow
  BY InvParts DEF Console, newline
<1>2. (con.y + 1) % U8 = con.y + 1
  <2>1. con.y + 1 \in 0 .. U8 - 1
    BY <1>1, VgaAssumption
  <2>2. ASSUME NEW k \in 0 .. U8 - 1 PROVE k % U8 = k
    BY VgaAssumption
  <2> QED BY <2>1, <2>2
<1>3. con' = [x |-> 0, y |-> con.y + 1, mem |-> con.mem]
  BY <1>2 DEF newline
<1> QED BY <1>1, <1>3, VgaAssumption DEF Console

LEMMA StepInv == ASSUME IInv, [Next]_vars
                 PROVE  IInv' /\ SameOffscreen(con, con')
<1>0. con \in Console /\ Parked(con) /\ BlankBelow(con)
  BY InvParts
<1>1. CASE clrscr
  BY <1>1, Clrscr
<1>2. CASE newline
  <2>1. /\ con' \in Console
        /\ con'.x = 0 /\ con'.y = con.y + 1 /\ con'.mem = con.mem
    BY <1>2, Newline
  <2>2. \A c \in Screen : c >= (con.y + 2) * NCOL => con.mem[c] = Blank
    <3>1. con.y \in Nat
      BY <1>0, VgaAssumption DEF Console
    <3>2. (con.y + 1) * NCOL <= (con.y + 2) * NCOL
      BY <3>1, RowOrder
    <3>3. (con.y + 1) * NCOL \in Nat /\ (con.y + 2) * NCOL \in Nat
      BY <3>1, RowOrder
    <3> QED BY <1>0, <3>2, <3>3 DEF BlankBelow, Screen
  <2>3. (con'.y + 1) * NCOL = (con.y + 2) * NCOL
    BY <1>0, <2>1 DEF Console
  <2> QED
    BY <2>1, <2>2, <2>3
    DEF IInv, TypeOK, ParkedAtColumnZero, BelowIsBlank, SameOffscreen
<1>3. CASE carriage_return
  <2>1. con' \in Console /\ con'.x = 0 /\ con'.y = con.y /\ con'.mem = con.mem
    BY <1>0, <1>3, VgaAssumption DEF carriage_return, Console
  <2> QED
    BY <1>0, <2>1
    DEF IInv, TypeOK, ParkedAtColumnZero, BelowIsBlank, BlankBelow, SameOffscreen
<1>4. ASSUME NEW g \in Glyph, write_glyph(g)
      PROVE  IInv' /\ SameOffscreen(con, con')
  BY <1>4, WriteGlyph
<1>5. CASE UNCHANGED vars
  BY <1>5 DEF vars, IInv, TypeOK, ParkedAtColumnZero, BelowIsBlank, SameOffscreen
<1> QED BY <1>1, <1>2, <1>3, <1>4, <1>5 DEF Next

\* The console's invariants hold in every reachable state, for every screen
\* size and byte width that VgaAssumption admits, 80 x 25 with 256-valued
\* bytes among them.
THEOREM ConsoleInvariant == Spec => [](TypeOK /\ ParkedAtColumnZero /\ BelowIsBlank)
<1>1. Init => IInv
  BY InitInv
<1>2. IInv /\ [Next]_vars => IInv'
  BY StepInv
<1> QED BY <1>1, <1>2, PTL DEF Spec, IInv

\* Coordinates and memory never leave what one byte per coordinate addresses,
\* although handle_scrolling runs only before and after a store.
THEOREM ConsoleKeepsType == Spec => []TypeOK
BY ConsoleInvariant, PTL

\* No text lies below the cursor, so that a newline may move to a row that
\* write_char does not clear.
THEOREM RowsBelowAreBlank == Spec => []BelowIsBlank
BY ConsoleInvariant, PTL

\* No write of write_char or clrscr leaves the screen.
THEOREM ConsoleStaysOnScreen == Spec => OffscreenUntouched
<1>1. Init => IInv
  BY InitInv
<1>2. IInv /\ [Next]_vars => IInv'
  BY StepInv
<1>3. IInv /\ [Next]_vars => [\A c \in Cells \ Screen : con'.mem[c] = con.mem[c]]_vars
  BY StepInv DEF SameOffscreen
<1> QED BY <1>1, <1>2, <1>3, PTL DEF Spec, OffscreenUntouched

-----------------------------------------------------------------------------
(* The console implements Terminal.  PageOf is the refinement mapping's page *)
(* as a function of a memory.                                               *)

PageOf(m) == [r \in 1..NROW |-> [k \in 1..NCOL |-> m[get_address(k - 1, r - 1)]]]

\* Two positions of the screen never share a cell.
LEMMA AddressInjective ==
    ASSUME NEW c1 \in 0 .. NCOL - 1, NEW r1 \in Nat,
           NEW c2 \in 0 .. NCOL - 1, NEW r2 \in Nat,
           get_address(c1, r1) = get_address(c2, r2)
    PROVE  c1 = c2 /\ r1 = r2
<1>1. NCOL \in Nat \ {0}
  BY VgaAssumption
<1>2. (c1 + r1 * NCOL) % NCOL = c1 /\ (c1 + r1 * NCOL) \div NCOL = r1
  BY <1>1, DivMod
<1>3. (c2 + r2 * NCOL) % NCOL = c2 /\ (c2 + r2 * NCOL) \div NCOL = r2
  BY <1>1, DivMod
<1>4. c1 + r1 * NCOL = c2 + r2 * NCOL
  BY DEF get_address
<1> QED BY <1>2, <1>3, <1>4

LEMMA PageOfScrolled ==
    ASSUME NEW m \in Memory
    PROVE  PageOf(Scrolled(m)) = Term!ScrollUp(PageOf(m))
<1> SUFFICES ASSUME NEW r \in 1..NROW, NEW k \in 1..NCOL
             PROVE  Scrolled(m)[get_address(k - 1, r - 1)] =
                    IF r < NROW THEN m[get_address(k - 1, r)] ELSE Blank
  <2> DEFINE q == PageOf(m)
             n == Scrolled(m)
  <2>1. ASSUME NEW r \in 1..NROW
        PROVE  [k \in 1..NCOL |-> n[get_address(k - 1, r - 1)]]
                 = IF r < NROW THEN q[r + 1] ELSE Term!BlankRow
    <3>1. CASE r < NROW
      <4>1. q[r + 1] = [k \in 1..NCOL |-> m[get_address(k - 1, r)]]
        BY <3>1, VgaAssumption, (r + 1) - 1 = r DEF PageOf
      <4> HIDE DEF q, n
      <4> QED BY <3>1, <4>1 DEF n
    <3>2. CASE ~(r < NROW)
      BY <3>2 DEF Term!BlankRow
    <3> QED BY <3>1, <3>2
  <2> HIDE DEF q, n
  <2>2. PageOf(n) = Term!ScrollUp(q)
    BY <2>1 DEF PageOf, Term!ScrollUp
  <2> QED BY <2>2 DEF q, n
<1> DEFINE c == get_address(k - 1, r - 1)
<1>1. c \in Screen /\ c \in Cells
  BY AddressOnScreen, ScreenInCells, VgaAssumption
<1>2. CASE r < NROW
  <2>1. c < (NROW - 1) * NCOL
    BY <1>2, RowOrder, VgaAssumption DEF get_address
  <2>2. c + NCOL = get_address(k - 1, r)
    BY VgaAssumption DEF get_address
  <2> QED BY <1>1, <1>2, <2>1, <2>2 DEF Scrolled
<1>3. CASE r = NROW
  <2>1. ~(c < (NROW - 1) * NCOL) /\ c < NROW * NCOL
    BY <1>1, <1>3, RowOrder, VgaAssumption DEF get_address, Screen
  <2> QED BY <1>1, <1>3, <2>1 DEF Scrolled
<1> QED BY <1>2, <1>3, VgaAssumption

LEMMA PageOfPut ==
    ASSUME NEW m \in Memory, NEW g \in Glyph,
           NEW cx \in 0 .. NCOL - 1, NEW cy \in 0 .. NROW - 1
    PROVE  PageOf([m EXCEPT ![get_address(cx, cy)] = g])
             = [PageOf(m) EXCEPT ![cy + 1][cx + 1] = g]
<1> DEFINE n == [m EXCEPT ![get_address(cx, cy)] = g]
           p == [PageOf(m) EXCEPT ![cy + 1][cx + 1] = g]
<1>1. ASSUME NEW r \in 1..NROW, NEW k \in 1..NCOL
      PROVE  n[get_address(k - 1, r - 1)] =
             IF r = cy + 1 /\ k = cx + 1 THEN g ELSE m[get_address(k - 1, r - 1)]
  <2>1. get_address(k - 1, r - 1) \in Cells
    BY AddressOnScreen, ScreenInCells, VgaAssumption
  <2>2. CASE r = cy + 1 /\ k = cx + 1
    BY <2>1, <2>2, r - 1 = cy, k - 1 = cx DEF Memory
  <2>3. CASE ~(r = cy + 1 /\ k = cx + 1)
    <3>1. /\ k - 1 \in 0 .. NCOL - 1
          /\ r - 1 \in Nat
          /\ cy \in Nat
          /\ ~(r - 1 = cy /\ k - 1 = cx)
      BY <2>3, VgaAssumption
    <3>2. get_address(k - 1, r - 1) # get_address(cx, cy)
      BY <3>1, AddressInjective
    <3> QED BY <2>1, <2>3, <3>2 DEF Memory
  <2> QED BY <2>2, <2>3
<1>2. p = [r \in 1..NROW |-> [k \in 1..NCOL |->
             IF r = cy + 1 /\ k = cx + 1 THEN g ELSE m[get_address(k - 1, r - 1)]]]
  BY VgaAssumption DEF PageOf
<1> HIDE DEF n
<1>3. PageOf(n) = [r \in 1..NROW |-> [k \in 1..NCOL |->
             IF r = cy + 1 /\ k = cx + 1 THEN g ELSE m[get_address(k - 1, r - 1)]]]
  BY <1>1 DEF PageOf
<1> QED BY <1>2, <1>3 DEF n

\* The variables of Terminal under the mapping, in a state and in its successor.
LEMMA Mapping ==
    /\ Term!PutPage = (IF (IF con.y < NROW THEN con.y + 1 ELSE NROW + 1) > NROW
                       THEN Term!ScrollUp(PageOf(con.mem)) ELSE PageOf(con.mem))
    /\ Term!PutRow = (IF (IF con.y < NROW THEN con.y + 1 ELSE NROW + 1) > NROW
                      THEN NROW ELSE IF con.y < NROW THEN con.y + 1 ELSE NROW + 1)
BY DEF Term!PutPage, Term!PutRow, PageOf

LEMMA GlyphStep ==
    ASSUME NEW g \in Glyph, IInv, write_glyph(g)
    PROVE  Term!Put(g)
<1> DEFINE s == handle_scrolling(con)
           t == put_cell(s, g)
           u == handle_scrolling(t)
<1>0. con \in Console /\ Parked(con) /\ BlankBelow(con) /\ con.y \in Nat
  BY InvParts, VgaAssumption DEF Console
<1>1. s \in Console /\ s.y < NROW /\ BlankBelow(s)
  BY <1>0, HandleScrolling
<1>2. /\ s.x = con.x
      /\ s.y + 1 = Term!PutRow
      /\ PageOf(s.mem) = Term!PutPage
  <2>1. CASE con.y < NROW
    <3>1. s = con /\ ~(con.y + 1 > NROW)
      BY <1>0, <2>1, VgaAssumption DEF handle_scrolling
    <3> HIDE DEF s
    <3> QED BY <2>1, <3>1, Mapping
  <2>2. CASE ~(con.y < NROW)
    <3>1. s.x = 0 /\ s.y = NROW - 1 /\ s.mem = Scrolled(con.mem) /\ NROW + 1 > NROW
      BY <2>2, VgaAssumption DEF handle_scrolling
    <3>2. con.x = 0
      BY <1>0, <2>2, VgaAssumption DEF Parked
    <3>3. con.mem \in Memory
      BY <1>0 DEF Console
    <3> HIDE DEF s
    <3> QED BY <2>2, <3>1, <3>2, <3>3, Mapping, PageOfScrolled, VgaAssumption
  <2> QED BY <2>1, <2>2
<1> HIDE DEF s
<1>3. /\ t \in Console
      /\ \/ s.x < NCOL - 1 /\ t.x = s.x + 1 /\ t.y = s.y
         \/ s.x = NCOL - 1 /\ t.x = 0 /\ t.y = s.y + 1
      /\ t.mem = [s.mem EXCEPT ![get_address(s.x, s.y)] = g]
  BY <1>1, PutCell
<1>4. PageOf(t.mem) = Term!Written(g)
  <2>1. /\ s.mem \in Memory
        /\ s.x \in 0 .. NCOL - 1
        /\ s.y \in 0 .. NROW - 1
    BY <1>1, VgaAssumption DEF Console
  <2>2. PageOf(t.mem) = [PageOf(s.mem) EXCEPT ![s.y + 1][s.x + 1] = g]
    BY <1>3, <2>1, PageOfPut
  <2> QED BY <1>2, <2>2 DEF Term!Written
<1> HIDE DEF t
<1>5. con' = u
  BY DEF write_glyph, u, t, s
<1>6. s.x \in 0 .. NCOL - 1 /\ s.y \in 0 .. NROW - 1 /\ NROW \in Nat \ {0} /\ NCOL \in Nat \ {0}
  BY <1>1, VgaAssumption DEF Console
<1>7. CASE t.y < NROW
  <2>1. con' = t
    BY <1>5, <1>7 DEF handle_scrolling
  <2>2. \/ /\ con.x + 1 < NCOL
           /\ con'.x + 1 = con.x + 1 + 1
           /\ con'.y + 1 = Term!PutRow
        \/ /\ con.x + 1 = NCOL
           /\ Term!PutRow < NROW
           /\ con'.x + 1 = 1
           /\ con'.y + 1 = Term!PutRow + 1
    BY <1>2, <1>3, <1>6, <1>7, <2>1
  <2>3. con'.y < NROW /\ PageOf(con'.mem) = Term!Written(g)
    BY <1>4, <1>7, <2>1
  <2> QED BY <2>2, <2>3 DEF Term!Put, PageOf
<1>8. CASE ~(t.y < NROW)
  <2>1. con'.x = 0 /\ con'.y = NROW - 1 /\ con'.mem = Scrolled(t.mem)
    BY <1>5, <1>8 DEF handle_scrolling
  <2>2. /\ con.x + 1 = NCOL
        /\ Term!PutRow = NROW
        /\ con'.x + 1 = 1
        /\ con'.y < NROW /\ con'.y + 1 = NROW
    BY <1>2, <1>3, <1>6, <1>8, <2>1
  <2>3. PageOf(con'.mem) = Term!ScrollUp(Term!Written(g))
    <3>1. t.mem \in Memory
      BY <1>3 DEF Console
    <3> QED BY <1>4, <2>1, <3>1, PageOfScrolled
  <2> QED BY <2>2, <2>3 DEF Term!Put, PageOf
<1> QED BY <1>7, <1>8

LEMMA TerminalStep == ASSUME IInv, [Next]_vars PROVE [Term!Next]_(Term!vars)
<1>0. con \in Console /\ con.x \in Nat /\ con.y \in Nat /\ con.mem \in Memory
  BY InvParts, VgaAssumption DEF Console
<1>1. CASE clrscr
  <2>1. con'.x = 0 /\ con'.y = 0 /\ 0 < NROW
    BY <1>1, VgaAssumption DEF clrscr
  <2>2. PageOf(con'.mem) = [r \in 1..NROW |-> Term!BlankRow]
    <3>1. ASSUME NEW r \in 1..NROW, NEW k \in 1..NCOL
          PROVE  con'.mem[get_address(k - 1, r - 1)] = Blank
      BY <1>1, AddressOnScreen, ScreenInCells, VgaAssumption DEF clrscr
    <3> QED BY <3>1 DEF PageOf, Term!BlankRow
  <2> QED BY <2>1, <2>2 DEF Term!Next, Term!Clear, PageOf
<1>2. CASE newline
  <2>1. con'.x = 0 /\ con'.y = con.y + 1 /\ con'.mem = con.mem
    BY <1>2, Newline
  <2> QED BY <1>0, <2>1, VgaAssumption DEF Term!Next, Term!NewLine
<1>3. CASE carriage_return
  <2>1. con'.x = 0 /\ con'.y = con.y /\ con'.mem = con.mem
    BY <1>3 DEF carriage_return
  <2> QED BY <2>1 DEF Term!Next, Term!Return
<1>4. ASSUME NEW g \in Glyph, write_glyph(g) PROVE Term!Next
  BY <1>4, GlyphStep DEF Term!Next
<1>5. CASE UNCHANGED vars
  BY <1>5 DEF vars, Term!vars
<1> QED BY <1>1, <1>2, <1>3, <1>4, <1>5 DEF Next

\* write_char and clrscr on linear video memory implement the page of rows of
\* module Terminal, for every screen size.
THEOREM ConsoleImplementsTerminal == Spec => ImplementsTerminal
<1>1. Init => IInv
  BY InitInv
<1>2. IInv /\ [Next]_vars => IInv'
  BY StepInv
<1>3. Init => Term!Init
  <2> SUFFICES ASSUME Init PROVE Term!Init
    OBVIOUS
  <2>1. con.x = 0 /\ con.y = 0 /\ 0 < NROW
    BY VgaAssumption DEF Init
  <2>2. ASSUME NEW r \in 1..NROW, NEW k \in 1..NCOL
        PROVE  con.mem[get_address(k - 1, r - 1)] = Blank
    BY AddressOnScreen, ScreenInCells, VgaAssumption DEF Init
  <2> QED BY <2>1, <2>2 DEF Term!Init, Term!BlankRow
<1>4. IInv /\ [Next]_vars => [Term!Next]_(Term!vars)
  BY TerminalStep
<1> QED BY <1>1, <1>2, <1>3, <1>4, PTL DEF Spec, ImplementsTerminal, Term!Spec
=============================================================================
