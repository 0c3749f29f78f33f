---------------------------- MODULE Screen_proofs ----------------------------
(***************************************************************************)
(* For every number of terminals and every size of the screen: as long as  *)
(* backspace has not moved a cursor left of its line and nothing fell into *)
(* a putc of terminal_read, no store leaves the text screen and the        *)
(* terminals are the consoles of Consoles.                                 *)
(***************************************************************************)
EXTENDS Screen, SequenceTheorems, TLAPS

\* A cursor on the screen, below at least as many lines as its input has
\* wrapped over.
OnScreen(x, y, row) ==
    /\ x \in 0 .. (Cols - 1)
    /\ y \in 0 .. (Rows - 1)
    /\ row \in 0 .. y

Info == [x : 0 .. (Cols - 1), y : 0 .. (Rows - 1), row : 0 .. (Rows - 1), col : 0 .. (Cols - 1)]

\* The loops that run with IF = 0 write on a screen of their own.
OutType ==
    /\ out \in [kind : {"none", "front", "back", "prompt", "refuse"}, tid : Terminal,
                rest : Seq(Char), some : BOOLEAN]
    /\ out.kind = "front" => out.tid = current_terminal
    /\ out.kind = "back" => out.tid # current_terminal

Cursors ==
    /\ OnScreen(Front.x, Front.y, Front.row)
    /\ column_stack \in 0 .. (Cols - 1)
    /\ terminal_info \in [Terminal -> Info]
    /\ \A t \in Terminal : terminal_info[t].row <= terminal_info[t].y
    /\ strayed = FALSE

Pages ==
    /\ Front.m \in [Offset -> Cell]
    /\ saved_screen \in [Terminal -> [Offset -> Cell]]

\* Where a character that is not a newline leaves the cursor.
CharX(x) == IF x + 1 >= Cols THEN 0 ELSE x + 1
CharY(x, y) == IF x + 1 < Cols THEN y ELSE IF Bottom(y) THEN Rows - 1 ELSE y + 1
CharRow(x, row) == IF x + 1 >= Cols THEN Capped(row + 1) ELSE row
CharMem(m, x, y, t, c) ==
    IF x + 1 >= Cols /\ Bottom(y) THEN Scroll(Poke(m, x, y, <<c, t>>), t)
    ELSE Poke(m, x, y, <<c, t>>)

\* Where a newline does.
DownY(y) == IF Bottom(y) THEN Rows - 1 ELSE y + 1
EnterY(x, y, row) == DownY(y) - Adjust(x, row)
EnterMem(m, y, t) == IF Bottom(y) THEN Scroll(m, t) ELSE m

\* The screen in the middle of a putc of c, in terms of the screen b at its
\* beginning and of where the reader is.
Screen(m, x, y, row) ==
    video_mem = m /\ screen_x = x /\ screen_y = y /\ row_stack = row

Partial(b, ct, c, stage, adj) ==
    LET m == Poke(b.m, b.x, b.y, <<c, ct>>)
    IN  \/ stage = "column" /\ c # "\n" /\ Screen(m, b.x, b.y, b.row)
        \/ stage = "wrap" /\ c # "\n" /\ Screen(m, b.x + 1, b.y, b.row)
        \/ /\ stage = "down" /\ c # "\n" /\ b.x + 1 >= Cols
           /\ Screen(m, 0, b.y, CharRow(b.x, b.row))
        \/ /\ stage = "fit" /\ c # "\n"
           /\ Screen(CharMem(b.m, b.x, b.y, ct, c), CharX(b.x), CharY(b.x, b.y),
                     CharRow(b.x, b.row))
        \/ /\ stage = "enter" /\ c = "\n" /\ Screen(b.m, b.x, b.y, b.row)
           /\ adj = Adjust(b.x, b.row)
        \/ /\ stage = "adjust" /\ c = "\n" /\ adj = Adjust(b.x, b.row)
           /\ \E row : Screen(EnterMem(b.m, b.y, ct), 0, DownY(b.y), row)

\* At most one reader is in the middle of a putc, of the first character that it
\* has to print.
Putting ==
    /\ note \in [Terminal -> Seq(Char)]
    /\ at = [t \in Terminal |-> at[t]]
    /\ adjust = [t \in Terminal |-> adjust[t]]
    /\ \A t, u \in Terminal : at[t] # "none" /\ at[u] # "none" => t = u
    /\ \A t \in Terminal : at[t] # "none" =>
          note[t] # <<>> /\ Partial(before, current_terminal, Head(note[t]), at[t], adjust[t])

Good == current_terminal \in Terminal /\ OutType /\ Cursors /\ Pages /\ Putting

\* The inductive invariant.  CursorInside alone is not inductive: where the
\* next store goes depends on what is saved for the other terminals, and that on
\* the bytes of terminal_info holding every column and line; and how a putc ends
\* depends on what its reader has done of it.
IInv == slipped \in BOOLEAN /\ torn \in BOOLEAN /\ (~slipped /\ ~torn => Good)

-----------------------------------------------------------------------------
(***************************************************************************)
(* Offsets.                                                                *)
(***************************************************************************)
LEMMA Sizes == /\ Rows \in Nat /\ Cols \in Nat /\ Rows >= 2 /\ Cols >= 1
               /\ Rows < 256 /\ Cols < 256
  BY SizeAssumption

LEMMA Distribute ==
    ASSUME NEW a \in Int, NEW b \in Int PROVE Cols * (a + b) = Cols * a + Cols * b
  BY Sizes

\* A line lower down begins at least Cols further on.
LEMMA LinesApart ==
    ASSUME NEW a \in Int, NEW b \in Int, a < b PROVE Cols * a + Cols <= Cols * b
  <1>1. PICK d \in Nat : b = a + 1 + d
    <2>1. b - a - 1 \in Nat /\ b = a + 1 + (b - a - 1)
      OBVIOUS
    <2> QED BY <2>1
  <1>2. Cols * b = Cols * (a + 1) + Cols * d
    BY <1>1, Distribute
  <1>3. Cols * (a + 1) = Cols * a + Cols * 1
    BY Distribute
  <1>4. Cols * d >= 0 /\ Cols * d \in Int /\ Cols * a \in Int
    BY Sizes
  <1> QED BY <1>2, <1>3, <1>4, Sizes

\* The cells of the lines of the screen are the offsets of its memory.
LEMMA CellOffset ==
    ASSUME NEW x \in 0 .. (Cols - 1), NEW y \in 0 .. (Rows - 1)
    PROVE  Cols * y + x \in Offset
  <1>1. Cols * y \in Int /\ Cols * Rows \in Int /\ Cols * Rows = Rows * Cols
    BY Sizes
  <1>2. Cols * y >= 0
    BY Sizes
  <1>3. Cols * y + Cols <= Cols * Rows
    BY LinesApart, Sizes
  <1> QED BY <1>1, <1>2, <1>3, Sizes DEF Offset

\* A cell has one place.
LEMMA CellUnique ==
    ASSUME NEW x \in 0 .. (Cols - 1), NEW y \in 0 .. (Rows - 1),
           NEW u \in 0 .. (Cols - 1), NEW v \in 0 .. (Rows - 1),
           Cols * y + x = Cols * v + u
    PROVE  x = u /\ y = v
  <1>1. Cols * y \in Int /\ Cols * v \in Int
    BY Sizes
  <1>2. ~(y < v)
    BY <1>1, LinesApart, Sizes
  <1>3. ~(v < y)
    BY <1>1, LinesApart, Sizes
  <1>4. y = v
    BY <1>2, <1>3, Sizes
  <1> QED BY <1>1, <1>4, Sizes

-----------------------------------------------------------------------------
(***************************************************************************)
(* What putc, enter and their counterparts for a saved screen do to a      *)
(* cursor and to the memory.                                               *)
(***************************************************************************)
LEMMA PokeType ==
    ASSUME NEW m \in [Offset -> Cell], NEW x, NEW y, NEW cell \in Cell
    PROVE  Poke(m, x, y, cell) \in [Offset -> Cell]
  BY DEF Poke

LEMMA ScrollType ==
    ASSUME NEW m \in [Offset -> Cell], NEW t \in Terminal
    PROVE  Scroll(m, t) \in [Offset -> Cell]
  <1>1. Cols * (Rows - 1) \in Int /\ Rows * Cols \in Int
        /\ Cols * (Rows - 1) + Cols <= Rows * Cols
    BY LinesApart, Sizes
  <1>2. \A o \in Offset : o < Cols * (Rows - 1) => o + Cols \in Offset
    BY <1>1, Sizes DEF Offset
  <1>3. <<" ", t>> \in Cell
    BY DEF Cell
  <1> QED BY <1>2, <1>3 DEF Scroll

LEMMA BlankType == ASSUME NEW t \in Terminal PROVE Blank(t) \in [Offset -> Cell]
  BY DEF Blank, Cell

\* enter_handler leaves the cursor on the screen.
LEMMA EnterOn ==
    ASSUME NEW x, NEW y, NEW row, OnScreen(x, y, row)
    PROVE  OnScreen(0, EnterY(x, y, row), 0)
  BY Sizes DEF OnScreen, EnterY, DownY, Bottom, Adjust

\* The last column wraps to the first.
LEMMA WrapsToZero ==
    ASSUME NEW x \in 0 .. (Cols - 1), x + 1 >= Cols PROVE (x + 1) % Cols = 0
  <1>1. x + 1 = Cols
    BY Sizes
  <1> QED BY <1>1, Sizes

\* The last assignment of putc changes nothing on the screen.
LEMMA FitStays ==
    ASSUME NEW x \in 0 .. (Cols - 1), NEW y \in 0 .. (Rows - 1) PROVE Fit(x, y) = y
  <1>1. x \div Cols = 0 /\ y \div Rows = 0
    BY Sizes
  <1>2. Quot(x, Cols) = 0 /\ Quot(y, Rows) = 0
    BY <1>1, Sizes DEF Quot
  <1>3. y + Quot(x, Cols) = y
    BY <1>2
  <1>4. Rows * 0 = 0
    BY Sizes
  <1>5. Rem(y, Rows) = y
    BY <1>2, <1>4, Sizes DEF Rem
  <1> QED BY <1>3, <1>5 DEF Fit

\* A byte holds a column, a line, and either of them plus one.
LEMMA ByteHolds == ASSUME NEW n \in 0 .. 255 PROVE n % 256 = n
  OBVIOUS

LEMMA CharOn ==
    ASSUME NEW x, NEW y, NEW row, OnScreen(x, y, row)
    PROVE  OnScreen(CharX(x), CharY(x, y), CharRow(x, row))
  BY Sizes DEF OnScreen, CharX, CharY, CharRow, Bottom, Capped

\* While no reader is in the middle of a putc, Front is the screen.
LEMMA CalmIs ==
    ASSUME ~Busy
    PROVE  Front.m = video_mem /\ Front.x = screen_x /\ Front.y = screen_y
           /\ Front.row = row_stack
  BY DEF Front, Here

LEMMA CalmIsNext ==
    ASSUME ~Busy'
    PROVE  Front'.m = video_mem' /\ Front'.x = screen_x' /\ Front'.y = screen_y'
           /\ Front'.row = row_stack'
  BY DEF Front, Here

\* putc on the screen, in these terms.
LEMMA PutcIs ==
    ASSUME Good, ~Busy, NEW c \in Char, putc(c)
    PROVE  /\ strayed' = FALSE
           /\ c = "\n" =>
                /\ video_mem' = EnterMem(video_mem, screen_y, current_terminal)
                /\ screen_x' = 0
                /\ screen_y' = EnterY(screen_x, screen_y, row_stack)
                /\ row_stack' = 0
           /\ c # "\n" =>
                /\ video_mem' = CharMem(video_mem, screen_x, screen_y, current_terminal, c)
                /\ screen_x' = CharX(screen_x)
                /\ screen_y' = CharY(screen_x, screen_y)
                /\ row_stack' = CharRow(screen_x, row_stack)
  <1>1. strayed = FALSE /\ OnScreen(screen_x, screen_y, row_stack)
    BY CalmIs DEF Good, Cursors
  <1>2. CASE c = "\n"
    BY <1>1, <1>2 DEF putc, enter_handler, EnterMem, EnterY, DownY
  <1>3. CASE c # "\n"
    <2>1. PutChar(c)
      BY <1>3 DEF putc
    <2>2. screen_x \in 0 .. (Cols - 1) /\ screen_y \in 0 .. (Rows - 1)
      BY <1>1 DEF OnScreen
    <2>3. ~Strays(screen_x, screen_y)
      BY <2>2, CellOffset DEF Strays
    <2>4. strayed' = FALSE
      BY <1>1, <2>1, <2>3 DEF PutChar
    <2>5. screen_x + 1 >= Cols => (screen_x + 1) % Cols = 0
      BY <2>2, WrapsToZero
    <2>6. screen_x' = CharX(screen_x)
      BY <2>1, <2>2, <2>5, Sizes DEF PutChar, CharX
    <2>7. screen_y' = CharY(screen_x, screen_y)
      <3>1. screen_y' = Fit(CharX(screen_x), CharY(screen_x, screen_y))
        <4> DEFINE wraps == screen_x + 1 >= Cols
                   x == IF wraps /\ Bottom(screen_y) THEN 0
                        ELSE IF wraps THEN (screen_x + 1) % Cols ELSE screen_x + 1
                   y == IF ~wraps THEN screen_y ELSE IF Bottom(screen_y) THEN Rows - 1
                        ELSE screen_y + 1
        <4>1. screen_y' = Fit(x, y)
          BY <2>1 DEF PutChar
        <4>2. x = CharX(screen_x)
          BY <2>2, <2>5, Sizes DEF CharX
        <4>3. y = CharY(screen_x, screen_y)
          BY <2>2, Sizes DEF CharY
        <4> HIDE DEF x, y
        <4> QED BY <4>1, <4>2, <4>3
      <3>2. CharX(screen_x) \in 0 .. (Cols - 1) /\ CharY(screen_x, screen_y) \in 0 .. (Rows - 1)
        BY <1>1, CharOn DEF OnScreen
      <3> QED BY <3>1, <3>2, FitStays
    <2>8. row_stack' = CharRow(screen_x, row_stack)
      BY <2>1 DEF PutChar, CharRow
    <2>9. video_mem' = CharMem(video_mem, screen_x, screen_y, current_terminal, c)
      BY <2>1 DEF PutChar, CharMem
    <2> QED BY <1>3, <2>4, <2>6, <2>7, <2>8, <2>9
  <1> QED BY <1>2, <1>3

\* putc_terminal on the saved screen of t, in the same terms.
LEMMA PutcTerminalIs ==
    ASSUME Good, NEW c \in Char, NEW t \in Terminal, putc_terminal(c, t)
    PROVE  LET i == terminal_info[t]
           IN  /\ strayed' = FALSE
               /\ c = "\n" =>
                    /\ saved_screen' = [saved_screen EXCEPT ![t] = EnterMem(@, i.y, t)]
                    /\ terminal_info' = [terminal_info EXCEPT ![t] =
                           [x |-> 0, y |-> EnterY(i.x, i.y, i.row), row |-> 0, col |-> i.col]]
               /\ c # "\n" =>
                    /\ saved_screen' = [saved_screen EXCEPT ![t] = CharMem(@, i.x, i.y, t, c)]
                    /\ terminal_info' = [terminal_info EXCEPT ![t] =
                           [x |-> CharX(i.x), y |-> CharY(i.x, i.y),
                            row |-> CharRow(i.x, i.row), col |-> i.col]]
  <1> DEFINE i == terminal_info[t]
  <1>1. strayed = FALSE /\ i.x \in 0 .. (Cols - 1) /\ i.y \in 0 .. (Rows - 1)
        /\ i.row \in 0 .. (Rows - 1)
    BY DEF Good, Cursors, Info
  <1>2. CASE c = "\n"
    BY <1>1, <1>2 DEF putc_terminal, enter_handler_terminal, EnterMem, EnterY, DownY
  <1>3. CASE c # "\n"
    <2>1. PutCharTerminal(c, t)
      BY <1>3 DEF putc_terminal
    <2>2. ~Strays(i.x, i.y)
      BY <1>1, CellOffset DEF Strays
    <2>3. strayed' = FALSE
      BY <1>1, <2>1, <2>2 DEF PutCharTerminal
    <2>4. (i.x + 1) % 256 = i.x + 1 /\ (i.row + 1) % 256 = i.row + 1
      BY <1>1, Sizes
    <2>5. i.x + 1 >= Cols => (i.x + 1) % Cols = 0
      BY <1>1, WrapsToZero
    <2>6. saved_screen' = [saved_screen EXCEPT ![t] = CharMem(@, i.x, i.y, t, c)]
      BY <2>1, <2>4 DEF PutCharTerminal, CharMem
    <2>7. terminal_info' = [terminal_info EXCEPT ![t] =
             [x |-> CharX(i.x), y |-> CharY(i.x, i.y), row |-> CharRow(i.x, i.row),
              col |-> i.col]]
      <3> DEFINE wraps == i.x + 1 >= Cols
      <3> HIDE DEF i
      <3>1. (IF wraps /\ Bottom(i.y) THEN 0 ELSE IF wraps THEN (i.x + 1) % Cols ELSE i.x + 1)
            = CharX(i.x)
        BY <1>1, <2>5, Sizes DEF CharX
      <3>2. (IF ~wraps THEN i.y ELSE IF Bottom(i.y) THEN Rows - 1 ELSE i.y + 1)
            = CharY(i.x, i.y)
        BY <1>1, Sizes DEF CharY
      <3>3. (IF wraps THEN Capped((i.row + 1) % 256) ELSE i.row) = CharRow(i.x, i.row)
        BY <2>4 DEF CharRow
      <3>4. terminal_info' = [terminal_info EXCEPT ![t] =
               [x |-> CharX(i.x), y |-> Fit(CharX(i.x), CharY(i.x, i.y)),
                row |-> CharRow(i.x, i.row), col |-> i.col]]
        <4> DEFINE next == (i.x + 1) % 256
                   x == IF next >= Cols /\ Bottom(i.y) THEN 0
                        ELSE IF next >= Cols THEN next % Cols ELSE next
                   y == IF ~(next >= Cols) THEN i.y ELSE IF Bottom(i.y) THEN Rows - 1
                        ELSE i.y + 1
                   row == IF next >= Cols THEN Capped((i.row + 1) % 256) ELSE i.row
        <4>1. terminal_info' = [terminal_info EXCEPT ![t] =
                 [x |-> x, y |-> Fit(x, y), row |-> row, col |-> i.col]]
          BY <2>1 DEF PutCharTerminal, i
        <4>2. next = i.x + 1
          BY <2>4
        <4> HIDE DEF next
        <4>3. x = CharX(i.x) /\ y = CharY(i.x, i.y) /\ row = CharRow(i.x, i.row)
          BY <3>1, <3>2, <3>3, <4>2, Zenon
        <4> HIDE DEF x, y, row
        <4> QED BY <4>1, <4>3
      <3>5. Fit(CharX(i.x), CharY(i.x, i.y)) = CharY(i.x, i.y)
        <4>1. OnScreen(CharX(i.x), CharY(i.x, i.y), CharRow(i.x, 0))
          BY <1>1, CharOn DEF OnScreen
        <4>2. CharX(i.x) \in 0 .. (Cols - 1) /\ CharY(i.x, i.y) \in 0 .. (Rows - 1)
          BY <4>1 DEF OnScreen
        <4> QED BY <4>2, FitStays
      <3> QED BY <3>4, <3>5
    <2> QED BY <1>3, <2>3, <2>6, <2>7
  <1> QED BY <1>2, <1>3

-----------------------------------------------------------------------------
(***************************************************************************)
(* The invariant.                                                          *)
(***************************************************************************)
LEMMA ColourIn == ASSUME NEW t \in Terminal, NEW c \in Char, c # "\n" PROVE <<c, t>> \in Cell
  BY DEF Cell, Char

LEMMA CharMemType ==
    ASSUME NEW m \in [Offset -> Cell], NEW x, NEW y, NEW t \in Terminal,
           NEW c \in Char, c # "\n"
    PROVE  CharMem(m, x, y, t, c) \in [Offset -> Cell]
  BY ColourIn, PokeType, ScrollType DEF CharMem

LEMMA EnterMemType ==
    ASSUME NEW m \in [Offset -> Cell], NEW y, NEW t \in Terminal
    PROVE  EnterMem(m, y, t) \in [Offset -> Cell]
  BY ScrollType DEF EnterMem

\* The readers are left alone.
LEMMA ReadersRest ==
    ASSUME Good, ~Busy, UNCHANGED printing PROVE ~Busy' /\ Putting'
  BY DEF Good, Busy, printing, Putting

\* Nothing on the screen changes.
LEMMA FrontStays == ASSUME UNCHANGED <<screen, at, before>> PROVE Front' = Front /\ Busy' = Busy
  BY DEF screen, Front, Here, Busy

\* The same in the middle of a putc.
LEMMA ReadersWait ==
    ASSUME Putting, UNCHANGED <<screen, current_terminal, printing>> PROVE Putting'
  BY DEF Putting, printing, screen, Partial, Screen

\* A character, and set_column_stack after it or not.
LEMMA PutcKeeps ==
    ASSUME Good, ~Busy, ~Busy', NEW c \in Char, putc(c),
           column_stack' = column_stack \/ column_stack' = screen_x',
           UNCHANGED <<current_terminal, terminal_info, saved_screen>>
    PROVE  Cursors' /\ Pages'
  <1>1. OnScreen(screen_x, screen_y, row_stack) /\ video_mem \in [Offset -> Cell]
        /\ current_terminal \in Terminal
    BY CalmIs DEF Good, Cursors, Pages
  <1>2. OnScreen(screen_x', screen_y', row_stack')
    <2>1. CASE c = "\n"
      BY <1>1, <2>1, PutcIs, EnterOn
    <2>2. CASE c # "\n"
      BY <1>1, <2>2, PutcIs, CharOn
    <2> QED BY <2>1, <2>2
  <1>3. video_mem' \in [Offset -> Cell]
    <2>1. CASE c = "\n"
      BY <1>1, <2>1, PutcIs, EnterMemType
    <2>2. CASE c # "\n"
      <3>1. video_mem' = CharMem(video_mem, screen_x, screen_y, current_terminal, c)
        BY <2>2, PutcIs
      <3> QED BY <1>1, <2>2, <3>1, CharMemType
    <2> QED BY <2>1, <2>2
  <1>4. strayed' = FALSE
    BY PutcIs
  <1>5. column_stack' \in 0 .. (Cols - 1)
    BY <1>2 DEF OnScreen, Good, Cursors
  <1> QED BY <1>2, <1>3, <1>4, <1>5, CalmIsNext DEF Good, Cursors, Pages

\* The same on the saved screen of a terminal.
LEMMA PutcTerminalKeeps ==
    ASSUME Good, NEW c \in Char, NEW t \in Terminal, putc_terminal(c, t),
           UNCHANGED <<current_terminal, screen, column_stack, printing>>
    PROVE  Cursors' /\ Pages'
  <1> DEFINE i == terminal_info[t]
             j == IF c = "\n" THEN [x |-> 0, y |-> EnterY(i.x, i.y, i.row), row |-> 0,
                                    col |-> i.col]
                  ELSE [x |-> CharX(i.x), y |-> CharY(i.x, i.y), row |-> CharRow(i.x, i.row),
                        col |-> i.col]
             m == IF c = "\n" THEN EnterMem(saved_screen[t], i.y, t)
                  ELSE CharMem(saved_screen[t], i.x, i.y, t, c)
  <1>1. i \in Info /\ OnScreen(i.x, i.y, i.row) /\ saved_screen[t] \in [Offset -> Cell]
    BY Sizes DEF Good, Cursors, Pages, Info, OnScreen
  <1>2. OnScreen(j.x, j.y, j.row)
    BY <1>1, EnterOn, CharOn
  <1>3. j.col = i.col /\ DOMAIN j = {"x", "y", "row", "col"}
    OBVIOUS
  <1>4. j \in Info /\ j.row <= j.y
    <2>1. /\ j.x \in 0 .. (Cols - 1) /\ j.y \in 0 .. (Rows - 1) /\ j.row \in 0 .. (Rows - 1)
          /\ j.col \in 0 .. (Cols - 1) /\ j.row <= j.y
      BY <1>1, <1>2, <1>3, Sizes DEF OnScreen, Info
    <2>2. j = [x |-> j.x, y |-> j.y, row |-> j.row, col |-> j.col]
      OBVIOUS
    <2> QED BY <2>1, <2>2 DEF Info
  <1>5. m \in [Offset -> Cell]
    BY <1>1, CharMemType, EnterMemType
  <1>6. strayed' = FALSE /\ terminal_info' = [terminal_info EXCEPT ![t] = j]
        /\ saved_screen' = [saved_screen EXCEPT ![t] = m]
    BY PutcTerminalIs
  <1> HIDE DEF i, j, m
  <1>0. Front' = Front
    BY FrontStays DEF printing
  <1>7. Cursors'
    BY <1>0, <1>4, <1>6 DEF Good, Cursors, OnScreen
  <1>8. Pages'
    BY <1>0, <1>5, <1>6 DEF Good, Pages
  <1> QED BY <1>7, <1>8

LEMMA IdleOut == Idle \in [kind : {"none", "front", "back", "prompt", "refuse"}, tid : Terminal,
                           rest : Seq(Char), some : BOOLEAN]
                 /\ Idle.kind = "none"
  BY FirstAssumption DEF Idle

LEMMA InitHolds == ASSUME Init PROVE IInv
  <1>1. OutType
    <2>1. out = Idle
      BY DEF Init
    <2> QED BY <2>1, IdleOut DEF OutType
  <1>2. ~Busy /\ Putting
    BY DEF Init, Busy, Putting
  <1>3. Cursors
    <2>1. OnScreen(Front.x, Front.y, Front.row)
      BY <1>2, CalmIs, Sizes DEF Init, OnScreen
    <2> QED BY <2>1, Sizes DEF Init, Cursors, Info
  <1>4. Pages
    BY <1>2, CalmIs, BlankType, FirstAssumption DEF Init, Pages
  <1> QED BY <1>1, <1>2, <1>3, <1>4, FirstAssumption DEF Init, IInv, Good

\* One character of a loop is done.
LEMMA AdvanceKeeps ==
    ASSUME OutType, Advance, out.rest # <<>>, UNCHANGED current_terminal
    PROVE  OutType'
  <1>1. Tail(out.rest) \in Seq(Char)
    BY DEF OutType
  <1>2. out' = [out EXCEPT !.rest = Tail(out.rest), !.some = TRUE]
    BY DEF Advance
  <1> QED BY <1>1, <1>2 DEF OutType

\* What does not touch the screen leaves a putc that is under way alone.
LEMMA ApartKeeps == ASSUME Good, Apart PROVE Good'
  <1>0. current_terminal \in Terminal /\ OutType /\ Cursors /\ Pages /\ Putting
    BY DEF Good
  <1>1. ASSUME NEW t \in Terminal, NEW text \in Texts, WriteCall(t, text) PROVE Good'
    <2>1. text \in Seq(Char)
      BY TextAssumption
    <2>2. OutType'
      BY <1>0, <1>1, <2>1 DEF WriteCall, OutType
    <2>3. Front' = Front
      BY <1>1, FrontStays DEF WriteCall, printing
    <2>4. Putting'
      BY <1>0, <1>1, ReadersWait DEF WriteCall
    <2> QED BY <1>0, <1>1, <2>2, <2>3, <2>4 DEF WriteCall, Good, Cursors, Pages, OnScreen
  <1>2. CASE WriteBack
    <2>1. Head(out.rest) \in Char /\ out.tid \in Terminal
      BY <1>0, <1>2 DEF WriteBack, OutType
    <2>2. Cursors' /\ Pages'
      BY <1>2, <2>1, PutcTerminalKeeps DEF WriteBack
    <2>3. OutType'
      BY <1>0, <1>2, AdvanceKeeps DEF WriteBack
    <2>4. Putting'
      BY <1>0, <1>2, ReadersWait DEF WriteBack
    <2> QED BY <1>0, <1>2, <2>2, <2>3, <2>4 DEF WriteBack, Good
  <1>3. CASE WriteReturns
    <2>1. OutType'
      BY <1>0, <1>3, IdleOut DEF WriteReturns, OutType
    <2>2. Cursors'
      <3>1. terminal_info' \in [Terminal -> Info]
        BY <1>0, <1>3 DEF WriteReturns, Cursors, OutType, Info
      <3>2. \A t \in Terminal : terminal_info'[t].row = terminal_info[t].row
                               /\ terminal_info'[t].y = terminal_info[t].y
        BY <1>0, <1>3 DEF WriteReturns, Cursors, OutType, Info
      <3>3. Front' = Front
        BY <1>3, FrontStays DEF WriteReturns, printing
      <3> QED BY <1>0, <1>3, <3>1, <3>2, <3>3 DEF WriteReturns, Cursors, OnScreen
    <2>3. Pages'
      <3>1. Front' = Front
        BY <1>3, FrontStays DEF WriteReturns, printing
      <3> QED BY <1>0, <1>3, <3>1 DEF WriteReturns, Pages
    <2>4. Putting'
      BY <1>0, <1>3, ReadersWait DEF WriteReturns
    <2> QED BY <1>0, <1>3, <2>1, <2>2, <2>3, <2>4 DEF WriteReturns, Good
  <1>4. CASE ReadPrints
    <2>1. OutType'
      BY <1>0, <1>4 DEF ReadPrints, OutType
    <2>2. Front' = Front
      BY <1>4, FrontStays DEF ReadPrints
    <2>3. /\ note' = [note EXCEPT ![current_terminal] = Note] /\ note[current_terminal] = <<>>
          /\ UNCHANGED <<screen, current_terminal, at, adjust, before>>
      BY <1>4 DEF ReadPrints
    <2>4. Putting'
      <3>1. note' \in [Terminal -> Seq(Char)]
        BY <1>0, <2>3, TextAssumption DEF Putting
      <3>2. ASSUME NEW t \in Terminal, at[t] # "none"
            PROVE  note'[t] = note[t] /\ note[t] # <<>>
                   /\ Partial(before, current_terminal, Head(note[t]), at[t], adjust[t])'
        <4>1. note[t] # <<>> /\ Partial(before, current_terminal, Head(note[t]), at[t], adjust[t])
          BY <1>0, <3>2 DEF Putting
        <4>2. note'[t] = note[t]
          BY <1>0, <2>3, <4>1 DEF Putting
        <4> QED BY <2>3, <4>1, <4>2 DEF Partial, Screen, screen
      <3> QED BY <1>0, <2>3, <3>1, <3>2 DEF Putting
    <2> QED BY <1>0, <1>4, <2>1, <2>2, <2>4 DEF ReadPrints, Good, Cursors, Pages, OnScreen
  <1> QED BY <1>1, <1>2, <1>3, <1>4 DEF Apart

\* On the screen, with no putc under way.
LEMMA ScreenKeeps == ASSUME Good, OnTheScreen, ~Busy, ~(screen_x' < 0) PROVE Good' /\ ~Busy'
  <1>0. /\ current_terminal \in Terminal /\ OutType /\ Cursors /\ Pages
        /\ OnScreen(screen_x, screen_y, row_stack) /\ video_mem \in [Offset -> Cell]
        /\ column_stack \in 0 .. (Cols - 1) /\ terminal_info \in [Terminal -> Info]
        /\ (\A t \in Terminal : terminal_info[t].row <= terminal_info[t].y)
        /\ strayed = FALSE /\ saved_screen \in [Terminal -> [Offset -> Cell]]
    BY CalmIs DEF Good, Cursors, Pages
  <1>a. UNCHANGED printing
    BY DEF OnTheScreen, WriteFront, PressKey, PressEnter, PressBackspace, CtrlL, SwitchRefused,
           PromptChar, PromptDone, switch_to_terminal
  <1>b. ~Busy' /\ Putting'
    BY <1>a, ReadersRest
  <1>c. ASSUME OnScreen(screen_x', screen_y', row_stack'), column_stack' \in 0 .. (Cols - 1),
               terminal_info' \in [Terminal -> Info],
               \A t \in Terminal : terminal_info'[t].row <= terminal_info'[t].y,
               strayed' = FALSE
        PROVE  Cursors'
    BY <1>b, <1>c, CalmIsNext DEF Cursors
  <1>d. ASSUME video_mem' \in [Offset -> Cell], saved_screen' \in [Terminal -> [Offset -> Cell]]
        PROVE  Pages'
    BY <1>b, <1>d, CalmIsNext DEF Pages
  <1>1. CASE WriteFront
    <2>1. Head(out.rest) \in Char
      BY <1>0, <1>1 DEF WriteFront, OutType
    <2>2. Cursors' /\ Pages'
      BY <1>1, <2>1, <1>b, PutcKeeps DEF WriteFront
    <2>3. OutType'
      BY <1>0, <1>1, AdvanceKeeps DEF WriteFront
    <2> QED BY <1>0, <1>1, <1>b, <2>2, <2>3 DEF WriteFront, Good
  <1>2. CASE PressKey
    <2>1. Cursors' /\ Pages'
      BY <1>2, <1>b, PutcKeeps DEF PressKey, Char
    <2>2. OutType'
      BY <1>0, <1>2 DEF PressKey, OutType
    <2> QED BY <1>0, <1>2, <1>b, <2>1, <2>2 DEF PressKey, Good
  <1>3. CASE PressEnter
    <2>1. "\n" \in Char /\ putc("\n")
      BY <1>3 DEF PressEnter, putc, Char
    <2>2. Cursors' /\ Pages'
      BY <1>3, <1>b, <2>1, PutcKeeps DEF PressEnter
    <2>3. OutType'
      BY <1>0, <1>3 DEF PressEnter, OutType
    <2> QED BY <1>0, <1>3, <1>b, <2>2, <2>3 DEF PressEnter, Good
  <1>4. CASE PressBackspace
    <2> DEFINE up == screen_x = 0 /\ row_stack # 0
               x == IF up THEN Cols - 1 ELSE screen_x - 1
               y == IF up THEN screen_y - 1 ELSE screen_y
    <2>1. /\ screen_x' = x /\ screen_y' = y
          /\ row_stack' = IF up THEN row_stack - 1 ELSE row_stack
          /\ video_mem' = Poke(video_mem, x, y, <<" ", current_terminal>>)
          /\ strayed' = (strayed \/ Strays(x, y))
          /\ UNCHANGED <<current_terminal, column_stack, terminal_info, saved_screen, out>>
      BY <1>4 DEF PressBackspace
    <2>2. OnScreen(x, y, row_stack')
      <3>1. /\ screen_x \in 0 .. (Cols - 1) /\ screen_y \in 0 .. (Rows - 1)
            /\ row_stack \in 0 .. screen_y
        BY <1>0 DEF OnScreen
      <3>2. CASE up
        <4>1. x = Cols - 1 /\ y = screen_y - 1 /\ row_stack' = row_stack - 1 /\ row_stack # 0
          BY <2>1, <3>2
        <4> HIDE DEF x, y
        <4> QED BY <3>1, <4>1, Sizes DEF OnScreen
      <3>3. CASE ~up
        <4>1. x = screen_x - 1 /\ y = screen_y /\ row_stack' = row_stack /\ ~(x < 0)
          BY <2>1, <3>3, Zenon
        <4> HIDE DEF x, y
        <4> QED BY <3>1, <4>1, Sizes DEF OnScreen
      <3> QED BY <3>2, <3>3
    <2>3. ~Strays(x, y)
      BY <2>2, CellOffset DEF OnScreen, Strays
    <2>4. strayed' = FALSE
      BY <1>0, <2>1, <2>3
    <2>5. video_mem' \in [Offset -> Cell]
      <3>1. <<" ", current_terminal>> \in Cell
        BY <1>0 DEF Cell
      <3> QED BY <1>0, <2>1, <3>1, PokeType
    <2>6. Cursors'
      <3> HIDE DEF x, y
      <3> QED BY <1>0, <1>c, <2>1, <2>2, <2>4
    <2>7. Pages'
      BY <1>0, <1>d, <2>1, <2>5
    <2>8. OutType'
      BY <1>0, <2>1 DEF OutType
    <2> QED BY <1>0, <1>b, <2>1, <2>6, <2>7, <2>8 DEF Good
  <1>5. CASE CtrlL
    <2>1. OutType'
      BY <1>0, <1>5, TextAssumption DEF CtrlL, OutType
    <2>2. Cursors'
      <3>1. screen_x' = 0 /\ screen_y' = 0 /\ row_stack' = 0
            /\ UNCHANGED <<column_stack, terminal_info, strayed>>
        BY <1>5 DEF CtrlL
      <3>2. OnScreen(screen_x', screen_y', row_stack')
        BY <3>1, Sizes DEF OnScreen
      <3> QED BY <1>0, <1>c, <3>1, <3>2
    <2>3. Pages'
      BY <1>0, <1>5, <1>d, BlankType DEF CtrlL, clear
    <2> QED BY <1>0, <1>5, <1>b, <2>1, <2>2, <2>3 DEF CtrlL, Good
  <1>6. CASE SwitchRefused
    <2>1. OutType'
      BY <1>0, <1>6, TextAssumption DEF SwitchRefused, OutType
    <2>2. Cursors' /\ Pages'
      <3>1. UNCHANGED <<video_mem, screen_x, screen_y, row_stack, column_stack, terminal_info,
                        saved_screen, strayed>>
        BY <1>6 DEF SwitchRefused, screen
      <3>2. OnScreen(screen_x', screen_y', row_stack')
        BY <1>0, <3>1
      <3> QED BY <1>0, <1>c, <1>d, <3>1, <3>2
    <2> QED BY <1>0, <1>6, <1>b, <2>1, <2>2 DEF SwitchRefused, Good
  <1>7. CASE PromptChar
    <2>1. Head(out.rest) \in Char
      BY <1>0, <1>7 DEF PromptChar, OutType
    <2>2. Cursors' /\ Pages'
      BY <1>7, <1>b, <2>1, PutcKeeps DEF PromptChar
    <2>3. OutType'
      BY <1>0, <1>7, AdvanceKeeps DEF PromptChar
    <2> QED BY <1>0, <1>7, <1>b, <2>2, <2>3 DEF PromptChar, Good
  <1>8. CASE PromptDone
    <2>1. OutType'
      BY <1>0, <1>8, IdleOut DEF PromptDone, OutType
    <2>2. Cursors' /\ Pages'
      <3>1. UNCHANGED <<video_mem, screen_x, screen_y, row_stack, terminal_info,
                        saved_screen, strayed>>
            /\ column_stack' \in {screen_x, column_stack}
        BY <1>8 DEF PromptDone, screen
      <3>2. OnScreen(screen_x', screen_y', row_stack')
        BY <1>0, <3>1
      <3>3. column_stack' \in 0 .. (Cols - 1)
        BY <1>0, <3>1 DEF OnScreen
      <3> QED BY <1>0, <1>c, <1>d, <3>1, <3>2, <3>3
    <2> QED BY <1>0, <1>8, <1>b, <2>1, <2>2 DEF PromptDone, Good
  <1>9. ASSUME NEW t \in Terminal, switch_to_terminal(t) PROVE Good'
    <2> DEFINE i == [x |-> screen_x % 256, y |-> screen_y % 256, row |-> row_stack % 256,
                     col |-> column_stack % 256]
    <2>1. screen_x % 256 = screen_x /\ screen_y % 256 = screen_y
          /\ row_stack % 256 = row_stack /\ column_stack % 256 = column_stack
      <3>1. /\ screen_x \in 0 .. 255 /\ screen_y \in 0 .. 255
            /\ row_stack \in 0 .. 255 /\ column_stack \in 0 .. 255
        BY <1>0, Sizes DEF OnScreen
      <3> QED BY <3>1, ByteHolds
    <2>2. i \in Info /\ i.row <= i.y
      BY <1>0, <2>1, Sizes DEF OnScreen, Info
    <2>3. terminal_info' = [terminal_info EXCEPT ![current_terminal] = i]
      BY <1>9 DEF switch_to_terminal
    <2> HIDE DEF i
    <2>4. terminal_info' \in [Terminal -> Info]
          /\ \A u \in Terminal : terminal_info'[u].row <= terminal_info'[u].y
      BY <1>0, <2>2, <2>3
    <2>5. terminal_info[t] \in Info /\ terminal_info[t].row <= terminal_info[t].y
      BY <1>0
    <2>6. OnScreen(screen_x', screen_y', row_stack') /\ column_stack' \in 0 .. (Cols - 1)
      BY <1>9, <2>5, Sizes DEF switch_to_terminal, OnScreen, Info
    <2>7. Cursors'
      BY <1>0, <1>9, <1>c, <2>4, <2>6 DEF switch_to_terminal
    <2>8. Pages'
      BY <1>0, <1>9, <1>d DEF switch_to_terminal
    <2>9. OutType'
      BY <1>0, <1>9, IdleOut DEF switch_to_terminal, OutType
    <2> QED BY <1>9, <1>b, <2>7, <2>8, <2>9 DEF switch_to_terminal, Good
  <1> QED BY <1>1, <1>2, <1>3, <1>4, <1>5, <1>6, <1>7, <1>8, <1>9, <1>b DEF OnTheScreen

-----------------------------------------------------------------------------
(***************************************************************************)
(* The steps of a reader's putc.                                           *)
(***************************************************************************)
\* The screen after a putc of c.
After(b, ct, c) ==
    IF c = "\n"
    THEN [m |-> EnterMem(b.m, b.y, ct), x |-> 0, y |-> EnterY(b.x, b.y, b.row), row |-> 0]
    ELSE [m |-> CharMem(b.m, b.x, b.y, ct, c), x |-> CharX(b.x), y |-> CharY(b.x, b.y),
          row |-> CharRow(b.x, b.row)]

LEMMA AfterOn ==
    ASSUME NEW b, OnScreen(b.x, b.y, b.row), b.m \in [Offset -> Cell],
           NEW t \in Terminal, NEW c \in Char
    PROVE  OnScreen(After(b, t, c).x, After(b, t, c).y, After(b, t, c).row)
           /\ After(b, t, c).m \in [Offset -> Cell]
  <1>1. CASE c = "\n"
    BY <1>1, EnterOn, EnterMemType DEF After
  <1>2. CASE c # "\n"
    BY <1>2, CharOn, CharMemType DEF After
  <1> QED BY <1>1, <1>2

\* A step into or inside a putc: the screen as it was before stays the one that
\* the putc is compared with.
LEMMA ReaderMid ==
    ASSUME Good, NEW t \in Terminal, \A u \in Terminal : u # t => at[u] = "none",
           NEW from, NEW to, to # "none", Reader(t, from, to),
           adjust' = [u \in Terminal |-> adjust'[u]], strayed' = FALSE,
           Partial(before, current_terminal, Head(note[t]), at[t], adjust[t])'
    PROVE  Good' /\ Front' = Front
  <1>0. OutType /\ Cursors /\ Pages /\ Putting
    BY DEF Good
  <1>1. /\ note' = note /\ at' = [at EXCEPT ![t] = to] /\ at[t] = from /\ note[t] # <<>>
        /\ UNCHANGED <<current_terminal, column_stack, terminal_info, saved_screen, out>>
        /\ before' = IF from = "none" THEN Here ELSE before
    BY DEF Reader
  <1>2. at'[t] = to /\ (\A u \in Terminal : u # t => at'[u] = "none") /\ at' = [u \in Terminal |-> at'[u]]
    BY <1>0, <1>1 DEF Putting
  <1>3. Busy'
    BY <1>2 DEF Busy
  <1>4. Front' = before'
    BY <1>3 DEF Front
  <1>5. before' = Front
    <2>1. CASE from = "none"
      BY <1>1, <2>1 DEF Front, Busy
    <2>2. CASE from # "none"
      BY <1>1, <2>2 DEF Front, Busy
    <2> QED BY <2>1, <2>2
  <1>6. Putting'
    <2>1. note'[t] # <<>>
      BY <1>1
    <2> QED BY <1>0, <1>1, <1>2, <2>1 DEF Putting
  <1>7. Cursors' /\ Pages'
    BY <1>0, <1>1, <1>4, <1>5 DEF Cursors, Pages, OnScreen
  <1>8. OutType'
    BY <1>0, <1>1 DEF OutType
  <1> QED BY <1>1, <1>4, <1>5, <1>6, <1>7, <1>8 DEF Good

\* The last step of a putc.
LEMMA ReaderEnd ==
    ASSUME Good, NEW t \in Terminal, \A u \in Terminal : u # t => at[u] = "none",
           NEW from, from # "none", Reader(t, from, "none"),
           adjust' = [u \in Terminal |-> adjust'[u]], strayed' = FALSE,
           Here' = After(before, current_terminal, Head(note[t]))
    PROVE  Good' /\ Front' = After(Front, current_terminal, Head(note[t]))
  <1>0. OutType /\ Cursors /\ Pages /\ Putting /\ current_terminal \in Terminal
    BY DEF Good
  <1>1. /\ note' = [note EXCEPT ![t] = Tail(@)] /\ at' = [at EXCEPT ![t] = "none"]
        /\ at[t] = from /\ note[t] # <<>>
        /\ UNCHANGED <<current_terminal, column_stack, terminal_info, saved_screen, out>>
    BY DEF Reader
  <1>2. (\A u \in Terminal : at'[u] = "none") /\ at' = [u \in Terminal |-> at'[u]]
    BY <1>0, <1>1 DEF Putting
  <1>3. ~Busy' /\ Busy
    BY <1>1, <1>2 DEF Busy
  <1>4. Front' = Here' /\ Front = before
    BY <1>3 DEF Front
  <1>5. Head(note[t]) \in Char /\ Tail(note[t]) \in Seq(Char)
    BY <1>0, <1>1 DEF Putting
  <1>6. Putting'
    <2>1. note' \in [Terminal -> Seq(Char)]
      BY <1>0, <1>1, <1>5 DEF Putting
    <2> QED BY <1>2, <2>1 DEF Putting
  <1>7. OnScreen(Front'.x, Front'.y, Front'.row) /\ Front'.m \in [Offset -> Cell]
    BY <1>0, <1>4, <1>5, AfterOn DEF Cursors, Pages
  <1>8. Cursors' /\ Pages'
    BY <1>0, <1>1, <1>7 DEF Cursors, Pages
  <1>9. OutType'
    BY <1>0, <1>1 DEF OutType
  <1> QED BY <1>0, <1>1, <1>4, <1>6, <1>8, <1>9 DEF Good

LEMMA NoteKeeps ==
    ASSUME Good, NEW t \in Terminal, \A u \in Terminal : u # t => at[u] = "none", NoteStep(t)
    PROVE  /\ Good'
           /\ Front' = Front \/ Front' = After(Front, current_terminal, Head(note[t]))
           /\ Head(note[t]) \in Char
           /\ UNCHANGED <<current_terminal, column_stack, terminal_info, saved_screen, out>>
           /\ out = Idle
  <1> DEFINE c == Head(note[t])
             b == before
             ct == current_terminal
             m == Poke(b.m, b.x, b.y, <<c, ct>>)
             Goal == Good' /\ (Front' = Front \/ Front' = After(Front, ct, c))
  <1>0. /\ Cursors /\ Pages /\ Putting /\ ct \in Terminal /\ strayed = FALSE
        /\ OnScreen(Front.x, Front.y, Front.row)
    BY DEF Good, Cursors
  <1>1. PICK from, to : Reader(t, from, to)
    BY DEF NoteStep, PutcStore, PutcColumn, PutcWrap, PutcStays, PutcDown, PutcFit, EnterTest,
           EnterDown, EnterAdjust
  <1>2. /\ out = Idle /\ note[t] # <<>>
        /\ UNCHANGED <<current_terminal, column_stack, terminal_info, saved_screen, out>>
    BY <1>1 DEF Reader
  <1>3. c \in Char
    BY <1>0, <1>2 DEF Putting
  <1>4. ASSUME at[t] # "none"
        PROVE  /\ Partial(b, ct, c, at[t], adjust[t]) /\ Front = b
               /\ b.x \in 0 .. (Cols - 1) /\ b.y \in 0 .. (Rows - 1) /\ b.row \in 0 .. b.y
    <2>1. Front = b
      BY <1>4 DEF Front, Busy
    <2> QED BY <1>0, <1>4, <2>1 DEF Putting, OnScreen
  <1>5. ASSUME at[t] = "none" PROVE ~Busy
    BY <1>5 DEF Busy
  <1>6. adjust = [u \in Terminal |-> adjust[u]] /\ at = [u \in Terminal |-> at[u]]
    BY <1>0 DEF Putting
  <1>7. ASSUME PutcStore(t) PROVE Goal
    <2>1. /\ Reader(t, "none", "column") /\ c # "\n" /\ at[t] = "none"
          /\ video_mem' = Poke(video_mem, screen_x, screen_y, <<c, ct>>)
          /\ UNCHANGED <<screen_x, screen_y, row_stack, adjust>>
          /\ strayed' = (strayed \/ Strays(screen_x, screen_y))
      BY <1>7 DEF PutcStore, Reader
    <2>2. screen_x \in 0 .. (Cols - 1) /\ screen_y \in 0 .. (Rows - 1)
      BY <1>0, <1>5, <2>1, CalmIs DEF OnScreen
    <2>3. strayed' = FALSE
      BY <1>0, <2>1, <2>2, CellOffset DEF Strays
    <2>4. before' = Here /\ note' = note /\ at'[t] = "column"
      BY <1>6, <2>1 DEF Reader
    <2>5. Partial(before, current_terminal, Head(note[t]), at[t], adjust[t])'
      BY <1>2, <2>1, <2>4 DEF Partial, Screen, Here
    <2> QED BY <1>6, <2>1, <2>3, <2>5, ReaderMid
  <1>8. ASSUME PutcColumn(t) PROVE Goal
    <2>1. /\ Reader(t, "column", "wrap") /\ at[t] = "column" /\ screen_x' = screen_x + 1
          /\ UNCHANGED <<video_mem, screen_y, row_stack, adjust, strayed>>
      BY <1>8 DEF PutcColumn, Reader
    <2>2. before' = before /\ note' = note /\ at'[t] = "wrap"
      BY <1>6, <2>1 DEF Reader
    <2>3. Screen(m, b.x, b.y, b.row) /\ c # "\n"
      BY <1>4, <2>1 DEF Partial
    <2>4. Partial(before, current_terminal, Head(note[t]), at[t], adjust[t])'
      BY <1>2, <2>1, <2>2, <2>3 DEF Partial, Screen
    <2> QED BY <1>0, <1>6, <2>1, <2>4, ReaderMid
  <1>9. ASSUME PutcWrap(t) PROVE Goal
    <2>1. /\ Reader(t, "wrap", "down") /\ at[t] = "wrap" /\ screen_x >= Cols
          /\ row_stack' = Capped(row_stack + 1) /\ screen_x' = screen_x % Cols
          /\ UNCHANGED <<video_mem, screen_y, adjust, strayed>>
      BY <1>9 DEF PutcWrap, Reader
    <2>2. before' = before /\ note' = note /\ at'[t] = "down"
      BY <1>6, <2>1 DEF Reader
    <2>3. Screen(m, b.x + 1, b.y, b.row) /\ c # "\n"
      BY <1>4, <2>1 DEF Partial
    <2>4. b.x + 1 >= Cols
      BY <2>1, <2>3 DEF Screen
    <2>5. (b.x + 1) % Cols = 0
      BY <1>4, <2>1, <2>4, WrapsToZero
    <2>6. screen_x' = 0
      BY <2>1, <2>3, <2>5 DEF Screen
    <2>7. row_stack' = CharRow(b.x, b.row)
      BY <2>1, <2>3, <2>4 DEF CharRow, Screen
    <2>8. Partial(before, current_terminal, Head(note[t]), at[t], adjust[t])'
      BY <1>2, <2>1, <2>2, <2>3, <2>4, <2>6, <2>7 DEF Partial, Screen
    <2> QED BY <1>0, <1>6, <2>1, <2>8, ReaderMid
  <1>10. ASSUME PutcStays(t) PROVE Goal
    <2>1. /\ Reader(t, "wrap", "fit") /\ at[t] = "wrap" /\ screen_x < Cols
          /\ UNCHANGED <<video_mem, screen_x, screen_y, row_stack, adjust, strayed>>
      BY <1>10 DEF PutcStays, Reader, screen
    <2>2. before' = before /\ note' = note /\ at'[t] = "fit"
      BY <1>6, <2>1 DEF Reader
    <2>3. Screen(m, b.x + 1, b.y, b.row) /\ c # "\n"
      BY <1>4, <2>1 DEF Partial
    <2>4. ~(b.x + 1 >= Cols) /\ b.x + 1 < Cols
      BY <1>4, <2>1, <2>3, Sizes DEF Screen
    <2>5. /\ CharMem(b.m, b.x, b.y, ct, c) = m /\ CharX(b.x) = b.x + 1
          /\ CharY(b.x, b.y) = b.y /\ CharRow(b.x, b.row) = b.row
      BY <2>4 DEF CharMem, CharX, CharY, CharRow
    <2>6. Partial(before, current_terminal, Head(note[t]), at[t], adjust[t])'
      BY <1>2, <2>1, <2>2, <2>3, <2>5 DEF Partial, Screen
    <2> QED BY <1>0, <1>6, <2>1, <2>6, ReaderMid
  <1>11. ASSUME PutcDown(t) PROVE Goal
    <2>1. /\ Reader(t, "down", "fit") /\ at[t] = "down"
          /\ video_mem' = IF Bottom(screen_y) THEN Scroll(video_mem, ct) ELSE video_mem
          /\ screen_x' = IF Bottom(screen_y) THEN 0 ELSE screen_x
          /\ screen_y' = IF Bottom(screen_y) THEN Rows - 1 ELSE screen_y + 1
          /\ UNCHANGED <<row_stack, adjust, strayed>>
      BY <1>11 DEF PutcDown, Reader
    <2>2. before' = before /\ note' = note /\ at'[t] = "fit"
      BY <1>6, <2>1 DEF Reader
    <2>3. Screen(m, 0, b.y, CharRow(b.x, b.row)) /\ c # "\n" /\ b.x + 1 >= Cols
      BY <1>4, <2>1 DEF Partial
    <2>4. ~(b.x + 1 < Cols)
      BY <1>4, <2>1, <2>3, Sizes
    <2>5. /\ video_mem' = CharMem(b.m, b.x, b.y, ct, c) /\ screen_x' = CharX(b.x)
          /\ screen_y' = CharY(b.x, b.y) /\ row_stack' = CharRow(b.x, b.row)
      BY <2>1, <2>3, <2>4 DEF CharMem, CharX, CharY, Screen
    <2>6. Partial(before, current_terminal, Head(note[t]), at[t], adjust[t])'
      BY <1>2, <2>1, <2>2, <2>3, <2>5 DEF Partial, Screen
    <2> QED BY <1>0, <1>6, <2>1, <2>6, ReaderMid
  <1>12. ASSUME PutcFit(t) PROVE Goal
    <2>1. /\ Reader(t, "fit", "none") /\ at[t] = "fit" /\ screen_y' = Fit(screen_x, screen_y)
          /\ UNCHANGED <<video_mem, screen_x, row_stack, adjust, strayed>>
      BY <1>12 DEF PutcFit, Reader
    <2>2. Screen(CharMem(b.m, b.x, b.y, ct, c), CharX(b.x), CharY(b.x, b.y), CharRow(b.x, b.row))
          /\ c # "\n"
      BY <1>4, <2>1 DEF Partial
    <2>3. OnScreen(CharX(b.x), CharY(b.x, b.y), CharRow(b.x, b.row))
      BY <1>4, <2>1, CharOn DEF OnScreen
    <2>4. screen_y' = screen_y
      <3>1. screen_x \in 0 .. (Cols - 1) /\ screen_y \in 0 .. (Rows - 1)
        BY <2>2, <2>3 DEF OnScreen, Screen
      <3> QED BY <2>1, <3>1, FitStays
    <2>5. Here' = After(b, ct, c)
      BY <2>1, <2>2, <2>4 DEF Here, After, Screen
    <2> QED BY <1>0, <1>6, <2>1, <2>5, ReaderEnd
  <1>13. ASSUME EnterTest(t) PROVE Goal
    <2>1. /\ Reader(t, "none", "enter") /\ c = "\n" /\ at[t] = "none"
          /\ adjust' = [adjust EXCEPT ![t] = Adjust(screen_x, row_stack)]
          /\ UNCHANGED <<video_mem, screen_x, screen_y, row_stack, strayed>>
      BY <1>13 DEF EnterTest, Reader, screen
    <2>2. before' = Here /\ note' = note /\ at'[t] = "enter"
      BY <1>6, <2>1 DEF Reader
    <2>3. adjust'[t] = Adjust(screen_x, row_stack) /\ adjust' = [u \in Terminal |-> adjust'[u]]
      BY <1>6, <2>1
    <2>4. Partial(before, current_terminal, Head(note[t]), at[t], adjust[t])'
      BY <1>2, <2>1, <2>2, <2>3 DEF Partial, Screen, Here
    <2> QED BY <1>0, <2>1, <2>3, <2>4, ReaderMid
  <1>14. ASSUME EnterDown(t) PROVE Goal
    <2>1. /\ Reader(t, "enter", "adjust") /\ at[t] = "enter"
          /\ video_mem' = IF Bottom(screen_y) THEN Scroll(video_mem, ct) ELSE video_mem
          /\ screen_x' = 0
          /\ screen_y' = IF Bottom(screen_y) THEN Rows - 1 ELSE screen_y + 1
          /\ UNCHANGED <<adjust, strayed>>
      BY <1>14 DEF EnterDown, Reader
    <2>2. before' = before /\ note' = note /\ at'[t] = "adjust"
      BY <1>6, <2>1 DEF Reader
    <2>3. Screen(b.m, b.x, b.y, b.row) /\ c = "\n" /\ adjust[t] = Adjust(b.x, b.row)
      BY <1>4, <2>1 DEF Partial
    <2>4. video_mem' = EnterMem(b.m, b.y, ct) /\ screen_y' = DownY(b.y)
      BY <2>1, <2>3 DEF EnterMem, DownY, Screen
    <2>5. Partial(before, current_terminal, Head(note[t]), at[t], adjust[t])'
      BY <1>2, <2>1, <2>2, <2>3, <2>4 DEF Partial, Screen
    <2> QED BY <1>0, <1>6, <2>1, <2>5, ReaderMid
  <1>15. ASSUME EnterAdjust(t) PROVE Goal
    <2>1. /\ Reader(t, "adjust", "none") /\ at[t] = "adjust" /\ screen_y' = screen_y - adjust[t]
          /\ row_stack' = 0 /\ adjust' = [adjust EXCEPT ![t] = 0]
          /\ UNCHANGED <<video_mem, screen_x, strayed>>
      BY <1>15 DEF EnterAdjust, Reader
    <2>2. /\ c = "\n" /\ adjust[t] = Adjust(b.x, b.row) /\ video_mem = EnterMem(b.m, b.y, ct)
          /\ screen_x = 0 /\ screen_y = DownY(b.y)
      BY <1>4, <2>1 DEF Partial, Screen
    <2>3. Here' = After(b, ct, c)
      BY <2>1, <2>2 DEF Here, After, EnterY
    <2>4. adjust' = [u \in Terminal |-> adjust'[u]]
      BY <1>6, <2>1
    <2> QED BY <1>0, <2>1, <2>3, <2>4, ReaderEnd
  <1>16. Goal
    BY <1>7, <1>8, <1>9, <1>10, <1>11, <1>12, <1>13, <1>14, <1>15 DEF NoteStep
  <1> QED BY <1>2, <1>3, <1>16

\* A reader that is killed between two characters.
LEMMA KilledKeeps ==
    ASSUME Good, NEW t \in Terminal, at[t] = "none", NoteKilled(t) PROVE Good' /\ Front' = Front
  <1>0. OutType /\ Cursors /\ Pages /\ Putting
    BY DEF Good
  <1>1. /\ note' = [note EXCEPT ![t] = <<>>] /\ at' = [at EXCEPT ![t] = "none"]
        /\ adjust' = [adjust EXCEPT ![t] = 0]
        /\ UNCHANGED <<current_terminal, screen, column_stack, terminal_info, saved_screen,
                        out, before, strayed>>
    BY DEF NoteKilled
  <1>2. at' = at
    <2>1. at = [u \in Terminal |-> at[u]]
      BY <1>0 DEF Putting
    <2> QED BY <1>1, <2>1
  <1>3. Front' = Front
    BY <1>1, <1>2, FrontStays
  <1>4. Putting'
    <2>1. note' \in [Terminal -> Seq(Char)]
      BY <1>0, <1>1 DEF Putting
    <2>a. adjust' = [u \in Terminal |-> adjust'[u]]
      <3>1. adjust = [u \in Terminal |-> adjust[u]]
        BY <1>0 DEF Putting
      <3> QED BY <1>1, <3>1
    <2>2. ASSUME NEW u \in Terminal, at[u] # "none"
          PROVE  /\ note'[u] # <<>>
                 /\ Partial(before, current_terminal, Head(note[u]), at[u], adjust[u])'
      <3>1. /\ note[u] # <<>> /\ u # t
            /\ Partial(before, current_terminal, Head(note[u]), at[u], adjust[u])
        BY <1>0, <2>2 DEF Putting
      <3>2. note'[u] = note[u] /\ adjust'[u] = adjust[u]
        BY <1>0, <1>1, <3>1 DEF Putting
      <3> QED BY <1>1, <1>2, <3>1, <3>2 DEF Partial, Screen, screen
    <2> QED BY <1>0, <1>2, <2>1, <2>a, <2>2 DEF Putting
  <1>5. OutType' /\ Cursors' /\ Pages'
    BY <1>0, <1>1, <1>3 DEF OutType, Cursors, Pages, OnScreen
  <1> QED BY <1>1, <1>3, <1>4, <1>5 DEF Good

LEMMA NextKeeps == ASSUME IInv, [Next]_vars PROVE IInv'
  <1>1. CASE UNCHANGED vars
    <2>1. ASSUME Good PROVE Good'
      <3>1. Front' = Front /\ Putting'
        BY <1>1, <2>1, FrontStays, ReadersWait DEF vars, printing, Good
      <3> QED BY <1>1, <2>1, <3>1 DEF vars, screen, Good, OutType, Cursors, Pages, OnScreen
    <2> QED BY <1>1, <2>1 DEF vars, IInv
  <1>2. CASE Next
    <2>1. slipped' = (slipped \/ screen_x' < 0)
      BY <1>2 DEF Next
    <2>2. slipped' \in BOOLEAN /\ torn' \in BOOLEAN
      BY <1>2 DEF Next, IInv
    <2>3. ASSUME ~slipped', ~torn' PROVE Good'
      <3>1. ~slipped /\ ~(screen_x' < 0)
        BY <2>1, <2>3
      <3>2. CASE Apart /\ UNCHANGED torn
        BY <2>3, <3>1, <3>2, ApartKeeps DEF IInv
      <3>3. CASE OnTheScreen /\ torn' = (torn \/ Busy)
        BY <2>3, <3>1, <3>3, ScreenKeeps DEF IInv
      <3>4. ASSUME NEW t \in Terminal, NoteStep(t),
                   torn' = (torn \/ \E u \in Terminal \ {t} : at[u] # "none")
            PROVE  Good'
        BY <2>3, <3>1, <3>4, NoteKeeps DEF IInv
      <3>5. ASSUME NEW t \in Terminal, NoteKilled(t), torn' = (torn \/ at[t] # "none")
            PROVE  Good'
        BY <2>3, <3>1, <3>5, KilledKeeps DEF IInv
      <3> QED BY <1>2, <3>2, <3>3, <3>4, <3>5 DEF Next
    <2> QED BY <2>2, <2>3 DEF IInv
  <1> QED BY <1>1, <1>2

LEMMA Invariant == Spec => []IInv
  <1>1. Init => IInv
    BY InitHolds
  <1>2. IInv /\ [Next]_vars => IInv'
    BY NextKeeps
  <1> QED BY <1>1, <1>2, PTL DEF Spec

\* For every size of the screen and every number of terminals: until backspace
\* moves a cursor left of its line (lib.c 380-398) or a key, a write or a switch
\* falls into a putc of terminal_read (terminal.c 40), no store of putc, of
\* putc_terminal or of backspace leaves the text screen, displayed or saved.
THEOREM CursorsStayInside == Spec => []CursorInside
  <1>1. ASSUME IInv PROVE CursorInside
    <2> SUFFICES ASSUME Good PROVE
            /\ ~strayed
            /\ \A t \in Terminal :
                  /\ Held(t).x \in 0 .. (Cols - 1)
                  /\ Held(t).y \in 0 .. (Rows - 1)
                  /\ Held(t).row \in 0 .. Held(t).y
      BY <1>1 DEF IInv, CursorInside
    <2>1. ~strayed
      BY DEF Good, Cursors
    <2>2. ASSUME NEW t \in Terminal
          PROVE  OnScreen(Held(t).x, Held(t).y, Held(t).row)
      <3>1. CASE t = current_terminal
        BY <3>1 DEF Held, Good, Cursors
      <3>2. CASE t # current_terminal
        BY <3>2, Sizes DEF Held, Good, Cursors, OnScreen, Info
      <3> QED BY <3>1, <3>2
    <2> QED BY <2>1, <2>2 DEF OnScreen
  <1> QED BY <1>1, Invariant, PTL

-----------------------------------------------------------------------------
(***************************************************************************)
(* Memory as lines of text.                                                *)
(***************************************************************************)
TextOf(m) == [r \in 1 .. Rows |-> [c \in 1 .. Cols |-> m[Cols * (r - 1) + c - 1]]]

\* The place of column c of line r.
LEMMA PlaceIn ==
    ASSUME NEW r \in 1 .. Rows, NEW c \in 1 .. Cols
    PROVE  /\ Cols * (r - 1) + c - 1 \in Offset
           /\ Cols * (r - 1) + c - 1 = Cols * (r - 1) + (c - 1)
  <1>1. r - 1 \in 0 .. (Rows - 1) /\ c - 1 \in 0 .. (Cols - 1) /\ Cols * (r - 1) \in Int
    BY Sizes
  <1>2. Cols * (r - 1) + (c - 1) \in Offset
    BY <1>1, CellOffset
  <1> QED BY <1>1, <1>2

\* A store changes one character.
LEMMA TextPoke ==
    ASSUME NEW m, NEW x \in 0 .. (Cols - 1), NEW y \in 0 .. (Rows - 1), NEW cell
    PROVE  TextOf(Poke(m, x, y, cell)) = [TextOf(m) EXCEPT ![y + 1][x + 1] = cell]
  <1>1. ASSUME NEW r \in 1 .. Rows, NEW c \in 1 .. Cols
        PROVE  (Cols * (r - 1) + c - 1 = Cols * y + x) <=> (r = y + 1 /\ c = x + 1)
    <2>1. r - 1 \in 0 .. (Rows - 1) /\ c - 1 \in 0 .. (Cols - 1)
      BY Sizes
    <2>2. ASSUME Cols * (r - 1) + c - 1 = Cols * y + x PROVE r = y + 1 /\ c = x + 1
      <3>1. c - 1 = x /\ r - 1 = y
        BY <2>1, <2>2, PlaceIn, CellUnique
      <3> QED BY <3>1
    <2>3. ASSUME r = y + 1, c = x + 1 PROVE Cols * (r - 1) + c - 1 = Cols * y + x
      <3>1. r - 1 = y /\ c - 1 = x
        BY <2>3
      <3> QED BY <3>1, PlaceIn
    <2> QED BY <2>2, <2>3
  <1>2. ASSUME NEW r \in 1 .. Rows, NEW c \in 1 .. Cols
        PROVE  Poke(m, x, y, cell)[Cols * (r - 1) + c - 1] =
                  IF r = y + 1 /\ c = x + 1 THEN cell ELSE m[Cols * (r - 1) + c - 1]
    BY <1>1, PlaceIn DEF Poke
  <1>3. y + 1 \in 1 .. Rows /\ x + 1 \in 1 .. Cols
    BY Sizes
  <1> DEFINE T == TextOf(m)
             P == TextOf(Poke(m, x, y, cell))
  <1>4. /\ T = [r \in 1 .. Rows |-> T[r]] /\ P = [r \in 1 .. Rows |-> P[r]]
        /\ \A r \in 1 .. Rows : T[r] = [c \in 1 .. Cols |-> T[r][c]]
                               /\ P[r] = [c \in 1 .. Cols |-> P[r][c]]
    BY DEF TextOf
  <1>5. \A r \in 1 .. Rows, c \in 1 .. Cols :
            P[r][c] = IF r = y + 1 /\ c = x + 1 THEN cell ELSE T[r][c]
    BY <1>2 DEF TextOf
  <1> HIDE DEF T, P
  <1>6. \A r \in 1 .. Rows :
            P[r] = IF r = y + 1 THEN [T[r] EXCEPT ![x + 1] = cell] ELSE T[r]
    BY <1>3, <1>4, <1>5
  <1>7. P = [T EXCEPT ![y + 1] = [T[y + 1] EXCEPT ![x + 1] = cell]]
    BY <1>3, <1>4, <1>6
  <1>8. P = [T EXCEPT ![y + 1][x + 1] = cell]
    BY <1>7
  <1> QED BY <1>8 DEF T, P

\* Scrolling takes off the first line and appends a blank one.
LEMMA TextScroll ==
    ASSUME NEW m, NEW t
    PROVE  TextOf(Scroll(m, t)) = Append(Tail(TextOf(m)), Abstract!Blank(t))
  <1>1. ASSUME NEW r \in 1 .. Rows, NEW c \in 1 .. Cols
        PROVE  Scroll(m, t)[Cols * (r - 1) + c - 1] =
                  IF r < Rows THEN m[Cols * r + c - 1] ELSE <<" ", t>>
    <2>1. Cols * (r - 1) \in Int /\ Cols * r \in Int /\ Cols * (Rows - 1) \in Int
      BY Sizes
    <2>2. CASE r < Rows
      <3>1. Cols * (r - 1) + Cols <= Cols * (Rows - 1)
        BY <2>2, LinesApart, Sizes
      <3>2. Cols * ((r - 1) + 1) = Cols * (r - 1) + Cols * 1
        BY Distribute
      <3>3. Cols * r = Cols * (r - 1) + Cols
        BY <3>2, Sizes
      <3>4. Cols * (r - 1) + c - 1 < Cols * (Rows - 1)
            /\ Cols * (r - 1) + c - 1 + Cols = Cols * r + c - 1
        BY <2>1, <3>1, <3>3, Sizes
      <3> QED BY <2>2, <3>4, PlaceIn DEF Scroll
    <2>3. CASE ~(r < Rows)
      <3>1. r = Rows
        BY <2>3, Sizes
      <3>2. ~(Cols * (r - 1) + c - 1 < Cols * (Rows - 1))
        BY <2>1, <3>1
      <3> QED BY <2>3, <3>2, PlaceIn DEF Scroll
    <2> QED BY <2>2, <2>3
  <1> DEFINE T == TextOf(m)
             S == Append(Tail(T), Abstract!Blank(t))
  <1>2. /\ Len(T) = Rows /\ DOMAIN T = 1 .. Rows /\ T # <<>>
        /\ T \in Seq([1 .. Cols -> {m[o] : o \in Offset}])
    <2>1. T \in [1 .. Rows -> [1 .. Cols -> {m[o] : o \in Offset}]]
      BY PlaceIn DEF TextOf
    <2>2. T \in Seq([1 .. Cols -> {m[o] : o \in Offset}])
      BY <2>1, Sizes
    <2> QED BY <2>1, <2>2, Sizes
  <1>3. /\ Len(Tail(T)) = Rows - 1 /\ DOMAIN Tail(T) = 1 .. (Rows - 1)
        /\ \A r \in 1 .. (Rows - 1) : Tail(T)[r] = T[r + 1]
        /\ Tail(T) \in Seq([1 .. Cols -> {m[o] : o \in Offset}])
    BY <1>2, Sizes
  <1>4. /\ DOMAIN S = 1 .. Rows
        /\ \A r \in 1 .. Rows : S[r] = IF r < Rows THEN T[r + 1] ELSE Abstract!Blank(t)
        /\ S = [r \in 1 .. Rows |-> S[r]]
    <2> DEFINE B == Abstract!Blank(t)
               X == [1 .. Cols -> {m[o] : o \in Offset}] \cup {B}
    <2> HIDE DEF T
    <2>1. Tail(T) \in Seq(X) /\ B \in X
      BY <1>3
    <2> HIDE DEF B, X
    <2>2. /\ Append(Tail(T), B) \in Seq(X)
          /\ Len(Append(Tail(T), B)) = Rows
          /\ \A r \in 1 .. (Rows - 1) : Append(Tail(T), B)[r] = T[r + 1]
          /\ Append(Tail(T), B)[Rows] = B
      BY <1>3, <2>1, AppendProperties, Sizes
    <2>3. Append(Tail(T), B) = S
      BY DEF B
    <2> HIDE DEF S
    <2>4. S = [r \in 1 .. Rows |-> S[r]] /\ DOMAIN S = 1 .. Rows
      BY <2>2, <2>3, Sizes
    <2>5. \A r \in 1 .. Rows : S[r] = IF r < Rows THEN T[r + 1] ELSE B
      <3> SUFFICES ASSUME NEW r \in 1 .. Rows
                   PROVE  S[r] = IF r < Rows THEN T[r + 1] ELSE B
        OBVIOUS
      <3>1. CASE r < Rows
        BY <2>2, <2>3, <3>1, Sizes
      <3>2. CASE ~(r < Rows)
        <4>1. r = Rows
          BY <3>2, Sizes
        <4> QED BY <2>2, <2>3, <3>2, <4>1
      <3> QED BY <3>1, <3>2
    <2> QED BY <2>4, <2>5 DEF B
  <1>5. ASSUME NEW r \in 1 .. Rows PROVE TextOf(Scroll(m, t))[r] = S[r]
    <2>1. TextOf(Scroll(m, t))[r] =
            [c \in 1 .. Cols |-> IF r < Rows THEN m[Cols * r + c - 1] ELSE <<" ", t>>]
      BY <1>1 DEF TextOf
    <2>2. CASE r < Rows
      <3>1. r + 1 \in 1 .. Rows /\ (r + 1) - 1 = r
        BY <2>2, Sizes
      <3>2. T[r + 1] = [c \in 1 .. Cols |-> m[Cols * r + c - 1]]
        BY <3>1 DEF TextOf
      <3> QED BY <1>4, <2>1, <2>2, <3>2
    <2>3. CASE ~(r < Rows)
      BY <1>4, <2>1, <2>3 DEF Abstract!Blank
    <2> QED BY <2>2, <2>3
  <1>6. TextOf(Scroll(m, t)) = [r \in 1 .. Rows |-> TextOf(Scroll(m, t))[r]]
    BY DEF TextOf
  <1> HIDE DEF S
  <1>7. TextOf(Scroll(m, t)) = S
    BY <1>4, <1>5, <1>6
  <1> QED BY <1>7 DEF S

LEMMA TextBlank == ASSUME NEW t PROVE TextOf(Blank(t)) = Abstract!Page(t)
  BY PlaceIn DEF TextOf, Blank, Abstract!Page, Abstract!Blank

-----------------------------------------------------------------------------
(***************************************************************************)
(* A character shows on the memory as it does on a console.                *)
(***************************************************************************)
Con(m, x, y, row, col) ==
    [text |-> TextOf(m), x |-> x, y |-> y, row |-> row, col |-> col]

LEMMA TypeShows ==
    ASSUME NEW m, NEW x, NEW y, NEW row, NEW col, OnScreen(x, y, row), NEW t, NEW c
    PROVE  Con(CharMem(m, x, y, t, c), CharX(x), CharY(x, y), CharRow(x, row), col) =
              Abstract!Type(Con(m, x, y, row, col), t, c)
  <1> DEFINE k == Con(m, x, y, row, col)
             W == [TextOf(m) EXCEPT ![y + 1][x + 1] = <<c, t>>]
             w == [k EXCEPT !.text[k.y + 1][k.x + 1] = <<c, t>>]
  <1>1. x \in 0 .. (Cols - 1) /\ y \in 0 .. (Rows - 1) /\ row \in 0 .. y
    BY DEF OnScreen
  <1>2. TextOf(Poke(m, x, y, <<c, t>>)) = W
    BY <1>1, TextPoke
  <1>3. w = [text |-> W, x |-> x, y |-> y, row |-> row, col |-> col]
    BY DEF Con
  <1>4. Abstract!Type(k, t, c) =
          IF k.x < Cols - 1 THEN [w EXCEPT !.x = @ + 1]
          ELSE [Abstract!Down(w, t) EXCEPT !.row = Abstract!Least(@ + 1, Rows - 1)]
    BY DEF Abstract!Type
  <1>5. k.x = x
    BY DEF Con
  <1> HIDE DEF W, w, k
  <1>6. CASE x < Cols - 1
    <2>1. Abstract!Type(k, t, c) = [text |-> W, x |-> x + 1, y |-> y, row |-> row, col |-> col]
      BY <1>3, <1>4, <1>5, <1>6
    <2>2. CharMem(m, x, y, t, c) = Poke(m, x, y, <<c, t>>) /\ CharX(x) = x + 1
          /\ CharY(x, y) = y /\ CharRow(x, row) = row
      BY <1>1, <1>6, Sizes DEF CharMem, CharX, CharY, CharRow
    <2> QED BY <1>2, <2>1, <2>2 DEF Con, k
  <1>7. CASE ~(x < Cols - 1)
    <2>1. Abstract!Type(k, t, c) =
            [Abstract!Down(w, t) EXCEPT !.row = Abstract!Least(@ + 1, Rows - 1)]
      BY <1>4, <1>5, <1>7
    <2>2. CharX(x) = 0 /\ CharRow(x, row) = Abstract!Least(row + 1, Rows - 1)
      BY <1>1, <1>7, Sizes DEF CharX, CharRow, Capped, Abstract!Least
    <2>3. CASE y < Rows - 1
      <3>1. Abstract!Down(w, t) = [text |-> W, x |-> 0, y |-> y + 1, row |-> row, col |-> col]
        BY <1>3, <2>3 DEF Abstract!Down
      <3>2. CharMem(m, x, y, t, c) = Poke(m, x, y, <<c, t>>) /\ CharY(x, y) = y + 1
        BY <1>1, <1>7, <2>3, Sizes DEF CharMem, CharY, Bottom
      <3> QED BY <1>2, <2>1, <2>2, <3>1, <3>2 DEF Con, k
    <2>4. CASE ~(y < Rows - 1)
      <3>1. Abstract!Down(w, t) = [text |-> Append(Tail(W), Abstract!Blank(t)), x |-> 0,
                                   y |-> y, row |-> row, col |-> col]
        BY <1>3, <2>4 DEF Abstract!Down
      <3>2. CharMem(m, x, y, t, c) = Scroll(Poke(m, x, y, <<c, t>>), t) /\ CharY(x, y) = y
        BY <1>1, <1>7, <2>4, Sizes DEF CharMem, CharY, Bottom
      <3>3. TextOf(CharMem(m, x, y, t, c)) = Append(Tail(W), Abstract!Blank(t))
        BY <1>2, <3>2, TextScroll
      <3> QED BY <2>1, <2>2, <3>1, <3>2, <3>3 DEF Con, k
    <2> QED BY <2>3, <2>4
  <1> QED BY <1>6, <1>7 DEF k

LEMMA NewLineShows ==
    ASSUME NEW m, NEW x, NEW y, NEW row, NEW col, OnScreen(x, y, row), NEW t
    PROVE  Con(EnterMem(m, y, t), 0, EnterY(x, y, row), 0, col) =
              Abstract!NewLine(Con(m, x, y, row, col), t)
  <1> DEFINE k == Con(m, x, y, row, col)
             d == Abstract!Down(k, t)
  <1>1. x \in 0 .. (Cols - 1) /\ y \in 0 .. (Rows - 1) /\ row \in 0 .. y
    BY DEF OnScreen
  <1>2. Abstract!NewLine(k, t) =
          [d EXCEPT !.y = IF k.x = 0 /\ k.row # 0 THEN @ - 1 ELSE @, !.row = 0]
    BY DEF Abstract!NewLine
  <1>3. k = [text |-> TextOf(m), x |-> x, y |-> y, row |-> row, col |-> col]
    BY DEF Con
  <1>4. d = IF k.y < Rows - 1 THEN [k EXCEPT !.x = 0, !.y = @ + 1]
            ELSE [k EXCEPT !.x = 0, !.text = Append(Tail(@), Abstract!Blank(t))]
    BY DEF Abstract!Down
  <1> HIDE DEF k, d
  <1>5. CASE y < Rows - 1
    <2>1. d = [text |-> TextOf(m), x |-> 0, y |-> y + 1, row |-> row, col |-> col]
      BY <1>3, <1>4, <1>5
    <2>2. EnterMem(m, y, t) = m
          /\ EnterY(x, y, row) = IF x = 0 /\ row # 0 THEN (y + 1) - 1 ELSE y + 1
      BY <1>1, <1>5, Sizes DEF EnterMem, EnterY, DownY, Bottom, Adjust
    <2>3. Abstract!NewLine(k, t) =
            [text |-> TextOf(m), x |-> 0, y |-> IF x = 0 /\ row # 0 THEN (y + 1) - 1 ELSE y + 1,
             row |-> 0, col |-> col]
      BY <1>2, <1>3, <2>1
    <2> QED BY <2>2, <2>3 DEF Con, k
  <1>6. CASE ~(y < Rows - 1)
    <2>1. d = [text |-> Append(Tail(TextOf(m)), Abstract!Blank(t)), x |-> 0, y |-> y,
               row |-> row, col |-> col]
      BY <1>3, <1>4, <1>6
    <2>2. EnterMem(m, y, t) = Scroll(m, t)
          /\ EnterY(x, y, row) = IF x = 0 /\ row # 0 THEN y - 1 ELSE y
      BY <1>1, <1>6, Sizes DEF EnterMem, EnterY, DownY, Bottom, Adjust
    <2>3. Abstract!NewLine(k, t) =
            [text |-> Append(Tail(TextOf(m)), Abstract!Blank(t)), x |-> 0,
             y |-> IF x = 0 /\ row # 0 THEN y - 1 ELSE y, row |-> 0, col |-> col]
      BY <1>2, <1>3, <2>1
    <2> QED BY <2>2, <2>3, TextScroll DEF Con, k
  <1> QED BY <1>5, <1>6 DEF k

-----------------------------------------------------------------------------
(***************************************************************************)
(* The refinement.                                                         *)
(***************************************************************************)
\* The column backspace stops at on a saved screen: set once the write that is
\* on its way has returned.
BackCol(t) ==
    IF out.kind = "back" /\ out.tid = t /\ out.some THEN terminal_info[t].x
    ELSE terminal_info[t].col

FrontView == Con(Front.m, Front.x, Front.y, Front.row, column_stack)
BackView(t) ==
    Con(saved_screen[t], terminal_info[t].x, terminal_info[t].y, terminal_info[t].row, BackCol(t))

LEMMA ViewIs ==
    ASSUME Good, NEW t \in Terminal
    PROVE  View(t) = IF t = current_terminal THEN FrontView ELSE BackView(t)
  BY DEF Good, OutType, View, Held, Con, TextOf, FrontView, BackView, BackCol

LEMMA ViewIsNext ==
    ASSUME Good', NEW t \in Terminal
    PROVE  View(t)' = IF t = current_terminal' THEN FrontView' ELSE BackView(t)'
  BY DEF Good, OutType, View, Held, Con, TextOf, FrontView, BackView, BackCol

\* While no putc is under way.
LEMMA FrontViewIs ==
    ASSUME ~Busy
    PROVE  FrontView = Con(video_mem, screen_x, screen_y, row_stack, column_stack)
  BY CalmIs DEF FrontView

LEMMA FrontViewIsNext ==
    ASSUME ~Busy'
    PROVE  FrontView' = Con(video_mem', screen_x', screen_y', row_stack', column_stack')
  BY CalmIsNext DEF FrontView, Con, TextOf

Views == [t \in Terminal |-> View(t)]

\* Only the view of t changes.
LEMMA OneChanges ==
    ASSUME NEW t \in Terminal, NEW k, View(t)' = k,
           \A u \in Terminal : u # t => View(u)' = View(u)
    PROVE  Views' = [Views EXCEPT ![t] = k]
  BY DEF Views

\* A step on the screen leaves the saved ones alone.
LEMMA BackStays ==
    ASSUME Good, Good', UNCHANGED <<current_terminal, terminal_info, saved_screen>>,
           out.kind # "back", out'.kind # "back"
    PROVE  \A u \in Terminal : u # current_terminal => View(u)' = View(u)
  <1> SUFFICES ASSUME NEW u \in Terminal, u # current_terminal PROVE View(u)' = View(u)
    OBVIOUS
  <1>1. View(u) = BackView(u) /\ View(u)' = BackView(u)'
    BY ViewIs, ViewIsNext
  <1> QED BY <1>1 DEF BackView, BackCol

\* A character shows on the displayed console.
LEMMA PutcShows ==
    ASSUME Good, ~Busy, NEW c \in Char, putc(c), NEW col
    PROVE  Con(video_mem', screen_x', screen_y', row_stack', col) =
              Abstract!Shown(Con(video_mem, screen_x, screen_y, row_stack, col),
                             current_terminal, c)
  <1>1. OnScreen(screen_x, screen_y, row_stack)
    BY CalmIs DEF Good, Cursors
  <1>2. CASE c = "\n"
    <2>1. /\ video_mem' = EnterMem(video_mem, screen_y, current_terminal) /\ screen_x' = 0
          /\ screen_y' = EnterY(screen_x, screen_y, row_stack) /\ row_stack' = 0
      BY <1>2, PutcIs
    <2>2. Con(EnterMem(video_mem, screen_y, current_terminal), 0,
              EnterY(screen_x, screen_y, row_stack), 0, col) =
            Abstract!NewLine(Con(video_mem, screen_x, screen_y, row_stack, col),
                             current_terminal)
      BY <1>1, NewLineShows
    <2> QED BY <1>2, <2>1, <2>2 DEF Abstract!Shown
  <1>3. CASE c # "\n"
    <2>1. /\ video_mem' = CharMem(video_mem, screen_x, screen_y, current_terminal, c)
          /\ screen_x' = CharX(screen_x) /\ screen_y' = CharY(screen_x, screen_y)
          /\ row_stack' = CharRow(screen_x, row_stack)
      BY <1>3, PutcIs
    <2>2. Con(CharMem(video_mem, screen_x, screen_y, current_terminal, c), CharX(screen_x),
              CharY(screen_x, screen_y), CharRow(screen_x, row_stack), col) =
            Abstract!Type(Con(video_mem, screen_x, screen_y, row_stack, col),
                          current_terminal, c)
      BY <1>1, TypeShows
    <2> QED BY <1>3, <2>1, <2>2 DEF Abstract!Shown
  <1> QED BY <1>2, <1>3

LEMMA EchoStep ==
    ASSUME Good, Good', ~Busy, ~Busy', NEW c \in Char, putc(c), out.kind # "back", out'.kind # "back",
           UNCHANGED <<current_terminal, column_stack, terminal_info, saved_screen>>
    PROVE  Abstract!Next
  <1>1. current_terminal \in Terminal
    BY DEF Good
  <1>2. View(current_terminal) = FrontView /\ View(current_terminal)' = FrontView'
    BY <1>1, ViewIs, ViewIsNext
  <1>3. FrontView' = Abstract!Shown(FrontView, current_terminal, c)
    BY PutcShows, FrontViewIs, FrontViewIsNext
  <1>4. Views' = [Views EXCEPT ![current_terminal] =
                     Abstract!Shown(FrontView, current_terminal, c)]
    BY <1>1, <1>2, <1>3, BackStays, OneChanges
  <1>5. Views[current_terminal] = FrontView
    BY <1>1, <1>2 DEF Views
  <1>6. Abstract!Echo(c)
    BY <1>4, <1>5 DEF Abstract!Echo, Views
  <1> QED BY <1>6 DEF Abstract!Next

LEMMA FrontStep == ASSUME Good, Good', ~Busy, ~Busy', WriteFront PROVE Abstract!Next
  <1> DEFINE c == Head(out.rest)
  <1>1. current_terminal \in Terminal /\ c \in Char /\ putc(c) /\ out'.kind = "front"
    BY DEF Good, OutType, WriteFront, Advance
  <1>2. View(current_terminal) = FrontView /\ View(current_terminal)' = FrontView'
    BY <1>1, ViewIs, ViewIsNext DEF WriteFront
  <1> HIDE DEF c
  <1>3. Con(video_mem', screen_x', screen_y', row_stack', column_stack) =
          Abstract!Shown(FrontView, current_terminal, c)
    BY <1>1, PutcShows, FrontViewIs
  <1>4. FrontView' = [Abstract!Shown(FrontView, current_terminal, c) EXCEPT !.col =
                         Abstract!Shown(FrontView, current_terminal, c).x]
    BY <1>3, FrontViewIsNext DEF Con, WriteFront
  <1>5. \A u \in Terminal : u # current_terminal => View(u)' = View(u)
    BY <1>1, BackStays DEF WriteFront
  <1>6. Views' = [Views EXCEPT ![current_terminal] = FrontView']
    BY <1>1, <1>2, <1>5, OneChanges DEF WriteFront
  <1>7. Views[current_terminal] = FrontView
    BY <1>1, <1>2 DEF Views
  <1>8. Abstract!Emit(current_terminal, c)
    BY <1>4, <1>6, <1>7 DEF Abstract!Emit, Views
  <1> QED BY <1>1, <1>8 DEF Abstract!Next, WriteFront

LEMMA BackStep == ASSUME Good, Good', WriteBack PROVE Abstract!Next
  <1> DEFINE c == Head(out.rest)
             t == out.tid
             i == terminal_info[t]
             j == terminal_info'[t]
  <1>1. /\ t \in Terminal /\ t # current_terminal /\ c \in Char /\ putc_terminal(c, t)
        /\ out' = [out EXCEPT !.rest = Tail(@), !.some = TRUE]
        /\ out.kind = "back" /\ UNCHANGED <<current_terminal, column_stack>>
        /\ Front' = Front
    BY FrontStays DEF Good, OutType, WriteBack, Advance, printing
  <1>2. out'.kind = "back" /\ out'.tid = t /\ out'.some
    BY <1>1 DEF Good, OutType
  <1>3. View(t) = BackView(t) /\ View(t)' = BackView(t)'
    BY <1>1, ViewIs, ViewIsNext
  <1>4. BackView(t)' = Con(saved_screen'[t], j.x, j.y, j.row, j.x)
    BY <1>2 DEF BackView, BackCol
  <1>5. OnScreen(i.x, i.y, i.row) /\ i \in Info
    BY <1>1, Sizes DEF Good, Cursors, OnScreen, Info
  <1>6. terminal_info \in [Terminal -> Info] /\ saved_screen \in [Terminal -> [Offset -> Cell]]
    BY DEF Good, Cursors, Pages
  <1> HIDE DEF c, t
  <1>7. Con(saved_screen'[t], j.x, j.y, j.row, BackCol(t)) =
          Abstract!Shown(BackView(t), t, c)
    <2>1. CASE c = "\n"
      <3>1. saved_screen'[t] = EnterMem(saved_screen[t], i.y, t)
            /\ j = [x |-> 0, y |-> EnterY(i.x, i.y, i.row), row |-> 0, col |-> i.col]
        BY <1>1, <1>6, <2>1, PutcTerminalIs
      <3>2. j.x = 0 /\ j.y = EnterY(i.x, i.y, i.row) /\ j.row = 0
        BY <3>1
      <3> HIDE DEF i, j
      <3> QED BY <1>5, <2>1, <3>1, <3>2, NewLineShows DEF Abstract!Shown, BackView, i
    <2>2. CASE c # "\n"
      <3>1. saved_screen'[t] = CharMem(saved_screen[t], i.x, i.y, t, c)
            /\ j = [x |-> CharX(i.x), y |-> CharY(i.x, i.y), row |-> CharRow(i.x, i.row),
                    col |-> i.col]
        <4>1. /\ saved_screen' = [saved_screen EXCEPT ![t] =
                                    CharMem(saved_screen[t], i.x, i.y, t, c)]
              /\ terminal_info' = [terminal_info EXCEPT ![t] =
                     [x |-> CharX(i.x), y |-> CharY(i.x, i.y), row |-> CharRow(i.x, i.row),
                      col |-> i.col]]
          BY <1>1, <2>2, PutcTerminalIs
        <4> QED BY <1>1, <1>6, <4>1
      <3>2. j.x = CharX(i.x) /\ j.y = CharY(i.x, i.y) /\ j.row = CharRow(i.x, i.row)
        BY <3>1
      <3> HIDE DEF i, j
      <3> QED BY <1>5, <2>2, <3>1, <3>2, TypeShows DEF Abstract!Shown, BackView, i
    <2> QED BY <2>1, <2>2
  <1>8. BackView(t)' = [Abstract!Shown(BackView(t), t, c) EXCEPT !.col =
                           Abstract!Shown(BackView(t), t, c).x]
    <2> HIDE DEF j
    <2> QED BY <1>4, <1>7 DEF Con
  <1>9. ASSUME NEW u \in Terminal, u # t PROVE View(u)' = View(u)
    <2>1. saved_screen'[u] = saved_screen[u] /\ terminal_info'[u] = terminal_info[u]
      <3>1. PICK m, k : saved_screen' = [saved_screen EXCEPT ![t] = m]
                        /\ terminal_info' = [terminal_info EXCEPT ![t] = k]
        <4>1. CASE c = "\n"
          BY <1>1, <4>1 DEF putc_terminal, enter_handler_terminal
        <4>2. CASE c # "\n"
          BY <1>1, <4>2 DEF putc_terminal, PutCharTerminal
        <4> QED BY <4>1, <4>2
      <3> QED BY <1>6, <1>9, <3>1
    <2>2. CASE u = current_terminal
      BY <1>1, <2>2, ViewIs, ViewIsNext DEF FrontView
    <2>3. CASE u # current_terminal
      <3>1. View(u) = BackView(u) /\ View(u)' = BackView(u)'
        BY <1>1, <2>3, ViewIs, ViewIsNext
      <3>2. BackCol(u)' = BackCol(u)
        BY <1>2, <1>9, <2>1 DEF BackCol, t
      <3> QED BY <2>1, <3>1, <3>2 DEF BackView
    <2> QED BY <2>2, <2>3
  <1>10. Views' = [Views EXCEPT ![t] = BackView(t)']
    BY <1>1, <1>2, <1>3, <1>9, OneChanges DEF t
  <1>11. Views[t] = BackView(t)
    BY <1>1, <1>3 DEF Views
  <1>12. Abstract!Emit(t, c)
    BY <1>8, <1>10, <1>11 DEF Abstract!Emit, Views
  <1> QED BY <1>1, <1>12 DEF Abstract!Next

\* The end of a write to a saved screen settles the column backspace stops at,
\* which every character before has settled already.
LEMMA ReturnsStep ==
    ASSUME Good, Good', WriteReturns PROVE Abstract!Next \/ UNCHANGED <<current_terminal, Views>>
  <1>0. /\ UNCHANGED <<current_terminal, column_stack, saved_screen>> /\ Front' = Front
        /\ out' = Idle /\ out'.kind = "none" /\ current_terminal \in Terminal
    BY IdleOut, FrontStays DEF WriteReturns, Good, printing
  <1>1. CASE out.kind # "back"
    <2>1. UNCHANGED terminal_info
      BY <1>1 DEF WriteReturns
    <2>2. View(current_terminal)' = View(current_terminal)
      BY <1>0, ViewIs, ViewIsNext DEF FrontView
    <2>3. \A u \in Terminal : View(u)' = View(u)
      BY <1>0, <1>1, <2>1, <2>2, BackStays
    <2> QED BY <1>0, <2>3 DEF Views
  <1>2. CASE out.kind = "back"
    <2> DEFINE t == out.tid
               i == terminal_info[t]
    <2>1. t \in Terminal /\ t # current_terminal
      BY <1>2 DEF Good, OutType
    <2>2. terminal_info' = [terminal_info EXCEPT ![t].col = i.x]
      BY <1>2 DEF WriteReturns
    <2>3. terminal_info \in [Terminal -> Info]
      BY DEF Good, Cursors
    <2>4. /\ terminal_info'[t].x = i.x /\ terminal_info'[t].y = i.y
          /\ terminal_info'[t].row = i.row /\ terminal_info'[t].col = i.x
          /\ \A u \in Terminal : u # t => terminal_info'[u] = terminal_info[u]
      BY <2>1, <2>2, <2>3 DEF Info
    <2> HIDE DEF t
    <2>5. View(t) = Con(saved_screen[t], i.x, i.y, i.row, BackCol(t))
      BY <2>1, ViewIs DEF BackView
    <2>6. \A u \in Terminal : u # current_terminal => View(u)' =
              Con(saved_screen[u], terminal_info'[u].x, terminal_info'[u].y,
                  terminal_info'[u].row, terminal_info'[u].col)
      <3> SUFFICES ASSUME NEW u \in Terminal, u # current_terminal
                   PROVE  View(u)' = Con(saved_screen[u], terminal_info'[u].x,
                             terminal_info'[u].y, terminal_info'[u].row, terminal_info'[u].col)
        OBVIOUS
      <3>1. View(u)' = BackView(u)'
        BY <1>0, ViewIsNext
      <3> QED BY <1>0, <3>1 DEF BackView, BackCol
    <2>7. [u \in Terminal |-> View(u)'][t] = Con(saved_screen[t], i.x, i.y, i.row, i.x)
      BY <2>1, <2>4, <2>6
    <2>8. ASSUME NEW u \in Terminal, u # t PROVE View(u)' = View(u)
      <3>1. CASE u = current_terminal
        BY <1>0, <3>1, ViewIs, ViewIsNext DEF FrontView
      <3>2. CASE u # current_terminal
        <4>1. View(u) = Con(saved_screen[u], terminal_info[u].x, terminal_info[u].y,
                            terminal_info[u].row, terminal_info[u].col)
          BY <2>8, <3>2, ViewIs DEF BackView, BackCol, t
        <4> QED BY <2>4, <2>6, <2>8, <3>2, <4>1
      <3> QED BY <3>1, <3>2
    <2>9. Views' = [Views EXCEPT ![t] = Con(saved_screen[t], i.x, i.y, i.row, i.x)]
      <3>1. Views' = [u \in Terminal |-> View(u)']
        BY DEF Views
      <3> QED BY <2>1, <2>7, <2>8, <3>1 DEF Views
    <2>10. Views[t] = Con(saved_screen[t], i.x, i.y, i.row, BackCol(t))
      BY <2>1, <2>5 DEF Views
    <2>11. [Views[t] EXCEPT !.col = Views[t].x] = Con(saved_screen[t], i.x, i.y, i.row, i.x)
      BY <2>10 DEF Con
    <2>12. Views' = [Views EXCEPT ![t].col = Views[t].x]
      BY <2>9, <2>11
    <2>13. Abstract!Settle(t)
      BY <2>12 DEF Abstract!Settle, Views
    <2> QED BY <1>0, <2>1, <2>13 DEF Abstract!Next
  <1> QED BY <1>1, <1>2

LEMMA PromptDoneStep ==
    ASSUME Good, Good', ~Busy, ~Busy', PromptDone
    PROVE  Abstract!Next \/ UNCHANGED <<current_terminal, Views>>
  <1>1. /\ UNCHANGED <<current_terminal, video_mem, screen_x, screen_y, row_stack,
                        terminal_info, saved_screen>>
        /\ out.kind # "back" /\ out'.kind # "back" /\ current_terminal \in Terminal
        /\ column_stack' = screen_x \/ column_stack' = column_stack
    BY IdleOut DEF PromptDone, screen, Good
  <1>2. View(current_terminal) = FrontView /\ View(current_terminal)' = FrontView'
    BY <1>1, ViewIs, ViewIsNext
  <1>3. CASE column_stack' = column_stack
    <2>1. FrontView' = FrontView
      BY <1>1, <1>3, FrontViewIs, FrontViewIsNext
    <2>2. \A u \in Terminal : View(u)' = View(u)
      BY <1>1, <1>2, <2>1, BackStays
    <2> QED BY <1>1, <2>2 DEF Views
  <1>4. CASE column_stack' = screen_x
    <2>1. FrontView' = [FrontView EXCEPT !.col = FrontView.x]
      BY <1>1, <1>4, FrontViewIs, FrontViewIsNext DEF Con
    <2>2. Views' = [Views EXCEPT ![current_terminal] = FrontView']
      BY <1>1, <1>2, BackStays, OneChanges
    <2>3. Views[current_terminal] = FrontView
      BY <1>1, <1>2 DEF Views
    <2>4. Views' = [Views EXCEPT ![current_terminal].col = Views[current_terminal].x]
      BY <2>1, <2>2, <2>3
    <2>5. Abstract!Settle(current_terminal)
      BY <2>4 DEF Abstract!Settle, Views
    <2> QED BY <1>1, <2>5 DEF Abstract!Next
  <1> QED BY <1>1, <1>3, <1>4

LEMMA ClearStep == ASSUME Good, Good', ~Busy, ~Busy', CtrlL PROVE Abstract!Next
  <1>1. /\ UNCHANGED <<current_terminal, column_stack, terminal_info, saved_screen>>
        /\ out.kind # "back" /\ out'.kind # "back" /\ current_terminal \in Terminal
        /\ video_mem' = Blank(current_terminal) /\ screen_x' = 0 /\ screen_y' = 0
        /\ row_stack' = 0
    BY IdleOut DEF CtrlL, clear, Good
  <1>2. View(current_terminal) = FrontView /\ View(current_terminal)' = FrontView'
    BY <1>1, ViewIs, ViewIsNext
  <1>3. FrontView' = Abstract!Cleared(FrontView, current_terminal)
    <2>1. TextOf(video_mem') = Abstract!Page(current_terminal)
      BY <1>1, TextBlank
    <2>2. FrontView' = [text |-> TextOf(video_mem'), x |-> 0, y |-> 0, row |-> 0,
                        col |-> column_stack]
      BY <1>1, FrontViewIsNext DEF Con
    <2>3. FrontView.col = column_stack
      BY DEF FrontView, Con
    <2> QED BY <2>1, <2>2, <2>3 DEF Abstract!Cleared
  <1>4. Views' = [Views EXCEPT ![current_terminal] = FrontView']
    BY <1>1, <1>2, BackStays, OneChanges
  <1>5. Views[current_terminal] = FrontView
    BY <1>1, <1>2 DEF Views
  <1>6. Abstract!Clear
    BY <1>3, <1>4, <1>5 DEF Abstract!Clear, Views
  <1> QED BY <1>1, <1>6 DEF Abstract!Next

\* Backspace on a console.
ErasedText(m, p, t) ==
    [r \in 1 .. Rows |-> [c \in 1 .. Cols |->
        IF p = Cols * (r - 1) + c - 1 THEN <<" ", t>> ELSE TextOf(m)[r][c]]]
EraseX(x, row) == IF x = 0 /\ row # 0 THEN Cols - 1 ELSE x - 1
EraseY(x, y, row) == IF x = 0 /\ row # 0 THEN y - 1 ELSE y
EraseRow(x, row) == IF x = 0 /\ row # 0 THEN row - 1 ELSE row

LEMMA EraseShows ==
    ASSUME NEW m, NEW x, NEW y, NEW row, NEW col, NEW t
    PROVE  Abstract!Erased(Con(m, x, y, row, col), t) =
             [text |-> ErasedText(m, Cols * y + x - 1, t), x |-> EraseX(x, row),
              y |-> EraseY(x, y, row), row |-> EraseRow(x, row), col |-> col]
  <1> DEFINE k == Con(m, x, y, row, col)
  <1>1. k.text = TextOf(m) /\ k.x = x /\ k.y = y /\ k.row = row /\ k.col = col
    BY DEF Con
  <1> HIDE DEF k
  <1>2. Abstract!Erased(k, t) =
          [text |-> ErasedText(m, Cols * k.y + k.x - 1, t), x |-> EraseX(k.x, k.row),
           y |-> EraseY(k.x, k.y, k.row), row |-> EraseRow(k.x, k.row), col |-> k.col]
    BY <1>1 DEF Abstract!Erased, ErasedText, EraseX, EraseY, EraseRow
  <1> QED BY <1>1, <1>2 DEF k

LEMMA EraseStep == ASSUME Good, Good', ~Busy, ~Busy', PressBackspace PROVE Abstract!Next
  <1> DEFINE x == EraseX(screen_x, row_stack)
             y == EraseY(screen_x, screen_y, row_stack)
             row == EraseRow(screen_x, row_stack)
             p == Cols * screen_y + screen_x - 1
             ct == current_terminal
  <1>1. /\ screen_x' = x /\ screen_y' = y /\ row_stack' = row
        /\ video_mem' = Poke(video_mem, x, y, <<" ", ct>>)
        /\ UNCHANGED <<current_terminal, column_stack, terminal_info, saved_screen, out>>
        /\ out.kind # "back" /\ ct \in Terminal
        /\ screen_x # column_stack \/ row_stack # 0
    BY IdleOut DEF PressBackspace, BackspaceStops, Good, EraseX, EraseY, EraseRow
  <1>2. /\ screen_x \in 0 .. (Cols - 1) /\ screen_y \in 0 .. (Rows - 1)
        /\ row_stack \in 0 .. screen_y
    BY CalmIs DEF Good, Cursors, OnScreen
  <1>3. p = Cols * y + x
    <2>1. Cols * screen_y \in Int /\ Cols * (screen_y - 1) \in Int
      BY <1>2, Sizes
    <2>2. Cols * ((screen_y - 1) + 1) = Cols * (screen_y - 1) + Cols * 1
      BY <1>2, Distribute
    <2>3. Cols * screen_y = Cols * (screen_y - 1) + Cols
      BY <1>2, <2>2, Sizes
    <2>4. CASE screen_x = 0 /\ row_stack # 0
      BY <1>2, <2>1, <2>3, <2>4, Sizes DEF EraseX, EraseY
    <2>5. CASE ~(screen_x = 0 /\ row_stack # 0)
      BY <1>2, <2>1, <2>5, Sizes DEF EraseX, EraseY
    <2> QED BY <2>4, <2>5
  <1>4. View(ct) = FrontView /\ View(ct)' = FrontView'
    BY <1>1, ViewIs, ViewIsNext
  <1>5. TextOf(video_mem') = ErasedText(video_mem, p, ct)
    <2>1. \A o \in Offset : video_mem'[o] = IF o = p THEN <<" ", ct>> ELSE video_mem[o]
      BY <1>1, <1>3 DEF Poke
    <2> HIDE DEF p, ct
    <2>2. \A r \in 1 .. Rows, c \in 1 .. Cols :
             video_mem'[Cols * (r - 1) + c - 1] =
                IF p = Cols * (r - 1) + c - 1 THEN <<" ", ct>> ELSE TextOf(video_mem)[r][c]
      BY <2>1, PlaceIn DEF TextOf
    <2> QED BY <2>2 DEF TextOf, ErasedText
  <1>6. Abstract!Erased(FrontView, ct) =
          [text |-> ErasedText(video_mem, p, ct), x |-> x, y |-> y, row |-> row,
           col |-> column_stack]
    BY EraseShows, FrontViewIs
  <1>7. FrontView' = [text |-> TextOf(video_mem'), x |-> x, y |-> y, row |-> row,
                      col |-> column_stack]
    <2> HIDE DEF x, y, row
    <2>1. FrontView' = Con(video_mem', screen_x', screen_y', row_stack', column_stack')
      BY FrontViewIsNext
    <2>2. screen_x' = x /\ screen_y' = y /\ row_stack' = row /\ column_stack' = column_stack
      BY <1>1
    <2> QED BY <2>1, <2>2 DEF Con
  <1> HIDE DEF x, y, row, p
  <1>8. FrontView' = Abstract!Erased(FrontView, ct)
    BY <1>5, <1>6, <1>7
  <1>9. FrontView.x # FrontView.col \/ FrontView.row # 0
    <2>1. FrontView.x = screen_x /\ FrontView.col = column_stack /\ FrontView.row = row_stack
      BY FrontViewIs DEF Con
    <2> QED BY <1>1, <2>1
  <1>10. Views' = [Views EXCEPT ![ct] = FrontView']
    BY <1>1, <1>4, BackStays, OneChanges
  <1>11. Views[ct] = FrontView
    BY <1>1, <1>4 DEF Views
  <1>12. Views' = [Views EXCEPT ![ct] = Abstract!Erased(Views[ct], ct)]
    BY <1>8, <1>10, <1>11
  <1>13. Abstract!Erase
    BY <1>9, <1>11, <1>12 DEF Abstract!Erase, Views
  <1> QED BY <1>1, <1>13 DEF Abstract!Next

\* Switching terminals moves no character and no cursor.
LEMMA SwitchStep ==
    ASSUME Good, Good', ~Busy, ~Busy', NEW t \in Terminal, switch_to_terminal(t)
    PROVE  Abstract!Next
  <1> DEFINE ct == current_terminal
  <1>1. /\ ct \in Terminal /\ out = Idle /\ out' = Idle /\ out.kind = "none" /\ t # ct
        /\ current_terminal' = t
        /\ saved_screen' = [saved_screen EXCEPT ![ct] = video_mem]
        /\ video_mem' = saved_screen[t] /\ screen_x' = terminal_info[t].x
        /\ row_stack' = terminal_info[t].row /\ column_stack' = terminal_info[t].col
    BY IdleOut DEF switch_to_terminal, Good
  <1>2. terminal_info \in [Terminal -> Info] /\ saved_screen \in [Terminal -> [Offset -> Cell]]
        /\ OnScreen(screen_x, screen_y, row_stack) /\ column_stack \in 0 .. (Cols - 1)
    BY CalmIs DEF Good, Cursors, Pages
  <1>3. screen_y' = terminal_info[t].y
    BY <1>2, Sizes DEF switch_to_terminal, Info
  <1>4. /\ terminal_info'[ct] = [x |-> screen_x, y |-> screen_y, row |-> row_stack,
                                  col |-> column_stack]
        /\ \A u \in Terminal : u # ct => terminal_info'[u] = terminal_info[u]
    <2>1. screen_x % 256 = screen_x /\ screen_y % 256 = screen_y
          /\ row_stack % 256 = row_stack /\ column_stack % 256 = column_stack
      <3>1. /\ screen_x \in 0 .. 255 /\ screen_y \in 0 .. 255
            /\ row_stack \in 0 .. 255 /\ column_stack \in 0 .. 255
        BY <1>2, Sizes DEF OnScreen
      <3> QED BY <3>1, ByteHolds
    <2> QED BY <1>1, <1>2, <2>1 DEF switch_to_terminal
  <1>5. \A u \in Terminal : u # ct => View(u) =
            Con(saved_screen[u], terminal_info[u].x, terminal_info[u].y, terminal_info[u].row,
                terminal_info[u].col)
    BY <1>1, ViewIs DEF BackView, BackCol
  <1>6. ASSUME NEW u \in Terminal PROVE View(u)' = View(u)
    <2>1. CASE u = t
      <3>1. View(u)' = FrontView'
        BY <1>1, <2>1, ViewIsNext
      <3>2. FrontView' = Con(saved_screen[t], terminal_info[t].x, terminal_info[t].y,
                             terminal_info[t].row, terminal_info[t].col)
        BY <1>1, <1>3, FrontViewIsNext
      <3> QED BY <1>1, <1>5, <2>1, <3>1, <3>2
    <2>2. CASE u # t
      <3>1. View(u)' = Con(saved_screen'[u], terminal_info'[u].x, terminal_info'[u].y,
                           terminal_info'[u].row, terminal_info'[u].col)
        BY <1>1, <2>2, ViewIsNext DEF BackView, BackCol
      <3>2. CASE u = ct
        <4>1. View(u) = Con(video_mem, screen_x, screen_y, row_stack, column_stack)
          BY <1>1, <3>2, ViewIs, FrontViewIs
        <4>2. saved_screen'[u] = video_mem
          BY <1>1, <1>2, <3>2
        <4>3. /\ terminal_info'[u].x = screen_x /\ terminal_info'[u].y = screen_y
              /\ terminal_info'[u].row = row_stack /\ terminal_info'[u].col = column_stack
          BY <1>4, <3>2
        <4> QED BY <3>1, <4>1, <4>2, <4>3
      <3>3. CASE u # ct
        <4>1. saved_screen'[u] = saved_screen[u] /\ terminal_info'[u] = terminal_info[u]
          BY <1>1, <1>2, <1>4, <3>3
        <4> QED BY <1>5, <3>1, <3>3, <4>1
      <3> QED BY <3>2, <3>3
    <2> QED BY <2>1, <2>2
  <1>7. UNCHANGED Views
    BY <1>6 DEF Views
  <1> QED BY <1>1, <1>7 DEF Abstract!Next, Views

\* What neither the memory nor a cursor changes leaves every console alone.
LEMMA QuietStep ==
    ASSUME Good, Good', out.kind # "back", out'.kind # "back" \/ ~out'.some,
           UNCHANGED <<current_terminal, column_stack, terminal_info, saved_screen>>,
           Front' = Front
    PROVE  UNCHANGED <<current_terminal, Views>>
  <1>1. ASSUME NEW u \in Terminal PROVE View(u)' = View(u)
    BY ViewIs, ViewIsNext DEF FrontView, BackView, BackCol
  <1> QED BY <1>1 DEF Views

\* The last step of a reader's putc shows its character.
LEMMA NoteShows ==
    ASSUME Good, Good', NEW c \in Char, Front' = After(Front, current_terminal, c),
           out.kind # "back", out'.kind # "back",
           UNCHANGED <<current_terminal, column_stack, terminal_info, saved_screen>>
    PROVE  Abstract!Next
  <1> DEFINE ct == current_terminal
  <1>1. ct \in Terminal /\ OnScreen(Front.x, Front.y, Front.row)
    BY DEF Good, Cursors
  <1>2. View(ct) = FrontView /\ View(ct)' = FrontView'
    BY <1>1, ViewIs, ViewIsNext
  <1>3. FrontView' = Con(After(Front, ct, c).m, After(Front, ct, c).x, After(Front, ct, c).y,
                         After(Front, ct, c).row, column_stack)
    BY DEF FrontView, Con, TextOf
  <1>4. FrontView' = Abstract!Shown(FrontView, ct, c)
    <2>1. CASE c = "\n"
      <3>1. FrontView' = Con(EnterMem(Front.m, Front.y, ct), 0,
                             EnterY(Front.x, Front.y, Front.row), 0, column_stack)
        BY <1>3, <2>1 DEF After
      <3> QED BY <1>1, <2>1, <3>1, NewLineShows DEF Abstract!Shown, FrontView
    <2>2. CASE c # "\n"
      <3>1. FrontView' = Con(CharMem(Front.m, Front.x, Front.y, ct, c), CharX(Front.x),
                             CharY(Front.x, Front.y), CharRow(Front.x, Front.row), column_stack)
        BY <1>3, <2>2 DEF After
      <3> QED BY <1>1, <2>2, <3>1, TypeShows DEF Abstract!Shown, FrontView
    <2> QED BY <2>1, <2>2
  <1>5. Views' = [Views EXCEPT ![ct] = Abstract!Shown(FrontView, ct, c)]
    BY <1>1, <1>2, <1>4, BackStays, OneChanges
  <1>6. Views[ct] = FrontView
    BY <1>1, <1>2 DEF Views
  <1>7. Abstract!Echo(c)
    BY <1>5, <1>6 DEF Abstract!Echo, Views
  <1> QED BY <1>7 DEF Abstract!Next

LEMMA ApartImplements ==
    ASSUME Good, Good', Apart PROVE Abstract!Next \/ UNCHANGED <<current_terminal, Views>>
  <1>0. OutType /\ Idle.kind = "none"
    BY IdleOut DEF Good
  <1>1. ASSUME NEW t \in Terminal, NEW text \in Texts, WriteCall(t, text)
        PROVE  UNCHANGED <<current_terminal, Views>>
    <2>1. out.kind = "none" /\ ~out'.some
      BY <1>0, <1>1 DEF WriteCall
    <2>2. Front' = Front
      BY <1>1, FrontStays DEF WriteCall, printing
    <2> QED BY <1>1, <2>1, <2>2, QuietStep DEF WriteCall
  <1>2. CASE WriteBack
    BY <1>2, BackStep
  <1>3. CASE WriteReturns
    BY <1>3, ReturnsStep
  <1>4. CASE ReadPrints
    <2>1. Front' = Front
      BY <1>4, FrontStays DEF ReadPrints
    <2> QED BY <1>0, <1>4, <2>1, QuietStep DEF ReadPrints
  <1> QED BY <1>1, <1>2, <1>3, <1>4 DEF Apart

LEMMA ScreenImplements ==
    ASSUME Good, Good', ~Busy, ~Busy', OnTheScreen
    PROVE  Abstract!Next \/ UNCHANGED <<current_terminal, Views>>
  <1>0. OutType /\ Idle.kind = "none"
    BY IdleOut DEF Good
  <1>1. CASE WriteFront
    BY <1>1, FrontStep
  <1>2. CASE PressKey
    <2>1. "k" \in Char
      BY DEF Char
    <2> QED BY <1>0, <1>2, <2>1, EchoStep DEF PressKey
  <1>3. CASE PressEnter
    <2>1. "\n" \in Char /\ putc("\n")
      BY <1>3 DEF PressEnter, putc, Char
    <2> QED BY <1>0, <1>3, <2>1, EchoStep DEF PressEnter
  <1>4. CASE PressBackspace
    BY <1>4, EraseStep
  <1>5. CASE CtrlL
    BY <1>5, ClearStep
  <1>6. CASE SwitchRefused
    <2>1. Front' = Front
      BY <1>6, FrontStays DEF SwitchRefused, printing
    <2>2. out.kind = "none" /\ out'.kind = "refuse"
      BY <1>0, <1>6 DEF SwitchRefused
    <2> QED BY <1>6, <2>1, <2>2, QuietStep DEF SwitchRefused
  <1>7. CASE PromptChar
    <2>1. Head(out.rest) \in Char /\ out.kind # "back" /\ out'.kind # "back"
      BY <1>0, <1>7 DEF PromptChar, OutType, Advance
    <2> QED BY <1>7, <2>1, EchoStep DEF PromptChar
  <1>8. CASE PromptDone
    BY <1>8, PromptDoneStep
  <1>9. ASSUME NEW t \in Terminal, switch_to_terminal(t) PROVE Abstract!Next
    BY <1>9, SwitchStep
  <1> QED BY <1>1, <1>2, <1>3, <1>4, <1>5, <1>6, <1>7, <1>8, <1>9 DEF OnTheScreen

LEMMA NextImplements ==
    ASSUME Good, ~torn', ~slipped', Next
    PROVE  Abstract!Next \/ UNCHANGED <<current_terminal, Views>>
  <1>0. ~(screen_x' < 0) /\ Idle.kind = "none"
    BY IdleOut DEF Next
  <1>1. CASE Apart
    BY <1>1, ApartKeeps, ApartImplements
  <1>2. CASE OnTheScreen /\ ~Busy
    BY <1>0, <1>2, ScreenKeeps, ScreenImplements
  <1>3. ASSUME NEW t \in Terminal, NoteStep(t), \A u \in Terminal : u # t => at[u] = "none"
        PROVE  Abstract!Next \/ UNCHANGED <<current_terminal, Views>>
    <2>1. /\ Good'
          /\ Front' = Front \/ Front' = After(Front, current_terminal, Head(note[t]))
          /\ Head(note[t]) \in Char
          /\ UNCHANGED <<current_terminal, column_stack, terminal_info, saved_screen, out>>
          /\ out.kind = "none"
      BY <1>0, <1>3, NoteKeeps
    <2>2. CASE Front' = Front
      BY <2>1, <2>2, QuietStep
    <2>3. CASE Front' = After(Front, current_terminal, Head(note[t]))
      BY <2>1, <2>3, NoteShows
    <2> QED BY <2>1, <2>2, <2>3
  <1>4. ASSUME NEW t \in Terminal, NoteKilled(t), at[t] = "none"
        PROVE  UNCHANGED <<current_terminal, Views>>
    BY <1>0, <1>4, KilledKeeps, QuietStep DEF NoteKilled
  <1>5. \/ Apart
        \/ OnTheScreen /\ ~Busy
        \/ \E t \in Terminal :
              \/ NoteStep(t) /\ \A u \in Terminal : u # t => at[u] = "none"
              \/ NoteKilled(t) /\ at[t] = "none"
    BY DEF Next
  <1> QED BY <1>1, <1>2, <1>3, <1>4, <1>5

LEMMA InitImplements == ASSUME Init PROVE Abstract!Init
  <1>0. ~Busy
    BY DEF Init, Busy
  <1>1. Good
    BY InitHolds DEF Init, IInv
  <1>2. First \in Terminal /\ current_terminal = First
    BY FirstAssumption DEF Init
  <1>3. ASSUME NEW t \in Terminal
        PROVE  View(t) = [text |-> Abstract!Page(t), x |-> 0, y |-> 0, row |-> 0, col |-> 0]
    <2>1. TextOf(Blank(t)) = Abstract!Page(t)
      BY TextBlank
    <2>2. CASE t = First
      <3>1. View(t) = FrontView
        BY <1>1, <1>2, <2>2, ViewIs
      <3>2. FrontView = Con(video_mem, screen_x, screen_y, row_stack, column_stack)
        BY <1>0, FrontViewIs
      <3> QED BY <2>1, <2>2, <3>1, <3>2 DEF Init, Con
    <2>3. CASE t # First
      <3>1. View(t) = BackView(t)
        BY <1>1, <1>2, <2>3, ViewIs
      <3>2. saved_screen[t] = Blank(t) /\ BackCol(t) = 0
            /\ terminal_info[t] = [x |-> 0, y |-> 0, row |-> 0, col |-> 0]
        BY DEF Init, BackCol
      <3> QED BY <2>1, <3>1, <3>2 DEF BackView, Con
    <2> QED BY <2>2, <2>3
  <1> QED BY <1>2, <1>3 DEF Abstract!Init

\* Every terminal is a console of its own, as long as backspace leaves every
\* cursor on its line and nothing on the screen falls into a putc of
\* terminal_read: what a program writes does not depend on whether its
\* terminal is displayed (lib.c 198-235 and 243-281), switching terminals
\* moves no character, cursor or colour (terminal.c 165-277), keys change the
\* displayed terminal only, and the steps of a reader's putc (terminal.c 40)
\* amount to one character.
THEOREM ConsolesImplemented == Spec => ImplementsConsoles
  <1>1. Init => Abstract!Init
    BY InitImplements
  <1>2. IInv /\ [Next]_vars
          => [slipped' \/ torn' \/ Abstract!Next]_<<current_terminal, [t \in Terminal |-> View(t)]>>
    <2> SUFFICES ASSUME IInv, [Next]_vars, ~slipped', ~torn'
                 PROVE  Abstract!Next \/ UNCHANGED <<current_terminal, Views>>
      BY DEF Views
    <2>1. CASE Next
      <3>1. ~slipped /\ ~torn
        <4>1. slipped' = (slipped \/ screen_x' < 0)
          BY <2>1 DEF Next
        <4>2. torn => torn'
          BY <2>1 DEF Next, IInv
        <4> QED BY <4>1, <4>2
      <3>2. Good
        BY <3>1 DEF IInv
      <3> QED BY <2>1, <3>2, NextImplements
    <2>2. CASE UNCHANGED vars
      <3>1. Front' = Front
        BY <2>2, FrontStays DEF vars, printing
      <3> QED BY <2>2, <3>1 DEF vars, Views, View, Held
    <2> QED BY <2>1, <2>2
  <1> QED BY <1>1, <1>2, Invariant, PTL DEF Spec, ImplementsConsoles, Abstract!vars
=============================================================================
