------------------------------ MODULE Consoles ------------------------------
(***************************************************************************)
(* What the terminals promise: every terminal is a console of its own, a   *)
(* page of Rows lines with a cursor, and only the console on display gets  *)
(* the keys.  What is printed on a console does not depend on whether it   *)
(* is on display, and changing the display changes no console.             *)
(***************************************************************************)
EXTENDS Integers, Sequences

CONSTANTS Terminal, First, Rows, Cols, Char

VARIABLES
    display,    \* the terminal on display
    console     \* of every terminal: [text, x, y, row, col]

vars == <<display, console>>

Blank(t) == [c \in 1 .. Cols |-> <<" ", t>>]
Page(t)  == [r \in 1 .. Rows |-> Blank(t)]

\* text: the lines; x, y: the cursor; row: lines the input has wrapped over;
\* col: the column that backspace stops at.
Init ==
    /\ display = First
    /\ console = [t \in Terminal |-> [text |-> Page(t), x |-> 0, y |-> 0, row |-> 0, col |-> 0]]

Least(a, b) == IF a < b THEN a ELSE b

\* Down one line; the page scrolls when there is none left.
Down(k, t) ==
    IF k.y < Rows - 1
    THEN [k EXCEPT !.x = 0, !.y = @ + 1]
    ELSE [k EXCEPT !.x = 0, !.text = Append(Tail(@), Blank(t))]

\* A character at the cursor; the last column continues on the next line.
Type(k, t, c) ==
    LET w == [k EXCEPT !.text[k.y + 1][k.x + 1] = <<c, t>>]
    IN  IF k.x < Cols - 1
        THEN [w EXCEPT !.x = @ + 1]
        ELSE [Down(w, t) EXCEPT !.row = Least(@ + 1, Rows - 1)]

\* A new line; one that a full line has just begun is not begun again.
NewLine(k, t) ==
    LET d == Down(k, t)
    IN  [d EXCEPT !.y = IF k.x = 0 /\ k.row # 0 THEN @ - 1 ELSE @, !.row = 0]

Shown(k, t, c) == IF c = "\n" THEN NewLine(k, t) ELSE Type(k, t, c)

\* Program output may not be erased: backspace stops behind it.
Emit(t, c) ==
    console' = [console EXCEPT ![t] =
                   [Shown(@, t, c) EXCEPT !.col = Shown(console[t], t, c).x]]

\* Echo of a key, and messages of the kernel, on the console on display.
Echo(c) == console' = [console EXCEPT ![display] = Shown(@, display, c)]

\* An empty write only moves the column that backspace stops at.
Settle(t) == console' = [console EXCEPT ![t].col = console[t].x]

\* Backspace blanks the cell before the cursor in reading order, and goes up
\* only to a line that the input has wrapped over; at the left edge of a line
\* that it has not, the cursor leaves the page.
Erased(k, t) ==
    LET p  == Cols * k.y + k.x - 1
        up == k.x = 0 /\ k.row # 0
    IN  [text |-> [r \in 1 .. Rows |-> [c \in 1 .. Cols |->
                      IF p = Cols * (r - 1) + c - 1 THEN <<" ", t>> ELSE k.text[r][c]]],
         x    |-> IF up THEN Cols - 1 ELSE k.x - 1,
         y    |-> IF up THEN k.y - 1 ELSE k.y,
         row  |-> IF up THEN k.row - 1 ELSE k.row,
         col  |-> k.col]

Erase ==
    /\ console[display].x # console[display].col \/ console[display].row # 0
    /\ console' = [console EXCEPT ![display] = Erased(@, display)]

Cleared(k, t) == [text |-> Page(t), x |-> 0, y |-> 0, row |-> 0, col |-> k.col]

Clear == console' = [console EXCEPT ![display] = Cleared(@, display)]

Next ==
    \/ /\ \/ \E t \in Terminal : Settle(t) \/ \E c \in Char : Emit(t, c)
          \/ \E c \in Char : Echo(c)
          \/ Erase
          \/ Clear
       /\ UNCHANGED display
    \/ /\ display' \in Terminal
       /\ UNCHANGED console

Spec == Init /\ [][Next]_vars
=============================================================================
