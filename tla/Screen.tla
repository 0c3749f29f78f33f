------------------------------- MODULE Screen -------------------------------
(***************************************************************************)
(* Text output of the terminals: putc, backspace_handler and clear on the  *)
(* video memory (lib.c), putc_terminal on the saved screen of a terminal   *)
(* that is not displayed (lib.c), terminal_write, and the switch between   *)
(* the two by save_terminal_info and restore_terminal_info (terminal.c).   *)
(*                                                                         *)
(* Video memory and the saved screens are indexed by offset, as in the     *)
(* code: NUM_COLS * y + x.  A cell is a character and the terminal whose   *)
(* colour attribute it has.  screen_x is a C int and can become negative;  *)
(* the fields of terminal_info are bytes.                                  *)
(*                                                                         *)
(* terminal_write and the keyboard handler run with IF = 0; their loops    *)
(* over characters are stepped, and nothing else runs while `out` is on.   *)
(* The printf of terminal_read runs with IF = 1: its putc is several steps *)
(* on the same variables, and anything may come between two of them.       *)
(***************************************************************************)
EXTENDS Integers, Sequences

CONSTANTS
    Terminal,   \* the terminals
    First,      \* the one on the screen at boot
    Rows, Cols, \* NUM_ROWS, NUM_COLS
    Texts,      \* what programs write: sequences of "w" and "\n"
    Prompt,     \* what Ctrl-L prints after it has cleared the screen
    Note,       \* what terminal_read prints
    Refusal,    \* what a switch prints when no pid is free for its shell
    Events,     \* which of enter, backspace, ctrl_l, read and refuse happen
    MaxOps      \* bound: operations in a behaviour

Char == {"k", "w", "\n"}

ASSUME FirstAssumption == First \in Terminal
ASSUME SizeAssumption == Rows \in Nat /\ Cols \in Nat /\ Rows >= 2 /\ Cols >= 1
                         /\ Rows < 256 /\ Cols < 256
ASSUME TextAssumption == /\ Texts \subseteq Seq(Char) /\ Prompt \in Seq(Char)
                         /\ Note \in Seq(Char) /\ Refusal \in Seq(Char)
ASSUME EventAssumption == Events \subseteq {"enter", "backspace", "ctrl_l", "read", "refuse"}
ASSUME OpsAssumption == MaxOps \in Nat

VARIABLES
    current_terminal,
    video_mem,          \* the NUM_ROWS lines of text
    screen_x, screen_y, \* the cursor
    row_stack,          \* lines the current line has wrapped over
    column_stack,       \* where backspace stops
    terminal_info,      \* saved [x, y, row, col] of every terminal
    saved_screen,       \* saved text of every terminal
    out,                \* the loop over characters that runs with IF = 0
    terminal_running,   \* a shell has been started on the terminal
    note,               \* what the reader of every terminal still has to print
    at,                 \* where the reader is in the putc of its first character
    adjust,             \* its local variable of enter_handler
    before,             \* history: the screen when that putc began
    ops,                \* counter for the bound
    strayed,            \* a cell outside the text screen was written
    slipped,            \* history: backspace moved a cursor left of its line
    torn                \* history: something fell into a reader's putc

screen == <<video_mem, screen_x, screen_y, row_stack>>
printing == <<note, at, adjust, before>>
vars == <<current_terminal, screen, column_stack, terminal_info, saved_screen, out,
          terminal_running, printing, ops, strayed, slipped, torn>>

Offset == 0 .. (Rows * Cols - 1)
Cell   == {" ", "k", "w"} \X Terminal
Blank(t) == [o \in Offset |-> <<" ", t>>]

\* A value for `before` while no putc is under way.
Nothing == [m |-> Blank(First), x |-> 0, y |-> 0, row |-> 0]

\* The screen as it is.
Here == [m |-> video_mem, x |-> screen_x, y |-> screen_y, row |-> row_stack]

Idle == [kind |-> "none", tid |-> First, rest |-> <<>>, some |-> FALSE]

Init ==
    /\ current_terminal = First
    /\ video_mem = Blank(First)
    /\ screen_x = 0
    /\ screen_y = 0
    /\ row_stack = 0
    /\ column_stack = 0
    /\ terminal_info = [t \in Terminal |-> [x |-> 0, y |-> 0, row |-> 0, col |-> 0]]
    /\ saved_screen = [t \in Terminal |-> Blank(t)]
    /\ out = Idle
    /\ terminal_running = [t \in Terminal |-> t = First]
    /\ note = [t \in Terminal |-> <<>>]
    /\ at = [t \in Terminal |-> "none"]
    /\ adjust = [t \in Terminal |-> 0]
    /\ before = Nothing
    /\ ops = 0
    /\ strayed = FALSE
    /\ slipped = FALSE
    /\ torn = FALSE

-----------------------------------------------------------------------------
\* A store to cell (x, y); one outside the text is noted by Strays.
Poke(m, x, y, cell) ==
    [o \in Offset |-> IF o = Cols * y + x THEN cell ELSE m[o]]

Strays(x, y) == Cols * y + x \notin Offset

\* Fault: the last line is not blanked.
Scroll_Keeps(m, t) == [o \in Offset |-> IF o < Cols * (Rows - 1) THEN m[o + Cols] ELSE m[o]]

\* The memcpy of the lines below the first, and the blank last line.
Scroll(m, t) ==
    [o \in Offset |-> IF o < Cols * (Rows - 1) THEN m[o + Cols] ELSE <<" ", t>>]

\* Fault: the test against the last line is off by one.
Bottom_OffByOne(y) == y > Rows - 1

\* The cursor is on the last line: what goes down scrolls.
Bottom(y) == y >= Rows - 1

\* The count of wrapped lines stays below the lines of the screen.
Capped(row) == IF row > Rows - 1 THEN Rows - 1 ELSE row

\* Enter at the start of a line that a full line has begun stays on it.
Adjust(x, row) == IF x = 0 /\ row # 0 THEN 1 ELSE 0

\* Division and remainder of C.
Quot(a, b) == IF a >= 0 THEN a \div b ELSE -((-a) \div b)
Rem(a, b)  == a - b * Quot(a, b)

\* The line that putc sets last.
Fit(x, y) == Rem(y + Quot(x, Cols), Rows)

\* enter_handler, with enter_and_scroll and set_cursor_position.
enter_handler ==
    LET bottom == Bottom(screen_y)
    IN  /\ video_mem' = IF bottom THEN Scroll(video_mem, current_terminal) ELSE video_mem
        /\ screen_x' = 0
        /\ screen_y' = (IF bottom THEN Rows - 1 ELSE screen_y + 1)
                       - Adjust(screen_x, row_stack)
        /\ row_stack' = 0
        /\ UNCHANGED strayed

\* putc of a character that is not a newline.
PutChar(c) ==
    LET m      == Poke(video_mem, screen_x, screen_y, <<c, current_terminal>>)
        wraps  == screen_x + 1 >= Cols
        bottom == Bottom(screen_y)
        x      == IF wraps /\ bottom THEN 0
                  ELSE IF wraps THEN (screen_x + 1) % Cols ELSE screen_x + 1
        y      == IF ~wraps THEN screen_y ELSE IF bottom THEN Rows - 1 ELSE screen_y + 1
    IN  /\ video_mem' = IF wraps /\ bottom THEN Scroll(m, current_terminal) ELSE m
        /\ screen_x' = x
        /\ screen_y' = Fit(x, y)
        /\ row_stack' = IF wraps THEN Capped(row_stack + 1) ELSE row_stack
        /\ strayed' = (strayed \/ Strays(screen_x, screen_y))

putc(c) == IF c = "\n" THEN enter_handler ELSE PutChar(c)

\* enter_handler_terminal, with enter_and_scroll_terminal.
enter_handler_terminal(t) ==
    LET i      == terminal_info[t]
        bottom == Bottom(i.y)
    IN  /\ saved_screen' = [saved_screen EXCEPT ![t] = IF bottom THEN Scroll(@, t) ELSE @]
        /\ terminal_info' = [terminal_info EXCEPT ![t] =
               [x |-> 0, y |-> (IF bottom THEN Rows - 1 ELSE i.y + 1) - Adjust(i.x, i.row),
                row |-> 0, col |-> i.col]]
        /\ UNCHANGED strayed

\* putc_terminal of a character that is not a newline; the fields are bytes.
PutCharTerminal(c, t) ==
    LET i      == terminal_info[t]
        m      == Poke(saved_screen[t], i.x, i.y, <<c, t>>)
        next   == (i.x + 1) % 256
        wraps  == next >= Cols
        bottom == Bottom(i.y)
        x      == IF wraps /\ bottom THEN 0 ELSE IF wraps THEN next % Cols ELSE next
        y      == IF ~wraps THEN i.y ELSE IF bottom THEN Rows - 1 ELSE i.y + 1
    IN  /\ saved_screen' = [saved_screen EXCEPT ![t] = IF wraps /\ bottom THEN Scroll(m, t) ELSE m]
        /\ terminal_info' = [terminal_info EXCEPT ![t] =
               [x   |-> x,
                y   |-> Fit(x, y),
                row |-> IF wraps THEN Capped((i.row + 1) % 256) ELSE i.row,
                col |-> i.col]]
        /\ strayed' = (strayed \/ Strays(i.x, i.y))

putc_terminal(c, t) ==
    IF c = "\n" THEN enter_handler_terminal(t) ELSE PutCharTerminal(c, t)

-----------------------------------------------------------------------------
Count == ops < MaxOps /\ ops' = ops + 1

(***************************************************************************)
(* terminal_write by a program of terminal t.                              *)
(***************************************************************************)
\* cli(), and the choice between the screen and the saved screen.
WriteCall(t, text) ==
    /\ out = Idle
    /\ Count
    /\ out' = [kind |-> IF t = current_terminal THEN "front" ELSE "back",
               tid |-> t, rest |-> text, some |-> FALSE]
    /\ UNCHANGED <<current_terminal, screen, column_stack, terminal_info,
                   saved_screen, printing, strayed>>

Advance == out' = [out EXCEPT !.rest = Tail(@), !.some = TRUE]

\* One character on the screen; set_column_stack follows each.
WriteFront ==
    /\ out.kind = "front"
    /\ out.rest # <<>>
    /\ putc(Head(out.rest))
    /\ column_stack' = screen_x'
    /\ Advance
    /\ UNCHANGED <<current_terminal, terminal_info, saved_screen, printing, ops>>

\* One character on the saved screen.
WriteBack ==
    /\ out.kind = "back"
    /\ out.rest # <<>>
    /\ putc_terminal(Head(out.rest), out.tid)
    /\ Advance
    /\ UNCHANGED <<current_terminal, screen, column_stack, printing, ops>>

\* The loop is over: for a saved screen column_stack_old is set once.
WriteReturns ==
    /\ out.kind \in {"front", "back"}
    /\ out.rest = <<>>
    /\ out' = Idle
    /\ terminal_info' = IF out.kind = "back"
                        THEN [terminal_info EXCEPT ![out.tid].col = terminal_info[out.tid].x]
                        ELSE terminal_info
    /\ UNCHANGED <<current_terminal, screen, column_stack, saved_screen, printing, ops,
                   strayed>>

-----------------------------------------------------------------------------
(***************************************************************************)
(* Keys.                                                                   *)
(***************************************************************************)
\* A printable key is echoed.
PressKey ==
    /\ out = Idle
    /\ Count
    /\ putc("k")
    /\ UNCHANGED <<current_terminal, column_stack, terminal_info, saved_screen, out, printing>>

PressEnter ==
    /\ "enter" \in Events
    /\ out = Idle
    /\ Count
    /\ enter_handler
    /\ UNCHANGED <<current_terminal, column_stack, terminal_info, saved_screen, out, printing>>

\* backspace_handler: nothing at the start of the input, ...
BackspaceStops == screen_x = column_stack /\ row_stack = 0

\* ... else the cell before the cursor is blanked, in the line above when the
\* input has wrapped.
PressBackspace ==
    LET up == screen_x = 0 /\ row_stack # 0
        x  == IF up THEN Cols - 1 ELSE screen_x - 1
        y  == IF up THEN screen_y - 1 ELSE screen_y
    IN  /\ "backspace" \in Events
        /\ out = Idle
        /\ Count
        /\ ~BackspaceStops
        /\ video_mem' = Poke(video_mem, x, y, <<" ", current_terminal>>)
        /\ screen_x' = x
        /\ screen_y' = y
        /\ row_stack' = IF up THEN row_stack - 1 ELSE row_stack
        /\ strayed' = (strayed \/ Strays(x, y))
        /\ UNCHANGED <<current_terminal, column_stack, terminal_info, saved_screen,
                       out, printing>>

\* clear, on the text lines.
clear == video_mem' = Blank(current_terminal)

\* Ctrl-L: clear, cursor home, then the prompt is printed.
CtrlL ==
    /\ "ctrl_l" \in Events
    /\ out = Idle
    /\ Count
    /\ clear
    /\ screen_x' = 0
    /\ screen_y' = 0
    /\ row_stack' = 0
    /\ out' = [kind |-> "prompt", tid |-> current_terminal, rest |-> Prompt, some |-> FALSE]
    /\ UNCHANGED <<current_terminal, column_stack, terminal_info, saved_screen, printing, strayed>>

\* A switch to a terminal that has no shell yet, with no pid free, prints a
\* message and returns.
SwitchRefused ==
    /\ "refuse" \in Events
    /\ out = Idle
    /\ Count
    /\ \E t \in Terminal : ~terminal_running[t]
    /\ out' = [kind |-> "refuse", tid |-> current_terminal, rest |-> Refusal, some |-> FALSE]
    /\ UNCHANGED <<current_terminal, screen, column_stack, terminal_info, saved_screen,
                   printing, strayed>>

\* One character of either message.
PromptChar ==
    /\ out.kind \in {"prompt", "refuse"}
    /\ out.rest # <<>>
    /\ putc(Head(out.rest))
    /\ Advance
    /\ UNCHANGED <<current_terminal, column_stack, terminal_info, saved_screen, printing, ops>>

\* set_column_stack after the prompt, not after the refusal.
PromptDone ==
    /\ out.kind \in {"prompt", "refuse"}
    /\ out.rest = <<>>
    /\ column_stack' = IF out.kind = "prompt" THEN screen_x ELSE column_stack
    /\ out' = Idle
    /\ UNCHANGED <<current_terminal, screen, terminal_info, saved_screen, printing, ops,
                   strayed>>

\* The screen half of switch_to_terminal: save_terminal_info, clear,
\* restore_terminal_info.
switch_to_terminal(t) ==
    /\ out = Idle
    /\ Count
    /\ t # current_terminal
    /\ terminal_info' = [terminal_info EXCEPT ![current_terminal] =
           [x |-> screen_x % 256, y |-> screen_y % 256, row |-> row_stack % 256,
            col |-> column_stack % 256]]
    /\ saved_screen' = [saved_screen EXCEPT ![current_terminal] = video_mem]
    /\ current_terminal' = t
    /\ video_mem' = saved_screen[t]
    /\ screen_x' = terminal_info[t].x
    /\ screen_y' = IF terminal_info[t].y >= Rows THEN Rows ELSE terminal_info[t].y
    /\ row_stack' = terminal_info[t].row
    /\ column_stack' = terminal_info[t].col
    /\ UNCHANGED <<out, printing, strayed>>

-----------------------------------------------------------------------------
(***************************************************************************)
(* terminal_read prints with interrupts on, on whatever screen is          *)
(* displayed.                                                              *)
(***************************************************************************)
ReadPrints ==
    /\ "read" \in Events
    /\ out = Idle
    /\ note[current_terminal] = <<>>
    /\ Count
    /\ note' = [note EXCEPT ![current_terminal] = Note]
    /\ UNCHANGED <<current_terminal, screen, column_stack, terminal_info, saved_screen,
                   out, at, adjust, before, strayed>>

\* The reader of t goes from one part of a putc to another.
Reader(t, from, to) ==
    /\ out = Idle
    /\ note[t] # <<>>
    /\ at[t] = from
    /\ at' = [at EXCEPT ![t] = to]
    /\ note' = IF to = "none" THEN [note EXCEPT ![t] = Tail(@)] ELSE note
    /\ before' = IF from = "none" THEN Here ELSE IF to = "none" THEN Nothing ELSE before
    /\ UNCHANGED <<current_terminal, column_stack, terminal_info, saved_screen, out, ops>>

\* The stores of the character and its colour.
PutcStore(t) ==
    /\ Reader(t, "none", "column")
    /\ Head(note[t]) # "\n"
    /\ video_mem' = Poke(video_mem, screen_x, screen_y, <<Head(note[t]), current_terminal>>)
    /\ strayed' = (strayed \/ Strays(screen_x, screen_y))
    /\ UNCHANGED <<screen_x, screen_y, row_stack, adjust>>

\* screen_x++
PutcColumn(t) ==
    /\ Reader(t, "column", "wrap")
    /\ screen_x' = screen_x + 1
    /\ UNCHANGED <<video_mem, screen_y, row_stack, adjust, strayed>>

\* The test against the last column: the next line, ...
PutcWrap(t) ==
    /\ Reader(t, "wrap", "down")
    /\ screen_x >= Cols
    /\ row_stack' = Capped(row_stack + 1)
    /\ screen_x' = screen_x % Cols
    /\ UNCHANGED <<video_mem, screen_y, adjust, strayed>>

\* ... or the same.
PutcStays(t) ==
    /\ Reader(t, "wrap", "fit")
    /\ screen_x < Cols
    /\ UNCHANGED <<screen, adjust, strayed>>

\* Down a line, or scroll.
PutcDown(t) ==
    /\ Reader(t, "down", "fit")
    /\ video_mem' = IF Bottom(screen_y) THEN Scroll(video_mem, current_terminal) ELSE video_mem
    /\ screen_x' = IF Bottom(screen_y) THEN 0 ELSE screen_x
    /\ screen_y' = IF Bottom(screen_y) THEN Rows - 1 ELSE screen_y + 1
    /\ UNCHANGED <<row_stack, adjust, strayed>>

PutcFit(t) ==
    /\ Reader(t, "fit", "none")
    /\ screen_y' = Fit(screen_x, screen_y)
    /\ UNCHANGED <<video_mem, screen_x, row_stack, adjust, strayed>>

\* enter_handler tests where the line began, ...
EnterTest(t) ==
    /\ Reader(t, "none", "enter")
    /\ Head(note[t]) = "\n"
    /\ adjust' = [adjust EXCEPT ![t] = Adjust(screen_x, row_stack)]
    /\ UNCHANGED <<screen, strayed>>

\* ... scrolls or goes down (set_cursor_position), ...
EnterDown(t) ==
    /\ Reader(t, "enter", "adjust")
    /\ video_mem' = IF Bottom(screen_y) THEN Scroll(video_mem, current_terminal) ELSE video_mem
    /\ screen_x' = 0
    /\ screen_y' = IF Bottom(screen_y) THEN Rows - 1 ELSE screen_y + 1
    /\ row_stack' = IF Bottom(screen_y) THEN row_stack ELSE 0
    /\ UNCHANGED <<adjust, strayed>>

\* ... and goes up again if it began here.
EnterAdjust(t) ==
    /\ Reader(t, "adjust", "none")
    /\ screen_y' = screen_y - adjust[t]
    /\ row_stack' = 0
    /\ adjust' = [adjust EXCEPT ![t] = 0]
    /\ UNCHANGED <<video_mem, screen_x, strayed>>

NoteStep(t) ==
    \/ PutcStore(t) \/ PutcColumn(t) \/ PutcWrap(t) \/ PutcStays(t) \/ PutcDown(t)
    \/ PutcFit(t) \/ EnterTest(t) \/ EnterDown(t) \/ EnterAdjust(t)

\* The reader is killed by a signal and prints no further.
NoteKilled(t) ==
    /\ out = Idle
    /\ note[t] # <<>>
    /\ note' = [note EXCEPT ![t] = <<>>]
    /\ at' = [at EXCEPT ![t] = "none"]
    /\ adjust' = [adjust EXCEPT ![t] = 0]
    /\ UNCHANGED <<current_terminal, screen, column_stack, terminal_info, saved_screen,
                   out, before, ops, strayed>>

\* What does not touch the screen.
Apart ==
    \/ \E t \in Terminal, text \in Texts : WriteCall(t, text)
    \/ WriteBack
    \/ WriteReturns
    \/ ReadPrints

\* What does.
OnTheScreen ==
    \/ WriteFront
    \/ PressKey
    \/ PressEnter
    \/ PressBackspace
    \/ CtrlL
    \/ SwitchRefused
    \/ PromptChar
    \/ PromptDone
    \/ \E t \in Terminal : switch_to_terminal(t)

\* A reader is in the middle of a putc.
Busy == \E t \in Terminal : at[t] # "none"

Next ==
    /\ \/ Apart /\ UNCHANGED torn
       \/ OnTheScreen /\ torn' = (torn \/ Busy)
       \/ \E t \in Terminal :
             \/ NoteStep(t) /\ torn' = (torn \/ \E u \in Terminal \ {t} : at[u] # "none")
             \/ NoteKilled(t) /\ torn' = (torn \/ at[t] # "none")
    /\ slipped' = (slipped \/ screen_x' < 0)
    /\ terminal_running' = [terminal_running EXCEPT ![current_terminal'] = TRUE]

Spec == Init /\ [][Next]_vars

-----------------------------------------------------------------------------
\* The screen without the character that a reader is in the middle of.
Front == IF Busy THEN before ELSE Here

\* The state of terminal t, wherever it is kept.
Held(t) ==
    IF t = current_terminal
    THEN [m |-> Front.m, x |-> Front.x, y |-> Front.y, row |-> Front.row,
          col |-> column_stack]
    ELSE [m |-> saved_screen[t], x |-> terminal_info[t].x, y |-> terminal_info[t].y,
          row |-> terminal_info[t].row, col |-> terminal_info[t].col]

\* Until backspace moves a cursor left of its line, or something on the screen
\* falls into a putc of terminal_read, every cursor is on the screen and every
\* wrapped line has a line above it, so that no store leaves the screen and
\* going up with backspace stays on it.
CursorInside ==
    ~slipped /\ ~torn =>
        /\ ~strayed
        /\ \A t \in Terminal :
              /\ Held(t).x \in 0 .. (Cols - 1)
              /\ Held(t).y \in 0 .. (Rows - 1)
              /\ Held(t).row \in 0 .. Held(t).y

\* Terminal t as a console.
View(t) ==
    LET h == Held(t)
    IN  [text |-> [r \in 1 .. Rows |-> [c \in 1 .. Cols |-> h.m[Cols * (r - 1) + c - 1]]],
         x |-> h.x, y |-> h.y, row |-> h.row,
         col |-> IF out.kind = "back" /\ out.tid = t /\ out.some THEN h.x ELSE h.col]

Abstract == INSTANCE Consoles WITH
    display <- current_terminal, console <- [t \in Terminal |-> View(t)]

\* The terminals are consoles of their own: a write to a saved screen shows
\* like a write to the screen, switching terminals moves no character, cursor or
\* colour, keys change the displayed terminal only, and what a reader prints
\* appears character by character.  Every step is a step of Consoles until a
\* cursor has left its line or a putc of a reader was torn.
ImplementsConsoles ==
    Abstract!Init /\ [][slipped' \/ torn' \/ Abstract!Next]_(Abstract!vars)
=============================================================================
