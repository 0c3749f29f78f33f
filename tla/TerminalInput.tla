---------------------------- MODULE TerminalInput ----------------------------
(***************************************************************************)
(* Keyboard input of the terminals: the line buffer key_arr of the         *)
(* terminal on the screen (lib.c), its copies in terminal_info             *)
(* (terminal.c), the flag enter_state, the key handler (keyboard.c) and    *)
(* terminal_read, one reader per terminal.                                 *)
(*                                                                         *)
(* Key presses are interrupts and run to the end.  terminal_read runs with *)
(* interrupts on except around the reset of enter_state, and a tick can    *)
(* hand the CPU to another reader at any point of it, so its loops are     *)
(* modelled access by access.                                              *)
(*                                                                         *)
(* A key remembers the terminal that was on the screen when it was hit.    *)
(***************************************************************************)
EXTENDS Naturals, Sequences, SequencesExt

CONSTANTS
    Terminal,       \* the terminals
    First,          \* the one on the screen at boot
    Size,           \* KEY_ARR_SIZE
    NBytes,         \* what readers pass as nbytes
    MaxKeys,        \* bound: characters and Enters typed in a behaviour
    MaxErase,       \* bound: backspaces in a behaviour
    NUL             \* the byte '\0'

ASSUME FirstAssumption == First \in Terminal
ASSUME SizeAssumption == Size \in Nat /\ Size >= 2
ASSUME NBytesAssumption == NBytes \subseteq Nat
ASSUME BoundAssumption == MaxKeys \in Nat /\ MaxErase \in Nat

Key  == [on : Terminal, enter : BOOLEAN]
Cell == Key \cup {NUL}
ASSUME NulAssumption == NUL \notin Key

VARIABLES
    current_terminal,
    key_arr,            \* the Size + 1 cells of the buffer on the screen
    key_arr_ptr,
    key_arr_overflow,
    enter_state,
    terminal_info,      \* [arr, ptr, overflow] saved for every terminal
    reader,             \* terminal_read of every terminal: [pc, i, n, buf]
    keys, erased,       \* counters for the bounds
    line,               \* history: the keys on line t as the user sees it
    entered,            \* history: Enter was hit on t since its last read
    raced               \* history: a key or a switch fell into a read, a reader
                        \* was killed there or passed on an Enter already taken

buffer == <<key_arr, key_arr_ptr, key_arr_overflow>>
vars == <<current_terminal, buffer, enter_state, terminal_info, reader, keys,
          erased, line, entered, raced>>

Cells == 1 .. (Size + 1)
Empty == [c \in Cells |-> NUL]

\* Readers between the test of terminal_read and its return.
Reading   == {t \in Terminal : reader[t].pc \in {"passed", "copy", "clear", "wipe"}}
\* Readers that have reset enter_state and not yet emptied the buffer.
Consuming == {t \in Terminal : reader[t].pc \in {"copy", "clear", "wipe"}}

Init ==
    /\ current_terminal = First
    /\ key_arr = Empty
    /\ key_arr_ptr = 0
    /\ key_arr_overflow = 0
    /\ enter_state = FALSE
    /\ terminal_info = [t \in Terminal |-> [arr |-> Empty, ptr |-> 0, overflow |-> 0]]
    /\ reader = [t \in Terminal |-> [pc |-> "busy", i |-> 0, n |-> 0, buf |-> <<>>]]
    /\ keys = 0
    /\ erased = 0
    /\ line = [t \in Terminal |-> <<>>]
    /\ entered = [t \in Terminal |-> FALSE]
    /\ raced = FALSE

-----------------------------------------------------------------------------
\* key_arr_push: what does not fit is only counted, in a uint8_t.
key_arr_push(k) ==
    IF key_arr_ptr < Size - 1
    THEN /\ key_arr' = [key_arr EXCEPT ![key_arr_ptr + 1] = k]
         /\ key_arr_ptr' = key_arr_ptr + 1
         /\ UNCHANGED key_arr_overflow
    ELSE /\ key_arr_overflow' = (key_arr_overflow + 1) % 256
         /\ UNCHANGED <<key_arr, key_arr_ptr>>

\* key_arr_pop: a key that did not fit is erased first; cells keep their bytes.
key_arr_pop ==
    /\ UNCHANGED key_arr
    /\ \/ /\ key_arr_overflow > 0
          /\ key_arr_overflow' = key_arr_overflow - 1
          /\ UNCHANGED key_arr_ptr
       \/ /\ key_arr_overflow = 0
          /\ key_arr_ptr' = IF key_arr_ptr > 0 THEN key_arr_ptr - 1 ELSE 0
          /\ UNCHANGED key_arr_overflow

\* What input_handler makes of a key: a character, or for F1 the NUL that its
\* tables have there.
Typed == {[on |-> current_terminal, enter |-> FALSE], NUL}

\* A key that input_handler echoes and pushes.
PressKey(k) ==
    /\ keys < MaxKeys
    /\ keys' = keys + 1
    /\ key_arr_push(k)
    /\ line' = [line EXCEPT ![current_terminal] = Append(@, k)]
    /\ raced' = (raced \/ Consuming # {})
    /\ UNCHANGED <<current_terminal, enter_state, terminal_info, reader, erased, entered>>

\* Enter: '\n' goes into the buffer like any key, then enter_state is set.
PressEnter ==
    LET k == [on |-> current_terminal, enter |-> TRUE]
    IN  /\ keys < MaxKeys
        /\ keys' = keys + 1
        /\ key_arr_push(k)
        /\ enter_state' = TRUE
        /\ line' = [line EXCEPT ![current_terminal] = Append(@, k)]
        /\ entered' = [entered EXCEPT ![current_terminal] = TRUE]
        /\ raced' = (raced \/ Consuming # {})
        /\ UNCHANGED <<current_terminal, terminal_info, reader, erased>>

\* Backspace, where backspace_handler lets it reach the buffer.
PressBackspace ==
    /\ erased < MaxErase
    /\ erased' = erased + 1
    /\ key_arr_pop
    /\ line' = [line EXCEPT ![current_terminal] = IF @ = <<>> THEN @ ELSE Front(@)]
    /\ raced' = (raced \/ Consuming # {})
    /\ UNCHANGED <<current_terminal, enter_state, terminal_info, reader, keys, entered>>

\* strncpy stops at the first '\0' and fills the rest with '\0'.
strncpy(arr) ==
    [c \in Cells |-> IF \E b \in 1 .. c : arr[b] = NUL THEN NUL ELSE arr[c]]

\* Fault: the overflow count of the other terminal is kept.
switch_to_terminal_KeepsOverflow(t) ==
    /\ t # current_terminal
    /\ terminal_info' = [terminal_info EXCEPT ![current_terminal] =
           [arr |-> strncpy(key_arr), ptr |-> key_arr_ptr, overflow |-> key_arr_overflow]]
    /\ current_terminal' = t
    /\ key_arr' = strncpy(terminal_info[t].arr)
    /\ key_arr_ptr' = terminal_info[t].ptr
    /\ raced' = (raced \/ Reading # {} \/ enter_state)
    /\ UNCHANGED <<key_arr_overflow, enter_state, reader, keys, erased, line, entered>>

\* The input half of switch_to_terminal: save_terminal_info of the terminal
\* that leaves the screen, restore_terminal_info of the one that comes.
\* enter_state stays: it is raised for whoever reads next.
switch_to_terminal(t) ==
    /\ t # current_terminal
    /\ terminal_info' = [terminal_info EXCEPT ![current_terminal] =
           [arr |-> strncpy(key_arr), ptr |-> key_arr_ptr, overflow |-> key_arr_overflow]]
    /\ current_terminal' = t
    /\ key_arr' = strncpy(terminal_info[t].arr)
    /\ key_arr_ptr' = terminal_info[t].ptr
    /\ key_arr_overflow' = terminal_info[t].overflow
    /\ raced' = (raced \/ Reading # {} \/ enter_state)
    /\ UNCHANGED <<enter_state, reader, keys, erased, line, entered>>

-----------------------------------------------------------------------------
(***************************************************************************)
(* terminal_read of terminal t.                                            *)
(***************************************************************************)
Goto(t, pc) == reader' = [reader EXCEPT ![t].pc = pc]

ReadCall(t, n) ==
    /\ reader[t].pc = "busy"
    /\ reader' = [reader EXCEPT ![t] = [pc |-> "wait", i |-> 0, n |-> n, buf |-> <<>>]]
    /\ UNCHANGED <<current_terminal, buffer, enter_state, terminal_info, keys, erased,
                   line, entered, raced>>

\* Fault: the wait is for the flag to be down.
ReadSeesEnter_Inverted(t) ==
    /\ reader[t].pc = "wait"
    /\ ~enter_state
    /\ Goto(t, "seen")
    /\ UNCHANGED <<current_terminal, buffer, enter_state, terminal_info, keys, erased,
                   line, entered, raced>>

\* The loop: enter_state is read first, ...
ReadSeesEnter(t) ==
    /\ reader[t].pc = "wait"
    /\ enter_state
    /\ Goto(t, "seen")
    /\ UNCHANGED <<current_terminal, buffer, enter_state, terminal_info, keys, erased,
                   line, entered, raced>>

\* Fault: a reader of any terminal takes the line.
ReadTestsTerminal_Any(t) ==
    /\ reader[t].pc = "seen"
    /\ Goto(t, "passed")
    /\ raced' = (raced \/ ~enter_state)
    /\ UNCHANGED <<current_terminal, buffer, enter_state, terminal_info, keys, erased,
                   line, entered>>

\* ... then current_terminal.
ReadTestsTerminal(t) ==
    /\ reader[t].pc = "seen"
    /\ Goto(t, IF t = current_terminal THEN "passed" ELSE "wait")
    /\ raced' = (raced \/ (t = current_terminal /\ ~enter_state))
    /\ UNCHANGED <<current_terminal, buffer, enter_state, terminal_info, keys, erased,
                   line, entered>>

\* cli(); enter_state = 0; sti();
ReadTakesEnter(t) ==
    /\ reader[t].pc = "passed"
    /\ enter_state' = FALSE
    /\ Goto(t, "copy")
    /\ UNCHANGED <<current_terminal, buffer, terminal_info, keys, erased, line, entered,
                   raced>>

\* One iteration of the copy loop, with the buffer as it is now.
ReadCopies(t) ==
    LET i == reader[t].i
    IN  /\ reader[t].pc = "copy"
        /\ i < key_arr_ptr /\ i < reader[t].n
        /\ reader' = [reader EXCEPT ![t].i = i + 1,
                                    ![t].buf = Append(@, key_arr[i + 1])]
        /\ UNCHANGED <<current_terminal, buffer, enter_state, terminal_info, keys,
                       erased, line, entered, raced>>

\* The loop ends, buf[i] = '\0' although there may be no room for it, and
\* key_arr_clear sets key_arr_ptr to 0.
ReadCopied(t) ==
    LET i == reader[t].i
    IN  /\ reader[t].pc = "copy"
        /\ ~(i < key_arr_ptr /\ i < reader[t].n)
        /\ key_arr_ptr' = 0
        /\ reader' = [reader EXCEPT ![t].pc = "clear", ![t].buf = Append(@, NUL)]
        /\ UNCHANGED <<current_terminal, key_arr, key_arr_overflow, enter_state,
                       terminal_info, keys, erased, line, entered, raced>>

\* key_arr_clear sets key_arr_overflow to 0.
ReadClears(t) ==
    /\ reader[t].pc = "clear"
    /\ key_arr_overflow' = 0
    /\ Goto(t, "wipe")
    /\ UNCHANGED <<current_terminal, key_arr, key_arr_ptr, enter_state, terminal_info,
                   keys, erased, line, entered, raced>>

\* key_arr_clear zeroes the cells and terminal_read returns the bytes copied.
ReadReturns(t) ==
    /\ reader[t].pc = "wipe"
    /\ key_arr' = Empty
    /\ Goto(t, "busy")
    /\ line' = [line EXCEPT ![t] = <<>>]
    /\ entered' = [entered EXCEPT ![t] = FALSE]
    /\ UNCHANGED <<current_terminal, key_arr_ptr, key_arr_overflow, enter_state,
                   terminal_info, keys, erased, raced>>

\* A tick finds the interrupt signal of Ctrl-C pending and halts the program in
\* the middle of its read.
ReadKilled(t) ==
    /\ reader[t].pc # "busy"
    /\ Goto(t, "busy")
    /\ raced' = (raced \/ t \in Consuming)
    /\ UNCHANGED <<current_terminal, buffer, enter_state, terminal_info, keys, erased,
                   line, entered>>

ReadStep(t) ==
    \/ ReadSeesEnter(t)
    \/ ReadTestsTerminal(t)
    \/ ReadTakesEnter(t)
    \/ ReadCopies(t)
    \/ ReadCopied(t)
    \/ ReadClears(t)
    \/ ReadReturns(t)

Next ==
    \/ \E k \in Typed : PressKey(k)
    \/ PressEnter
    \/ PressBackspace
    \/ \E t \in Terminal : switch_to_terminal(t)
    \/ \E t \in Terminal, n \in NBytes : ReadCall(t, n)
    \/ \E t \in Terminal : ReadStep(t) \/ ReadKilled(t)

Spec == Init /\ [][Next]_vars

\* The scheduler gives every terminal the CPU again and again, so a reader
\* that can go on does; nothing is assumed of the user.
FairSpec == Spec /\ \A t \in Terminal : WF_vars(ReadStep(t))

-----------------------------------------------------------------------------
Reader == [pc : {"busy", "wait", "seen", "passed", "copy", "clear", "wipe"},
           i : 0 .. (Size - 1), n : NBytes \cup {0}, buf : Seq(Cell)]

\* Types; key_arr_ptr stays inside the buffer, of the display and saved.
TypeOK ==
    /\ current_terminal \in Terminal
    /\ key_arr \in [Cells -> Cell]
    /\ key_arr_ptr \in 0 .. (Size - 1)
    /\ key_arr_overflow \in 0 .. 255
    /\ enter_state \in BOOLEAN
    /\ terminal_info \in [Terminal -> [arr : [Cells -> Cell], ptr : 0 .. (Size - 1),
                                       overflow : 0 .. 255]]
    /\ reader \in [Terminal -> Reader]
    /\ keys \in 0 .. MaxKeys
    /\ erased \in 0 .. MaxErase
    /\ line \in [Terminal -> Seq(Cell)]
    /\ entered \in [Terminal -> BOOLEAN]
    /\ raced \in BOOLEAN

\* The buffer that belongs to terminal t now.
Held(t) == IF t = current_terminal
           THEN [arr |-> key_arr, ptr |-> key_arr_ptr, overflow |-> key_arr_overflow]
           ELSE terminal_info[t]

MinOf(a, b) == IF a <= b THEN a ELSE b

\* No F1 was hit on line l before its c-th key: the copy of a switch reaches it.
Whole(l, c) == \A j \in 1 .. (c - 1) : l[j] # NUL

\* Until a race, switching terminals loses and mixes nothing up to the first F1
\* of a line: every terminal's buffer holds the first Size - 1 keys of the line
\* its user sees, and counts the rest, so that backspace undoes exactly the last
\* key.  What is typed behind an F1 is lost to the strncpy of the next switch.
BuffersHoldLines ==
    ~raced => \A t \in Terminal \ Consuming :
        LET fits == MinOf(Len(line[t]), Size - 1)
        IN  /\ Held(t).ptr = fits
            /\ Held(t).overflow = Len(line[t]) - fits
            /\ \A c \in 1 .. fits : Whole(line[t], c) => Held(t).arr[c] = line[t][c]

\* Until a race, terminal_read returns the line that was typed on its own
\* terminal, cut at nbytes and at the size of the buffer, after an Enter there,
\* up to the first F1 byte by byte and behind it with the right length.
ReadsOwnLine ==
    [][\A t \in Terminal :
          ReadReturns(t) /\ ~raced =>
              /\ reader[t].i = MinOf(MinOf(Len(line[t]), Size - 1), reader[t].n)
              /\ \A c \in 1 .. reader[t].i :
                    Whole(line[t], c) => reader[t].buf[c] = line[t][c]
              /\ entered[t]]_vars

\* Two readers are never past the test at once, unless the user switched
\* terminals under one of them or one passed on an Enter already taken.
OneReader == ~raced => \A t, u \in Reading : t = u

\* A program that reads on the terminal on the screen gets its line after
\* Enter, unless the user goes to another terminal.
EnterWakesReader ==
    \A t \in Terminal :
        (reader[t].pc = "wait" /\ enter_state /\ current_terminal = t) ~>
            (reader[t].pc = "busy" \/ current_terminal # t \/ raced)

=============================================================================
