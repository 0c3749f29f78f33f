------------------------------ MODULE Terminals ------------------------------
(***************************************************************************)
(* What the drivers of the clock and of the user video page share: the     *)
(* terminals and the one that has the CPU (scheduling.h, scheduling.c).    *)
(***************************************************************************)
EXTENDS Integers

CONSTANT N      \* MAX_TERMINAL_NUM

Terminal == 0 .. (N - 1)

ASSUME TerminalAssumption == N \in Nat \ {0}

VARIABLE running_terminal
=============================================================================
