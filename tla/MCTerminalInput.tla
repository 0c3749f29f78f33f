--------------------------- MODULE MCTerminalInput ---------------------------
(* Instances of TerminalInput for TLC. *)
EXTENDS TerminalInput

\* Explore a behaviour up to its first race: after it the properties ask nothing.
NoRace == ~raced
=============================================================================
