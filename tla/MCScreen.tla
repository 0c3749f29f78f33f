------------------------------ MODULE MCScreen ------------------------------
(* Instances of Screen for TLC. *)
EXTENDS Screen

\* An empty write, a newline in a line, and a newline after a full line.
MCTexts  == {<<>>, <<"w", "\n", "w">>, <<"w", "w", "\n">>}
MCPrompt == <<"w">>
MCNote   == <<"w", "\n">>
MCRefusal == <<"\n", "w">>

\* The behaviours explored: none goes on after a cursor left its line or a putc
\* was interrupted by another.
OnPage == ~slipped /\ ~torn
=============================================================================
