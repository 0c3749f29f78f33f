---------------------------- MODULE MCInterrupts ----------------------------
(* What users type in the instance of Interrupts for TLC. *)
EXTENDS Interrupts

MCTyping == {
    <<"lshift", "9", "c", "lshift", "9">>,
    <<"lshift", "rshift", "9", "lshift", "c">>,
    <<"caps", "c", "9", "lshift", "c">>,
    <<"ctrl", "c", "l", "ctrl", "c">>,
    <<"alt", "f2", "f1">>}
=============================================================================
