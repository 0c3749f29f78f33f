------------------------------- MODULE MCShell ------------------------------
(* The directory, files and lines of Shell for TLC. *)
EXTENDS Shell

E == "E"    \* the first byte of an executable

MCChar == {"c", "g", "r", "l", "x", "y", "0", "1", "n", "h", "o", ".", E, "NUL", "NL", " "}

MCDentry == <<
    [name |-> <<".">>, type |-> "dir", inode |-> 0],
    [name |-> <<"r">>, type |-> "rtc", inode |-> 0],
    [name |-> <<"c", "c">>, type |-> "file", inode |-> 6],
    [name |-> <<"c">>, type |-> "file", inode |-> 1],
    [name |-> <<"g">>, type |-> "file", inode |-> 2],
    [name |-> <<"l">>, type |-> "file", inode |-> 3],
    [name |-> <<"n">>, type |-> "file", inode |-> 4],
    [name |-> <<"h">>, type |-> "file", inode |-> 5],
    [name |-> <<"x", "c", "x">>, type |-> "file", inode |-> 7],
    [name |-> <<".", "x">>, type |-> "file", inode |-> 8]>>

MCTextInode == 7

MCProgram == <<"cat", "grep", "ls", "counter", "hello", "other", "none", "none">> @@ (0 :> "none")

MCImage == [i \in 0 .. 8 |-> IF i = 0 THEN <<>> ELSE <<E, NUL, "x", NL, "x">>]

Over(S, n) == UNION {[1 .. k -> S] : k \in 0 .. n}

\* Every line of up to four characters of which cat and its arguments are made,
\* and some for the limits and the other programs.
MCTyped ==
    {Append(l, NL) : l \in Over({"c", "x", SP}, 4)} \cup
    {<<"c", SP, "x", "c", "x", NL>>, <<SP, "c", SP, SP, "x", "c", NL>>,
     <<"c", SP, "x", "c", "x", "c", NL>>, <<"x", "c", "x", "c", "x", NL>>,
     <<"g", SP, "x", NL>>, <<"g", SP, SP, "x", "y", NL>>, <<"g", SP, "x", "x", NL>>, <<"g", NL>>,
     <<"l", NL>>, <<"n", NL>>, <<"h", NL>>,
     <<"c", SP, ".", NL>>, <<"c", SP, ".", "x", NL>>, <<".", "x", NL>>, <<"c", SP, "r", NL>>, <<".", NL>>, <<"r", NL>>, <<"o", NL>>,
     <<"c", SP, NUL, "x", NL>>, <<NUL, NL>>,
     <<"c", NL, "x", NL>>, <<"c", SP, "x", NL, "c", NL>>, <<NL, "c", NL>>, <<"c", SP>>}

MCAnswers == {<<"0", NL>>, <<"1", NL>>, <<"x", NL>>, <<NL>>, <<"0", "1", NL>>}

MCExit == <<"o">>

MCTexts == Over({"x", "y", NL}, 6)

MCCount == ("0" :> 2) @@ ("1" :> 11)

\* The number that a string of digits stands for.
Value(digits) == FoldLeft(LAMBDA n, d : 10 * n + d, 0, digits)

\* itoa against the numbers it writes, for all that counter counts to: decimal
\* digits, no leading zero (ece391counter.c 37-41).
ASSUME ItoaIsDecimal ==
    \A v \in 0 .. 100000 :
       LET s == itoa(v)
       IN  Range(s) \subseteq 0 .. 9 /\ Value(s) = v /\ (v > 0 => s[1] > 0)
=============================================================================
