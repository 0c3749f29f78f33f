--------------------------- MODULE TerminalStacks ---------------------------
(***************************************************************************)
(* What execute and halt promise about the processes of the system: every  *)
(* terminal has a stack of processes.  Starting a program pushes the       *)
(* lowest pid that is on no stack, ending one pops a stack, and nothing    *)
(* else moves a process.  Kernel implements this module.                   *)
(***************************************************************************)
EXTENDS Naturals, Sequences

CONSTANTS Pid, Terminal

VARIABLE stacks     \* stacks[t]: the processes of terminal t, bottom first

OnStack(p) == \E t \in Terminal : \E i \in 1 .. Len(stacks[t]) : stacks[t][i] = p

Init == stacks = [t \in Terminal |-> <<>>]

Start(t) ==
    \E p \in Pid :
        /\ ~OnStack(p)
        /\ \A q \in Pid : q < p => OnStack(q)
        /\ stacks' = [stacks EXCEPT ![t] = Append(@, p)]

End(t) ==
    /\ stacks[t] # <<>>
    /\ stacks' = [stacks EXCEPT ![t] = SubSeq(@, 1, Len(@) - 1)]

Next == \E t \in Terminal : Start(t) \/ End(t)

Spec == Init /\ [][Next]_stacks

=============================================================================
