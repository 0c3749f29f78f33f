------------------------------- MODULE SysErr -------------------------------
(***************************************************************************)
(* The program ece391syserr.c, which calls the kernel with arguments that  *)
(* it must refuse, as a client of Descriptors: one process may run it,     *)
(* between the steps of other programs, after any history of its pid.      *)
(* Descriptor -1 stands for NEG_FD and MaxFd, the first that is too large, *)
(* for BIG_FD.                                                             *)
(***************************************************************************)
EXTENDS Descriptors, Sequences

CONSTANT Tester     \* the process that runs the tests

ASSUME TesterAssumption == Tester \in Proc
ASSUME DirAssumption == "dir" \in Types     \* the tests open "."

VARIABLES
    script,         \* the calls still to be made
    cnt,            \* how many calls of open failed
    fail            \* an expectation was not met

test == <<script, cnt, fail>>

Call(op, arg) == [op |-> op, arg |-> arg]
ForAll(op, low, high) == [i \in 1 .. (high - low + 1) |-> Call(op, low + i - 1)]

err_fd(fd) == <<Call("read", fd), Call("write", fd), Call("close", fd)>>

\* One file more is opened than there are descriptors for; one call must fail.
err_open_lots ==
    [i \in 1 .. (MaxFd - 1) |-> Call("open", 0)] \o ForAll("close_any", MinFd, MaxFd - 1)
        \o <<Call("count", 0)>>

err_open == [i \in 1 .. 3 |-> Call("open_missing", 0)]

err_unopened ==
    ForAll("close", 0, MaxFd - 1) \o ForAll("read", MinFd, MaxFd - 1)
        \o ForAll("write", MinFd, MaxFd - 1)

err_vidmap == <<Call("vidmap", 0), Call("vidmap", 1)>>

err_stdin_out == <<Call("write", 0), Call("read", 1)>>

err_syscall_num == <<Call("syscall", 12), Call("syscall", -1), Call("syscall", 0)>>

Tests == <<err_fd(-1), err_fd(MaxFd), err_open_lots, err_open, err_unopened,
           err_vidmap, err_stdin_out, err_syscall_num>>

AllTests ==
    err_fd(-1) \o err_fd(MaxFd) \o err_open_lots \o err_open \o err_unopened
        \o err_vidmap \o err_stdin_out \o err_syscall_num

\* main: one of the tests or, for 0, all of them one after the other; then the
\* program ends.
Selected(select) ==
    (IF select = 0 THEN AllTests ELSE Tests[select]) \o <<Call("halt", 0)>>

TestInit == Init /\ script = <<>> /\ cnt = 0 /\ fail = FALSE

-----------------------------------------------------------------------------
\* The process of the tests starts the program, for one choice of its user.
Start(select) ==
    /\ Execute(Tester)
    /\ script' = Selected(select)
    /\ cnt' = 0
    /\ UNCHANGED fail

\* One system call of the program, with the action of the kernel that answers it.
Invoke(call) ==
    CASE call.op = "open" -> Open(Tester, "dir")
      [] call.op \in {"close", "close_any"} -> Close(Tester, call.arg)
      [] call.op = "read" -> Transfer(Tester, "read", call.arg) \/ DirRead(Tester, call.arg)
      [] call.op = "write" -> Transfer(Tester, "write", call.arg)
      [] call.op = "halt" -> Halt(Tester)
      [] call.op = "open_missing" -> Open(Tester, "missing")
      [] call.op = "vidmap" -> Vidmap(Tester, call.arg)
      [] call.op = "syscall" -> Dispatch(Tester, call.arg)

\* Every call but these must be answered with -1.
Unchecked == {"open", "close_any", "halt"}

\* The next call; the program looks at what it returned.
Test ==
    /\ script # <<>>
    /\ Head(script).op # "count"
    /\ Invoke(Head(script))
    /\ script' = Tail(script)
    /\ cnt' = IF Head(script).op = "open" /\ res' = -1 THEN cnt + 1 ELSE cnt
    /\ fail' = (fail \/ (Head(script).op \notin Unchecked /\ res' # -1))

\* The end of err_open_lots.
CheckCount ==
    /\ script # <<>>
    /\ Head(script).op = "count"
    /\ InUser(Tester)
    /\ script' = Tail(script)
    /\ fail' = (fail \/ cnt # 1)
    /\ UNCHANGED <<vars, cnt>>

\* The program is ended by a signal.
Killed ==
    /\ script # <<>>
    /\ Halt(Tester)
    /\ script' = <<>>
    /\ UNCHANGED <<cnt, fail>>

\* The other processes, and the process of the tests while it runs another
\* program.
Elsewhere ==
    /\ \E p \in Proc : (p = Tester => script = <<>>) /\ Step(p)
    /\ UNCHANGED test

TestNext ==
    \/ \E select \in 0 .. Len(Tests) : Start(select)
    \/ Test
    \/ CheckCount
    \/ Killed
    \/ Elsewhere

TestSpec == TestInit /\ [][TestNext]_<<vars, test>>

-----------------------------------------------------------------------------
\* None of the tests of ece391syserr.c fails, whatever ran in the process before
\* and whatever other processes do meanwhile: every call the kernel must refuse
\* returns -1, and of MaxFd - 1 calls of open exactly one does.
TestsPass == ~fail
=============================================================================
