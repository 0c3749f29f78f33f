------------------------------- MODULE Kernel -------------------------------
(***************************************************************************)
(* The process table, the per-terminal process stacks, the PIT scheduler   *)
(* and the terminal switch of the kernel in student-distrib: execute and   *)
(* halt (syscall.c), pit_handler (scheduling.c), switch_to_terminal        *)
(* (terminal.c) and the Ctrl-C / Alt-Fx part of input_handler (keyboard.c). *)
(*                                                                         *)
(* There is one CPU.  A step is a stretch of code that runs with IF = 0,   *)
(* so interrupts (ticks and key presses) fall exactly between steps, at    *)
(* the points where the code has interrupts enabled:                       *)
(*   - user mode, and system calls that wait with IF = 1;                  *)
(*   - the window of switch_to_terminal (and of init_terminal at boot)     *)
(*     between its sti() and the cli() that opens execute;                 *)
(*   - the tail of execute after return_to_execute, between its sti() and  *)
(*     the read of retval;                                                 *)
(*   - the endless loop of print_exception.                                *)
(*                                                                         *)
(* Every process owns a kernel stack, abstracted to the sequence of frames *)
(* on it that an interrupt or a child can come back to.  An esp/ebp pair   *)
(* kept in a pcb is a depth in such a stack; depth 0 stands for a pair     *)
(* that was never set, or whose frame has since been popped: loading it    *)
(* jumps into dead stack memory.  From then on, and after an access left   *)
(* of a row of process_terminal that cannot be followed, the machine is    *)
(* "wild" and takes no further step.                                       *)
(***************************************************************************)
EXTENDS Naturals, Sequences

CONSTANTS
    MaxTask,        \* MAX_TASK: slots of process[] and of a process_terminal row
    NumTerminals,   \* MAX_TERMINAL_NUM
    MaxDepth,       \* bound: frames on one kernel stack (interrupt nesting)
    Status,         \* exit statuses that programs pass to halt
    Inputs          \* which rarer inputs happen: Ctrl-C, exceptions, set_handler

ASSUME TaskAssumption == MaxTask \in Nat \ {0}
ASSUME TerminalAssumption == NumTerminals \in Nat \ {0}
ASSUME DepthAssumption == MaxDepth \in Nat
ASSUME StatusAssumption == Status \subseteq Nat /\ 0 \in Status
ASSUME InputsAssumption == Inputs \subseteq {"ctrl_c", "exception", "set_handler"}

Pid      == 0 .. (MaxTask - 1)
Slot     == 0 .. (MaxTask - 1)
Terminal == 0 .. (NumTerminals - 1)

\* What a process_terminal entry outside the array may hold: no pid.
Garbage == MaxTask

EXCEPTION_MAGIC == 15
EXCEPTION_RET   == 256

(***************************************************************************)
(* Frames of a kernel stack.                                               *)
(*   exec  execute, gone to user mode of a child: return_to_execute        *)
(*   ret   execute after return_to_execute and sti(), retval not read yet  *)
(*   sw    switch_to_terminal (init_terminal at boot), about to execute    *)
(*   tick  pit_handler that switched away from this stack                  *)
(*   exc   print_exception, spinning                                       *)
(*   sig   pit_handler in send_signal, IF = 0                              *)
(*   halt  halt about to execute a new shell, IF = 0                       *)
(***************************************************************************)
Frame == {"exec", "ret", "sw", "tick", "exc", "sig", "halt"}

VARIABLES
    process,                \* process[p]: pid p is in use
    process_terminal,       \* process_terminal[t][i]: the pids of terminal t
    process_terminal_cnt,   \* how many of them are live
    current_terminal,       \* the terminal on the screen
    running_terminal,       \* the terminal that owns the CPU
    terminal_running,       \* terminal t has been started
    parent_pid,             \* pcb->parent_pid
    parent_esp,             \* pcb->parent_esp: [pid, depth] on the caller's stack
    schedule_esp,           \* pcb->schedule_esp: depth on the process' own stack
    pending_signal,         \* pcb->pending_signal # 0x3F
    sighandler,             \* pcb->sighandler # signal_default
    retval,                 \* the global that halt leaves for execute
    cpu,                    \* the process whose kernel stack esp points into
    frames,                 \* the kernel stack of every process
    mapped,                 \* the program page that 128MB maps to
    esp0,                   \* the process whose stack tss.esp0 names
    wild,                   \* control was lost
    due,                    \* history: status of the child execute waited for
    eax,                    \* history: the last value execute returned
    race                    \* history: the races that happened

tables   == <<process, process_terminal, process_terminal_cnt>>
pcbs     == <<parent_pid, parent_esp, schedule_esp, pending_signal, sighandler>>
machine  == <<cpu, frames, mapped, esp0>>
history  == <<due, eax, race>>
vars     == <<tables, current_terminal, running_terminal, terminal_running,
              pcbs, retval, machine, wild, history>>

Top(s) == IF s = <<>> THEN "user" ELSE s[Len(s)]

UserMode == ~wild /\ frames[cpu] = <<>>

\* Fault: halt without its cli().
Interruptible_InHalt == ~wild /\ Top(frames[cpu]) \in {"user", "ret", "sw", "exc", "halt"}

\* Points of the kernel where an interrupt can be taken.
Interruptible == ~wild /\ Top(frames[cpu]) \in {"user", "ret", "sw", "exc"}

(***************************************************************************)
(* What process_terminal[t][process_terminal_cnt[t] - 1] can read.  With a *)
(* count of zero the access is one entry left of the row: the last entry   *)
(* of the row before it, or for terminal 0 whatever precedes the array.    *)
(***************************************************************************)
TopReads(t) ==
    IF process_terminal_cnt[t] # 0
    THEN {process_terminal[t][process_terminal_cnt[t] - 1]}
    ELSE IF t # 0 THEN {process_terminal[t - 1][MaxTask - 1]}
    ELSE Pid \cup {Garbage}

\* Fault: the search stops at a pid without looking whether it is in use.
LowestFree_Used(p) == \A q \in Pid : q < p => process[q]

\* Fault: any free pid, not the lowest.
LowestFree_Any(p) == ~process[p]

\* get_pid and the search in execute: the lowest pid that is not in use.
LowestFree(p) == ~process[p] /\ \A q \in Pid : q < p => process[q]

\* A saved parent_esp whose frame is popped when stack q shrinks to n frames.
Cut(links, q, n) ==
    [c \in Pid |-> IF links[c].pid = q /\ links[c].depth > n
                   THEN [links[c] EXCEPT !.depth = 0] ELSE links[c]]

\* Frames of cpu's own stack are popped: what named them is dead.
Pop(stack) ==
    /\ frames' = [frames EXCEPT ![cpu] = stack]
    /\ schedule_esp' = [schedule_esp EXCEPT ![cpu] = IF @ > Len(stack) THEN 0 ELSE @]
    /\ parent_esp' = Cut(parent_esp, cpu, Len(stack))

\* A stack without its top frame.
Below(stack) == SubSeq(stack, 1, Len(stack) - 1)

\* init_terminal where interrupts go on (terminal.c:146).  The CPU takes none
\* before the instruction after sti, and that is the whole store to
\* terminal_running[0] (147): the first can fall before execute.
Init ==
    /\ process = [p \in Pid |-> FALSE]
    /\ process_terminal = [t \in Terminal |-> [i \in Slot |-> 0]]
    /\ process_terminal_cnt = [t \in Terminal |-> 0]
    /\ current_terminal = 0
    /\ running_terminal = 0
    /\ terminal_running = [t \in Terminal |-> t = 0]
    /\ parent_pid = [p \in Pid |-> 0]
    /\ parent_esp = [p \in Pid |-> [pid |-> 0, depth |-> 0]]
    /\ schedule_esp = [p \in Pid |-> 0]
    /\ pending_signal = [p \in Pid |-> FALSE]
    /\ sighandler = [p \in Pid |-> FALSE]
    /\ retval = 0
    /\ cpu = 0
    /\ frames = [p \in Pid |-> IF p = 0 THEN <<"sw">> ELSE <<>>]
    /\ mapped = 0
    /\ esp0 = 0
    /\ wild = FALSE
    /\ due = [p \in Pid |-> 0]
    /\ eax = 0
    /\ race = {}

-----------------------------------------------------------------------------
\* Fault: the first shell is taken for everybody's parent.
ParentOf_First(new) == 0

\* pcb->parent_pid of a process filed on top of current_terminal: the process
\* that was on top there, pid 0 when there was none, itself for pid 0.
ParentOf(new) ==
    LET c == process_terminal_cnt[current_terminal]
    IN  IF new # 0 /\ c # 0 THEN process_terminal[current_terminal][c - 1] ELSE 0

(***************************************************************************)
(* execute, from the allocation of the pid to the iret.  `waits` tells     *)
(* whether the caller's frame can be returned to: it cannot when the       *)
(* caller is halt, nor when the new process takes over the same stack.     *)
(***************************************************************************)
Spawn(new, waits) ==
    /\ LowestFree(new)
    /\ process' = [process EXCEPT ![new] = TRUE]
    /\ LET t == current_terminal
           c == process_terminal_cnt[t]
       IN  /\ process_terminal' = [process_terminal EXCEPT ![t][c] = new]
           /\ process_terminal_cnt' = [process_terminal_cnt EXCEPT ![t] = c + 1]
    /\ parent_pid' = [parent_pid EXCEPT ![new] = ParentOf(new)]
    /\ parent_esp' = [Cut(IF waits THEN parent_esp ELSE Cut(parent_esp, cpu, 0),
                         new, 0) EXCEPT ![new] =
           [pid |-> cpu,
            depth |-> IF waits /\ new # cpu THEN Len(frames[cpu]) + 1 ELSE 0]]
    /\ frames' = [frames EXCEPT ![cpu] = IF waits THEN Append(@, "exec") ELSE <<>>,
                                ![new] = <<>>]
    /\ schedule_esp' = [schedule_esp EXCEPT ![cpu] = IF waits THEN @ ELSE 0,
                                            ![new] = 0]
    /\ pending_signal' = [pending_signal EXCEPT ![new] = FALSE]
    /\ sighandler' = [sighandler EXCEPT ![new] = FALSE]
    /\ cpu' = new
    /\ mapped' = new
    /\ esp0' = new
    /\ race' = IF current_terminal # running_terminal
               THEN race \cup {"misfiled"} ELSE race
    /\ UNCHANGED <<current_terminal, running_terminal, terminal_running,
                   retval, wild, due, eax>>

\* The execute system call of the process in user mode.  (A call that fails
\* because the file or a free pid is missing changes nothing.)
Execute ==
    /\ UserMode
    /\ Len(frames[cpu]) < MaxDepth
    /\ \E new \in Pid : Spawn(new, TRUE)

\* execute("shell") at the end of switch_to_terminal and of init_terminal.
SwitchExecute ==
    /\ ~wild
    /\ Top(frames[cpu]) = "sw"
    /\ Len(frames[cpu]) < MaxDepth
    /\ \E new \in Pid : Spawn(new, TRUE)

\* The same call when the last pid was taken since get_pid was asked: it
\* returns -1 and switch_to_terminal returns to the interrupted code.
SwitchExecuteFails ==
    /\ ~wild
    /\ Top(frames[cpu]) = "sw"
    /\ \A p \in Pid : process[p]
    /\ Pop(Below(frames[cpu]))
    /\ UNCHANGED <<tables, current_terminal, running_terminal, terminal_running,
                   parent_pid, pending_signal, sighandler, retval,
                   cpu, mapped, esp0, wild, history>>

\* execute("shell") inside halt, with interrupts still off.
HaltExecute ==
    /\ ~wild
    /\ Top(frames[cpu]) = "halt"
    /\ \E new \in Pid : Spawn(new, FALSE)

\* execute after return_to_execute: retval is read with interrupts on.
\* When execute was called by switch_to_terminal that one returns as well.
ExecuteReturns ==
    /\ ~wild
    /\ Top(frames[cpu]) = "ret"
    /\ LET below == Below(frames[cpu])
       IN  Pop(IF Top(below) = "sw" THEN Below(below) ELSE below)
    /\ eax' = IF retval = EXCEPTION_MAGIC THEN EXCEPTION_RET ELSE 0
    /\ UNCHANGED <<tables, current_terminal, running_terminal, terminal_running,
                   parent_pid, pending_signal, sighandler, retval,
                   cpu, mapped, esp0, wild, due, race>>

-----------------------------------------------------------------------------
\* Fault: the slot of the halted process is not cleared.
Release_KeepsSlot(victim) ==
    LET t == running_terminal
        c == process_terminal_cnt[t]
    IN  /\ c # 0
        /\ victim = process_terminal[t][c - 1]
        /\ process' = [process EXCEPT ![victim] = FALSE]
        /\ process_terminal_cnt' = [process_terminal_cnt EXCEPT ![t] = c - 1]
        /\ mapped' = parent_pid[victim]
        /\ esp0' = parent_pid[victim]
        /\ UNCHANGED process_terminal

\* Fault: the parent's program page is not mapped again.
Release_KeepsPage(victim) ==
    LET t == running_terminal
        c == process_terminal_cnt[t]
    IN  /\ c # 0
        /\ victim = process_terminal[t][c - 1]
        /\ process' = [process EXCEPT ![victim] = FALSE]
        /\ process_terminal' = [process_terminal EXCEPT ![t][c - 1] = 0]
        /\ process_terminal_cnt' = [process_terminal_cnt EXCEPT ![t] = c - 1]
        /\ esp0' = parent_pid[victim]
        /\ UNCHANGED mapped

\* Every halt takes the process on top of running_terminal off the table and
\* maps its parent's program page, whoever the caller is.
Release(victim) ==
    LET t == running_terminal
        c == process_terminal_cnt[t]
    IN  /\ c # 0
        /\ victim = process_terminal[t][c - 1]
        /\ process' = [process EXCEPT ![victim] = FALSE]
        /\ process_terminal' = [process_terminal EXCEPT ![t][c - 1] = 0]
        /\ process_terminal_cnt' = [process_terminal_cnt EXCEPT ![t] = c - 1]
        /\ mapped' = parent_pid[victim]
        /\ esp0' = parent_pid[victim]

\* Fault: only pid 0 is restarted.
Restarts_FirstOnly(victim) == victim = 0

\* halt does not return to the parent of pid 0 or of a terminal's last process.
Restarts(victim) == victim = 0 \/ process_terminal_cnt[running_terminal] = 1

\* halt up to its call of execute("shell").
HaltRestarts ==
    /\ \E victim \in Pid : Release(victim) /\ Restarts(victim)
    /\ frames' = [frames EXCEPT ![cpu] = <<"halt">>]
    /\ schedule_esp' = [schedule_esp EXCEPT ![cpu] = 0]
    /\ parent_esp' = Cut(parent_esp, cpu, 0)
    /\ UNCHANGED <<current_terminal, running_terminal, terminal_running,
                   parent_pid, pending_signal, sighandler, retval, cpu, wild,
                   history>>

\* halt that jumps to return_to_execute on the stack that parent_esp names.
HaltReturns(status) ==
    \E victim \in Pid :
      LET q == parent_esp[victim].pid
          n == parent_esp[victim].depth
      IN  /\ Release(victim)
          /\ ~Restarts(victim)
          /\ n # 0
          /\ cpu' = q
          /\ frames' = [[frames EXCEPT ![cpu] = <<>>] EXCEPT
                           ![q] = Append(SubSeq(frames[q], 1, n - 1), "ret")]
          /\ schedule_esp' = [[schedule_esp EXCEPT ![cpu] = 0] EXCEPT
                           ![q] = IF schedule_esp[q] >= n THEN 0 ELSE schedule_esp[q]]
          /\ parent_esp' = Cut(IF q = cpu THEN parent_esp ELSE Cut(parent_esp, cpu, 0),
                               q, n - 1)
          /\ retval' = status
          /\ due' = [due EXCEPT ![q] = status]
          /\ UNCHANGED <<current_terminal, running_terminal, terminal_running,
                         parent_pid, pending_signal, sighandler, wild, eax, race>>

\* halt whose parent_esp names no live frame, or with no process to take off.
HaltLost(status) ==
    \/ /\ \E victim \in Pid :
            /\ Release(victim)
            /\ ~Restarts(victim)
            /\ parent_esp[victim].depth = 0
       /\ retval' = status
       /\ wild' = TRUE
       /\ UNCHANGED <<current_terminal, running_terminal, terminal_running, pcbs,
                      cpu, frames, history>>
    \/ /\ process_terminal_cnt[running_terminal] = 0
       /\ wild' = TRUE
       /\ UNCHANGED <<tables, current_terminal, running_terminal,
                      terminal_running, pcbs, retval, machine, history>>

halt(status) == HaltRestarts \/ HaltReturns(status) \/ HaltLost(status)

\* The halt system call.
Halt(status) == UserMode /\ halt(status)

\* An exception in user mode: print_exception prints and loops for ever.
Exception ==
    /\ "exception" \in Inputs
    /\ UserMode
    /\ Len(frames[cpu]) < MaxDepth
    /\ frames' = [frames EXCEPT ![cpu] = Append(@, "exc")]
    /\ UNCHANGED <<tables, current_terminal, running_terminal, terminal_running,
                   pcbs, retval, cpu, mapped, esp0, wild, history>>

\* set_handler with a handler address.
SetHandler ==
    /\ "set_handler" \in Inputs
    /\ UserMode
    /\ ~sighandler[cpu]
    /\ sighandler' = [sighandler EXCEPT ![cpu] = TRUE]
    /\ UNCHANGED <<tables, current_terminal, running_terminal, terminal_running,
                   parent_pid, parent_esp, schedule_esp, pending_signal, retval,
                   machine, wild, history>>

-----------------------------------------------------------------------------
(***************************************************************************)
(* pit_handler.                                                            *)
(***************************************************************************)
\* A terminal other than 0 has a process: the branch that switches.
OtherTerminalBusy == \E t \in Terminal \ {0} : process_terminal_cnt[t] # 0

\* Fault: the search starts at the running terminal itself.
Searched_Self(d) == d = NumTerminals

\* The search loop stops after d steps: at the first running terminal, or at
\* its last iteration, which is running_terminal itself.
Searched(d) ==
    /\ terminal_running[(running_terminal + d) % NumTerminals] \/ d = NumTerminals
    /\ \A e \in 1 .. (d - 1) : ~terminal_running[(running_terminal + e) % NumTerminals]

\* An interrupt in the window of switch_to_terminal.
WindowRace ==
    IF Top(frames[cpu]) = "sw" THEN race \cup {"window"} ELSE race

\* The tick saves the interrupted context, loads the context of `next` and,
\* if a signal is pending there, goes on to send_signal with IF = 0.
Resume(next, saved, stacks) ==
    LET n     == saved[next]
        below == SubSeq(stacks[next], 1, n - 1)
    IN  /\ n # 0
        /\ cpu' = next
        /\ frames' = [stacks EXCEPT ![next] =
                         IF pending_signal[next] THEN Append(below, "sig") ELSE below]
        /\ schedule_esp' = [saved EXCEPT ![next] = 0]
        /\ parent_esp' = Cut(parent_esp, next, n - 1)
        /\ wild' = wild

\* The context to load was never saved or is dead.
ResumeLost(next, saved, stacks) ==
    /\ saved[next] = 0
    /\ wild' = TRUE
    /\ frames' = stacks
    /\ schedule_esp' = saved
    /\ UNCHANGED <<cpu, parent_esp>>

TickSwitch ==
    /\ Interruptible
    /\ OtherTerminalBusy
    /\ Len(frames[cpu]) < MaxDepth
    /\ \E d \in 1 .. NumTerminals :
         /\ Searched(d)
         /\ running_terminal' = (running_terminal + d) % NumTerminals
         /\ \E next \in Pid \cap TopReads((running_terminal + d) % NumTerminals) :
              LET saved  == [schedule_esp EXCEPT ![cpu] = Len(frames[cpu]) + 1]
                  stacks == [frames EXCEPT ![cpu] = Append(@, "tick")]
              IN  /\ Resume(next, saved, stacks) \/ ResumeLost(next, saved, stacks)
                  /\ mapped' = next
                  /\ esp0' = next
    /\ race' = WindowRace
    /\ UNCHANGED <<tables, current_terminal, terminal_running, parent_pid,
                   pending_signal, sighandler, retval, due, eax>>

\* The branch without a switch: only a pending signal has an effect.
TickSignal ==
    /\ Interruptible
    /\ ~OtherTerminalBusy
    /\ process_terminal_cnt[0] # 0
    /\ pending_signal[cpu]
    /\ Len(frames[cpu]) < MaxDepth
    /\ frames' = [frames EXCEPT ![cpu] = Append(@, "sig")]
    /\ race' = WindowRace
    /\ UNCHANGED <<tables, current_terminal, running_terminal, terminal_running,
                   pcbs, retval, cpu, mapped, esp0, wild, due, eax>>

\* send_signal with signal_default: INTERRUPT halts with status 0.
SignalHalts ==
    /\ ~wild
    /\ Top(frames[cpu]) = "sig"
    /\ ~sighandler[cpu]
    /\ halt(0)

\* send_signal with a handler of the program.  The signal stays pending when
\* the tick came through the branch that switches.
SignalHandled ==
    /\ ~wild
    /\ Top(frames[cpu]) = "sig"
    /\ sighandler[cpu]
    /\ Pop(Below(frames[cpu]))
    /\ pending_signal' = [pending_signal EXCEPT ![cpu] = @ /\ OtherTerminalBusy]
    /\ UNCHANGED <<tables, current_terminal, running_terminal, terminal_running,
                   parent_pid, sighandler, retval,
                   cpu, mapped, esp0, wild, history>>

-----------------------------------------------------------------------------
(***************************************************************************)
(* Keys.                                                                   *)
(***************************************************************************)
\* Ctrl-C: INTERRUPT to the process on top of the terminal on the screen.
CtrlC ==
    /\ "ctrl_c" \in Inputs
    /\ Interruptible
    /\ \E p \in TopReads(current_terminal) :
         \/ /\ p \in Pid
            /\ pending_signal' = [pending_signal EXCEPT ![p] = TRUE]
            /\ wild' = wild
         \/ /\ p = Garbage
            /\ wild' = TRUE
            /\ UNCHANGED pending_signal
    /\ race' = WindowRace
    /\ UNCHANGED <<tables, current_terminal, running_terminal, terminal_running,
                   parent_pid, parent_esp, schedule_esp, sighandler, retval,
                   machine, due, eax>>

\* Alt-Fx to a terminal that runs: only the screen changes hands.
SwitchToRunning(t) ==
    /\ Interruptible
    /\ t # current_terminal
    /\ terminal_running[t]
    /\ current_terminal' = t
    /\ UNCHANGED <<tables, running_terminal, terminal_running, pcbs, retval,
                   machine, wild, history>>

\* Alt-Fx to a terminal that does not run: the interrupted context is saved
\* and the terminal takes over, interrupts on, before it has a process.
SwitchToNew(t) ==
    /\ Interruptible
    /\ t # current_terminal
    /\ ~terminal_running[t]
    /\ \E p \in Pid : ~process[p]
    /\ Len(frames[cpu]) + 1 < MaxDepth
    /\ terminal_running' = [terminal_running EXCEPT ![t] = TRUE]
    /\ current_terminal' = t
    /\ running_terminal' = t
    /\ frames' = [frames EXCEPT ![cpu] = Append(@, "sw")]
    /\ schedule_esp' = [schedule_esp EXCEPT ![cpu] = Len(frames[cpu]) + 1]
    /\ race' = WindowRace
    /\ UNCHANGED <<tables, parent_pid, parent_esp, pending_signal, sighandler,
                   retval, cpu, mapped, esp0, wild, due, eax>>

Next ==
    \/ Execute
    \/ SwitchExecute
    \/ SwitchExecuteFails
    \/ HaltExecute
    \/ ExecuteReturns
    \/ \E s \in Status : Halt(s)
    \/ Exception
    \/ SetHandler
    \/ TickSwitch
    \/ TickSignal
    \/ SignalHalts
    \/ SignalHandled
    \/ CtrlC
    \/ \E t \in Terminal : SwitchToRunning(t)
    \/ \E t \in Terminal : SwitchToNew(t)

Spec == Init /\ [][Next]_vars

(***************************************************************************)
(* Fairness: the PIT interrupts periodically and the PIC keeps a request   *)
(* until interrupts are enabled, so ticks are taken whenever they can be   *)
(* again and again (strong fairness); the code between two interrupts runs *)
(* on (weak fairness).                                                     *)
(* Nothing is assumed of programs or of the keyboard.                      *)
(***************************************************************************)
Fairness ==
    /\ SF_vars(TickSwitch)
    /\ SF_vars(TickSignal)
    /\ WF_vars(SwitchExecute \/ SwitchExecuteFails)
    /\ WF_vars(HaltExecute)
    /\ WF_vars(ExecuteReturns)
    /\ WF_vars(SignalHalts \/ SignalHandled)

FairSpec == Spec /\ Fairness

-----------------------------------------------------------------------------
(***************************************************************************)
(* Properties.                                                             *)
(***************************************************************************)
\* Link: a saved parent_esp.
Link == [pid : Pid, depth : Nat]

\* The variables hold what their C declarations can hold, and the counts stay
\* within a row of process_terminal.
TypeOK ==
    /\ process \in [Pid -> BOOLEAN]
    /\ process_terminal \in [Terminal -> [Slot -> Pid]]
    /\ process_terminal_cnt \in [Terminal -> 0 .. MaxTask]
    /\ current_terminal \in Terminal
    /\ running_terminal \in Terminal
    /\ terminal_running \in [Terminal -> BOOLEAN]
    /\ parent_pid \in [Pid -> Pid]
    /\ parent_esp \in [Pid -> Link]
    /\ schedule_esp \in [Pid -> Nat]
    /\ pending_signal \in [Pid -> BOOLEAN]
    /\ sighandler \in [Pid -> BOOLEAN]
    /\ retval \in Nat
    /\ cpu \in Pid
    /\ frames \in [Pid -> Seq(Frame)]
    /\ mapped \in Pid
    /\ esp0 \in Pid
    /\ wild \in BOOLEAN
    /\ due \in [Pid -> Nat]
    /\ eax \in {0, EXCEPTION_RET}
    /\ race \subseteq {"misfiled", "window"}

\* Slot i of terminal t holds a live process.
Live(t, i) == i < process_terminal_cnt[t]

\* No process is on two terminals or twice on one (execute 226-231, halt 54-56).
ListedOnce ==
    \A t, u \in Terminal : \A i, j \in Slot :
        /\ Live(t, i) /\ Live(u, j)
        /\ process_terminal[t][i] = process_terminal[u][j]
        => t = u /\ i = j

\* Every listed process is in use, so its pid is not handed out again.
ListedInUse ==
    \A t \in Terminal : \A i \in Slot :
        Live(t, i) => process[process_terminal[t][i]]

\* Every pid in use is on some terminal, so halt can free it again.
InUseListed ==
    \A p \in Pid : process[p] =>
        \E t \in Terminal, i \in Slot : Live(t, i) /\ process_terminal[t][i] = p

\* The two tables that execute and halt keep agree: the pids in use are the
\* pids in the live slots of process_terminal, each in one slot.  It holds
\* even when processes are filed under the wrong terminal, so pids never leak
\* and no row of process_terminal overflows.
TablesAgree == ListedOnce /\ ListedInUse /\ InUseListed

\* get_terminal_id: the first row that holds the pid anywhere, freed slots too.
NotRunning == 63
get_terminal_id(p) ==
    LET rows == {t \in Terminal : \E i \in Slot : process_terminal[t][i] = p}
    IN  IF rows = {} THEN NotRunning
        ELSE CHOOSE t \in rows : \A u \in rows : t <= u

\* What its header promises: the terminal the process runs on, or 0x3F.
RunsOn(p) ==
    LET rows == {t \in Terminal : \E i \in Slot :
                    Live(t, i) /\ process_terminal[t][i] = p}
    IN  IF rows = {} THEN NotRunning ELSE CHOOSE t \in rows : TRUE

\* get_terminal_id is right for every pid but 0, in every state, because halt
\* leaves a 0 in the slots it frees (syscall.c 55), which is pid 0.
TerminalIdOfOthers == \A p \in Pid \ {0} : get_terminal_id(p) = RunsOn(p)

\* A saved context that is still live names a frame of the stack it is on:
\* schedule_esp one of the process' own, parent_esp one of the caller's.
ContextsInside ==
    /\ \A p \in Pid : schedule_esp[p] <= Len(frames[p])
    /\ \A p \in Pid : parent_esp[p].depth <= Len(frames[parent_esp[p].pid])

\* The process that runs when terminal t gets the CPU.
TopOf(t) == process_terminal[t][process_terminal_cnt[t] - 1]

\* The CPU is at a point where the running terminal has its process.
Settled == ~wild /\ Top(frames[cpu]) \notin {"sw", "halt"}

\* Isolation: unless execute ran for a terminal that was not on the screen, or
\* an interrupt fell into the window of switch_to_terminal, the code on the CPU
\* is the top process of the running terminal, in its own program page and on
\* its own kernel stack; so halt takes off its caller, not someone else.
Isolation ==
    race = {} /\ Settled =>
        /\ process_terminal_cnt[running_terminal] # 0
        /\ cpu = TopOf(running_terminal)
        /\ mapped = cpu
        /\ esp0 = cpu

\* Without one of these two races no dead context is ever loaded and no entry
\* left of a row of process_terminal is used for a pcb.
LostOnlyByRace == wild => race # {}

\* Without a race every other started terminal has a process whose saved
\* context is live: the next tick can always resume it.
Resumable ==
    race = {} /\ ~wild =>
        \A t \in Terminal :
            t # running_terminal /\ terminal_running[t] =>
                /\ process_terminal_cnt[t] # 0
                /\ schedule_esp[TopOf(t)] # 0

\* Without a race every process above the bottom of its terminal was started
\* by the one below it, which waits in execute on the frame halt jumps to.
ParentBelow ==
    race = {} =>
        \A t \in Terminal : \A i \in Slot \ {0} :
            Live(t, i) =>
                LET p == process_terminal[t][i]
                    q == process_terminal[t][i - 1]
                IN  parent_pid[p] = q /\ parent_esp[p] = [pid |-> q, depth |-> 1]

\* execute reports 256 for a child that died by an exception only (its header
\* and the comment before it reads retval).
ReportsOwnChild ==
    [][ExecuteReturns => (eax' = EXCEPTION_RET <=> due[cpu] = EXCEPTION_MAGIC)]_vars

\* The tables implement one stack of processes per terminal: execute pushes
\* the lowest free pid, halt pops, and ticks, keys and signals leave every
\* stack alone (syscall.c 37-56 and 192-231).
Stacks == INSTANCE TerminalStacks WITH
    stacks <- [t \in Terminal |->
                 [i \in 1 .. process_terminal_cnt[t] |-> process_terminal[t][i - 1]]]

ImplementsStacks == Stacks!Spec

\* Round robin: a terminal with a process gets the CPU again and again.
EveryTerminalRuns ==
    \A t \in Terminal :
        process_terminal_cnt[t] # 0 ~> (running_terminal = t \/ race # {})

\* Ctrl-C takes effect: a process with a pending signal that stays on top of
\* its terminal is halted or runs its own handler, even when it spins in
\* print_exception.
CtrlCTakesEffect ==
    \A t \in Terminal : \A p \in Pid :
        (process_terminal_cnt[t] # 0 /\ TopOf(t) = p /\ pending_signal[p]) ~>
            (process_terminal_cnt[t] = 0 \/ TopOf(t) # p \/ ~pending_signal[p]
             \/ sighandler[p] \/ race # {})

=============================================================================
