----------------------------- MODULE Interrupts -----------------------------
(***************************************************************************)
(* Boot (kernel.c, idt.c), the two 8259 interrupt controllers (i8259.c),   *)
(* and how the four handlers use them: where each one sends its EOI, where *)
(* it turns interrupts on again, and where the CPU leaves it for another   *)
(* process (scheduling.c, keyboard.c, rtc.c, sb16.c, int_linkage.S).  What *)
(* the handlers do to tables, buffers and rates is in the other modules;   *)
(* here a key is followed up to the character that is pushed.              *)
(*                                                                         *)
(* A step is a stretch of code with IF = 0, or one between two places      *)
(* where an interrupt can be taken.  There is one context per terminal:    *)
(* the code of its process, under the handlers that interrupted it.        *)
(***************************************************************************)
EXTENDS Naturals, Sequences, SequencesExt

CONSTANTS
    Terminal,       \* 0 .. MAX_TERMINAL_NUM - 1
    Typing,         \* the sequences of keys that users hit and release
    Letter, Sign,   \* the ones that print: letters, and digits and signs
    MaxNest         \* bound: handlers on one stack

ASSUME TerminalAssumption == 0 \in Terminal
ASSUME BoundAssumption == MaxNest \in Nat
ASSUME TypingAssumption == Typing \subseteq Seq(STRING)     \* keys have names

\* The lines in use: 0, 1, 5 and 8.  Line 2 of the master is the slave.
Irq == {"PIT", "KEYBOARD", "SB16", "RTC"}
Line == Irq \cup {"SLAVE"}

\* The priority of a line, the highest first.
Rank == [PIT |-> 0, KEYBOARD |-> 1, SLAVE |-> 2, RTC |-> 2, SB16 |-> 5]

VARIABLES
    boot,           \* how many steps of entry are done
    ready,          \* which they were
    intr_on,        \* the flag IF
    imr,            \* the masked lines: master_mask and slave_mask
    irr,            \* the lines that wait
    isr,            \* the lines in service
    recent,         \* devices that requested since nothing waited
    current_terminal,
    terminal_running,   \* the terminals that were started
    lost,           \* history: terminals whose switch_to_terminal was never finished
    started,        \* the ones that have a process
    cpu,            \* the context that runs
    stack,          \* the handlers on the stack of every context
    typing,         \* the keys still to be hit or released
    held,           \* the keys that are down
    caps,           \* caps lock as the user sees it
    mixed,          \* one of two shift keys was released before the other
    fifo,           \* the scancodes the keyboard holds
    kbd             \* caps_lock_enabled, shift_state, ctrl_state, alt_state

terminals == <<current_terminal, terminal_running, lost>>
contexts == <<terminals, started, cpu, stack>>
keyboard == <<typing, held, caps, mixed, fifo, kbd>>
vars == <<boot, ready, intr_on, imr, irr, isr, recent, contexts, keyboard>>

(***************************************************************************)
(* Frames.                                                                 *)
(*   new    the handler has just been entered                              *)
(*   tail   its end, after sti(): only the iret is left                    *)
(*   alt    the key handler, about to call switch_to_terminal(to)          *)
(*   start  switch_to_terminal, about to execute a shell on terminal `to`  *)
(*   sw     the same, left behind when that shell got the CPU              *)
(*   late   the key handler, about to send its second EOI                  *)
(*   cli    not a handler: a system call with interrupts off               *)
(*   hung   the same, in print_exception for good                          *)
(***************************************************************************)
Frame == [irq : Irq \cup {"none"},
          at : {"new", "tail", "alt", "start", "sw", "late", "cli", "hung"},
          to : Terminal]

Init ==
    /\ boot = 0 /\ ready = {} /\ intr_on = FALSE
    /\ imr = Line /\ irr = {} /\ isr = {} /\ recent = {}
    /\ current_terminal = 0 /\ terminal_running = {0} /\ lost = {}
    /\ started = {} /\ cpu = 0
    /\ stack = [t \in Terminal |-> <<>>]
    /\ typing \in Typing /\ held = {} /\ caps = FALSE /\ mixed = FALSE /\ fifo = <<>>
    /\ kbd = [caps_lock_enabled |-> FALSE, shift_state |-> FALSE,
              ctrl_state |-> FALSE, alt_state |-> FALSE]

\* The top frame of the running context, and the stack with it at another place.
Top == Last(stack[cpu])
AtTop(irq, at) == stack[cpu] # <<>> /\ Top.irq = irq /\ Top.at = at
Moved(at, to) == [stack EXCEPT ![cpu] = Append(Front(@), [irq |-> Top.irq, at |-> at, to |-> to])]
Popped == [stack EXCEPT ![cpu] = Front(@)]

-----------------------------------------------------------------------------
(***************************************************************************)
(* Boot: the steps of entry in order.                                      *)
(***************************************************************************)
BootSteps == <<"idt", "page", "pic", "keyboard", "rtc", "filesystem", "pit",
               "sb16", "terminal", "shell">>
Stopped == Len(BootSteps) + 1

\* The lines that a step unmasks.
Unmasks(step) ==
    CASE step = "pic"      -> {"SLAVE"}
      [] step = "keyboard" -> {"KEYBOARD"}
      [] step = "rtc"      -> {"RTC"}
      [] step = "pit"      -> {"PIT"}
      [] step = "sb16"     -> {"SB16"}
      [] OTHER             -> {}

\* Fault: the sti() that entry has in a comment after init_pit.
EnablesAfter_Pit(step) == step \in {"pit", "sb16", "terminal"}

\* The step after which interrupts are on: the end of init_terminal.
EnablesAfter(step) == step = "terminal"

BootStep ==
    /\ boot < Len(BootSteps)
    /\ stack[0] = <<>>
    /\ boot' = boot + 1
    /\ LET step == BootSteps[boot + 1]
       IN  /\ ready' = ready \cup {step}
           /\ imr' = (IF step = "pic" THEN Line ELSE imr) \ Unmasks(step)
           /\ intr_on' = (intr_on \/ EnablesAfter(step))
           /\ started' = IF step = "shell" THEN started \cup {0} ELSE started
    /\ UNCHANGED <<irr, isr, recent, terminals, cpu, stack, keyboard>>

\* entry returns when the boot loader's magic number or flags are wrong.
BootFails ==
    /\ boot = 0
    /\ boot' = Stopped
    /\ UNCHANGED <<ready, intr_on, imr, irr, isr, recent, contexts, keyboard>>

-----------------------------------------------------------------------------
(***************************************************************************)
(* The controllers.                                                        *)
(***************************************************************************)
\* Fault: the master is not told of the end of an interrupt of the slave.
AfterEoi_SlaveOnly(irq) == isr \ {irq}

\* send_eoi: what is still in service.  For a line of the slave it ends line 2
\* of the master too.
AfterEoi(irq) == isr \ (IF irq = "RTC" THEN {"RTC", "SLAVE"} ELSE {irq})

\* A device requests.  No device is so fast that it requests twice while its
\* first request, or one that came with it, waits; the clock and the sound card
\* request again only when their handlers have answered them.
Request(irq) ==
    /\ "pic" \in ready
    /\ irq \notin recent
    /\ recent' = recent \cup {irq}
    /\ irr' = irr \cup {irq}
    /\ irq = "RTC" => "rtc" \in ready /\ "RTC" \notin isr
    /\ irq = "SB16" => "sb16" \in ready /\ "SB16" \notin isr
    /\ UNCHANGED <<boot, ready, intr_on, imr, isr, contexts, keyboard>>

\* The lines that wait and get through the masks.
Waiting == {i \in irr \ imr : i = "RTC" => "SLAVE" \notin imr}

\* The CPU takes the waiting interrupt of the highest priority, unless one of
\* that priority or a higher one is in service; the gate clears IF.
Take(irq) ==
    /\ intr_on
    /\ irq \in Waiting
    /\ \A i \in Waiting : Rank[irq] <= Rank[i]
    /\ \A i \in isr : Rank[irq] < Rank[i]
    /\ Len(stack[cpu]) < MaxNest
    /\ irr' = irr \ {irq}
    /\ recent' = IF irr' = {} THEN {} ELSE recent
    /\ isr' = isr \cup (IF irq = "RTC" THEN {"RTC", "SLAVE"} ELSE {irq})
    /\ intr_on' = FALSE
    /\ stack' = [stack EXCEPT ![cpu] = Append(@, [irq |-> irq, at |-> "new", to |-> cpu])]
    /\ UNCHANGED <<boot, ready, imr, terminals, started, cpu, keyboard>>

\* The iret of a handler: the code it interrupted had interrupts on.
Return ==
    /\ stack[cpu] # <<>>
    /\ Top.at = "tail"
    /\ stack' = Popped
    /\ intr_on' = TRUE
    /\ UNCHANGED <<boot, ready, imr, irr, isr, recent, terminals, started, cpu, keyboard>>

\* A system call turns interrupts off; if it returns, the iret to the program
\* turns them on again at the latest, also where the code returns early without
\* an sti().
Cli ==
    /\ boot = Len(BootSteps)
    /\ stack[cpu] = <<>>
    /\ stack' = [stack EXCEPT ![cpu] = <<[irq |-> "none", at |-> "cli", to |-> cpu]>>]
    /\ intr_on' = FALSE
    /\ UNCHANGED <<boot, ready, imr, irr, isr, recent, terminals, started, cpu, keyboard>>

Sti ==
    /\ AtTop("none", "cli")
    /\ stack' = Popped
    /\ intr_on' = TRUE
    /\ UNCHANGED <<boot, ready, imr, irr, isr, recent, terminals, started, cpu, keyboard>>

\* Or it does not return: rtc_set_freq divides by a frequency of 0 behind its
\* cli(), and print_exception does not leave its loop.
Hangs ==
    /\ AtTop("none", "cli")
    /\ stack' = Moved("hung", cpu)
    /\ UNCHANGED <<boot, ready, intr_on, imr, irr, isr, recent, terminals, started, cpu,
                   keyboard>>

Hung == AtTop("none", "hung")

-----------------------------------------------------------------------------
(***************************************************************************)
(* The handlers of the timer, the clock and the sound card.                *)
(***************************************************************************)
\* Fault: the EOI comes last, where a handler that halts never gets.
PitEoi_Last(halts) == IF halts THEN isr ELSE AfterEoi("PIT")

\* pit_handler sends the EOI before it switches.
PitEoi(halts) == AfterEoi("PIT")

\* A context that is switched to goes on after its own switch: at the end of
\* pit_handler, or, from switch_to_terminal, on the way back to the key handler.
Resumed(s) ==
    IF Last(s).at = "sw"
    THEN Append(Front(s), [irq |-> "KEYBOARD", at |-> "late", to |-> Last(s).to]) ELSE s

\* The terminals that a stack is about to execute a shell on.
Opening(s) == {s[i].to : i \in {j \in DOMAIN s : s[j].at = "start"}}

\* pit_handler: to the process of a terminal, or to none when the next terminal
\* has no process yet (which one is the matter of Kernel).  There a pending
\* signal can halt the process, with the handlers on its stack.
PitRuns ==
    /\ AtTop("PIT", "new")
    /\ \E next \in started \cup {cpu}, halts \in BOOLEAN :
          LET saved == Moved("tail", cpu)
          IN  /\ halts => next \in started
              /\ isr' = PitEoi(halts)
              /\ cpu' = next
              /\ stack' = [saved EXCEPT ![next] = IF halts THEN <<>> ELSE Resumed(@)]
              /\ lost' = lost \cup (IF halts THEN Opening(stack[next]) ELSE {})
    /\ intr_on' = TRUE
    /\ UNCHANGED <<boot, ready, imr, irr, recent, current_terminal, terminal_running, started,
                   keyboard>>

\* rtc_handler and sb16_handler: EOI, the work with interrupts off, sti().
DeviceRuns(irq) ==
    /\ AtTop(irq, "new")
    /\ isr' = AfterEoi(irq)
    /\ stack' = Moved("tail", cpu)
    /\ intr_on' = TRUE
    /\ UNCHANGED <<boot, ready, imr, irr, recent, terminals, started, cpu, keyboard>>

-----------------------------------------------------------------------------
(***************************************************************************)
(* Keys, and what keyboard_handler and input_handler make of them.         *)
(***************************************************************************)
Shift == {"lshift", "rshift"}
TerminalOf == [f1 |-> 0, f2 |-> 1, f3 |-> 2]

\* Fault: caps lock shifts the signs as well.
key_scancode_Caps(state, k) ==
    [key |-> k, upper |-> state \in {"SHIFT_PRESS", "CAPS_PRESS"}]

\* key_scancode: the four tables.
key_scancode(state, k) ==
    [key |-> k, upper |-> state \in (IF k \in Letter THEN {"SHIFT_PRESS", "CAPS_PRESS"}
                                     ELSE {"SHIFT_PRESS", "CAP_SHI_PRESS"})]

\* What a user means by a key: shift and caps lock cancel out for a letter, and
\* signs only know shift.
Meaning(k) ==
    LET shifted == held \cap Shift # {}
    IN  [key |-> k, upper |-> IF k \in Letter THEN shifted # caps ELSE shifted]

\* The user hits or releases a key.  The scancode carries what was meant by it.
\* The line rises when the keyboard held nothing.
Hit ==
    LET k    == Head(typing)
        down == k \notin held
        now  == IF down THEN held \cup {k} ELSE held \ {k}
    IN  /\ "pic" \in ready
        /\ typing # <<>>
        /\ typing' = Tail(typing)
        /\ held' = now
        /\ caps' = (caps # (k = "caps" /\ down))
        /\ mixed' = (now \cap Shift # {} /\ (mixed \/ (k \in Shift /\ ~down)))
        /\ fifo' = Append(fifo, [key |-> k, down |-> down, sure |-> ~mixed,
                                 meant |-> Meaning(k)])
        /\ irr' = IF fifo = <<>> THEN irr \cup {"KEYBOARD"} ELSE irr
        /\ UNCHANGED <<boot, ready, intr_on, imr, isr, recent, contexts, kbd>>

\* The scancode that is read, and the modifiers after it.
Code == Head(fifo)

Modifiers ==
    [caps_lock_enabled |-> kbd.caps_lock_enabled # (Code.key = "caps" /\ Code.down),
     shift_state |-> IF Code.key \in Shift THEN Code.down ELSE kbd.shift_state,
     ctrl_state  |-> IF Code.key = "ctrl" THEN Code.down ELSE kbd.ctrl_state,
     alt_state   |-> IF Code.key = "alt" THEN Code.down ELSE kbd.alt_state]

IsCtrlC == kbd.ctrl_state /\ Code.down /\ Code.key = "c"

\* Alt-F1 to Alt-F3; with fewer terminals than three the last do nothing.
IsSwitch ==
    /\ kbd.alt_state /\ Code.down
    /\ Code.key \in DOMAIN TerminalOf /\ TerminalOf[Code.key] \in Terminal

\* input_handler gets to putc and key_arr_push; F1 pushes a '\0'.
Pushes ==
    /\ Code.down /\ ~IsCtrlC /\ ~IsSwitch
    /\ ~(kbd.ctrl_state /\ Code.key = "l")
    /\ Code.key \in Letter \cup Sign \cup {"f1"}

current_state ==
    IF kbd.shift_state
    THEN IF kbd.caps_lock_enabled THEN "CAP_SHI_PRESS" ELSE "SHIFT_PRESS"
    ELSE IF kbd.caps_lock_enabled THEN "CAPS_PRESS" ELSE "NOTHING_PRESS"

Pushed == key_scancode(current_state, Code.key)

\* The scancode is read, which lets the keyboard request again for the next.
ReadsCode ==
    /\ AtTop("KEYBOARD", "new")
    /\ fifo' = Tail(fifo)
    /\ kbd' = Modifiers
    /\ irr' = IF fifo' = <<>> THEN irr ELSE irr \cup {"KEYBOARD"}
    /\ UNCHANGED <<boot, ready, imr, recent, terminals, started, cpu, typing, held, caps,
                   mixed>>

\* Most keys are handled with interrupts off, and the EOI comes last.
KeyRuns ==
    /\ ReadsCode
    /\ ~IsCtrlC /\ ~IsSwitch
    /\ isr' = AfterEoi("KEYBOARD")
    /\ stack' = Popped
    /\ intr_on' = TRUE

\* Ctrl-C sends the EOI first, marks the signal, and turns interrupts on.
CtrlCRuns ==
    /\ ReadsCode
    /\ IsCtrlC
    /\ isr' = AfterEoi("KEYBOARD")
    /\ stack' = Moved("late", cpu)
    /\ intr_on' = TRUE

\* Alt-Fx sends the EOI and turns interrupts on before switch_to_terminal.
AltRuns ==
    /\ ReadsCode
    /\ IsSwitch
    /\ isr' = AfterEoi("KEYBOARD")
    /\ stack' = Moved("alt", TerminalOf[Code.key])
    /\ intr_on' = TRUE

\* switch_to_terminal to the terminal on the screen, or to a new one when no pid
\* is free: it returns with interrupts off, then the second EOI and the iret.
SwitchRefuses ==
    /\ AtTop("KEYBOARD", "alt")
    /\ Top.to = current_terminal \/ Top.to \notin terminal_running
    /\ isr' = AfterEoi("KEYBOARD")
    /\ stack' = Popped
    /\ intr_on' = TRUE
    /\ UNCHANGED <<boot, ready, imr, irr, recent, terminals, started, cpu, keyboard>>


\* To a terminal that runs: only the screen changes hands.
SwitchShows ==
    /\ AtTop("KEYBOARD", "alt")
    /\ Top.to # current_terminal /\ Top.to \in terminal_running
    /\ current_terminal' = Top.to
    /\ stack' = Moved("late", Top.to)
    /\ intr_on' = TRUE
    /\ UNCHANGED <<boot, ready, imr, irr, isr, recent, terminal_running, lost, started, cpu,
                   keyboard>>

\* To a new terminal, up to its sti().
SwitchStarts ==
    /\ AtTop("KEYBOARD", "alt")
    /\ Top.to # current_terminal /\ Top.to \notin terminal_running
    /\ current_terminal' = Top.to
    /\ terminal_running' = terminal_running \cup {Top.to}
    /\ stack' = Moved("start", Top.to)
    /\ intr_on' = TRUE
    /\ UNCHANGED <<boot, ready, imr, irr, isr, recent, lost, started, cpu, keyboard>>

\* Its execute: the new shell runs and the key handler is left where it is.
SwitchExecutes ==
    /\ AtTop("KEYBOARD", "start")
    /\ started' = started \cup {Top.to}
    /\ cpu' = Top.to
    /\ stack' = Moved("sw", Top.to)
    /\ intr_on' = TRUE
    /\ UNCHANGED <<boot, ready, imr, irr, isr, recent, terminals, keyboard>>

\* Or it fails, when the last pid was taken meanwhile, and returns with
\* interrupts off.
SwitchFails ==
    /\ AtTop("KEYBOARD", "start")
    /\ isr' = AfterEoi("KEYBOARD")
    /\ stack' = Popped
    /\ intr_on' = TRUE
    /\ lost' = lost \cup {Top.to}
    /\ UNCHANGED <<boot, ready, imr, irr, recent, current_terminal, terminal_running, started,
                   cpu, keyboard>>

\* The end of keyboard_handler after Ctrl-C or Alt-Fx: the second EOI, iret.
LateEoi ==
    /\ AtTop("KEYBOARD", "late")
    /\ isr' = AfterEoi("KEYBOARD")
    /\ stack' = Popped
    /\ intr_on' = TRUE
    /\ UNCHANGED <<boot, ready, imr, irr, recent, terminals, started, cpu, keyboard>>

Running ==
    \/ BootStep \/ BootFails \/ Return \/ Sti
    \/ PitRuns \/ DeviceRuns("RTC") \/ DeviceRuns("SB16")
    \/ KeyRuns \/ CtrlCRuns \/ AltRuns
    \/ SwitchRefuses \/ SwitchShows \/ SwitchStarts \/ SwitchExecutes \/ SwitchFails
    \/ LateEoi

Next ==
    \/ Running
    \/ Cli \/ Hangs
    \/ \E irq \in Irq \ {"KEYBOARD"} : Request(irq)
    \/ \E irq \in Irq : Take(irq)
    \/ Hit

Spec == Init /\ [][Next]_vars

\* Code that is ready runs on, and the CPU takes an interrupt as soon as IF is
\* set: an interrupt that can be taken again and again is taken.  Nothing is
\* assumed of devices, users and programs, nor that a call does not hang.
Fairness == WF_vars(Running) /\ \A irq \in Irq : SF_vars(Take(irq))

FairSpec == Spec /\ Fairness

-----------------------------------------------------------------------------
(***************************************************************************)
(* Properties.                                                             *)
(***************************************************************************)
\* The types of what the controllers, boot and the contexts keep.
TypeOK ==
    /\ boot \in 0 .. Stopped /\ ready \subseteq Range(BootSteps) /\ intr_on \in BOOLEAN
    /\ imr \subseteq Line /\ irr \subseteq Irq /\ isr \subseteq Line /\ recent \subseteq Irq
    /\ current_terminal \in Terminal /\ terminal_running \subseteq Terminal
    /\ lost \subseteq Terminal
    /\ started \subseteq Terminal /\ cpu \in Terminal
    /\ stack \in [Terminal -> Seq(Frame)]

\* A line is in service exactly while its handler is the code that runs and has
\* not sent its EOI, and then interrupts are off: no handler is left with its
\* line in service when the CPU goes to another process or a signal halts it,
\* and no second EOI (keyboard.c 167) ends the service of another interrupt.
InServiceRuns ==
    /\ isr = IF stack[cpu] = <<>> \/ Top.at # "new" THEN {}
             ELSE IF Top.irq = "RTC" THEN {"RTC", "SLAVE"} ELSE {Top.irq}
    /\ isr # {} => ~intr_on

\* What a handler uses of what the steps of boot set up.
Needs ==
    [PIT      |-> {"idt", "pic", "page", "terminal"},
     KEYBOARD |-> {"idt", "pic", "keyboard", "terminal"},
     RTC      |-> {"idt", "pic", "rtc"},
     SB16     |-> {"idt", "pic", "filesystem", "sb16"}]

\* No handler runs before the steps of boot have set up the tables and devices
\* that it uses, whatever devices request meanwhile (kernel.c 153-191, terminal.c
\* 146).  Ctrl-C also uses a process, which is no step of boot: see below.
HandlersReady ==
    \A t \in Terminal : \A i \in DOMAIN stack[t] :
        stack[t][i].irq # "none" => Needs[stack[t][i].irq] \subseteq ready


\* The character that is pushed is the one the user meant when the key went
\* down, however late the interrupt is taken and whatever keys follow (unless
\* one of two shift keys was released before the other: the code takes that
\* for both; keyboard.c 110-154 and 237-248).
TypedAsMeant ==
    [][(KeyRuns /\ Pushes /\ Code.key # "f1" /\ Code.sure) => Pushed = Code.meant]_vars

\* Every interrupt that a device requests is taken, unless a call hangs with
\* interrupts off.
EveryRequestTaken ==
    \A irq \in Irq : irq \in irr ~> (irq \notin irr \/ Hung)
=============================================================================
